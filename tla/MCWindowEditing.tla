--------------------------- MODULE MCWindowEditing ---------------------------
(***************************************************************************)
(* The parts of the window that change something the user keeps, on a small *)
(* instance: the document editors and the diagrams they draw, the           *)
(* repository panel and its reads, the terminal panes, the settings and the *)
(* settings page of a project.  A behaviour drives one of them; the others  *)
(* keep an initial state.                                                   *)
(***************************************************************************)
EXTENDS Documents, RepositoryReads, GitRail, Terminal, Settings, ProjectPage, Diagrams

windowVars ==
  <<surface, documentVars, repositoryReadVars, railVars, terminalVars, settingVars, pageVars,
    diagramVars>>

\* The parts start side by side; one that is not driven starts in one state.
Init ==
  /\ surface \in Surfaces
  /\ DocumentInit /\ (surface # "documents" => ed.kind = "diagram")
  /\ RepositoryReadInit /\ (surface # "repository" => readKind = "status")
  /\ RailInit /\ (surface # "rail" => works = CHOOSE w \in RailVerbs : TRUE)
  /\ TerminalInit /\ (surface # "terminal" => pty.started)
  /\ SettingsInit
  /\ surface # "appearance" => stored = DEFAULT_APPEARANCE
  /\ surface # "sheet" => sheet.doc = "tools" /\ sheet.core = DefaultSheet
  /\ PageInit
  /\ DiagramsInit
  /\ root = CHOOSE palette \in Palette : TRUE
  /\ surface # "diagrams" =>
       draft = [NoDraft EXCEPT !.source = CHOOSE source \in Source : source.body \notin Broken]

Next ==
  /\ \/ /\ DocumentNext
        /\ UNCHANGED <<repositoryReadVars, railVars, terminalVars, settingVars, pageVars, diagramVars>>
     \/ /\ RepositoryReadNext
        /\ UNCHANGED <<documentVars, railVars, terminalVars, settingVars, pageVars, diagramVars>>
     \/ /\ RailNext
        /\ UNCHANGED <<documentVars, repositoryReadVars, terminalVars, settingVars, pageVars, diagramVars>>
     \/ /\ TerminalNext
        /\ UNCHANGED <<documentVars, repositoryReadVars, railVars, settingVars, pageVars, diagramVars>>
     \/ /\ SettingsNext
        /\ UNCHANGED <<documentVars, repositoryReadVars, railVars, terminalVars, pageVars, diagramVars>>
     \/ /\ PageNext
        /\ UNCHANGED <<documentVars, repositoryReadVars, railVars, terminalVars, settingVars, diagramVars>>
     \/ /\ DiagramsNext
        /\ UNCHANGED <<documentVars, repositoryReadVars, railVars, terminalVars, settingVars, pageVars>>
  /\ UNCHANGED surface

Spec == Init /\ [][Next]_windowVars

\* The state of every part is well typed; an editor has one save under way at a time,
\* whatever is queued behind it (useAutosave.ts), and the bounded queues keep their caps.
EditingTypeOK ==
  /\ surface \in Surfaces
  /\ DocumentTypeOK /\ RepositoryReadTypeOK /\ RailTypeOK /\ TerminalTypeOK /\ SettingsTypeOK /\ PageTypeOK
  /\ DiagramsTypeOK
=============================================================================
