------------------------------- MODULE Settings -------------------------------
(***************************************************************************)
(* The settings the window edits.                                           *)
(*                                                                         *)
(* Appearance is one durable document with two kinds of write: the panels   *)
(* replace it whole, the theme commands change it in place in the core.     *)
(* appearanceMutationQueue.ts serialises both: one mutation is out at a     *)
(* time, consecutive pending changes share one write, each is rebased onto  *)
(* the last answer before it is sent, and a refusal re-reads the document.  *)
(*                                                                         *)
(* Every other document (tools, assist, notifications, sidebar, MCP groups, *)
(* hotkeys) is saved by a call of its own and reconciled from its answer    *)
(* (persist.ts), with no queue.                                             *)
(*                                                                         *)
(* wish is a history variable: the document the user has asked for, in the  *)
(* order the controls were used.  astray says why it may not be what is     *)
(* stored, one word for each way the code loses a change or brings an old   *)
(* one back:                                                                *)
(*   early         a control was used before the document was known;        *)
(*   unreconciled  the re-read after a refusal failed;                      *)
(*   unrendered    a mode was chosen between an answer and the render that  *)
(*                 shows it;                                                *)
(*   carried       a mode carried terminal settings that are not those      *)
(*                 asked for: every whole-document change but the           *)
(*                 terminal's own writes them too, as shown when it was     *)
(*                 made, see PatchOf;                                       *)
(*   overlapped    two calls of a document without a queue were out at      *)
(*                 once.                                                    *)
(* The interface font scale is left out: it is written like the mode.       *)
(***************************************************************************)
EXTENDS WindowDomain

CONSTANTS
  ThemeId,        \* bound: the ids custom themes can have; a copy needs a free one
  ThemeText,      \* what a theme file says, its id apart
  SettingsDocument, \* the other settings documents, see Documented
  MaxSettings,        \* bound: changes asked for
  MaxRefusals     \* bound: calls the store fails

VARIABLES
  stored,         \* the Appearance the core holds
  look,           \* AppearanceProvider: ref, the render, the first load
  pending,        \* the mutations queued
  running,        \* the mutation that is out, or None
  panel,          \* ThemeSettings: the editor and the import dialog
  sheet,          \* one of the other documents and its calls
  wish, astray, asks, refusals

appearanceVars == <<stored, look, pending, running, panel>>
settingVars == <<appearanceVars, sheet, wish, astray, asks, refusals>>

------------------------------------------------------------------------------
(* domain.ts *)

Theme == {"light", "dark"}
GlassOpacity == {"40", "60", "80"}
DEFAULT_THEME_ID == 0

Appearance ==
  [theme: Theme, terminal: {"w400", "w500"}, selected: ThemeId \cup {DEFAULT_THEME_ID},
   custom_themes: [ThemeId -> ThemeText \cup {None}], glass_opacity: GlassOpacity]

\* What a patch compares by identity: an answer brings new objects, equal or not.
Objects == {"terminal", "selected", "custom_themes"}

DEFAULT_APPEARANCE ==
  [theme |-> "light", terminal |-> "w400", selected |-> DEFAULT_THEME_ID,
   custom_themes |-> [i \in ThemeId |-> None], glass_opacity |-> "60"]

\* What a new theme starts from: the colours on screen.
FirstText == CHOOSE t \in ThemeText : TRUE

Custom(doc) == {i \in ThemeId : doc.custom_themes[i] # None}
Spare(doc) == ThemeId \ Custom(doc)

Whole == {"theme", "terminal"}
Commands == {"select", "create", "update", "remove", "duplicate", "glass", "import", "replace",
             "keep_both"}

\* before: the ids known when a copy was asked for.
Control(op, id, value) ==
  [op |-> op, id |-> id, value |-> value,
   before |-> IF op = "duplicate" THEN Custom(look.ref) ELSE {}]

------------------------------------------------------------------------------
(* The core (settings/theme/mod.rs, settings.rs): a command is one          *)
(* read-modify-write under the store's lock, and a refused one writes       *)
(* nothing.                                                                 *)

Installs(doc, i, text) == [doc EXCEPT !.custom_themes[i] = text]

SelectTheme(doc, g) ==
  IF g.id \in Custom(doc) \cup {DEFAULT_THEME_ID} THEN {[doc EXCEPT !.selected = g.id]} ELSE {}

InstallCustomTheme(doc, g) ==
  IF g.id \notin Custom(doc) \/ g.op = "replace" THEN {Installs(doc, g.id, g.value)}
  ELSE IF g.op = "keep_both" /\ Spare(doc) # {} THEN {Installs(doc, Min(Spare(doc)), g.value)}
  ELSE {}

UpdateCustomTheme(doc, g) ==
  IF g.id \in Custom(doc) THEN {Installs(doc, g.id, g.value)} ELSE {}

DuplicateTheme(doc, g) ==
  IF g.id \in Custom(doc) /\ Spare(doc) # {} THEN {Installs(doc, Min(Spare(doc)), doc.custom_themes[g.id])} ELSE {}

RemoveCustomTheme(doc, g) ==
  {[Installs(doc, g.id, None) EXCEPT
      !.selected = IF doc.selected = g.id THEN DEFAULT_THEME_ID ELSE @]}

\* The outcomes of a gesture on a document: none when the core refuses it.
Outcomes(doc, g) ==
  CASE g.op = "select" -> SelectTheme(doc, g)
    [] g.op \in {"create", "import", "replace", "keep_both"} -> InstallCustomTheme(doc, g)
    [] g.op = "update" -> UpdateCustomTheme(doc, g)
    [] g.op = "duplicate" -> DuplicateTheme(doc, g)
    [] g.op = "remove" -> RemoveCustomTheme(doc, g)
    [] g.op = "glass" -> {[doc EXCEPT !.glass_opacity = g.value]}
    [] g.op \in {"theme", "terminal"} -> {[doc EXCEPT ![g.op] = g.value]}

\* What the user gets from a gesture done alone: a refused one changes nothing.
Alone(doc, g) == IF Outcomes(doc, g) = {} THEN doc ELSE CHOOSE d \in Outcomes(doc, g) : TRUE

\* Gestures one after the other.
Together(doc, gestures) ==
  LET made[i \in 0..Len(gestures)] == IF i = 0 THEN doc ELSE Alone(made[i - 1], gestures[i])
  IN made[Len(gestures)]

\* All that is asked for in a queue.
Granted(doc, queue) ==
  LET granted[i \in 0..Len(queue)] ==
        IF i = 0 THEN doc ELSE Together(granted[i - 1], queue[i].gestures)
  IN granted[Len(queue)]

------------------------------------------------------------------------------
(* appearanceMutationQueue.ts *)

Mutation(kind, g, patches) == [kind |-> kind, gestures |-> <<g>>, patches |-> patches]

\* { ...document, ...patch }
Spread(doc, patch) == [f \in DOMAIN doc |-> IF f \in DOMAIN patch THEN patch[f] ELSE doc[f]]

Projected(doc, patches) ==
  LET spread[i \in 0..Len(patches)] == IF i = 0 THEN doc ELSE Spread(spread[i - 1], patches[i])
  IN spread[Len(patches)]

\* A change joins the update at the tail of the queue.
Updated(queue, g, patch) ==
  IF queue # <<>> /\ Last(queue).kind = "update"
    THEN [queue EXCEPT ![Len(queue)] =
            [Last(queue) EXCEPT !.gestures = Append(Last(queue).gestures, g),
                                !.patches = Append(Last(queue).patches, patch)]]
    ELSE Append(queue, Mutation("update", g, <<patch>>))

\* A task with a target replaces the task for that target at the tail.
Tasked(queue, g) ==
  IF queue # <<>> /\ g.op = "glass" /\ Last(queue).gestures[1].op = "glass"
    THEN [queue EXCEPT ![Len(queue)] =
            [Last(queue) EXCEPT !.gestures = Append(Last(queue).gestures, g)]]
    ELSE Append(queue, Mutation("task", g, <<>>))

\* Mutant: the write is the document shown when the change was made.
SentUnrebased(m, ref) ==
  [of |-> m, at |-> "out", answer |-> None,
   next |-> IF m.kind = "update" THEN Projected(look.rendered, m.patches) ELSE None]

\* What drain sends for a mutation: an update is computed over the value shown now.
Sent(m, ref) ==
  [of |-> m, at |-> "out", answer |-> None,
   next |-> IF m.kind = "update" THEN Projected(ref, m.patches) ELSE None]

Drain(queue, ref) ==
  IF queue = <<>> THEN running' = None /\ pending' = <<>>
  ELSE running' = Sent(Head(queue), ref) /\ pending' = Tail(queue)

Enqueue(queue, ref) ==
  IF running = None THEN Drain(queue, ref) ELSE pending' = queue /\ UNCHANGED running

\* The document is replaced; the next render shows it.
Adopt(doc) == look' = [look EXCEPT !.ref = doc, !.drawn = FALSE, !.known = TRUE]

\* What a control asks of the document, what of it an update writes, a pending mutation, and one
\* that is out.
AppearanceGesture ==
  [op : Whole \cup Commands, id : ThemeId \cup {DEFAULT_THEME_ID, None},
   value : {None, "w400", "w500"} \cup Theme \cup GlassOpacity \cup ThemeText,
   before : SUBSET ThemeId]
Patch ==
  UNION {{[f \in fields |-> doc[f]] : doc \in Appearance} :
           fields \in SUBSET DOMAIN DEFAULT_APPEARANCE}
PendingMutation ==
  [kind : {"update", "task"}, gestures : Seq(AppearanceGesture), patches : Seq(Patch)]
MutationCall ==
  [of : PendingMutation, at : {"out", "answered", "refused", "read", "unread"},
   answer : Appearance \cup {None}, next : Appearance \cup {None}]

------------------------------------------------------------------------------
(* What the panels offer, over the document they render. *)

SizeSteps(doc) == {Control("terminal", None, v) : v \in {"w400", "w500"} \ {doc.terminal}}

AppearancePanelOffers(doc) == SizeSteps(doc)

\* Clicking the mode that is set unsets the group, which asks for nothing.
AppearanceModeCardsOffers(doc) == {Control("theme", None, v) : v \in Theme \ {doc.theme}}

\* The reset is a commit of the default.
GlassOpacityControlOffers(doc) ==
  {Control("glass", None, v) : v \in GlassOpacity \ {doc.glass_opacity}}

ThemeCardOffers(doc) ==
  {Control("select", i, None) : i \in Custom(doc) \cup {DEFAULT_THEME_ID}}
  \cup {Control("duplicate", i, None) : i \in Custom(doc)}
  \cup {Control("edit", i, doc.custom_themes[i]) : i \in Custom(doc)}
  \cup {Control("askRemove", i, None) : i \in Custom(doc)}

\* commitThemeDraft: an id that is installed is an update, any other a new theme.
CommitsDraft(editor) ==
  Control(IF ~editor.fresh /\ editor.id \in Custom(look.ref) THEN "update" ELSE "create",
          editor.id, editor.text)

ThemeEditorOffers ==
  IF panel.editor = None THEN {}
  ELSE {Control("draft", panel.editor.id, t) : t \in ThemeText \ {panel.editor.text}}
       \cup {Control("cancel", None, None)}
       \cup IF panel.editor.saving THEN {} ELSE {CommitsDraft(panel.editor)}

ThemeImportOffers(d) ==
  IF d.busy THEN {}
  ELSE IF d.conflict THEN {Control(p, d.id, d.text) : p \in {"replace", "keep_both"}}
  ELSE {Control("import", d.id, d.text)}

\* The dialogs are modal; the editor is not.
ThemeSettingsOffers(doc) ==
  IF panel.dialog = None
    THEN AppearanceModeCardsOffers(doc) \cup GlassOpacityControlOffers(doc)
         \cup ThemeCardOffers(doc) \cup ThemeEditorOffers
         \cup {Control(op, i, FirstText) : op \in {"openCreate", "openImport"}, i \in ThemeId}
    ELSE {Control("close", None, None)}
         \cup IF panel.dialog.kind = "remove" THEN {Control("remove", panel.dialog.id, None)}
              ELSE ThemeImportOffers(panel.dialog)

AppearanceOffers(doc) ==
  ThemeSettingsOffers(doc) \cup IF panel.dialog = None THEN AppearancePanelOffers(doc) ELSE {}

------------------------------------------------------------------------------
(* useThemeLibrary.ts, AppearanceProvider.tsx: what a control does. *)

\* saveAsync normalises the new document, which makes a new terminal object, and compares by
\* identity with the document of the last render: a change of the mode writes the terminal
\* settings too, and all that an unrendered answer brought.
PatchOf(g) ==
  LET others == IF g.op = "terminal" THEN {}
                ELSE {"terminal"} \cup
                     IF look.drawn THEN {}
                     ELSE Objects \cup {x \in {"glass_opacity"} : look.ref[x] # look.rendered[x]}
  IN [f \in {g.op} \cup others |-> IF f = g.op THEN g.value ELSE look.ref[f]]

Straying(g) ==
  {w \in {"early", "unrendered", "carried"} :
    \/ w = "early" /\ (look.load \in {"out", "answered"} \/ ~look.known)
    \/ w = "unrendered" /\ g.op = "theme" /\ ~look.drawn
    \/ w = "carried" /\ g.op = "theme" /\ look.ref.terminal # wish.terminal}

\* Once the document is astray no property speaks of it: nothing more is asked.
MayAsk == asks < MaxSettings /\ astray = {}

Asked(g) ==
  /\ MayAsk
  /\ asks' = asks + 1
  /\ wish' = Alone(wish, g)
  /\ astray' = astray \cup Straying(g)
  /\ UNCHANGED <<stored, sheet, refusals>>

\* setAppearance, setAppearanceMode: shown at once, then written.
UpdateAppearance(g) ==
  /\ g.op \in Whole
  /\ Asked(g)
  /\ LET patch == PatchOf(g)
         next == Spread(look.ref, patch)
     IN /\ look' = [look EXCEPT !.ref = next, !.rendered = next, !.drawn = TRUE]
        /\ Enqueue(Updated(pending, g, patch), next)
  /\ UNCHANGED panel

\* Where a command comes from waits for its answer.
Waiting(g) ==
  CASE g.op \in {"create", "update"} -> [panel EXCEPT !.editor.saving = TRUE]
    [] g.op = "remove" -> [panel EXCEPT !.dialog = None]
    [] g.op \in {"import", "replace", "keep_both"} -> [panel EXCEPT !.dialog.busy = TRUE]
    [] OTHER -> panel

RunThemeCommand(g) ==
  /\ g.op \in Commands
  /\ Asked(g)
  /\ Enqueue(Tasked(pending, g), look.ref)
  /\ panel' = Waiting(g)
  /\ UNCHANGED look

Editor(i, text, fresh) == [id |-> i, text |-> text, fresh |-> fresh, saving |-> FALSE]

Opened(g) ==
  CASE g.op = "edit" -> [panel EXCEPT !.editor = Editor(g.id, g.value, FALSE)]
    [] g.op = "openCreate" -> [panel EXCEPT !.editor = Editor(g.id, g.value, TRUE)]
    [] g.op = "draft" -> [panel EXCEPT !.editor.text = g.value]
    [] g.op = "cancel" -> [panel EXCEPT !.editor = None]
    [] g.op = "askRemove" -> [panel EXCEPT !.dialog = [kind |-> "remove", id |-> g.id]]
    [] g.op = "openImport" -> [panel EXCEPT !.dialog = [kind |-> "import", id |-> g.id,
                                  text |-> g.value, busy |-> FALSE, conflict |-> FALSE]]
    [] g.op = "close" -> [panel EXCEPT !.dialog = None]

UsePanel(g) ==
  /\ g.op \notin Whole \cup Commands
  /\ MayAsk
  /\ panel' = Opened(g)
  /\ UNCHANGED <<stored, look, pending, running, sheet, wish, astray, asks, refusals>>

------------------------------------------------------------------------------
(* The calls and their answers. *)

Command(m) == Last(m.gestures)

Serves(m, next) == IF m.kind = "update" THEN {next} ELSE Outcomes(stored, Command(m))

CoreServesAppearance ==
  /\ running # None /\ running.at = "out"
  /\ LET outcomes == Serves(running.of, running.next) IN
     \/ \E doc \in outcomes :
          /\ stored' = doc
          /\ running' = [running EXCEPT !.at = "answered", !.answer = doc]
     \/ outcomes = {} /\ running' = [running EXCEPT !.at = "refused"] /\ UNCHANGED stored
  /\ UNCHANGED <<look, pending, panel, sheet, wish, astray, asks, refusals>>

Asks(m, op) == \E i \in 1..Len(m.gestures) : m.gestures[i].op = op

\* A mode that waits behind terminal settings the store fails brings them back.
Revived == Asks(running.of, "terminal") /\ \E k \in 1..Len(pending) : Asks(pending[k], "theme")

\* The store fails the write: what was asked in it is lost, what is queued is not.
CoreFailsAppearance ==
  /\ running # None /\ running.at = "out" /\ refusals < MaxRefusals
  /\ refusals' = refusals + 1
  /\ running' = [running EXCEPT !.at = "refused"]
  /\ wish' = Granted(stored, pending)
  /\ astray' = astray \cup IF Revived THEN {"carried"} ELSE {}
  /\ UNCHANGED <<stored, look, pending, panel, sheet, asks>>

\* A saved editor closes the editor on screen; a duplicate opens the first new theme.
Resolved(g, doc) ==
  CASE g.op \in {"create", "update"} -> {[panel EXCEPT !.editor = None]}
    [] g.op \in {"import", "replace", "keep_both"} -> {[panel EXCEPT !.dialog = None]}
    [] g.op = "duplicate" -> {[panel EXCEPT !.editor = Editor(i, doc.custom_themes[i], FALSE)] :
                                i \in Custom(doc) \ g.before}
    [] OTHER -> {panel}

AppearanceAnswered ==
  /\ running # None /\ running.at = "answered"
  /\ Adopt(running.answer)
  /\ panel' \in Resolved(Command(running.of), running.answer)
  /\ Drain(pending, running.answer)
  /\ UNCHANGED <<stored, sheet, wish, astray, asks, refusals>>

\* A rejection reaches whoever waits: the import dialog offers the resolutions of a conflict.
Rejected(g) ==
  [panel EXCEPT
    !.editor = IF @ # None /\ g.op \in {"create", "update"} THEN [@ EXCEPT !.saving = FALSE] ELSE @,
    !.dialog = IF @ # None /\ g.op \in {"import", "replace", "keep_both"} /\ @.kind = "import"
                 THEN [@ EXCEPT !.busy = FALSE,
                                !.conflict = panel.dialog.conflict \/ (g.op = "import" /\ g.id \in Custom(look'.ref))]
                 ELSE @]

\* reconcile: the refused call's document is read again.
Reread ==
  /\ running # None /\ running.at = "refused"
  /\ running' = [running EXCEPT !.at = "read", !.answer = stored]
  /\ UNCHANGED <<stored, look, pending, panel, sheet, wish, astray, asks, refusals>>

RereadFails ==
  /\ running # None /\ running.at = "refused" /\ refusals < MaxRefusals
  /\ refusals' = refusals + 1
  /\ running' = [running EXCEPT !.at = "unread"]
  /\ UNCHANGED <<stored, look, pending, panel, sheet, wish, astray, asks>>

AppearanceReconciled ==
  /\ running # None /\ running.at \in {"read", "unread"}
  /\ IF running.at = "read" THEN Adopt(running.answer) /\ UNCHANGED astray
     ELSE astray' = astray \cup {"unreconciled"} /\ UNCHANGED look
  /\ panel' = Rejected(Command(running.of))
  /\ Drain(pending, look'.ref)
  /\ UNCHANGED <<stored, sheet, wish, asks, refusals>>

\* useLoadOnce
CoreServesLoad ==
  /\ look.load = "out"
  /\ look' = [look EXCEPT !.load = "answered", !.read = stored]
  /\ UNCHANGED <<stored, pending, running, panel, sheet, wish, astray, asks, refusals>>

LoadFails ==
  /\ look.load = "out" /\ refusals < MaxRefusals
  /\ refusals' = refusals + 1
  /\ look' = [look EXCEPT !.load = "failed"]
  /\ UNCHANGED <<stored, pending, running, panel, sheet, wish, astray, asks>>

LoadLands ==
  /\ look.load = "answered"
  /\ look' = [look EXCEPT !.load = "landed", !.ref = look.read, !.read = None, !.drawn = FALSE,
                          !.known = TRUE]
  /\ UNCHANGED <<stored, pending, running, panel, sheet, wish, astray, asks, refusals>>

Draw ==
  /\ ~look.drawn
  /\ look' = [look EXCEPT !.rendered = look.ref, !.drawn = TRUE]
  /\ UNCHANGED <<stored, pending, running, panel, sheet, wish, astray, asks, refusals>>

AppearanceNext ==
  \/ \E g \in AppearanceOffers(look.rendered) :
       UpdateAppearance(g) \/ RunThemeCommand(g) \/ UsePanel(g)
  \/ CoreServesAppearance \/ CoreFailsAppearance \/ AppearanceAnswered
  \/ Reread \/ RereadFails \/ AppearanceReconciled
  \/ CoreServesLoad \/ LoadFails \/ LoadLands \/ Draw

------------------------------------------------------------------------------
(* The other documents (useSettingsResource.ts, useMcpToolGroups.ts,        *)
(* HotkeysProvider.tsx).  A document has two settings.                      *)

SettingName == {"first", "second"}
SettingValue == {"default", "other"}
SheetValue == [SettingName -> SettingValue]

\* How a change is sent: the whole document as shown, or the one setting; and whether it is
\* shown before it is answered.
Documented ==
  [tools |-> "whole", assist |-> "whole", notifications |-> "whole", sidebar |-> "whole",
   groups |-> "one", hotkeys |-> "unshown"]

\* There is a theme to start from, its ids are numbered, a document is one of those below and
\* "no call" is not a call.
ASSUME SettingsAssumption ==
  /\ ThemeId # {} /\ ThemeId \subseteq Nat /\ ThemeText # {}
  /\ SettingsDocument \subseteq DOMAIN Documented
  /\ None \notin MutationCall

\* A switch, a select: one setting, to what it is not.
Sets(shown, names) ==
  {<<{o[1]}, o[2]>> : o \in {p \in names \X SettingValue : shown[p[1]] # p[2]}}

SidebarPanelOffers(shown) == Sets(shown, SettingName)
ToolsPanelOffers(shown) == Sets(shown, SettingName)
NotificationsPanelOffers(shown) == Sets(shown, SettingName)
IntegrationsPanelOffers(shown) == Sets(shown, SettingName)
\* The agent tools are only listed; the tool that drafts is the one setting.
AgentsPanelOffers(shown) == Sets(shown, {"first"})

\* HotkeyRow: remap or disable, and reset what is not its default.
HotkeyRowOffers(shown, n) == Sets(shown, {n})
HotkeysPanelOffers(shown) ==
  (UNION {HotkeyRowOffers(shown, n) : n \in SettingName}) \cup {<<SettingName, "default">>}

CallsOut == {c \in DOMAIN sheet.calls : sheet.calls[c].at # "done"}

Calling(kind, value, names) ==
  Append(sheet.calls, [kind |-> kind, value |-> value, names |-> names, at |-> "out"])

With(sheetValue, names, value) ==
  [n \in SettingName |-> IF n \in names THEN value ELSE sheetValue[n]]

\* update, setGroup, remap: the call starts before the change is known to be stored.
ChangeSetting(names, value) ==
  /\ MayAsk
  /\ asks' = asks + 1
  /\ LET next == With(sheet.shown, names, value) IN
     sheet' = [sheet EXCEPT
       !.shown = IF Documented[sheet.doc] = "unshown" THEN @ ELSE next,
       !.calls = Calling("save", next,
                         IF Documented[sheet.doc] = "whole" THEN SettingName ELSE names),
       !.wish = With(@, names, value)]
  /\ astray' = astray \cup (IF sheet.load # "landed" THEN {"early"} ELSE {})
                      \cup (IF CallsOut # {} THEN {"overlapped"} ELSE {})
  /\ UNCHANGED <<appearanceVars, wish, refusals>>

\* The core's update: the whole sub-document, or the named settings of it.
Applied(call) ==
  IF call.kind = "read" THEN sheet.core
  ELSE [n \in SettingName |-> IF n \in call.names THEN call.value[n] ELSE sheet.core[n]]

CoreServesSetting(c) ==
  /\ sheet.calls[c].at = "out"
  /\ LET next == Applied(sheet.calls[c]) IN
     sheet' = [sheet EXCEPT !.core = next,
                            !.calls[c] = [@ EXCEPT !.value = next, !.at = "answered"]]
  /\ UNCHANGED <<appearanceVars, wish, astray, asks, refusals>>

CoreFailsSetting(c) ==
  /\ sheet.calls[c].at = "out" /\ refusals < MaxRefusals
  /\ refusals' = refusals + 1
  /\ sheet' = [sheet EXCEPT !.calls[c].at = "refused",
                            !.wish = IF sheet.calls[c].kind = "save" THEN sheet.core ELSE @]
  /\ UNCHANGED <<appearanceVars, wish, astray, asks>>

\* persistThenReconcile: an answer is shown; a refused write is followed by a read.
SettingAnswered(c) ==
  /\ sheet.calls[c].at = "answered"
  /\ sheet' = [sheet EXCEPT !.shown = sheet.calls[c].value, !.calls[c].at = "done"]
  /\ UNCHANGED <<appearanceVars, wish, astray, asks, refusals>>

SettingRefused(c) ==
  /\ sheet.calls[c].at = "refused"
  /\ LET done == [sheet EXCEPT !.calls[c].at = "done"] IN
     IF sheet.calls[c].kind = "save"
       THEN /\ sheet' = [done EXCEPT !.calls =
                  Append(@, [kind |-> "read", value |-> sheet.shown, names |-> {}, at |-> "out"])]
            /\ UNCHANGED astray
       ELSE sheet' = done /\ astray' = astray \cup {"unreconciled"}
  /\ UNCHANGED <<appearanceVars, wish, asks, refusals>>

SheetServesLoad ==
  /\ sheet.load = "out"
  /\ sheet' = [sheet EXCEPT !.load = "answered", !.read = sheet.core]
  /\ UNCHANGED <<appearanceVars, wish, astray, asks, refusals>>

SheetLoadFails ==
  /\ sheet.load = "out" /\ refusals < MaxRefusals
  /\ refusals' = refusals + 1
  /\ sheet' = [sheet EXCEPT !.load = "failed"]
  /\ UNCHANGED <<appearanceVars, wish, astray, asks>>

SheetLoadLands ==
  /\ sheet.load = "answered"
  /\ sheet' = [sheet EXCEPT !.load = "landed", !.shown = sheet.read]
  /\ UNCHANGED <<appearanceVars, wish, astray, asks, refusals>>

SheetOffers ==
  CASE sheet.doc = "sidebar"       -> SidebarPanelOffers(sheet.shown)
    [] sheet.doc = "tools"         -> ToolsPanelOffers(sheet.shown)
    [] sheet.doc = "notifications" -> NotificationsPanelOffers(sheet.shown)
    [] sheet.doc = "groups"        -> IntegrationsPanelOffers(sheet.shown)
    [] sheet.doc = "assist"        -> AgentsPanelOffers(sheet.shown)
    [] sheet.doc = "hotkeys"       -> HotkeysPanelOffers(sheet.shown)

SheetNext ==
  \/ \E o \in SheetOffers : ChangeSetting(o[1], o[2])
  \/ \E c \in DOMAIN sheet.calls :
       CoreServesSetting(c) \/ CoreFailsSetting(c) \/ SettingAnswered(c) \/ SettingRefused(c)
  \/ SheetServesLoad \/ SheetLoadFails \/ SheetLoadLands

------------------------------------------------------------------------------

DefaultSheet == [n \in SettingName |-> "default"]

\* A library of one custom theme, selected; or the defaults.
SettingsInit ==
  /\ stored \in {DEFAULT_APPEARANCE,
                 [theme |-> "dark", terminal |-> "w500", selected |-> Min(ThemeId),
                  custom_themes |-> [i \in ThemeId |->
                    IF i = Min(ThemeId) THEN FirstText ELSE None],
                  glass_opacity |-> "80"]}
  /\ look = [ref |-> DEFAULT_APPEARANCE, rendered |-> DEFAULT_APPEARANCE, drawn |-> TRUE,
             load |-> "out", read |-> None, known |-> FALSE]
  /\ pending = <<>> /\ running = None
  /\ panel = [editor |-> None, dialog |-> None]
  /\ \E d \in SettingsDocument, core \in SheetValue :
       sheet = [doc |-> d, core |-> core, shown |-> DefaultSheet, calls |-> <<>>,
                load |-> "out", read |-> None, wish |-> core]
  /\ wish = stored
  /\ astray = {} /\ asks = 0 /\ refusals = 0

SettingsNext ==
  \/ surface = "appearance" /\ AppearanceNext
  \/ surface = "sheet" /\ SheetNext

SettingsTypeOK ==
  /\ stored \in Appearance /\ wish \in Appearance
  /\ look.ref \in Appearance /\ look.rendered \in Appearance
  /\ \A k \in DOMAIN pending : pending[k].kind \in {"update", "task"}
  /\ running # None => running.next \in Appearance \cup {None}
  /\ sheet.core \in SheetValue /\ sheet.shown \in SheetValue
  /\ asks <= MaxSettings /\ refusals <= MaxRefusals

------------------------------------------------------------------------------
(* Properties *)

\* With nothing out, what is stored is what was asked for, gesture by gesture in the order the
\* controls were used, and what is shown is what is stored: whatever was coalesced, superseded,
\* rebased or refused on the way (appearanceMutationQueue.ts:44-48).  Left out, because the code
\* does not keep it: a control used before the first read landed, a failed re-read, a mode chosen
\* before an answer was rendered, and a mode that carries terminal settings other than those
\* asked for (AppearanceProvider.tsx:38,57: a size waiting behind a theme command, or refused).
AppearanceKept ==
  surface = "appearance" /\ running = None /\ look.load = "landed" /\ astray = {} =>
    stored = wish /\ look.ref = stored

\* The same of a document saved without a queue, its calls made one at a time: what is shown is
\* what is stored, after a refusal too (persist.ts:1-4).  Left out, because nothing orders the
\* calls or their answers: changes while a call is out, after which the window may keep showing
\* what is not stored; and a change before the first read landed, and a failed re-read.
SheetKept ==
  surface = "sheet" /\ CallsOut = {} /\ sheet.load = "landed" /\ astray = {} =>
    sheet.core = sheet.wish /\ sheet.shown = sheet.core

\* The settings the window edits are kept, with the exceptions named above: the appearance behind
\* its queue, the others behind their single call.
SettingsKept == AppearanceKept /\ SheetKept

==============================================================================
