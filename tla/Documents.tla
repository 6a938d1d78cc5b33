------------------------------- MODULE Documents -------------------------------
(***************************************************************************)
(* The revision-guarded editors of the window: a scratchpad, a diagram, a   *)
(* to-do or a template, edited through useAutosave.ts and one editor hook   *)
(* each.  The core keeps each document's revision and body and accepts a    *)
(* write only at the revision it names; agents write the same documents.    *)
(* Reads, writes and renames are IPC calls: the core serves one at some     *)
(* time after it was sent, and its answer arrives later still.              *)
(*                                                                          *)
(* A body is the set of edits in it, so an edit is lost when a write drops  *)
(* it.  An editor that is remounted gets a new autosave; one that is gone   *)
(* goes on draining what it had queued, through the revision guard that the *)
(* hook keeps in a ref and that the next document shares.  Error lines and  *)
(* the loading placeholder are left out.                                    *)
(***************************************************************************)
EXTENDS WindowDomain

CONSTANTS
  Doc,            \* documents of one kind
  EditorKinds,    \* the editors of the run
  MaxEdits,       \* edits of the user and of agents together
  MaxActs,        \* opens, closes, reloads, renames
  MaxMounts       \* editors mounted one after the other

VARIABLES
  docs,           \* the core: revision, body, and the name as a count of renames
  copies,         \* handles of documents that a save created
  live,           \* the board's snapshot of each to-do
  ed,             \* the editor hook and the mounted editor
  savers,         \* one autosave per editor ever mounted
  writes,         \* saves under way
  reads,          \* loads under way
  renames,        \* renames under way
  docSpent,       \* bounds used up
  resent          \* history: an editor replaced by an answer resent a refused edit

ASSUME DocumentAssumption ==
  /\ EditorKinds \subseteq {"scratchpad", "diagram", "todo", "template"}
  /\ MaxEdits \in Nat /\ MaxMounts \in Nat /\ None \notin Nat
  /\ \A body \in SUBSET (1..MaxEdits) : body # None

documentVars == <<docs, copies, live, ed, savers, writes, reads, renames, docSpent, resent>>

Body == SUBSET (1..MaxEdits)
DocHandle == [doc : Doc, name : Nat]
HandleOf(d) == [doc |-> d, name |-> docs[d].name]

NoSaver == [handle |-> None, phase |-> "clean", pending |-> None, queued |-> None,
            armed |-> FALSE, frozen |-> FALSE, kept |-> None, asked |-> FALSE, unasked |-> FALSE]

-------------------------------------------------------------------------------
(* What each editing surface offers.                                         *)

Is(kinds) == ed.kind \in kinds
Idle == ed.mounted = 0

\* The board pauses on the live revision, the others on a refused save.
TodoConflict == ed.open # None /\ ed.base # None /\ live[ed.open.doc].rev > ed.base
Conflict == IF Is({"todo"}) THEN TodoConflict ELSE ed.conflict

\* RevisionConflictNotice: reloading is the only way out of a conflict.
NoticeOffers == {o \in {"reload"} : Conflict}

\* The rosters open any document over the open one; the header renames it, and
\* a diagram's theme is an edit of its source.
DocumentRosterOffers == {"open"}
DocumentTitleOffers == {"rename"}
ScratchpadPanelOffers == DocumentRosterOffers
ScratchpadEditorOffers == DocumentTitleOffers \cup NoticeOffers
ScratchpadBodyOffers == {"edit", "flush"}
DiagramToolbarOffers == {"edit"}
DiagramPanelOffers == DocumentRosterOffers
DiagramEditorOffers == DocumentTitleOffers \cup DiagramToolbarOffers \cup NoticeOffers
DiagramBodyOffers == {"edit", "flush"}

\* A template is opened from its kind's list only, and left by Back or Delete.
TemplateKindSectionOffers == {"open"}
TemplatesPanelOffers == {o \in TemplateKindSectionOffers : ed.open = None}
TemplateEditorOffers == {"close", "delete"} \cup NoticeOffers
TemplateBodyOffers == {"edit", "flush"}

\* A row's Edit button shows once the row is expanded and is not being edited;
\* collapsing the edited row closes it, expanding another one only unmounts it.
TodoBoardOffers == {"collapse"} \cup {o \in {"expand"} : Idle /\ ed.open # None}
TodoItemOffers == {o \in {"open"} : Idle}
TodoEditorOffers == {"close", "done"} \cup NoticeOffers
TodoDocFieldsOffers == {"edit", "flush"}

Offers ==
  LET panel == CASE Is({"scratchpad"}) -> ScratchpadPanelOffers
                 [] Is({"diagram"})    -> DiagramPanelOffers
                 [] Is({"template"})   -> TemplatesPanelOffers
                 [] Is({"todo"})       -> TodoItemOffers \cup (TodoBoardOffers \cap {"expand"})
      editor == CASE Is({"scratchpad"}) -> ScratchpadEditorOffers \cup ScratchpadBodyOffers
                  [] Is({"diagram"})    -> DiagramEditorOffers \cup DiagramBodyOffers
                  [] Is({"template"})   -> TemplateEditorOffers \cup TemplateBodyOffers
                  [] Is({"todo"})       -> TodoEditorOffers \cup TodoDocFieldsOffers
                                           \cup (TodoBoardOffers \cap {"collapse"})
  IN panel \cup (IF Idle THEN {} ELSE editor)

-------------------------------------------------------------------------------
(* Autosave (useAutosave.ts).                                                *)

\* An unmounted editor keeps the pause flag of its last commit.
Paused(s) == IF s = ed.mounted THEN Conflict ELSE savers[s].frozen

\* A to-do's target is read from a ref when the save starts, the others' from
\* the closure of the editor's last commit.
Target(s, e) == IF Is({"todo"}) THEN e.open ELSE savers[s].handle

\* useTemplateEditor refuses without a revision, before any call.
Sendable(e) == Is({"template"}) => e.base # None

SaveOf(s, body, e) ==
  [saver |-> s, to |-> Target(s, e), body |-> body, guard |-> e.base, stage |-> "sent",
   rev |-> None]

\* A refused save: the newest edit is pending again, and no timer is armed.
Refused(sv) ==
  [sv EXCEPT !.phase = "dirty", !.queued = None, !.armed = FALSE,
             !.pending = IF sv.queued # None THEN sv.queued ELSE @]

\* send: the pending value is in flight.
Sending(sv, e) ==
  IF Sendable(e)
  THEN [sv EXCEPT !.phase = "saving", !.armed = FALSE, !.asked = FALSE,
                  !.unasked = @ \/ ~sv.asked]
  ELSE Refused(sv)
Sends(s, sv, e) == IF Sendable(e) THEN {SaveOf(s, sv.pending, e)} ELSE {}

\* commit: only from dirty, and not while paused.
Commits(s) == s # 0 /\ ~Paused(s) /\ savers[s].phase = "dirty"

\* What commit makes of sv, and the save it sends, with the hook in state e.
Committed(s, sv, e) ==
  IF Commits(s) THEN Sending([sv EXCEPT !.armed = FALSE], e) ELSE [sv EXCEPT !.armed = FALSE]
Committing(s, e) == IF Commits(s) THEN Sends(s, savers[s], e) ELSE {}

\* commit, by the user (blur, Cmd/Ctrl+S, Save, Done) or by the timer.
Commit(s, byUser) ==
  /\ savers' = [savers EXCEPT ![s] = Committed(s, [savers[s] EXCEPT !.asked = @ \/ byUser], ed)]
  /\ writes' = writes \cup Committing(s, ed)

\* Mutant: an edit made while a save is in flight is not queued.
PushedUnqueued(sv, body) ==
  IF sv.phase = "saving" THEN sv
  ELSE [sv EXCEPT !.phase = "dirty", !.pending = body, !.armed = ~Conflict, !.asked = TRUE]

\* Mutant: an edit is pending at once, whatever is in flight.
PushedAtOnce(sv, body) ==
  [sv EXCEPT !.phase = "dirty", !.pending = body, !.armed = ~Conflict, !.asked = TRUE]

\* push: queued behind a save in flight, else pending with the timer armed.
Pushed(sv, body) ==
  IF sv.phase = "saving" THEN [sv EXCEPT !.queued = body, !.asked = TRUE]
  ELSE [sv EXCEPT !.phase = "dirty", !.pending = body, !.armed = ~Conflict, !.asked = TRUE]

\* A save went through: a queued edit is drained at once, unless paused.
Accepted(s, e) ==
  LET sv == [savers[s] EXCEPT !.kept = savers[s].pending]
      next == [sv EXCEPT !.pending = sv.queued, !.queued = None]
  IN IF sv.queued = None THEN [sv EXCEPT !.phase = "clean"]
     ELSE IF Paused(s) THEN [next EXCEPT !.phase = "dirty"]
     ELSE Sending(next, e)

Drained(s, e) ==
  IF savers[s].queued = None \/ Paused(s) THEN {}
  ELSE Sends(s, [savers[s] EXCEPT !.pending = savers[s].queued], e)

\* The outcome of save w, with the hook in state e.
Outcome(w, ok, e) ==
  /\ savers' = [savers EXCEPT ![w.saver] = IF ok THEN Accepted(w.saver, e)
                                           ELSE Refused(savers[w.saver])]
  /\ writes' = (writes \ {w}) \cup (IF ok THEN Drained(w.saver, e) ELSE {})

-------------------------------------------------------------------------------
(* Mounting.                                                                 *)

\* An editor that leaves commits what it has, with the hook already in state e.
Leaving(s, e) == Committed(s, [savers[s] EXCEPT !.asked = TRUE, !.frozen = Conflict], e)

\* The hook moves to e, which shows no editor.
Unmount(e) ==
  LET s == ed.mounted IN
  /\ ed' = [e EXCEPT !.mounted = 0, !.draft = None]
  /\ savers' = IF s = 0 THEN savers ELSE [savers EXCEPT ![s] = Leaving(s, e)]
  /\ writes' = writes \cup Committing(s, e)

\* The hook moves to e, which shows a fresh editor seeded with body.
Remount(e, body) ==
  LET s == ed.mounted
      n == ed.mounts + 1
  IN /\ n <= MaxMounts
     /\ ed' = [e EXCEPT !.mounts = n, !.mounted = n, !.draft = body]
     /\ savers' = [i \in 1..MaxMounts |->
                     IF i = n THEN [NoSaver EXCEPT !.handle = e.open, !.kept = body]
                     ELSE IF i = s THEN Leaving(s, e) ELSE savers[i]]
     /\ writes' = writes \cup Committing(s, e)

\* load: a new request; whatever conflict stood is cleared.
Loading(e) == [e EXCEPT !.load = @ + 1, !.conflict = FALSE]
Load(e) == reads' = reads \cup {[req |-> e.load, to |-> e.open, answer |-> None]}

\* close: useTemplateEditor keeps the revision.
Closed(e) ==
  [e EXCEPT !.open = None, !.initial = None, !.conflict = FALSE, !.load = @ + 1,
            !.base = IF Is({"template"}) THEN @ ELSE None]

-------------------------------------------------------------------------------
(* The user.                                                                 *)

\* One of the surface's operations, other than typing and flushing.
Does(operation) ==
  /\ ~ed.left
  /\ operation \in Offers
  /\ docSpent.acts < MaxActs
  /\ docSpent' = [docSpent EXCEPT !.acts = @ + 1]

\* open: the guard is dropped until the read answers.
Open ==
  /\ Does("open")
  /\ ~Is({"todo"})
  /\ \E d \in {d \in Doc : docs[d].name # None} :
       LET e == Loading([ed EXCEPT !.open = HandleOf(d), !.initial = None, !.base = None])
       IN Unmount(e) /\ Load(e)
  /\ UNCHANGED <<docs, copies, live, renames>>

\* reload, of the editors that read: the editor stays until the answer.
Reload ==
  /\ Does("reload")
  /\ ~Is({"todo"})
  /\ ed' = Loading(ed)
  /\ Load(ed')
  /\ UNCHANGED <<docs, copies, live, savers, writes, renames>>

\* seedEdit: editTodo and the to-do's reload take the board's snapshot.
SeedEdit ==
  /\ Is({"todo"})
  /\ \E d \in Doc :
       /\ Does(IF Conflict /\ ~Idle THEN "reload" ELSE "open")
       /\ Conflict /\ ~Idle => d = ed.open.doc
       /\ Remount([ed EXCEPT !.open = HandleOf(d), !.base = live[d].rev,
                             !.initial = live[d].body], live[d].body)
  /\ UNCHANGED <<docs, copies, live, reads, renames>>

\* toggle, of another row: the editor unmounts, the edit session goes on.
CollapseByOther ==
  /\ ~ed.left /\ "collapse" \in Offers
  /\ Unmount(ed)
  /\ UNCHANGED <<docs, copies, live, reads, renames, docSpent>>

\* toggle, back to the edited row: the editor mounts as it was first opened.
Expand ==
  /\ ~ed.left /\ "expand" \in Offers
  /\ Remount(ed, ed.initial)
  /\ UNCHANGED <<docs, copies, live, reads, renames, docSpent>>

\* toggle of the edited row, and a template's Back.
Close ==
  /\ Does("close")
  /\ Unmount(Closed(ed))
  /\ UNCHANGED <<docs, copies, live, reads, renames>>

\* Done flushes before it closes.
Done ==
  /\ Does("done")
  /\ LET s == ed.mounted IN
       /\ savers' = [savers EXCEPT ![s] = Leaving(s, ed)]
       /\ writes' = writes \cup Committing(s, ed)
  /\ ed' = [Closed(ed) EXCEPT !.mounted = 0, !.draft = None]
  /\ UNCHANGED <<docs, copies, live, reads, renames>>

\* Delete, once the core did it: the editor is closed.
Delete ==
  /\ Does("delete")
  /\ docs' = [docs EXCEPT ![ed.open.doc].name = None]
  /\ Unmount(Closed(ed))
  /\ UNCHANGED <<copies, live, reads, renames>>

\* rename: the core does it; the answer comes later.
Rename ==
  /\ Does("rename")
  /\ docs[ed.open.doc].name = ed.open.name
  /\ docs' = [docs EXCEPT ![ed.open.doc].name = @ + 1]
  /\ renames' = renames \cup {[doc |-> ed.open.doc, name |-> ed.open.name + 1]}
  /\ UNCHANGED <<copies, live, ed, savers, writes, reads>>

\* The panel is left for another tab, and its hook with it.
Leave ==
  /\ ~ed.left
  /\ Unmount([ed EXCEPT !.left = TRUE])
  /\ UNCHANGED <<docs, copies, live, reads, renames, docSpent>>

Edit ==
  /\ ~ed.left
  /\ "edit" \in Offers
  /\ docSpent.edits < MaxEdits
  /\ docSpent' = [docSpent EXCEPT !.edits = @ + 1]
  /\ ed' = [ed EXCEPT !.draft = @ \cup {docSpent.edits + 1}]
  /\ savers' = [savers EXCEPT ![ed.mounted] = Pushed(@, ed.draft \cup {docSpent.edits + 1})]
  /\ UNCHANGED <<docs, copies, live, writes, reads, renames>>

Flush ==
  /\ ~ed.left
  /\ "flush" \in Offers
  /\ Commit(ed.mounted, TRUE)
  /\ UNCHANGED <<docs, copies, live, ed, reads, renames, docSpent>>

\* The idle window after the last edit ends.
AutosaveTimer ==
  /\ ed.mounted # 0
  /\ savers[ed.mounted].armed
  /\ Commit(ed.mounted, FALSE)
  /\ UNCHANGED <<docs, copies, live, ed, reads, renames, docSpent>>

-------------------------------------------------------------------------------
(* The core.                                                                 *)

Exists(h) == docs[h.doc].name = h.name

\* A guarded write applies at its revision only; one without a guard creates.
WriteApplies(w) == w.guard # None /\ Exists(w.to) /\ w.guard = docs[w.to.doc].rev
WriteCreates(w) ==
  w.to = None \/ (w.guard = None /\ Is({"scratchpad", "diagram"}) /\ ~Exists(w.to)
                  /\ w.to \notin copies)

Served(w, stage, rev) ==
  writes' = (writes \ {w}) \cup {[w EXCEPT !.stage = stage, !.rev = rev]}

ServeWrite ==
  \E w \in writes :
    /\ w.stage = "sent"
    /\ IF w.to # None /\ WriteApplies(w)
       THEN /\ docs' = [docs EXCEPT ![w.to.doc].rev = @ + 1, ![w.to.doc].body = w.body]
            /\ Served(w, "saved", w.guard + 1)
            /\ UNCHANGED copies
       ELSE IF WriteCreates(w)
       THEN /\ copies' = copies \cup {w.to}
            /\ Served(w, "created", 1)
            /\ UNCHANGED docs
       ELSE /\ Served(w, "refused", None)
            /\ UNCHANGED <<docs, copies>>
    /\ UNCHANGED <<live, ed, savers, reads, renames, docSpent>>

\* The body is invalid, or the blocked to-do cannot be done: refused.
RefuseWrite ==
  \E w \in writes :
    /\ w.stage = "sent"
    /\ Served(w, "refused", None)
    /\ UNCHANGED <<docs, copies, live, ed, savers, reads, renames, docSpent>>

\* The re-read after a refusal, which a to-do does without.
ServeReread ==
  \E w \in writes :
    /\ w.stage = "refused"
    /\ ~Is({"todo"})
    /\ Served(w, "reread", IF w.to # None /\ Exists(w.to) THEN docs[w.to.doc].rev ELSE None)
    /\ UNCHANGED <<docs, copies, live, ed, savers, reads, renames, docSpent>>

ServeRead ==
  \E r \in reads :
    /\ r.answer = None
    /\ reads' = (reads \ {r}) \cup
                {[r EXCEPT !.answer = IF Exists(r.to)
                                      THEN [rev |-> docs[r.to.doc].rev, body |-> docs[r.to.doc].body]
                                      ELSE [rev |-> None, body |-> None]]}
    /\ UNCHANGED <<docs, copies, live, ed, savers, writes, renames, docSpent>>

\* An agent writes the document as it now is.
AgentWrite ==
  /\ docSpent.edits < MaxEdits
  /\ docSpent' = [docSpent EXCEPT !.edits = @ + 1]
  /\ \E d \in {d \in Doc : docs[d].name # None} :
       docs' = [docs EXCEPT ![d].rev = @ + 1, ![d].body = @ \cup {docSpent.edits + 1}]
  /\ UNCHANGED <<copies, live, ed, savers, writes, reads, renames>>

\* useOrchestration's snapshot reaches the board.
RefreshBoard ==
  /\ Is({"todo"})
  /\ \E d \in Doc :
       /\ live[d].rev # docs[d].rev
       /\ live' = [live EXCEPT ![d] = [rev |-> docs[d].rev, body |-> docs[d].body]]
  /\ UNCHANGED <<docs, copies, ed, savers, writes, reads, renames, docSpent>>

-------------------------------------------------------------------------------
(* Answers.                                                                  *)

\* The read of the latest load: a fresh editor, at the revision read.
ReadAnswered ==
  \E r \in reads :
    /\ r.answer # None
    /\ reads' = reads \ {r}
    /\ IF r.req # ed.load \/ ed.left THEN UNCHANGED <<ed, savers, writes>>
       ELSE IF r.answer.rev = None THEN Unmount([ed EXCEPT !.initial = None])
       ELSE Remount([ed EXCEPT !.base = r.answer.rev, !.initial = r.answer.body], r.answer.body)
    /\ UNCHANGED <<docs, copies, live, renames, docSpent>>

\* A save went through: the guard moves to its revision, whatever is open.  A
\* to-do's create closes the form.
SaveAnswered ==
  \E w \in writes :
    /\ w.stage \in {"saved", "created"}
    /\ LET e == IF w.stage = "created" /\ Is({"todo"})
                THEN [Closed(ed) EXCEPT !.mounted = 0, !.draft = None]
                ELSE [ed EXCEPT !.base = w.rev]
       IN ed' = e /\ Outcome(w, TRUE, e)
    /\ UNCHANGED <<docs, copies, live, reads, renames, docSpent>>

\* Mutant: the guard is moved to what the re-read found, and the save may go on.
ConflictFoundAdopting(w) == [ed EXCEPT !.base = IF w.rev = None THEN @ ELSE w.rev]

\* A conflict is a revision other than the guard's; anything else is an error.
ConflictFound(w) ==
  [ed EXCEPT !.conflict = @ \/ (w.rev # None /\ ed.base # None /\ w.rev # ed.base)]

SaveRefused ==
  \E w \in writes :
    /\ \/ w.stage = "reread" /\ ed' = ConflictFound(w)
       \/ w.stage = "refused" /\ Is({"todo"}) /\ ed' = ed
    /\ Outcome(w, FALSE, ed)
    /\ UNCHANGED <<docs, copies, live, reads, renames, docSpent>>

\* The editor follows the name.  ScratchpadEditor keys its body by it, so the
\* body is mounted again with what was loaded; DiagramEditor is not.
RenameAnswered ==
  \E h \in renames :
    /\ renames' = renames \ {h}
    /\ LET e == [ed EXCEPT !.open = h] IN
       IF Idle \/ ed.left
       THEN ed' = (IF ed.left THEN ed ELSE e) /\ UNCHANGED <<savers, writes>>
       ELSE IF Is({"scratchpad"}) THEN Remount(e, ed.initial)
       ELSE /\ ed' = e
            /\ savers' = [savers EXCEPT ![ed.mounted].handle = h]
            /\ UNCHANGED writes
    /\ UNCHANGED <<docs, copies, live, reads, docSpent>>

-------------------------------------------------------------------------------

DocumentInit ==
  /\ docs = [d \in Doc |-> [rev |-> 1, body |-> {}, name |-> 0]]
  /\ copies = {}
  /\ live = [d \in Doc |-> [rev |-> 1, body |-> {}]]
  /\ ed \in [kind : EditorKinds, open : {None}, initial : {None}, base : {None}, draft : {None},
             conflict : {FALSE}, load : {0}, mounts : {0}, mounted : {0}, left : {FALSE}]
  /\ savers = [s \in 1..MaxMounts |-> NoSaver]
  /\ writes = {}
  /\ reads = {}
  /\ renames = {}
  /\ docSpent = [acts |-> 0, edits |-> 0]
  /\ resent = FALSE

\* An answer takes the editor off the screen, and its last commit sends what was
\* refused and not touched since.
ReplacedResends ==
  /\ ed.mounted # 0 /\ ed'.mounted # ed.mounted
  /\ ~savers[ed.mounted].asked
  /\ \E w \in writes' \ writes : w.saver = ed.mounted

DocumentNext ==
  /\ surface = "documents"
  /\ \/ /\ \/ Open \/ Reload \/ SeedEdit \/ CollapseByOther \/ Expand \/ Close \/ Done \/ Delete
           \/ Rename \/ Leave \/ Edit \/ Flush \/ AutosaveTimer
           \/ ServeWrite \/ RefuseWrite \/ ServeReread \/ ServeRead \/ AgentWrite \/ RefreshBoard
           \/ SaveAnswered \/ SaveRefused
        /\ UNCHANGED resent
     \/ /\ ReadAnswered \/ RenameAnswered
        /\ resent' = (resent \/ ReplacedResends)

-------------------------------------------------------------------------------
(* Properties.                                                               *)

DocumentTypeOK ==
  /\ \A d \in Doc : docs[d].rev \in 1..(MaxEdits + 3) /\ docs[d].body \in Body
  /\ ed.open \in DocHandle \cup {None}
  /\ ed.draft \in Body \cup {None}
  /\ ed.mounted \in {0, ed.mounts}
  /\ \A w \in writes : savers[w.saver].phase = "saving"
  /\ \A v, w \in writes : v.saver = w.saver => v = w

\* In one editing session, from the first editor mounted until the next one, no
\* write drops an edit that the core holds, the user's or an agent's: the revision
\* guard, the single write in flight, the queue behind it and the pause on a
\* conflict hold against writes of agents landing anywhere.  It says nothing of
\* an edit the core never got, which a refused save on unmount leaves behind.
SessionOverwritesNothing ==
  [][ed.mounts <= 1 => \A d \in Doc : docs[d].body \subseteq docs'[d].body]_documentVars

\* "Saved" is true: when the editor on screen has nothing to save, the core
\* accepted what it shows, or it shows what it was seeded with.
SavedIsAccepted ==
  ed.mounted # 0 /\ savers[ed.mounted].phase = "clean" => savers[ed.mounted].kept = ed.draft

\* A refused save is not sent again by the timer, by the drain of a queue or by
\* an earlier editor: only by an edit, a flush, or the commit of the unmount, which
\* useAutosave.ts:53 counts as a flush.
RefusedIsNotRetried == \A s \in 1..MaxMounts : ~savers[s].unasked

\* What useAutosave.ts keeps about saving: "Saved" is true, and no timer or queue
\* repeats a refused save.  Excluded is the editor that an answer replaces, see
\* NeverBehindTheBack.
SavesHold == SavedIsAccepted /\ RefusedIsNotRetried

\* "A stale write is never retried behind the user's back" (useAutosave.ts:33), and
\* a reload discards local edits (useScratchpadEditor.ts:37): an editor that an
\* answer replaces does not send again what was refused.
NeverBehindTheBack == ~resent

=============================================================================
