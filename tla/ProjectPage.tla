------------------------------ MODULE ProjectPage ------------------------------
(***************************************************************************)
(* The settings page of one project (components/project-settings): the read *)
(* model of the page, the queue its writes go through, the calls that go    *)
(* past that queue, and the core's side, the commands of solo.yml and of    *)
(* the local overlay (facade/commands.rs).                                  *)
(*                                                                          *)
(* An edit sends the whole spec of its command: what the page shows, or     *)
(* what an edit still pending on the same row made of it, with one field    *)
(* changed.  A spec is the last edit that set each of its fields; the texts *)
(* are left out.  The row of a command is an object of one page load, so    *)
(* two loads give one command two rows.  The tabs can be switched at any    *)
(* time, so which one is open is not state.                                 *)
(***************************************************************************)
EXTENDS WindowDomain

CONSTANTS
  CommandName,
  Field,          \* the fields of a spec
  MaxPageActs,    \* edits, writes and calls of a behaviour
  MaxPageReads,
  MaxPageFaults   \* failures and edits from outside

VARIABLES
  project,        \* the core's commands and settings
  page,           \* the page shown
  pendingEdits,   \* row -> the spec its unsettled edit sends
  writeQueue,         \* writeQueue
  direct,          \* calls made past the queue
  reloads,        \* page reads under way
  edited,          \* history: the user's last edit of each field
  rejected,        \* history: commands with an edit the core refused
  stale,         \* history: commands edited on a page that lacked an earlier edit
  outdated,       \* history: changed from outside since the page was last asked for
  pageSpent

pageVars ==
  <<project, page, pendingEdits, writeQueue, direct, reloads, edited, rejected, stale, outdated, pageSpent>>

\* domain.ts
Visibility == {"shared", "local"}
ProcessSpec == [Field -> Nat]
ProjectCommandView == [spec : ProcessSpec, visibility : Visibility]
ProjectSettingsPage ==
  [commands : [CommandName -> ProjectCommandView \cup {None}], settings : Nat]

\* api.ts: the calls of the page that change something.
PageCall == {"edit", "rename", "toggleStorage", "remove", "add",
             "set",         \* a setting: a gate, the editor, a notification level
             "setIcon"}

\* A write of the queue, keyed by the row it is for, and the call it makes; None is neither.
WireCall ==
  [op : PageCall, name : CommandName \cup {None}, to : CommandName \cup {None},
   spec : ProcessSpec \cup {None}, visibility : Visibility \cup {None}]
WriteOutcome == {None, "ok", "failed"}
PageWrite == [key : (CommandName \X Nat) \cup {None}, call : WireCall, outcome : WriteOutcome]

ASSUME PageAssumption == None \notin PageWrite \cup (CommandName \X Nat) \cup {"ok", "failed"}

\* commands.ts: what the list and the editor raise, and what they raise it on.
Raise(op, name, field, to) == [op |-> op, on |-> name, field |-> field, to |-> to]

\* The commands a page lists.
Roster(p) == {n \in CommandName : p.commands[n] # None}

-------------------------------------------------------------------------------
(* What the page offers.                                                     *)

\* CommandEditor: the command line, the toggles and the globs patch one field
\* each.
CommandEditorOffers(name) ==
  {Raise("edit", name, f, None) : f \in Field}
  \cup {Raise("rename", name, None, to) : to \in CommandName \ {name}}
  \cup {Raise(op, name, None, None) : op \in {"set", "toggleStorage", "remove"}}

\* AddCommandModal: a name of the user's choosing, taken or not, and a store.
AddCommandOffers == {Raise("add", n, None, v) : n \in CommandName, v \in Visibility}

CommandListOffers(p) ==
  AddCommandOffers \cup UNION {CommandEditorOffers(n) : n \in Roster(p)}

OverviewOffers == {Raise("refresh", None, None, None)}

\* ProjectSettingsSection: the switches and the editor are writes; the icon is
\* a call of its own, so that its error shows beside it.
SectionOffers == {Raise("set", None, None, None), Raise("setIcon", None, None, None)}

NotificationsOffers == {Raise("set", None, None, None)}

PageOffers ==
  IF page.view = None THEN {}
  ELSE OverviewOffers \cup SectionOffers \cup NotificationsOffers \cup CommandListOffers(page.view)

-------------------------------------------------------------------------------
(* The core.                                                                 *)

NewSpec == [f \in Field |-> 0]

\* The command a call is about, in the store the call is for.
Holds(p, call) ==
  p.commands[call.name] # None /\ p.commands[call.name].visibility = call.visibility

\* Names are unique across the two stores.
Rejects(p, call) ==
  CASE call.op = "add" -> p.commands[call.name] # None
    [] call.op = "rename" -> ~Holds(p, call) \/ p.commands[call.to] # None
    [] call.op \in {"edit", "toggleStorage", "remove"} -> ~Holds(p, call)
    [] OTHER -> FALSE

OtherStore(v) == CHOOSE w \in Visibility : w # v

Effect(p, call) ==
  LET old == p.commands[call.name] IN
  CASE call.op = "edit" -> [p EXCEPT !.commands[call.name].spec = call.spec]
    [] call.op = "rename" -> [p EXCEPT !.commands[call.name] = None, !.commands[call.to] = old]
    [] call.op = "toggleStorage" -> [p EXCEPT !.commands[call.name].visibility = OtherStore(@)]
    [] call.op = "remove" -> [p EXCEPT !.commands[call.name] = None]
    [] call.op = "add" ->
         [p EXCEPT !.commands[call.name] = [spec |-> call.spec, visibility |-> call.visibility]]
    [] call.op = "set" -> [p EXCEPT !.settings = @ + 1]
    [] OTHER -> p

\* History: nothing is claimed of an edit once its name stands for another
\* command.
AskedAfter(call) ==
  [n \in CommandName |->
     IF call.op \in {"rename", "remove", "add"} /\ n \in {call.name, call.to}
     THEN NewSpec ELSE edited[n]]

\* The core serves a call: it takes it whole, or refuses it, or its write fails.
CallServed(call, outcome) ==
  \/ /\ ~Rejects(project, call)
     /\ outcome = "ok"
     /\ project' = Effect(project, call)
     /\ edited' = AskedAfter(call)
     /\ UNCHANGED <<rejected, pageSpent>>
  \/ /\ outcome = "failed"
     /\ IF Rejects(project, call) THEN UNCHANGED pageSpent
        ELSE /\ pageSpent.faults < MaxPageFaults
             /\ pageSpent' = [pageSpent EXCEPT !.faults = @ + 1]
     /\ rejected' = IF call.op = "edit" THEN rejected \cup {call.name} ELSE rejected
     /\ UNCHANGED <<project, edited>>

-------------------------------------------------------------------------------
(* The page.                                                                 *)

\* reload: nothing orders its answers.
ReloadPage ==
  /\ pageSpent.reads < MaxPageReads
  /\ pageSpent' = [pageSpent EXCEPT !.reads = @ + 1]
  /\ reloads' = reloads \cup {[read |-> pageSpent.reads + 1, answer |-> None]}
  /\ outdated' = FALSE

CoreServesPage ==
  \E r \in reloads :
    /\ r.answer = None
    /\ reloads' = (reloads \ {r}) \cup {[r EXCEPT !.answer = project]}
    /\ UNCHANGED <<project, page, pendingEdits, writeQueue, direct, edited, rejected, stale, outdated, pageSpent>>

\* setPage: every row is a new object.
PageLands ==
  \E r \in reloads :
    /\ r.answer # None
    /\ reloads' = reloads \ {r}
    /\ page' = [view |-> r.answer, read |-> r.read]
    /\ UNCHANGED <<project, pendingEdits, writeQueue, direct, edited, rejected, stale, outdated, pageSpent>>

PageReadFails ==
  \E r \in reloads :
    /\ pageSpent.faults < MaxPageFaults
    /\ reloads' = reloads \ {r}
    /\ pageSpent' = [pageSpent EXCEPT !.faults = @ + 1]
    /\ UNCHANGED <<project, page, pendingEdits, writeQueue, direct, edited, rejected, stale, outdated>>

\* The row of a command: an object of the load that is shown.
RowKey(name) == <<name, page.read>>

-------------------------------------------------------------------------------
(* The write queue.                                                          *)

QueuedWrite(key, call) == [key |-> key, call |-> call, outcome |-> None]

\* mutate: a queued write of the same row is replaced where it stands; a write
\* starts at once when none is in flight.
Mutated(write) ==
  LET q == writeQueue.queue
      same == {i \in DOMAIN q : write.key # None /\ q[i].key = write.key}
  IN IF writeQueue.flying = None THEN [writeQueue EXCEPT !.flying = write]
     ELSE IF same # {} THEN [writeQueue EXCEPT !.queue = [i \in DOMAIN q |-> IF i \in same THEN write ELSE q[i]]]
     ELSE [writeQueue EXCEPT !.queue = Append(q, write)]

\* The wire call of a write: visibility picks the store it goes to.
CallOf(op, name, to, spec) ==
  [op |-> op, name |-> name, to |-> to, spec |-> spec,
   visibility |-> IF name = None THEN None ELSE page.view.commands[name].visibility]

\* Mutant: an edit starts from the row as it was loaded.
BaseAsLoaded(name) == page.view.commands[name].spec

\* What an edit is merged onto: the spec of the row's unsettled edit, if it has
\* one.
Base(name) ==
  IF RowKey(name) \in DOMAIN pendingEdits THEN pendingEdits[RowKey(name)]
  ELSE page.view.commands[name].spec

PendingWith(row, spec) ==
  [k \in DOMAIN pendingEdits \cup {row} |-> IF k = row THEN spec ELSE pendingEdits[k]]

MayAct == pageSpent.acts < MaxPageActs
Acted == pageSpent' = [pageSpent EXCEPT !.acts = @ + 1]

\* History: the page shows the row without an edit the user made before.
Lacks(name) ==
  /\ RowKey(name) \notin DOMAIN pendingEdits
  /\ \E f \in Field : edited[name][f] \notin {0, page.view.commands[name].spec[f]}

\* ops.edit
EditCommand ==
  /\ MayAct
  /\ Acted
  /\ \E o \in {x \in PageOffers : x.op = "edit"} :
       LET stamp == pageSpent.acts + 1
           spec == [Base(o.on) EXCEPT ![o.field] = stamp]
       IN /\ pendingEdits' = PendingWith(RowKey(o.on), spec)
          /\ writeQueue' = Mutated(QueuedWrite(RowKey(o.on), CallOf("edit", o.on, None, spec)))
          /\ edited' = [edited EXCEPT ![o.on][o.field] = stamp]
          /\ stale' = IF Lacks(o.on) THEN stale \cup {o.on} ELSE stale
  /\ UNCHANGED <<project, page, direct, reloads, rejected, outdated>>

\* The other writes of the page keep a slot of their own.
Mutate ==
  /\ MayAct
  /\ Acted
  /\ \E o \in {x \in PageOffers : x.op \in PageCall \ {"edit", "add", "setIcon"}} :
       writeQueue' = Mutated(QueuedWrite(None, CallOf(o.op, o.on, o.to, None)))
  /\ UNCHANGED <<project, page, pendingEdits, direct, reloads, edited, rejected, stale, outdated>>

CoreServesWrite ==
  /\ writeQueue.flying # None
  /\ writeQueue.flying.outcome = None
  /\ \E outcome \in {"ok", "failed"} :
       /\ CallServed(writeQueue.flying.call, outcome)
       /\ writeQueue' = [writeQueue EXCEPT !.flying.outcome = outcome]
  /\ UNCHANGED <<page, pendingEdits, direct, reloads, stale, outdated>>

\* settle: a newer edit of the row keeps its spec pending.
PendingAfter(write) ==
  IF write.key \in DOMAIN pendingEdits /\ pendingEdits[write.key] = write.call.spec
  THEN [k \in DOMAIN pendingEdits \ {write.key} |-> pendingEdits[k]]
  ELSE pendingEdits

\* drain: the next write, or the page once the queue has run dry.
WriteSettles ==
  /\ writeQueue.flying # None
  /\ writeQueue.flying.outcome # None
  /\ pendingEdits' = PendingAfter(writeQueue.flying)
  /\ IF writeQueue.queue = <<>>
     THEN /\ writeQueue' = [writeQueue EXCEPT !.flying = None]
          /\ ReloadPage
     ELSE /\ writeQueue' = [flying |-> Head(writeQueue.queue), queue |-> Tail(writeQueue.queue)]
          /\ UNCHANGED <<reloads, outdated, pageSpent>>
  /\ UNCHANGED <<project, page, direct, edited, rejected, stale>>

-------------------------------------------------------------------------------
(* Calls past the queue.                                                     *)

\* ops.add and setIcon.
CallDirectly ==
  /\ MayAct
  /\ Acted
  /\ \E o \in {x \in PageOffers : x.op \in {"add", "setIcon"}} :
       direct' = direct \cup {QueuedWrite(pageSpent.acts + 1,
                  [op |-> o.op, name |-> o.on, to |-> None, spec |-> NewSpec, visibility |-> o.to])}
  /\ UNCHANGED <<project, page, pendingEdits, writeQueue, reloads, edited, rejected, stale, outdated>>

CoreServesCall ==
  \E c \in direct : \E outcome \in {"ok", "failed"} :
    /\ c.outcome = None
    /\ CallServed(c.call, outcome)
    /\ direct' = (direct \ {c}) \cup {[c EXCEPT !.outcome = outcome]}
    /\ UNCHANGED <<page, pendingEdits, writeQueue, reloads, stale, outdated>>

\* Done: the page is asked for again; refused: the form shows why.
CallSettles ==
  \E c \in direct :
    /\ c.outcome # None
    /\ direct' = direct \ {c}
    /\ IF c.outcome = "ok" THEN ReloadPage ELSE UNCHANGED <<reloads, outdated, pageSpent>>
    /\ UNCHANGED <<project, page, pendingEdits, writeQueue, edited, rejected, stale>>

\* The Refresh button.
Refresh ==
  /\ PageOffers \cap OverviewOffers # {}
  /\ ReloadPage
  /\ UNCHANGED <<project, page, pendingEdits, writeQueue, direct, edited, rejected, stale>>

\* solo.yml is edited by hand, or by an agent: the page does not hear of it.
EditedOutside ==
  /\ MayAct
  /\ pageSpent.faults < MaxPageFaults
  /\ pageSpent' = [pageSpent EXCEPT !.acts = @ + 1, !.faults = @ + 1]
  /\ \E n \in Roster(project), f \in Field :
       /\ project.commands[n].visibility = "shared"
       /\ project' = [project EXCEPT !.commands[n].spec[f] = pageSpent.acts + 1]
       /\ edited' = [edited EXCEPT ![n][f] = 0]
  /\ outdated' = TRUE
  /\ UNCHANGED <<page, pendingEdits, writeQueue, direct, reloads, rejected, stale>>

-------------------------------------------------------------------------------

\* The pane has mounted and its first read is under way.
PageInit ==
  /\ LET first == CHOOSE n \in CommandName : TRUE IN
       project = [commands |-> [n \in CommandName |->
                                  IF n = first THEN [spec |-> NewSpec, visibility |-> "shared"]
                                  ELSE None],
                  settings |-> 0]
  /\ page = [view |-> None, read |-> 0]
  /\ pendingEdits = << >>
  /\ writeQueue = [flying |-> None, queue |-> <<>>]
  /\ direct = {}
  /\ reloads = {[read |-> 1, answer |-> None]}
  /\ edited = [n \in CommandName |-> NewSpec]
  /\ rejected = {}
  /\ stale = {}
  /\ outdated = FALSE
  /\ pageSpent = [acts |-> 0, reads |-> 1, faults |-> 0]

PageNext ==
  /\ surface = "project"
  /\ \/ EditCommand \/ Mutate \/ CoreServesWrite \/ WriteSettles
     \/ CallDirectly \/ CoreServesCall \/ CallSettles
     \/ Refresh \/ CoreServesPage \/ PageLands \/ PageReadFails
     \/ EditedOutside

-------------------------------------------------------------------------------
(* Properties.                                                               *)

PageTypeOK ==
  /\ project.commands \in [CommandName -> ProjectCommandView \cup {None}]
  /\ page.view # None => page.view.commands \in [CommandName -> ProjectCommandView \cup {None}]
  /\ page.read \in 0..pageSpent.reads
  /\ \A k \in DOMAIN pendingEdits : pendingEdits[k] \in ProcessSpec
  /\ \A i \in DOMAIN writeQueue.queue : writeQueue.queue[i].call.op \in PageCall
  /\ writeQueue.flying = None => writeQueue.queue = <<>>

\* No write or call of the page is under way.
PageIdle == writeQueue.flying = None /\ direct = {}

\* The core has the user's last edit of every field of a command.
Kept(n) ==
  project.commands[n] # None =>
    \A f \in Field : edited[n][f] \in {0, project.commands[n].spec[f]}

\* Edits of one row made faster than the core takes them are merged: whatever was
\* queued, replaced in the queue or in flight, and whichever other write failed,
\* the core ends up with all of them (ProjectSettingsPane.tsx, ops.edit and settle).
\* Excluded are the commands with an edit that was refused, and those in `stale`,
\* edited on a page that did not show an earlier edit: such an edit sends the whole
\* spec without it and so undoes it, see MergeBaseIsFresh.
OverlappingEditsMerge ==
  PageIdle => \A n \in CommandName \ (rejected \cup stale) : Kept(n)

\* Once the writes have drained and the last read has landed, the page is the
\* core's (ProjectSettingsPane.tsx, drain).  Excluded are a solo.yml changed from
\* outside since that read was asked for, and an older read that lands after it.
DrainedPageIsCore ==
  PageIdle /\ reloads = {} /\ page.read = pageSpent.reads /\ ~outdated => page.view = project

PageHolds == OverlappingEditsMerge /\ DrainedPageIsCore

\* "A reload can then never land mid-batch and hand a later write a stale merge
\* base" (ProjectSettingsPane.tsx:83-84): while an edit of a command is queued or in
\* flight, what the next edit of its row is merged onto has it.
BeingEdited ==
  {w.call.name : w \in {w \in {writeQueue.flying} \cup Range(writeQueue.queue) :
                          w # None /\ w.call.op = "edit"}}
MergeBaseIsFresh ==
  \A n \in BeingEdited : page.view.commands[n] # None => ~Lacks(n)

=============================================================================
