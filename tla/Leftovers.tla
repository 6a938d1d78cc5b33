------------------------------- MODULE Leftovers -------------------------------
(***************************************************************************)
(* Process groups that outlive a run of Soloist: the runtime-state file     *)
(* every launch is recorded in (store/src/runtime.rs), the reconciliation   *)
(* that adopts, surfaces or prunes what the file lists                      *)
(* (core/src/supervisor/reconcile.rs), and the dialog of the window that    *)
(* offers to kill what was surfaced (useOrphans.ts, OrphanDialog.tsx).      *)
(*                                                                          *)
(* An entry of the registry is followed from its claim to its rest; the     *)
(* steps in between are the Supervisor module's.  The kernel hands out a    *)
(* group id again only to groups that are not Soloist's, and not while a    *)
(* launch or a reconciliation is still working on it: the code's defence    *)
(* against reuse is the identity recorded with the group, and a few         *)
(* milliseconds are too short for the ids to come round.                    *)
(***************************************************************************)
EXTENDS WindowDomain

CONSTANTS
  Entry,          \* ids of registered processes
  Group,          \* process group ids
  Key,            \* {project_root, name, command}: what an adoption matches
  MaxRuns,        \* runs of Soloist
  MaxReconciles   \* reconciliations in a behaviour

\* null is none of the values it stands beside.
ASSUME LeftoverAssumption ==
  /\ None \notin {"child", "dead", "stranger", "sent", "killed", "failed"}
  /\ None \notin {"Stopped", "Starting", "Running", "Stopping", "Crashed"}
  /\ None \notin [key : Key, identity : {"child", "stranger", None}]

VARIABLES
  os,             \* the kernel: what runs under a group id
  runtime,        \* the runtime-state file, one record per group id
  entries,        \* the registry of this run
  fates,          \* the reconciliation under way: what is still to apply, or None
  surfaced,       \* the leftovers it has to surface
  wire,           \* OrphansFound on its way to the window
  dialog,         \* the window: whether it listens, the rows it shows
  kills,          \* per group, the kill the window has asked for
  recorded,       \* history: the groups that were ever recorded
  left            \* bounds used up

leftoverVars == <<os, runtime, entries, fates, surfaced, wire, dialog, kills, recorded, left>>

Absent == [key |-> None, status |-> None, group |-> None, adopted |-> FALSE]

\* identify: the process that leads the group now, None when there is none. What
\* cannot be told apart here is not: a group that took over an id is a stranger.
Identify(g) == IF os[g] \in {"child", "stranger"} THEN os[g] ELSE None

\* Mutant: any live group under the id will do.
RecordedAliveByIdOnly(g) == runtime[g] # None /\ Identify(g) # None

\* is_recorded_alive: the same leader as the one recorded.
RecordedAlive(g) ==
  runtime[g] # None /\ runtime[g].identity # None /\ runtime[g].identity = Identify(g)

\* record: an upsert by group id.
RecordOf(key, g) == [key |-> key, identity |-> Identify(g)]

-------------------------------------------------------------------------------
(* Processes of this run.                                                    *)

\* open_and_register, restore, or an agent or a terminal the user asked for; ids
\* are counted up.
Register ==
  /\ \E e \in Entry, k \in Key :
       /\ entries[e] = Absent
       /\ \A o \in Entry : o < e => entries[o] # Absent
       /\ entries' = [entries EXCEPT ![e] = [Absent EXCEPT !.key = k, !.status = "Stopped"]]
  /\ UNCHANGED <<os, runtime, fates, surfaced, wire, dialog, kills, recorded, left>>

\* A launch claims a resting entry and its child starts in a group of its own,
\* whose id the kernel counts up.
Start ==
  /\ \E e \in Entry, g \in Group :
       /\ entries[e].status \in {"Stopped", "Crashed"}
       /\ os[g] = "free"
       /\ \A h \in Group : h < g => os[h] # "free"
       /\ os' = [os EXCEPT ![g] = "child"]
       /\ entries' = [entries EXCEPT ![e] = [@ EXCEPT !.status = "Starting", !.group = g,
                                                      !.adopted = FALSE]]
  /\ UNCHANGED <<runtime, fates, surfaced, wire, dialog, kills, recorded, left>>

\* The actor records the group, adopted or not, before it announces Running.
Recorded ==
  /\ \E e \in Entry :
       /\ entries[e].status = "Starting"
       /\ entries' = [entries EXCEPT ![e].status = "Running"]
       /\ runtime' = [runtime EXCEPT ![entries[e].group] = RecordOf(entries[e].key, entries[e].group)]
       /\ recorded' = recorded \cup {entries[e].group}
  /\ UNCHANGED <<os, fates, surfaced, wire, dialog, kills, left>>

\* graceful_stop: a child of this run is killed with its group; an adopted group
\* only while it is still the one recorded.
Stopped ==
  /\ \E e \in Entry :
       /\ entries[e].status = "Running"
       /\ entries' = [entries EXCEPT ![e].status = "Stopping"]
       /\ os' = [os EXCEPT ![entries[e].group] = IF @ = "child" THEN "dead" ELSE @]
  /\ UNCHANGED <<runtime, fates, surfaced, wire, dialog, kills, recorded, left>>

\* A group ends by itself.
Exits ==
  /\ \E g \in Group : os[g] = "child" /\ os' = [os EXCEPT ![g] = "dead"]
  /\ UNCHANGED <<runtime, entries, fates, surfaced, wire, dialog, kills, recorded, left>>

\* The actor sees its group gone (an adopted one by the identity it polls), drops
\* the record of the group id and rests.
Rests ==
  /\ \E e \in Entry, status \in {"Stopped", "Crashed"} :
       /\ entries[e].status \in {"Running", "Stopping"}
       /\ os[entries[e].group] # "child"
       /\ entries[e].status = "Stopping" => status = "Stopped"
       /\ runtime' = [runtime EXCEPT ![entries[e].group] = None]
       /\ entries' = [entries EXCEPT ![e] = [@ EXCEPT !.status = status, !.group = None,
                                                      !.adopted = FALSE]]
  /\ UNCHANGED <<os, fates, surfaced, wire, dialog, kills, recorded, left>>

\* The kernel gives a dead group's id to a group that is not Soloist's. A child
\* nobody waited for keeps its id.
Recycled ==
  /\ \E g \in Group :
       /\ os[g] = "dead"
       /\ \A e \in Entry :
            entries[e].group = g => entries[e].adopted /\ entries[e].status # "Starting"
       /\ fates # None => g \notin DOMAIN fates
       /\ os' = [os EXCEPT ![g] = "stranger"]
  /\ UNCHANGED <<runtime, entries, fates, surfaced, wire, dialog, kills, recorded, left>>

\* A crash or a force-quit: the groups and the file are all that is left.
ForceQuit ==
  /\ left.runs < MaxRuns
  /\ left' = [left EXCEPT !.runs = @ + 1]
  /\ entries' = [e \in Entry |-> Absent]
  /\ fates' = None
  /\ surfaced' = {}
  /\ wire' = <<>>
  /\ dialog' = [listens |-> FALSE, rows |-> {}]
  /\ kills' = [g \in Group |-> None]
  /\ UNCHANGED <<os, runtime, recorded>>

-------------------------------------------------------------------------------
(* Reconciliation.                                                           *)

\* find_resting_match.
RestingMatches(g) ==
  {e \in Entry : entries[e].status = "Stopped" /\ entries[e].key = runtime[g].key}

\* OrphanFate.
Fate(what, target) == [what |-> what, target |-> target]

\* reconcile_orphans: every record is classified first. It runs once at launch,
\* after the projects were restored, and again whenever a project is opened.
Classify ==
  /\ fates = None
  /\ left.reconciles < MaxReconciles
  /\ left' = [left EXCEPT !.reconciles = @ + 1]
  /\ \E target \in [Group -> Entry \cup {None}] :
       /\ \A g \in Group :
            IF runtime[g] # None /\ RestingMatches(g) # {}
            THEN target[g] \in RestingMatches(g) ELSE target[g] = None
       /\ fates' = [g \in {r \in Group : runtime[r] # None} |->
                      CASE ~RecordedAlive(g) -> Fate("prune", None)
                        [] target[g] = None  -> Fate("surface", None)
                        [] OTHER             -> Fate("adopt", target[g])]
  /\ surfaced' = {}
  /\ UNCHANGED <<os, runtime, entries, wire, dialog, kills, recorded>>

\* One fate at a time: a match that has been claimed meanwhile is surfaced.
Apply ==
  /\ fates # None
  /\ \E g \in DOMAIN fates :
       /\ fates' = [r \in DOMAIN fates \ {g} |-> fates[r]]
       /\ LET target  == fates[g].target
              prune   == fates[g].what = "prune"
              claimed == target # None /\ entries[target].status \in {"Stopped", "Crashed"}
          IN /\ entries' = IF claimed
                           THEN [entries EXCEPT ![target] = [@ EXCEPT !.status = "Starting",
                                                               !.group = g, !.adopted = TRUE]]
                           ELSE entries
             /\ runtime' = IF prune THEN [runtime EXCEPT ![g] = None] ELSE runtime
             /\ surfaced' = IF claimed \/ prune THEN surfaced ELSE surfaced \cup {g}
  /\ UNCHANGED <<os, wire, dialog, kills, recorded, left>>

\* What is left for the user to decide is announced once.
AnnounceLeftovers ==
  /\ fates # None /\ DOMAIN fates = {}
  /\ fates' = None
  /\ surfaced' = {}
  /\ wire' = IF surfaced = {} THEN wire ELSE Append(wire, surfaced)
  /\ UNCHANGED <<os, runtime, entries, dialog, kills, recorded, left>>

-------------------------------------------------------------------------------
(* The dialog.                                                               *)

\* The window's listener attaches, some time after the launch.
Listen ==
  /\ ~dialog.listens
  /\ dialog' = [dialog EXCEPT !.listens = TRUE]
  /\ UNCHANGED <<os, runtime, entries, fates, surfaced, wire, kills, recorded, left>>

\* OrphansFound replaces the rows; before the listener attaches it is lost.
OrphansFound ==
  /\ wire # <<>>
  /\ wire' = Tail(wire)
  /\ dialog' = IF dialog.listens THEN [dialog EXCEPT !.rows = Head(wire)] ELSE dialog
  /\ UNCHANGED <<os, runtime, entries, fates, surfaced, kills, recorded, left>>

Asked(groups) == [g \in Group |-> IF g \in groups /\ kills[g] = None THEN "sent" ELSE kills[g]]

\* OrphanDialog: Kill beside a row, Kill all below.
Kill ==
  /\ \E g \in dialog.rows : kills' \in {Asked({g}), Asked(dialog.rows)}
  /\ kills' # kills
  /\ UNCHANGED <<os, runtime, entries, fates, surfaced, wire, dialog, recorded, left>>

\* leave: nothing is signalled.
LeaveRunning ==
  /\ dialog.rows # {}
  /\ dialog' = [dialog EXCEPT !.rows = {}]
  /\ UNCHANGED <<os, runtime, entries, fates, surfaced, wire, kills, recorded, left>>

\* Mutant: the record goes before the signal is known to have landed.
KillOrphanForgetting(g) ==
  IF RecordedAlive(g)
  THEN {[os |-> "dead", record |-> None, answer |-> "killed"],
        [os |-> os[g], record |-> None, answer |-> "failed"]}
  ELSE {[os |-> os[g], record |-> None, answer |-> "killed"]}

\* kill_orphan: SIGKILL while the group is the recorded one, and the record goes
\* with it; a signal that fails keeps the record; a stale record is dropped.
KillOrphan(g) ==
  IF RecordedAlive(g)
  THEN {[os |-> "dead", record |-> None, answer |-> "killed"],
        [os |-> os[g], record |-> runtime[g], answer |-> "failed"]}
  ELSE {[os |-> os[g], record |-> None, answer |-> "killed"]}

ServeKill ==
  /\ \E g \in Group :
       /\ kills[g] = "sent"
       /\ \E outcome \in KillOrphan(g) :
            /\ os' = [os EXCEPT ![g] = outcome.os]
            /\ runtime' = [runtime EXCEPT ![g] = outcome.record]
            /\ kills' = [kills EXCEPT ![g] = outcome.answer]
  /\ UNCHANGED <<entries, fates, surfaced, wire, dialog, recorded, left>>

\* A confirmed kill drops the row; a failed one keeps it.
KillAnswered ==
  /\ \E g \in Group :
       /\ kills[g] \in {"killed", "failed"}
       /\ kills' = [kills EXCEPT ![g] = None]
       /\ dialog' = IF kills[g] = "killed" THEN [dialog EXCEPT !.rows = @ \ {g}] ELSE dialog
  /\ UNCHANGED <<os, runtime, entries, fates, surfaced, wire, recorded, left>>

-------------------------------------------------------------------------------
LeftoverInit ==
  /\ os = [g \in Group |-> "free"]
  /\ runtime = [g \in Group |-> None]
  /\ entries = [e \in Entry |-> Absent]
  /\ fates = None
  /\ surfaced = {}
  /\ wire = <<>>
  /\ dialog = [listens |-> FALSE, rows |-> {}]
  /\ kills = [g \in Group |-> None]
  /\ recorded = {}
  /\ left = [runs |-> 1, reconciles |-> 0]

LeftoverNext ==
  /\ surface = "leftovers"
  /\ \/ Register \/ Start \/ Recorded \/ Stopped \/ Exits \/ Rests \/ Recycled \/ ForceQuit
     \/ Classify \/ Apply \/ AnnounceLeftovers
     \/ Listen \/ OrphansFound \/ Kill \/ LeaveRunning \/ ServeKill \/ KillAnswered

-------------------------------------------------------------------------------
(* Properties.                                                               *)

LeftoverTypeOK ==
  /\ os \in [Group -> {"free", "child", "dead", "stranger"}]
  /\ \A g \in Group : runtime[g] # None => runtime[g].key \in Key
  /\ \A e \in Entry : entries[e].status = None <=> entries[e].key = None
  /\ dialog.rows \subseteq Group
  /\ kills \in [Group -> {None, "sent", "killed", "failed"}]

\* A group that was recorded stays recorded while it lives, across crashes,
\* adoptions, prunings and failed kills: the next launch can always find it.
LeftoversFound == \A g \in recorded : os[g] = "child" => runtime[g] # None

\* Soloist never signals a group that took over the id of one of its own.
StrangersLeftAlone == \A g \in Group : os[g] = "stranger" => os'[g] = "stranger"

\* An answer drops a row only when the group behind it no longer runs.
RowsDropTruly ==
  kills' # kills /\ left' = left => \A g \in dialog.rows \ dialog'.rows : os[g] # "child"

\* No leftover is lost, no stranger is hit and no row goes while its group runs
\* (reconcile.rs kill_orphan, adopt.rs GroupSignal, useOrphans.ts killOne): the file,
\* the kernel and the dialog agree whatever crashed, was recycled or failed.
LeftoversHold ==
  [][LeftoversFound' /\ StrangersLeftAlone /\ RowsDropTruly]_leftoverVars

\* The dialog offers to kill leftovers of an earlier run, never a process this run
\* launched: events.rs says so of OrphansFound, OrphanDialog.tsx says so to the user.
OwnNotOffered ==
  \A e \in Entry :
    entries[e].status = "Running" /\ ~entries[e].adopted => entries[e].group \notin dialog.rows

=============================================================================
