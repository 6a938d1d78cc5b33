------------------------ MODULE SupervisorInvariant ------------------------
(***************************************************************************)
(* The inductive invariants behind the supervisor's safety properties, for *)
(* instances in which no actor panics.  They add to the properties what    *)
(* those rest on: who owns a process, which actor a sampling target        *)
(* belongs to, what an owned process shows, and which children are in the  *)
(* runtime-state file.                                                     *)
(***************************************************************************)
EXTENDS Supervisor

\* An actor has claimed process p and has not let go of it.
Owns(a, p) == actor[a].pc \in Engaged /\ actor[a].owner = p

\* An actor is in a phase in which it is responsible for child g of p.
Holds(a, p, g) == /\ actor[a].pc \in Holding
                  /\ actor[a].owner = p /\ actor[a].child = g

\* No actor's body has panicked.
NoPanic == \A a \in Actor : actor[a].pc # "panicked"

\* Two actors never own the same process.
OneOwner == \A p \in Proc : \A a, b \in Actor : Owns(a, p) /\ Owns(b, p) => a = b

\* An owned process has been registered, and shows an active status for as
\* long as it is: begin_launch refuses it.
OwnedIsActive ==
  \A p \in Proc : \A a \in Actor : Owns(a, p) =>
    entry[p] # "new" /\ (Present(p) => status[p] \in Active)

\* Every running group is in the hands of an actor.
LiveIsHeld == \A p \in Proc : \A g \in live[p] : \E a \in Actor : Holds(a, p, g)

\* The sampling target is the child of an actor that is announcing or running
\* it, and an entry that is gone has none.
TargetIsHeld ==
  \A p \in Proc : pgid[p] # NoGroup =>
    /\ Present(p)
    /\ \E a \in Actor : Holds(a, p, pgid[p]) /\ actor[a].pc \in {"announcing", "running"}

\* A close that is waiting has already taken its process out of the registry.
AwaitedIsGone ==
  \A c \in Caller : call[c].op = "await" =>
    entry[call[c].proc] \in {"closing", "removed"}

\* One owner per process, and every group accounted for by its owner: the
\* part of the supervisor's state that the claim in begin_launch protects
\* (actors.rs:27).
Ownership == /\ NoPanic /\ OneOwner /\ OwnedIsActive
             /\ LiveIsHeld /\ TargetIsHeld /\ AwaitedIsGone

\* The status an actor has advanced its process to, in each phase of run.
Shows(a) ==
  CASE actor[a].pc \in Before \cup {"spawned", "recorded", "announcing"} -> "Starting"
    [] actor[a].pc \in {"reaping", "forgetting", "ending"} /\ actor[a].outcome = "stop" -> "Stopping"
    [] actor[a].pc \in {"reaping", "forgetting", "ending"} /\ actor[a].outcome = "restart" -> "Restarting"
    [] OTHER -> "Running"

\* The registry shows what the owner last advanced to: nobody else writes the
\* status of an owned process.
PhaseShown ==
  \A a \in Actor : actor[a].pc \in Engaged /\ Present(actor[a].owner) =>
    status[actor[a].owner] = Shows(a)

\* A process that is not in the registry has the status it would be registered
\* with: no actor of an earlier entry writes to one that is gone (registry.rs,
\* set_status).
AbsentIsStopped == \A p \in Proc : ~Present(p) => status[p] = "Stopped"

\* A task that is past record_orphan and not yet through forget_orphan.
Recorded == {"recorded", "announcing", "running", "reaping", "forgetting"}

\* Two tasks never have the same child: the record of one is not dropped with
\* that of the other.
ChildrenDiffer ==
  \A a, b \in Actor :
    /\ Alive(a) /\ Alive(b)
    /\ actor[a].child = actor[b].child /\ actor[a].child # NoGroup
    => a = b

\* The runtime-state file names the child of every such task, if its write
\* succeeded.
HeldIsRecorded ==
  \A a \in Actor : actor[a].pc \in Recorded => actor[a].child \in records

\* One owner per process, its phase shown, and its child on record from before
\* the announcement until after the reap (actor.rs:235-262).
Accounting == Ownership /\ PhaseShown /\ ChildrenDiffer /\ HeldIsRecorded

\* Whatever runs, and whatever is about to be launched, is trusted: the check
\* and the launch speak of the same spec (lifecycle.rs:16).
LaunchesTrusted ==
  /\ OnlyTrustedRuns
  /\ \A c \in Caller : call[c].op = "claim" => call[c].ver \in trusted

=============================================================================
