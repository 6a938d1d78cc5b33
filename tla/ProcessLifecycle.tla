-------------------------- MODULE ProcessLifecycle --------------------------
(***************************************************************************)
(* What the supervisor promises of every managed process, whoever is       *)
(* asking for what at the same time: it has one owner at most, only an     *)
(* owner brings up a child, there is at most one child, the status moves   *)
(* along the state machine, and a process comes to rest only once its      *)
(* child is gone.                                                          *)
(***************************************************************************)
EXTENDS ProcessFSM

CONSTANT Proc

VARIABLES
  st,     \* [Proc -> status, or "new" before registration, "gone" after removal]
  owned,  \* [Proc -> BOOLEAN]: an actor owns the process
  alive   \* [Proc -> BOOLEAN]: a child of it is running

vars == <<st, owned, alive>>

TypeOK ==
  /\ st \in [Proc -> ProcStatus \cup {"new", "gone"}]
  /\ owned \in [Proc -> BOOLEAN]
  /\ alive \in [Proc -> BOOLEAN]

Init ==
  /\ st = [p \in Proc |-> "new"]
  /\ owned = [p \in Proc |-> FALSE]
  /\ alive = [p \in Proc |-> FALSE]

Register(p) ==
  /\ st[p] = "new"
  /\ st' = [st EXCEPT ![p] = "Stopped"]
  /\ UNCHANGED <<owned, alive>>

Launch(p) ==
  /\ st[p] \in Resting /\ ~owned[p]
  /\ st' = [st EXCEPT ![p] = "Starting"]
  /\ owned' = [owned EXCEPT ![p] = TRUE]
  /\ UNCHANGED alive

Exhaust(p) ==
  /\ st[p] = "Crashed"
  /\ st' = [st EXCEPT ![p] = "RestartExhausted"]
  /\ UNCHANGED <<owned, alive>>

\* The owner moves the process between active states.
Advance(p) ==
  /\ owned[p] /\ st[p] \in Active
  /\ \E s \in Active : CanTransition(st[p], s) /\ st' = [st EXCEPT ![p] = s]
  /\ UNCHANGED <<owned, alive>>

Birth(p) ==
  /\ owned[p] /\ ~alive[p]
  /\ alive' = [alive EXCEPT ![p] = TRUE]
  /\ UNCHANGED <<st, owned>>

Death(p) ==
  /\ alive[p]
  /\ alive' = [alive EXCEPT ![p] = FALSE]
  /\ UNCHANGED <<st, owned>>

\* The owner lets go: the child is gone, and so is the claim on the process.
Rest(p) ==
  /\ owned[p] /\ ~alive[p]
  /\ \/ \E s \in Resting : CanTransition(st[p], s) /\ st' = [st EXCEPT ![p] = s]
     \/ st[p] = "gone" /\ UNCHANGED st
  /\ owned' = [owned EXCEPT ![p] = FALSE]
  /\ UNCHANGED alive

\* A launch whose control surface was taken before it began never gets to
\* move the process on: it shows as starting for the rest of the session.
Abandon(p) ==
  /\ owned[p] /\ ~alive[p] /\ st[p] = "Starting"
  /\ owned' = [owned EXCEPT ![p] = FALSE]
  /\ UNCHANGED <<st, alive>>

Remove(p) ==
  /\ st[p] \in ProcStatus
  /\ st' = [st EXCEPT ![p] = "gone"]
  /\ UNCHANGED <<owned, alive>>

Next == \E p \in Proc :
  \/ Register(p) \/ Launch(p) \/ Exhaust(p) \/ Advance(p)
  \/ Birth(p) \/ Death(p) \/ Rest(p) \/ Abandon(p) \/ Remove(p)

Spec == Init /\ [][Next]_vars

=============================================================================
