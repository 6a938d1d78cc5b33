----------------------------- MODULE WindowDomain -----------------------------
(***************************************************************************)
(* What the modules about the window (crates/app/ui/src) share: the wire    *)
(* types of domain.ts they tell apart, the status predicates of             *)
(* lib/status.ts, and the variable that says which part of the window a     *)
(* behaviour drives.  Those parts share no state with one another (each     *)
(* hook owns its own), so one specification explores them side by side, one *)
(* part per behaviour, instead of multiplying their states.                 *)
(***************************************************************************)
EXTENDS Naturals, Sequences, FiniteSets, SequencesExt

CONSTANTS
  None,           \* null
  Surfaces        \* the parts of the window a run drives

VARIABLE surface

\* domain.ts
ProcessKind == {"Command", "Agent", "Terminal"}

ProcStatus == {"Stopped", "Starting", "Running", "Stopping", "Crashed", "Restarting",
               "RestartExhausted"}

\* status.ts: a live owning actor.
isActive(status) == status \in {"Starting", "Running", "Restarting", "Stopping"}

\* What a row offers, narrower than what the core accepts.
canStart(status) == status = "Stopped"
canStop(status) == isActive(status) /\ status # "Stopping"
canRestart(status) == status \in {"Running", "Crashed", "RestartExhausted"}
canRemove(status) == status # "Stopping"

\* Array.filter: the members of a sequence that are in a set, in their order.
Keeping(s, keep) ==
  LET kept[i \in 0..Len(s)] ==
        IF i = 0 THEN <<>>
        ELSE IF s[i] \in keep THEN Append(kept[i - 1], s[i]) ELSE kept[i - 1]
  IN kept[Len(s)]

=============================================================================
