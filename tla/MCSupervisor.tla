---------------------------- MODULE MCSupervisor ----------------------------
(***************************************************************************)
(* Instances of Supervisor for TLC.  Spec versions are model values; the   *)
(* runs differ in how many of each thing there is and in Allowed.            *)
(***************************************************************************)
EXTENDS SupervisorInvariant, TLC

\* Tasks and groups are interchangeable, and processes are when there are two.
\* (Safety runs only.)
TaskSymmetry == Permutations(Actor) \cup Permutations(Group)
PairSymmetry == TaskSymmetry \cup Permutations(Proc)

=============================================================================
