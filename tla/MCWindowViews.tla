---------------------------- MODULE MCWindowViews ----------------------------
(***************************************************************************)
(* The parts of the window that follow the core, on a small instance: the   *)
(* read models, the navigation, the trust prompts and the leftovers of an   *)
(* earlier run.  A behaviour drives one of them; the others keep their      *)
(* initial state.                                                           *)
(***************************************************************************)
EXTENDS ReadModels, Navigation, TrustPrompts, Leftovers

CONSTANTS alpha, beta       \* two projects

RowOf(at, k, s, t, r) ==
  [project |-> at, kind |-> k, status |-> s, requires_trust |-> t, resumable |-> r]

\* An agent with a conversation to resume, and a command whose variant is not
\* trusted any more.
MCShape ==
  {RowOf(alpha, "Agent", s, FALSE, TRUE) : s \in {"Running", "Stopped"}}
  \cup {RowOf(beta, "Command", "Running", TRUE, FALSE)}

\* The second process was spawned by the first.
MCLead == [id \in NavId |-> IF id = 2 THEN 1 ELSE None]

windowVars == <<surface, readModelVars, navigationVars, trustVars, leftoverVars>>

Init ==
  /\ surface \in Surfaces
  /\ ReadModelInit /\ NavigationInit /\ TrustInit /\ LeftoverInit
  /\ surface # "reads" => disk = None /\ mounted = {"list"}

Next ==
  /\ \/ ReadModelNext /\ UNCHANGED <<navigationVars, trustVars, leftoverVars>>
     \/ NavigationNext /\ UNCHANGED <<readModelVars, trustVars, leftoverVars>>
     \/ TrustNext /\ UNCHANGED <<readModelVars, navigationVars, leftoverVars>>
     \/ LeftoverNext /\ UNCHANGED <<readModelVars, navigationVars, trustVars>>
  /\ UNCHANGED surface

Spec == Init /\ [][Next]_windowVars /\ ReadModelFairness

\* The state of every part is well typed; the process list's buffer of events stays
\* within its cap however many arrive while a snapshot is under way (useProcesses.ts).
WindowTypeOK ==
  /\ surface \in Surfaces
  /\ ReadModelTypeOK /\ NavigationTypeOK /\ TrustTypeOK /\ LeftoverTypeOK
=============================================================================
