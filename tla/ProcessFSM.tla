----------------------------- MODULE ProcessFSM -----------------------------
(***************************************************************************)
(* The lifecycle states of a managed process and the edges the state       *)
(* machine allows between them (core/src/process.rs).  A constant module:  *)
(* it is extended by the detailed supervisor and by the abstract lifecycle *)
(* it implements, so that both speak about one table.                      *)
(***************************************************************************)

ProcStatus == {"Stopped", "Starting", "Running", "Crashed",
               "Restarting", "Stopping", "RestartExhausted"}

\* is_active: the states in which an actor owns the process.
Active == {"Starting", "Running", "Restarting", "Stopping"}

Resting == ProcStatus \ Active

\* The (from, to) pairs ProcStatus::transition accepts: the named edges, and
\* a crash out of every live state.
Edges ==
  {<<"Stopped", "Starting">>, <<"Starting", "Running">>,
   <<"Starting", "Stopping">>, <<"Running", "Stopping">>,
   <<"Running", "Stopped">>, <<"Running", "Restarting">>,
   <<"Restarting", "Starting">>, <<"Stopping", "Stopped">>,
   <<"Crashed", "Starting">>, <<"Crashed", "RestartExhausted">>,
   <<"RestartExhausted", "Starting">>}
  \cup Active \X {"Crashed"}

CanTransition(from, to) == <<from, to>> \in Edges

=============================================================================
