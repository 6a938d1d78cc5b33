----------------------------- MODULE Supervisor -----------------------------
(***************************************************************************)
(* The process supervisor: the registry of managed processes, the actor    *)
(* tasks that each own one process's child, the callers that start, stop,  *)
(* restart and close processes, the self-healing reactor that relaunches   *)
(* crashed ones, and the shutdown that reaps them all.                     *)
(*                                                                         *)
(* A step is what one thread does between two points at which another      *)
(* thread can act: one critical section of the registry lock, one await.   *)
(* A supervisor call that reads the registry under one lock and writes it  *)
(* under another is therefore two actions, with what it read kept in       *)
(* `call'.                                                                 *)
(***************************************************************************)
EXTENDS Naturals, Sequences, ProcessFSM

CONSTANTS
  Proc,         \* process ids; each is registered at most once
  Actor,        \* actor tasks; a finished task nobody refers to is reused
  Group,        \* OS process groups, named by their leader's pid
  Client,       \* threads that issue commands (UI commands, MCP and HTTP
                \* sessions, the file-watch reactor)
  Reactor,      \* the thread that runs the self-healing loop
  Version,      \* launch specs a command can be given by its solo.yml
  AutoVersion,  \* those that declare auto_restart
  NoActor, NoGroup,
  MailboxCap,   \* MAILBOX_CAPACITY
  MaxRestarts,  \* MAX_RESTARTS
  MaxIdle,      \* MAX_SHUTDOWN_IDLE_PASSES
  BusCap,       \* events the bus retains for a slow subscriber
  Allowed       \* what happens to the supervisor in this instance: the
                \* commands that are issued and the disturbances that strike

CommandKind == {"start", "startCandidate", "restart", "stop", "close",
                "deregister", "update", "shutdown"}

\* A spawn or a runtime-state write that fails, a panic in an actor, a trust
\* that is revoked, an event lost to other traffic, a window that slides, a
\* shutdown that begins while a close is waiting.
Disturbance == {"spawnFails", "recordFails", "panics", "revokes", "overrun",
                "age", "midClose"}

ASSUME SupervisorAssumption ==
  /\ Reactor \notin Client
  /\ NoActor \notin Actor
  /\ NoGroup \notin Group
  /\ AutoVersion \subseteq Version
  /\ MailboxCap \in Nat \ {0}
  /\ MaxRestarts \in Nat
  /\ MaxIdle \in Nat \ {0}
  /\ BusCap \in Nat \ {0}
  /\ Allowed \subseteq CommandKind \cup Disturbance

VARIABLES
  entry,    \* [Proc -> Entry]: is the process in the registry?
  status,   \* [Proc -> ProcStatus]: the registry's cached status
  handle,   \* [Proc -> Handle]: the control surface of the actor
  pgid,     \* [Proc -> Group or NoGroup]: the group monitoring samples
  spec,     \* [Proc -> Version]: the launch spec the registry holds
  actor,    \* [Actor -> ActorState]
  inbox,    \* [Actor -> Seq(Msg)]: the mailbox's queued messages
  live,     \* [Proc -> SUBSET Group]: groups of the process still running
  records,  \* SUBSET Group: the runtime-state file
  trusted,  \* SUBSET Version: the trust store
  events,   \* Seq(Event): process events the reactor has not received
  lagged,   \* the bus overwrote an event the reactor had not received
  rescan,   \* SUBSET Proc: what is left of a rescan's snapshot
  window,   \* [Proc -> 0..MaxRestarts]: restarts in the trailing window
  call,     \* [Caller -> Call]: the call a thread is in the middle of
  shut      \* Shutdown: the state of Supervisor::shutdown

registryVars == <<entry, status, handle, pgid, spec>>
actorVars    == <<actor, inbox>>
worldVars    == <<live, records>>
reactorVars  == <<events, lagged, rescan, window>>
vars == <<registryVars, actorVars, worldVars, trusted, reactorVars, call, shut>>

Caller == Client \cup {Reactor}

\* "closing": removed from the registry by close, which is still reaping;
\* "removed": ProcessRemoved has been announced.
Entry == {"new", "present", "closing", "removed"}

Msg == {"Stop", "Restart"}

Handle == [mailbox : Actor \cup {NoActor}, join : Actor \cup {NoActor}]
NoHandle == [mailbox |-> NoActor, join |-> NoActor]

\* Where an actor task is in its body (run, and the outer task in spawn).
Before   == {"launching", "spawning"}
Holding  == {"spawned", "recorded", "announcing", "running", "reaping"}
Engaged  == Before \cup Holding \cup {"forgetting", "ending"}
ActorPc  == Engaged \cup {"idle", "releasing", "panicked"}

\* What ended the child's run: it exited cleanly, it crashed, or the actor
\* took a message.
Outcome == {"exit", "crash", "stop", "restart"}

\* The task's own state: the process it drives, the launch spec it was handed
\* (every respawn reuses it), the child it holds, and what ended the child.
Task == [pc : ActorPc \ {"idle"}, owner : Proc, cmd : Version,
         child : Group \cup {NoGroup}, outcome : Outcome]
ActorState == Task \cup [pc : {"idle"}]
Asleep == [pc |-> "idle"]

\* From the spawn until the record is cleared, a task has a child.
Actors == {f \in [Actor -> ActorState] : \A a \in Actor :
             f[a].pc \in Holding \cup {"forgetting"} => f[a].child # NoGroup}

Event == [kind : {"Crashed", "Stopped", "Removed"}, proc : Proc]

Idle == [op |-> "idle"]
Call == [op : {"idle"}]
        \cup [op : {"signal"}, proc : Proc, msg : Msg]
        \cup [op : {"claim"}, proc : Proc, ver : Version]
        \cup [op : {"attach"}, proc : Proc, actor : Actor]
        \cup [op : {"await"}, proc : Proc, join : Actor \cup {NoActor}]

Shutdown == [pc : {"off", "scan", "reap", "done"}, todo : SUBSET Proc,
             joins : SUBSET Actor, mid : BOOLEAN, idle : 0..MaxIdle - 1]

TypeOK ==
  /\ entry \in [Proc -> Entry]
  /\ status \in [Proc -> ProcStatus]
  /\ handle \in [Proc -> Handle]
  /\ pgid \in [Proc -> Group \cup {NoGroup}]
  /\ spec \in [Proc -> Version]
  /\ actor \in Actors
  /\ inbox \in [Actor -> Seq(Msg)]
  /\ live \in [Proc -> SUBSET Group]
  /\ records \subseteq Group
  /\ trusted \subseteq Version
  /\ events \in Seq(Event)
  /\ lagged \in BOOLEAN
  /\ rescan \subseteq Proc
  /\ window \in [Proc -> 0..MaxRestarts]
  /\ call \in [Caller -> Call]
  /\ shut \in Shutdown

Init ==
  /\ entry = [p \in Proc |-> "new"]
  /\ status = [p \in Proc |-> "Stopped"]
  /\ handle = [p \in Proc |-> NoHandle]
  /\ pgid = [p \in Proc |-> NoGroup]
  /\ spec \in [Proc -> Version]
  /\ actor = [a \in Actor |-> Asleep]
  /\ inbox = [a \in Actor |-> <<>>]
  /\ live = [p \in Proc |-> {}]
  /\ records = {}
  /\ trusted \in SUBSET Version
  /\ events = <<>>
  /\ lagged = FALSE
  /\ rescan = {}
  /\ window = [p \in Proc |-> 0]
  /\ call = [c \in Caller |-> Idle]
  /\ shut = [pc |-> "off", todo |-> {}, joins |-> {}, mid |-> FALSE, idle |-> 0]

-----------------------------------------------------------------------------
(* Operators the actions share.                                            *)

Present(p) == entry[p] = "present"

Alive(a) == actor[a].pc # "idle"

\* A mutant: a clone of the sender outlives the entry.
SenderSurvives(a) == TRUE

\* The sending half of the mailbox is held by the registry entry alone: an
\* entry that is removed, or whose handle is taken, disconnects it.
Connected(a) == handle[actor[a].owner].mailbox = a

\* A task handle is free for a launch of process r once its task has finished
\* and nobody holds it but r's own entry, whose handle the launch replaces.
Fresh(a, r) ==
  /\ ~Alive(a)
  /\ \A p \in Proc \ {r} : a \notin {handle[p].mailbox, handle[p].join}
  /\ \A c \in Caller : /\ call[c].op = "attach" => call[c].actor # a
                       /\ call[c].op = "await" => call[c].join # a
  /\ a \notin shut.joins

\* The kernel gives a new child a group that no running or unreaped one has.
FreeGroup(g) ==
  /\ \A p \in Proc : g \notin live[p]
  /\ \A a \in Actor : Alive(a) => actor[a].child # g

\* EventBus::publish: a full ring overwrites its oldest event.
Publish(kind, p) ==
  LET full == Len(events) = BusCap
      kept == IF full THEN Tail(events) ELSE events
  IN  /\ events' = Append(kept, [kind |-> kind, proc |-> p])
      /\ lagged' = (lagged \/ full)

\* try_send: lost when the queue is full or the receiver has gone.
Delivered(a) == /\ a # NoActor
                /\ actor[a].pc \notin {"idle", "panicked"}
                /\ Len(inbox[a]) < MailboxCap

TrySend(a, m) ==
  inbox' = IF Delivered(a) THEN [inbox EXCEPT ![a] = Append(@, m)] ELSE inbox

\* Registry::set_status does nothing once the entry has been removed.
SetStatus(p, s) ==
  status' = IF Present(p) THEN [status EXCEPT ![p] = s] ELSE status

\* A mutant: the sampling target is set and never cleared.
SetPgidForGood(p, g) ==
  pgid' = IF Present(p) /\ g # NoGroup THEN [pgid EXCEPT ![p] = g] ELSE pgid

SetPgidOf(p, g) ==
  pgid' = IF Present(p) THEN [pgid EXCEPT ![p] = g] ELSE pgid

\* Removing the entry drops everything it held.
Remove(p, next) ==
  /\ entry' = [entry EXCEPT ![p] = next]
  /\ status' = [status EXCEPT ![p] = "Stopped"]
  /\ handle' = [handle EXCEPT ![p] = NoHandle]
  /\ pgid' = [pgid EXCEPT ![p] = NoGroup]
  /\ UNCHANGED spec

-----------------------------------------------------------------------------
(* Commands.  None is issued once shutdown has started: the shell stops    *)
(* its servers first (app/src/lib.rs, stop_serving_then_reap) and the UI   *)
(* has gone, hence shut.pc = "off".                                        *)

\* What every command finds first: an idle caller and a registered process.
Asked(c, p, command) == /\ command \in Allowed /\ shut.pc = "off"
                        /\ call[c] = Idle /\ Present(p)

Register(p) ==
  /\ shut.pc = "off" /\ entry[p] = "new"
  /\ entry' = [entry EXCEPT ![p] = "present"]
  /\ UNCHANGED <<status, handle, pgid, spec, actorVars, worldVars, trusted,
                 reactorVars, call, shut>>

\* start and resume, up to the claim: a resting, trusted process is taken
\* together with the launch spec the trust check was made for, and its crash
\* history is dropped.
Start(c, p) ==
  /\ Asked(c, p, "start") /\ status[p] \in Resting /\ spec[p] \in trusted
  /\ window' = [window EXCEPT ![p] = 0]
  /\ call' = [call EXCEPT ![c] = [op |-> "claim", proc |-> p, ver |-> spec[p]]]
  /\ UNCHANGED <<registryVars, actorVars, worldVars, trusted, events, lagged,
                 rescan, shut>>

\* One round of launch_all (start_all, start_all_commands): the candidates are
\* the stopped commands, and the crash history is kept.
StartCandidate(c, p) ==
  /\ Asked(c, p, "startCandidate")
  /\ status[p] = "Stopped" /\ spec[p] \in trusted
  /\ call' = [call EXCEPT ![c] = [op |-> "claim", proc |-> p, ver |-> spec[p]]]
  /\ UNCHANGED <<registryVars, actorVars, worldVars, trusted, reactorVars, shut>>

\* restart and file_restart: an active process is messaged, a resting one is
\* launched; the trust check comes first on either path.
Restart(c, p) ==
  /\ Asked(c, p, "restart") /\ spec[p] \in trusted
  /\ window' = [window EXCEPT ![p] = 0]
  /\ call' = [call EXCEPT ![c] =
       IF status[p] \in Active
       THEN [op |-> "signal", proc |-> p, msg |-> "Restart"]
       ELSE [op |-> "claim", proc |-> p, ver |-> spec[p]]]
  /\ UNCHANGED <<registryVars, actorVars, worldVars, trusted, events, lagged,
                 rescan, shut>>

\* stop, up to the send; on a resting process it returns false.
Stop(c, p) ==
  /\ Asked(c, p, "stop") /\ status[p] \in Active
  /\ call' = [call EXCEPT ![c] = [op |-> "signal", proc |-> p, msg |-> "Stop"]]
  /\ UNCHANGED <<registryVars, actorVars, worldVars, trusted, reactorVars, shut>>

\* Registry::signal, the second half of stop and restart.
Signal(c) ==
  /\ call[c].op = "signal"
  /\ TrySend(handle[call[c].proc].mailbox, call[c].msg)
  /\ call' = [call EXCEPT ![c] = Idle]
  /\ UNCHANGED <<registryVars, actor, worldVars, trusted, reactorVars, shut>>

\* A mutant: begin_launch does not look at the status.
ClaimablePresent(p) == Present(p)

\* begin_launch's test.
Claimable(p) == Present(p) /\ status[p] \in Resting

\* A mutant: the launch reads the spec again, after the trust check.
SpecNow(c) == spec[call[c].proc]

\* The spec a launch runs is the one its trust check was made for.
SpecChecked(c) == call[c].ver

\* launch_actor up to the new task: begin_launch claims a resting process
\* under one lock, installing the mailbox with the status, and the task starts.
Claim(c) ==
  LET p == call[c].proc IN
  /\ call[c].op = "claim" /\ Claimable(p)
  /\ \E a \in Actor :
       /\ Fresh(a, p)
       /\ status' = [status EXCEPT ![p] = "Starting"]
       /\ handle' = [handle EXCEPT ![p] = [mailbox |-> a, join |-> NoActor]]
       /\ actor' = [actor EXCEPT ![a] =
            [pc |-> "launching", owner |-> p, cmd |-> SpecChecked(c),
             child |-> NoGroup, outcome |-> "exit"]]
       /\ inbox' = [inbox EXCEPT ![a] = <<>>]
       /\ call' = [call EXCEPT ![c] = [op |-> "attach", proc |-> p, actor |-> a]]
  /\ UNCHANGED <<entry, pgid, spec, worldVars, trusted, reactorVars, shut>>

\* begin_launch refuses: another launch won, or the entry is gone.
ClaimRefused(c) ==
  /\ call[c].op = "claim" /\ ~Claimable(call[c].proc)
  /\ call' = [call EXCEPT ![c] = Idle]
  /\ UNCHANGED <<registryVars, actorVars, worldVars, trusted, reactorVars, shut>>

\* attach_join, on whatever handle the entry holds by then.  With no handle it
\* aborts the outer task: before its first poll that is the end of the actor,
\* later it leaves the inner one, detached, running.
Attach(c) ==
  LET p == call[c].proc
      a == call[c].actor
  IN
  /\ call[c].op = "attach"
  /\ \/ /\ handle[p] # NoHandle
        /\ handle' = [handle EXCEPT ![p].join = a]
        /\ UNCHANGED actorVars
     \/ /\ handle[p] = NoHandle
        /\ UNCHANGED <<handle, actorVars>>
     \/ /\ handle[p] = NoHandle /\ actor[a].pc = "launching"
        /\ actor' = [actor EXCEPT ![a] = Asleep]
        /\ inbox' = [inbox EXCEPT ![a] = <<>>]
        /\ UNCHANGED handle
  /\ call' = [call EXCEPT ![c] = Idle]
  /\ UNCHANGED <<entry, status, pgid, spec, worldVars, trusted, reactorVars, shut>>

\* close, up to the await: the entry goes first, then its actor is told to
\* stop and its mailbox is dropped.
Close(c, p) ==
  /\ Asked(c, p, "close")
  /\ Remove(p, "closing")
  /\ TrySend(handle[p].mailbox, "Stop")
  /\ call' = [call EXCEPT ![c] = [op |-> "await", proc |-> p, join |-> handle[p].join]]
  /\ UNCHANGED <<actor, worldVars, trusted, reactorVars, shut>>

\* A mutant: close does not wait.
JoinIgnored(c) == TRUE

\* The join close took has resolved, or there was none to take.
Joined(c) == call[c].join # NoActor => ~Alive(call[c].join)

FinishClose(c) ==
  /\ call[c].op = "await" /\ Joined(c)
  /\ entry' = [entry EXCEPT ![call[c].proc] = "removed"]
  /\ Publish("Removed", call[c].proc)
  /\ call' = [call EXCEPT ![c] = Idle]
  /\ UNCHANGED <<status, handle, pgid, spec, actorVars, worldVars, trusted,
                 rescan, window, shut>>

\* deregister_if_resting: config reload drops a command deleted from solo.yml.
Deregister(p) ==
  /\ "deregister" \in Allowed /\ shut.pc = "off"
  /\ Present(p) /\ status[p] \in Resting
  /\ Remove(p, "removed")
  /\ Publish("Removed", p)
  /\ UNCHANGED <<actorVars, worldVars, trusted, rescan, window, call, shut>>

\* update_command: config reload replaces the spec in place, whatever the
\* status, and leaves the live actor with the spec it was launched on.
UpdateCommand(p, v) ==
  /\ "update" \in Allowed /\ shut.pc = "off"
  /\ Present(p) /\ spec[p] # v
  /\ spec' = [spec EXCEPT ![p] = v]
  /\ UNCHANGED <<entry, status, handle, pgid, actorVars, worldVars, trusted,
                 reactorVars, call, shut>>

\* The trust store the gates read (TrustRepo).
Trust(v) ==
  /\ shut.pc = "off" /\ v \notin trusted
  /\ trusted' = trusted \cup {v}
  /\ UNCHANGED <<registryVars, actorVars, worldVars, reactorVars, call, shut>>

Untrust(v) ==
  /\ shut.pc = "off" /\ "revokes" \in Allowed /\ v \in trusted
  /\ trusted' = trusted \ {v}
  /\ UNCHANGED <<registryVars, actorVars, worldVars, reactorVars, call, shut>>

-----------------------------------------------------------------------------
(* The actor task: actor.rs, run.                                          *)

At(a, pc) == actor[a].pc = pc

\* A mutant: only the message at the head of the queue is looked at.
StopAtHead(a) == (inbox[a] # <<>> /\ Head(inbox[a]) = "Stop") \/ ~Connected(a)

\* stop_is_pending: a stop among the queued messages, or no sender left.
StopPending(a) ==
  \/ \E i \in DOMAIN inbox[a] : inbox[a][i] = "Stop"
  \/ ~Connected(a)

\* A stop that landed before the first (or the next) spawn is honoured here.
QuitBeforeSpawn(a) ==
  /\ At(a, "launching") /\ StopPending(a)
  /\ SetStatus(actor[a].owner, "Stopping")
  /\ actor' = [actor EXCEPT ![a].pc = "ending", ![a].outcome = "stop"]
  /\ UNCHANGED <<entry, handle, pgid, spec, inbox, worldVars, trusted,
                 reactorVars, call, shut>>

\* Otherwise the queued restarts are drained: a spawn is coming anyway.
GoSpawn(a) ==
  /\ At(a, "launching") /\ ~StopPending(a)
  /\ inbox' = [inbox EXCEPT ![a] = <<>>]
  /\ actor' = [actor EXCEPT ![a].pc = "spawning"]
  /\ UNCHANGED <<registryVars, worldVars, trusted, reactorVars, call, shut>>

Spawn(a) ==
  /\ At(a, "spawning")
  /\ \E g \in Group :
       /\ FreeGroup(g)
       /\ live' = [live EXCEPT ![actor[a].owner] = @ \cup {g}]
       /\ actor' = [actor EXCEPT ![a].pc = "spawned", ![a].child = g]
  /\ UNCHANGED <<registryVars, inbox, records, trusted, reactorVars, call, shut>>

SpawnFails(a) ==
  /\ At(a, "spawning") /\ "spawnFails" \in Allowed
  /\ SetStatus(actor[a].owner, "Crashed")
  /\ Publish("Crashed", actor[a].owner)
  /\ actor' = [actor EXCEPT ![a].pc = "releasing"]
  /\ UNCHANGED <<entry, handle, pgid, spec, inbox, worldVars, trusted, rescan,
                 window, call, shut>>

\* A mutant: the child is not recorded.
RecordSkipped(a) ==
  /\ At(a, "spawned")
  /\ actor' = [actor EXCEPT ![a].pc = "recorded"]
  /\ UNCHANGED <<registryVars, inbox, worldVars, trusted, reactorVars, call, shut>>

\* record_orphan, best effort: a failed write is ignored.
Record(a) ==
  /\ At(a, "spawned")
  /\ \/ records' = records \cup {actor[a].child}
     \/ "recordFails" \in Allowed /\ UNCHANGED records
  /\ actor' = [actor EXCEPT ![a].pc = "recorded"]
  /\ UNCHANGED <<registryVars, inbox, live, trusted, reactorVars, call, shut>>

SetPgid(a) ==
  /\ At(a, "recorded")
  /\ SetPgidOf(actor[a].owner, actor[a].child)
  /\ actor' = [actor EXCEPT ![a].pc = "announcing"]
  /\ UNCHANGED <<entry, status, handle, spec, inbox, worldVars, trusted,
                 reactorVars, call, shut>>

Announce(a) ==
  /\ At(a, "announcing")
  /\ SetStatus(actor[a].owner, "Running")
  /\ actor' = [actor EXCEPT ![a].pc = "running"]
  /\ UNCHANGED <<entry, handle, pgid, spec, inbox, worldVars, trusted,
                 reactorVars, call, shut>>

\* The select loop, one branch each; all three drop the sampling target.

\* The child has exited; classify_exit tells a clean exit from a crash.
ObserveExit(a) ==
  /\ At(a, "running") /\ actor[a].child \notin live[actor[a].owner]
  /\ SetPgidOf(actor[a].owner, NoGroup)
  /\ \E how \in {"exit", "crash"} :
       actor' = [actor EXCEPT ![a].pc = "forgetting", ![a].outcome = how]
  /\ UNCHANGED <<entry, status, handle, spec, inbox, worldVars, trusted,
                 reactorVars, call, shut>>

\* A stop, or a mailbox whose sender has gone and whose queue is empty.
TakeStop(a) ==
  /\ At(a, "running")
  /\ IF inbox[a] = <<>> THEN ~Connected(a) ELSE Head(inbox[a]) = "Stop"
  /\ inbox' = [inbox EXCEPT ![a] = IF @ = <<>> THEN @ ELSE Tail(@)]
  /\ SetPgidOf(actor[a].owner, NoGroup)
  /\ SetStatus(actor[a].owner, "Stopping")
  /\ actor' = [actor EXCEPT ![a].pc = "reaping", ![a].outcome = "stop"]
  /\ UNCHANGED <<entry, handle, spec, worldVars, trusted, reactorVars, call, shut>>

TakeRestart(a) ==
  /\ At(a, "running") /\ inbox[a] # <<>> /\ Head(inbox[a]) = "Restart"
  /\ inbox' = [inbox EXCEPT ![a] = Tail(@)]
  /\ SetPgidOf(actor[a].owner, NoGroup)
  /\ SetStatus(actor[a].owner, "Restarting")
  /\ actor' = [actor EXCEPT ![a].pc = "reaping", ![a].outcome = "restart"]
  /\ UNCHANGED <<entry, handle, spec, worldVars, trusted, reactorVars, call, shut>>

\* A mutant: a child that ignores SIGTERM is left running.
ReapTermOnly(a) ==
  /\ At(a, "reaping")
  /\ actor' = [actor EXCEPT ![a].pc = "forgetting"]
  /\ UNCHANGED <<registryVars, inbox, worldVars, trusted, reactorVars, call, shut>>

\* graceful_stop: whether it obeys SIGTERM or is killed after the grace, the
\* child is gone when this returns.
Reap(a) ==
  /\ At(a, "reaping")
  /\ live' = [live EXCEPT ![actor[a].owner] = @ \ {actor[a].child}]
  /\ actor' = [actor EXCEPT ![a].pc = "forgetting"]
  /\ UNCHANGED <<registryVars, inbox, records, trusted, reactorVars, call, shut>>

\* drain_output and forget_orphan.
Forget(a) ==
  /\ At(a, "forgetting")
  /\ records' = records \ {actor[a].child}
  /\ actor' = [actor EXCEPT ![a].pc = "ending", ![a].child = NoGroup]
  /\ UNCHANGED <<registryVars, inbox, live, trusted, reactorVars, call, shut>>

\* The final advance of an actor that stops or whose child exited ...
Settle(a) ==
  LET p  == actor[a].owner
      to == IF actor[a].outcome = "crash" THEN "Crashed" ELSE "Stopped"
  IN
  /\ At(a, "ending") /\ actor[a].outcome # "restart"
  /\ SetStatus(p, to)
  /\ Publish(to, p)
  /\ actor' = [actor EXCEPT ![a].pc = "releasing"]
  /\ UNCHANGED <<entry, handle, pgid, spec, inbox, worldVars, trusted, rescan,
                 window, call, shut>>

\* ... and of one that restarts in place, which loops to the top.
Respawn(a) ==
  /\ At(a, "ending") /\ actor[a].outcome = "restart"
  /\ SetStatus(actor[a].owner, "Starting")
  /\ actor' = [actor EXCEPT ![a].pc = "launching"]
  /\ UNCHANGED <<entry, handle, pgid, spec, inbox, worldVars, trusted,
                 reactorVars, call, shut>>

\* release_all, and the end of the task: its receiver is dropped, its join
\* resolves.  (The leases it releases are not part of this module.)
Finish(a) ==
  /\ At(a, "releasing")
  /\ actor' = [actor EXCEPT ![a] = Asleep]
  /\ inbox' = [inbox EXCEPT ![a] = <<>>]
  /\ UNCHANGED <<registryVars, worldVars, trusted, reactorVars, call, shut>>

\* The body panics: its locals are dropped.  No signal is sent to the child (a
\* hangup may reach it later: ChildExits).
Panic(a) ==
  /\ "panics" \in Allowed /\ actor[a].pc \in Engaged \cup {"releasing"}
  /\ actor' = [actor EXCEPT ![a].pc = "panicked", ![a].child = NoGroup]
  /\ inbox' = [inbox EXCEPT ![a] = <<>>]
  /\ UNCHANGED <<registryVars, worldVars, trusted, reactorVars, call, shut>>

\* The outer task's answer: kill and forget the recorded group, force Crashed.
HandlePanic(a) ==
  LET p == actor[a].owner
      g == pgid[p]
  IN
  /\ At(a, "panicked")
  /\ live' = [live EXCEPT ![p] = @ \ {g}]
  /\ records' = records \ {g}
  /\ SetPgidOf(p, NoGroup)
  /\ SetStatus(p, "Crashed")
  /\ Publish("Crashed", p)
  /\ actor' = [actor EXCEPT ![a] = Asleep]
  /\ UNCHANGED <<entry, handle, spec, inbox, trusted, rescan, window, call, shut>>

-----------------------------------------------------------------------------
(* The self-healing reactor: restart.rs.                                   *)

\* Between two events, with no relaunch in progress.
Receiving == call[Reactor] = Idle /\ rescan = {}

Eligible(p) == /\ shut.pc = "off"
               /\ Present(p)
               /\ spec[p] \in AutoVersion
               /\ spec[p] \in trusted

\* A mutant: one restart more than the window allows.
RoomForOneMore(p) == window[p] <= MaxRestarts

\* on_crash: the window has room for this restart.
Room(p) == window[p] < MaxRestarts

\* A mutant: exhaustion overwrites whatever the status is by now.
ExhaustAlways(p) == TRUE

\* exhaust_if_crashed's test.
Exhaustible(p) == status[p] = "Crashed"

\* auto_restart_after_crash up to the claim.  The status is looked at when
\* the window is full, and not otherwise.
AutoRestart(p) ==
  \/ /\ ~Eligible(p)
     /\ UNCHANGED <<status, window, call>>
  \/ /\ Eligible(p) /\ Room(p)
     /\ window' = [window EXCEPT ![p] = @ + 1]
     /\ call' = [call EXCEPT ![Reactor] =
                   [op |-> "claim", proc |-> p, ver |-> spec[p]]]
     /\ UNCHANGED status
  \/ /\ Eligible(p) /\ ~Room(p) /\ Exhaustible(p)
     /\ status' = [status EXCEPT ![p] = "RestartExhausted"]
     /\ window' = [window EXCEPT ![p] = 0]
     /\ UNCHANGED call
  \/ /\ Eligible(p) /\ ~Room(p) /\ ~Exhaustible(p)
     /\ UNCHANGED <<status, window, call>>

ReactCrashed ==
  /\ Receiving /\ ~lagged /\ events # <<>> /\ Head(events).kind = "Crashed"
  /\ AutoRestart(Head(events).proc)
  /\ events' = Tail(events)
  /\ UNCHANGED <<entry, handle, pgid, spec, actorVars, worldVars, trusted,
                 lagged, rescan, shut>>

\* A stop, a clean exit or a removal drops the crash history.
ReactResting ==
  /\ Receiving /\ ~lagged /\ events # <<>> /\ Head(events).kind # "Crashed"
  /\ window' = [window EXCEPT ![Head(events).proc] = 0]
  /\ events' = Tail(events)
  /\ UNCHANGED <<registryVars, actorVars, worldVars, trusted, lagged, rescan,
                 call, shut>>

\* A mutant: a lag is survived, and what it lost is not looked for.
NothingLost == {}

\* rescan_crashed's snapshot.
CrashedNow == {p \in Proc : Present(p) /\ status[p] = "Crashed"}

\* RecvError::Lagged: rescan_crashed takes a snapshot, and reading resumes
\* with the oldest event still retained.
ReactLagged ==
  /\ Receiving /\ lagged
  /\ lagged' = FALSE
  /\ rescan' = CrashedNow
  /\ UNCHANGED <<registryVars, actorVars, worldVars, trusted, events, window,
                 call, shut>>

RescanOne(p) ==
  /\ call[Reactor] = Idle /\ p \in rescan
  /\ AutoRestart(p)
  /\ rescan' = rescan \ {p}
  /\ UNCHANGED <<entry, handle, pgid, spec, actorVars, worldVars, trusted,
                 events, lagged, shut>>

\* Other traffic on the shared bus overwrites the oldest unreceived event.
Overrun ==
  /\ "overrun" \in Allowed /\ events # <<>>
  /\ events' = Tail(events)
  /\ lagged' = TRUE
  /\ UNCHANGED <<registryVars, actorVars, worldVars, trusted, rescan, window,
                 call, shut>>

\* Time passes: the oldest restart leaves the trailing window.
Age(p) ==
  /\ "age" \in Allowed /\ window[p] > 0
  /\ window' = [window EXCEPT ![p] = @ - 1]
  /\ UNCHANGED <<registryVars, actorVars, worldVars, trusted, events, lagged,
                 rescan, call, shut>>

-----------------------------------------------------------------------------
(* Supervisor::shutdown, in passes.                                        *)

\* The shell drains its servers first, so commands are over; a close of the
\* UI's may still be reaping its process.
BeginShutdown ==
  /\ "shutdown" \in Allowed /\ shut.pc = "off"
  /\ \A c \in Client : call[c] # Idle => "midClose" \in Allowed /\ call[c].op = "await"
  /\ shut' = [shut EXCEPT !.pc = "scan"]
  /\ UNCHANGED <<registryVars, actorVars, worldVars, trusted, reactorVars, call>>

\* with_live_actor.
ScanPass ==
  /\ shut.pc = "scan"
  /\ shut' = [shut EXCEPT !.pc = "reap", !.joins = {}, !.mid = FALSE,
              !.todo = {p \in Proc : Present(p) /\ handle[p] # NoHandle}]
  /\ UNCHANGED <<registryVars, actorVars, worldVars, trusted, reactorVars, call>>

\* take_handle and signal_stop ...
ReapAttached(p) ==
  /\ p \in shut.todo /\ handle[p].join # NoActor
  /\ TrySend(handle[p].mailbox, "Stop")
  /\ handle' = [handle EXCEPT ![p] = NoHandle]
  /\ shut' = [shut EXCEPT !.todo = @ \ {p}, !.joins = @ \cup {handle[p].join}]
  /\ UNCHANGED <<entry, status, pgid, spec, actor, worldVars, trusted,
                 reactorVars, call>>

\* ... or a stop in place, when the launcher has not attached the join yet.
ReapMidLaunch(p) ==
  /\ p \in shut.todo /\ handle[p].join = NoActor
  /\ TrySend(handle[p].mailbox, "Stop")
  /\ shut' = [shut EXCEPT !.todo = @ \ {p}, !.mid = TRUE]
  /\ UNCHANGED <<registryVars, actor, worldVars, trusted, reactorVars, call>>

\* A mutant: the joins are dropped.
Undrained == TRUE

\* Every join of the pass has resolved.
Drained == \A a \in shut.joins : ~Alive(a)

\* A mutant: a pass that only yields counts as progress.
AlwaysProgress == 0

\* The passes in a row that have awaited no join, this one included.
IdlePasses == IF shut.joins # {} THEN 0 ELSE shut.idle + 1

\* Nothing was in mid-launch, or nothing else has been for too many passes.
LastPass(idle) == ~shut.mid \/ idle = MaxIdle

\* The pass is over: return, or go round again.
EndPass ==
  /\ shut.pc = "reap" /\ shut.todo = {} /\ Drained
  /\ LET done == LastPass(IdlePasses)
     IN  shut' = [shut EXCEPT !.pc = IF done THEN "done" ELSE "scan",
                              !.joins = {}, !.mid = FALSE,
                              !.idle = IF done THEN 0 ELSE IdlePasses]
  /\ UNCHANGED <<registryVars, actorVars, worldVars, trusted, reactorVars, call>>

\* The app quits once shutdown has returned, and an instance whose processes
\* have all been removed has nothing left to do: the system may stop here.
Quit == /\ shut.pc = "done" \/ \A p \in Proc : entry[p] = "removed"
        /\ UNCHANGED vars

\* A child exits by itself, at any time.
ChildExits(p) ==
  /\ \E g \in live[p] : live' = [live EXCEPT ![p] = @ \ {g}]
  /\ UNCHANGED <<registryVars, actorVars, records, trusted, reactorVars, call, shut>>

-----------------------------------------------------------------------------
Command(c, p) == \/ Start(c, p) \/ StartCandidate(c, p) \/ Restart(c, p)
                 \/ Stop(c, p) \/ Close(c, p)

\* What a caller does once it has begun a call: it never blocks, except on
\* the join it awaits.
Continue(c) == \/ Signal(c) \/ Claim(c) \/ ClaimRefused(c)
               \/ Attach(c) \/ FinishClose(c)

ActorStep(a) ==
  \/ QuitBeforeSpawn(a) \/ GoSpawn(a) \/ Spawn(a) \/ SpawnFails(a)
  \/ Record(a) \/ SetPgid(a) \/ Announce(a)
  \/ ObserveExit(a) \/ TakeStop(a) \/ TakeRestart(a)
  \/ Reap(a) \/ Forget(a) \/ Settle(a) \/ Respawn(a) \/ Finish(a)
  \/ HandlePanic(a)

React == \/ ReactCrashed \/ ReactResting \/ ReactLagged
         \/ \E p \in Proc : RescanOne(p)

ShutdownStep == \/ ScanPass \/ EndPass
                \/ \E p \in Proc : ReapAttached(p) \/ ReapMidLaunch(p)

Environment ==
  \/ \E p \in Proc : Register(p) \/ Deregister(p) \/ Age(p) \/ ChildExits(p)
  \/ \E p \in Proc, v \in Version : UpdateCommand(p, v)
  \/ \E v \in Version : Trust(v) \/ Untrust(v)
  \/ \E a \in Actor : Panic(a)
  \/ Overrun
  \/ BeginShutdown

Next ==
  \/ \E c \in Client, p \in Proc : Command(c, p)
  \/ \E c \in Caller : Continue(c)
  \/ \E a \in Actor : ActorStep(a)
  \/ React
  \/ ShutdownStep
  \/ Environment
  \/ Quit

Spec == Init /\ [][Next]_vars

\* The runtime keeps polling every task that can run, except a launcher that
\* shutdown finds between its claim and its attach: that one may be wedged
\* (lifecycle.rs:236).  Nothing obliges a user to act, a child to exit, or time
\* to reach any particular event.
Fairness ==
  /\ \A a \in Actor : WF_vars(ActorStep(a))
  /\ \A c \in Caller :
       WF_vars(Continue(c) /\ (call[c].op = "attach" => shut.pc = "off"))
  /\ WF_vars(React)
  /\ WF_vars(ShutdownStep)

FairSpec == Spec /\ Fairness

-----------------------------------------------------------------------------
(* Safety.                                                                 *)

\* At most one child of a process runs at any time, whatever starts, restarts,
\* stops, crashes and relaunches overlap (begin_launch's claim against an
\* actor that has not finished: actors.rs:27).
OneLiveChild ==
  \A p \in Proc : \A g, h \in live[p] : g = h

\* A running child always has an actor that holds it and will reap it: no
\* interleaving of stops, restarts and closes loses one (actor.rs, run).
NoChildAbandoned ==
  \A p \in Proc : \A g \in live[p] :
    \E a \in Actor : /\ Alive(a)
                    /\ actor[a].pc \in Holding
                    /\ actor[a].owner = p
                    /\ actor[a].child = g

\* A process the registry shows as resting has no child and no sampling
\* target, so a start may claim it (process.rs:42, registry.rs:58).
RestingIsReaped ==
  \A p \in Proc : Present(p) /\ status[p] \in Resting =>
                   live[p] = {} /\ pgid[p] = NoGroup

\* The group monitoring samples and the panic path would kill is a group that
\* this process's own actor holds, and no other's: a group given to another
\* process is never sampled or signalled in its place (registry.rs:139).
PgidIsOwnChild ==
  \A p \in Proc : pgid[p] # NoGroup =>
    \E a \in Actor : /\ Alive(a)
                    /\ actor[a].owner = p
                    /\ actor[a].child = pgid[p]

\* Once a child has been announced, and until it is reaped, the runtime-state
\* file names it, so an app crash leaves nothing unreconcilable
\* (actor.rs:259; the write itself is assumed to succeed).
AnnouncedIsRecorded ==
  \A p \in Proc : Present(p) /\ status[p] \in Active \ {"Starting"} =>
                   live[p] \subseteq records

\* No actor runs a spec that was untrusted when its launch was allowed, even
\* if config reload swaps the spec between the trust check and the claim or
\* while it runs (lifecycle.rs:16; revocation is set aside).
OnlyTrustedRuns ==
  \A a \in Actor : Alive(a) => actor[a].cmd \in trusted

\* close announces the removal only after the group has been reaped
\* (lifecycle.rs:166).
RemovedIsReaped ==
  \A p \in Proc : entry[p] = "removed" => live[p] = {}

\* No child outlives shutdown's return (lifecycle.rs:194).
ShutdownReapsAll ==
  shut.pc = "done" => \A p \in Proc : live[p] = {}

-----------------------------------------------------------------------------
(* What a step may never do.                                               *)

\* A stop reports that an active process was messaged; if the process is still
\* active when the message is sent, it reaches the mailbox (lifecycle.rs:34).
StopIsDelivered ==
  [][\A c \in Client :
       /\ call[c].op = "signal" /\ call[c].msg = "Stop" /\ call'[c] = Idle
       /\ status[call[c].proc] \in Active
       => Delivered(handle[call[c].proc].mailbox)]_vars

\* The reactor relaunches a process that is crashed, and no other
\* (restart.rs:133).
OnlyCrashedIsRelaunched ==
  [][call[Reactor].op = "claim" /\ call'[Reactor].op = "attach" =>
       status[call[Reactor].proc] = "Crashed"]_vars

-----------------------------------------------------------------------------
(* Liveness, under FairSpec.                                               *)

\* A stop that is in an actor's mailbox, in whatever phase it finds the actor
\* and behind whatever restarts, ends that actor (actor.rs:208, 310, 335).
StopEndsActor ==
  \A a \in Actor :
    (Alive(a) /\ \E i \in DOMAIN inbox[a] : inbox[a][i] = "Stop") ~> ~Alive(a)

\* A removed process ends up without a child: the stop or the dropped mailbox
\* reaches its actor (lifecycle.rs:177).
ClosedIsReaped ==
  \A p \in Proc : (entry[p] = "closing") ~> (entry[p] = "removed" /\ live[p] = {})

\* A crashed process that is due a restart does not stay crashed, even when
\* the bus dropped its crash (restart.rs:201).
CrashIsHealed ==
  \A p \in Proc :
    (Eligible(p) /\ status[p] = "Crashed")
      ~> (~Eligible(p) \/ status[p] # "Crashed")

\* Shutdown returns, whatever relaunch of the reactor's it races, and even if
\* that launcher never comes to attach its join (lifecycle.rs:233).
ShutdownReturns == (shut.pc = "scan") ~> (shut.pc = "done")

-----------------------------------------------------------------------------
(* The abstract lifecycle, and how this module's state shows it.           *)

Owned(p) == \E a \in Actor : actor[a].pc \in Engaged /\ actor[a].owner = p

Lifecycle == INSTANCE ProcessLifecycle WITH
  st    <- [p \in Proc |-> IF entry[p] = "new" THEN "new"
                           ELSE IF Present(p) THEN status[p] ELSE "gone"],
  owned <- [p \in Proc |-> Owned(p)],
  alive <- [p \in Proc |-> live[p] # {}]

\* However commands, crashes and relaunches interleave, each process behaves as
\* the abstract lifecycle says (process.rs:41, actors.rs:27, actor.rs:150).
LifecycleImplemented == Lifecycle!Spec

=============================================================================
