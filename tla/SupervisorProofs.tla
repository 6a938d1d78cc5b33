-------------------------- MODULE SupervisorProofs --------------------------
(***************************************************************************)
(* That every reachable state of the supervisor is well typed and that     *)
(* Ownership is an invariant of it, for any number of processes, tasks,    *)
(* groups and callers, and the safety properties that follow from it; then *)
(* that an announced child is on record, that only trusted specs run, and  *)
(* that every process behaves as the abstract lifecycle says.              *)
(***************************************************************************)
EXTENDS SupervisorInvariant, SequenceTheorems, TLAPS

LEMMA TaskOf ==
  ASSUME TypeOK, NEW a \in Actor, actor[a].pc # "idle"
  PROVE  actor[a] \in Task
BY DEF TypeOK, Actors, ActorState

\* A message that is sent leaves every mailbox a sequence of messages.
LEMMA SendType ==
  ASSUME TypeOK, NEW a \in Actor \cup {NoActor}, NEW m \in Msg, TrySend(a, m)
  PROVE  inbox' \in [Actor -> Seq(Msg)]
<1>1. CASE Delivered(a)
  <2>1. a \in Actor
    BY <1>1 DEF Delivered
  <2>2. inbox' = [inbox EXCEPT ![a] = Append(inbox[a], m)]
    BY <1>1 DEF TrySend
  <2>3. Append(inbox[a], m) \in Seq(Msg)
    BY <2>1, AppendProperties DEF TypeOK
  <2> QED
    BY <2>2, <2>3 DEF TypeOK
<1>2. CASE ~Delivered(a)
  BY <1>2 DEF TrySend, TypeOK
<1> QED
  BY <1>1, <1>2

\* So does one that is taken from its head.
LEMMA TakeType ==
  ASSUME TypeOK, NEW a \in Actor, inbox[a] # <<>>
  PROVE  Tail(inbox[a]) \in Seq(Msg)
BY HeadTailProperties DEF TypeOK

\* A published event leaves the bus a sequence of events.
LEMMA PublishType ==
  ASSUME TypeOK, NEW k \in {"Crashed", "Stopped", "Removed"}, NEW p \in Proc,
         Publish(k, p)
  PROVE  events' \in Seq(Event) /\ lagged' \in BOOLEAN
<1> DEFINE e == [kind |-> k, proc |-> p]
           kept == IF Len(events) = BusCap THEN Tail(events) ELSE events
<1>1. e \in Event
  BY DEF Event
<1>2. events \in Seq(Event) /\ Len(events) \in Nat
  BY LenProperties DEF TypeOK
<1>3. kept \in Seq(Event)
  <2>1. CASE Len(events) = BusCap
    <3>1. events # <<>>
      BY <2>1, SupervisorAssumption, EmptySeq
    <3> QED
      BY <1>2, <2>1, <3>1, HeadTailProperties
  <2> QED
    BY <1>2, <2>1
<1>4. events' = Append(kept, e)
  BY DEF Publish
<1>5. lagged' \in BOOLEAN
  BY DEF Publish, TypeOK
<1> QED
  BY <1>1, <1>3, <1>4, <1>5, AppendProperties

LEMMA StatusType ==
  ASSUME TypeOK, NEW p \in Proc, NEW s \in ProcStatus, SetStatus(p, s)
  PROVE  status' \in [Proc -> ProcStatus]
BY DEF TypeOK, SetStatus

LEMMA PgidType ==
  ASSUME TypeOK, NEW p \in Proc, NEW g \in Group \cup {NoGroup}, SetPgidOf(p, g)
  PROVE  pgid' \in [Proc -> Group \cup {NoGroup}]
BY DEF TypeOK, SetPgidOf

LEMMA RemoveType ==
  ASSUME TypeOK, NEW p \in Proc, NEW e \in Entry, Remove(p, e)
  PROVE  /\ entry' \in [Proc -> Entry] /\ status' \in [Proc -> ProcStatus]
         /\ handle' \in [Proc -> Handle] /\ pgid' \in [Proc -> Group \cup {NoGroup}]
         /\ spec' \in [Proc -> Version]
BY DEF TypeOK, Remove, Handle, NoHandle, ProcStatus

LEMMA CommandType ==
  ASSUME TypeOK, NEW c \in Client, NEW p \in Proc, Command(c, p)
  PROVE  TypeOK'
<1> USE SupervisorAssumption DEF registryVars, actorVars, worldVars, reactorVars
<1> USE DEF Asked, Caller
<1>1. CASE Start(c, p)
  BY <1>1 DEF Start, TypeOK, Call
<1>2. CASE StartCandidate(c, p)
  BY <1>2 DEF StartCandidate, TypeOK, Call
<1>3. CASE Restart(c, p)
  BY <1>3 DEF Restart, TypeOK, Call, Msg
<1>4. CASE Stop(c, p)
  BY <1>4 DEF Stop, TypeOK, Call, Msg
<1>5. CASE Close(c, p)
  <2>1. handle[p] \in Handle
    BY DEF TypeOK
  <2>2. inbox' \in [Actor -> Seq(Msg)]
    BY <1>5, <2>1, SendType DEF Close, Handle, Msg
  <2>3. call' \in [Caller -> Call]
    BY <1>5, <2>1 DEF Close, TypeOK, Call, Handle
  <2> QED
    BY <1>5, <2>2, <2>3, RemoveType DEF Close, TypeOK, Entry
<1> QED
  BY <1>1, <1>2, <1>3, <1>4, <1>5 DEF Command

LEMMA ContinueType ==
  ASSUME TypeOK, NEW c \in Caller, Continue(c)
  PROVE  TypeOK'
<1> USE SupervisorAssumption DEF registryVars, actorVars, worldVars, reactorVars
<1> DEFINE p == call[c].proc
<1>0. Idle \in Call
  BY DEF Idle, Call
<1>1. CASE Signal(c)
  <2>1. p \in Proc /\ call[c].msg \in Msg
    BY <1>1 DEF Signal, TypeOK, Call
  <2>2. handle[p].mailbox \in Actor \cup {NoActor}
    BY <2>1 DEF TypeOK, Handle
  <2>3. inbox' \in [Actor -> Seq(Msg)]
    BY <1>1, <2>1, <2>2, SendType DEF Signal
  <2> QED
    BY <1>1, <1>0, <2>3 DEF Signal, TypeOK
<1>2. CASE Claim(c)
  <2>1. p \in Proc /\ call[c].ver \in Version
    BY <1>2 DEF Claim, TypeOK, Call
  <2>2. PICK a \in Actor :
          /\ handle' = [handle EXCEPT ![p] = [mailbox |-> a, join |-> NoActor]]
          /\ actor' = [actor EXCEPT ![a] =
               [pc |-> "launching", owner |-> p, cmd |-> call[c].ver,
                child |-> NoGroup, outcome |-> "exit"]]
          /\ inbox' = [inbox EXCEPT ![a] = <<>>]
          /\ call' = [call EXCEPT ![c] = [op |-> "attach", proc |-> p, actor |-> a]]
    BY <1>2 DEF Claim, SpecChecked
  <2>3. handle' \in [Proc -> Handle]
    BY <2>1, <2>2 DEF TypeOK, Handle
  <2>4. actor' \in Actors
    BY <2>1, <2>2 DEF TypeOK, Actors, ActorState, Task, ActorPc, Engaged, Before, Holding,
                      Outcome
  <2>5. inbox' \in [Actor -> Seq(Msg)]
    BY <2>2 DEF TypeOK
  <2>6. call' \in [Caller -> Call]
    BY <2>1, <2>2 DEF TypeOK, Call
  <2>7. status' \in [Proc -> ProcStatus]
    BY <1>2 DEF Claim, TypeOK, ProcStatus
  <2> QED
    BY <1>2, <2>3, <2>4, <2>5, <2>6, <2>7 DEF Claim, TypeOK
<1>3. CASE ClaimRefused(c)
  BY <1>3, <1>0 DEF ClaimRefused, TypeOK
<1>4. CASE Attach(c)
  <2> DEFINE a == call[c].actor
  <2>1. p \in Proc /\ a \in Actor
    BY <1>4 DEF Attach, TypeOK, Call
  <2>2. \/ handle' = handle
        \/ handle' = [handle EXCEPT ![p].join = a]
    BY <1>4 DEF Attach
  <2>3. \/ UNCHANGED <<actor, inbox>>
        \/ /\ actor' = [actor EXCEPT ![a] = Asleep]
           /\ inbox' = [inbox EXCEPT ![a] = <<>>]
    BY <1>4 DEF Attach, actorVars
  <2> HIDE DEF p, a
  <2>4. handle' \in [Proc -> Handle]
    <3>1. handle[p] \in Handle
      BY <2>1 DEF TypeOK
    <3>3. [handle[p] EXCEPT !.join = a] \in Handle
      BY <2>1, <3>1 DEF Handle
    <3>2. handle' = handle \/ handle' = [handle EXCEPT ![p] = [handle[p] EXCEPT !.join = a]]
      BY <2>2
    <3> QED
      BY <2>1, <3>3, <3>2 DEF TypeOK
  <2>5. actor' \in Actors
    <3>1. [actor EXCEPT ![a] = Asleep] \in Actors
      BY <2>1 DEF TypeOK, Actors, ActorState, Asleep, Holding
    <3> QED
      BY <2>3, <3>1 DEF TypeOK
  <2>6. inbox' \in [Actor -> Seq(Msg)]
    <3>1. inbox \in [Actor -> Seq(Msg)] /\ <<>> \in Seq(Msg)
      BY DEF TypeOK
    <3>2. CASE inbox' = inbox
      BY <3>1, <3>2
    <3>3. CASE inbox' = [inbox EXCEPT ![a] = <<>>]
      BY <3>1, <3>3
    <3> QED
      BY <2>3, <3>2, <3>3
  <2> QED
    BY <1>4, <1>0, <2>4, <2>5, <2>6 DEF Attach, TypeOK
<1>5. CASE FinishClose(c)
  <2>1. p \in Proc
    BY <1>5 DEF FinishClose, TypeOK, Call
  <2>2. events' \in Seq(Event) /\ lagged' \in BOOLEAN
    BY <1>5, <2>1, PublishType DEF FinishClose
  <2> QED
    BY <1>5, <1>0, <2>1, <2>2 DEF FinishClose, TypeOK, Entry
<1> QED
  BY <1>1, <1>2, <1>3, <1>4, <1>5 DEF Continue

\* The updates an actor makes to its own state keep it a task.
LEMMA PcType ==
  ASSUME TypeOK, NEW a \in Actor, actor[a] \in Task, NEW pc \in ActorPc \ {"idle"},
         pc \in Holding \cup {"forgetting"} => actor[a].child # NoGroup
  PROVE  [actor EXCEPT ![a].pc = pc] \in Actors
<1>1. [actor[a] EXCEPT !.pc = pc] \in ActorState
  BY DEF ActorState, Task
<1>2. [actor[a] EXCEPT !.pc = pc].pc = pc /\ [actor[a] EXCEPT !.pc = pc].child = actor[a].child
  BY DEF Task
<1> QED
  BY <1>1, <1>2 DEF TypeOK, Actors

LEMMA PcChildType ==
  ASSUME TypeOK, NEW a \in Actor, actor[a] \in Task, NEW pc \in ActorPc \ {"idle"},
         NEW g \in Group \cup {NoGroup}, pc \in Holding \cup {"forgetting"} => g # NoGroup
  PROVE  [actor EXCEPT ![a].pc = pc, ![a].child = g] \in Actors
<1> DEFINE t == [actor[a] EXCEPT !.pc = pc, !.child = g]
<1>1. t \in ActorState
  BY DEF ActorState, Task
<1>2. t.pc = pc /\ t.child = g
  BY DEF Task
<1>3. [actor EXCEPT ![a].pc = pc, ![a].child = g] = [actor EXCEPT ![a] = t]
  BY DEF TypeOK, Actors
<1> QED
  BY <1>1, <1>2, <1>3 DEF TypeOK, Actors

LEMMA PcOutcomeType ==
  ASSUME TypeOK, NEW a \in Actor, actor[a] \in Task, NEW pc \in ActorPc \ {"idle"},
         NEW o \in Outcome, pc \in Holding \cup {"forgetting"} => actor[a].child # NoGroup
  PROVE  [actor EXCEPT ![a].pc = pc, ![a].outcome = o] \in Actors
<1> DEFINE t == [actor[a] EXCEPT !.pc = pc, !.outcome = o]
<1>1. t \in ActorState
  BY DEF ActorState, Task
<1>2. t.pc = pc /\ t.child = actor[a].child
  BY DEF Task
<1>3. [actor EXCEPT ![a].pc = pc, ![a].outcome = o] = [actor EXCEPT ![a] = t]
  BY DEF TypeOK, Actors
<1> QED
  BY <1>1, <1>2, <1>3 DEF TypeOK, Actors

LEMMA ActorType ==
  ASSUME TypeOK, NEW a \in Actor, ActorStep(a)
  PROVE  TypeOK'
<1> USE SupervisorAssumption DEF registryVars, actorVars, worldVars, reactorVars, At
<1> DEFINE p == actor[a].owner
<1>a. /\ actor[a] \in Task /\ p \in Proc /\ actor[a].child \in Group \cup {NoGroup}
      /\ actor[a].pc \in Holding \cup {"forgetting"} => actor[a].child # NoGroup
  <2>1. actor[a].pc # "idle"
    BY DEF ActorStep, QuitBeforeSpawn, GoSpawn, Spawn, SpawnFails, Record, SetPgid,
           Announce, ObserveExit, TakeStop, TakeRestart, Reap, Forget, Settle,
           Respawn, Finish, HandlePanic
  <2> QED
    BY <2>1, TaskOf DEF Task, TypeOK, Actors
<1>b. ActorPc \ {"idle"} = Before \cup Holding \cup {"forgetting", "ending", "releasing", "panicked"}
  BY DEF ActorPc, Engaged, Before, Holding
<1>c. [actor EXCEPT ![a] = Asleep] \in Actors
  <2>1. Asleep \in ActorState /\ Asleep.pc \notin Holding \cup {"forgetting"}
    BY DEF ActorState, Asleep, Holding
  <2> QED
    BY <2>1 DEF TypeOK, Actors
<1>1. CASE QuitBeforeSpawn(a)
  <2>1. actor' \in Actors
    BY <1>1, <1>a, <1>b, PcOutcomeType DEF QuitBeforeSpawn, Outcome, Holding, Before
  <2> QED
    BY <1>1, <1>a, <2>1, StatusType DEF QuitBeforeSpawn, TypeOK, ProcStatus
<1>2. CASE GoSpawn(a)
  <2>1. actor' \in Actors
    BY <1>2, <1>a, <1>b, PcType DEF GoSpawn, Before, Holding
  <2> QED
    BY <1>2, <1>a, <2>1 DEF GoSpawn, TypeOK
<1>3. CASE Spawn(a)
  <2>1. actor' \in Actors
    <3>1. PICK g \in Group : actor' = [actor EXCEPT ![a].pc = "spawned", ![a].child = g]
      BY <1>3 DEF Spawn
    <3>2. g # NoGroup
      OBVIOUS
    <3> QED
      BY <3>1, <3>2, <1>a, <1>b, PcChildType DEF Holding
  <2> QED
    BY <1>3, <1>a, <2>1 DEF Spawn, TypeOK
<1>4. CASE SpawnFails(a)
  <2>1. actor' \in Actors
    BY <1>4, <1>a, <1>b, PcType DEF SpawnFails, Holding, Before
  <2> QED
    BY <1>4, <1>a, <2>1, StatusType, PublishType DEF SpawnFails, TypeOK, ProcStatus
<1>5. CASE Record(a)
  <2>1. actor' \in Actors
    BY <1>5, <1>a, <1>b, PcType DEF Record, Holding, Before
  <2>2. records' \subseteq Group
    BY <1>5, <1>a DEF Record, TypeOK, Holding
  <2> QED
    BY <1>5, <1>a, <2>1, <2>2 DEF Record, TypeOK
<1>6. CASE SetPgid(a)
  <2>1. actor' \in Actors
    BY <1>6, <1>a, <1>b, PcType DEF SetPgid, Holding, Before
  <2> QED
    BY <1>6, <1>a, <2>1, PgidType DEF SetPgid, TypeOK
<1>7. CASE Announce(a)
  <2>1. actor' \in Actors
    BY <1>7, <1>a, <1>b, PcType DEF Announce, Holding, Before
  <2> QED
    BY <1>7, <1>a, <2>1, StatusType DEF Announce, TypeOK, ProcStatus
<1>8. CASE ObserveExit(a)
  <2>1. actor' \in Actors
    <3>1. PICK how \in {"exit", "crash"} :
            actor' = [actor EXCEPT ![a].pc = "forgetting", ![a].outcome = how]
      BY <1>8 DEF ObserveExit
    <3> QED
      BY <1>8, <3>1, <1>a, <1>b, PcOutcomeType DEF ObserveExit, Outcome, Holding
  <2> QED
    BY <1>8, <1>a, <2>1, PgidType DEF ObserveExit, TypeOK
<1>9. CASE TakeStop(a)
  <2>1. actor' \in Actors
    BY <1>9, <1>a, <1>b, PcOutcomeType DEF TakeStop, Holding, Outcome, Before
  <2>2. inbox' \in [Actor -> Seq(Msg)]
    BY <1>9, TakeType DEF TakeStop, TypeOK
  <2> QED
    BY <1>9, <1>a, <2>1, <2>2, StatusType, PgidType DEF TakeStop, TypeOK, ProcStatus
<1>10. CASE TakeRestart(a)
  <2>1. actor' \in Actors
    BY <1>10, <1>a, <1>b, PcOutcomeType DEF TakeRestart, Holding, Outcome, Before
  <2>2. inbox' \in [Actor -> Seq(Msg)]
    BY <1>10, TakeType DEF TakeRestart, TypeOK
  <2> QED
    BY <1>10, <1>a, <2>1, <2>2, StatusType, PgidType DEF TakeRestart, TypeOK, ProcStatus
<1>11. CASE Reap(a)
  <2>1. actor' \in Actors
    BY <1>11, <1>a, <1>b, PcType DEF Reap, Holding, Before
  <2> QED
    BY <1>11, <1>a, <2>1 DEF Reap, TypeOK
<1>12. CASE Forget(a)
  <2>1. actor' \in Actors
    BY <1>12, <1>a, <1>b, PcChildType DEF Forget, Holding, Before
  <2> QED
    BY <1>12, <1>a, <2>1 DEF Forget, TypeOK
<1>13. CASE Settle(a)
  <2>1. actor' \in Actors
    BY <1>13, <1>a, <1>b, PcType DEF Settle, Holding, Before
  <2> QED
    BY <1>13, <1>a, <2>1, StatusType, PublishType DEF Settle, TypeOK, ProcStatus
<1>14. CASE Respawn(a)
  <2>1. actor' \in Actors
    BY <1>14, <1>a, <1>b, PcType DEF Respawn, Before, Holding
  <2> QED
    BY <1>14, <1>a, <2>1, StatusType DEF Respawn, TypeOK, ProcStatus
<1>15. CASE Finish(a)
  BY <1>15, <1>c DEF Finish, TypeOK
<1>16. CASE HandlePanic(a)
  BY <1>16, <1>a, <1>c, StatusType, PgidType, PublishType DEF HandlePanic, TypeOK, ProcStatus
<1> QED
  BY <1>1, <1>2, <1>3, <1>4, <1>5, <1>6, <1>7, <1>8, <1>9, <1>10, <1>11, <1>12,
     <1>13, <1>14, <1>15, <1>16 DEF ActorStep

\* What the restart policy changes, it changes within its types.
LEMMA AutoRestartType ==
  ASSUME TypeOK, NEW p \in Proc, AutoRestart(p)
  PROVE  /\ status' \in [Proc -> ProcStatus]
         /\ window' \in [Proc -> 0..MaxRestarts]
         /\ call' \in [Caller -> Call]
<1> USE SupervisorAssumption
<1>1. status' \in [Proc -> ProcStatus]
  BY DEF AutoRestart, TypeOK, ProcStatus
<1>2. window' \in [Proc -> 0..MaxRestarts]
  <2>1. window \in [Proc -> 0..MaxRestarts] /\ MaxRestarts \in Nat
    BY DEF TypeOK
  <2>2. CASE Room(p) /\ window' = [window EXCEPT ![p] = window[p] + 1]
    BY <2>1, <2>2 DEF Room
  <2>3. CASE window' = [window EXCEPT ![p] = 0]
    BY <2>1, <2>3
  <2>4. CASE UNCHANGED window
    BY <2>1, <2>4
  <2> QED
    BY <2>2, <2>3, <2>4 DEF AutoRestart
<1>3. call' \in [Caller -> Call]
  BY DEF AutoRestart, TypeOK, Call, Caller
<1> QED
  BY <1>1, <1>2, <1>3

\* So does reading an event.
LEMMA HeadEvent ==
  ASSUME TypeOK, events # <<>>
  PROVE  Head(events).proc \in Proc /\ Tail(events) \in Seq(Event)
<1>1. Head(events) \in Event /\ Tail(events) \in Seq(Event)
  BY HeadTailProperties DEF TypeOK
<1> QED
  BY <1>1 DEF Event

LEMMA ReactType ==
  ASSUME TypeOK, React
  PROVE  TypeOK'
<1> USE SupervisorAssumption DEF registryVars, actorVars, worldVars, reactorVars
<1>1. CASE ReactCrashed
  BY <1>1, HeadEvent, AutoRestartType DEF ReactCrashed, TypeOK
<1>2. CASE ReactResting
  BY <1>2, HeadEvent DEF ReactResting, TypeOK
<1>3. CASE ReactLagged
  BY <1>3 DEF ReactLagged, CrashedNow, TypeOK
<1>4. ASSUME NEW p \in Proc, RescanOne(p) PROVE TypeOK'
  BY <1>4, AutoRestartType DEF RescanOne, TypeOK
<1> QED
  BY <1>1, <1>2, <1>3, <1>4 DEF React

LEMMA ShutdownType ==
  ASSUME TypeOK, ShutdownStep
  PROVE  TypeOK'
<1> USE SupervisorAssumption DEF registryVars, actorVars, worldVars, reactorVars
<1>1. CASE ScanPass
  BY <1>1 DEF ScanPass, TypeOK, Shutdown
<1>2. CASE EndPass
  <2> DEFINE idle == IF shut.joins # {} THEN 0 ELSE shut.idle + 1
             done == ~shut.mid \/ idle = MaxIdle
  <2>1. shut \in Shutdown
    BY DEF TypeOK
  <2>2. idle \in 0..MaxIdle
    BY <2>1 DEF Shutdown
  <2>3. shut' = [shut EXCEPT !.pc = IF done THEN "done" ELSE "scan",
                             !.joins = {}, !.mid = FALSE,
                             !.idle = IF done THEN 0 ELSE idle]
    BY <1>2 DEF EndPass, IdlePasses, LastPass
  <2>4. (IF done THEN 0 ELSE idle) \in 0..MaxIdle - 1
    BY <2>2
  <2> HIDE DEF idle, done
  <2>5. shut' \in Shutdown
    BY <2>1, <2>3, <2>4 DEF Shutdown
  <2> QED
    BY <1>2, <2>5 DEF EndPass, TypeOK
<1>3. ASSUME NEW p \in Proc, ReapAttached(p) PROVE TypeOK'
  <2>1. handle[p].mailbox \in Actor \cup {NoActor} /\ handle[p].join \in Actor
    BY <1>3 DEF ReapAttached, TypeOK, Handle
  <2>2. inbox' \in [Actor -> Seq(Msg)]
    BY <1>3, <2>1, SendType DEF ReapAttached, Msg
  <2>3. shut' \in Shutdown
    BY <1>3, <2>1 DEF ReapAttached, TypeOK, Shutdown
  <2>4. handle' \in [Proc -> Handle]
    BY <1>3 DEF ReapAttached, TypeOK, Handle, NoHandle
  <2> QED
    BY <1>3, <2>2, <2>3, <2>4 DEF ReapAttached, TypeOK
<1>4. ASSUME NEW p \in Proc, ReapMidLaunch(p) PROVE TypeOK'
  <2>1. handle[p].mailbox \in Actor \cup {NoActor}
    BY DEF TypeOK, Handle
  <2>2. inbox' \in [Actor -> Seq(Msg)]
    BY <1>4, <2>1, SendType DEF ReapMidLaunch, Msg
  <2>3. shut' \in Shutdown
    BY <1>4 DEF ReapMidLaunch, TypeOK, Shutdown
  <2> QED
    BY <1>4, <2>2, <2>3 DEF ReapMidLaunch, TypeOK
<1> QED
  BY <1>1, <1>2, <1>3, <1>4 DEF ShutdownStep

LEMMA EnvironmentType ==
  ASSUME TypeOK, Environment
  PROVE  TypeOK'
<1> USE SupervisorAssumption DEF registryVars, actorVars, worldVars, reactorVars
<1>1. ASSUME NEW p \in Proc, Register(p) PROVE TypeOK'
  BY <1>1 DEF Register, TypeOK, Entry
<1>2. ASSUME NEW p \in Proc, Deregister(p) PROVE TypeOK'
  BY <1>2, RemoveType, PublishType DEF Deregister, TypeOK, Entry
<1>3. ASSUME NEW p \in Proc, Age(p) PROVE TypeOK'
  BY <1>3 DEF Age, TypeOK
<1>4. ASSUME NEW p \in Proc, ChildExits(p) PROVE TypeOK'
  BY <1>4 DEF ChildExits, TypeOK
<1>5. ASSUME NEW p \in Proc, NEW v \in Version, UpdateCommand(p, v) PROVE TypeOK'
  BY <1>5 DEF UpdateCommand, TypeOK
<1>6. ASSUME NEW v \in Version, Trust(v) PROVE TypeOK'
  BY <1>6 DEF Trust, TypeOK
<1>7. ASSUME NEW v \in Version, Untrust(v) PROVE TypeOK'
  BY <1>7 DEF Untrust, TypeOK
<1>8. ASSUME NEW a \in Actor, Panic(a) PROVE TypeOK'
  <2>1. actor[a] \in Task
    BY <1>8, TaskOf DEF Panic, Engaged, Before, Holding
  <2>2. actor' \in Actors
    BY <1>8, <2>1, PcChildType DEF Panic, ActorPc, Engaged, Before, Holding
  <2> QED
    BY <1>8, <2>2 DEF Panic, TypeOK
<1>9. CASE Overrun
  BY <1>9, HeadEvent DEF Overrun, TypeOK
<1>10. CASE BeginShutdown
  BY <1>10 DEF BeginShutdown, TypeOK, Shutdown
<1> QED
  BY <1>1, <1>2, <1>3, <1>4, <1>5, <1>6, <1>7, <1>8, <1>9, <1>10 DEF Environment

LEMMA TypeInit == Init => TypeOK
<1> SUFFICES ASSUME Init PROVE TypeOK
  OBVIOUS
<1> USE SupervisorAssumption DEF Init
<1>0. NoHandle \in Handle
  BY DEF Handle, NoHandle
<1>1. Idle \in Call /\ Asleep \in ActorState
  BY DEF Call, Idle, ActorState, Asleep
<1>2. actor \in Actors
  BY <1>1 DEF Actors, Asleep, Holding
<1>3. shut \in Shutdown
  BY DEF Shutdown
<1>4. <<>> \in Seq(Msg) /\ <<>> \in Seq(Event)
  BY EmptySeq
<1>5. window \in [Proc -> 0..MaxRestarts]
  OBVIOUS
<1>6. /\ entry \in [Proc -> Entry] /\ status \in [Proc -> ProcStatus]
      /\ handle \in [Proc -> Handle] /\ pgid \in [Proc -> Group \cup {NoGroup}]
      /\ spec \in [Proc -> Version] /\ live \in [Proc -> SUBSET Group]
      /\ rescan \subseteq Proc /\ records \subseteq Group /\ trusted \subseteq Version
  BY <1>0 DEF Entry, ProcStatus
<1>7. inbox \in [Actor -> Seq(Msg)] /\ events \in Seq(Event) /\ lagged \in BOOLEAN
  BY <1>4
<1>8. call \in [Caller -> Call]
  BY <1>1
<1> QED
  BY <1>2, <1>3, <1>5, <1>6, <1>7, <1>8 DEF TypeOK

LEMMA TypeStep == TypeOK /\ [Next]_vars => TypeOK'
<1> SUFFICES ASSUME TypeOK, [Next]_vars PROVE TypeOK'
  OBVIOUS
<1>1. CASE UNCHANGED vars
  BY <1>1 DEF vars, registryVars, actorVars, worldVars, reactorVars, TypeOK
<1>2. CASE Quit
  BY <1>1, <1>2 DEF Quit
<1> QED
  BY <1>1, <1>2, CommandType, ContinueType, ActorType, ReactType, ShutdownType,
     EnvironmentType DEF Next

\* Every reachable state is of the type the supervisor's declarations give it:
\* no update, whatever the order of calls, leaves a field outside its range
\* (for instance the restart window beyond MAX_RESTARTS, restart.rs:62).
THEOREM TypeCorrect == Spec => []TypeOK
BY TypeInit, TypeStep, PTL DEF Spec

-----------------------------------------------------------------------------
(***************************************************************************)
(* Ownership.  An actor that panics abandons what it owns until the outer  *)
(* task has answered, and a child it has not yet announced for good        *)
(* (actor.rs:119), so these theorems assume that none does.                *)
(***************************************************************************)

NoPanics == "panics" \notin Allowed

\* Task a moves to pc and holds child g; no other task is touched.
Moves(a, pc, g) ==
  /\ actor'[a].pc = pc /\ actor'[a].child = g
  /\ actor'[a].owner = actor[a].owner
  /\ \A b \in Actor \ {a} : actor'[b] = actor[b]

LEMMA PcMoves ==
  ASSUME TypeOK, NEW a \in Actor, actor[a] \in Task, NEW pc \in ActorPc,
         actor' = [actor EXCEPT ![a].pc = pc]
  PROVE  Moves(a, pc, actor[a].child)
<1>1. actor' = [actor EXCEPT ![a] = [actor[a] EXCEPT !.pc = pc]]
  OBVIOUS
<1>2. LET t == [actor[a] EXCEPT !.pc = pc] IN
      t.pc = pc /\ t.child = actor[a].child /\ t.owner = actor[a].owner
  BY DEF Task
<1> QED
  BY <1>1, <1>2 DEF Moves, TypeOK, Actors

LEMMA PcChildMoves ==
  ASSUME TypeOK, NEW a \in Actor, actor[a] \in Task, NEW pc \in ActorPc,
         NEW g \in Group \cup {NoGroup},
         actor' = [actor EXCEPT ![a].pc = pc, ![a].child = g]
  PROVE  Moves(a, pc, g)
<1> DEFINE t == [actor[a] EXCEPT !.pc = pc, !.child = g]
<1>1. actor' = [actor EXCEPT ![a] = t]
  BY DEF TypeOK, Actors
<1>2. t.pc = pc /\ t.child = g /\ t.owner = actor[a].owner
  BY DEF Task
<1> HIDE DEF t
<1> QED
  BY <1>1, <1>2 DEF Moves, TypeOK, Actors

LEMMA PcOutcomeMoves ==
  ASSUME TypeOK, NEW a \in Actor, actor[a] \in Task, NEW pc \in ActorPc, NEW o,
         actor' = [actor EXCEPT ![a].pc = pc, ![a].outcome = o]
  PROVE  Moves(a, pc, actor[a].child)
<1> DEFINE t == [actor[a] EXCEPT !.pc = pc, !.outcome = o]
<1>1. actor' = [actor EXCEPT ![a] = t]
  BY DEF TypeOK, Actors
<1>2. t.pc = pc /\ t.child = actor[a].child /\ t.owner = actor[a].owner
  BY DEF Task
<1> HIDE DEF t
<1> QED
  BY <1>1, <1>2 DEF Moves, TypeOK, Actors

\* Nothing Ownership speaks of changes.
LEMMA OwnershipFrame ==
  ASSUME Ownership, UNCHANGED <<entry, status, pgid, actor, live>>,
         \A c \in Caller : call'[c].op = "await" => call'[c] = call[c]
  PROVE  Ownership'
BY DEF Ownership, NoPanic, OneOwner, OwnedIsActive, LiveIsHeld, TargetIsHeld,
       AwaitedIsGone, Owns, Holds, Present

\* An owner moves on and stays the owner.  While it has a child it keeps it,
\* and it gives up the sampling target before it stops running it.
LEMMA OwnerMoves ==
  ASSUME Ownership, TypeOK, NEW a \in Actor, actor[a].pc \in Engaged,
         NEW pc \in Engaged, NEW g \in Group \cup {NoGroup}, Moves(a, pc, g),
         actor[a].pc \in Holding => pc \in Holding /\ g = actor[a].child,
         UNCHANGED <<entry, live, call>>,
         \/ UNCHANGED status
         \/ \E s \in Active : SetStatus(actor[a].owner, s),
         \/ /\ UNCHANGED pgid
            /\ actor[a].pc \in {"announcing", "running"} => pc \in {"announcing", "running"}
         \/ SetPgidOf(actor[a].owner, NoGroup)
         \/ SetPgidOf(actor[a].owner, g) /\ pc = "announcing"
  PROVE  Ownership'
<1> DEFINE p == actor[a].owner
<1>0. p \in Proc /\ Engaged \subseteq ActorPc /\ "panicked" \notin Engaged
  BY TaskOf DEF Task, Engaged, Before, Holding, ActorPc
<1> USE DEF Owns, Holds, Present, Ownership
<1>1. NoPanic'
  BY <1>0 DEF NoPanic, Moves
<1>2. OneOwner'
  BY DEF OneOwner, Moves
<1>3. OwnedIsActive'
  <2> SUFFICES ASSUME NEW q \in Proc, NEW b \in Actor, Owns(b, q)'
               PROVE  entry'[q] # "new" /\ (Present(q)' => status'[q] \in Active)
    BY DEF OwnedIsActive
  <2>1. Owns(b, q)
    BY <1>0 DEF Moves
  <2>2. entry[q] # "new" /\ (Present(q) => status[q] \in Active)
    BY <2>1 DEF OwnedIsActive
  <2> QED
    BY <1>0, <2>2 DEF SetStatus, TypeOK
<1>4. LiveIsHeld'
  BY <1>0 DEF LiveIsHeld, Moves
<1>5. TargetIsHeld'
  <2> SUFFICES ASSUME NEW q \in Proc, pgid'[q] # NoGroup
               PROVE  /\ Present(q)
                      /\ \E b \in Actor : /\ Holds(b, q, pgid[q])'
                                        /\ actor'[b].pc \in {"announcing", "running"}
    BY DEF TargetIsHeld
  <2>1. CASE pgid'[q] = pgid[q]
    <3>1. PICK b \in Actor : Holds(b, q, pgid[q]) /\ actor[b].pc \in {"announcing", "running"}
      BY <2>1 DEF TargetIsHeld
    <3>2. Present(q)
      BY <2>1 DEF TargetIsHeld
    <3>3. CASE b # a
      BY <2>1, <3>1, <3>2, <3>3 DEF Moves
    <3>4. CASE b = a
      <4>1. q = p /\ g = pgid[p]
        BY <3>1, <3>4
      <4>2. pc \in {"announcing", "running"}
        BY <1>0, <2>1, <3>1, <3>2, <3>4, <4>1 DEF SetPgidOf, TypeOK
      <4> QED
        BY <2>1, <3>2, <4>1, <4>2 DEF Moves, Holding
    <3> QED
      BY <3>3, <3>4
  <2>2. CASE pgid'[q] # pgid[q]
    <3>1. q = p /\ Present(p) /\ pgid'[p] = g /\ pc = "announcing"
      BY <1>0, <2>2 DEF SetPgidOf, TypeOK
    <3> QED
      BY <3>1 DEF Moves, Holding
  <2> QED
    BY <2>1, <2>2
<1>6. AwaitedIsGone'
  BY DEF AwaitedIsGone
<1> QED
  BY <1>1, <1>2, <1>3, <1>4, <1>5, <1>6

\* An owner lets go of its process, having no child to answer for.
LEMMA OwnerRests ==
  ASSUME Ownership, TypeOK, NEW a \in Actor, actor[a].pc \in Engaged \ Holding,
         Moves(a, "releasing", actor[a].child),
         UNCHANGED <<entry, live, call, pgid>>,
         NEW s \in ProcStatus, SetStatus(actor[a].owner, s)
  PROVE  Ownership'
<1> DEFINE p == actor[a].owner
<1>0. p \in Proc /\ "releasing" \notin Engaged /\ "panicked" # "releasing"
  BY TaskOf DEF Task, Engaged, Before, Holding
<1> USE DEF Owns, Holds, Present, Ownership
<1>1. NoPanic'
  BY <1>0 DEF NoPanic, Moves
<1>2. OneOwner'
  BY <1>0 DEF OneOwner, Moves
<1>3. OwnedIsActive'
  <2> SUFFICES ASSUME NEW q \in Proc, NEW b \in Actor, Owns(b, q)'
               PROVE  entry[q] # "new" /\ (Present(q) => status'[q] \in Active)
    BY DEF OwnedIsActive
  <2>1. b # a /\ Owns(b, q)
    BY <1>0 DEF Moves
  <2>2. q # p
    BY <2>1 DEF OneOwner
  <2> QED
    BY <2>1, <2>2 DEF OwnedIsActive, SetStatus, TypeOK
<1>4. LiveIsHeld'
  BY <1>0 DEF LiveIsHeld, Moves
<1>5. TargetIsHeld'
  <2> SUFFICES ASSUME NEW q \in Proc, pgid[q] # NoGroup
               PROVE  /\ Present(q)
                      /\ \E b \in Actor : /\ Holds(b, q, pgid[q])'
                                        /\ actor'[b].pc \in {"announcing", "running"}
    BY DEF TargetIsHeld
  <2>1. PICK b \in Actor : Holds(b, q, pgid[q]) /\ actor[b].pc \in {"announcing", "running"}
    BY DEF TargetIsHeld
  <2>2. b # a
    BY <2>1
  <2> QED
    BY <2>1, <2>2 DEF Moves, TargetIsHeld
<1>6. AwaitedIsGone'
  BY DEF AwaitedIsGone
<1> QED
  BY <1>1, <1>2, <1>3, <1>4, <1>5, <1>6

\* A process that is taken out of the registry keeps its owner, if it has one.
LEMMA OwnershipRemove ==
  ASSUME Ownership, TypeOK, NEW p \in Proc, Present(p),
         NEW e \in {"closing", "removed"}, Remove(p, e), UNCHANGED <<actor, live>>,
         \A c \in Caller : call'[c].op = "await" => call'[c] = call[c] \/ call'[c].proc = p
  PROVE  Ownership'
<1> USE DEF Owns, Holds, Present, Ownership, Remove
<1>1. NoPanic' /\ OneOwner' /\ LiveIsHeld'
  BY DEF NoPanic, OneOwner, LiveIsHeld
<1>2. OwnedIsActive'
  BY DEF OwnedIsActive, TypeOK
<1>3. TargetIsHeld'
  <2> SUFFICES ASSUME NEW q \in Proc, pgid'[q] # NoGroup
               PROVE  /\ entry'[q] = "present"
                      /\ \E b \in Actor : /\ Holds(b, q, pgid[q])'
                                        /\ actor'[b].pc \in {"announcing", "running"}
    BY DEF TargetIsHeld
  <2>1. q # p /\ pgid'[q] = pgid[q] /\ entry'[q] = entry[q]
    BY DEF TypeOK
  <2>2. /\ entry[q] = "present"
        /\ \E b \in Actor : Holds(b, q, pgid[q]) /\ actor[b].pc \in {"announcing", "running"}
    BY <2>1 DEF TargetIsHeld
  <2> QED
    BY <2>1, <2>2
<1>4. AwaitedIsGone'
  <2> SUFFICES ASSUME NEW c \in Caller, call'[c].op = "await"
               PROVE  entry'[call'[c].proc] \in {"closing", "removed"}
    BY DEF AwaitedIsGone
  <2>1. CASE call'[c].proc = p
    BY <2>1 DEF TypeOK
  <2>2. CASE call'[c] = call[c]
    <3>1. entry[call[c].proc] \in {"closing", "removed"}
      BY <2>2 DEF AwaitedIsGone
    <3>2. entry'[call[c].proc] \in {e, entry[call[c].proc]}
      BY DEF TypeOK
    <3> QED
      BY <2>2, <3>1, <3>2
  <2> QED
    BY <2>1, <2>2
<1> QED
  BY <1>1, <1>2, <1>3, <1>4

\* A task that holds no child goes to sleep.
LEMMA OwnershipSleep ==
  ASSUME Ownership, TypeOK, NEW a \in Actor, actor[a].pc \notin Holding,
         actor' = [actor EXCEPT ![a] = Asleep],
         UNCHANGED <<entry, status, pgid, live>>,
         \A c \in Caller : call'[c].op = "await" => call'[c] = call[c]
  PROVE  Ownership'
<1> USE DEF Owns, Holds, Present, Ownership
<1>1. actor'[a].pc = "idle" /\ \A b \in Actor \ {a} : actor'[b] = actor[b]
  BY DEF TypeOK, Actors, Asleep
<1>2. "idle" \notin Engaged \cup Holding \cup {"panicked", "announcing", "running"}
  BY DEF Engaged, Before, Holding
<1>3. NoPanic' /\ OneOwner' /\ OwnedIsActive'
  BY <1>1, <1>2 DEF NoPanic, OneOwner, OwnedIsActive
<1>4. LiveIsHeld' /\ TargetIsHeld'
  BY <1>1, <1>2 DEF LiveIsHeld, TargetIsHeld
<1>5. AwaitedIsGone'
  BY DEF AwaitedIsGone
<1> QED
  BY <1>3, <1>4, <1>5

LEMMA OwnershipCommand ==
  ASSUME Ownership, TypeOK, NEW c \in Client, NEW p \in Proc, Command(c, p)
  PROVE  Ownership'
<1> USE DEF registryVars, actorVars, worldVars, reactorVars, Asked, Caller
<1>1. CASE Start(c, p)
  BY <1>1, OwnershipFrame DEF Start, TypeOK
<1>2. CASE StartCandidate(c, p)
  BY <1>2, OwnershipFrame DEF StartCandidate, TypeOK
<1>3. CASE Restart(c, p)
  BY <1>3, OwnershipFrame DEF Restart, TypeOK
<1>4. CASE Stop(c, p)
  BY <1>4, OwnershipFrame DEF Stop, TypeOK
<1>5. CASE Close(c, p)
  BY <1>5, OwnershipRemove DEF Close, TypeOK
<1> QED
  BY <1>1, <1>2, <1>3, <1>4, <1>5 DEF Command

LEMMA OwnershipContinue ==
  ASSUME Ownership, TypeOK, NEW c \in Caller, Continue(c)
  PROVE  Ownership'
<1> USE DEF registryVars, actorVars, worldVars, reactorVars
<1>1. CASE Signal(c)
  BY <1>1, OwnershipFrame DEF Signal, TypeOK, Idle
<1>2. CASE ClaimRefused(c)
  BY <1>2, OwnershipFrame DEF ClaimRefused, TypeOK, Idle
<1>3. CASE Attach(c)
  <2> DEFINE a == call[c].actor
  <2>1. a \in Actor /\ \A d \in Caller : call'[d].op = "await" => call'[d] = call[d]
    BY <1>3 DEF Attach, TypeOK, Call, Idle
  <2>2. CASE UNCHANGED actor
    BY <1>3, <2>1, <2>2, OwnershipFrame DEF Attach
  <2>3. CASE actor[a].pc = "launching" /\ actor' = [actor EXCEPT ![a] = Asleep]
    <3>1. actor[a].pc \notin Holding
      BY <2>3 DEF Holding
    <3> QED
      BY <1>3, <2>1, <2>3, <3>1, OwnershipSleep DEF Attach
  <2> QED
    BY <1>3, <2>2, <2>3 DEF Attach
<1>4. CASE FinishClose(c)
  <2> DEFINE p == call[c].proc
  <2>1. p \in Proc /\ entry[p] \in {"closing", "removed"}
    BY <1>4 DEF FinishClose, TypeOK, Call, Ownership, AwaitedIsGone
  <2>2. /\ entry' = [entry EXCEPT ![p] = "removed"]
        /\ call' = [call EXCEPT ![c] = Idle]
        /\ UNCHANGED <<status, pgid, actor, live>>
    BY <1>4 DEF FinishClose
  <2> USE DEF Owns, Holds, Present, Ownership
  <2>3. NoPanic' /\ OneOwner' /\ LiveIsHeld'
    BY <2>2 DEF NoPanic, OneOwner, LiveIsHeld
  <2>4. OwnedIsActive'
    BY <2>1, <2>2 DEF OwnedIsActive, TypeOK
  <2>5. TargetIsHeld'
    BY <2>1, <2>2 DEF TargetIsHeld, TypeOK
  <2>6. AwaitedIsGone'
    BY <2>1, <2>2 DEF AwaitedIsGone, TypeOK, Idle, Call
  <2> QED
    BY <2>3, <2>4, <2>5, <2>6
<1>5. CASE Claim(c)
  <2> DEFINE p == call[c].proc
  <2>1. p \in Proc /\ Present(p) /\ status[p] \in Resting /\ status[p] \notin Active
    BY <1>5 DEF Claim, Claimable, TypeOK, Call, Resting
  <2>2. PICK a \in Actor :
          /\ Fresh(a, p)
          /\ actor' = [actor EXCEPT ![a] =
               [pc |-> "launching", owner |-> p, cmd |-> call[c].ver,
                child |-> NoGroup, outcome |-> "exit"]]
          /\ call' = [call EXCEPT ![c] = [op |-> "attach", proc |-> p, actor |-> a]]
    BY <1>5 DEF Claim, SpecChecked
  <2>3. /\ status' = [status EXCEPT ![p] = "Starting"]
        /\ UNCHANGED <<entry, pgid, live>>
    BY <1>5 DEF Claim
  <2>4. /\ actor'[a].pc = "launching" /\ actor'[a].owner = p
        /\ \A b \in Actor \ {a} : actor'[b] = actor[b]
        /\ actor[a].pc = "idle"
    BY <2>2 DEF TypeOK, Actors, Fresh, Alive
  <2>5. \A b \in Actor : ~Owns(b, p)
    BY <2>1 DEF Ownership, OwnedIsActive
  <2> USE DEF Owns, Holds, Present, Ownership
  <2>6. NoPanic'
    BY <2>4 DEF NoPanic
  <2>7. OneOwner'
    BY <2>4, <2>5 DEF OneOwner
  <2>8. OwnedIsActive'
    <3> SUFFICES ASSUME NEW q \in Proc, NEW b \in Actor, Owns(b, q)'
                 PROVE  entry'[q] # "new" /\ (Present(q)' => status'[q] \in Active)
      BY DEF OwnedIsActive
    <3>1. q = p \/ Owns(b, q)
      BY <2>4
    <3>2. CASE q = p
      BY <2>1, <2>3, <3>2 DEF TypeOK, Active
    <3>3. CASE Owns(b, q) /\ q # p
      BY <2>3, <3>3 DEF OwnedIsActive, TypeOK
    <3> QED
      BY <3>1, <3>2, <3>3
  <2>9. LiveIsHeld'
    BY <2>3, <2>4 DEF LiveIsHeld, Holding
  <2>10. TargetIsHeld'
    BY <2>3, <2>4 DEF TargetIsHeld, Holding
  <2>11. AwaitedIsGone'
    BY <2>2, <2>3 DEF AwaitedIsGone, TypeOK
  <2> QED
    BY <2>6, <2>7, <2>8, <2>9, <2>10, <2>11
<1> QED
  BY <1>1, <1>2, <1>3, <1>4, <1>5 DEF Continue

\* An owner whose child is gone stops answering for it.
LEMMA LosesChild ==
  ASSUME Ownership, TypeOK, NEW a \in Actor, actor[a].pc \in {"running", "reaping"},
         Moves(a, "forgetting", actor[a].child), UNCHANGED <<entry, status, call>>,
         live'[actor[a].owner] = {},
         \A q \in Proc \ {actor[a].owner} : live'[q] = live[q],
         \/ UNCHANGED pgid /\ actor[a].pc = "reaping"
         \/ SetPgidOf(actor[a].owner, NoGroup)
  PROVE  Ownership'
<1> DEFINE p == actor[a].owner
<1>0. /\ p \in Proc
      /\ "forgetting" \in Engaged /\ actor[a].pc \in Engaged
  BY TaskOf DEF Task, Engaged, Holding
<1> USE DEF Owns, Holds, Present, Ownership
<1>1. NoPanic'
  BY DEF NoPanic, Moves
<1>2. OneOwner'
  BY <1>0 DEF OneOwner, Moves
<1>3. OwnedIsActive'
  BY <1>0 DEF OwnedIsActive, Moves
<1>4. LiveIsHeld'
  BY <1>0 DEF LiveIsHeld, Moves
<1>5. TargetIsHeld'
  <2> SUFFICES ASSUME NEW q \in Proc, pgid'[q] # NoGroup
               PROVE  /\ Present(q)
                      /\ \E b \in Actor : /\ Holds(b, q, pgid[q])'
                                        /\ actor'[b].pc \in {"announcing", "running"}
    BY DEF TargetIsHeld
  <2>1. pgid'[q] = pgid[q]
    BY <1>0 DEF SetPgidOf, TypeOK
  <2>2. PICK b \in Actor : Holds(b, q, pgid[q]) /\ actor[b].pc \in {"announcing", "running"}
    BY <2>1 DEF TargetIsHeld
  <2>3. Present(q)
    BY <2>1 DEF TargetIsHeld
  <2>4. b # a
    BY <1>0, <2>1, <2>2, <2>3 DEF SetPgidOf, TypeOK
  <2> QED
    BY <2>1, <2>2, <2>3, <2>4 DEF Moves
<1>6. AwaitedIsGone'
  BY DEF AwaitedIsGone
<1> QED
  BY <1>1, <1>2, <1>3, <1>4, <1>5, <1>6

LEMMA OwnershipActor ==
  ASSUME NoPanics, Ownership, TypeOK, NEW a \in Actor, ActorStep(a)
  PROVE  Ownership'
<1> USE DEF registryVars, actorVars, worldVars, reactorVars, At
<1> DEFINE p == actor[a].owner
<1>a. actor[a] \in Task /\ p \in Proc /\ actor[a].child \in Group \cup {NoGroup}
  <2>1. actor[a].pc # "idle"
    BY DEF ActorStep, QuitBeforeSpawn, GoSpawn, Spawn, SpawnFails, Record, SetPgid,
           Announce, ObserveExit, TakeStop, TakeRestart, Reap, Forget, Settle,
           Respawn, Finish, HandlePanic
  <2> QED
    BY <2>1, TaskOf DEF Task
<1>b. /\ Before = {"launching", "spawning"}
      /\ Holding = {"spawned", "recorded", "announcing", "running", "reaping"}
      /\ Engaged = Before \cup Holding \cup {"forgetting", "ending"}
      /\ ActorPc = Engaged \cup {"idle", "releasing", "panicked"}
  BY DEF Before, Holding, Engaged, ActorPc
<1>1. CASE QuitBeforeSpawn(a)
  <2>1. Moves(a, "ending", actor[a].child)
    BY <1>1, <1>a, <1>b, PcOutcomeMoves DEF QuitBeforeSpawn
  <2> QED
    BY <1>1, <1>a, <1>b, <2>1, OwnerMoves DEF QuitBeforeSpawn, Active
<1>2. CASE GoSpawn(a)
  <2>1. Moves(a, "spawning", actor[a].child)
    BY <1>2, <1>a, <1>b, PcMoves DEF GoSpawn
  <2> QED
    BY <1>2, <1>a, <1>b, <2>1, OwnerMoves DEF GoSpawn
<1>3. CASE Record(a)
  <2>1. Moves(a, "recorded", actor[a].child)
    BY <1>3, <1>a, <1>b, PcMoves DEF Record
  <2> QED
    BY <1>3, <1>a, <1>b, <2>1, OwnerMoves DEF Record
<1>4. CASE SetPgid(a)
  <2>1. Moves(a, "announcing", actor[a].child)
    BY <1>4, <1>a, <1>b, PcMoves DEF SetPgid
  <2> QED
    BY <1>4, <1>a, <1>b, <2>1, OwnerMoves DEF SetPgid
<1>5. CASE Announce(a)
  <2>1. Moves(a, "running", actor[a].child)
    BY <1>5, <1>a, <1>b, PcMoves DEF Announce
  <2> QED
    BY <1>5, <1>a, <1>b, <2>1, OwnerMoves DEF Announce, Active
<1>6. CASE TakeStop(a)
  <2>1. Moves(a, "reaping", actor[a].child)
    BY <1>6, <1>a, <1>b, PcOutcomeMoves DEF TakeStop
  <2> QED
    BY <1>6, <1>a, <1>b, <2>1, OwnerMoves DEF TakeStop, Active
<1>7. CASE TakeRestart(a)
  <2>1. Moves(a, "reaping", actor[a].child)
    BY <1>7, <1>a, <1>b, PcOutcomeMoves DEF TakeRestart
  <2> QED
    BY <1>7, <1>a, <1>b, <2>1, OwnerMoves DEF TakeRestart, Active
<1>8. CASE Forget(a)
  <2>1. Moves(a, "ending", NoGroup)
    BY <1>8, <1>a, <1>b, PcChildMoves DEF Forget
  <2> QED
    BY <1>8, <1>a, <1>b, <2>1, OwnerMoves DEF Forget
<1>9. CASE Respawn(a)
  <2>1. Moves(a, "launching", actor[a].child)
    BY <1>9, <1>a, <1>b, PcMoves DEF Respawn
  <2> QED
    BY <1>9, <1>a, <1>b, <2>1, OwnerMoves DEF Respawn, Active
<1>10. CASE Settle(a)
  <2>1. Moves(a, "releasing", actor[a].child)
    BY <1>10, <1>a, <1>b, PcMoves DEF Settle
  <2> QED
    BY <1>10, <1>a, <1>b, <2>1, OwnerRests DEF Settle, ProcStatus
<1>11. CASE SpawnFails(a)
  <2>1. Moves(a, "releasing", actor[a].child)
    BY <1>11, <1>a, <1>b, PcMoves DEF SpawnFails
  <2> QED
    BY <1>11, <1>a, <1>b, <2>1, OwnerRests DEF SpawnFails, ProcStatus
<1>13. CASE Spawn(a)
  <2>1. PICK g \in Group :
          /\ live' = [live EXCEPT ![p] = live[p] \cup {g}]
          /\ actor' = [actor EXCEPT ![a].pc = "spawned", ![a].child = g]
    BY <1>13 DEF Spawn
  <2>2. Moves(a, "spawned", g)
    BY <2>1, <1>a, <1>b, PcChildMoves
  <2>3. actor[a].pc = "spawning" /\ UNCHANGED <<entry, status, pgid, call>>
    BY <1>13 DEF Spawn
  <2> USE DEF Owns, Holds, Present, Ownership
  <2>4. NoPanic'
    BY <2>2 DEF NoPanic, Moves
  <2>5. OneOwner'
    BY <1>b, <2>2, <2>3 DEF OneOwner, Moves
  <2>6. OwnedIsActive'
    BY <1>b, <2>2, <2>3 DEF OwnedIsActive, Moves
  <2>7. LiveIsHeld'
    <3> SUFFICES ASSUME NEW q \in Proc, NEW h \in live'[q]
                 PROVE  \E b \in Actor : Holds(b, q, h)'
      BY DEF LiveIsHeld
    <3>1. CASE q = p /\ h = g
      BY <1>b, <2>2, <3>1 DEF Moves
    <3>2. CASE h \in live[q]
      <4>1. PICK b \in Actor : Holds(b, q, h)
        BY <3>2 DEF LiveIsHeld
      <4>2. b # a
        BY <1>b, <2>3, <4>1
      <4> QED
        BY <2>2, <4>1, <4>2 DEF Moves
    <3> QED
      BY <1>a, <2>1, <3>1, <3>2 DEF TypeOK
  <2>8. TargetIsHeld'
    BY <1>b, <2>2, <2>3 DEF TargetIsHeld, Moves
  <2>9. AwaitedIsGone'
    BY <2>3 DEF AwaitedIsGone
  <2> QED
    BY <2>4, <2>5, <2>6, <2>7, <2>8, <2>9
<1>14. CASE Reap(a)
  <2>1. Moves(a, "forgetting", actor[a].child)
    BY <1>14, <1>a, <1>b, PcMoves DEF Reap
  <2>2. /\ actor[a].pc = "reaping" /\ UNCHANGED <<entry, status, pgid, call>>
        /\ live' = [live EXCEPT ![p] = live[p] \ {actor[a].child}]
    BY <1>14 DEF Reap
  <2>3. \A h \in live[p] : h = actor[a].child
    BY <1>a, <1>b, <2>2 DEF Ownership, OneOwner, LiveIsHeld, Owns, Holds
  <2>4. /\ live'[p] = {}
        /\ \A q \in Proc \ {p} : live'[q] = live[q]
    BY <1>a, <2>2, <2>3 DEF TypeOK
  <2> QED
    BY <1>a, <1>b, <2>1, <2>2, <2>4, LosesChild
<1>15. CASE ObserveExit(a)
  <2>1. Moves(a, "forgetting", actor[a].child)
    BY <1>15, <1>a, <1>b, PcOutcomeMoves DEF ObserveExit
  <2>2. /\ actor[a].pc = "running" /\ UNCHANGED <<entry, status, live, call>>
        /\ actor[a].child \notin live[p] /\ SetPgidOf(p, NoGroup)
    BY <1>15 DEF ObserveExit
  <2>3. live[p] = {}
    BY <1>a, <1>b, <2>2 DEF Ownership, OneOwner, LiveIsHeld, Owns, Holds
  <2> QED
    BY <1>a, <1>b, <2>1, <2>2, <2>3, LosesChild
<1>16. CASE Finish(a)
  <2>1. actor[a].pc \notin Holding
    BY <1>16 DEF Finish, At, Holding
  <2> QED
    BY <1>16, <2>1, OwnershipSleep DEF Finish
<1>12. CASE HandlePanic(a)
  BY <1>12 DEF HandlePanic, Ownership, NoPanic
<1> QED
  BY <1>1, <1>2, <1>3, <1>4, <1>5, <1>6, <1>7, <1>8, <1>9, <1>10, <1>11, <1>12,
     <1>13, <1>14, <1>15, <1>16 DEF ActorStep

LEMMA OwnershipReact ==
  ASSUME Ownership, TypeOK, React
  PROVE  Ownership'
<1> USE DEF registryVars, actorVars, worldVars, reactorVars
<1>1. ASSUME NEW p \in Proc, AutoRestart(p), UNCHANGED <<entry, pgid, actor, live>>
      PROVE  Ownership'
  <2>1. \A c \in Caller : call'[c].op = "await" => call'[c] = call[c]
    BY <1>1 DEF AutoRestart, TypeOK
  <2>2. CASE UNCHANGED status
    BY <1>1, <2>1, <2>2, OwnershipFrame
  <2>3. CASE status[p] = "Crashed" /\ status' = [status EXCEPT ![p] = "RestartExhausted"]
    <3> USE DEF Owns, Holds, Present, Ownership
    <3>1. OwnedIsActive'
      BY <1>1, <2>3 DEF OwnedIsActive, TypeOK, Active
    <3>2. NoPanic' /\ OneOwner' /\ LiveIsHeld'
      BY <1>1 DEF NoPanic, OneOwner, LiveIsHeld
    <3>3. TargetIsHeld'
      BY <1>1 DEF TargetIsHeld
    <3>4. AwaitedIsGone'
      BY <1>1, <2>1 DEF AwaitedIsGone
    <3> QED
      BY <3>1, <3>2, <3>3, <3>4
  <2> QED
    BY <1>1, <2>2, <2>3 DEF AutoRestart, Exhaustible
<1>2. CASE ReactCrashed
  BY <1>1, <1>2, HeadEvent DEF ReactCrashed
<1>3. CASE ReactResting
  BY <1>3, OwnershipFrame DEF ReactResting
<1>4. CASE ReactLagged
  BY <1>4, OwnershipFrame DEF ReactLagged
<1>5. ASSUME NEW p \in Proc, RescanOne(p) PROVE Ownership'
  BY <1>1, <1>5 DEF RescanOne
<1> QED
  BY <1>2, <1>3, <1>4, <1>5 DEF React

LEMMA OwnershipShutdown ==
  ASSUME Ownership, ShutdownStep
  PROVE  Ownership'
<1> USE DEF registryVars, actorVars, worldVars, reactorVars
<1>1. CASE ScanPass
  BY <1>1, OwnershipFrame DEF ScanPass
<1>2. CASE EndPass
  BY <1>2, OwnershipFrame DEF EndPass
<1>3. ASSUME NEW p \in Proc, ReapAttached(p) PROVE Ownership'
  BY <1>3, OwnershipFrame DEF ReapAttached
<1>4. ASSUME NEW p \in Proc, ReapMidLaunch(p) PROVE Ownership'
  BY <1>4, OwnershipFrame DEF ReapMidLaunch
<1> QED
  BY <1>1, <1>2, <1>3, <1>4 DEF ShutdownStep

LEMMA OwnershipEnvironment ==
  ASSUME NoPanics, Ownership, TypeOK, Environment
  PROVE  Ownership'
<1> USE DEF registryVars, actorVars, worldVars, reactorVars
<1>1. ASSUME NEW p \in Proc, Register(p) PROVE Ownership'
  <2>1. /\ entry[p] = "new" /\ entry' = [entry EXCEPT ![p] = "present"]
        /\ UNCHANGED <<status, pgid, actor, live, call>>
    BY <1>1 DEF Register
  <2> USE DEF Owns, Holds, Present, Ownership
  <2>2. NoPanic' /\ OneOwner' /\ LiveIsHeld'
    BY <2>1 DEF NoPanic, OneOwner, LiveIsHeld
  <2>3. OwnedIsActive'
    BY <2>1 DEF OwnedIsActive, TypeOK
  <2>4. TargetIsHeld'
    BY <2>1 DEF TargetIsHeld, TypeOK
  <2>5. AwaitedIsGone'
    BY <2>1 DEF AwaitedIsGone, TypeOK
  <2> QED
    BY <2>2, <2>3, <2>4, <2>5
<1>2. ASSUME NEW p \in Proc, Deregister(p) PROVE Ownership'
  BY <1>2, OwnershipRemove DEF Deregister
<1>3. ASSUME NEW p \in Proc, Age(p) PROVE Ownership'
  BY <1>3, OwnershipFrame DEF Age
<1>4. ASSUME NEW p \in Proc, ChildExits(p) PROVE Ownership'
  <2>1. /\ \A q \in Proc : live'[q] \subseteq live[q]
        /\ UNCHANGED <<entry, status, pgid, actor, call>>
    BY <1>4 DEF ChildExits, TypeOK
  <2> QED
    BY <2>1 DEF Ownership, NoPanic, OneOwner, OwnedIsActive, LiveIsHeld, TargetIsHeld,
                AwaitedIsGone, Owns, Holds, Present
<1>5. ASSUME NEW p \in Proc, NEW v \in Version, UpdateCommand(p, v) PROVE Ownership'
  BY <1>5, OwnershipFrame DEF UpdateCommand
<1>6. ASSUME NEW v \in Version, Trust(v) PROVE Ownership'
  BY <1>6, OwnershipFrame DEF Trust
<1>7. ASSUME NEW v \in Version, Untrust(v) PROVE Ownership'
  BY <1>7, OwnershipFrame DEF Untrust
<1>8. ASSUME NEW a \in Actor, Panic(a) PROVE FALSE
  BY <1>8 DEF Panic, NoPanics
<1>9. CASE Overrun
  BY <1>9, OwnershipFrame DEF Overrun
<1>10. CASE BeginShutdown
  BY <1>10, OwnershipFrame DEF BeginShutdown
<1> QED
  BY <1>1, <1>2, <1>3, <1>4, <1>5, <1>6, <1>7, <1>8, <1>9, <1>10 DEF Environment

LEMMA OwnershipInit == Init => Ownership
BY DEF Init, Ownership, NoPanic, OneOwner, OwnedIsActive, LiveIsHeld, TargetIsHeld,
       AwaitedIsGone, Owns, Holds, Asleep, Idle, Engaged, Before, Holding

LEMMA OwnershipStep == NoPanics /\ TypeOK /\ Ownership /\ [Next]_vars => Ownership'
<1> SUFFICES ASSUME NoPanics, TypeOK, Ownership, [Next]_vars PROVE Ownership'
  OBVIOUS
<1>1. CASE UNCHANGED vars
  BY <1>1, OwnershipFrame DEF vars, registryVars, actorVars, worldVars, reactorVars
<1>2. CASE Quit
  BY <1>1, <1>2 DEF Quit
<1> QED
  BY <1>1, <1>2, OwnershipCommand, OwnershipContinue, OwnershipActor, OwnershipReact,
     OwnershipShutdown, OwnershipEnvironment DEF Next

\* Whatever commands, crashes, relaunches, reloads and shutdowns overlap, a
\* process has one owner at most, and every running group of it and its
\* sampling target are its owner's (actors.rs:27, actor.rs:150).
THEOREM OwnershipHolds == ASSUME NoPanics PROVE Spec => []Ownership
<1>1. TypeOK /\ Ownership /\ [Next]_vars => Ownership'
  BY OwnershipStep
<1> QED
  BY <1>1, OwnershipInit, TypeCorrect, PTL DEF Spec

\* At most one child of a process runs at any time (actors.rs:27).
THEOREM OneLiveChildHolds == ASSUME NoPanics PROVE Spec => []OneLiveChild
<1>1. Ownership => OneLiveChild
  BY DEF Ownership, OneOwner, LiveIsHeld, OneLiveChild, Owns, Holds, Engaged
<1> QED
  BY <1>1, OwnershipHolds, PTL

\* A running child always has an actor that will reap it (actor.rs:150).
THEOREM NoChildAbandonedHolds == ASSUME NoPanics PROVE Spec => []NoChildAbandoned
<1>1. Ownership => NoChildAbandoned
  BY DEF Ownership, LiveIsHeld, NoChildAbandoned, Holds, Alive, Holding
<1> QED
  BY <1>1, OwnershipHolds, PTL

\* A process that shows as resting has no child and no sampling target
\* (process.rs:42).
THEOREM RestingIsReapedHolds == ASSUME NoPanics PROVE Spec => []RestingIsReaped
<1>1. Ownership => RestingIsReaped
  <2> SUFFICES ASSUME Ownership, NEW p \in Proc, Present(p), status[p] \in Resting
               PROVE  live[p] = {} /\ pgid[p] = NoGroup
    BY DEF RestingIsReaped
  <2>1. \A a \in Actor : ~Owns(a, p)
    BY DEF Ownership, OwnedIsActive, Resting
  <2> QED
    BY <2>1 DEF Ownership, LiveIsHeld, TargetIsHeld, Owns, Holds, Engaged
<1> QED
  BY <1>1, OwnershipHolds, PTL

\* The sampling target is a child of the process's own actor (registry.rs:139).
THEOREM PgidIsOwnChildHolds == ASSUME NoPanics PROVE Spec => []PgidIsOwnChild
<1>1. Ownership => PgidIsOwnChild
  BY DEF Ownership, TargetIsHeld, PgidIsOwnChild, Holds, Alive
<1> QED
  BY <1>1, OwnershipHolds, PTL

-----------------------------------------------------------------------------
(* What follows from Ownership once the phase of a task is tied to the     *)
(* status it shows and to the runtime-state file.                          *)

NoRevocation == "revokes" \notin Allowed
NoFailedWrites == "recordFails" \notin Allowed

-----------------------------------------------------------------------------
(* What an actor's step does to its own state.                             *)

\* Every step but the last one of a task leaves its owner alone and no step
\* touches another task: Moves, and what the step makes of the outcome.
LEMMA PcKeepsOutcome ==
  ASSUME TypeOK, NEW a \in Actor, actor[a] \in Task, NEW pc \in ActorPc,
         NEW g \in Group \cup {NoGroup},
         \/ actor' = [actor EXCEPT ![a].pc = pc]
         \/ actor' = [actor EXCEPT ![a].pc = pc, ![a].child = g]
  PROVE  actor'[a].outcome = actor[a].outcome
<1>1. CASE actor' = [actor EXCEPT ![a].pc = pc]
  <2>1. actor'[a] = [actor[a] EXCEPT !.pc = pc]
    BY <1>1 DEF TypeOK, Actors
  <2> QED
    BY <2>1 DEF Task
<1>2. CASE actor' = [actor EXCEPT ![a].pc = pc, ![a].child = g]
  <2>1. actor'[a] = [actor[a] EXCEPT !.pc = pc, !.child = g]
    BY <1>2 DEF TypeOK, Actors
  <2> QED
    BY <2>1 DEF Task
<1> QED
  BY <1>1, <1>2

LEMMA PcSetsOutcome ==
  ASSUME TypeOK, NEW a \in Actor, actor[a] \in Task, NEW pc \in ActorPc, NEW o,
         actor' = [actor EXCEPT ![a].pc = pc, ![a].outcome = o]
  PROVE  actor'[a].outcome = o
<1>1. actor'[a] = [actor[a] EXCEPT !.pc = pc, !.outcome = o]
  BY DEF TypeOK, Actors
<1> QED
  BY <1>1 DEF Task

\* A task that is stepping is one.
LEMMA StepOfTask ==
  ASSUME TypeOK, NEW a \in Actor, ActorStep(a)
  PROVE  /\ actor[a] \in Task /\ actor[a].owner \in Proc
         /\ actor[a].child \in Group \cup {NoGroup}
         /\ actor[a].pc \in Recorded => actor[a].child # NoGroup
<1>1. actor[a].pc # "idle"
  BY DEF ActorStep, QuitBeforeSpawn, GoSpawn, Spawn, SpawnFails, Record, SetPgid,
         Announce, ObserveExit, TakeStop, TakeRestart, Reap, Forget, Settle,
         Respawn, Finish, HandlePanic, At
<1> QED
  BY <1>1, TaskOf DEF Task, TypeOK, Actors, Holding, Recorded

LEMMA Phases ==
  /\ Before = {"launching", "spawning"}
  /\ Holding = {"spawned", "recorded", "announcing", "running", "reaping"}
  /\ Engaged = Before \cup Holding \cup {"forgetting", "ending"}
  /\ ActorPc = Engaged \cup {"idle", "releasing", "panicked"}
BY DEF Before, Holding, Engaged, ActorPc

-----------------------------------------------------------------------------
(* PhaseShown.                                                             *)

\* Nothing it speaks of changes, or a process leaves the registry.
LEMMA PhaseFrame ==
  ASSUME PhaseShown, UNCHANGED <<status, actor>>, \A p \in Proc : Present(p)' => Present(p),
         TypeOK
  PROVE  PhaseShown'
<1>1. \A a \in Actor : actor[a].pc \in Engaged => actor[a].owner \in Proc
  BY TaskOf DEF Task, Engaged, Before, Holding
<1> QED
  BY <1>1 DEF PhaseShown, Shows

\* Task a moves on, and if it still owns its process, shows it.
LEMMA PhaseMoves ==
  ASSUME Ownership, TypeOK, PhaseShown, UNCHANGED entry,
         NEW a \in Actor, actor[a].pc \in Engaged \cup {"releasing"},
         \A b \in Actor \ {a} : actor'[b] = actor[b],
         actor'[a].pc \in Engaged => actor'[a].owner = actor[a].owner,
         actor[a].pc \notin Engaged => UNCHANGED status,
         \A q \in Proc \ {actor[a].owner} : status'[q] = status[q],
         actor'[a].pc \in Engaged /\ Present(actor[a].owner)
           => status'[actor[a].owner] = Shows(a)'
  PROVE  PhaseShown'
<1> SUFFICES ASSUME NEW b \in Actor, actor'[b].pc \in Engaged, Present(actor[b].owner)'
             PROVE  (status[actor[b].owner] = Shows(b))'
  BY DEF PhaseShown
<1>1. CASE b = a
  BY <1>1 DEF Present
<1>2. CASE b # a
  <2>1. actor[b].owner \in Proc /\ actor'[b] = actor[b]
    BY <1>2, TaskOf DEF Task, Engaged, Before, Holding
  <2>2. status[actor[b].owner] = Shows(b) /\ Shows(b)' = Shows(b)
    BY <2>1 DEF PhaseShown, Shows, Present
  <2>3. status'[actor[b].owner] = status[actor[b].owner]
    BY <1>2, <2>1 DEF Ownership, OneOwner, Owns
  <2> QED
    BY <2>1, <2>2, <2>3
<1> QED
  BY <1>1, <1>2

LEMMA PhaseActor ==
  ASSUME Ownership, TypeOK, PhaseShown, NEW a \in Actor, ActorStep(a)
  PROVE  PhaseShown'
<1> DEFINE p == actor[a].owner
<1>a. actor[a] \in Task /\ p \in Proc /\ actor[a].child \in Group \cup {NoGroup}
  BY StepOfTask
<1>s. \A s : SetStatus(p, s) => /\ \A q \in Proc \ {p} : status'[q] = status[q]
                                /\ Present(p) => status'[p] = s
  BY <1>a DEF SetStatus, TypeOK
<1> USE Phases DEF registryVars, actorVars, worldVars, reactorVars, At
<1>1. CASE QuitBeforeSpawn(a)
  <2>1. Moves(a, "ending", actor[a].child) /\ actor'[a].outcome = "stop"
    BY <1>1, <1>a, PcOutcomeMoves, PcSetsOutcome DEF QuitBeforeSpawn
  <2>2. Shows(a)' = "Stopping"
    BY <2>1 DEF Moves, Shows
  <2> QED
    BY <1>1, <1>a, <1>s, <2>1, <2>2, PhaseMoves DEF QuitBeforeSpawn, Moves
<1>2. CASE GoSpawn(a) \/ Spawn(a) \/ Record(a) \/ SetPgid(a)
  <2>1. PICK pc \in {"spawning", "spawned", "recorded", "announcing"},
             g \in Group \cup {NoGroup} :
          \/ actor' = [actor EXCEPT ![a].pc = pc]
          \/ actor' = [actor EXCEPT ![a].pc = pc, ![a].child = g]
    BY <1>2, <1>a DEF GoSpawn, Spawn, Record, SetPgid
  <2>2. \E h \in Group \cup {NoGroup} : Moves(a, pc, h)
    BY <2>1, <1>a, PcMoves, PcChildMoves
  <2>3. actor[a].pc \in {"launching", "spawning", "spawned", "recorded"} /\ UNCHANGED <<entry, status>>
    BY <1>2 DEF GoSpawn, Spawn, Record, SetPgid
  <2>4. Shows(a)' = "Starting" /\ Shows(a) = "Starting"
    BY <2>2, <2>3 DEF Moves, Shows
  <2> QED
    BY <1>a, <2>2, <2>3, <2>4, PhaseMoves DEF Moves, PhaseShown
<1>3. CASE SpawnFails(a)
  <2>1. Moves(a, "releasing", actor[a].child)
    BY <1>3, <1>a, PcMoves DEF SpawnFails
  <2> QED
    BY <1>3, <1>a, <1>s, <2>1, PhaseMoves DEF SpawnFails, Moves
<1>4. CASE Announce(a)
  <2>1. Moves(a, "running", actor[a].child)
    BY <1>4, <1>a, PcMoves DEF Announce
  <2>2. Shows(a)' = "Running"
    BY <2>1 DEF Moves, Shows
  <2> QED
    BY <1>4, <1>a, <1>s, <2>1, <2>2, PhaseMoves DEF Announce, Moves
<1>5. CASE ObserveExit(a)
  <2>1. PICK how \in {"exit", "crash"} :
          actor' = [actor EXCEPT ![a].pc = "forgetting", ![a].outcome = how]
    BY <1>5 DEF ObserveExit
  <2>2. Moves(a, "forgetting", actor[a].child) /\ actor'[a].outcome = how
    BY <2>1, <1>a, PcOutcomeMoves, PcSetsOutcome
  <2>3. Shows(a)' = "Running" /\ Shows(a) = "Running"
    BY <1>5, <2>2 DEF ObserveExit, Moves, Shows
  <2> QED
    BY <1>5, <1>a, <2>2, <2>3, PhaseMoves DEF ObserveExit, Moves, PhaseShown
<1>6. CASE TakeStop(a)
  <2>1. Moves(a, "reaping", actor[a].child) /\ actor'[a].outcome = "stop"
    BY <1>6, <1>a, PcOutcomeMoves, PcSetsOutcome DEF TakeStop
  <2>2. Shows(a)' = "Stopping"
    BY <2>1 DEF Moves, Shows
  <2> QED
    BY <1>6, <1>a, <1>s, <2>1, <2>2, PhaseMoves DEF TakeStop, Moves
<1>7. CASE TakeRestart(a)
  <2>1. Moves(a, "reaping", actor[a].child) /\ actor'[a].outcome = "restart"
    BY <1>7, <1>a, PcOutcomeMoves, PcSetsOutcome DEF TakeRestart
  <2>2. Shows(a)' = "Restarting"
    BY <2>1 DEF Moves, Shows
  <2> QED
    BY <1>7, <1>a, <1>s, <2>1, <2>2, PhaseMoves DEF TakeRestart, Moves
<1>8. CASE Reap(a) \/ Forget(a)
  <2>1. PICK pc \in {"forgetting", "ending"} :
          \/ actor' = [actor EXCEPT ![a].pc = pc]
          \/ actor' = [actor EXCEPT ![a].pc = pc, ![a].child = NoGroup]
    BY <1>8 DEF Reap, Forget
  <2>2. /\ \E h \in Group \cup {NoGroup} : Moves(a, pc, h)
        /\ actor'[a].outcome = actor[a].outcome
    BY <2>1, <1>a, PcMoves, PcChildMoves, PcKeepsOutcome
  <2>3. actor[a].pc \in {"reaping", "forgetting"} /\ UNCHANGED <<entry, status>>
    BY <1>8 DEF Reap, Forget
  <2>4. Shows(a)' = Shows(a)
    BY <2>2, <2>3 DEF Moves, Shows
  <2> QED
    BY <1>a, <2>2, <2>3, <2>4, PhaseMoves DEF Moves, PhaseShown
<1>9. CASE Settle(a)
  <2>1. Moves(a, "releasing", actor[a].child)
    BY <1>9, <1>a, PcMoves DEF Settle
  <2> QED
    BY <1>9, <1>a, <1>s, <2>1, PhaseMoves DEF Settle, Moves
<1>10. CASE Respawn(a)
  <2>1. Moves(a, "launching", actor[a].child)
    BY <1>10, <1>a, PcMoves DEF Respawn
  <2>2. Shows(a)' = "Starting"
    BY <2>1 DEF Moves, Shows
  <2> QED
    BY <1>10, <1>a, <1>s, <2>1, <2>2, PhaseMoves DEF Respawn, Moves
<1>11. CASE Finish(a)
  <2>1. actor'[a].pc = "idle" /\ \A b \in Actor \ {a} : actor'[b] = actor[b]
    BY <1>11 DEF Finish, TypeOK, Actors, Asleep
  <2> QED
    BY <1>11, <2>1, PhaseMoves DEF Finish
<1>12. CASE HandlePanic(a)
  BY <1>12 DEF HandlePanic, Ownership, NoPanic
<1> QED
  BY <1>1, <1>2, <1>3, <1>4, <1>5, <1>6, <1>7, <1>8, <1>9, <1>10, <1>11, <1>12
     DEF ActorStep

\* The entry of one process changes, which leaves the registry or has no owner.
LEMMA PhaseEntry ==
  ASSUME PhaseShown, TypeOK, UNCHANGED actor, NEW p \in Proc,
         \A q \in Proc \ {p} : entry'[q] = entry[q] /\ status'[q] = status[q],
         \/ ~Present(p)'
         \/ \A a \in Actor : actor[a].pc \in Engaged => actor[a].owner # p
  PROVE  PhaseShown'
<1> SUFFICES ASSUME NEW a \in Actor, actor[a].pc \in Engaged, Present(actor[a].owner)'
             PROVE  (status[actor[a].owner] = Shows(a))'
  BY DEF PhaseShown
<1>1. actor[a].owner \in Proc \ {p}
  BY TaskOf DEF Task, Engaged, Before, Holding
<1> QED
  BY <1>1 DEF PhaseShown, Shows, Present

LEMMA PhaseStep ==
  ASSUME NoPanics, TypeOK, Ownership, PhaseShown, [Next]_vars
  PROVE  PhaseShown'
<1> USE DEF registryVars, actorVars, worldVars, reactorVars
<1>1. CASE UNCHANGED vars \/ Quit
  BY <1>1, PhaseFrame DEF vars, Quit, Present
<1>2. ASSUME NEW c \in Client, NEW p \in Proc, Command(c, p) PROVE PhaseShown'
  <2>1. CASE Start(c, p) \/ StartCandidate(c, p) \/ Restart(c, p) \/ Stop(c, p)
    BY <2>1, PhaseFrame DEF Start, StartCandidate, Restart, Stop, Present
  <2>2. CASE Close(c, p)
    <3>1. Remove(p, "closing") /\ UNCHANGED actor
      BY <2>2 DEF Close
    <3> QED
      BY <3>1, PhaseEntry DEF Remove, Present, TypeOK
  <2> QED
    BY <1>2, <2>1, <2>2 DEF Command
<1>3. ASSUME NEW c \in Caller, Continue(c) PROVE PhaseShown'
  <2>1. CASE Signal(c) \/ ClaimRefused(c)
    BY <2>1, PhaseFrame DEF Signal, ClaimRefused, Present
  <2>2. CASE FinishClose(c)
    BY <2>2, PhaseFrame DEF FinishClose, Present, TypeOK
  <2>3. CASE Attach(c)
    <3>1. UNCHANGED <<entry, status>>
      BY <2>3 DEF Attach
    <3>2. CASE UNCHANGED actor
      BY <3>1, <3>2, PhaseFrame DEF Present
    <3>3. CASE actor' = [actor EXCEPT ![call[c].actor] = Asleep]
      BY <3>1, <3>3 DEF PhaseShown, Shows, Present, Asleep, TypeOK, Actors, Engaged, Before, Holding
    <3> QED
      BY <2>3, <3>2, <3>3 DEF Attach
  <2>4. CASE Claim(c)
    <3> DEFINE p == call[c].proc
    <3>1. p \in Proc /\ status[p] \notin Active /\ status' = [status EXCEPT ![p] = "Starting"]
          /\ UNCHANGED entry
      BY <2>4 DEF Claim, Claimable, TypeOK, Call, Resting
    <3>2. PICK a \in Actor : actor' = [actor EXCEPT ![a] =
               [pc |-> "launching", owner |-> p, cmd |-> call[c].ver,
                child |-> NoGroup, outcome |-> "exit"]]
      BY <2>4 DEF Claim, SpecChecked
    <3>3. /\ actor'[a].pc = "launching" /\ actor'[a].owner = p
          /\ \A b \in Actor \ {a} : actor'[b] = actor[b]
      BY <3>2 DEF TypeOK, Actors
    <3>4. Shows(a)' = "Starting"
      BY <3>3 DEF Shows, Before
    <3> SUFFICES ASSUME NEW b \in Actor, actor'[b].pc \in Engaged, Present(actor[b].owner)'
                 PROVE  (status[actor[b].owner] = Shows(b))'
      BY DEF PhaseShown
    <3>5. CASE b = a
      BY <3>1, <3>3, <3>4, <3>5 DEF TypeOK
    <3>6. CASE b # a
      <4>1. actor'[b] = actor[b] /\ actor[b].owner \in Proc /\ Present(actor[b].owner)
        BY <3>1, <3>3, <3>6, TaskOf DEF Task, Engaged, Before, Holding, Present
      <4>2. actor[b].owner # p
        BY <3>1, <4>1 DEF Ownership, OwnedIsActive, Owns
      <4> QED
        BY <3>1, <4>1, <4>2 DEF PhaseShown, Shows, TypeOK
    <3> QED
      BY <3>5, <3>6
  <2> QED
    BY <1>3, <2>1, <2>2, <2>3, <2>4 DEF Continue
<1>4. ASSUME NEW a \in Actor, ActorStep(a) PROVE PhaseShown'
  BY <1>4, PhaseActor
<1>5. CASE React
  <2>1. ASSUME NEW p \in Proc, AutoRestart(p), UNCHANGED <<entry, actor>> PROVE PhaseShown'
    <3>1. CASE UNCHANGED status
      BY <2>1, <3>1, PhaseFrame DEF Present
    <3>2. CASE status[p] = "Crashed" /\ status' = [status EXCEPT ![p] = "RestartExhausted"]
      <4>1. \A a \in Actor : ~(actor[a].pc \in Engaged /\ actor[a].owner = p /\ Present(p))
        BY <3>2 DEF Ownership, OwnedIsActive, Owns, Active
      <4> QED
        BY <2>1, <3>2, <4>1 DEF PhaseShown, Shows, Present, TypeOK
    <3> QED
      BY <2>1, <3>1, <3>2 DEF AutoRestart, Exhaustible
  <2>2. CASE ReactCrashed
    BY <2>1, <2>2, HeadEvent DEF ReactCrashed
  <2>3. CASE ReactResting \/ ReactLagged
    BY <2>3, PhaseFrame DEF ReactResting, ReactLagged, Present
  <2>4. ASSUME NEW p \in Proc, RescanOne(p) PROVE PhaseShown'
    BY <2>1, <2>4 DEF RescanOne
  <2> QED
    BY <1>5, <2>2, <2>3, <2>4 DEF React
<1>6. CASE ShutdownStep
  BY <1>6, PhaseFrame DEF ShutdownStep, ScanPass, EndPass, ReapAttached, ReapMidLaunch, Present
<1>7. CASE Environment
  <2>1. ASSUME NEW p \in Proc, Register(p) PROVE PhaseShown'
    <3>1. \A a \in Actor : ~(actor[a].pc \in Engaged /\ actor[a].owner = p)
      BY <2>1 DEF Register, Ownership, OwnedIsActive, Owns
    <3> QED
      BY <2>1, <3>1, PhaseEntry DEF Register, TypeOK
  <2>2. ASSUME NEW p \in Proc, Deregister(p) PROVE PhaseShown'
    BY <2>2, PhaseEntry DEF Deregister, Remove, Present, TypeOK
  <2>3. ASSUME NEW p \in Proc, Age(p) \/ ChildExits(p) PROVE PhaseShown'
    BY <2>3, PhaseFrame DEF Age, ChildExits, Present
  <2>4. ASSUME NEW p \in Proc, NEW v \in Version, UpdateCommand(p, v) PROVE PhaseShown'
    BY <2>4, PhaseFrame DEF UpdateCommand, Present
  <2>5. ASSUME NEW v \in Version, Trust(v) \/ Untrust(v) PROVE PhaseShown'
    BY <2>5, PhaseFrame DEF Trust, Untrust, Present
  <2>6. ASSUME NEW a \in Actor, Panic(a) PROVE FALSE
    BY <2>6 DEF Panic, NoPanics
  <2>7. CASE Overrun \/ BeginShutdown
    BY <2>7, PhaseFrame DEF Overrun, BeginShutdown, Present
  <2> QED
    BY <1>7, <2>1, <2>2, <2>3, <2>4, <2>5, <2>6, <2>7 DEF Environment
<1> QED
  BY <1>1, <1>2, <1>3, <1>4, <1>5, <1>6, <1>7 DEF Next

\* The registry shows the phase of the owner, whoever writes it meanwhile.
LEMMA PhaseShownHolds == ASSUME NoPanics PROVE Spec => []PhaseShown
<1>1. Init => PhaseShown
  BY DEF Init, PhaseShown, Asleep, Engaged, Before, Holding
<1>2. TypeOK /\ Ownership /\ PhaseShown /\ [Next]_vars => PhaseShown'
  BY PhaseStep
<1> QED
  BY <1>1, <1>2, TypeCorrect, OwnershipHolds, PTL DEF Spec

-----------------------------------------------------------------------------
(* The runtime-state file.                                                 *)

\* Every child is kept, let go of, or not there yet, and no task comes to be
\* in a phase its child should be on record in.
LEMMA RecordsFrame ==
  ASSUME ChildrenDiffer, HeldIsRecorded, records \subseteq records',
         \A a \in Actor : Alive(a)' =>
            \/ actor'[a].child = NoGroup /\ actor'[a].pc \notin Recorded
            \/ /\ Alive(a) /\ actor'[a].child = actor[a].child
               /\ actor'[a].pc \in Recorded => actor[a].pc \in Recorded
  PROVE  (ChildrenDiffer /\ HeldIsRecorded)'
<1>1. "idle" \notin Recorded
  BY DEF Recorded
<1>2. ChildrenDiffer'
  BY DEF ChildrenDiffer, Alive
<1>3. HeldIsRecorded'
  BY <1>1 DEF HeldIsRecorded, Alive
<1> QED
  BY <1>2, <1>3

LEMMA RecordsActor ==
  ASSUME NoPanics, NoFailedWrites, TypeOK, Ownership, ChildrenDiffer, HeldIsRecorded,
         NEW a \in Actor, ActorStep(a)
  PROVE  (ChildrenDiffer /\ HeldIsRecorded)'
<1> DEFINE p == actor[a].owner
<1>a. /\ actor[a] \in Task /\ p \in Proc /\ actor[a].child \in Group \cup {NoGroup}
      /\ actor[a].pc \in Recorded => actor[a].child # NoGroup
  BY StepOfTask
<1> USE Phases DEF registryVars, actorVars, worldVars, reactorVars, At
<1>1. ASSUME NEW pc \in ActorPc \ {"idle"}, Moves(a, pc, actor[a].child), actor[a].pc # "idle",
             UNCHANGED records, pc \in Recorded => actor[a].pc \in Recorded
      PROVE  (ChildrenDiffer /\ HeldIsRecorded)'
  BY <1>1, RecordsFrame DEF Moves, Alive
<1>2. CASE QuitBeforeSpawn(a)
  <2>1. Moves(a, "ending", actor[a].child)
    BY <1>2, <1>a, PcOutcomeMoves DEF QuitBeforeSpawn
  <2> QED
    BY <1>1, <1>2, <2>1 DEF QuitBeforeSpawn, Recorded
<1>3. CASE GoSpawn(a) \/ SpawnFails(a) \/ SetPgid(a) \/ Announce(a) \/ Reap(a) \/ Settle(a) \/ Respawn(a)
  <2>1. PICK pc \in {"spawning", "releasing", "announcing", "running", "forgetting", "launching"} :
          /\ actor' = [actor EXCEPT ![a].pc = pc]
          /\ pc \in {"announcing", "running", "forgetting"} =>
               actor[a].pc \in {"recorded", "announcing", "reaping"}
    BY <1>3 DEF GoSpawn, SpawnFails, SetPgid, Announce, Reap, Settle, Respawn
  <2>2. Moves(a, pc, actor[a].child)
    BY <2>1, <1>a, PcMoves
  <2>3. UNCHANGED records /\ actor[a].pc # "idle"
    BY <1>3 DEF GoSpawn, SpawnFails, SetPgid, Announce, Reap, Settle, Respawn
  <2> QED
    BY <1>1, <2>1, <2>2, <2>3 DEF Recorded
<1>4. CASE ObserveExit(a) \/ TakeStop(a) \/ TakeRestart(a)
  <2>1. PICK pc \in {"forgetting", "reaping"}, o \in Outcome :
          actor' = [actor EXCEPT ![a].pc = pc, ![a].outcome = o]
    BY <1>4 DEF ObserveExit, TakeStop, TakeRestart, Outcome
  <2>2. Moves(a, pc, actor[a].child)
    BY <2>1, <1>a, PcOutcomeMoves
  <2>3. UNCHANGED records /\ actor[a].pc = "running"
    BY <1>4 DEF ObserveExit, TakeStop, TakeRestart
  <2> QED
    BY <1>1, <2>2, <2>3 DEF Recorded
<1>5. CASE Spawn(a)
  <2>1. PICK g \in Group : FreeGroup(g) /\ actor' = [actor EXCEPT ![a].pc = "spawned", ![a].child = g]
    BY <1>5 DEF Spawn
  <2>2. Moves(a, "spawned", g) /\ UNCHANGED records /\ actor[a].pc = "spawning"
    BY <1>5, <2>1, <1>a, PcChildMoves DEF Spawn
  <2>3. ChildrenDiffer'
    <3>1. \A b \in Actor \ {a} : actor'[b] = actor[b] /\ (Alive(b) => actor[b].child # g)
      BY <2>1, <2>2 DEF Moves, FreeGroup
    <3>2. actor'[a].child = g
      BY <2>2 DEF Moves
    <3> QED
      BY <3>1, <3>2 DEF ChildrenDiffer, Alive
  <2>4. HeldIsRecorded'
    BY <2>2 DEF HeldIsRecorded, Moves, Recorded
  <2> QED
    BY <2>3, <2>4
<1>6. CASE Record(a)
  <2>1. Moves(a, "recorded", actor[a].child) /\ actor[a].pc = "spawned"
    BY <1>6, <1>a, PcMoves DEF Record
  <2>2. records' = records \cup {actor[a].child}
    BY <1>6 DEF Record, NoFailedWrites
  <2>3. ChildrenDiffer'
    BY <2>1 DEF ChildrenDiffer, Moves, Alive
  <2>4. HeldIsRecorded'
    BY <2>1, <2>2 DEF HeldIsRecorded, Moves
  <2> QED
    BY <2>3, <2>4
<1>7. CASE Forget(a)
  <2>1. Moves(a, "ending", NoGroup) /\ actor[a].pc = "forgetting"
    BY <1>7, <1>a, PcChildMoves DEF Forget
  <2>2. records' = records \ {actor[a].child}
    BY <1>7 DEF Forget
  <2>3. ChildrenDiffer'
    BY <2>1 DEF ChildrenDiffer, Moves, Alive
  <2>4. HeldIsRecorded'
    BY <2>1, <2>2, <1>a DEF HeldIsRecorded, ChildrenDiffer, Moves, Recorded, Alive
  <2> QED
    BY <2>3, <2>4
<1>8. CASE Finish(a)
  <2>1. actor'[a].pc = "idle" /\ \A b \in Actor \ {a} : actor'[b] = actor[b]
    BY <1>8 DEF Finish, TypeOK, Actors, Asleep
  <2> QED
    BY <1>8, <2>1, RecordsFrame DEF Finish, Alive
<1>9. CASE HandlePanic(a)
  BY <1>9 DEF HandlePanic, Ownership, NoPanic
<1> QED
  BY <1>2, <1>3, <1>4, <1>5, <1>6, <1>7, <1>8, <1>9 DEF ActorStep

LEMMA RecordsStep ==
  ASSUME NoPanics, NoFailedWrites, TypeOK, Ownership, ChildrenDiffer, HeldIsRecorded,
         [Next]_vars
  PROVE  (ChildrenDiffer /\ HeldIsRecorded)'
<1> USE DEF registryVars, actorVars, worldVars, reactorVars
<1>0. ASSUME UNCHANGED <<actor, records>> PROVE (ChildrenDiffer /\ HeldIsRecorded)'
  BY <1>0, RecordsFrame DEF Alive
<1>1. CASE UNCHANGED vars \/ Quit
  BY <1>0, <1>1 DEF vars, Quit
<1>2. ASSUME NEW c \in Client, NEW p \in Proc, Command(c, p)
      PROVE  (ChildrenDiffer /\ HeldIsRecorded)'
  BY <1>0, <1>2 DEF Command, Start, StartCandidate, Restart, Stop, Close
<1>3. ASSUME NEW c \in Caller, Continue(c) PROVE (ChildrenDiffer /\ HeldIsRecorded)'
  <2>1. CASE Signal(c) \/ ClaimRefused(c) \/ FinishClose(c)
    BY <1>0, <2>1 DEF Signal, ClaimRefused, FinishClose
  <2>2. CASE Attach(c)
    <3>1. UNCHANGED records
      BY <2>2 DEF Attach
    <3>2. CASE actor' = [actor EXCEPT ![call[c].actor] = Asleep]
      <4>1. \A a \in Actor : actor'[a] = actor[a] \/ actor'[a].pc = "idle"
        BY <3>2 DEF TypeOK, Actors, Asleep
      <4> QED
        BY <3>1, <4>1, RecordsFrame DEF Alive
    <3> QED
      BY <1>0, <2>2, <3>1, <3>2 DEF Attach
  <2>3. CASE Claim(c)
    <3>1. UNCHANGED records
      BY <2>3 DEF Claim
    <3>2. PICK a \in Actor : actor' = [actor EXCEPT ![a] =
               [pc |-> "launching", owner |-> call[c].proc, cmd |-> call[c].ver,
                child |-> NoGroup, outcome |-> "exit"]]
      BY <2>3 DEF Claim, SpecChecked
    <3>3. /\ actor'[a].pc = "launching" /\ actor'[a].child = NoGroup
          /\ \A b \in Actor \ {a} : actor'[b] = actor[b]
      BY <3>2 DEF TypeOK, Actors
    <3> QED
      BY <3>1, <3>3, RecordsFrame DEF Alive, Recorded
  <2> QED
    BY <1>3, <2>1, <2>2, <2>3 DEF Continue
<1>4. ASSUME NEW a \in Actor, ActorStep(a) PROVE (ChildrenDiffer /\ HeldIsRecorded)'
  BY <1>4, RecordsActor
<1>5. CASE React
  BY <1>0, <1>5 DEF React, ReactCrashed, ReactResting, ReactLagged, RescanOne
<1>6. CASE ShutdownStep
  BY <1>0, <1>6 DEF ShutdownStep, ScanPass, EndPass, ReapAttached, ReapMidLaunch
<1>7. CASE Environment
  <2>1. ASSUME NEW a \in Actor, Panic(a) PROVE FALSE
    BY <2>1 DEF Panic, NoPanics
  <2>2. UNCHANGED <<actor, records>>
    BY <1>7, <2>1 DEF Environment, Register, Deregister, Age, ChildExits, UpdateCommand,
                      Trust, Untrust, Overrun, BeginShutdown
  <2> QED
    BY <1>0, <2>2
<1> QED
  BY <1>1, <1>2, <1>3, <1>4, <1>5, <1>6, <1>7 DEF Next

\* One owner per process, its phase shown, and its child on record from before the
\* announcement until after the reap (actor.rs:262, forget_orphan at 296 to 322).
THEOREM AccountingHolds == ASSUME NoPanics, NoFailedWrites PROVE Spec => []Accounting
<1>1. Init => ChildrenDiffer /\ HeldIsRecorded
  BY DEF Init, ChildrenDiffer, HeldIsRecorded, Asleep, Alive, Recorded
<1>2. TypeOK /\ Ownership /\ ChildrenDiffer /\ HeldIsRecorded /\ [Next]_vars
        => (ChildrenDiffer /\ HeldIsRecorded)'
  BY RecordsStep
<1>3. Spec => [](ChildrenDiffer /\ HeldIsRecorded)
  BY <1>1, <1>2, TypeCorrect, OwnershipHolds, PTL DEF Spec
<1>4. Ownership /\ PhaseShown /\ ChildrenDiffer /\ HeldIsRecorded => Accounting
  BY DEF Accounting
<1> QED
  BY <1>3, <1>4, OwnershipHolds, PhaseShownHolds, PTL

\* An announced child that is still running is in the runtime-state file, so that a
\* crash of the app leaves nothing the next launch cannot reconcile (actor.rs:259).
THEOREM AnnouncedIsRecordedHolds ==
  ASSUME NoPanics, NoFailedWrites PROVE Spec => []AnnouncedIsRecorded
<1>1. Accounting => AnnouncedIsRecorded
  <2> SUFFICES ASSUME Accounting, NEW p \in Proc, Present(p),
                      status[p] \in Active \ {"Starting"}, NEW g \in live[p]
               PROVE  g \in records
    BY DEF AnnouncedIsRecorded
  <2>1. PICK a \in Actor : Holds(a, p, g)
    BY DEF Accounting, Ownership, LiveIsHeld
  <2>2. status[p] = Shows(a)
    BY <2>1, Phases DEF Accounting, PhaseShown, Holds
  <2>3. actor[a].pc \in Recorded
    BY <2>1, <2>2, Phases DEF Holds, Shows, Recorded
  <2> QED
    BY <2>1, <2>3 DEF Accounting, HeldIsRecorded, Holds
<1> QED
  BY <1>1, AccountingHolds, PTL

-----------------------------------------------------------------------------
(* Only trusted specs run, whether or not an actor panics.                 *)

LEMMA TrustFrame ==
  ASSUME trusted \subseteq trusted',
         \A a \in Actor : Alive(a)' => actor'[a].cmd \in trusted,
         \A c \in Caller : call'[c].op = "claim" => call'[c].ver \in trusted
  PROVE  LaunchesTrusted'
BY DEF LaunchesTrusted, OnlyTrustedRuns

\* A task is launched once, and keeps the spec it was handed.
LEMMA ActorKeepsCmd ==
  ASSUME TypeOK, NEW a \in Actor, NEW pc, actor[a] \in Task,
         \/ actor' = [actor EXCEPT ![a].pc = pc]
         \/ \E g : actor' = [actor EXCEPT ![a].pc = pc, ![a].child = g]
         \/ \E o : actor' = [actor EXCEPT ![a].pc = pc, ![a].outcome = o]
         \/ actor' = [actor EXCEPT ![a] = Asleep]
  PROVE  \A b \in Actor : Alive(b)' => Alive(b) /\ actor'[b].cmd = actor[b].cmd
<1>1. \A b \in Actor \ {a} : actor'[b] = actor[b]
  BY DEF TypeOK, Actors
<1>2. actor[a].pc # "idle"
  BY DEF Task
<1>3. actor'[a].pc # "idle" => actor'[a].cmd = actor[a].cmd
  <2>1. CASE actor' = [actor EXCEPT ![a].pc = pc]
    <3>1. actor'[a] = [actor[a] EXCEPT !.pc = pc]
      BY <2>1 DEF TypeOK, Actors
    <3> QED
      BY <3>1 DEF Task
  <2>2. ASSUME NEW g, actor' = [actor EXCEPT ![a].pc = pc, ![a].child = g]
        PROVE  actor'[a].cmd = actor[a].cmd
    <3>1. actor'[a] = [actor[a] EXCEPT !.pc = pc, !.child = g]
      BY <2>2 DEF TypeOK, Actors
    <3> QED
      BY <3>1 DEF Task
  <2>3. ASSUME NEW o, actor' = [actor EXCEPT ![a].pc = pc, ![a].outcome = o]
        PROVE  actor'[a].cmd = actor[a].cmd
    <3>1. actor'[a] = [actor[a] EXCEPT !.pc = pc, !.outcome = o]
      BY <2>3 DEF TypeOK, Actors
    <3> QED
      BY <3>1 DEF Task
  <2>4. CASE actor' = [actor EXCEPT ![a] = Asleep]
    BY <2>4 DEF TypeOK, Actors, Asleep
  <2> QED
    BY <2>1, <2>2, <2>3, <2>4
<1> QED
  BY <1>1, <1>2, <1>3 DEF Alive

LEMMA TrustActor ==
  ASSUME TypeOK, LaunchesTrusted, NEW a \in Actor, ActorStep(a) \/ Panic(a)
  PROVE  LaunchesTrusted'
<1>1. actor[a] \in Task
  <2>1. CASE ActorStep(a)
    BY <2>1, StepOfTask
  <2>2. CASE Panic(a)
    BY <2>2, Phases DEF Panic, TypeOK, Actors, ActorState
  <2> QED
    BY <2>1, <2>2
<1>2. \E pc : \/ actor' = [actor EXCEPT ![a].pc = pc]
              \/ \E g : actor' = [actor EXCEPT ![a].pc = pc, ![a].child = g]
              \/ \E o : actor' = [actor EXCEPT ![a].pc = pc, ![a].outcome = o]
              \/ actor' = [actor EXCEPT ![a] = Asleep]
  BY DEF ActorStep, QuitBeforeSpawn, GoSpawn, Spawn, SpawnFails, Record, SetPgid,
         Announce, ObserveExit, TakeStop, TakeRestart, Reap, Forget, Settle,
         Respawn, Finish, HandlePanic, Panic
<1>3. UNCHANGED <<trusted, call>>
  BY DEF ActorStep, QuitBeforeSpawn, GoSpawn, Spawn, SpawnFails, Record, SetPgid,
         Announce, ObserveExit, TakeStop, TakeRestart, Reap, Forget, Settle,
         Respawn, Finish, HandlePanic, Panic
<1>4. \A b \in Actor : Alive(b)' => Alive(b) /\ actor'[b].cmd = actor[b].cmd
  BY <1>1, <1>2, ActorKeepsCmd
<1> QED
  BY <1>3, <1>4, TrustFrame DEF LaunchesTrusted, OnlyTrustedRuns

LEMMA TrustStep ==
  ASSUME NoRevocation, TypeOK, LaunchesTrusted, [Next]_vars
  PROVE  LaunchesTrusted'
<1> USE DEF registryVars, actorVars, worldVars, reactorVars
\* A call is begun for a spec that is trusted now, or is not a claim.
<1>a. ASSUME trusted \subseteq trusted', UNCHANGED actor,
             \A c \in Caller : call'[c].op = "claim" =>
               call'[c] = call[c] \/ call'[c].ver \in trusted
      PROVE  LaunchesTrusted'
  BY <1>a, TrustFrame DEF LaunchesTrusted, OnlyTrustedRuns, Alive
<1>1. CASE UNCHANGED vars \/ Quit
  BY <1>1, <1>a DEF vars, Quit
<1>2. ASSUME NEW c \in Client, NEW p \in Proc, Command(c, p) PROVE LaunchesTrusted'
  BY <1>2, <1>a DEF Command, Start, StartCandidate, Restart, Stop, Close, Asked, TypeOK, Caller
<1>3. ASSUME NEW c \in Caller, Continue(c) PROVE LaunchesTrusted'
  <2>1. CASE Signal(c) \/ ClaimRefused(c) \/ FinishClose(c)
    BY <2>1, <1>a DEF Signal, ClaimRefused, FinishClose, Idle, TypeOK
  <2>2. CASE Attach(c)
    <3>1. trusted' = trusted /\ call' = [call EXCEPT ![c] = Idle]
      BY <2>2 DEF Attach
    <3>2. \A a \in Actor : actor'[a] = actor[a] \/ actor'[a].pc = "idle"
      BY <2>2 DEF Attach, TypeOK, Actors, Asleep
    <3> QED
      BY <3>1, <3>2, TrustFrame DEF LaunchesTrusted, OnlyTrustedRuns, Alive, TypeOK, Idle
  <2>3. CASE Claim(c)
    <3>1. PICK a \in Actor :
            /\ actor' = [actor EXCEPT ![a] =
                 [pc |-> "launching", owner |-> call[c].proc, cmd |-> call[c].ver,
                  child |-> NoGroup, outcome |-> "exit"]]
            /\ call' = [call EXCEPT ![c] = [op |-> "attach", proc |-> call[c].proc, actor |-> a]]
      BY <2>3 DEF Claim, SpecChecked
    <3>2. trusted' = trusted /\ call[c].op = "claim"
      BY <2>3 DEF Claim
    <3>3. actor'[a].cmd = call[c].ver /\ \A b \in Actor \ {a} : actor'[b] = actor[b]
      BY <3>1 DEF TypeOK, Actors
    <3>4. \A d \in Caller : call'[d].op = "claim" => call'[d] = call[d]
      BY <3>1 DEF TypeOK
    <3> QED
      BY <3>2, <3>3, <3>4, TrustFrame DEF LaunchesTrusted, OnlyTrustedRuns, Alive
  <2> QED
    BY <1>3, <2>1, <2>2, <2>3 DEF Continue
<1>4. ASSUME NEW a \in Actor, ActorStep(a) PROVE LaunchesTrusted'
  BY <1>4, TrustActor
<1>5. CASE React
  <2>1. UNCHANGED <<actor, trusted>>
    BY <1>5 DEF React, ReactCrashed, ReactResting, ReactLagged, RescanOne
  <2>2. UNCHANGED call \/ \E p \in Proc : Eligible(p) /\ call' =
           [call EXCEPT ![Reactor] = [op |-> "claim", proc |-> p, ver |-> spec[p]]]
    BY <1>5, HeadEvent DEF React, ReactCrashed, ReactResting, ReactLagged, RescanOne, AutoRestart
  <2> QED
    BY <1>a, <2>1, <2>2 DEF Eligible, TypeOK, Caller
<1>6. CASE ShutdownStep
  BY <1>6, <1>a DEF ShutdownStep, ScanPass, EndPass, ReapAttached, ReapMidLaunch
<1>7. CASE Environment
  <2>1. ASSUME NEW a \in Actor, Panic(a) PROVE LaunchesTrusted'
    BY <2>1, TrustActor
  <2>2. ASSUME NEW v \in Version, Trust(v) \/ Untrust(v) PROVE LaunchesTrusted'
    BY <2>2, <1>a DEF Trust, Untrust, NoRevocation
  <2>3. ASSUME NEW p \in Proc, Register(p) \/ Deregister(p) \/ Age(p) \/ ChildExits(p)
        PROVE  LaunchesTrusted'
    BY <2>3, <1>a DEF Register, Deregister, Age, ChildExits
  <2>4. ASSUME NEW p \in Proc, NEW v \in Version, UpdateCommand(p, v) PROVE LaunchesTrusted'
    BY <2>4, <1>a DEF UpdateCommand
  <2>5. CASE Overrun \/ BeginShutdown
    BY <2>5, <1>a DEF Overrun, BeginShutdown
  <2> QED
    BY <1>7, <2>1, <2>2, <2>3, <2>4, <2>5 DEF Environment
<1> QED
  BY <1>1, <1>2, <1>3, <1>4, <1>5, <1>6, <1>7 DEF Next

\* No actor runs a spec that was untrusted when its launch was allowed, although
\* config reload may replace the registry's spec between the trust check and the
\* claim, and while the actor runs (lifecycle.rs:16; begin_launch is handed the spec).
THEOREM OnlyTrustedRunsHolds == ASSUME NoRevocation PROVE Spec => []OnlyTrustedRuns
<1>1. Init => LaunchesTrusted
  BY DEF Init, LaunchesTrusted, OnlyTrustedRuns, Alive, Asleep, Idle
<1>2. TypeOK /\ LaunchesTrusted /\ [Next]_vars => LaunchesTrusted'
  BY TrustStep
<1>3. LaunchesTrusted => OnlyTrustedRuns
  BY DEF LaunchesTrusted
<1> QED
  BY <1>1, <1>2, <1>3, TypeCorrect, PTL DEF Spec

-----------------------------------------------------------------------------
(* That the supervisor implements the abstract lifecycle of ProcessLife-   *)
(* cycle, process by process: every step of the supervisor is a step of    *)
(* one process's lifecycle, or does not show in it.                        *)

\* What the lifecycle sees of process p.
Seen(p) == IF entry[p] = "new" THEN "new" ELSE IF Present(p) THEN status[p] ELSE "gone"
Living(p) == live[p] # {}

SameSeen(p) == Seen(p)' = Seen(p)
SameOwned(p) == Owned(p)' <=> Owned(p)
SameLiving(p) == Living(p)' <=> Living(p)

\* The step shows in process p alone, or in none.
Others(p) == \A q \in Proc \ {p} : SameSeen(q) /\ SameOwned(q) /\ SameLiving(q)
Hidden == \A q \in Proc : SameSeen(q) /\ SameOwned(q) /\ SameLiving(q)

\* A step of the lifecycle, or none.
LifecycleStep == [Lifecycle!Next]_Lifecycle!vars

-----------------------------------------------------------------------------
(* From what one process shows to the state functions of the lifecycle.    *)

LEMMA SeenKept ==
  ASSUME \A q \in Proc : SameSeen(q)
  PROVE  [q \in Proc |-> Seen(q)]' = [q \in Proc |-> Seen(q)]
BY DEF SameSeen

LEMMA OwnedKept ==
  ASSUME \A q \in Proc : SameOwned(q)
  PROVE  [q \in Proc |-> Owned(q)]' = [q \in Proc |-> Owned(q)]
<1>1. \A q \in Proc : Owned(q)' = Owned(q)
  BY Zenon DEF SameOwned, Owned
<1> QED
  BY <1>1, Zenon

LEMMA LivingKept ==
  ASSUME \A q \in Proc : SameLiving(q)
  PROVE  [q \in Proc |-> Living(q)]' = [q \in Proc |-> Living(q)]
<1>1. \A q \in Proc : Living(q)' = Living(q)
  BY Zenon DEF SameLiving, Living
<1> QED
  BY <1>1, Zenon

LEMMA PointMoves ==
  ASSUME NEW F, NEW G, NEW p \in Proc, NEW o,
         F = [q \in Proc |-> F[q]], G = [q \in Proc |-> G[q]],
         \A q \in Proc \ {p} : G[q] = F[q], G[p] = o
  PROVE  G = [F EXCEPT ![p] = o]
OBVIOUS

LEMMA SeenMoves ==
  ASSUME NEW p \in Proc, \A q \in Proc \ {p} : SameSeen(q), NEW s, Seen(p)' = s
  PROVE  [q \in Proc |-> Seen(q)]' = [[q \in Proc |-> Seen(q)] EXCEPT ![p] = s]
BY DEF SameSeen

LEMMA OwnedMoves ==
  ASSUME NEW p \in Proc, \A q \in Proc \ {p} : SameOwned(q), NEW o \in BOOLEAN, Owned(p)' = o
  PROVE  [q \in Proc |-> Owned(q)]' = [[q \in Proc |-> Owned(q)] EXCEPT ![p] = o]
<1> DEFINE F == [q \in Proc |-> Owned(q)]
<1> DEFINE G == [q \in Proc |-> Owned(q)']
<1>1. \A q \in Proc \ {p} : Owned(q)' = Owned(q)
  BY Zenon DEF SameOwned, Owned
<1>2. \A q \in Proc \ {p} : G[q] = F[q]
  BY <1>1, Zenon
<1>3. G[p] = o
  BY Zenon
<1>4. F = [q \in Proc |-> F[q]] /\ G = [q \in Proc |-> G[q]]
  BY Zenon
<1> HIDE DEF F, G
<1>5. G = [F EXCEPT ![p] = o]
  BY <1>2, <1>3, <1>4, PointMoves
<1> QED
  BY <1>5, Zenon DEF F, G

LEMMA LivingMoves ==
  ASSUME NEW p \in Proc, \A q \in Proc \ {p} : SameLiving(q), NEW o \in BOOLEAN, Living(p)' = o
  PROVE  [q \in Proc |-> Living(q)]' = [[q \in Proc |-> Living(q)] EXCEPT ![p] = o]
<1> DEFINE F == [q \in Proc |-> Living(q)]
<1> DEFINE G == [q \in Proc |-> Living(q)']
<1>1. \A q \in Proc \ {p} : Living(q)' = Living(q)
  BY Zenon DEF SameLiving, Living
<1>2. \A q \in Proc \ {p} : G[q] = F[q]
  BY <1>1, Zenon
<1>3. G[p] = o
  BY Zenon
<1>4. F = [q \in Proc |-> F[q]] /\ G = [q \in Proc |-> G[q]]
  BY Zenon
<1> HIDE DEF F, G
<1>5. G = [F EXCEPT ![p] = o]
  BY <1>2, <1>3, <1>4, PointMoves
<1> QED
  BY <1>5, Zenon DEF F, G

-----------------------------------------------------------------------------
(* The steps of the lifecycle, one lemma each.                             *)

LEMMA HiddenStep == ASSUME Hidden PROVE LifecycleStep
<1>1. UNCHANGED Lifecycle!vars
  BY SeenKept, OwnedKept, LivingKept DEF Hidden, Lifecycle!vars, Seen, Living
<1> QED
  BY <1>1 DEF LifecycleStep

LEMMA SameTable ==
  /\ Lifecycle!ProcStatus = ProcStatus /\ Lifecycle!Active = Active
  /\ Lifecycle!Resting = Resting
  /\ \A s, t : Lifecycle!CanTransition(s, t) <=> CanTransition(s, t)
<1>1. /\ Lifecycle!ProcStatus = ProcStatus /\ Lifecycle!Active = Active
      /\ Lifecycle!Resting = Resting
  BY DEF Lifecycle!ProcStatus, Lifecycle!Active, Lifecycle!Resting, ProcStatus, Active, Resting
<1>2. Lifecycle!Edges = Edges
  BY <1>1 DEF Lifecycle!Edges, Edges
<1> QED
  BY <1>1, <1>2 DEF Lifecycle!CanTransition, CanTransition

LEMMA RegisterStep ==
  ASSUME NEW p \in Proc, Others(p), SameOwned(p), SameLiving(p),
         Seen(p) = "new", Seen(p)' = "Stopped"
  PROVE  LifecycleStep
<1>1. [q \in Proc |-> Seen(q)]' = [[q \in Proc |-> Seen(q)] EXCEPT ![p] = "Stopped"]
  BY SeenMoves DEF Others
<1>2. /\ [q \in Proc |-> Owned(q)]' = [q \in Proc |-> Owned(q)]
      /\ [q \in Proc |-> Living(q)]' = [q \in Proc |-> Living(q)]
  BY OwnedKept, LivingKept DEF Others
<1>3. Lifecycle!Register(p)
  BY <1>1, <1>2 DEF Lifecycle!Register, Seen, Living
<1> QED
  BY <1>3 DEF LifecycleStep, Lifecycle!Next

LEMMA LaunchStep ==
  ASSUME NEW p \in Proc, Others(p), SameLiving(p), ~Owned(p), Owned(p)',
         Seen(p) \in Resting, Seen(p)' = "Starting"
  PROVE  LifecycleStep
<1>1. [q \in Proc |-> Seen(q)]' = [[q \in Proc |-> Seen(q)] EXCEPT ![p] = "Starting"]
  BY SeenMoves DEF Others
<1>2. Owned(p)' = TRUE
  BY Zenon DEF Owned
<1>3. [q \in Proc |-> Owned(q)]' = [[q \in Proc |-> Owned(q)] EXCEPT ![p] = TRUE]
  BY <1>2, OwnedMoves, Zenon DEF Others
<1>4. [q \in Proc |-> Living(q)]' = [q \in Proc |-> Living(q)]
  BY LivingKept DEF Others
<1>5. Lifecycle!Launch(p)
  BY <1>1, <1>3, <1>4, SameTable DEF Lifecycle!Launch, Seen, Living
<1> QED
  BY <1>5 DEF LifecycleStep, Lifecycle!Next

LEMMA ExhaustStep ==
  ASSUME NEW p \in Proc, Others(p), SameOwned(p), SameLiving(p),
         Seen(p) = "Crashed", Seen(p)' = "RestartExhausted"
  PROVE  LifecycleStep
<1>1. [q \in Proc |-> Seen(q)]' = [[q \in Proc |-> Seen(q)] EXCEPT ![p] = "RestartExhausted"]
  BY SeenMoves DEF Others
<1>2. /\ [q \in Proc |-> Owned(q)]' = [q \in Proc |-> Owned(q)]
      /\ [q \in Proc |-> Living(q)]' = [q \in Proc |-> Living(q)]
  BY OwnedKept, LivingKept DEF Others
<1>3. Lifecycle!Exhaust(p)
  BY <1>1, <1>2 DEF Lifecycle!Exhaust, Seen, Living
<1> QED
  BY <1>3 DEF LifecycleStep, Lifecycle!Next

LEMMA AdvanceStep ==
  ASSUME NEW p \in Proc, Others(p), SameOwned(p), SameLiving(p), Owned(p),
         Seen(p) \in Active, Seen(p)' \in Active, CanTransition(Seen(p), Seen(p)')
  PROVE  LifecycleStep
<1>1. [q \in Proc |-> Seen(q)]' = [[q \in Proc |-> Seen(q)] EXCEPT ![p] = Seen(p)']
  BY SeenMoves DEF Others
<1>2. /\ [q \in Proc |-> Owned(q)]' = [q \in Proc |-> Owned(q)]
      /\ [q \in Proc |-> Living(q)]' = [q \in Proc |-> Living(q)]
  BY OwnedKept, LivingKept DEF Others
<1>3. Lifecycle!Advance(p)
  BY <1>1, <1>2, SameTable DEF Lifecycle!Advance, Seen, Living
<1> QED
  BY <1>3 DEF LifecycleStep, Lifecycle!Next

LEMMA BirthStep ==
  ASSUME NEW p \in Proc, Others(p), SameSeen(p), SameOwned(p), Owned(p),
         ~Living(p), Living(p)'
  PROVE  LifecycleStep
<1>1. Living(p)' = TRUE
  BY Zenon DEF Living
<1>2. [q \in Proc |-> Living(q)]' = [[q \in Proc |-> Living(q)] EXCEPT ![p] = TRUE]
  BY <1>1, LivingMoves, Zenon DEF Others
<1>3. /\ [q \in Proc |-> Seen(q)]' = [q \in Proc |-> Seen(q)]
      /\ [q \in Proc |-> Owned(q)]' = [q \in Proc |-> Owned(q)]
  BY SeenKept, OwnedKept DEF Others
<1>4. Lifecycle!Birth(p)
  BY <1>2, <1>3 DEF Lifecycle!Birth, Seen, Living
<1> QED
  BY <1>4 DEF LifecycleStep, Lifecycle!Next

LEMMA DeathStep ==
  ASSUME NEW p \in Proc, Others(p), SameSeen(p), SameOwned(p), Living(p), ~Living(p)'
  PROVE  LifecycleStep
<1>1. Living(p)' = FALSE
  BY Zenon DEF Living
<1>2. [q \in Proc |-> Living(q)]' = [[q \in Proc |-> Living(q)] EXCEPT ![p] = FALSE]
  BY <1>1, LivingMoves, Zenon DEF Others
<1>3. /\ [q \in Proc |-> Seen(q)]' = [q \in Proc |-> Seen(q)]
      /\ [q \in Proc |-> Owned(q)]' = [q \in Proc |-> Owned(q)]
  BY SeenKept, OwnedKept DEF Others
<1>4. Lifecycle!Death(p)
  BY <1>2, <1>3 DEF Lifecycle!Death, Seen, Living
<1> QED
  BY <1>4 DEF LifecycleStep, Lifecycle!Next

\* The owner lets go of p: of a launch that never began, of a process that has
\* left the registry, or at the end of its run.
LEMMA RestStep ==
  ASSUME NEW p \in Proc, Others(p), Owned(p), ~Owned(p)', ~Living(p), SameLiving(p),
         \/ Seen(p)' \in Resting /\ CanTransition(Seen(p), Seen(p)')
         \/ Seen(p) \in {"gone", "Starting"} /\ SameSeen(p)
  PROVE  LifecycleStep
<1>1. Owned(p)' = FALSE
  BY Zenon DEF Owned
<1>2. [q \in Proc |-> Owned(q)]' = [[q \in Proc |-> Owned(q)] EXCEPT ![p] = FALSE]
  BY <1>1, OwnedMoves, Zenon DEF Others
<1>3. [q \in Proc |-> Living(q)]' = [q \in Proc |-> Living(q)]
  BY LivingKept DEF Others
<1>4. CASE Seen(p)' \in Resting /\ CanTransition(Seen(p), Seen(p)')
  <2>1. [q \in Proc |-> Seen(q)]' = [[q \in Proc |-> Seen(q)] EXCEPT ![p] = Seen(p)']
    BY SeenMoves DEF Others
  <2>2. Lifecycle!Rest(p)
    BY <1>2, <1>3, <1>4, <2>1, SameTable DEF Lifecycle!Rest, Seen, Living
  <2> QED
    BY <2>2 DEF LifecycleStep, Lifecycle!Next
<1>5. CASE Seen(p) \in {"gone", "Starting"} /\ SameSeen(p)
  <2>1. [q \in Proc |-> Seen(q)]' = [q \in Proc |-> Seen(q)]
    BY <1>5, SeenKept DEF Others
  <2>2. Lifecycle!Rest(p) \/ Lifecycle!Abandon(p)
    BY <1>2, <1>3, <1>5, <2>1 DEF Lifecycle!Rest, Lifecycle!Abandon, Seen, Living
  <2> QED
    BY <2>2 DEF LifecycleStep, Lifecycle!Next
<1> QED
  BY <1>4, <1>5

LEMMA RemoveStep ==
  ASSUME NEW p \in Proc, Others(p), SameOwned(p), SameLiving(p),
         Seen(p) \in ProcStatus, Seen(p)' = "gone"
  PROVE  LifecycleStep
<1>1. [q \in Proc |-> Seen(q)]' = [[q \in Proc |-> Seen(q)] EXCEPT ![p] = "gone"]
  BY SeenMoves DEF Others
<1>2. /\ [q \in Proc |-> Owned(q)]' = [q \in Proc |-> Owned(q)]
      /\ [q \in Proc |-> Living(q)]' = [q \in Proc |-> Living(q)]
  BY OwnedKept, LivingKept DEF Others
<1>3. Lifecycle!Remove(p)
  BY <1>1, <1>2, SameTable DEF Lifecycle!Remove, Seen, Living
<1> QED
  BY <1>3 DEF LifecycleStep, Lifecycle!Next

-----------------------------------------------------------------------------
(* The steps of the supervisor.                                            *)

\* A step that changes neither what the registry shows nor an owner nor a child.
LEMMA Unseen ==
  ASSUME UNCHANGED <<entry, status, actor, live>>
  PROVE  LifecycleStep
<1>1. Hidden
  BY DEF Hidden, SameSeen, SameOwned, SameLiving, Seen, Owned, Living, Present
<1> QED
  BY <1>1, HiddenStep

\* The owner of a process that has no child yet, or none any more.
LEMMA ChildlessOwner ==
  ASSUME Ownership, TypeOK, NEW a \in Actor, actor[a].pc \in Engaged \ Holding
  PROVE  ~Living(actor[a].owner)
<1>1. actor[a].owner \in Proc
  BY TaskOf DEF Task, Engaged, Before, Holding
<1>2. ASSUME NEW g \in live[actor[a].owner] PROVE FALSE
  <2>1. PICK b \in Actor : Holds(b, actor[a].owner, g)
    BY <1>1 DEF Ownership, LiveIsHeld
  <2>2. b = a
    BY <1>1, <2>1, Phases DEF Ownership, OneOwner, Owns, Holds
  <2> QED
    BY <2>1, <2>2 DEF Holds
<1> QED
  BY <1>1, <1>2 DEF Living, TypeOK

\* An owned process shows the phase of its owner, or has left the registry.
LEMMA OwnerShows ==
  ASSUME Ownership, PhaseShown, TypeOK, NEW a \in Actor, actor[a].pc \in Engaged
  PROVE  /\ Owned(actor[a].owner)
         /\ \/ Present(actor[a].owner) /\ Seen(actor[a].owner) = Shows(a)
            \/ ~Present(actor[a].owner) /\ Seen(actor[a].owner) = "gone"
<1>1. actor[a].owner \in Proc
  BY TaskOf DEF Task, Engaged, Before, Holding
<1>2. entry[actor[a].owner] # "new"
  BY <1>1 DEF Ownership, OwnedIsActive, Owns
<1>3. Owned(actor[a].owner)
  BY <1>1 DEF Owned
<1> QED
  BY <1>1, <1>2, <1>3 DEF PhaseShown, Seen, Present

\* A task that moves on between two engaged phases leaves every owner in place.
LEMMA StillOwned ==
  ASSUME NEW a \in Actor, actor[a].pc \in Engaged, NEW pc \in Engaged, NEW g,
         Moves(a, pc, g)
  PROVE  \A q \in Proc : SameOwned(q)
<1>1. ASSUME NEW q \in Proc, Owned(q) PROVE Owned(q)'
  BY <1>1 DEF Owned, Moves
<1>2. ASSUME NEW q \in Proc, Owned(q)' PROVE Owned(q)
  BY <1>2 DEF Owned, Moves
<1> QED
  BY <1>1, <1>2 DEF SameOwned

\* A task that lets go leaves its process without an owner, and the others with
\* theirs.
LEMMA NotOwned ==
  ASSUME Ownership, TypeOK, NEW a \in Actor, actor[a].pc \in Engaged,
         NEW p, p = actor[a].owner,
         actor'[a].pc \notin Engaged, \A b \in Actor \ {a} : actor'[b] = actor[b]
  PROVE  p \in Proc /\ Owned(p) /\ ~Owned(p)' /\ \A q \in Proc \ {p} : SameOwned(q)
<1>1. p \in Proc
  BY TaskOf DEF Task, Engaged, Before, Holding
<1>2. ~Owned(p)'
  <2> SUFFICES ASSUME NEW b \in Actor, actor'[b].pc \in Engaged, actor'[b].owner = p
               PROVE  FALSE
    BY DEF Owned
  <2>1. b # a /\ Owns(b, p) /\ Owns(a, p)
    BY DEF Owns
  <2> QED
    BY <1>1, <2>1 DEF Ownership, OneOwner
<1>3. ASSUME NEW q \in Proc \ {p} PROVE SameOwned(q)
  <2>1. Owned(q) => Owned(q)'
    BY <1>3 DEF Owned
  <2>2. Owned(q)' => Owned(q)
    BY <1>3 DEF Owned
  <2> QED
    BY <2>1, <2>2 DEF SameOwned
<1>4. Owned(p)
  BY DEF Owned
<1> QED
  BY <1>1, <1>2, <1>3, <1>4

\* An owner moves its process on, unless it has left the registry.
LEMMA OwnerAdvances ==
  ASSUME Ownership, PhaseShown, TypeOK, NEW a \in Actor, actor[a].pc \in Engaged,
         NEW pc \in Engaged, NEW g, Moves(a, pc, g), UNCHANGED <<entry, live>>,
         NEW s \in Active, SetStatus(actor[a].owner, s),
         Shows(a) \in Active, CanTransition(Shows(a), s)
  PROVE  LifecycleStep
<1> SUFFICES ASSUME NEW p, p = actor[a].owner PROVE LifecycleStep
  OBVIOUS
<1>1. p \in Proc
  BY TaskOf DEF Task, Engaged, Before, Holding
<1>2. \A q \in Proc : SameOwned(q) /\ SameLiving(q)
  BY StillOwned DEF SameLiving, Living
<1>3. CASE Present(p)
  <2>1. Seen(p) = Shows(a) /\ Owned(p)
    BY <1>3, OwnerShows
  <2>2. Seen(p)' = s /\ \A q \in Proc \ {p} : SameSeen(q)
    <3>1. status' = [status EXCEPT ![p] = s]
      BY <1>3 DEF SetStatus
    <3> QED
      BY <1>1, <1>3, <3>1 DEF SameSeen, Seen, Present, TypeOK
  <2> QED
    BY <1>1, <1>2, <2>1, <2>2, AdvanceStep DEF Others
<1>4. CASE ~Present(p)
  <2>1. \A q \in Proc : SameSeen(q)
    BY <1>4 DEF SetStatus, SameSeen, Seen, Present
  <2> QED
    BY <1>2, <2>1, HiddenStep DEF Hidden
<1> QED
  BY <1>3, <1>4

\* An owner that has no child lets go of its process, resting it if it is still
\* in the registry.
LEMMA OwnerLetsGo ==
  ASSUME Ownership, PhaseShown, TypeOK, NEW a \in Actor, actor[a].pc \in Engaged \ Holding,
         actor'[a].pc \notin Engaged, \A b \in Actor \ {a} : actor'[b] = actor[b],
         UNCHANGED <<entry, live>>,
         \/ UNCHANGED status /\ Shows(a) = "Starting"
         \/ \E s \in Resting : SetStatus(actor[a].owner, s) /\ CanTransition(Shows(a), s)
  PROVE  LifecycleStep
<1> SUFFICES ASSUME NEW p, p = actor[a].owner PROVE LifecycleStep
  OBVIOUS
<1>1. p \in Proc /\ Owned(p) /\ ~Owned(p)' /\ \A q \in Proc \ {p} : SameOwned(q)
  BY NotOwned
<1>2. ~Living(p) /\ \A q \in Proc : SameLiving(q)
  BY ChildlessOwner DEF SameLiving, Living
<1>3. CASE ~Present(p) \/ UNCHANGED status
  <2>1. \A q \in Proc : SameSeen(q)
    BY <1>3 DEF SetStatus, SameSeen, Seen, Present
  <2>2. Seen(p) \in {"gone", "Starting"}
    <3>1. CASE ~Present(p)
      BY <3>1, OwnerShows
    <3>2. CASE UNCHANGED status /\ Present(p)
      <4>1. CASE Shows(a) = "Starting"
        BY <3>2, <4>1, OwnerShows
      <4>2. ASSUME NEW s \in Resting, SetStatus(p, s), CanTransition(Shows(a), s)
            PROVE  FALSE
        <5>1. status[p] = Shows(a) /\ status'[p] = s
          BY <1>1, <3>2, <4>2 DEF SetStatus, PhaseShown, TypeOK
        <5>2. Shows(a) \in Active
          BY DEF Shows, Active
        <5> QED
          BY <3>2, <4>2, <5>1, <5>2 DEF Resting
      <4> QED
        BY <4>1, <4>2
    <3> QED
      BY <1>3, <3>1, <3>2
  <2> QED
    BY <1>1, <1>2, <2>1, <2>2, RestStep DEF Others
<1>4. ASSUME Present(p), NEW s \in Resting, SetStatus(p, s), CanTransition(Shows(a), s)
      PROVE  LifecycleStep
  <2>1. Seen(p) = Shows(a)
    BY <1>4, OwnerShows
  <2>2. Seen(p)' = s /\ \A q \in Proc \ {p} : SameSeen(q)
    <3>1. status' = [status EXCEPT ![p] = s]
      BY <1>4 DEF SetStatus
    <3> QED
      BY <1>1, <1>4, <3>1 DEF SameSeen, Seen, Present, TypeOK
  <2>3. Seen(p)' \in Resting /\ CanTransition(Seen(p), Seen(p)')
    BY <1>4, <2>1, <2>2
  <2> QED
    BY <1>1, <1>2, <2>2, <2>3, RestStep DEF Others
<1> QED
  BY <1>3, <1>4

\* An owner goes on without moving its process.
LEMMA OwnerGoesOn ==
  ASSUME NEW a \in Actor, actor[a].pc \in Engaged, NEW pc \in Engaged, NEW g,
         Moves(a, pc, g), UNCHANGED <<entry, status, live>>
  PROVE  LifecycleStep
<1>1. \A q \in Proc : SameOwned(q)
  BY StillOwned
<1>2. Hidden
  BY <1>1 DEF Hidden, SameSeen, SameLiving, Seen, Living, Present
<1> QED
  BY <1>2, HiddenStep

LEMMA RefineActor ==
  ASSUME Ownership, PhaseShown, TypeOK, NEW a \in Actor, ActorStep(a)
  PROVE  LifecycleStep
<1> SUFFICES ASSUME NEW p, p = actor[a].owner PROVE LifecycleStep
  OBVIOUS
<1>a. actor[a] \in Task /\ p \in Proc /\ actor[a].child \in Group \cup {NoGroup}
  BY StepOfTask
<1> USE Phases DEF registryVars, actorVars, worldVars, reactorVars, At
<1>s. /\ {"Starting", "Running", "Restarting", "Stopping"} \subseteq Active
      /\ {"Stopped", "Crashed"} \subseteq Resting
      /\ CanTransition("Starting", "Stopping") /\ CanTransition("Starting", "Running")
      /\ CanTransition("Running", "Stopping") /\ CanTransition("Running", "Restarting")
      /\ CanTransition("Running", "Stopped") /\ CanTransition("Running", "Crashed")
      /\ CanTransition("Restarting", "Starting") /\ CanTransition("Stopping", "Stopped")
      /\ CanTransition("Starting", "Crashed")
  BY DEF Active, Resting, ProcStatus, CanTransition, Edges
<1>1. CASE QuitBeforeSpawn(a)
  <2>1. Moves(a, "ending", actor[a].child) /\ Shows(a) = "Starting"
    BY <1>1, <1>a, PcOutcomeMoves DEF QuitBeforeSpawn, Shows
  <2> QED
    BY <1>1, <1>s, <2>1, OwnerAdvances DEF QuitBeforeSpawn
<1>2. CASE GoSpawn(a) \/ Record(a) \/ SetPgid(a)
  <2>1. PICK pc \in {"spawning", "recorded", "announcing"} : actor' = [actor EXCEPT ![a].pc = pc]
    BY <1>2 DEF GoSpawn, Record, SetPgid
  <2>2. Moves(a, pc, actor[a].child)
    BY <2>1, <1>a, PcMoves
  <2>3. actor[a].pc \in Engaged /\ UNCHANGED <<entry, status, live>>
    BY <1>2 DEF GoSpawn, Record, SetPgid
  <2> QED
    BY <2>2, <2>3, OwnerGoesOn
<1>3. CASE Spawn(a)
  <2>1. PICK g \in Group : /\ live' = [live EXCEPT ![p] = @ \cup {g}]
                           /\ actor' = [actor EXCEPT ![a].pc = "spawned", ![a].child = g]
    BY <1>3 DEF Spawn
  <2>2. Moves(a, "spawned", g) /\ actor[a].pc = "spawning" /\ UNCHANGED <<entry, status>>
    BY <1>3, <1>a, <2>1, PcChildMoves DEF Spawn
  <2>3. ~Living(p) /\ Owned(p) /\ \A q \in Proc : SameOwned(q)
    BY <2>2, ChildlessOwner, OwnerShows, StillOwned
  <2>4. Living(p)' /\ (\A q \in Proc : SameSeen(q)) /\ \A q \in Proc \ {p} : SameLiving(q)
    BY <1>a, <2>1, <2>2 DEF Living, SameSeen, SameLiving, Seen, Present, TypeOK
  <2> QED
    BY <1>a, <2>3, <2>4, BirthStep DEF Others
<1>4. CASE SpawnFails(a)
  <2>1. Moves(a, "releasing", actor[a].child) /\ Shows(a) = "Starting" /\ actor[a].pc = "spawning"
    BY <1>4, <1>a, PcMoves DEF SpawnFails, Shows
  <2> QED
    BY <1>4, <1>s, <2>1, OwnerLetsGo DEF SpawnFails, Moves
<1>5. CASE Announce(a)
  <2>1. Moves(a, "running", actor[a].child) /\ Shows(a) = "Starting" /\ actor[a].pc = "announcing"
    BY <1>5, <1>a, PcMoves DEF Announce, Shows
  <2> QED
    BY <1>5, <1>s, <2>1, OwnerAdvances DEF Announce
<1>6. CASE ObserveExit(a)
  <2>1. Moves(a, "forgetting", actor[a].child) /\ actor[a].pc = "running"
    BY <1>6, <1>a, PcOutcomeMoves DEF ObserveExit
  <2> QED
    BY <1>6, <2>1, OwnerGoesOn DEF ObserveExit
<1>7. CASE TakeStop(a) \/ TakeRestart(a)
  <2>1. Moves(a, "reaping", actor[a].child) /\ Shows(a) = "Running" /\ actor[a].pc = "running"
    BY <1>7, <1>a, PcOutcomeMoves DEF TakeStop, TakeRestart, Shows
  <2>2. PICK s \in {"Stopping", "Restarting"} : SetStatus(actor[a].owner, s) /\ UNCHANGED <<entry, live>>
    BY <1>7 DEF TakeStop, TakeRestart
  <2> QED
    BY <1>s, <2>1, <2>2, OwnerAdvances
<1>8. CASE Reap(a)
  <2>1. Moves(a, "forgetting", actor[a].child) /\ actor[a].pc = "reaping"
    BY <1>8, <1>a, PcMoves DEF Reap
  <2>2. /\ live' = [live EXCEPT ![p] = @ \ {actor[a].child}] /\ UNCHANGED <<entry, status>>
    BY <1>8 DEF Reap
  <2>3. \A q \in Proc : SameOwned(q)
    BY <2>1, StillOwned
  <2>4. (\A q \in Proc : SameSeen(q)) /\ \A q \in Proc \ {p} : SameLiving(q)
    BY <1>a, <2>2 DEF Living, SameSeen, SameLiving, Seen, Present, TypeOK
  <2>5. ~Living(p)'
    <3>1. ASSUME NEW g \in live[p] PROVE g = actor[a].child
      <4>1. PICK b \in Actor : Holds(b, p, g)
        BY <1>a, <3>1 DEF Ownership, LiveIsHeld
      <4>2. b = a
        BY <1>a, <2>1, <4>1 DEF Ownership, OneOwner, Owns, Holds
      <4> QED
        BY <4>1, <4>2 DEF Holds
    <3>2. live'[p] = {}
      BY <1>a, <2>2, <3>1 DEF TypeOK
    <3> QED
      BY <3>2 DEF Living
  <2>6. CASE Living(p)
    BY <1>a, <2>3, <2>4, <2>5, <2>6, DeathStep DEF Others
  <2>7. CASE ~Living(p)
    BY <2>3, <2>4, <2>5, <2>7, HiddenStep DEF Hidden, SameLiving
  <2> QED
    BY <2>6, <2>7
<1>9. CASE Forget(a)
  <2>1. Moves(a, "ending", NoGroup) /\ actor[a].pc = "forgetting"
    BY <1>9, <1>a, PcChildMoves DEF Forget
  <2> QED
    BY <1>9, <2>1, OwnerGoesOn DEF Forget
<1>10. CASE Settle(a)
  <2>1. Moves(a, "releasing", actor[a].child) /\ actor[a].pc = "ending"
    BY <1>10, <1>a, PcMoves DEF Settle
  <2>2. PICK s \in {"Stopped", "Crashed"} :
          /\ SetStatus(actor[a].owner, s) /\ UNCHANGED <<entry, live>>
          /\ s = "Crashed" <=> actor[a].outcome = "crash"
    BY <1>10 DEF Settle
  <2>3. Shows(a) = IF actor[a].outcome = "stop" THEN "Stopping" ELSE "Running"
    BY <1>10, <2>1 DEF Settle, Shows
  <2> QED
    BY <1>s, <2>1, <2>2, <2>3, OwnerLetsGo DEF Moves
<1>11. CASE Respawn(a)
  <2>1. Moves(a, "launching", actor[a].child) /\ Shows(a) = "Restarting" /\ actor[a].pc = "ending"
    BY <1>11, <1>a, PcMoves DEF Respawn, Shows
  <2> QED
    BY <1>11, <1>s, <2>1, OwnerAdvances DEF Respawn
<1>12. CASE Finish(a)
  <2>1. /\ actor'[a].pc = "idle" /\ actor[a].pc = "releasing"
        /\ \A b \in Actor \ {a} : actor'[b] = actor[b]
    BY <1>12 DEF Finish, TypeOK, Actors, Asleep
  <2>2. \A q \in Proc : SameOwned(q)
    <3>1. \A q \in Proc : Owned(q) => Owned(q)'
      BY <2>1 DEF Owned
    <3>2. \A q \in Proc : Owned(q)' => Owned(q)
      BY <2>1 DEF Owned
    <3> QED
      BY <3>1, <3>2 DEF SameOwned
  <2>3. Hidden
    BY <1>12, <2>2 DEF Finish, Hidden, SameSeen, SameLiving, Seen, Living, Present
  <2> QED
    BY <2>3, HiddenStep
<1>13. CASE HandlePanic(a)
  BY <1>13 DEF HandlePanic, Ownership, NoPanic
<1> QED
  BY <1>1, <1>2, <1>3, <1>4, <1>5, <1>6, <1>7, <1>8, <1>9, <1>10, <1>11, <1>12, <1>13
     DEF ActorStep

\* The entry of p leaves the registry.
LEMMA RefineRemove ==
  ASSUME TypeOK, NEW p \in Proc, Present(p), NEW next \in {"closing", "removed"},
         Remove(p, next), UNCHANGED <<actor, live>>
  PROVE  LifecycleStep
<1>1. \A q \in Proc : SameOwned(q) /\ SameLiving(q)
  BY DEF SameOwned, SameLiving, Owned, Living
<1>2. \A q \in Proc \ {p} : SameSeen(q)
  BY DEF Remove, SameSeen, Seen, Present, TypeOK
<1>3. Seen(p) \in ProcStatus /\ Seen(p)' = "gone"
  BY DEF Remove, Seen, Present, TypeOK
<1> QED
  BY <1>1, <1>2, <1>3, RemoveStep DEF Others

LEMMA RefineCommand ==
  ASSUME TypeOK, NEW c \in Client, NEW p \in Proc, Command(c, p)
  PROVE  LifecycleStep
<1> USE DEF registryVars, actorVars, worldVars, reactorVars
<1>1. CASE Start(c, p) \/ StartCandidate(c, p) \/ Restart(c, p) \/ Stop(c, p)
  BY <1>1, Unseen DEF Start, StartCandidate, Restart, Stop
<1>2. CASE Close(c, p)
  BY <1>2, RefineRemove DEF Close, Asked
<1> QED
  BY <1>1, <1>2 DEF Command

\* The claim takes a resting process, which nobody owns, for a task of its own.
LEMMA RefineClaim ==
  ASSUME Ownership, TypeOK, NEW c \in Caller, Claim(c)
  PROVE  LifecycleStep
<1> SUFFICES ASSUME NEW p, p = call[c].proc PROVE LifecycleStep
  OBVIOUS
<1>1. PICK a \in Actor :
        /\ Fresh(a, p)
        /\ status' = [status EXCEPT ![p] = "Starting"]
        /\ actor' = [actor EXCEPT ![a] =
             [pc |-> "launching", owner |-> p, cmd |-> SpecChecked(c),
              child |-> NoGroup, outcome |-> "exit"]]
  BY DEF Claim
<1>2. p \in Proc /\ Present(p) /\ status[p] \in Resting /\ UNCHANGED <<entry, live>>
  BY DEF Claim, Claimable, TypeOK, Call, worldVars
<1>3. /\ actor[a].pc = "idle" /\ actor'[a].pc = "launching" /\ actor'[a].owner = p
      /\ \A b \in Actor \ {a} : actor'[b] = actor[b]
  BY <1>1 DEF Fresh, Alive, TypeOK, Actors
<1>4. ~Owned(p)
  BY <1>2 DEF Owned, Ownership, OwnedIsActive, Owns, Resting
<1>5. Owned(p)'
  BY <1>3, Phases DEF Owned
<1>6. ASSUME NEW q \in Proc \ {p} PROVE SameOwned(q)
  <2>1. Owned(q) => Owned(q)'
    BY <1>3, Phases DEF Owned
  <2>2. Owned(q)' => Owned(q)
    BY <1>3, <1>6, Phases DEF Owned
  <2> QED
    BY <2>1, <2>2 DEF SameOwned
<1>7. \A q \in Proc : SameLiving(q)
  BY <1>2 DEF SameLiving, Living
<1>8. Seen(p) \in Resting /\ Seen(p)' = "Starting" /\ \A q \in Proc \ {p} : SameSeen(q)
  BY <1>1, <1>2 DEF Seen, SameSeen, Present, TypeOK
<1> QED
  BY <1>2, <1>4, <1>5, <1>6, <1>7, <1>8, LaunchStep DEF Others

\* attach_join may abort a launch that has not begun: its owner lets go.
LEMMA RefineContinue ==
  ASSUME Ownership, PhaseShown, TypeOK, NEW c \in Caller, Continue(c)
  PROVE  LifecycleStep
<1> USE DEF registryVars, actorVars, worldVars, reactorVars
<1>1. CASE Signal(c) \/ ClaimRefused(c)
  BY <1>1, Unseen DEF Signal, ClaimRefused
<1>2. CASE Claim(c)
  BY <1>2, RefineClaim
<1>3. CASE Attach(c)
  <2>1. UNCHANGED <<entry, status, live>>
    BY <1>3 DEF Attach
  <2>2. CASE UNCHANGED actor
    BY <2>1, <2>2, Unseen
  <2>3. CASE ~UNCHANGED actor
    <3>1. PICK a \in Actor : actor[a].pc = "launching" /\ actor' = [actor EXCEPT ![a] = Asleep]
      BY <1>3, <2>3 DEF Attach, TypeOK, Call
    <3>2. /\ actor'[a].pc \notin Engaged /\ \A b \in Actor \ {a} : actor'[b] = actor[b]
          /\ actor[a].pc \in Engaged \ Holding /\ Shows(a) = "Starting"
      BY <3>1, Phases DEF TypeOK, Actors, Asleep, Shows
    <3> QED
      BY <2>1, <3>2, OwnerLetsGo
  <2> QED
    BY <2>2, <2>3
<1>4. CASE FinishClose(c)
  <2>1. entry[call[c].proc] \in {"closing", "removed"}
    BY <1>4 DEF FinishClose, Ownership, AwaitedIsGone
  <2>2. \A q \in Proc : SameSeen(q)
    BY <1>4, <2>1 DEF FinishClose, SameSeen, Seen, Present, TypeOK
  <2>3. \A q \in Proc : SameOwned(q) /\ SameLiving(q)
    BY <1>4 DEF FinishClose, SameOwned, SameLiving, Owned, Living
  <2> QED
    BY <2>2, <2>3, HiddenStep DEF Hidden
<1> QED
  BY <1>1, <1>2, <1>3, <1>4 DEF Continue

LEMMA RefineReact ==
  ASSUME TypeOK, React
  PROVE  LifecycleStep
<1> USE DEF registryVars, actorVars, worldVars, reactorVars
<1>1. ASSUME NEW p \in Proc, AutoRestart(p), UNCHANGED <<entry, actor, live>>
      PROVE  LifecycleStep
  <2>1. CASE UNCHANGED status
    BY <1>1, <2>1, Unseen
  <2>2. CASE Present(p) /\ status[p] = "Crashed"
             /\ status' = [status EXCEPT ![p] = "RestartExhausted"]
    <3>1. \A q \in Proc : SameOwned(q) /\ SameLiving(q)
      BY <1>1 DEF SameOwned, SameLiving, Owned, Living
    <3>2. /\ Seen(p) = "Crashed" /\ Seen(p)' = "RestartExhausted"
          /\ \A q \in Proc \ {p} : SameSeen(q)
      BY <1>1, <2>2 DEF Seen, SameSeen, Present, TypeOK
    <3> QED
      BY <3>1, <3>2, ExhaustStep DEF Others
  <2> QED
    BY <1>1, <2>1, <2>2 DEF AutoRestart, Eligible, Exhaustible
<1>2. CASE ReactCrashed
  BY <1>1, <1>2, HeadEvent DEF ReactCrashed
<1>3. CASE ReactResting \/ ReactLagged
  BY <1>3, Unseen DEF ReactResting, ReactLagged
<1>4. ASSUME NEW p \in Proc, RescanOne(p) PROVE LifecycleStep
  BY <1>1, <1>4 DEF RescanOne
<1> QED
  BY <1>2, <1>3, <1>4 DEF React

LEMMA AbsentStep ==
  ASSUME TypeOK, Ownership, AbsentIsStopped, [Next]_vars
  PROVE  AbsentIsStopped'
<1> USE DEF registryVars, actorVars, worldVars, reactorVars
<1>0. ASSUME UNCHANGED <<entry, status>> PROVE AbsentIsStopped'
  BY <1>0 DEF AbsentIsStopped, Present
<1>a. ASSUME NEW p, UNCHANGED entry,
             \/ UNCHANGED status
             \/ \E s : SetStatus(p, s)
             \/ Present(p) /\ \E s : status' = [status EXCEPT ![p] = s]
      PROVE  AbsentIsStopped'
  BY <1>a DEF AbsentIsStopped, SetStatus, Present, TypeOK
<1>b. ASSUME NEW p \in Proc, \E e : Remove(p, e) PROVE AbsentIsStopped'
  BY <1>b DEF Remove, AbsentIsStopped, Present, TypeOK
<1>1. CASE UNCHANGED vars \/ Quit
  BY <1>0, <1>1 DEF vars, Quit
<1>2. ASSUME NEW c \in Client, NEW p \in Proc, Command(c, p) PROVE AbsentIsStopped'
  <2>1. CASE Start(c, p) \/ StartCandidate(c, p) \/ Restart(c, p) \/ Stop(c, p)
    BY <1>0, <2>1 DEF Start, StartCandidate, Restart, Stop
  <2>2. CASE Close(c, p)
    BY <1>b, <2>2 DEF Close
  <2> QED
    BY <1>2, <2>1, <2>2 DEF Command
<1>3. ASSUME NEW c \in Caller, Continue(c) PROVE AbsentIsStopped'
  <2>1. CASE Signal(c) \/ ClaimRefused(c) \/ Attach(c)
    BY <1>0, <2>1 DEF Signal, ClaimRefused, Attach
  <2>2. CASE Claim(c)
    <3>1. /\ Present(call[c].proc) /\ UNCHANGED entry
          /\ status' = [status EXCEPT ![call[c].proc] = "Starting"]
      BY <2>2 DEF Claim, Claimable
    <3> QED
      BY <3>1, <1>a
  <2>3. CASE FinishClose(c)
    BY <2>3 DEF FinishClose, Ownership, AwaitedIsGone, AbsentIsStopped, Present, TypeOK, Call
  <2> QED
    BY <1>3, <2>1, <2>2, <2>3 DEF Continue
<1>4. ASSUME NEW a \in Actor, ActorStep(a) PROVE AbsentIsStopped'
  <2>1. UNCHANGED entry /\ (UNCHANGED status \/ \E s : SetStatus(actor[a].owner, s))
    BY <1>4 DEF ActorStep, QuitBeforeSpawn, GoSpawn, Spawn, SpawnFails, Record, SetPgid,
                Announce, ObserveExit, TakeStop, TakeRestart, Reap, Forget, Settle,
                Respawn, Finish, HandlePanic
  <2>2. CASE UNCHANGED status
    BY <1>0, <2>1, <2>2
  <2>3. ASSUME NEW s, SetStatus(actor[a].owner, s) PROVE AbsentIsStopped'
    <3> SUFFICES ASSUME NEW p, p = actor[a].owner PROVE AbsentIsStopped'
      OBVIOUS
    <3> QED
      BY <1>a, <2>1, <2>3
  <2> QED
    BY <2>1, <2>2, <2>3
<1>5. CASE React
  <2>1. UNCHANGED entry
    BY <1>5 DEF React, ReactCrashed, ReactResting, ReactLagged, RescanOne
  <2>2. \/ UNCHANGED status
        \/ \E p \in Proc : Present(p) /\ \E s : status' = [status EXCEPT ![p] = s]
    BY <1>5, HeadEvent DEF React, ReactCrashed, ReactResting, ReactLagged, RescanOne,
                           AutoRestart, Eligible
  <2> QED
    BY <2>1, <2>2, <1>a, <1>0
<1>6. CASE ShutdownStep
  BY <1>0, <1>6 DEF ShutdownStep, ScanPass, EndPass, ReapAttached, ReapMidLaunch
<1>7. CASE Environment
  <2>1. ASSUME NEW p \in Proc, Register(p) PROVE AbsentIsStopped'
    BY <2>1 DEF Register, AbsentIsStopped, Present, TypeOK
  <2>2. ASSUME NEW p \in Proc, Deregister(p) PROVE AbsentIsStopped'
    BY <2>2, <1>b DEF Deregister
  <2>3. ASSUME ~\E p \in Proc : Register(p) \/ Deregister(p) PROVE UNCHANGED <<entry, status>>
    BY <1>7, <2>3 DEF Environment, Age, ChildExits, UpdateCommand, Trust, Untrust, Panic,
                      Overrun, BeginShutdown
  <2> QED
    BY <1>0, <2>1, <2>2, <2>3
<1> QED
  BY <1>1, <1>2, <1>3, <1>4, <1>5, <1>6, <1>7 DEF Next

LEMMA RefineEnvironment ==
  ASSUME NoPanics, TypeOK, AbsentIsStopped, Environment
  PROVE  LifecycleStep
<1> USE DEF registryVars, actorVars, worldVars, reactorVars
<1>1. ASSUME NEW p \in Proc, Register(p) PROVE LifecycleStep
  <2>1. \A q \in Proc : SameOwned(q) /\ SameLiving(q)
    BY <1>1 DEF Register, SameOwned, SameLiving, Owned, Living
  <2>2. /\ Seen(p) = "new" /\ Seen(p)' = "Stopped"
        /\ \A q \in Proc \ {p} : SameSeen(q)
    BY <1>1 DEF Register, Seen, SameSeen, Present, AbsentIsStopped, TypeOK
  <2> QED
    BY <2>1, <2>2, RegisterStep DEF Others
<1>2. ASSUME NEW p \in Proc, Deregister(p) PROVE LifecycleStep
  BY <1>2, RefineRemove DEF Deregister
<1>3. ASSUME NEW p \in Proc, Age(p) PROVE LifecycleStep
  BY <1>3, Unseen DEF Age
<1>4. ASSUME NEW p \in Proc, ChildExits(p) PROVE LifecycleStep
  <2>1. PICK g \in live[p] : live' = [live EXCEPT ![p] = @ \ {g}]
    BY <1>4 DEF ChildExits
  <2>2. (\A q \in Proc : SameSeen(q) /\ SameOwned(q)) /\ \A q \in Proc \ {p} : SameLiving(q)
    BY <1>4, <2>1 DEF ChildExits, SameSeen, SameOwned, SameLiving, Seen, Owned, Living, Present, TypeOK
  <2>3. Living(p)
    BY <2>1 DEF Living
  <2>4. CASE Living(p)'
    BY <2>2, <2>3, <2>4, HiddenStep DEF Hidden, SameLiving
  <2>5. CASE ~Living(p)'
    BY <2>2, <2>3, <2>5, DeathStep DEF Others
  <2> QED
    BY <2>4, <2>5
<1>5. ASSUME NEW p \in Proc, NEW v \in Version, UpdateCommand(p, v) PROVE LifecycleStep
  BY <1>5, Unseen DEF UpdateCommand
<1>6. ASSUME NEW v \in Version, Trust(v) \/ Untrust(v) PROVE LifecycleStep
  BY <1>6, Unseen DEF Trust, Untrust
<1>7. ASSUME NEW a \in Actor, Panic(a) PROVE FALSE
  BY <1>7 DEF Panic, NoPanics
<1>8. CASE Overrun \/ BeginShutdown
  BY <1>8, Unseen DEF Overrun, BeginShutdown
<1> QED
  BY <1>1, <1>2, <1>3, <1>4, <1>5, <1>6, <1>7, <1>8 DEF Environment

LEMMA RefineStep ==
  ASSUME NoPanics, TypeOK, Ownership, PhaseShown, AbsentIsStopped, [Next]_vars
  PROVE  LifecycleStep
<1> USE DEF registryVars, actorVars, worldVars, reactorVars
<1>1. CASE UNCHANGED vars \/ Quit
  BY <1>1, Unseen DEF vars, Quit
<1>2. ASSUME NEW c \in Client, NEW p \in Proc, Command(c, p) PROVE LifecycleStep
  BY <1>2, RefineCommand
<1>3. ASSUME NEW c \in Caller, Continue(c) PROVE LifecycleStep
  BY <1>3, RefineContinue
<1>4. ASSUME NEW a \in Actor, ActorStep(a) PROVE LifecycleStep
  BY <1>4, RefineActor
<1>5. CASE ShutdownStep
  BY <1>5, Unseen DEF ShutdownStep, ScanPass, EndPass, ReapAttached, ReapMidLaunch
<1> QED
  BY <1>1, <1>2, <1>3, <1>4, <1>5, RefineReact, RefineEnvironment DEF Next

LEMMA RefineInit == Init => Lifecycle!Init
<1> SUFFICES ASSUME Init PROVE Lifecycle!Init
  OBVIOUS
<1>1. \A p \in Proc : Owned(p) = FALSE
  BY Zenon, Phases DEF Init, Owned, Asleep, Engaged, Before, Holding
<1>2. [p \in Proc |-> Owned(p)] = [p \in Proc |-> FALSE]
  BY <1>1, Zenon
<1> QED
  BY <1>2 DEF Init, Lifecycle!Init

\* However commands, crashes, relaunches, config reloads and the shutdown
\* interleave, each process behaves as the abstract lifecycle says: one owner at a
\* time, children only under an owner, the status along the state machine's edges,
\* and rest only once the child is gone (process.rs:41, actors.rs:27, actor.rs:150).
THEOREM LifecycleImplementedHolds == ASSUME NoPanics PROVE Spec => LifecycleImplemented
<1>1. Init => AbsentIsStopped
  BY DEF Init, AbsentIsStopped
<1>2. TypeOK /\ Ownership /\ AbsentIsStopped /\ [Next]_vars => AbsentIsStopped'
  BY AbsentStep
<1>3. Spec => []AbsentIsStopped
  BY <1>1, <1>2, TypeCorrect, OwnershipHolds, PTL DEF Spec
<1>4. TypeOK /\ Ownership /\ PhaseShown /\ AbsentIsStopped /\ [Next]_vars
        => [Lifecycle!Next]_Lifecycle!vars
  BY RefineStep DEF LifecycleStep
<1>5. Spec => Lifecycle!Spec
  BY <1>3, <1>4, RefineInit, TypeCorrect, OwnershipHolds, PhaseShownHolds, PTL
     DEF Spec, Lifecycle!Spec
<1> QED
  BY <1>5 DEF LifecycleImplemented

=============================================================================
