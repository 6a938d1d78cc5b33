------------------------- MODULE MCSupervisorScenes -------------------------
(***************************************************************************)
(* Several instances of Supervisor in one run.  A behaviour plays one      *)
(* scene, which says what may happen to the supervisor in it and which     *)
(* launch specs are dealt; every step of it is a step of Supervisor.       *)
(***************************************************************************)
EXTENDS MCSupervisor

CONSTANTS Scenes
VARIABLE scene

sceneVars == <<vars, scene>>

\* The specs of a scene: all of them where solo.yml is reloaded, none that
\* declares auto_restart where the reactor is to be idle, else those alone.
Idling == {"stop", "panic", "pair"}
Dealt ==
  CASE scene = "reload" -> Version
    [] scene \in Idling -> Version \ AutoVersion
    [] OTHER -> AutoVersion

SceneInit ==
  /\ Init
  /\ scene \in Scenes
  /\ spec \in [Proc -> Dealt]
  /\ trusted \subseteq Dealt

\* A step that belongs to these scenes.  Where there is nothing to heal the
\* reactor keeps up with the bus.
In(scenes) ==
  /\ scene \in scenes
  /\ scene \in Idling => events = <<>> /\ ~lagged /\ rescan = {}
  /\ UNCHANGED scene

\* What goes on in every scene: the threads the calls and the launches start.
Threads ==
  \/ \E c \in Caller :
       \/ In(Scenes) /\ Claim(c)
       \/ In(Scenes) /\ ClaimRefused(c)
       \/ In(Scenes) /\ Attach(c)
       \/ In(Scenes) /\ Signal(c)
       \/ In(Scenes) /\ FinishClose(c)
  \/ \E a \in Actor :
       \/ In(Scenes) /\ (QuitBeforeSpawn(a) \/ GoSpawn(a))
       \/ In(Scenes) /\ Spawn(a)
       \/ In(Scenes) /\ SpawnFails(a)
       \/ In(Scenes) /\ (Record(a) \/ SetPgid(a) \/ Announce(a))
       \/ In(Scenes) /\ ObserveExit(a)
       \/ In(Scenes) /\ TakeStop(a)
       \/ In(Scenes) /\ TakeRestart(a)
       \/ In(Scenes) /\ (Reap(a) \/ Forget(a))
       \/ In(Scenes) /\ (Settle(a) \/ Finish(a))
       \/ In(Scenes) /\ Respawn(a)
       \/ In(Scenes) /\ HandlePanic(a)
  \/ UNCHANGED scene /\ (ReactCrashed \/ ReactResting)
  \/ UNCHANGED scene /\ ReactLagged
  \/ \E p \in Proc : UNCHANGED scene /\ RescanOne(p)
  \/ In(Scenes) /\ (ScanPass \/ EndPass)
  \/ \E p \in Proc :
       \/ In(Scenes) /\ ReapAttached(p)
       \/ In(Scenes) /\ ReapMidLaunch(p)
  \/ In(Scenes) /\ Quit

\* What the users do and what happens to the system, scene by scene: every
\* command; a reload of solo.yml around the trust check and the claim; a crash
\* to be healed, whatever the bus dropped; a quit in the middle of a relaunch;
\* stops and closes in every phase of an actor; a panic, and trust taken back;
\* two processes that are stopped, closed and shut down together.
Played ==
  \/ \E c \in Client, p \in Proc :
       \/ In(Scenes) /\ Start(c, p)
       \/ In({"commands"}) /\ StartCandidate(c, p)
       \/ In({"commands", "stop"}) /\ Restart(c, p)
       \/ In({"commands", "stop", "pair"}) /\ Stop(c, p)
       \/ In({"commands", "stop", "pair"}) /\ Close(c, p)
  \/ \E p \in Proc :
       \/ In(Scenes) /\ Register(p)
       \/ In(Scenes) /\ ChildExits(p)
       \/ In({"commands"}) /\ Deregister(p)
       \/ In({"commands", "heal"}) /\ Age(p)
       \/ \E v \in Version : In({"reload"}) /\ UpdateCommand(p, v)
  \/ \E v \in Version :
       \/ In(Scenes) /\ v \in Dealt /\ Trust(v)
       \/ In({"panic"}) /\ v \in Dealt /\ Untrust(v)
  \/ \E a \in Actor : In({"panic"}) /\ Panic(a)
  \/ In({"commands", "heal", "quit"}) /\ Overrun
  \/ In({"commands", "quit", "pair"}) /\ BeginShutdown

SceneNext == Threads \/ Played

SceneSpec == SceneInit /\ [][SceneNext]_sceneVars
FairSceneSpec == SceneSpec /\ Fairness

=============================================================================
