CONSTANTS
  Proc = {p1}
  Actor = {a1, a2}
  Group = {g1}
  Client = {c1}
  Reactor = reactor
  Version = {v1, v2}
  AutoVersion = {v1}
  NoActor = NoActor
  NoGroup = NoGroup
  MailboxCap = 2
  MaxRestarts = 1
  MaxIdle = 2
  BusCap = 1
  Scenes = {"heal", "quit", "stop", "panic"}
  Allowed = {"start", "restart", "stop", "close", "shutdown", "overrun", "age",
             "recordFails", "panics", "revokes"}
SPECIFICATION FairSceneSpec
PROPERTIES
  CrashIsHealed
  StopEndsActor
  ClosedIsReaped
  ShutdownReturns
