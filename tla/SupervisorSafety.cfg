CONSTANTS
  Proc = {p1}
  Actor = {a1, a2}
  Group = {g1, g2}
  Client = {c1}
  Reactor = reactor
  Version = {v1, v2}
  AutoVersion = {v1}
  NoActor = NoActor
  NoGroup = NoGroup
  MailboxCap = 1
  MaxRestarts = 1
  MaxIdle = 1
  BusCap = 1
  Scenes = {"commands", "reload"}
  Allowed = {"start", "startCandidate", "restart", "stop", "close", "deregister", "update",
             "shutdown", "overrun", "age", "spawnFails"}
SPECIFICATION SceneSpec
SYMMETRY TaskSymmetry
INVARIANTS
  TypeOK
  Accounting
  OneLiveChild
  NoChildAbandoned
  RestingIsReaped
  AnnouncedIsRecorded
  OnlyTrustedRuns
PROPERTIES
  LifecycleImplemented
