CONSTANTS
  Proc = {p1, p2}
  Actor = {a1, a2, a3}
  Group = {g1, g2}
  Client = {c1}
  Reactor = reactor
  Version = {v1}
  AutoVersion = {}
  NoActor = NoActor
  NoGroup = NoGroup
  MailboxCap = 1
  MaxRestarts = 1
  MaxIdle = 1
  BusCap = 1
  Scenes = {"pair"}
  Allowed = {"start", "stop", "close", "shutdown"}
SPECIFICATION SceneSpec
SYMMETRY PairSymmetry
INVARIANTS
  PgidIsOwnChild
  RemovedIsReaped
  ShutdownReapsAll
