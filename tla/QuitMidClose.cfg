CONSTANTS
  Proc = {p1}
  Actor = {a1, a2}
  Group = {g1, g2}
  Client = {c1}
  Reactor = reactor
  Version = {v1}
  AutoVersion = {}
  NoActor = NoActor
  NoGroup = NoGroup
  MailboxCap = 1
  MaxRestarts = 1
  MaxIdle = 1000
  BusCap = 1
  Allowed = {"start", "close", "shutdown", "midClose"}
SPECIFICATION Spec
SYMMETRY TaskSymmetry
INVARIANTS
  ShutdownReapsAll
