CONSTANTS
  Proc = {p1}
  Actor = {a1, a2}
  Group = {g1, g2}
  Client = {c1}
  Reactor = reactor
  Version = {v1}
  AutoVersion = {v1}
  NoActor = NoActor
  NoGroup = NoGroup
  MailboxCap = 1
  MaxRestarts = 10
  MaxIdle = 1
  BusCap = 1
  Allowed = {"start", "stop"}
SPECIFICATION Spec
SYMMETRY TaskSymmetry
PROPERTIES
  OnlyCrashedIsRelaunched
