SPECIFICATION Spec
CONSTANTS
  None = None
  Surfaces = {"reads", "navigation", "trust", "leftovers"}
  Id = {1}
  Rereads = {"attention", "projects", "lineage", "orchestration"}
  Order = {"o1", "o2"}
  Mounts = {{"list"}, {"attention"}, {"projects"}, {"lineage"}, {"orchestration"}, {"badges"}}
  BufferCap = 1
  MaxChanges = 3
  MaxReads = 3
  MaxFaults = 1
  NavId = {1, 2, 3}
  alpha = alpha
  beta = beta
  NavProject = {alpha, beta}
  Shape <- MCShape
  Lead <- MCLead
  PoolCap = 2
  MaxListChanges = 3
  MaxIntents = 3
  TProject = {alpha, beta}
  Name = {"web", "api"}
  Variant = {"v1", "v2"}
  Request = {1}
  MaxEdits = 1
  MaxCalls = 2
  Entry = {1, 2}
  Group = {11, 12}
  Key = {"k1"}
  MaxRuns = 2
  MaxReconciles = 2
INVARIANTS
  WindowTypeOK
  SettledIsCore
  NeverBackToParted
  PoolKeepsRecent
  OnlyReviewedTrusted
PROPERTIES
  ListCatchesUp
  ShownNeverRegresses
  LeavesVanished
  PromptLeavesDecided
  LeftoversHold
CHECK_DEADLOCK FALSE
