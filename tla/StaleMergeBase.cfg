SPECIFICATION Spec
CONSTANTS
  None = None
  Surfaces = {"project"}
  Doc = {1, 2}
  EditorKinds = {"scratchpad", "diagram", "todo", "template"}
  MaxEdits = 3
  MaxActs = 2
  MaxMounts = 2
  Repo = {"r1", "r2"}
  GitPath = {"p1"}
  ReadKinds = {"status", "files", "branches", "template", "diff", "preview", "pull_request", "review"}
  MaxRepoChanges = 2
  MaxMoves = 2
  MaxAsks = 3
  RailProject = {"p1", "p2"}
  RailVerbs = {{"trust", "commit", "draftMessage"}, {"fetch", "stop"}, {"pull", "abortMerge"},
               {"deleteBranch", "stash"}, {"propose", "draftBody"}, {"mergePullRequest", "handOff"},
               {"stageHunk", "discardHunk"}}
  MaxSwitches = 2
  MaxCalls = 2
  MaxWords = 2
  LiveCapacity = 2
  PendingCap = 2
  MaxChunks = 4
  MaxStreams = 3
  MaxGestures = 4
  ThemeId = {1, 2}
  ThemeText = {"a", "b"}
  SettingsDocument = {"sidebar", "tools", "notifications", "groups", "assist", "hotkeys"}
  MaxSettings = 3
  MaxRefusals = 1
  CommandName = {"web", "api"}
  Field = {"command", "auto_start"}
  MaxPageActs = 3
  MaxPageReads = 2
  MaxPageFaults = 1
  DiagramBody = {"a", "broken"}
  Broken = {"broken"}
  Override = {None, "forest"}
  Palette = {"light", "dark"}
  Block = {"b1"}
  CacheSize = 2
  MaxDiagramTurns = 2
  MaxPaletteTurns = 1
INVARIANTS
  MergeBaseIsFresh
CHECK_DEADLOCK FALSE
