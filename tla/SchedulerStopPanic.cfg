\* StopTask while a run is under way, and its cleanup
SPECIFICATION Spec
CONSTANTS
  Tasks = {t1}
  NoTask = NoTask
  Handlers = {h1}
  Runs = {r1}
  Configs <- SkipOnly
  MaxEntries = 1
  MaxLogs = 1
INVARIANT CleanupFindsInstance
