\* a delay task with a retry: exclusion, and liveness of runs and delayed runs
SPECIFICATION FairSpec
CONSTANTS
  Tasks = {t1}
  NoTask = NoTask
  Handlers = {h1}
  Runs = {r1, r2}
  Configs <- DelayRetry
  MaxEntries = 1
  MaxLogs = 2
INVARIANTS StrategyExclusion NoTokenLost
PROPERTIES EveryRunEnds DelayedRunProceeds
