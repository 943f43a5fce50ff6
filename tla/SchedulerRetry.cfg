\* RetryTimes = 127
SPECIFICATION Spec
CONSTANTS
  Tasks = {t1}
  NoTask = NoTask
  Handlers = {h1}
  Runs = {r1}
  Configs <- WrappingRetry
  MaxEntries = 1
  MaxLogs = 1
INVARIANT AttemptsRight
