\* two StartTask requests at a time
SPECIFICATION Spec
CONSTANTS
  Tasks = {t1}
  NoTask = NoTask
  Handlers = {h1, h2}
  Runs = {r1}
  Configs <- SkipOnly
  MaxEntries = 2
  MaxLogs = 0
INVARIANT NoSecondInstance
