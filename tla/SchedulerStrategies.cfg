\* one task of this node, of an edge node or of an unknown one, with retries,
\* kills, edits and crashes
SPECIFICATION Spec
CONSTANTS
  Tasks = {t1}
  NoTask = NoTask
  Handlers = {h1}
  Runs = {r1, r2}
  Configs <- NodeConfigs
  MaxEntries = 2
  MaxLogs = 2
SYMMETRY RunSymmetry
INVARIANTS TypeOK StrategyExclusion RunningRowHasRun NoOtherLeak NoTokenLost AttemptsRight EveryEntryListed
PROPERTY FollowsTable
