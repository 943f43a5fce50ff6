\* two tasks, one depending on the other
SPECIFICATION Spec
CONSTANTS
  Tasks = {t1, t2}
  NoTask = NoTask
  Handlers = {h1}
  Runs = {r1}
  Configs <- DependencyConfigs
  MaxEntries = 1
  MaxLogs = 2
INVARIANTS DependentAfterSuccess DependencyKnown
PROPERTIES ImplementsJournal ImportKeepsGraph
