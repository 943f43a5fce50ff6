\* two edge nodes, two names, two requests at the same time
SPECIFICATION Spec
CONSTANTS
  NodeIds = {master, n1, n2}
  MasterNode = master
  MasterName = masterName
  NoNode = NoNode
  Names = {a, b}
  Tasks = {t1}
  NoTask = NoTask
  Handlers = {h1, h2}
  MaxKeys = 3
SYMMETRY Symmetry
INVARIANTS TypeOK KeysNeverShared FiledUnderOwnNode LiveNamesDistinct
PROPERTY DeletedForGood
\* every node may be deleted and every key made: then nothing is left to do
CHECK_DEADLOCK FALSE
