\* one edge node, a heartbeat and a new key at the same time
SPECIFICATION Spec
CONSTANTS
  NodeIds = {master, n1}
  MasterNode = master
  MasterName = masterName
  NoNode = NoNode
  Names = {a}
  Tasks = {t1}
  NoTask = NoTask
  Handlers = {h1, h2}
  MaxKeys = 2
SYMMETRY Symmetry
PROPERTY KeyChangesOnRequest
\* every node may be deleted and every key made: then nothing is left to do
CHECK_DEADLOCK FALSE
