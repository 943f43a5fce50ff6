---------------------------- MODULE NodesProofs ----------------------------
(***************************************************************************)
(* Theorems about Nodes, for every set of nodes, names, tasks and requests *)
(* and for every number of keys.                                           *)
(***************************************************************************)
EXTENDS Nodes, TLAPS

USE NodesAssumption

LEMMA IdleType == Idle \in Req /\ NoRow \in Row /\ NoFile \in File
BY DEF Idle, Req, NoRow, Row, NoFile, File, Pc, Op, NameOrNone

LEMMA InitType == Init => TypeOK
<1> SUFFICES ASSUME Init PROVE TypeOK
  OBVIOUS
<1>1. node \in [NodeIds -> Row]
  BY IdleType DEF Init, Row, NoRow, NameOrNone, NoKey
<1>2. req \in [Handlers -> Req] /\ filed \in File
  BY IdleType DEF Init
<1>3. QED
  BY <1>1, <1>2 DEF Init, TypeOK, Assignment, Key

(* A request's record stays a record of its type.                          *)
LEMMA AcceptType ==
  ASSUME TypeOK, NEW h \in Handlers, NEW op \in Op, NEW pc \in Pc,
         NEW n \in NodeIds \cup {NoNode}, NEW snap \in Row, Accept(h, op, pc, n, snap)
  PROVE  req' \in [Handlers -> Req]
<1>1. [Idle EXCEPT !.pc = pc, !.op = op, !.node = n, !.snap = snap] \in Req
  BY IdleType DEF Req
<1>2. QED
  BY <1>1 DEF Accept, TypeOK

LEMMA MoveType ==
  ASSUME TypeOK, NEW h \in Handlers,
         Respond(h) \/ \E pc \in Pc : Goto(h, pc)
  PROVE  req' \in [Handlers -> Req]
<1>1. CASE Respond(h)
  BY <1>1, IdleType DEF Respond, TypeOK
<1>2. ASSUME NEW pc \in Pc, Goto(h, pc) PROVE req' \in [Handlers -> Req]
  <2>1. [req[h] EXCEPT !.pc = pc] \in Req
    BY DEF TypeOK, Req
  <2>2. QED
    BY <1>2, <2>1 DEF Goto, TypeOK
<1>3. QED
  BY <1>1, <1>2

LEMMA AdministerType ==
  ASSUME TypeOK, NEW h \in Handlers, Administer(h)
  PROVE  TypeOK'
<1> USE DEF rowVars, keyVars
<1>1. ASSUME NEW name \in Names, AddNode(h, name) PROVE TypeOK'
  <2>1. [NoRow EXCEPT !.name = name] \in Row
    BY IdleType DEF Row, NameOrNone
  <2>2. req' \in [Handlers -> Req]
    BY <1>1, <2>1, AcceptType DEF AddNode, Op, Pc
  <2>3. QED
    BY <1>1, <2>2 DEF AddNode, TypeOK
<1>2. ASSUME NEW name \in Names, DeployNewNode(h, name) PROVE TypeOK'
  <2>1. [NoRow EXCEPT !.name = name] \in Row
    BY IdleType DEF Row, NameOrNone
  <2>2. req' \in [Handlers -> Req]
    BY <1>2, <2>1, AcceptType DEF DeployNewNode, Op, Pc
  <2>3. QED
    BY <1>2, <2>2 DEF DeployNewNode, TypeOK
<1>3. ASSUME NEW n \in NodeIds, NEW name \in Names, EditNode(h, n, name) PROVE TypeOK'
  <2>1. [node[n] EXCEPT !.name = name] \in Row
    BY DEF TypeOK, Row, NameOrNone
  <2>2. req' \in [Handlers -> Req]
    BY <1>3, <2>1, AcceptType DEF EditNode, Op, Pc
  <2>3. QED
    BY <1>3, <2>2 DEF EditNode, TypeOK
<1>4. ASSUME NEW n \in NodeIds, DeleteNode(h, n) PROVE TypeOK'
  <2>1. req' \in [Handlers -> Req]
    BY <1>4, IdleType, AcceptType DEF DeleteNode, Op, Pc
  <2>2. QED
    BY <1>4, <2>1 DEF DeleteNode, TypeOK
<1>5. ASSUME NEW n \in NodeIds, RegenerateNodeKey(h, n) PROVE TypeOK'
  <2>1. nextKey \in Key
    BY <1>5 DEF RegenerateNodeKey, TypeOK, Key
  <2>2. [node[n] EXCEPT !.key = nextKey] \in Row
    BY <2>1 DEF TypeOK, Row
  <2>3. req' \in [Handlers -> Req]
    BY <1>5, <2>2, AcceptType DEF RegenerateNodeKey, Op, Pc
  <2>4. QED
    BY <1>5, <2>1, <2>3 DEF RegenerateNodeKey, TypeOK, Key
<1>6. ASSUME NEW n \in NodeIds, DeployNode(h, n) PROVE TypeOK'
  <2>1. req' \in [Handlers -> Req]
    BY <1>6, AcceptType DEF DeployNode, Op, Pc, TypeOK
  <2>2. QED
    BY <1>6, <2>1 DEF DeployNode, TypeOK
<1>7. ASSUME NEW t \in Tasks, NEW n \in NodeIds \cup {NoNode}, EditTask(h, t, n)
      PROVE  TypeOK'
  <2>1. [Idle EXCEPT !.pc = "assign", !.op = "assign", !.node = n, !.task = t] \in Req
    BY IdleType DEF Req, Op, Pc
  <2>2. req' \in [Handlers -> Req]
    BY <1>7, <2>1 DEF EditTask, TypeOK
  <2>3. QED
    BY <1>7, <2>2 DEF EditTask, TypeOK
<1>8. QED
  BY <1>1, <1>2, <1>3, <1>4, <1>5, <1>6, <1>7 DEF Administer

LEMMA CallType ==
  ASSUME TypeOK, NEW h \in Handlers, Call(h)
  PROVE  TypeOK'
<1> USE DEF rowVars, keyVars
<1> SUFFICES ASSUME NEW k \in Key \cup {NoKey}, NEW n \in NodeIds, KeyHolder(k, n),
                    UNCHANGED <<node, rowVars, keyVars>>,
                    \/ Accept(h, "heartbeat", "save", n, node[n])
                    \/ req' = [req EXCEPT ![h] = [Idle EXCEPT !.pc = "row", !.op = "events",
                                                              !.node = n, !.key = k]]
                    \/ \E t \in Tasks :
                         req' = [req EXCEPT ![h] = [Idle EXCEPT !.pc = "task", !.op = "report",
                                                      !.node = n, !.key = k, !.task = t]]
             PROVE  TypeOK'
  BY DEF Call, AgentHeartbeat, AgentReportEvents, AgentReportTaskResult
<1>1. req' \in [Handlers -> Req]
  <2>1. CASE Accept(h, "heartbeat", "save", n, node[n])
    BY <2>1, AcceptType DEF Op, Pc, TypeOK
  <2>2. [Idle EXCEPT !.pc = "row", !.op = "events", !.node = n, !.key = k] \in Req
    BY IdleType DEF Req, Op, Pc
  <2>3. ASSUME NEW t \in Tasks
        PROVE  [Idle EXCEPT !.pc = "task", !.op = "report", !.node = n, !.key = k,
                            !.task = t] \in Req
    BY IdleType DEF Req, Op, Pc
  <2>4. QED
    BY <2>1, <2>2, <2>3 DEF TypeOK
<1>2. QED
  BY <1>1 DEF TypeOK

LEMMA ServeType ==
  ASSUME TypeOK, ReportsKnowNode, NEW h \in Handlers, Serve(h)
  PROVE  TypeOK'
<1> USE DEF rowVars, keyVars
<1>1. CASE CheckName(h)
  <2>1. req' \in [Handlers -> Req]
    BY <1>1, MoveType DEF CheckName, Pc
  <2>2. QED
    BY <1>1, <2>1 DEF CheckName, TypeOK
<1>2. CASE CreateNode(h)
  <2>1. req' \in [Handlers -> Req]
    <3>1. [Idle EXCEPT !.pc = "commands", !.op = "deployNew"] \in Req
      BY IdleType DEF Req, Pc, Op
    <3>2. QED
      BY <1>2, <3>1, MoveType DEF CreateNode, TypeOK
  <2>2. CASE UNCHANGED <<node, keyVars>>
    BY <1>2, <2>1, <2>2 DEF CreateNode, TypeOK
  <2>3. ASSUME NEW n \in NodeIds, nextKey <= MaxKeys,
               node' = [node EXCEPT ![n] = [state |-> "live", name |-> req[h].snap.name,
                                            key |-> nextKey]],
               issued' = [issued EXCEPT ![nextKey] = n], nextKey' = nextKey + 1
        PROVE  TypeOK'
    <3>1. nextKey \in Key
      BY <2>3 DEF TypeOK, Key
    <3>2. [state |-> "live", name |-> req[h].snap.name, key |-> nextKey] \in Row
      BY <3>1 DEF TypeOK, Req, Row
    <3>3. node' \in [NodeIds -> Row]
      BY <2>3, <3>2 DEF TypeOK
    <3>4. issued' \in [Key -> NodeIds \cup {NoNode}] /\ nextKey' \in 1..(MaxKeys + 1)
      BY <2>3, <3>1 DEF TypeOK, Key
    <3>5. QED
      BY <1>2, <2>1, <3>3, <3>4 DEF CreateNode, TypeOK
  <2>4. QED
    BY <1>2, <2>2, <2>3 DEF CreateNode
<1>3. CASE DeployCommands(h)
  <2>1. req' \in [Handlers -> Req]
    BY <1>3, MoveType DEF DeployCommands, Pc
  <2>2. QED
    BY <1>3, <2>1 DEF DeployCommands, TypeOK
<1>4. CASE SaveNode(h)
  <2>1. req' \in [Handlers -> Req]
    BY <1>4, MoveType DEF SaveNode
  <2>2. req[h].snap \in Row
    BY DEF TypeOK, Req
  <2>3. node' \in [NodeIds -> Row]
    BY <1>4, <2>2 DEF SaveNode, TypeOK
  <2>4. QED
    BY <1>4, <2>1, <2>3 DEF SaveNode, TypeOK
<1>5. CASE CountTasks(h)
  <2>1. req' \in [Handlers -> Req]
    BY <1>5, MoveType DEF CountTasks, Pc
  <2>2. QED
    BY <1>5, <2>1 DEF CountTasks, TypeOK
<1>6. CASE MarkDeleted(h)
  <2>1. req' \in [Handlers -> Req]
    BY <1>6, MoveType DEF MarkDeleted
  <2>2. ASSUME NEW n \in NodeIds PROVE [node[n] EXCEPT !.state = "deleted"] \in Row
    BY DEF TypeOK, Row
  <2>3. node' \in [NodeIds -> Row]
    BY <1>6, <2>2 DEF MarkDeleted, TypeOK
  <2>4. QED
    BY <1>6, <2>1, <2>3 DEF MarkDeleted, TypeOK
<1>7. CASE AssignTask(h)
  <2>1. req' \in [Handlers -> Req]
    BY <1>7, MoveType DEF AssignTask
  <2>2. req[h].node \in NodeIds \cup {NoNode}
    BY DEF TypeOK, Req
  <2>3. task' \in [Tasks -> Assignment]
    BY <1>7, <2>2 DEF AssignTask, TypeOK, Assignment
  <2>4. assigned' \in SUBSET (Tasks \X NodeIds)
    BY <1>7, <2>2 DEF AssignTask, ReportsKnowNode, TypeOK
  <2>5. QED
    BY <1>7, <2>1, <2>3, <2>4 DEF AssignTask, TypeOK
<1>8. CASE CheckReportedTask(h)
  <2>1. req' \in [Handlers -> Req]
    BY <1>8, MoveType DEF CheckReportedTask, Pc
  <2>2. QED
    BY <1>8, <2>1 DEF CheckReportedTask, TypeOK
<1>9. CASE CreateReport(h)
  <2>1. req' \in [Handlers -> Req]
    BY <1>9, MoveType DEF CreateReport
  <2>2. filed' \in File
    BY <1>9 DEF CreateReport, ReportsKnowNode, KeyOf, At, File
  <2>3. QED
    BY <1>9, <2>1, <2>2 DEF CreateReport, TypeOK
<1>10. CASE CreateEvent(h)
  <2>1. req' \in [Handlers -> Req]
    BY <1>10, MoveType DEF CreateEvent
  <2>2. filed' \in File
    BY <1>10 DEF CreateEvent, ReportsKnowNode, KeyOf, At, File
  <2>3. QED
    BY <1>10, <2>1, <2>2 DEF CreateEvent, TypeOK
<1>11. QED
  BY <1>1, <1>2, <1>3, <1>4, <1>5, <1>6, <1>7, <1>8, <1>9, <1>10 DEF Serve

LEMMA NextType ==
  ASSUME TypeOK, ReportsKnowNode, [Next]_vars
  PROVE  TypeOK'
<1>1. ASSUME NEW h \in Handlers, Administer(h) \/ Call(h) \/ Serve(h) PROVE TypeOK'
  BY <1>1, AdministerType, CallType, ServeType
<1>2. ASSUME NEW t \in Tasks, NEW n \in NodeIds \cup {NoNode}, AddTask(t, n) PROVE TypeOK'
  BY <1>2 DEF AddTask, TypeOK, Assignment, keyVars
<1>3. ASSUME NEW t \in Tasks, DeleteTask(t) PROVE TypeOK'
  BY <1>3 DEF DeleteTask, TypeOK, Assignment, keyVars
<1>4. CASE Crash
  BY <1>4, IdleType DEF Crash, TypeOK, rowVars, keyVars
<1>5. CASE UNCHANGED vars
  BY <1>5 DEF vars, TypeOK
<1>6. QED
  BY <1>1, <1>2, <1>3, <1>4, <1>5 DEF Next

(***************************************************************************)
(* What a step may do to the table of nodes and to the keys.               *)
(***************************************************************************)

(* A key once made stays made for its node.                                *)
LEMMA KeysKept ==
  ASSUME TypeOK, [Next]_vars, NEW k, NEW n, KeyOf(k, n)
  PROVE  k \in Key /\ k < nextKey' /\ issued'[k] = n
<1>1. CASE UNCHANGED keyVars
  BY <1>1 DEF KeyOf, keyVars
<1>2. CASE ~UNCHANGED keyVars
  <2>1. PICK m \in NodeIds : /\ issued' = [issued EXCEPT ![nextKey] = m]
                             /\ nextKey' = nextKey + 1
    BY <1>2 DEF Next, vars, Administer, Call, Serve, AddNode, DeployNewNode, EditNode,
         DeleteNode, RegenerateNodeKey, DeployNode, EditTask, AgentHeartbeat,
         AgentReportEvents, AgentReportTaskResult, CheckName, CreateNode, DeployCommands,
         SaveNode, CountTasks, MarkDeleted, AssignTask, CheckReportedTask, CreateReport,
         CreateEvent, AddTask, DeleteTask, Crash, keyVars
  <2>2. QED
    BY <2>1 DEF KeyOf, TypeOK, Key
<1>3. QED
  BY <1>1, <1>2

(* The table changes by three statements.                                  *)
LEMMA TableSteps ==
  ASSUME [Next]_vars
  PROVE  \/ UNCHANGED node
         \/ \E h \in Handlers : CreateNode(h) \/ SaveNode(h) \/ MarkDeleted(h)
BY DEF Next, vars, Administer, Call, Serve, AddNode, DeployNewNode, EditNode,
       DeleteNode, RegenerateNodeKey, DeployNode, EditTask, AgentHeartbeat,
       AgentReportEvents, AgentReportTaskResult, CheckName, DeployCommands,
       CountTasks, AssignTask, CheckReportedTask, CreateReport,
       CreateEvent, AddTask, DeleteTask, Crash, rowVars

(* A row never disappears.                                                 *)
LEMMA RowsStay ==
  ASSUME TypeOK, CopiesOwnKeys, [Next]_vars, NEW n \in NodeIds, node[n].state # "none"
  PROVE  node'[n].state # "none"
<1>1. CASE UNCHANGED node
  BY <1>1
<1>2. ASSUME NEW h \in Handlers, CreateNode(h) PROVE node'[n].state # "none"
  BY <1>2 DEF CreateNode, TypeOK
<1>3. ASSUME NEW h \in Handlers, SaveNode(h) PROVE node'[n].state # "none"
  <2>1. req[h].snap.state = "live"
    BY <1>3 DEF SaveNode, CopiesOwnKeys, HasCopy
  <2>2. QED
    BY <1>3, <2>1 DEF SaveNode, TypeOK
<1>4. ASSUME NEW h \in Handlers, MarkDeleted(h) PROVE node'[n].state # "none"
  BY <1>4 DEF MarkDeleted, Live, TypeOK, Row
<1>5. QED
  BY <1>1, <1>2, <1>3, <1>4, TableSteps

LEMMA RowsKeepKeys ==
  ASSUME TypeOK, KeyInv, [Next]_vars
  PROVE  RowsOwnKeys'
<1> SUFFICES ASSUME NEW n \in NodeIds, node'[n].state # "none"
             PROVE  IF n = MasterNode THEN node'[n].key = NoKey
                    ELSE /\ node'[n].key \in Key /\ node'[n].key < nextKey'
                         /\ issued'[node'[n].key] = n
  BY DEF RowsOwnKeys, KeyOf
<1>1. CASE node[n].state # "none" /\ node'[n].key = node[n].key
  BY <1>1, KeysKept DEF KeyInv, RowsOwnKeys
<1>2. ASSUME NEW h \in Handlers, CreateNode(h),
             node[n].state = "none" \/ node'[n].key # node[n].key
      PROVE  /\ n # MasterNode /\ node'[n].key \in Key
             /\ node'[n].key < nextKey' /\ issued'[node'[n].key] = n
  <2>1. /\ node[n].state = "none" /\ node'[n].key = nextKey
        /\ issued' = [issued EXCEPT ![nextKey] = n]
        /\ nextKey' = nextKey + 1 /\ nextKey <= MaxKeys
    BY <1>2 DEF CreateNode, TypeOK
  <2>2. QED
    BY <2>1 DEF KeyInv, MasterStays, KeyOf, TypeOK, Key
<1>3. ASSUME NEW h \in Handlers, SaveNode(h),
             node[n].state = "none" \/ node'[n].key # node[n].key
      PROVE  /\ n # MasterNode /\ node'[n].key \in Key
             /\ node'[n].key < nextKey' /\ issued'[node'[n].key] = n
  <2>1. n = req[h].node /\ node'[n] = req[h].snap
    BY <1>3 DEF SaveNode, TypeOK
  <2>2. n # MasterNode /\ KeyOf(req[h].snap.key, n)
    BY <1>3, <2>1 DEF SaveNode, KeyInv, CopiesOwnKeys, HasCopy
  <2>3. QED
    BY <2>1, <2>2, KeysKept
<1>4. ASSUME NEW h \in Handlers, MarkDeleted(h) \/ UNCHANGED node
      PROVE  node[n].state # "none" /\ node'[n].key = node[n].key
  BY <1>4 DEF MarkDeleted, Live, TypeOK, Row
<1>5. CASE UNCHANGED node
  BY <1>1, <1>5
<1>6. QED
  BY <1>1, <1>2, <1>3, <1>4, <1>5, TableSteps

(***************************************************************************)
(* What a step may do to a request.                                        *)
(***************************************************************************)
LEMMA RequestSteps ==
  ASSUME TypeOK, [Next]_vars, NEW h \in Handlers, req'[h] # req[h]
  PROVE  Administer(h) \/ Call(h) \/ Serve(h) \/ req'[h] = Idle
<1>1. CASE Crash
  BY <1>1 DEF Crash
<1>2. ASSUME NEW g \in Handlers, Administer(g), g # h PROVE FALSE
  BY <1>2 DEF Administer, AddNode, DeployNewNode, EditNode, DeleteNode,
       RegenerateNodeKey, DeployNode, EditTask, Accept, TypeOK
<1>3. ASSUME NEW g \in Handlers, Call(g), g # h PROVE FALSE
  BY <1>3 DEF Call, AgentHeartbeat, AgentReportEvents, AgentReportTaskResult, Accept, TypeOK
<1>4. ASSUME NEW g \in Handlers, Serve(g), g # h PROVE FALSE
  BY <1>4 DEF Serve, CheckName, CreateNode, DeployCommands, SaveNode, CountTasks,
       MarkDeleted, AssignTask, CheckReportedTask, CreateReport, CreateEvent, Goto,
       Respond, TypeOK
<1>5. ASSUME NEW t \in Tasks, DeleteTask(t) PROVE FALSE
  BY <1>5 DEF DeleteTask
<1>6. ASSUME NEW t \in Tasks, NEW n \in NodeIds \cup {NoNode}, AddTask(t, n) PROVE FALSE
  BY <1>6 DEF AddTask
<1>7. CASE UNCHANGED vars
  BY <1>7 DEF vars
<1>8. QED
  BY <1>1, <1>2, <1>3, <1>4, <1>5, <1>6, <1>7 DEF Next

LEMMA AcceptSteps ==
  ASSUME TypeOK, NEW h \in Handlers, NEW op, NEW pc, NEW n, NEW snap, Accept(h, op, pc, n, snap)
  PROVE  /\ req'[h].pc = pc /\ req'[h].op = op /\ req'[h].node = n /\ req'[h].snap = snap
         /\ req'[h].key = NoKey /\ req'[h].task = NoTask
BY DEF Accept, TypeOK, Idle

(* Where a copy comes from.                                                *)
SameCopy(h) ==
  HasCopy(h) /\ req'[h].node = req[h].node /\ req'[h].op = req[h].op /\ req'[h].snap = req[h].snap
NewCopy(h) ==
  /\ Edge(req'[h].node) /\ req'[h].node \in NodeIds
  /\ req'[h].snap.state = "live"
  /\ UNCHANGED node
  /\ \/ req'[h].op # "regenerate" /\ req'[h].snap.key = node[req'[h].node].key
     \/ /\ req'[h].op = "regenerate" /\ req'[h].snap.key = nextKey
        /\ RegenerateNodeKey(h, req'[h].node)

LEMMA CopySteps ==
  ASSUME TypeOK, KeyInv, [Next]_vars, NEW h \in Handlers, HasCopy(h)'
  PROVE  SameCopy(h) \/ NewCopy(h)
<1>1. CASE req'[h] = req[h]
  BY <1>1 DEF HasCopy, At, SameCopy
<1>2. CASE req'[h] # req[h] /\ Administer(h)
  <2>1. ASSUME NEW n \in NodeIds, NEW name \in Names, EditNode(h, n, name)
        PROVE  NewCopy(h)
    <3>1. /\ req'[h].node = n /\ req'[h].snap = [node[n] EXCEPT !.name = name]
          /\ req'[h].op = "edit"
      BY <2>1, AcceptSteps DEF EditNode
    <3>2. Edge(n) /\ node[n] \in Row /\ node' = node
      BY <2>1 DEF EditNode, TypeOK
    <3>3. QED
      BY <3>1, <3>2 DEF NewCopy, Edge, Live, Row
  <2>2. ASSUME NEW n \in NodeIds, RegenerateNodeKey(h, n)
        PROVE  NewCopy(h)
    <3>1. /\ req'[h].node = n /\ req'[h].snap = [node[n] EXCEPT !.key = nextKey]
          /\ req'[h].op = "regenerate"
      BY <2>2, AcceptSteps DEF RegenerateNodeKey
    <3>2. Edge(n) /\ node[n] \in Row /\ node' = node
      BY <2>2 DEF RegenerateNodeKey, TypeOK
    <3>3. QED
      BY <2>2, <3>1, <3>2 DEF NewCopy, Edge, Live, Row
  <2>3. ASSUME NEW n \in NodeIds, DeployNode(h, n)
        PROVE  NewCopy(h)
    BY <2>3, AcceptSteps DEF DeployNode, NewCopy, Edge, Live
  <2>4. ASSUME NEW name \in Names, AddNode(h, name) \/ DeployNewNode(h, name) PROVE FALSE
    BY <2>4, AcceptSteps DEF AddNode, DeployNewNode, HasCopy, At
  <2>5. ASSUME NEW n \in NodeIds, DeleteNode(h, n) PROVE FALSE
    BY <2>5, AcceptSteps DEF DeleteNode, HasCopy, At
  <2>6. ASSUME NEW t \in Tasks, NEW n \in NodeIds \cup {NoNode}, EditTask(h, t, n) PROVE FALSE
    BY <2>6 DEF EditTask, HasCopy, At, Idle, TypeOK
  <2>7. QED
    BY <1>2, <2>1, <2>2, <2>3, <2>4, <2>5, <2>6 DEF Administer
<1>3. CASE req'[h] # req[h] /\ Call(h)
  <2>1. ASSUME NEW n \in NodeIds, NEW k, KeyHolder(k, n), UNCHANGED node,
               Accept(h, "heartbeat", "save", n, node[n])
        PROVE  NewCopy(h)
    <3>1. req'[h].node = n /\ req'[h].snap = node[n] /\ req'[h].op = "heartbeat"
      BY <2>1, AcceptSteps
    <3>2. Edge(n)
      BY <2>1 DEF KeyHolder, Edge, Live, KeyInv, RowsOwnKeys
    <3>3. QED
      BY <2>1, <3>1, <3>2 DEF NewCopy, Edge, Live
  <2>2. ASSUME NEW k, AgentReportEvents(h, k) PROVE FALSE
    BY <2>2 DEF AgentReportEvents, HasCopy, At, Idle, TypeOK
  <2>3. ASSUME NEW k, NEW t \in Tasks, AgentReportTaskResult(h, k, t) PROVE FALSE
    BY <2>3 DEF AgentReportTaskResult, HasCopy, At, Idle, TypeOK
  <2>4. QED
    BY <1>3, <2>1, <2>2, <2>3 DEF Call, AgentHeartbeat
<1>4. CASE req'[h] # req[h] /\ Serve(h)
  <2>1. ASSUME NEW pc \in Pc, Goto(h, pc), HasCopy(h)
        PROVE  SameCopy(h)
    BY <2>1 DEF Goto, TypeOK, Req, SameCopy
  <2>2. CASE CheckName(h) /\ req[h].op = "edit"
    BY <2>1, <2>2 DEF CheckName, HasCopy, At, Pc, Respond, Idle, TypeOK
  <2>3. CASE CheckName(h) /\ req[h].op # "edit"
    BY <2>3 DEF CheckName, HasCopy, At, Goto, Respond, Idle, TypeOK, Req
  <2>4. CASE DeployCommands(h)
    BY <2>1, <2>4 DEF DeployCommands, HasCopy, At, Pc, Respond, Idle, TypeOK
  <2>5. ASSUME Respond(h) \/ Goto(h, "delete") \/ Goto(h, "row")
        PROVE  FALSE
    BY <2>5 DEF HasCopy, At, Goto, Respond, Idle, TypeOK, Req
  <2>6. CASE CreateNode(h) /\ ~Respond(h)
    <3>1. req'[h] = [Idle EXCEPT !.pc = "commands", !.op = "deployNew"]
      BY <2>6 DEF CreateNode, TypeOK
    <3>2. QED
      BY <3>1 DEF HasCopy, At, Idle
  <2>7. QED
    BY <1>4, <2>2, <2>3, <2>4, <2>5, <2>6 DEF Serve, SaveNode, CountTasks, MarkDeleted,
         AssignTask, CheckReportedTask, CreateReport, CreateEvent
<1>5. CASE req'[h] = Idle
  BY <1>5 DEF HasCopy, At, Idle
<1>6. QED
  BY <1>1, <1>2, <1>3, <1>4, <1>5, RequestSteps

(* A copy of a row of its node has a key made for it.                      *)
LEMMA CopiesKeepKeys ==
  ASSUME TypeOK, KeyInv, [Next]_vars
  PROVE  CopiesOwnKeys'
<1> DEFINE Good(n, snap) == /\ n \in NodeIds \ {MasterNode}
                            /\ node'[n].state # "none"
                            /\ snap.state = "live"
                            /\ snap.key \in Key /\ snap.key < nextKey'
                            /\ issued'[snap.key] = n
<1> SUFFICES ASSUME NEW h \in Handlers, HasCopy(h)'
             PROVE  Good(req'[h].node, req'[h].snap)
  BY DEF CopiesOwnKeys, KeyOf
<1>1. CASE SameCopy(h)
  <2>1. /\ req[h].node \in NodeIds \ {MasterNode} /\ node[req[h].node].state # "none"
        /\ req[h].snap.state = "live" /\ KeyOf(req[h].snap.key, req[h].node)
    BY <1>1 DEF KeyInv, CopiesOwnKeys, SameCopy
  <2>2. QED
    BY <1>1, <2>1, KeysKept, RowsStay DEF KeyInv, SameCopy
<1>2. CASE NewCopy(h)
  <2> DEFINE n == req'[h].node
  <2>1. n \in NodeIds /\ Edge(n) /\ req'[h].snap.state = "live" /\ node' = node
    BY <1>2 DEF NewCopy
  <2>2. n # MasterNode /\ node[n].state # "none" /\ KeyOf(node[n].key, n)
    BY <2>1 DEF Edge, Live, KeyInv, RowsOwnKeys
  <2>3. CASE req'[h].snap.key = node[n].key
    BY <2>1, <2>2, <2>3, KeysKept
  <2>4. CASE req'[h].snap.key = nextKey /\ RegenerateNodeKey(h, n)
    <3>1. /\ nextKey \in Key /\ nextKey' = nextKey + 1
          /\ issued' = [issued EXCEPT ![nextKey] = n]
      BY <2>4 DEF RegenerateNodeKey, TypeOK, Key
    <3>2. QED
      BY <2>1, <2>2, <2>4, <3>1 DEF TypeOK, Key
  <2>5. QED
    BY <1>2, <2>3, <2>4 DEF NewCopy
<1>3. QED
  BY <1>1, <1>2, CopySteps

(***************************************************************************)
(* What agents file.                                                       *)
(***************************************************************************)
LEMMA AssignedGrows ==
  ASSUME TypeOK, ReportsKnowNode, AssignmentsKept, [Next]_vars
  PROVE  assigned \subseteq assigned' /\ AssignmentsKept'
<1>1. CASE UNCHANGED <<task, assigned>>
  BY <1>1 DEF AssignmentsKept
<1>2. ASSUME NEW t \in Tasks, NEW n \in NodeIds \cup {NoNode}, AddTask(t, n)
      PROVE  assigned \subseteq assigned' /\ AssignmentsKept'
  BY <1>2 DEF AddTask, AssignmentsKept, TypeOK
<1>3. ASSUME NEW t \in Tasks, DeleteTask(t)
      PROVE  assigned \subseteq assigned' /\ AssignmentsKept'
  BY <1>3 DEF DeleteTask, AssignmentsKept, TypeOK, Assignment
<1>4. ASSUME NEW h \in Handlers, AssignTask(h)
      PROVE  assigned \subseteq assigned' /\ AssignmentsKept'
  <2>1. CASE UNCHANGED <<task, assigned>>
    BY <1>1, <2>1
  <2>2. CASE /\ task' = [task EXCEPT ![req[h].task].node = req[h].node]
             /\ assigned' = assigned \cup ({req[h].task} \X ({req[h].node} \ {NoNode}))
    BY <2>2 DEF AssignmentsKept, TypeOK, Assignment
  <2>3. QED
    BY <1>4, <2>1, <2>2 DEF AssignTask
<1>5. \/ UNCHANGED <<task, assigned>>
      \/ \E t \in Tasks, n \in NodeIds \cup {NoNode} : AddTask(t, n)
      \/ \E t \in Tasks : DeleteTask(t)
      \/ \E h \in Handlers : AssignTask(h)
  BY DEF Next, vars, Administer, Call, Serve, AddNode, DeployNewNode, EditNode,
       DeleteNode, RegenerateNodeKey, DeployNode, EditTask, AgentHeartbeat,
       AgentReportEvents, AgentReportTaskResult, CheckName, CreateNode, DeployCommands,
       SaveNode, CountTasks, MarkDeleted, CheckReportedTask, CreateReport,
       CreateEvent, Crash, rowVars
<1>6. QED
  BY <1>1, <1>2, <1>3, <1>4, <1>5

LEMMA ReportsKeepNode ==
  ASSUME TypeOK, KeyInv, ReportsKnowNode, AssignmentsKept, [Next]_vars
  PROVE  ReportsKnowNode'
<1> DEFINE Knows(q) ==
      /\ q.pc \in {"task", "row"} =>
           /\ q.node \in NodeIds /\ q.key \in Key
           /\ q.key < nextKey' /\ issued'[q.key] = q.node
      /\ q.pc = "assign" \/ q.op = "report" => q.task \in Tasks
      /\ q.op = "report" /\ q.pc = "row" => <<q.task, q.node>> \in assigned'
<1> SUFFICES ASSUME NEW h \in Handlers PROVE Knows(req'[h])
  BY DEF ReportsKnowNode, KeyOf, At
<1>1. Knows(req[h])
  <2>1. req[h].pc \in {"task", "row"} =>
          req[h].node \in NodeIds /\ KeyOf(req[h].key, req[h].node)
    BY DEF ReportsKnowNode
  <2>2. /\ At(h, "assign") \/ req[h].op = "report" => req[h].task \in Tasks
        /\ req[h].op = "report" /\ At(h, "row") => <<req[h].task, req[h].node>> \in assigned
    BY DEF ReportsKnowNode
  <2>3. QED
    BY <2>1, <2>2, KeysKept, AssignedGrows DEF At
<1>2. CASE req'[h] = Idle
  BY <1>2 DEF Idle
<1>3. ASSUME NEW op \in Op \ {"report"}, NEW pc \in Pc \ {"task", "row", "assign"}, NEW n,
             NEW snap, Accept(h, op, pc, n, snap)
      PROVE  Knows(req'[h])
  BY <1>3, AcceptSteps
<1>4. CASE Administer(h)
  <2>1. CASE \E t \in Tasks, n \in NodeIds \cup {NoNode} : EditTask(h, t, n)
    BY <2>1 DEF EditTask, Idle, TypeOK
  <2>2. QED
    BY <1>3, <1>4, <2>1 DEF Administer, AddNode, DeployNewNode, EditNode, DeleteNode,
         RegenerateNodeKey, DeployNode, Op, Pc
<1>5. CASE Call(h)
  <2>1. ASSUME NEW n \in NodeIds, NEW k, KeyHolder(k, n)
        PROVE  k \in Key /\ k < nextKey' /\ issued'[k] = n
    <3>1. KeyOf(node[n].key, n)
      BY <2>1 DEF KeyHolder, Live, KeyInv, RowsOwnKeys
    <3>2. QED
      BY <2>1, <3>1, KeysKept DEF KeyHolder
  <2>2. ASSUME NEW k, AgentHeartbeat(h, k) PROVE Knows(req'[h])
    BY <1>3, <2>2 DEF AgentHeartbeat, Op, Pc
  <2>3. ASSUME NEW k, AgentReportEvents(h, k) PROVE Knows(req'[h])
    BY <2>1, <2>3 DEF AgentReportEvents, Idle, TypeOK
  <2>4. ASSUME NEW k, NEW t \in Tasks, AgentReportTaskResult(h, k, t) PROVE Knows(req'[h])
    BY <2>1, <2>4 DEF AgentReportTaskResult, Idle, TypeOK
  <2>5. QED
    BY <1>5, <2>2, <2>3, <2>4 DEF Call
<1>6. CASE Serve(h)
  <2>1. ASSUME NEW pc \in Pc \ {"task", "row", "assign"}, Goto(h, pc)
        PROVE  Knows(req'[h])
    <3>1. req'[h] = [req[h] EXCEPT !.pc = pc] /\ req[h] \in Req
      BY <2>1 DEF Goto, TypeOK
    <3>2. QED
      BY <1>1, <3>1 DEF Req
  <2>2. CASE CheckReportedTask(h) /\ Goto(h, "row")
    <3>1. req'[h] = [req[h] EXCEPT !.pc = "row"] /\ req[h] \in Req
      BY <2>2 DEF Goto, TypeOK
    <3>2. req[h].pc = "task" /\ task[req[h].task].node = req[h].node
      <4>1. req'[h].pc = "row"
        BY <3>1 DEF Req
      <4>2. ~Respond(h)
        BY <4>1 DEF Respond, Idle, TypeOK
      <4>3. QED
        BY <2>2, <4>2 DEF CheckReportedTask, At
    <3>3. req[h].op = "report" => <<req[h].task, req[h].node>> \in assigned'
      BY <1>1, <3>2, AssignedGrows DEF AssignmentsKept
    <3>4. QED
      BY <1>1, <3>1, <3>2, <3>3 DEF Req
  <2>3. CASE Respond(h)
    BY <1>2, <2>3 DEF Respond, TypeOK
  <2>4. CASE CreateNode(h) /\ ~Respond(h)
    <3>1. req'[h] = [Idle EXCEPT !.pc = "commands", !.op = "deployNew"]
      BY <2>4 DEF CreateNode, TypeOK
    <3>2. QED
      BY <3>1 DEF Idle
  <2>5. QED
    BY <1>6, <2>1, <2>2, <2>3, <2>4 DEF Serve, CheckName, DeployCommands, SaveNode,
         CountTasks, MarkDeleted, AssignTask, CheckReportedTask, CreateReport, CreateEvent, Pc
<1>7. QED
  BY <1>1, <1>2, <1>4, <1>5, <1>6, RequestSteps

LEMMA FiledKeepNode ==
  ASSUME TypeOK, KeyInv, FileInv, [Next]_vars
  PROVE  FiledKeyIssued' /\ FiledUnderOwnNode'
<1> USE DEF FileInv
<1>1. CASE UNCHANGED filed
  <2>1. CASE filed = NoFile
    BY <1>1, <2>1 DEF FiledKeyIssued, FiledUnderOwnNode, NoFile
  <2>2. CASE filed # NoFile
    <3>1. KeyOf(filed.key, issued[filed.key])
      BY <2>2 DEF FiledKeyIssued, KeyOf, TypeOK, File
    <3>2. filed.key < nextKey' /\ issued'[filed.key] = issued[filed.key]
      BY <3>1, KeysKept
    <3>3. QED
      BY <1>1, <3>2, AssignedGrows DEF FiledKeyIssued, FiledUnderOwnNode
  <2>3. QED
    BY <2>1, <2>2
<1>2. ASSUME NEW h \in Handlers, CreateReport(h)
      PROVE  FiledKeyIssued' /\ FiledUnderOwnNode'
  <2>1. /\ KeyOf(req[h].key, req[h].node)
        /\ <<req[h].task, req[h].node>> \in assigned
    BY <1>2 DEF CreateReport, ReportsKnowNode, At
  <2>2. /\ filed' = [key |-> req[h].key, task |-> req[h].task, node |-> NoNode]
        /\ UNCHANGED <<nextKey, issued, assigned>>
    BY <1>2 DEF CreateReport, keyVars
  <2>3. QED
    BY <2>1, <2>2 DEF FiledKeyIssued, FiledUnderOwnNode, KeyOf
<1>3. ASSUME NEW h \in Handlers, CreateEvent(h)
      PROVE  FiledKeyIssued' /\ FiledUnderOwnNode'
  <2>1. KeyOf(req[h].key, req[h].node)
    BY <1>3 DEF CreateEvent, ReportsKnowNode, At
  <2>2. /\ filed' = [key |-> req[h].key, task |-> NoTask, node |-> req[h].node]
        /\ UNCHANGED <<nextKey, issued, assigned>>
    BY <1>3 DEF CreateEvent, keyVars
  <2>3. QED
    BY <2>1, <2>2 DEF FiledKeyIssued, FiledUnderOwnNode, KeyOf
<1>4. UNCHANGED filed \/ \E h \in Handlers : CreateReport(h) \/ CreateEvent(h)
  BY DEF Next, vars, Administer, Call, Serve, AddNode, DeployNewNode, EditNode,
       DeleteNode, RegenerateNodeKey, DeployNode, EditTask, AgentHeartbeat,
       AgentReportEvents, AgentReportTaskResult, CheckName, CreateNode, DeployCommands,
       SaveNode, CountTasks, MarkDeleted, AssignTask, CheckReportedTask, AddTask,
       DeleteTask, Crash, rowVars
<1>5. QED
  BY <1>1, <1>2, <1>3, <1>4

(***************************************************************************)
(* Names.                                                                  *)
(***************************************************************************)
LEMMA NamesStayIndexed ==
  ASSUME TypeOK, CopiesOwnKeys, NamesIndexed, [Next]_vars
  PROVE  NamesIndexed'
<1> SUFFICES ASSUME NEW m \in NodeIds, NEW n \in NodeIds, m # n,
                    node'[m].state # "none", node'[n].state # "none"
             PROVE  node'[m].name # node'[n].name
  BY DEF NamesIndexed, NameIndexed
<1>0. node[m].state # "none" /\ node[n].state # "none" => node[m].name # node[n].name
  BY DEF NamesIndexed, NameIndexed
<1>1. CASE UNCHANGED node
  BY <1>0, <1>1
<1>2. ASSUME NEW h \in Handlers, CreateNode(h) PROVE node'[m].name # node'[n].name
  <2>1. CASE UNCHANGED node
    BY <1>1, <2>1
  <2>2. ASSUME NEW i \in NodeIds, node[i].state = "none",
               ~NameIndexed(req[h].snap.name, NoNode),
               node' = [node EXCEPT ![i] = [state |-> "live", name |-> req[h].snap.name,
                                            key |-> nextKey]]
        PROVE  node'[m].name # node'[n].name
    BY <1>0, <2>2 DEF NameIndexed, TypeOK
  <2>3. QED
    BY <1>2, <2>1, <2>2 DEF CreateNode
<1>3. ASSUME NEW h \in Handlers, SaveNode(h) PROVE node'[m].name # node'[n].name
  <2>1. CASE UNCHANGED node
    BY <1>1, <2>1
  <2>2. CASE /\ Live(req[h].node) /\ ~NameIndexed(req[h].snap.name, req[h].node)
             /\ node' = [node EXCEPT ![req[h].node] = req[h].snap]
    BY <1>0, <2>2 DEF NameIndexed, Live, TypeOK
  <2>3. QED
    BY <1>3, <2>1, <2>2 DEF SaveNode
<1>4. ASSUME NEW h \in Handlers, MarkDeleted(h) PROVE node'[m].name # node'[n].name
  <2>1. ASSUME NEW i \in NodeIds
        PROVE  node'[i].name = node[i].name /\ (node'[i].state # "none" => node[i].state # "none")
    BY <1>4 DEF MarkDeleted, Live, TypeOK, Row
  <2>2. QED
    BY <1>0, <2>1
<1>5. QED
  BY <1>1, <1>2, <1>3, <1>4, TableSteps

(***************************************************************************)
(* The inductive invariant and the theorems.                               *)
(***************************************************************************)
IndInv == TypeOK /\ KeyInv /\ FileInv /\ NamesIndexed

LEMMA InitInv == Init => IndInv
<1> SUFFICES ASSUME Init PROVE IndInv
  OBVIOUS
<1>1. KeyInv
  BY DEF Init, KeyInv, RowsOwnKeys, CopiesOwnKeys, MasterStays, HasCopy, At, Idle, NoRow
<1>2. FileInv
  BY DEF Init, FileInv, ReportsKnowNode, AssignmentsKept, FiledKeyIssued,
       FiledUnderOwnNode, At, Idle, NoFile
<1>3. NamesIndexed
  BY DEF Init, NamesIndexed, NameIndexed, NoRow
<1>4. QED
  BY <1>1, <1>2, <1>3, InitType DEF IndInv

LEMMA NextInv == IndInv /\ [Next]_vars => IndInv'
<1> SUFFICES ASSUME IndInv, [Next]_vars PROVE IndInv'
  OBVIOUS
<1> USE DEF IndInv
<1>1. TypeOK'
  BY NextType DEF FileInv
<1>2. MasterStays'
  BY RowsStay DEF KeyInv, MasterStays
<1>3. KeyInv'
  BY <1>2, RowsKeepKeys, CopiesKeepKeys DEF KeyInv
<1>4. FileInv'
  BY AssignedGrows, ReportsKeepNode, FiledKeepNode DEF FileInv
<1>5. NamesIndexed'
  BY NamesStayIndexed DEF KeyInv
<1>6. QED
  BY <1>1, <1>3, <1>4, <1>5

LEMMA Invariance == Spec => []IndInv
BY InitInv, NextInv, PTL DEF Spec

(* Every variable keeps its type, through every interleaving of requests.  *)
THEOREM TypeCorrect == Spec => []TypeOK
<1>1. IndInv => TypeOK
  BY DEF IndInv
<1>2. QED
  BY <1>1, Invariance, PTL

(* No two nodes ever answer to one key, whatever stale copies requests     *)
(* write back (SaveNode).                                                  *)
THEOREM KeysAreOwn == Spec => []KeysNeverShared
<1>1. IndInv => KeysNeverShared
  BY DEF IndInv, KeyInv, RowsOwnKeys, KeyOf, KeysNeverShared, Key, NoKey
<1>2. QED
  BY <1>1, Invariance, PTL

(* Results and events are filed under the node whose agent sent them, for  *)
(* a task that node was given (agent.go).                                  *)
THEOREM ReportsAreOwn == Spec => []FiledUnderOwnNode
<1>1. IndInv => FiledUnderOwnNode
  BY DEF IndInv, FileInv
<1>2. QED
  BY <1>1, Invariance, PTL

(* Nodes that are not deleted have different names, because the index sees *)
(* every write (node.go, deploy.go).                                       *)
THEOREM NamesAreDistinct == Spec => []LiveNamesDistinct
<1>1. IndInv => LiveNamesDistinct
  BY DEF IndInv, NamesIndexed, NameIndexed, LiveNamesDistinct, NameTaken, Live
<1>2. QED
  BY <1>1, Invariance, PTL

(* The row of a deleted node is never written again (node.go DeleteNode).  *)
THEOREM DeletionIsFinal == Spec => DeletedForGood
<1>1. IndInv /\ [Next]_vars =>
        [\A n \in NodeIds : node[n].state = "deleted" => node'[n] = node[n]]_node
  <2> SUFFICES ASSUME IndInv, [Next]_vars, NEW n \in NodeIds, node[n].state = "deleted"
               PROVE  node'[n] = node[n]
    OBVIOUS
  <2>1. ASSUME NEW h \in Handlers, CreateNode(h) PROVE node'[n] = node[n]
    BY <2>1 DEF CreateNode, IndInv, TypeOK
  <2>2. ASSUME NEW h \in Handlers, SaveNode(h) PROVE node'[n] = node[n]
    BY <2>2 DEF SaveNode, Live, IndInv, TypeOK
  <2>3. ASSUME NEW h \in Handlers, MarkDeleted(h) PROVE node'[n] = node[n]
    BY <2>3 DEF MarkDeleted, Live, IndInv, TypeOK
  <2>4. QED
    BY <2>1, <2>2, <2>3, TableSteps
<1>2. QED
  BY <1>1, Invariance, PTL DEF Spec, DeletedForGood

-----------------------------------------------------------------------------
(***************************************************************************)
(* The key of a node, as long as nobody else holds a copy of its row while *)
(* a new key is made for it.                                               *)
(***************************************************************************)

(* A copy that is not for a new key has the key of its row.                *)
FreshCopy(h) ==
  HasCopy(h) /\ req[h].op # "regenerate" /\ Live(req[h].node)
    => req[h].snap.key = node[req[h].node].key

(* A key is changed by a request for a new one.                            *)
LEMMA KeySteps ==
  ASSUME IndInv, \A h \in Handlers : FreshCopy(h), [Next]_vars,
         NEW n \in NodeIds, node[n].state # "none", node'[n].key # node[n].key
  PROVE  \E h \in Handlers : req[h].op = "regenerate" /\ req[h].node = n /\ At(h, "save")
<1>1. ASSUME NEW h \in Handlers, CreateNode(h) PROVE FALSE
  BY <1>1 DEF CreateNode, IndInv, TypeOK
<1>2. ASSUME NEW h \in Handlers, MarkDeleted(h) PROVE FALSE
  BY <1>2 DEF MarkDeleted, IndInv, TypeOK, Row
<1>3. ASSUME NEW h \in Handlers, SaveNode(h)
      PROVE  req[h].op = "regenerate" /\ req[h].node = n /\ At(h, "save")
  <2>1. /\ req[h].node = n /\ Live(n) /\ At(h, "save")
        /\ node'[n].key = req[h].snap.key
    BY <1>3 DEF SaveNode, IndInv, TypeOK
  <2>2. QED
    BY <2>1 DEF FreshCopy, HasCopy
<1>4. QED
  BY <1>1, <1>2, <1>3, TableSteps

LEMMA CopiesStayFresh ==
  ASSUME IndInv, RegenerateAlone, \A h \in Handlers : FreshCopy(h), [Next]_vars,
         NEW h \in Handlers
  PROVE  FreshCopy(h)'
<1> SUFFICES ASSUME HasCopy(h)', req'[h].op # "regenerate", node'[req'[h].node].state = "live"
             PROVE  req'[h].snap.key = node'[req'[h].node].key
  BY DEF FreshCopy, Live
<1>1. CASE NewCopy(h)
  BY <1>1 DEF NewCopy
<1>2. CASE SameCopy(h)
  <2> DEFINE n == req[h].node
  <2>1. /\ n \in NodeIds /\ node[n].state # "none" /\ HasCopy(h)
        /\ req[h].op # "regenerate" /\ req'[h].node = n /\ req'[h].snap = req[h].snap
    BY <1>2 DEF SameCopy, IndInv, KeyInv, CopiesOwnKeys
  <2>2. Live(n)
    <3>1. ASSUME NEW g \in Handlers, CreateNode(g) PROVE node'[n].state = node[n].state
      BY <2>1, <3>1 DEF CreateNode, IndInv, TypeOK
    <3>2. ASSUME NEW g \in Handlers, SaveNode(g)
          PROVE  node'[n] = node[n] \/ node[n].state = "live"
      BY <2>1, <3>2 DEF SaveNode, Live, IndInv, TypeOK
    <3>3. ASSUME NEW g \in Handlers, MarkDeleted(g)
          PROVE  node'[n] = node[n] \/ node[n].state = "live"
      BY <2>1, <3>3 DEF MarkDeleted, Live, IndInv, TypeOK
    <3>4. QED
      BY <2>1, <3>1, <3>2, <3>3, TableSteps DEF Live
  <2>3. CASE node'[n].key = node[n].key
    BY <2>1, <2>2, <2>3 DEF FreshCopy
  <2>4. CASE node'[n].key # node[n].key
    <3>1. PICK g \in Handlers : req[g].op = "regenerate" /\ req[g].node = n /\ At(g, "save")
      BY <2>1, <2>4, KeySteps
    <3>2. QED
      BY <2>1, <3>1 DEF RegenerateAlone, HasCopy
  <2>5. QED
    BY <2>3, <2>4
<1>3. QED
  BY <1>1, <1>2, CopySteps DEF IndInv

(* "The key can be made anew": it is, and by nothing else, unless another  *)
(* request, a heartbeat for one, holds a copy of the row at that moment.   *)
THEOREM KeyChangesWhenAsked == Spec /\ []RegenerateAlone => KeyChangesOnRequest
<1> DEFINE Fresh == \A h \in Handlers : FreshCopy(h)
<1>1. Init => Fresh
  BY DEF Init, FreshCopy, HasCopy, At, Idle
<1>2. IndInv /\ RegenerateAlone /\ Fresh /\ [Next]_vars => Fresh'
  BY CopiesStayFresh
<1>3. IndInv /\ Fresh /\ [Next]_vars =>
        [\A n \in NodeIds :
           Edge(n) /\ node'[n].key # node[n].key =>
             \E h \in Handlers : req[h].op = "regenerate" /\ req[h].node = n /\ At(h, "save")]_node
  BY KeySteps DEF Edge, Live
<1>4. QED
  BY <1>1, <1>2, <1>3, Invariance, PTL DEF Spec, KeyChangesOnRequest

=============================================================================
