------------------------------- MODULE Nodes -------------------------------
(***************************************************************************)
(* The registry of nodes: the requests that add, edit, delete and deploy   *)
(* an edge node or make it a new key (src/web/controller/node.go,          *)
(* deploy.go), the requests of the agents, who prove with that key which   *)
(* node they are (agent.go), and the requests that hand a task to a node.  *)
(*                                                                         *)
(* Every request loads a row, works on the copy and writes the whole copy  *)
(* back; the database runs one statement at a time and nothing else is     *)
(* excluded, so a step here is one statement.  What an agent does between  *)
(* its requests is not in the repository: any key that was ever given out  *)
(* may be used at any time, again and again.                               *)
(***************************************************************************)
EXTENDS Naturals, FiniteSets

CONSTANTS
  NodeIds,     \* primary keys of the node table
  MasterNode,  \* the row bootstrap makes
  MasterName,
  NoNode,      \* node_id 0 of a task
  Names,       \* names a user may give an edge node
  Tasks,       \* primary keys of the task table
  NoTask,
  Handlers,    \* requests served at the same time
  MaxKeys      \* bound: secret keys made

ASSUME NodesAssumption ==
  /\ MasterNode \in NodeIds
  /\ NoNode \notin NodeIds
  /\ NoTask \notin Tasks
  /\ MaxKeys \in Nat

Key   == 1..MaxKeys
NoKey == 0

VARIABLES
  node,      \* the node table
  task,      \* node_id of the rows of the task table
  filed,     \* the newest row agents made in task_log or node_event
  nextKey,   \* keys are random strings: each is new
  issued,    \* history: the node each key was made for
  assigned,  \* history: <<task, node>> for every node a task ever had
  req

vars == <<node, task, filed, nextKey, issued, assigned, req>>
rowVars == <<task, filed, assigned>>
keyVars == <<nextKey, issued>>

NameOrNone == Names \cup {MasterName}
Row  == [state : {"none", "live", "deleted"}, name : NameOrNone, key : Key \cup {NoKey}]
NoRow == [state |-> "none", name |-> MasterName, key |-> NoKey]
Assignment == [state : {"none", "live", "deleted"}, node : NodeIds \cup {NoNode}]

(* A row of task_log names a task, a row of node_event a node; the key is  *)
(* the one its agent used.                                                 *)
NoFile == [key |-> NoKey, task |-> NoTask, node |-> NoNode]
File == {NoFile} \cup [key : Key, task : Tasks \cup {NoTask}, node : NodeIds \cup {NoNode}]

Op  == {"none", "add", "edit", "delete", "regenerate", "deploy", "deployNew",
        "heartbeat", "report", "events", "assign"}
Pc  == {"idle", "name", "create", "commands", "count", "delete", "save", "lookup",
        "task", "row", "assign"}
Req == [pc : Pc, op : Op, node : NodeIds \cup {NoNode}, snap : Row, key : Key \cup {NoKey},
        task : Tasks \cup {NoTask}]
Idle == [pc |-> "idle", op |-> "none", node |-> NoNode, snap |-> NoRow, key |-> NoKey,
         task |-> NoTask]

TypeOK ==
  /\ node \in [NodeIds -> Row]
  /\ task \in [Tasks -> Assignment]
  /\ filed \in File
  /\ nextKey \in 1..(MaxKeys + 1)
  /\ issued \in [Key -> NodeIds \cup {NoNode}]
  /\ assigned \in SUBSET (Tasks \X NodeIds)
  /\ req \in [Handlers -> Req]

Live(n) == node[n].state = "live"
Edge(n) == Live(n) /\ n # MasterNode
NameTaken(name, n) == \E m \in NodeIds \ {n} : Live(m) /\ node[m].name = name
(* The unique index on the column also sees the rows marked deleted.       *)
NameIndexed(name, n) == \E m \in NodeIds \ {n} : node[m].state # "none" /\ node[m].name = name

At(h, pc) == req[h].pc = pc
Goto(h, pc) == req' = [req EXCEPT ![h].pc = pc]
Respond(h) == req' = [req EXCEPT ![h] = Idle]

(* Bounds, taken where a request begins so that none is cut short.         *)
Adding == {h \in Handlers : req[h].op \in {"add", "deployNew"} /\ ~At(h, "commands")}
NodeBudget ==
  /\ nextKey + Cardinality(Adding) <= MaxKeys
  /\ Cardinality(Adding) < Cardinality({n \in NodeIds : node[n].state = "none"})
KeyBudget == nextKey + Cardinality(Adding) <= MaxKeys

(* initDb has made the row of the master.                                  *)
Init ==
  /\ node = [n \in NodeIds |->
               IF n = MasterNode
               THEN [state |-> "live", name |-> MasterName, key |-> NoKey]
               ELSE NoRow]
  /\ task = [t \in Tasks |-> [state |-> "none", node |-> NoNode]]
  /\ filed = NoFile
  /\ assigned = {}
  /\ nextKey = 1
  /\ issued = [k \in Key |-> NoNode]
  /\ req = [h \in Handlers |-> Idle]
Accept(h, op, pc, n, snap) ==
  /\ At(h, "idle")
  /\ req' = [req EXCEPT ![h] = [Idle EXCEPT !.pc = pc, !.op = op, !.node = n, !.snap = snap]]

(***************************************************************************)
(* Requests of the user.  The form is read and the row is loaded.          *)
(***************************************************************************)
AddNode(h, name) ==
  /\ NodeBudget
  /\ Accept(h, "add", "name", NoNode, [NoRow EXCEPT !.name = name])
  /\ UNCHANGED <<node, rowVars, keyVars>>

(* The connection is tried before the row is made.                         *)
DeployNewNode(h, name) ==
  /\ NodeBudget
  /\ Accept(h, "deployNew", "name", NoNode, [NoRow EXCEPT !.name = name])
  /\ UNCHANGED <<node, rowVars, keyVars>>

EditNode(h, n, name) ==
  /\ Edge(n)
  /\ Accept(h, "edit", "name", n, [node[n] EXCEPT !.name = name])
  /\ UNCHANGED <<node, rowVars, keyVars>>

DeleteNode(h, n) ==
  /\ Edge(n)
  /\ Accept(h, "delete", "count", n, NoRow)
  /\ UNCHANGED <<node, rowVars, keyVars>>

(* Mutant: the generator of keys is not advanced.                          *)
RepeatNodeKey(h, n) ==
  /\ Edge(n)
  /\ KeyBudget
  /\ nextKey <= MaxKeys
  /\ Accept(h, "regenerate", "save", n, [node[n] EXCEPT !.key = nextKey])
  /\ issued' = [issued EXCEPT ![nextKey] = n]
  /\ UNCHANGED <<node, rowVars, nextKey>>

(* The copy gets its new key at once.                                      *)
RegenerateNodeKey(h, n) ==
  /\ Edge(n)
  /\ KeyBudget
  /\ nextKey <= MaxKeys
  /\ Accept(h, "regenerate", "save", n, [node[n] EXCEPT !.key = nextKey])
  /\ nextKey' = nextKey + 1
  /\ issued' = [issued EXCEPT ![nextKey] = n]
  /\ UNCHANGED <<node, rowVars>>

DeployNode(h, n) ==
  /\ Edge(n)
  /\ Accept(h, "deploy", "commands", n, node[n])
  /\ UNCHANGED <<node, rowVars, keyVars>>

(* AddTask, and an import, write the node_id they are sent: the form offers *)
(* the live nodes, but a page, or a file, may be older than a deletion.    *)
AddTask(t, n) ==
  /\ task[t].state = "none"
  /\ task' = [task EXCEPT ![t] = [state |-> "live", node |-> n]]
  /\ assigned' = assigned \cup ({t} \X ({n} \ {NoNode}))
  /\ UNCHANGED <<node, filed, keyVars, req>>

(* EditTask likewise; it loads the row first.                              *)
EditTask(h, t, n) ==
  /\ At(h, "idle")
  /\ task[t].state = "live"
  /\ req' = [req EXCEPT ![h] = [Idle EXCEPT !.pc = "assign", !.op = "assign",
                                            !.node = n, !.task = t]]
  /\ UNCHANGED <<node, rowVars, keyVars>>

DeleteTask(t) ==
  /\ task[t].state = "live"
  /\ task' = [task EXCEPT ![t].state = "deleted"]
  /\ UNCHANGED <<node, filed, assigned, keyVars, req>>

(***************************************************************************)
(* Their later statements.                                                 *)
(***************************************************************************)

(* "node name already exists" looks at the rows that are not deleted.      *)
CheckName(h) ==
  LET new == req[h].op # "edit"
  IN /\ At(h, "name")
     /\ IF NameTaken(req[h].snap.name, req[h].node)
        THEN Respond(h)
        ELSE \/ Goto(h, IF new THEN "create" ELSE "save")
             \/ req[h].op = "deployNew" /\ Respond(h)  \* the connection fails
     /\ UNCHANGED <<node, rowVars, keyVars>>

CreateNode(h) ==
  LET name == req[h].snap.name
  IN /\ At(h, "create")
     /\ IF NameIndexed(name, NoNode)
        THEN Respond(h) /\ UNCHANGED <<node, keyVars>>
        ELSE /\ nextKey <= MaxKeys
             /\ \E n \in NodeIds :
                  /\ node[n].state = "none"
                  /\ node' = [node EXCEPT ![n] = [state |-> "live", name |-> name,
                                                 key |-> nextKey]]
                  /\ issued' = [issued EXCEPT ![nextKey] = n]
             /\ IF req[h].op = "deployNew"
                THEN req' = [req EXCEPT ![h] = [Idle EXCEPT !.pc = "commands",
                                                            !.op = "deployNew"]]
                ELSE Respond(h)
             /\ nextKey' = nextKey + 1
     /\ UNCHANGED <<rowVars>>

(* executeDeployCommands takes its time on the other machine, and a        *)
(* command that fails is passed over.  DeployNode saves its copy then,     *)
(* unless there was no connection.                                         *)
DeployCommands(h) ==
  /\ At(h, "commands")
  /\ \/ req[h].op = "deploy" /\ Goto(h, "save")
     \/ Respond(h)
  /\ UNCHANGED <<node, rowVars, keyVars>>

(* Mutant: the copy goes back whether its row was deleted or not.          *)
SaveAnyway(h) ==
  LET n == req[h].node
  IN /\ At(h, "save")
     /\ node' = IF NameIndexed(req[h].snap.name, n) THEN node
                ELSE [node EXCEPT ![n] = req[h].snap]
     /\ Respond(h)
     /\ UNCHANGED <<rowVars, keyVars>>

(* Mutant: no unique index behind the check of the name.                   *)
SaveUnindexed(h) ==
  LET n == req[h].node
  IN /\ At(h, "save")
     /\ node' = IF Live(n) THEN [node EXCEPT ![n] = req[h].snap] ELSE node
     /\ Respond(h)
     /\ UNCHANGED <<rowVars, keyVars>>

(* Db.Save writes the whole copy.  It fails on a row deleted meanwhile and *)
(* on a name the index has for another row.                                *)
SaveNode(h) ==
  LET n == req[h].node
      saved == Live(n) /\ ~NameIndexed(req[h].snap.name, n)
  IN /\ At(h, "save")
     /\ node' = IF saved THEN [node EXCEPT ![n] = req[h].snap] ELSE node
     /\ Respond(h)
     /\ UNCHANGED <<rowVars, keyVars>>

CountTasks(h) ==
  /\ At(h, "count")
  /\ IF \E t \in Tasks : task[t].state = "live" /\ task[t].node = req[h].node
     THEN Respond(h) ELSE Goto(h, "delete")
  /\ UNCHANGED <<node, rowVars, keyVars>>

MarkDeleted(h) ==
  LET n == req[h].node
  IN /\ At(h, "delete")
     /\ node' = IF Live(n) THEN [node EXCEPT ![n].state = "deleted"] ELSE node
     /\ Respond(h)
     /\ UNCHANGED <<rowVars, keyVars>>

AssignTask(h) ==
  LET t == req[h].task
      n == req[h].node
  IN /\ At(h, "assign")
     /\ IF task[t].state = "live"
        THEN /\ task' = [task EXCEPT ![t].node = n]
             /\ assigned' = assigned \cup ({t} \X ({n} \ {NoNode}))
        ELSE UNCHANGED <<task, assigned>>
     /\ Respond(h)
     /\ UNCHANGED <<node, filed, keyVars>>

(***************************************************************************)
(* Requests of the agents.                                                 *)
(***************************************************************************)
(* Mutant: a request without a key is not turned away first.               *)
AnyKeyHolder(k, n) == Live(n) /\ node[n].key = k

(* The row whose key is in the header, if it is not deleted.  The master's *)
(* own key is empty.                                                       *)
KeyHolder(k, n) == k # NoKey /\ Live(n) /\ node[n].key = k

(* AgentHeartbeat loads the row and notes that the node is online.         *)
AgentHeartbeat(h, k) ==
  /\ \E n \in NodeIds :
       /\ KeyHolder(k, n)
       /\ Accept(h, "heartbeat", "save", n, node[n])
  /\ UNCHANGED <<node, rowVars, keyVars>>

AgentReportTaskResult(h, k, t) ==
  /\ At(h, "idle")
  /\ \E n \in NodeIds :
       /\ KeyHolder(k, n)
       /\ req' = [req EXCEPT ![h] = [Idle EXCEPT !.pc = "task", !.op = "report", !.node = n,
                                                 !.key = k, !.task = t]]
  /\ UNCHANGED <<node, rowVars, keyVars>>

(* Mutant: any task of the table will do.                                  *)
CheckSomeTask(h) ==
  /\ At(h, "task")
  /\ IF task[req[h].task].state = "live" THEN Goto(h, "row") ELSE Respond(h)
  /\ UNCHANGED <<node, rowVars, keyVars>>

CheckReportedTask(h) ==
  /\ At(h, "task")
  /\ IF task[req[h].task] = [state |-> "live", node |-> req[h].node]
     THEN Goto(h, "row") ELSE Respond(h)
  /\ UNCHANGED <<node, rowVars, keyVars>>

CreateReport(h) ==
  /\ At(h, "row") /\ req[h].op = "report"
  /\ filed' = [key |-> req[h].key, task |-> req[h].task, node |-> NoNode]
  /\ Respond(h)
  /\ UNCHANGED <<node, task, assigned, keyVars>>

AgentReportEvents(h, k) ==
  /\ At(h, "idle")
  /\ \E n \in NodeIds :
       /\ KeyHolder(k, n)
       /\ req' = [req EXCEPT ![h] = [Idle EXCEPT !.pc = "row", !.op = "events", !.node = n,
                                                 !.key = k]]
  /\ UNCHANGED <<node, rowVars, keyVars>>

CreateEvent(h) ==
  /\ At(h, "row") /\ req[h].op = "events"
  /\ filed' = [key |-> req[h].key, task |-> NoTask, node |-> req[h].node]
  /\ Respond(h)
  /\ UNCHANGED <<node, task, assigned, keyVars>>

(* The server dies: the requests are gone.                                 *)
Crash ==
  /\ \E h \in Handlers : ~At(h, "idle")
  /\ req' = [h \in Handlers |-> Idle]
  /\ UNCHANGED <<node, rowVars, keyVars>>

(***************************************************************************)
(* The specification.                                                      *)
(***************************************************************************)
Administer(h) ==
  \/ \E name \in Names : AddNode(h, name) \/ DeployNewNode(h, name)
  \/ \E n \in NodeIds, name \in Names : EditNode(h, n, name)
  \/ \E n \in NodeIds : DeleteNode(h, n) \/ RegenerateNodeKey(h, n) \/ DeployNode(h, n)
  \/ \E t \in Tasks, n \in NodeIds \cup {NoNode} : EditTask(h, t, n)

Call(h) ==
  \E k \in Key \cup {NoKey} :
                 \/ AgentHeartbeat(h, k) \/ AgentReportEvents(h, k)
                 \/ \E t \in Tasks : AgentReportTaskResult(h, k, t)

Serve(h) ==
  \/ CheckName(h) \/ CreateNode(h) \/ DeployCommands(h) \/ SaveNode(h)
  \/ CountTasks(h) \/ MarkDeleted(h) \/ AssignTask(h)
  \/ CheckReportedTask(h) \/ CreateReport(h) \/ CreateEvent(h)

Next ==
  \/ \E h \in Handlers : Administer(h) \/ Call(h) \/ Serve(h)
  \/ \E t \in Tasks, n \in NodeIds \cup {NoNode} : AddTask(t, n)
  \/ \E t \in Tasks : DeleteTask(t)
  \/ Crash

Spec == Init /\ [][Next]_vars

(***************************************************************************)
(* Safety.                                                                 *)
(***************************************************************************)

(* A key leads to one node at most: although stale copies bring old keys   *)
(* back, the First that looks a key up has nothing to choose between.      *)
KeysNeverShared ==
  \A m, n \in NodeIds :
    m # n /\ node[m].state # "none" /\ node[n].state # "none" => node[m].key # node[n].key

(* What an agent reports is filed under the node its key was made for, and *)
(* for a task that was handed to that node, whatever keys were made again, *)
(* nodes deleted and tasks moved since (AgentReportTaskResult,             *)
(* AgentReportEvents).                                                     *)
FiledUnderOwnNode ==
  /\ filed.task # NoTask => <<filed.task, issued[filed.key]>> \in assigned
  /\ filed.node # NoNode => issued[filed.key] = filed.node

(* Two nodes that are not deleted never share a name: AddNode and EditNode *)
(* test and write in two steps, and a heartbeat or a deployment writes an  *)
(* old name back without a test.                                           *)
LiveNamesDistinct == \A n \in NodeIds : Live(n) => ~NameTaken(node[n].name, n)

(* A deleted row never changes again: the copies that requests, and above  *)
(* all long deployments, still hold do not bring it back.                  *)
DeletedForGood ==
  [][\A n \in NodeIds : node[n].state = "deleted" => node'[n] = node[n]]_node

(***************************************************************************)
(* The inductive invariant behind them.                                    *)
(***************************************************************************)

(* A request that will write a whole row back.                             *)
HasCopy(h) ==
  \/ At(h, "save")
  \/ req[h].op = "edit" /\ At(h, "name")
  \/ req[h].op = "deploy" /\ At(h, "commands")

KeyOf(k, n) == k \in Key /\ k < nextKey /\ issued[k] = n

(* A row that exists has a key that was made for it, the master has none.  *)
RowsOwnKeys ==
  \A n \in NodeIds :
    node[n].state # "none" =>
      IF n = MasterNode THEN node[n].key = NoKey ELSE KeyOf(node[n].key, n)

(* So has every copy, however old.                                         *)
CopiesOwnKeys ==
  \A h \in Handlers :
    HasCopy(h) => /\ req[h].node \in NodeIds \ {MasterNode}
                  /\ node[req[h].node].state # "none"
                  /\ req[h].snap.state = "live"
                  /\ KeyOf(req[h].snap.key, req[h].node)

MasterStays == node[MasterNode].state # "none"

(* An agent's request knows its node, and a task it is about to file for   *)
(* was handed to that node.                                                *)
ReportsKnowNode ==
  \A h \in Handlers :
    /\ req[h].pc \in {"task", "row"} =>
         req[h].node \in NodeIds /\ KeyOf(req[h].key, req[h].node)
    /\ At(h, "assign") \/ req[h].op = "report" => req[h].task \in Tasks
    /\ req[h].op = "report" /\ At(h, "row") => <<req[h].task, req[h].node>> \in assigned

AssignmentsKept ==
  \A t \in Tasks : task[t].node # NoNode => <<t, task[t].node>> \in assigned

FiledKeyIssued == filed # NoFile => filed.key < nextKey

(* The index: no two rows share a name, deleted or not.                    *)
NamesIndexed ==
  \A n \in NodeIds : node[n].state # "none" => ~NameIndexed(node[n].name, n)

KeyInv  == RowsOwnKeys /\ CopiesOwnKeys /\ MasterStays
FileInv == ReportsKnowNode /\ AssignmentsKept /\ FiledKeyIssued /\ FiledUnderOwnNode

(***************************************************************************)
(* Statements of the repository that the code does not keep.               *)
(***************************************************************************)

(* "the key can be made anew at any time": the key of a node that is not   *)
(* deleted changes by a request for a new one, and by nothing else.        *)
KeyChangesOnRequest ==
  [][\A n \in NodeIds :
       Edge(n) /\ node'[n].key # node[n].key =>
         \E h \in Handlers : req[h].op = "regenerate" /\ req[h].node = n /\ At(h, "save")]_node

(* What would make it so: nobody else holds a copy of the row while a new  *)
(* key is made for it.                                                     *)
RegenerateAlone ==
  \A g, h \in Handlers :
    g # h /\ HasCopy(g) /\ HasCopy(h) /\ req[h].op = "regenerate" => req[g].node # req[h].node

=============================================================================
