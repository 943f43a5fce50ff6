------------------------------- MODULE NodePage -------------------------------
(* The node list of the web client (src/web/client/src/screen/nodeList):      *)
(* the table, the dialogs that add, edit and delete a node, the two that      *)
(* deploy an agent over ssh, and the button that makes a new key, against the *)
(* node table of the server.                                                  *)
(*                                                                            *)
(* A node is [live, ver]: ver counts the changes of its row.  A form is       *)
(* filled or not (its required fields), and was filled from some node.        *)
(* Whether a row is unfolded and what a machine says of itself is left out.   *)
EXTENDS Http

CONSTANTS EdgeNodes,     \* the ids of edge nodes
          NoEdgeNode,    \* "no node"
          MaxNodeMoves   \* bound on the changes asked for, here and elsewhere

ASSUME NodePageAssumption == NoEdgeNode \notin EdgeNodes /\ MaxNodeMoves \in Nat

VARIABLES
    nodes,               \* the node table of the server
    nodeWire,            \* the calls of this page
    nodeList,            \* what the page was last told
    nodeLoading, nodeRefreshLoading,
    nodeDialog,          \* the open dialog, its node, its form
    nodeEditInfo,        \* the node the edit dialog was last opened for
    deploying, testing,  \* of each of the two deployment dialogs
    nodeMoves,           \* changes asked for so far
    acked,               \* history: the version of each node this page has made
    astray               \* history: a list call brought no list or an old one

npSpinners == <<nodeLoading, nodeRefreshLoading>>
npUser == <<nodeDialog, nodeEditInfo>>
npDeploy == <<deploying, testing>>
npHistory == <<acked, astray>>
npVars == <<nodes, nodeWire, nodeList, nodeLoading, nodeRefreshLoading,
            nodeDialog, nodeEditInfo, deploying, testing, nodeMoves,
            acked, astray>>

MaybeNode == EdgeNodes \cup {NoEdgeNode}
NodeRows == [EdgeNodes -> [live : BOOLEAN, ver : Nat]]
Unused == [live |-> FALSE, ver |-> 0]
NoNodeRows == [n \in EdgeNodes |-> Unused]

DeployKinds == {"deploy", "deployNew"}
NodeListOps == {"load", "refresh"}
NodeOps == NodeListOps \cup DeployKinds
             \cup {"add", "edit", "delete", "regenerate", "test"}

(* of: the node whose values the body has; kind: the dialog that tests;       *)
(* list: the rows of the answer, for a change the row that it has made.       *)
NodeCall == [stage : Stages, op : NodeOps, node : MaybeNode, of : MaybeNode,
             kind : DeployKinds, list : NodeRows, ok : BOOLEAN]
NoNodeCall == [stage |-> "none", op |-> "load", node |-> NoEdgeNode,
               of |-> NoEdgeNode, kind |-> "deploy", list |-> NoNodeRows, ok |-> FALSE]
NodeListCall(op) == [NoNodeCall EXCEPT !.stage = "sent", !.op = op]

NoNodeDialog == [kind |-> "none", node |-> NoEdgeNode, of |-> NoEdgeNode,
                 filled |-> FALSE]

NodePageInit ==
    /\ nodes \in [EdgeNodes -> {Unused, [Unused EXCEPT !.live = TRUE]}]
    /\ nodeWire = [s \in Slots |-> IF s = 1 THEN NodeListCall("load") ELSE NoNodeCall]
    /\ nodeList = NoNodeRows
    /\ nodeLoading = TRUE /\ nodeRefreshLoading = FALSE
    /\ nodeDialog = NoNodeDialog /\ nodeEditInfo = NoEdgeNode
    /\ deploying = [k \in DeployKinds |-> FALSE]
    /\ testing = [k \in DeployKinds |-> FALSE]
    /\ nodeMoves = 0
    /\ acked = [n \in EdgeNodes |-> 0] /\ astray = FALSE

-----------------------------------------------------------------------------
(* The user.  An open dialog is modal: it covers the page.                    *)

OnNodePage == nodeDialog.kind = "none"
ShownNode(n) == ~nodeLoading /\ nodeList[n].live
NodeMove == nodeMoves < MaxNodeMoves /\ nodeMoves' = nodeMoves + 1

SendNode(s, call) ==
    /\ FreeSlot(nodeWire, s)
    /\ nodeWire' = [nodeWire EXCEPT ![s] = call]

RefreshNodeList(s) ==
    /\ OnNodePage /\ ~nodeRefreshLoading
    /\ SendNode(s, NodeListCall("refresh"))
    /\ nodeRefreshLoading' = TRUE
    /\ UNCHANGED <<nodes, nodeList, nodeLoading, npUser, npDeploy, nodeMoves, npHistory>>

OpenNodeDialog(kind, n, of) ==
    /\ OnNodePage
    /\ nodeDialog' = [kind |-> kind, node |-> n, of |-> of,
                      filled |-> kind = "delete" \/ of # NoEdgeNode]
    /\ UNCHANGED <<nodes, nodeWire, nodeList, npSpinners, nodeMoves, npHistory>>

ShowNodeAddDialog ==
    OpenNodeDialog("add", NoEdgeNode, NoEdgeNode) /\ UNCHANGED <<nodeEditInfo, npDeploy>>

(* setNodeEditInfo takes effect at the next render, handleClickOpen fills the *)
(* form at once: from the node of the last time.                              *)
ShowNodeEditDialog(n) ==
    /\ ShownNode(n) /\ OpenNodeDialog("edit", n, nodeEditInfo)
    /\ nodeEditInfo' = n
    /\ UNCHANGED npDeploy
ShowNodeDeleteDialog(n) ==
    /\ ShownNode(n) /\ OpenNodeDialog("delete", n, NoEdgeNode)
    /\ UNCHANGED <<nodeEditInfo, npDeploy>>

(* Mutant: it forgets both.                                                   *)
ShowFreshDialog(kind, n) ==
    /\ OpenNodeDialog(kind, n, NoEdgeNode)
    /\ deploying' = [deploying EXCEPT ![kind] = FALSE]
    /\ testing' = [testing EXCEPT ![kind] = FALSE]
    /\ UNCHANGED nodeEditInfo

(* A deployment dialog forgets that it was deploying, not that it tests; its  *)
(* password is empty.                                                         *)
ShowDeployDialog(kind, n) ==
    /\ OpenNodeDialog(kind, n, NoEdgeNode)
    /\ deploying' = [deploying EXCEPT ![kind] = FALSE]
    /\ UNCHANGED <<nodeEditInfo, testing>>
OpenDeploy(n) == ShownNode(n) /\ ShowDeployDialog("deploy", n)
OpenDeployNew == ShowDeployDialog("deployNew", NoEdgeNode)

(* Mutant: any dialog closes at any time.                                     *)
CloseAnyDialog ==
    /\ ~OnNodePage
    /\ nodeDialog' = NoNodeDialog
    /\ UNCHANGED <<nodes, nodeWire, nodeList, npSpinners, nodeEditInfo, npDeploy,
                   nodeMoves, npHistory>>

(* A deployment dialog stays open while it deploys.                           *)
CloseNodeDialog ==
    /\ ~OnNodePage
    /\ nodeDialog.kind \in DeployKinds => ~deploying[nodeDialog.kind]
    /\ nodeDialog' = NoNodeDialog
    /\ UNCHANGED <<nodes, nodeWire, nodeList, npSpinners, nodeEditInfo, npDeploy,
                   nodeMoves, npHistory>>

(* The user fills the form with what the node of the dialog shall be.         *)
FillNodeForm ==
    /\ nodeDialog.kind \in {"add", "edit"} \cup DeployKinds
    /\ nodeDialog' = [nodeDialog EXCEPT !.filled = TRUE,
                        !.of = IF nodeDialog.kind = "edit" THEN nodeDialog.node ELSE @]
    /\ UNCHANGED <<nodes, nodeWire, nodeList, npSpinners, nodeEditInfo, npDeploy,
                   nodeMoves, npHistory>>

(* A submit checks the required fields and sends the form.                    *)
SubmitNode(s, op) ==
    /\ nodeDialog.filled
    /\ SendNode(s, [NoNodeCall EXCEPT !.stage = "sent", !.op = op,
                      !.node = IF op = "test" THEN NoEdgeNode ELSE nodeDialog.node,
                      !.of = nodeDialog.of,
                      !.kind = IF nodeDialog.kind = "deployNew"
                               THEN "deployNew" ELSE "deploy"])
    /\ UNCHANGED <<nodes, nodeList, npSpinners, npUser, npHistory>>

NodeAddSubmit(s) ==
    nodeDialog.kind = "add" /\ NodeMove /\ SubmitNode(s, "add") /\ UNCHANGED npDeploy
NodeEditSubmit(s) ==
    nodeDialog.kind = "edit" /\ NodeMove /\ SubmitNode(s, "edit") /\ UNCHANGED npDeploy
DeleteNode(s) ==
    nodeDialog.kind = "delete" /\ NodeMove /\ SubmitNode(s, "delete") /\ UNCHANGED npDeploy

(* A loading button does not take a press; the one that tests is disabled     *)
(* while the dialog deploys, not the other way round.                         *)
HandleTestConnection(s) ==
    /\ nodeDialog.kind \in DeployKinds
    /\ ~testing[nodeDialog.kind] /\ ~deploying[nodeDialog.kind]
    /\ SubmitNode(s, "test")
    /\ testing' = [testing EXCEPT ![nodeDialog.kind] = TRUE]
    /\ UNCHANGED <<deploying, nodeMoves>>
HandleDeploy(s, kind) ==
    /\ nodeDialog.kind = kind /\ ~deploying[kind]
    /\ NodeMove /\ SubmitNode(s, kind)
    /\ deploying' = [deploying EXCEPT ![kind] = TRUE]
    /\ UNCHANGED testing

(* The button of a row: no question asked, nothing shown until the answer.    *)
HandleRegenerateKey(s, n) ==
    /\ OnNodePage /\ ShownNode(n) /\ NodeMove
    /\ SendNode(s, [NoNodeCall EXCEPT !.stage = "sent", !.op = "regenerate", !.node = n])
    /\ UNCHANGED <<nodes, nodeList, npSpinners, npUser, npDeploy, npHistory>>

-----------------------------------------------------------------------------
(* The server: the module Nodes has its steps one by one.                     *)

(* The table after a change of op to node n, which must be there.             *)
NodeChanged(op, n) ==
    /\ IF op \in {"add", "deployNew"} THEN nodes[n] = Unused ELSE nodes[n].live
    /\ nodes' = [nodes EXCEPT ![n] = [live |-> op # "delete", ver |-> @.ver + 1]]

(* A call is refused, or answered in full.  What a test finds is left out, so *)
(* its answers are all alike.                                                 *)
ServeNode(s) ==
    LET c == nodeWire[s]
        done == [c EXCEPT !.stage = "done"]
    IN  /\ c.stage = "sent"
        /\ \/ UNCHANGED nodes /\ nodeWire' = [nodeWire EXCEPT ![s] = done]
           \/ /\ c.op \in NodeListOps /\ UNCHANGED nodes
              /\ nodeWire' = [nodeWire EXCEPT ![s] = [done EXCEPT !.ok = TRUE, !.list = nodes]]
           \/ /\ c.op \notin NodeListOps \cup {"test"}
              /\ \E n \in EdgeNodes :
                    /\ c.node \in {n, NoEdgeNode} /\ NodeChanged(c.op, n)
                    /\ nodeWire' = [nodeWire EXCEPT ![s] =
                          [done EXCEPT !.ok = TRUE, !.list[n] = nodes'[n]]]
        /\ UNCHANGED <<nodeList, npSpinners, npUser, npDeploy, nodeMoves, npHistory>>

(* Another client, a heartbeat, or the server at work on a call given up.     *)
NodeChangesElsewhere(n) ==
    /\ NodeMove
    /\ \E op \in {"add", "edit", "delete"} : NodeChanged(op, n)
    /\ UNCHANGED <<nodeWire, nodeList, npSpinners, npUser, npDeploy, npHistory>>

-----------------------------------------------------------------------------
(* The handlers of answers.                                                   *)

OnNodeList(s) ==
    LET c == nodeWire[s]
    IN  /\ Answered(nodeWire, s) /\ c.op \in NodeListOps
        /\ nodeWire' = [nodeWire EXCEPT ![s] = NoNodeCall]
        /\ nodeList' = IF c.ok THEN c.list ELSE nodeList
        /\ nodeLoading' = (nodeLoading /\ c.op # "load")
        /\ nodeRefreshLoading' = (nodeRefreshLoading /\ c.op # "refresh")
        /\ astray' = (astray \/ ~c.ok
                        \/ \E n \in EdgeNodes : c.list[n].ver < nodeList[n].ver)
        /\ UNCHANGED <<nodes, npUser, npDeploy, nodeMoves, acked>>

(* Mutant: nothing is refreshed.                                              *)
NodeAnsweredOnly(s) ==
    LET c == nodeWire[s]
    IN  /\ Answered(nodeWire, s)
        /\ nodeWire' = [nodeWire EXCEPT ![s] = NoNodeCall]
        /\ acked' = [n \in EdgeNodes |->
              IF c.list[n].ver > acked[n] THEN c.list[n].ver ELSE acked[n]]
        /\ UNCHANGED <<nodes, nodeList, npSpinners, nodeEditInfo, testing,
                       nodeMoves, astray>>

(* An accepted change refreshes the list, a refused one only tells the user.  *)
NodeAnswered(s) ==
    LET c == nodeWire[s]
    IN  /\ Answered(nodeWire, s)
        /\ nodeWire' = [nodeWire EXCEPT ![s] =
              IF c.ok THEN NodeListCall("refresh") ELSE NoNodeCall]
        /\ nodeRefreshLoading' = (nodeRefreshLoading \/ c.ok)
        /\ acked' = [n \in EdgeNodes |->
              IF c.list[n].ver > acked[n] THEN c.list[n].ver ELSE acked[n]]
        /\ UNCHANGED <<nodes, nodeList, nodeLoading, nodeEditInfo, testing,
                       nodeMoves, astray>>
CloseIf(kind, cond) ==
    nodeDialog' = IF cond /\ nodeDialog.kind = kind THEN NoNodeDialog ELSE nodeDialog

OnNodeSaved(s) ==
    /\ nodeWire[s].op \in {"add", "edit"} /\ NodeAnswered(s)
    /\ CloseIf(nodeWire[s].op, nodeWire[s].ok)
    /\ UNCHANGED deploying
OnKeyRegenerated(s) ==
    nodeWire[s].op = "regenerate" /\ NodeAnswered(s) /\ UNCHANGED <<nodeDialog, deploying>>
(* The delete dialog closes whatever the answer.                              *)
OnNodeDeleted(s) ==
    /\ nodeWire[s].op = "delete" /\ NodeAnswered(s)
    /\ CloseIf("delete", TRUE)
    /\ UNCHANGED deploying
OnDeployed(s) ==
    /\ nodeWire[s].op \in DeployKinds /\ NodeAnswered(s)
    /\ deploying' = [deploying EXCEPT ![nodeWire[s].op] = FALSE]
    /\ UNCHANGED nodeDialog
OnTested(s) ==
    /\ nodeWire[s].op = "test" /\ Answered(nodeWire, s)
    /\ nodeWire' = [nodeWire EXCEPT ![s] = NoNodeCall]
    /\ testing' = [testing EXCEPT ![nodeWire[s].kind] = FALSE]
    /\ UNCHANGED <<nodes, nodeList, npSpinners, npUser, deploying, nodeMoves, npHistory>>

(* The call fails in the transport.  .finally runs, the .then that clears the *)
(* spinner of a list call does not.                                           *)
NodeCallFails(s) ==
    LET c == nodeWire[s]
    IN  /\ Failing(nodeWire, s)
        /\ nodeWire' = [nodeWire EXCEPT ![s] = NoNodeCall]
        /\ CloseIf("delete", c.op = "delete")
        /\ deploying' = [k \in DeployKinds |-> deploying[k] /\ c.op # k]
        /\ testing' = [k \in DeployKinds |-> testing[k] /\ ~(c.op = "test" /\ c.kind = k)]
        /\ astray' = (astray \/ c.op \in NodeListOps)
        /\ UNCHANGED <<nodes, nodeList, npSpinners, nodeEditInfo, nodeMoves, acked>>

NodePageNext ==
    \/ \E s \in Slots : RefreshNodeList(s) \/ NodeAddSubmit(s) \/ NodeEditSubmit(s)
                        \/ DeleteNode(s) \/ HandleTestConnection(s)
    \/ \E s \in Slots, k \in DeployKinds : HandleDeploy(s, k)
    \/ \E s \in Slots, n \in EdgeNodes : HandleRegenerateKey(s, n)
    \/ ShowNodeAddDialog \/ OpenDeployNew \/ CloseNodeDialog \/ FillNodeForm
    \/ \E n \in EdgeNodes : ShowNodeEditDialog(n) \/ ShowNodeDeleteDialog(n)
                            \/ OpenDeploy(n) \/ NodeChangesElsewhere(n)
    \/ \E s \in Slots : ServeNode(s) \/ OnNodeList(s) \/ OnNodeSaved(s)
                        \/ OnKeyRegenerated(s) \/ OnNodeDeleted(s)
                        \/ OnDeployed(s) \/ OnTested(s) \/ NodeCallFails(s)

NodePageSpec == NodePageInit /\ [][NodePageNext]_npVars

-----------------------------------------------------------------------------
NodePageTypeOK ==
    /\ nodes \in NodeRows /\ nodeWire \in [Slots -> NodeCall] /\ nodeList \in NodeRows
    /\ nodeLoading \in BOOLEAN /\ nodeRefreshLoading \in BOOLEAN
    /\ nodeDialog \in [kind : {"none", "add", "edit", "delete"} \cup DeployKinds,
                       node : MaybeNode, of : MaybeNode, filled : BOOLEAN]
    /\ nodeEditInfo \in MaybeNode
    /\ deploying \in [DeployKinds -> BOOLEAN] /\ testing \in [DeployKinds -> BOOLEAN]
    /\ nodeMoves \in Nat
    /\ acked \in [EdgeNodes -> Nat] /\ astray \in BOOLEAN

LiveCall(s) == nodeWire[s].stage \in {"sent", "done"}

(* The log and the result of a deployment come to the dialog that asked for   *)
(* it: while one waits its dialog is open, shows the node that is deployed    *)
(* and spins, so there is no second one (NodeList.js:523-525, 566, 582).      *)
DeployDialogHeld ==
    \A s \in Slots, k \in DeployKinds : LiveCall(s) /\ nodeWire[s].op = k =>
        /\ deploying[k]
        /\ nodeDialog.kind = k /\ nodeDialog.node = nodeWire[s].node
        /\ \A r \in Slots \ {s} : LiveCall(r) => nodeWire[r].op # k

(* A dialog tests one connection at a time, even if it is closed and opened   *)
(* again in between, and never for nothing (NodeList.js:532, 550).            *)
TestingExplained ==
    \A k \in DeployKinds :
        LET tests == {s \in Slots : LiveCall(s) /\ nodeWire[s].op = "test"
                                    /\ nodeWire[s].kind = k}
        IN  Cardinality(tests) = (IF testing[k] THEN 1 ELSE 0)

(* What this page has changed it shows: no row older than the answer to a     *)
(* change of its own (an old key, a deleted node), unless a list call is      *)
(* still under way, brought nothing, or was overtaken by a later one          *)
(* (refreshNodeList, NodeList.js:79-84).                                      *)
ChangesShown ==
    \/ astray
    \/ \E s \in Slots : LiveCall(s) /\ nodeWire[s].op \in NodeListOps
    \/ \A n \in EdgeNodes : nodeList[n].ver >= acked[n]

(* A form is saved to the node it was filled from: PUT /node/:node_id edits   *)
(* that node (README.md:539).  NodeEdit fills it from the node of the last    *)
(* render (NodeList.js:443-449), which is the one edited before.              *)
NodeEditSavesItsNode ==
    \A s \in Slots : nodeWire[s].op = "edit" => nodeWire[s].of = nodeWire[s].node
=============================================================================
