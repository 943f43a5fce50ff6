---------------------------- MODULE NodePageProofs ----------------------------
(***************************************************************************)
(* Theorems about NodePage, for every set of nodes and any number of calls *)
(* under way and of changes.                                               *)
(***************************************************************************)
EXTENDS NodePage, FiniteSetTheorems, TLAPS

USE NodePageAssumption, MaxCallsAssumption

(***************************************************************************)
(* Types.                                                                  *)
(***************************************************************************)
NodeRow == [live : BOOLEAN, ver : Nat]
NodeDialog == [kind : {"none", "add", "edit", "delete"} \cup DeployKinds,
               node : MaybeNode, of : MaybeNode, filled : BOOLEAN]

LEMMA NodeRowTypes ==
  /\ Unused \in NodeRow /\ NoNodeRows \in [EdgeNodes -> NodeRow]
  /\ [Unused EXCEPT !.live = TRUE] \in NodeRow
  /\ \A n \in EdgeNodes : NoNodeRows[n].ver = 0
<1>1. Unused \in NodeRow /\ Unused.ver = 0
  BY DEF Unused, NodeRow
<1>2. [Unused EXCEPT !.live = TRUE] \in NodeRow
  BY <1>1 DEF NodeRow
<1>3. QED
  BY <1>1, <1>2 DEF NoNodeRows

LEMMA NodeNoCallType ==
  /\ NoNodeCall \in NodeCall /\ NoNodeCall.stage = "none" /\ NoNodeCall.op = "load"
  /\ NoNodeCall.list = NoNodeRows /\ NoNodeCall.ok = FALSE
<1>1. NoNodeCall \in NodeCall
  BY NodeRowTypes
  DEF NoNodeCall, NodeCall, Stages, NodeOps, NodeListOps, MaybeNode, DeployKinds, NodeRows,
      NodeRow
<1>2. QED
  BY <1>1 DEF NoNodeCall

LEMMA NodeListCallType ==
  ASSUME NEW op \in NodeListOps
  PROVE  /\ NodeListCall(op) \in NodeCall /\ NodeListCall(op).stage = "sent"
         /\ NodeListCall(op).op = op /\ NodeListCall(op).list = NoNodeRows
         /\ NodeListCall(op).ok = FALSE
<1>1. NodeListCall(op) \in NodeCall
  BY NodeNoCallType DEF NodeListCall, NodeCall, Stages, NodeOps
<1>2. QED
  BY <1>1 DEF NodeListCall, NoNodeCall

LEMMA NodeInitType == NodePageInit => NodePageTypeOK
<1> SUFFICES ASSUME NodePageInit PROVE NodePageTypeOK
  OBVIOUS
<1>1. nodes \in [EdgeNodes -> NodeRow] /\ nodeList \in [EdgeNodes -> NodeRow]
  BY NodeRowTypes DEF NodePageInit
<1>2. nodeWire \in [Slots -> NodeCall]
  <2>1. NodeListCall("load") \in NodeCall
    BY NodeListCallType DEF NodeListOps
  <2>2. QED
    BY <2>1, NodeNoCallType DEF NodePageInit
<1>3. nodeDialog \in NodeDialog
  BY DEF NodePageInit, NoNodeDialog, NodeDialog, MaybeNode
<1>4. QED
  BY <1>1, <1>2, <1>3 DEF NodePageInit, NodePageTypeOK, NodeRows, NodeRow, NodeDialog, MaybeNode

(* What the calls and the dialogs of the user look like.                   *)
FormCall(op) ==
  [NoNodeCall EXCEPT !.stage = "sent", !.op = op,
     !.node = IF op = "test" THEN NoEdgeNode ELSE nodeDialog.node,
     !.of = nodeDialog.of,
     !.kind = IF nodeDialog.kind = "deployNew" THEN "deployNew" ELSE "deploy"]

LEMMA FormCallType ==
  ASSUME NodePageTypeOK, NEW op \in NodeOps
  PROVE  /\ FormCall(op) \in NodeCall
         /\ FormCall(op).stage = "sent" /\ FormCall(op).op = op
         /\ op # "test" => FormCall(op).node = nodeDialog.node
         /\ nodeDialog.kind \in DeployKinds => FormCall(op).kind = nodeDialog.kind
         /\ FormCall(op).list = NoNodeRows /\ FormCall(op).ok = FALSE
<1>1. FormCall(op) \in NodeCall
  <2>1. nodeDialog.node \in MaybeNode /\ nodeDialog.of \in MaybeNode /\ NoEdgeNode \in MaybeNode
    BY DEF NodePageTypeOK, MaybeNode
  <2>2. QED
    BY <2>1, NodeNoCallType DEF FormCall, NodeCall, Stages, DeployKinds
<1>2. /\ FormCall(op).stage = "sent" /\ FormCall(op).op = op
      /\ op # "test" => FormCall(op).node = nodeDialog.node
      /\ FormCall(op).list = NoNodeRows /\ FormCall(op).ok = FALSE
      /\ FormCall(op).kind = IF nodeDialog.kind = "deployNew" THEN "deployNew" ELSE "deploy"
  BY DEF FormCall, NoNodeCall
<1>3. QED
  BY <1>1, <1>2 DEF DeployKinds

KeyCall(n) == [NoNodeCall EXCEPT !.stage = "sent", !.op = "regenerate", !.node = n]

LEMMA KeyCallType ==
  ASSUME NEW n \in EdgeNodes
  PROVE  /\ KeyCall(n) \in NodeCall /\ KeyCall(n).stage = "sent"
         /\ KeyCall(n).op = "regenerate"
         /\ KeyCall(n).list = NoNodeRows /\ KeyCall(n).ok = FALSE
<1>1. KeyCall(n) \in NodeCall
  BY NodeNoCallType DEF KeyCall, NodeCall, Stages, NodeOps, MaybeNode
<1>2. QED
  BY <1>1 DEF KeyCall, NoNodeCall

(* A change gives one node a new version.                                  *)
LEMMA NodeChangedType ==
  ASSUME NodePageTypeOK, NEW op, NEW n \in EdgeNodes, NodeChanged(op, n)
  PROVE  nodes' \in [EdgeNodes -> NodeRow] /\ \A m \in EdgeNodes : nodes'[m].ver >= nodes[m].ver
<1>1. nodes \in [EdgeNodes -> NodeRow]
  BY DEF NodePageTypeOK, NodeRows, NodeRow
<1>2. nodes[n].ver \in Nat /\ (op # "delete") \in BOOLEAN
  BY <1>1 DEF NodeRow
<1>3. [live |-> op # "delete", ver |-> nodes[n].ver + 1] \in NodeRow
  BY <1>2 DEF NodeRow
<1>4. nodes' = [nodes EXCEPT ![n] = [live |-> op # "delete", ver |-> nodes[n].ver + 1]]
  BY DEF NodeChanged
<1>5. nodes' \in [EdgeNodes -> NodeRow]
  BY <1>1, <1>3, <1>4
<1>6. \A m \in EdgeNodes : nodes'[m].ver >= nodes[m].ver
  BY <1>1, <1>2, <1>4 DEF NodeRow
<1>7. QED
  BY <1>5, <1>6

(* What the server makes of a call: the answer of a list call has all      *)
(* rows, that of a change the new one, a refusal what the call had.        *)
Reply(s, reply) ==
  /\ nodeWire[s].stage = "sent" /\ nodeWire' = [nodeWire EXCEPT ![s] = reply]
  /\ reply \in NodeCall /\ reply.stage = "done"
  /\ reply.op = nodeWire[s].op /\ reply.node = nodeWire[s].node
  /\ reply.kind = nodeWire[s].kind
  /\ \/ reply.ok = nodeWire[s].ok /\ reply.list = nodeWire[s].list
     \/ reply.ok /\ reply.list = nodes /\ reply.op \in NodeListOps
     \/ /\ reply.ok /\ reply.op \notin NodeListOps
        /\ \A n \in EdgeNodes : reply.list[n] \in {nodeWire[s].list[n], nodes'[n]}

LEMMA ServeNodeReply ==
  ASSUME NodePageTypeOK, NEW s \in Slots, ServeNode(s)
  PROVE  /\ \E reply : Reply(s, reply)
         /\ nodes' \in [EdgeNodes -> NodeRow]
         /\ \A n \in EdgeNodes : nodes'[n].ver >= nodes[n].ver
<1> DEFINE c == nodeWire[s]
           done == [c EXCEPT !.stage = "done"]
<1>1. c \in NodeCall /\ nodes \in [EdgeNodes -> NodeRow]
  BY DEF NodePageTypeOK, NodeRows, NodeRow
<1>2. \A n \in EdgeNodes : nodes[n].ver >= nodes[n].ver
  BY <1>1 DEF NodeRow
<1>3. /\ done \in NodeCall /\ done.stage = "done" /\ done.op = c.op /\ done.node = c.node
      /\ done.kind = c.kind /\ done.ok = c.ok /\ done.list = c.list
  BY <1>1 DEF NodeCall, Stages
<1>4. c.stage = "sent"
  BY DEF ServeNode
<1> HIDE DEF done
<1>5. CASE UNCHANGED nodes /\ nodeWire' = [nodeWire EXCEPT ![s] = done]
  BY <1>1, <1>2, <1>3, <1>4, <1>5 DEF Reply
<1>6. CASE /\ c.op \in NodeListOps /\ UNCHANGED nodes
           /\ nodeWire' = [nodeWire EXCEPT ![s] = [done EXCEPT !.ok = TRUE, !.list = nodes]]
  <2> DEFINE reply == [done EXCEPT !.ok = TRUE, !.list = nodes]
  <2>1. /\ reply \in NodeCall /\ reply.stage = "done" /\ reply.op = c.op
        /\ reply.node = c.node /\ reply.kind = c.kind /\ reply.ok /\ reply.list = nodes
    BY <1>1, <1>3 DEF NodeCall, NodeRows, NodeRow
  <2> HIDE DEF reply
  <2>2. nodeWire' = [nodeWire EXCEPT ![s] = reply]
    BY <1>6 DEF reply
  <2>3. Reply(s, reply)
    BY <1>4, <1>6, <2>1, <2>2 DEF Reply
  <2>4. QED
    BY <1>1, <1>2, <1>6, <2>3
<1>7. ASSUME NEW n \in EdgeNodes, c.op \notin NodeListOps, NodeChanged(c.op, n),
             nodeWire' = [nodeWire EXCEPT ![s] = [done EXCEPT !.ok = TRUE, !.list[n] = nodes'[n]]]
      PROVE  /\ \E reply : Reply(s, reply)
             /\ nodes' \in [EdgeNodes -> NodeRow]
             /\ \A m \in EdgeNodes : nodes'[m].ver >= nodes[m].ver
  <2> DEFINE reply == [done EXCEPT !.ok = TRUE, !.list[n] = nodes'[n]]
  <2>1. nodes' \in [EdgeNodes -> NodeRow] /\ \A m \in EdgeNodes : nodes'[m].ver >= nodes[m].ver
    BY <1>7, NodeChangedType
  <2>2. c.list \in [EdgeNodes -> NodeRow]
    BY <1>1 DEF NodeCall, NodeRows, NodeRow
  <2>3. /\ reply.stage = "done" /\ reply.op = c.op
        /\ reply.node = c.node /\ reply.kind = c.kind /\ reply.ok
        /\ reply.list = [c.list EXCEPT ![n] = nodes'[n]]
    BY <1>1, <1>3 DEF NodeCall
  <2>4. reply.list \in [EdgeNodes -> NodeRow]
    BY <2>1, <2>2, <2>3
  <2>5. reply \in NodeCall
    BY <1>3, <2>1, <2>2 DEF NodeCall, NodeRows, NodeRow
  <2> HIDE DEF reply
  <2>6. nodeWire' = [nodeWire EXCEPT ![s] = reply]
    BY <1>7 DEF reply
  <2>7. \A m \in EdgeNodes : reply.list[m] \in {c.list[m], nodes'[m]}
    BY <2>2, <2>3
  <2>8. Reply(s, reply)
    BY <1>4, <1>7, <2>3, <2>5, <2>6, <2>7 DEF Reply
  <2>9. QED
    BY <2>1, <2>8
<1>8. QED
  BY <1>5, <1>6, <1>7 DEF ServeNode, done

LEMMA NodeUserStepType ==
  ASSUME NodePageTypeOK,
         \/ \E s \in Slots : RefreshNodeList(s) \/ NodeAddSubmit(s) \/ NodeEditSubmit(s)
                              \/ DeleteNode(s) \/ HandleTestConnection(s)
         \/ \E s \in Slots, k \in DeployKinds : HandleDeploy(s, k)
         \/ \E s \in Slots, n \in EdgeNodes : HandleRegenerateKey(s, n)
         \/ ShowNodeAddDialog \/ OpenDeployNew \/ CloseNodeDialog \/ FillNodeForm
         \/ \E n \in EdgeNodes : ShowNodeEditDialog(n) \/ ShowNodeDeleteDialog(n)
                                 \/ OpenDeploy(n)
  PROVE  NodePageTypeOK'
<1> USE DEF npSpinners, npUser, npDeploy, npHistory
<1>a. /\ nodeWire \in [Slots -> NodeCall] /\ nodeEditInfo \in MaybeNode /\ nodeMoves \in Nat
      /\ nodeDialog \in NodeDialog /\ NoEdgeNode \in MaybeNode /\ EdgeNodes \subseteq MaybeNode
      /\ deploying \in [DeployKinds -> BOOLEAN] /\ testing \in [DeployKinds -> BOOLEAN]
  BY DEF NodePageTypeOK, NodeDialog, MaybeNode
<1>b. ASSUME UNCHANGED <<nodes, nodeList, nodeLoading, npHistory>>,
             nodeWire' \in [Slots -> NodeCall], nodeRefreshLoading' \in BOOLEAN,
             nodeDialog' \in NodeDialog, nodeEditInfo' \in MaybeNode,
             deploying' \in [DeployKinds -> BOOLEAN], testing' \in [DeployKinds -> BOOLEAN],
             nodeMoves' \in Nat
      PROVE  NodePageTypeOK'
  BY <1>b DEF NodePageTypeOK, NodeDialog
<1>c. NodeMove => nodeMoves' \in Nat
  BY <1>a DEF NodeMove
<1>d. nodeRefreshLoading \in BOOLEAN
  BY DEF NodePageTypeOK
<1>1. ASSUME NEW s \in Slots, RefreshNodeList(s) PROVE NodePageTypeOK'
  <2>1. NodeListCall("refresh") \in NodeCall
    BY NodeListCallType DEF NodeListOps
  <2>2. QED
    BY <1>1, <1>a, <1>b, <2>1 DEF RefreshNodeList, SendNode
<1>2. ASSUME NEW s \in Slots, NEW op \in NodeOps, SubmitNode(s, op) PROVE
             nodeWire' \in [Slots -> NodeCall]
  <2>1. nodeWire' = [nodeWire EXCEPT ![s] = FormCall(op)]
    BY <1>2 DEF SubmitNode, SendNode, FormCall
  <2>2. QED
    BY <1>a, <2>1, FormCallType
<1>3. ASSUME NEW s \in Slots, NodeAddSubmit(s) \/ NodeEditSubmit(s) \/ DeleteNode(s)
      PROVE  NodePageTypeOK'
  <2>1. PICK op \in NodeOps : SubmitNode(s, op) /\ NodeMove /\ UNCHANGED npDeploy
    BY <1>3 DEF NodeAddSubmit, NodeEditSubmit, DeleteNode, NodeOps
  <2>2. UNCHANGED <<nodes, nodeList, npSpinners, npUser, npHistory>>
    BY <2>1 DEF SubmitNode
  <2>3. nodeWire' \in [Slots -> NodeCall]
    BY <1>2, <2>1
  <2>4. QED
    BY <1>a, <1>b, <1>c, <1>d, <2>1, <2>2, <2>3
<1>4. ASSUME NEW s \in Slots, HandleTestConnection(s) PROVE NodePageTypeOK'
  <2>1. SubmitNode(s, "test") /\ "test" \in NodeOps
    BY <1>4 DEF HandleTestConnection, NodeOps
  <2>2. UNCHANGED <<nodes, nodeList, npSpinners, npUser, npHistory>>
    BY <2>1 DEF SubmitNode
  <2>3. nodeWire' \in [Slots -> NodeCall]
    BY <1>2, <2>1
  <2>4. QED
    BY <1>4, <1>a, <1>b, <1>d, <2>2, <2>3 DEF HandleTestConnection
<1>5. ASSUME NEW s \in Slots, NEW k \in DeployKinds, HandleDeploy(s, k) PROVE NodePageTypeOK'
  <2>1. SubmitNode(s, k) /\ k \in NodeOps /\ NodeMove
    BY <1>5 DEF HandleDeploy, NodeOps
  <2>2. UNCHANGED <<nodes, nodeList, npSpinners, npUser, npHistory>>
    BY <2>1 DEF SubmitNode
  <2>3. nodeWire' \in [Slots -> NodeCall]
    BY <1>2, <2>1
  <2>4. QED
    BY <1>5, <1>a, <1>b, <1>c, <1>d, <2>1, <2>2, <2>3 DEF HandleDeploy
<1>6. ASSUME NEW s \in Slots, NEW n \in EdgeNodes, HandleRegenerateKey(s, n)
      PROVE  NodePageTypeOK'
  <2>1. nodeWire' = [nodeWire EXCEPT ![s] = KeyCall(n)]
    BY <1>6 DEF HandleRegenerateKey, SendNode, KeyCall
  <2>2. nodeWire' \in [Slots -> NodeCall]
    BY <1>a, <2>1, KeyCallType
  <2>3. QED
    BY <1>6, <1>a, <1>b, <1>c, <1>d, <2>2 DEF HandleRegenerateKey
<1>7. ASSUME NEW kind \in {"add", "edit", "delete"} \cup DeployKinds, NEW n \in MaybeNode,
             NEW of \in MaybeNode, OpenNodeDialog(kind, n, of)
      PROVE  nodeDialog' \in NodeDialog
  BY <1>7 DEF OpenNodeDialog, NodeDialog
<1>8. ASSUME \/ ShowNodeAddDialog \/ OpenDeployNew
             \/ \E n \in EdgeNodes : ShowNodeEditDialog(n) \/ ShowNodeDeleteDialog(n)
                                     \/ OpenDeploy(n)
      PROVE  NodePageTypeOK'
  <2>1. PICK kind \in {"add", "edit", "delete"} \cup DeployKinds, n \in MaybeNode,
             of \in MaybeNode : OpenNodeDialog(kind, n, of)
    BY <1>8, <1>a DEF ShowNodeAddDialog, OpenDeployNew, ShowNodeEditDialog,
                      ShowNodeDeleteDialog, OpenDeploy, ShowDeployDialog, DeployKinds
  <2>2. nodeEditInfo' \in MaybeNode /\ deploying' \in [DeployKinds -> BOOLEAN] /\ UNCHANGED testing
    BY <1>8, <1>a DEF ShowNodeAddDialog, OpenDeployNew, ShowNodeEditDialog,
                      ShowNodeDeleteDialog, OpenDeploy, ShowDeployDialog, DeployKinds
  <2>3. UNCHANGED <<nodes, nodeWire, nodeList, npSpinners, nodeMoves, npHistory>>
    BY <2>1 DEF OpenNodeDialog
  <2>4. nodeDialog' \in NodeDialog
    BY <1>7, <2>1
  <2>5. QED
    BY <1>a, <1>b, <1>d, <2>2, <2>3, <2>4
<1>9. CASE CloseNodeDialog
  BY <1>9, <1>a, <1>b, <1>d DEF CloseNodeDialog, NoNodeDialog, NodeDialog
<1>10. CASE FillNodeForm
  <2>1. nodeDialog' \in NodeDialog
    BY <1>10, <1>a DEF FillNodeForm, NodeDialog
  <2>2. QED
    BY <1>10, <1>a, <1>b, <1>d, <2>1 DEF FillNodeForm
<1>11. QED
  BY <1>1, <1>3, <1>4, <1>5, <1>6, <1>8, <1>9, <1>10

LEMMA NodeAnswerStepType ==
  ASSUME NodePageTypeOK,
         \/ \E n \in EdgeNodes : NodeChangesElsewhere(n)
         \/ \E s \in Slots : ServeNode(s) \/ OnNodeList(s) \/ OnNodeSaved(s)
                              \/ OnKeyRegenerated(s) \/ OnNodeDeleted(s)
                              \/ OnDeployed(s) \/ OnTested(s) \/ NodeCallFails(s)
  PROVE  NodePageTypeOK'
<1> USE DEF npSpinners, npUser, npDeploy, npHistory
<1>a. /\ nodeWire \in [Slots -> NodeCall] /\ nodeList \in [EdgeNodes -> NodeRow]
      /\ nodeDialog \in NodeDialog /\ NoNodeDialog \in NodeDialog
      /\ deploying \in [DeployKinds -> BOOLEAN] /\ testing \in [DeployKinds -> BOOLEAN]
      /\ acked \in [EdgeNodes -> Nat] /\ nodeMoves \in Nat
      /\ nodeLoading \in BOOLEAN /\ nodeRefreshLoading \in BOOLEAN /\ astray \in BOOLEAN
  BY DEF NodePageTypeOK, NodeDialog, NodeRows, NodeRow, NoNodeDialog, MaybeNode
<1>b. \A s \in Slots : /\ nodeWire[s] \in NodeCall
                       /\ nodeWire[s].list \in [EdgeNodes -> NodeRow]
                       /\ \A n \in EdgeNodes : nodeWire[s].list[n].ver \in Nat
                       /\ nodeWire[s].ok \in BOOLEAN
  BY <1>a DEF NodeCall, NodeRows, NodeRow
<1>1. ASSUME NEW n \in EdgeNodes, NodeChangesElsewhere(n) PROVE NodePageTypeOK'
  <2>1. nodes' \in [EdgeNodes -> NodeRow]
    BY <1>1, NodeChangedType DEF NodeChangesElsewhere
  <2>2. nodeMoves' \in Nat
    BY <1>1, <1>a DEF NodeChangesElsewhere, NodeMove
  <2>3. UNCHANGED <<nodeWire, nodeList, npSpinners, npUser, npDeploy, npHistory>>
    BY <1>1 DEF NodeChangesElsewhere
  <2>4. QED
    BY <2>1, <2>2, <2>3 DEF NodePageTypeOK, NodeRows, NodeRow
<1>2. ASSUME NEW s \in Slots, ServeNode(s) PROVE NodePageTypeOK'
  <2>1. nodes' \in [EdgeNodes -> NodeRow] /\ \E reply : Reply(s, reply)
    BY <1>2, ServeNodeReply
  <2>2. nodeWire' \in [Slots -> NodeCall]
    BY <1>a, <2>1 DEF Reply
  <2>3. UNCHANGED <<nodeList, npSpinners, npUser, npDeploy, nodeMoves, npHistory>>
    BY <1>2 DEF ServeNode
  <2>4. QED
    BY <2>1, <2>2, <2>3 DEF NodePageTypeOK, NodeRows, NodeRow
<1>3. ASSUME NEW s \in Slots, OnNodeList(s) PROVE NodePageTypeOK'
  <2>1. nodeWire' \in [Slots -> NodeCall]
    BY <1>3, <1>a, NodeNoCallType DEF OnNodeList
  <2>2. nodeList' \in [EdgeNodes -> NodeRow]
    BY <1>3, <1>a, <1>b DEF OnNodeList
  <2>3. nodeLoading' \in BOOLEAN /\ nodeRefreshLoading' \in BOOLEAN /\ astray' \in BOOLEAN
    BY <1>3 DEF OnNodeList
  <2>4. UNCHANGED <<nodes, npUser, npDeploy, nodeMoves, acked>>
    BY <1>3 DEF OnNodeList
  <2>5. QED
    BY <2>1, <2>2, <2>3, <2>4 DEF NodePageTypeOK, NodeRows, NodeRow
<1>4. ASSUME NEW s \in Slots, NodeAnswered(s)
      PROVE  /\ nodeWire' \in [Slots -> NodeCall] /\ nodeRefreshLoading' \in BOOLEAN
             /\ acked' \in [EdgeNodes -> Nat]
             /\ UNCHANGED <<nodes, nodeList, nodeLoading, nodeEditInfo, testing, nodeMoves, astray>>
  <2>1. NodeListCall("refresh") \in NodeCall
    BY NodeListCallType DEF NodeListOps
  <2>2. nodeWire' \in [Slots -> NodeCall]
    BY <1>4, <1>a, <2>1, NodeNoCallType DEF NodeAnswered
  <2>3. acked' \in [EdgeNodes -> Nat]
    BY <1>4, <1>a, <1>b DEF NodeAnswered
  <2>4. QED
    BY <1>4, <1>b, <2>2, <2>3 DEF NodeAnswered
<1>5. ASSUME NEW s \in Slots,
             OnNodeSaved(s) \/ OnKeyRegenerated(s) \/ OnNodeDeleted(s) \/ OnDeployed(s)
      PROVE  NodePageTypeOK'
  <2>1. NodeAnswered(s)
    BY <1>5 DEF OnNodeSaved, OnKeyRegenerated, OnNodeDeleted, OnDeployed
  <2>2. nodeDialog' \in NodeDialog /\ deploying' \in [DeployKinds -> BOOLEAN]
    BY <1>5, <1>a DEF OnNodeSaved, OnKeyRegenerated, OnNodeDeleted, OnDeployed, CloseIf
  <2>3. /\ nodeWire' \in [Slots -> NodeCall] /\ nodeRefreshLoading' \in BOOLEAN
        /\ acked' \in [EdgeNodes -> Nat]
        /\ UNCHANGED <<nodes, nodeList, nodeLoading, nodeEditInfo, testing, nodeMoves, astray>>
    BY <1>4, <2>1
  <2>4. QED
    BY <2>2, <2>3 DEF NodePageTypeOK, NodeDialog
<1>6. ASSUME NEW s \in Slots, OnTested(s) PROVE NodePageTypeOK'
  <2>1. nodeWire' \in [Slots -> NodeCall] /\ testing' \in [DeployKinds -> BOOLEAN]
    BY <1>6, <1>a, NodeNoCallType DEF OnTested
  <2>2. UNCHANGED <<nodes, nodeList, npSpinners, npUser, deploying, nodeMoves, npHistory>>
    BY <1>6 DEF OnTested
  <2>3. QED
    BY <2>1, <2>2 DEF NodePageTypeOK
<1>7. ASSUME NEW s \in Slots, NodeCallFails(s) PROVE NodePageTypeOK'
  <2>1. nodeWire' \in [Slots -> NodeCall] /\ nodeDialog' \in NodeDialog
    BY <1>7, <1>a, NodeNoCallType DEF NodeCallFails, CloseIf
  <2>2. deploying' \in [DeployKinds -> BOOLEAN] /\ testing' \in [DeployKinds -> BOOLEAN]
        /\ astray' \in BOOLEAN
    BY <1>7, <1>a DEF NodeCallFails
  <2>3. UNCHANGED <<nodes, nodeList, npSpinners, nodeEditInfo, nodeMoves, acked>>
    BY <1>7 DEF NodeCallFails
  <2>4. QED
    BY <2>1, <2>2, <2>3 DEF NodePageTypeOK, NodeDialog
<1>8. QED
  BY <1>1, <1>2, <1>3, <1>5, <1>6, <1>7

LEMMA NodeStepType == NodePageTypeOK /\ [NodePageNext]_npVars => NodePageTypeOK'
<1> SUFFICES ASSUME NodePageTypeOK, [NodePageNext]_npVars PROVE NodePageTypeOK'
  OBVIOUS
<1>1. CASE UNCHANGED npVars
  BY <1>1 DEF npVars, NodePageTypeOK
<1>2. CASE NodePageNext
  BY <1>2, NodeUserStepType, NodeAnswerStepType DEF NodePageNext
<1>3. QED
  BY <1>1, <1>2

(***************************************************************************)
(* The shapes of a step.  A call is sent from a free slot, empty; the      *)
(* slots that are not named keep their calls.                              *)
(***************************************************************************)
Sends(s, call) ==
  /\ nodeWire[s].stage = "none" /\ nodeWire' = [nodeWire EXCEPT ![s] = call]
  /\ call \in NodeCall /\ call.stage = "sent"
  /\ call.ok = FALSE /\ call.list = NoNodeRows

LEMMA SubmitShape ==
  ASSUME NodePageTypeOK, NEW s \in Slots, NEW op \in NodeOps, SubmitNode(s, op)
  PROVE  /\ Sends(s, FormCall(op)) /\ FormCall(op).op = op
         /\ op # "test" => FormCall(op).node = nodeDialog.node
         /\ nodeDialog.kind \in DeployKinds => FormCall(op).kind = nodeDialog.kind
         /\ UNCHANGED <<nodes, nodeList, nodeDialog, nodeEditInfo, acked, astray>>
<1>1. nodeWire[s].stage = "none" /\ nodeWire' = [nodeWire EXCEPT ![s] = FormCall(op)]
  BY DEF SubmitNode, SendNode, FreeSlot, FormCall
<1>2. UNCHANGED <<nodes, nodeList, nodeDialog, nodeEditInfo, acked, astray>>
  BY DEF SubmitNode, npUser, npHistory
<1>3. QED
  BY <1>1, <1>2, FormCallType DEF Sends

LEMMA RefreshShape ==
  ASSUME NodePageTypeOK, NEW s \in Slots, RefreshNodeList(s)
  PROVE  /\ Sends(s, NodeListCall("refresh")) /\ NodeListCall("refresh").op = "refresh"
         /\ UNCHANGED <<nodes, nodeList, nodeDialog, nodeEditInfo, npDeploy, acked, astray>>
<1>1. "refresh" \in NodeListOps
  BY DEF NodeListOps
<1>2. QED
  BY <1>1, NodeListCallType
  DEF RefreshNodeList, SendNode, FreeSlot, Sends, npUser, npHistory

LEMMA KeyShape ==
  ASSUME NodePageTypeOK, NEW s \in Slots, NEW n \in EdgeNodes, HandleRegenerateKey(s, n)
  PROVE  /\ Sends(s, KeyCall(n)) /\ KeyCall(n).op = "regenerate"
         /\ UNCHANGED <<nodes, nodeList, nodeDialog, nodeEditInfo, npDeploy, acked, astray>>
  BY KeyCallType
  DEF HandleRegenerateKey, SendNode, FreeSlot, Sends, KeyCall, npUser, npHistory

LEMMA OpenShape ==
  ASSUME \/ ShowNodeAddDialog \/ OpenDeployNew
         \/ \E n \in EdgeNodes : ShowNodeEditDialog(n) \/ ShowNodeDeleteDialog(n)
                                 \/ OpenDeploy(n)
  PROVE  nodeDialog.kind = "none" /\ UNCHANGED <<nodes, nodeWire, nodeList, testing, acked, astray>>
  BY DEF ShowNodeAddDialog, OpenDeployNew, ShowNodeEditDialog, ShowNodeDeleteDialog, OpenDeploy,
         ShowDeployDialog, OpenNodeDialog, OnNodePage, npDeploy, npHistory

(* A handler leaves an empty slot or, after a change, a refresh.           *)
LEMMA AnsweredShape ==
  ASSUME NodePageTypeOK, NEW s \in Slots,
         \/ OnNodeSaved(s) \/ OnKeyRegenerated(s) \/ OnNodeDeleted(s) \/ OnDeployed(s)
  PROVE  /\ NodeAnswered(s) /\ LiveCall(s)
         /\ nodeWire[s].op \notin NodeListOps \cup {"test"}
         /\ \E call : /\ nodeWire' = [nodeWire EXCEPT ![s] = call]
                      /\ \/ call = NoNodeCall /\ ~nodeWire[s].ok
                         \/ call = NodeListCall("refresh") /\ nodeWire[s].ok
         /\ UNCHANGED <<nodes, nodeList, testing, astray>>
<1>1. NodeAnswered(s)
  BY DEF OnNodeSaved, OnKeyRegenerated, OnNodeDeleted, OnDeployed
<1>2. nodeWire[s].op \notin NodeListOps \cup {"test"}
  BY DEF OnNodeSaved, OnKeyRegenerated, OnNodeDeleted, OnDeployed, NodeListOps, DeployKinds
<1>3. nodeWire' = [nodeWire EXCEPT ![s] =
                    IF nodeWire[s].ok THEN NodeListCall("refresh") ELSE NoNodeCall]
  BY <1>1 DEF NodeAnswered
<1>4. \E call : /\ nodeWire' = [nodeWire EXCEPT ![s] = call]
                /\ \/ call = NoNodeCall /\ ~nodeWire[s].ok
                   \/ call = NodeListCall("refresh") /\ nodeWire[s].ok
  <2>1. CASE nodeWire[s].ok
    BY <1>3, <2>1
  <2>2. CASE ~nodeWire[s].ok
    BY <1>3, <2>2
  <2>3. QED
    BY <2>1, <2>2
<1>5. LiveCall(s)
  BY <1>1 DEF NodeAnswered, Answered, LiveCall
<1>6. UNCHANGED <<nodes, nodeList, testing, astray>>
  BY <1>1 DEF NodeAnswered
<1>7. QED
  BY <1>1, <1>2, <1>4, <1>5, <1>6

(***************************************************************************)
(* DeployDialogHeld: with the types it is inductive.                       *)
(***************************************************************************)
LEMMA HeldFrame ==
  ASSUME DeployDialogHeld,
         \A s \in Slots, k \in DeployKinds : (LiveCall(s) /\ nodeWire[s].op = k)' =>
            /\ LiveCall(s) /\ nodeWire[s].op = k /\ nodeWire'[s].node = nodeWire[s].node
            /\ deploying'[k]
            /\ nodeDialog'.kind = nodeDialog.kind /\ nodeDialog'.node = nodeDialog.node
  PROVE  DeployDialogHeld'
  BY DEF DeployDialogHeld

LEMMA HeldSend ==
  ASSUME NodePageTypeOK, DeployDialogHeld, NEW s \in Slots, NEW call, Sends(s, call),
         call.op \notin DeployKinds, UNCHANGED <<nodeDialog, deploying>>
  PROVE  DeployDialogHeld'
<1>1. nodeWire \in [Slots -> NodeCall]
  BY DEF NodePageTypeOK
<1>2. \A r \in Slots \ {s} : nodeWire'[r] = nodeWire[r]
  BY <1>1 DEF Sends
<1>3. nodeWire'[s] = call
  BY <1>1 DEF Sends
<1>4. QED
  BY <1>2, <1>3, HeldFrame DEF DeployDialogHeld, LiveCall

LEMMA HeldAnswer ==
  ASSUME NodePageTypeOK, DeployDialogHeld, NEW s \in Slots, NEW call,
         nodeWire' = [nodeWire EXCEPT ![s] = call],
         call = NoNodeCall \/ call = NodeListCall("refresh"),
         \A r \in Slots \ {s}, k \in DeployKinds : LiveCall(r) /\ nodeWire[r].op = k =>
            /\ deploying'[k]
            /\ nodeDialog'.kind = nodeDialog.kind /\ nodeDialog'.node = nodeDialog.node
  PROVE  DeployDialogHeld'
<1>1. nodeWire \in [Slots -> NodeCall]
  BY DEF NodePageTypeOK
<1>2. \A r \in Slots \ {s} : nodeWire'[r] = nodeWire[r]
  BY <1>1
<1>3. nodeWire'[s] = call
  BY <1>1
<1>4. call.op \notin DeployKinds
  BY NodeNoCallType, NodeListCallType DEF NodeListOps, DeployKinds
<1>5. QED
  BY <1>2, <1>3, <1>4, HeldFrame DEF LiveCall

LEMMA HeldStep ==
  ASSUME NodePageTypeOK, DeployDialogHeld, [NodePageNext]_npVars
  PROVE  DeployDialogHeld'
<1> USE DEF npDeploy
<1>a. /\ nodeWire \in [Slots -> NodeCall] /\ nodeDialog \in NodeDialog
      /\ deploying \in [DeployKinds -> BOOLEAN]
  BY DEF NodePageTypeOK, NodeDialog
<1>b. "none" \notin DeployKinds
  BY DEF DeployKinds
<1>1. ASSUME NEW s \in Slots, RefreshNodeList(s) PROVE DeployDialogHeld'
  BY <1>1, RefreshShape, HeldSend DEF DeployKinds
<1>2. ASSUME NEW s \in Slots,
             NodeAddSubmit(s) \/ NodeEditSubmit(s) \/ DeleteNode(s) \/ HandleTestConnection(s)
      PROVE  DeployDialogHeld'
  <2>1. PICK op \in {"add", "edit", "delete", "test"} : SubmitNode(s, op) /\ UNCHANGED deploying
    BY <1>2 DEF NodeAddSubmit, NodeEditSubmit, DeleteNode, HandleTestConnection
  <2>2. op \in NodeOps /\ op \notin DeployKinds
    BY DEF NodeOps, DeployKinds
  <2>3. QED
    BY <2>1, <2>2, SubmitShape, HeldSend
<1>3. ASSUME NEW s \in Slots, NEW k \in DeployKinds, HandleDeploy(s, k)
      PROVE  DeployDialogHeld'
  <2>1. k \in NodeOps /\ k # "test"
    BY DEF NodeOps, DeployKinds
  <2>2. /\ Sends(s, FormCall(k)) /\ FormCall(k).op = k
        /\ FormCall(k).node = nodeDialog.node /\ UNCHANGED nodeDialog
    BY <1>3, <2>1, SubmitShape DEF HandleDeploy
  <2>3. nodeDialog.kind = k /\ ~deploying[k] /\ deploying'[k]
    BY <1>3, <1>a DEF HandleDeploy
  <2>4. \A r \in Slots : LiveCall(r) => nodeWire[r].op \notin DeployKinds
    BY <2>3 DEF DeployDialogHeld
  <2>5. nodeWire'[s] = FormCall(k) /\ \A r \in Slots \ {s} : nodeWire'[r] = nodeWire[r]
    BY <2>2, <1>a DEF Sends
  <2> HIDE DEF FormCall
  <2>6. QED
    BY <2>2, <2>3, <2>4, <2>5 DEF DeployDialogHeld, LiveCall
<1>4. ASSUME NEW s \in Slots, NEW n \in EdgeNodes, HandleRegenerateKey(s, n)
      PROVE  DeployDialogHeld'
  BY <1>4, KeyShape, HeldSend DEF DeployKinds
<1>5. ASSUME \/ ShowNodeAddDialog \/ OpenDeployNew
             \/ \E n \in EdgeNodes : ShowNodeEditDialog(n) \/ ShowNodeDeleteDialog(n)
                                     \/ OpenDeploy(n)
      PROVE  DeployDialogHeld'
  BY <1>5, <1>b, OpenShape DEF DeployDialogHeld, LiveCall
<1>6. CASE CloseNodeDialog
  <2>1. UNCHANGED nodeWire /\ (nodeDialog.kind \in DeployKinds => ~deploying[nodeDialog.kind])
    BY <1>6 DEF CloseNodeDialog
  <2>2. QED
    BY <2>1 DEF DeployDialogHeld, LiveCall
<1>7. CASE FillNodeForm
  <2>1. UNCHANGED <<nodeWire, deploying>>
    BY <1>7 DEF FillNodeForm
  <2>2. nodeDialog'.kind = nodeDialog.kind /\ nodeDialog'.node = nodeDialog.node
    BY <1>7, <1>a DEF FillNodeForm, NodeDialog
  <2>3. QED
    BY <2>1, <2>2 DEF DeployDialogHeld, LiveCall
<1>8. ASSUME NEW n \in EdgeNodes, NodeChangesElsewhere(n) PROVE DeployDialogHeld'
  <2>1. UNCHANGED <<nodeWire, nodeDialog, deploying>>
    BY <1>8 DEF NodeChangesElsewhere, npUser
  <2>2. QED
    BY <2>1 DEF DeployDialogHeld, LiveCall
<1>9. ASSUME NEW s \in Slots, ServeNode(s) PROVE DeployDialogHeld'
  <2>1. PICK reply : Reply(s, reply)
    BY <1>9, ServeNodeReply
  <2>2. nodeWire'[s] = reply /\ \A r \in Slots \ {s} : nodeWire'[r] = nodeWire[r]
    BY <2>1, <1>a DEF Reply
  <2>3. LiveCall(s) /\ reply.op = nodeWire[s].op /\ reply.node = nodeWire[s].node
    BY <2>1 DEF Reply, LiveCall
  <2>4. UNCHANGED <<nodeDialog, deploying>>
    BY <1>9 DEF ServeNode, npUser
  <2>5. QED
    BY <2>2, <2>3, <2>4, HeldFrame DEF DeployDialogHeld, LiveCall
<1>10. ASSUME NEW s \in Slots, OnNodeList(s) \/ OnTested(s) PROVE DeployDialogHeld'
  <2>1. nodeWire' = [nodeWire EXCEPT ![s] = NoNodeCall] /\ UNCHANGED <<nodeDialog, deploying>>
    BY <1>10 DEF OnNodeList, OnTested, npUser
  <2>2. QED
    BY <2>1, HeldAnswer DEF DeployDialogHeld
<1>11. ASSUME NEW s \in Slots,
              OnNodeSaved(s) \/ OnKeyRegenerated(s) \/ OnNodeDeleted(s) \/ OnDeployed(s)
       PROVE  DeployDialogHeld'
  <2>1. PICK call : /\ nodeWire' = [nodeWire EXCEPT ![s] = call]
                    /\ call = NoNodeCall \/ call = NodeListCall("refresh")
    BY <1>11, AnsweredShape
  <2>2. LiveCall(s)
    BY <1>11, AnsweredShape
  <2>3. \A r \in Slots \ {s}, k \in DeployKinds : LiveCall(r) /\ nodeWire[r].op = k =>
           /\ deploying'[k] /\ UNCHANGED nodeDialog
    <3>1. CASE OnNodeSaved(s)
      BY <3>1 DEF OnNodeSaved, CloseIf, DeployDialogHeld, DeployKinds
    <3>2. CASE OnKeyRegenerated(s)
      BY <3>2 DEF OnKeyRegenerated, DeployDialogHeld
    <3>3. CASE OnNodeDeleted(s)
      BY <3>3 DEF OnNodeDeleted, CloseIf, DeployDialogHeld, DeployKinds
    <3>4. CASE OnDeployed(s)
      BY <3>4, <2>2, <1>a DEF OnDeployed, DeployDialogHeld
    <3>5. QED
      BY <1>11, <3>1, <3>2, <3>3, <3>4
  <2>4. QED
    BY <2>1, <2>3, HeldAnswer
<1>12. ASSUME NEW s \in Slots, NodeCallFails(s) PROVE DeployDialogHeld'
  <2>1. nodeWire' = [nodeWire EXCEPT ![s] = NoNodeCall] /\ LiveCall(s)
    BY <1>12 DEF NodeCallFails, Failing, LiveCall
  <2>2. \A k \in DeployKinds : deploying'[k] = (deploying[k] /\ nodeWire[s].op # k)
    BY <1>12 DEF NodeCallFails
  <2>3. nodeDialog' = nodeDialog \/ nodeDialog.kind = "delete"
    BY <1>12 DEF NodeCallFails, CloseIf
  <2>4. \A r \in Slots \ {s}, k \in DeployKinds : LiveCall(r) /\ nodeWire[r].op = k =>
           /\ deploying'[k] /\ UNCHANGED nodeDialog
    BY <2>1, <2>2, <2>3 DEF DeployDialogHeld, DeployKinds
  <2>5. QED
    BY <2>1, <2>4, HeldAnswer
<1>13. CASE UNCHANGED npVars
  BY <1>13 DEF npVars, DeployDialogHeld, LiveCall
<1>14. QED
  BY <1>1, <1>2, <1>3, <1>4, <1>5, <1>6, <1>7, <1>8, <1>9, <1>10, <1>11, <1>12, <1>13
  DEF NodePageNext

(***************************************************************************)
(* TestingExplained: a dialog that tests has one test under way, one that  *)
(* does not has none.                                                      *)
(***************************************************************************)
TestUnderWay(s, k) == LiveCall(s) /\ nodeWire[s].op = "test" /\ nodeWire[s].kind = k
TestInv ==
  \A k \in DeployKinds :
    /\ testing[k] => \E s \in Slots : TestUnderWay(s, k)
    /\ \A s \in Slots : TestUnderWay(s, k) => testing[k]
    /\ \A s, r \in Slots : TestUnderWay(s, k) /\ TestUnderWay(r, k) => s = r

(* The calls keep what they are about, apart from those of one slot that   *)
(* take their spinner with them.                                           *)
LEMMA TestFrame ==
  ASSUME TestInv, NEW gone \in SUBSET Slots,
         \A r \in Slots, k \in DeployKinds :
            TestUnderWay(r, k)' <=> TestUnderWay(r, k) /\ r \notin gone,
         \A k \in DeployKinds :
            testing'[k] <=> testing[k] /\ \A s \in gone : ~TestUnderWay(s, k)
  PROVE  TestInv'
  BY DEF TestInv

LEMMA TestSend ==
  ASSUME NodePageTypeOK, TestInv, NEW s \in Slots, NEW call, Sends(s, call),
         call.op # "test", UNCHANGED testing
  PROVE  TestInv'
<1>1. nodeWire \in [Slots -> NodeCall]
  BY DEF NodePageTypeOK
<1>2. \A r \in Slots \ {s} : nodeWire'[r] = nodeWire[r]
  BY <1>1 DEF Sends
<1>3. nodeWire'[s] = call /\ ~LiveCall(s)
  BY <1>1 DEF Sends, LiveCall
<1>4. \A r \in Slots, k \in DeployKinds : TestUnderWay(r, k)' <=> TestUnderWay(r, k)
  BY <1>2, <1>3 DEF TestUnderWay, LiveCall
<1>5. QED
  BY <1>4, TestFrame, {} \in SUBSET Slots

LEMMA TestAnswer ==
  ASSUME NodePageTypeOK, TestInv, NEW s \in Slots, NEW call,
         nodeWire' = [nodeWire EXCEPT ![s] = call],
         call = NoNodeCall \/ call = NodeListCall("refresh"),
         \A k \in DeployKinds : testing'[k] <=> testing[k] /\ ~TestUnderWay(s, k)
  PROVE  TestInv'
<1>1. nodeWire \in [Slots -> NodeCall]
  BY DEF NodePageTypeOK
<1>2. nodeWire'[s] = call /\ \A r \in Slots \ {s} : nodeWire'[r] = nodeWire[r]
  BY <1>1
<1>3. call.op # "test"
  BY NodeNoCallType, NodeListCallType DEF NodeListOps
<1>4. \A r \in Slots, k \in DeployKinds :
         TestUnderWay(r, k)' <=> TestUnderWay(r, k) /\ r \notin {s}
  BY <1>2, <1>3 DEF TestUnderWay, LiveCall
<1>5. QED
  BY <1>4, TestFrame, {s} \in SUBSET Slots

LEMMA TestStep ==
  ASSUME NodePageTypeOK, TestInv, [NodePageNext]_npVars
  PROVE  TestInv'
<1> USE DEF npDeploy
<1>a. nodeWire \in [Slots -> NodeCall] /\ testing \in [DeployKinds -> BOOLEAN]
  BY DEF NodePageTypeOK
<1>b. ASSUME UNCHANGED <<nodeWire, testing>> PROVE TestInv'
  BY <1>b DEF TestInv, TestUnderWay, LiveCall
<1>1. ASSUME NEW s \in Slots, RefreshNodeList(s) PROVE TestInv'
  BY <1>1, RefreshShape, TestSend
<1>2. ASSUME NEW s \in Slots, NEW op \in NodeOps \ {"test"}, SubmitNode(s, op), UNCHANGED testing
      PROVE  TestInv'
  BY <1>2, SubmitShape, TestSend
<1>3. ASSUME NEW s \in Slots,
             \/ NodeAddSubmit(s) \/ NodeEditSubmit(s) \/ DeleteNode(s)
             \/ \E k \in DeployKinds : HandleDeploy(s, k)
      PROVE  TestInv'
  <2>1. \E op \in {"add", "edit", "delete"} \cup DeployKinds :
           SubmitNode(s, op) /\ UNCHANGED testing
    BY <1>3 DEF NodeAddSubmit, NodeEditSubmit, DeleteNode, HandleDeploy
  <2>2. QED
    BY <1>2, <2>1 DEF NodeOps, DeployKinds
<1>4. ASSUME NEW s \in Slots, HandleTestConnection(s) PROVE TestInv'
  <2>1. PICK kind \in DeployKinds :
           /\ nodeDialog.kind = kind /\ ~testing[kind] /\ SubmitNode(s, "test")
           /\ testing' = [testing EXCEPT ![kind] = TRUE]
    BY <1>4 DEF HandleTestConnection
  <2>2. /\ Sends(s, FormCall("test")) /\ FormCall("test").op = "test"
        /\ FormCall("test").kind = kind
    BY <2>1, SubmitShape DEF NodeOps
  <2> HIDE DEF FormCall
  <2>3. /\ nodeWire'[s] = FormCall("test") /\ ~LiveCall(s) /\ FormCall("test").stage = "sent"
        /\ \A r \in Slots \ {s} : nodeWire'[r] = nodeWire[r]
    BY <2>2, <1>a DEF Sends, LiveCall
  <2>4. \A r \in Slots, k \in DeployKinds :
           TestUnderWay(r, k)' <=> TestUnderWay(r, k) \/ (r = s /\ k = kind)
    BY <2>2, <2>3 DEF TestUnderWay, LiveCall
  <2>5. \A k \in DeployKinds : testing'[k] <=> testing[k] \/ k = kind
    BY <2>1, <1>a
  <2>6. QED
    BY <2>1, <2>4, <2>5 DEF TestInv
<1>5. ASSUME NEW s \in Slots, NEW n \in EdgeNodes, HandleRegenerateKey(s, n) PROVE TestInv'
  BY <1>5, KeyShape, TestSend
<1>6. ASSUME \/ ShowNodeAddDialog \/ OpenDeployNew
             \/ \E n \in EdgeNodes : ShowNodeEditDialog(n) \/ ShowNodeDeleteDialog(n)
                                     \/ OpenDeploy(n)
      PROVE  TestInv'
  BY <1>6, <1>b, OpenShape
<1>7. ASSUME \/ CloseNodeDialog \/ FillNodeForm
             \/ \E n \in EdgeNodes : NodeChangesElsewhere(n)
      PROVE  TestInv'
  BY <1>7, <1>b DEF CloseNodeDialog, FillNodeForm, NodeChangesElsewhere
<1>8. ASSUME NEW s \in Slots, ServeNode(s) PROVE TestInv'
  <2>1. PICK reply : Reply(s, reply)
    BY <1>8, ServeNodeReply
  <2>2. nodeWire'[s] = reply /\ \A r \in Slots \ {s} : nodeWire'[r] = nodeWire[r]
    BY <2>1, <1>a DEF Reply
  <2>3. \A r \in Slots, k \in DeployKinds : TestUnderWay(r, k)' <=> TestUnderWay(r, k)
    BY <2>1, <2>2 DEF Reply, TestUnderWay, LiveCall
  <2>4. UNCHANGED testing
    BY <1>8 DEF ServeNode
  <2>5. QED
    BY <2>3, <2>4, TestFrame, {} \in SUBSET Slots
<1>9. ASSUME NEW s \in Slots, OnNodeList(s) PROVE TestInv'
  <2>1. /\ nodeWire' = [nodeWire EXCEPT ![s] = NoNodeCall] /\ UNCHANGED testing
        /\ nodeWire[s].op # "test"
    BY <1>9 DEF OnNodeList, NodeListOps
  <2>2. QED
    BY <2>1, TestAnswer DEF TestUnderWay
<1>10. ASSUME NEW s \in Slots,
              OnNodeSaved(s) \/ OnKeyRegenerated(s) \/ OnNodeDeleted(s) \/ OnDeployed(s)
       PROVE  TestInv'
  <2>1. PICK call : /\ nodeWire' = [nodeWire EXCEPT ![s] = call]
                    /\ call = NoNodeCall \/ call = NodeListCall("refresh")
    BY <1>10, AnsweredShape
  <2>2. nodeWire[s].op # "test" /\ UNCHANGED testing
    BY <1>10, AnsweredShape
  <2>3. QED
    BY <2>1, <2>2, TestAnswer DEF TestUnderWay
<1>11. ASSUME NEW s \in Slots, OnTested(s) PROVE TestInv'
  <2>1. /\ nodeWire' = [nodeWire EXCEPT ![s] = NoNodeCall] /\ nodeWire[s].op = "test"
        /\ testing' = [testing EXCEPT ![nodeWire[s].kind] = FALSE] /\ LiveCall(s)
    BY <1>11 DEF OnTested, Answered, LiveCall
  <2>2. \A k \in DeployKinds : testing'[k] <=> testing[k] /\ ~TestUnderWay(s, k)
    BY <2>1, <1>a DEF TestUnderWay
  <2>3. QED
    BY <2>1, <2>2, TestAnswer
<1>12. ASSUME NEW s \in Slots, NodeCallFails(s) PROVE TestInv'
  <2>1. /\ nodeWire' = [nodeWire EXCEPT ![s] = NoNodeCall] /\ LiveCall(s)
        /\ \A k \in DeployKinds : testing'[k] =
              (testing[k] /\ ~(nodeWire[s].op = "test" /\ nodeWire[s].kind = k))
    BY <1>12 DEF NodeCallFails, Failing, LiveCall
  <2>2. QED
    BY <2>1, TestAnswer DEF TestUnderWay
<1>13. CASE UNCHANGED npVars
  BY <1>13, <1>b DEF npVars
<1>14. QED
  BY <1>1, <1>3, <1>4, <1>5, <1>6, <1>7, <1>8, <1>9, <1>10, <1>11, <1>12, <1>13
  DEF NodePageNext

LEMMA TestCounts == NodePageTypeOK /\ TestInv => TestingExplained
<1> SUFFICES ASSUME NodePageTypeOK, TestInv, NEW k \in DeployKinds
             PROVE  Cardinality({s \in Slots : LiveCall(s) /\ nodeWire[s].op = "test"
                                                /\ nodeWire[s].kind = k})
                      = (IF testing[k] THEN 1 ELSE 0)
  BY DEF TestingExplained
<1> DEFINE tests == {s \in Slots : LiveCall(s) /\ nodeWire[s].op = "test" /\ nodeWire[s].kind = k}
<1>1. tests = {s \in Slots : TestUnderWay(s, k)}
  BY DEF TestUnderWay
<1>2. CASE testing[k]
  <2>1. PICK s \in Slots : TestUnderWay(s, k)
    BY <1>2 DEF TestInv
  <2>2. tests = {s}
    BY <1>1, <2>1 DEF TestInv
  <2>3. QED
    BY <1>2, <2>2, FS_Singleton
<1>3. CASE ~testing[k]
  <2>1. tests = {}
    BY <1>1, <1>3 DEF TestInv
  <2>2. QED
    BY <1>3, <2>1, FS_EmptySet
<1>4. QED
  BY <1>2, <1>3

(***************************************************************************)
(* ChangesShown: versions only grow, so what this page is told is no       *)
(* younger than the table, and a list that the server makes now has every  *)
(* change that the page has been told of.                                  *)
(***************************************************************************)
VersionInv ==
  /\ \A n \in EdgeNodes : nodes[n].ver >= acked[n]
  /\ \A s \in Slots, n \in EdgeNodes : nodes[n].ver >= nodeWire[s].list[n].ver
  /\ \A s \in Slots : ~nodeWire[s].ok => nodeWire[s].list = NoNodeRows
  /\ \A s \in Slots : nodeWire[s].stage = "sent" => nodeWire[s].ok = FALSE

(* A list call that brings every change of this page, or nothing.          *)
FreshCall(s) ==
  /\ LiveCall(s) /\ nodeWire[s].op \in NodeListOps
  /\ nodeWire[s].ok => \A n \in EdgeNodes : nodeWire[s].list[n].ver >= acked[n]
FreshInv ==
  \/ astray
  \/ \E s \in Slots : FreshCall(s)
  \/ \A n \in EdgeNodes : nodeList[n].ver >= acked[n]

LEMMA FreshFrame ==
  ASSUME FreshInv, UNCHANGED <<nodeList, acked, astray>>,
         \A s \in Slots : FreshCall(s) => FreshCall(s)'
  PROVE  FreshInv'
  BY DEF FreshInv

LEMMA ChangesSend ==
  ASSUME NodePageTypeOK, VersionInv, FreshInv, NEW s \in Slots, NEW call, Sends(s, call),
         UNCHANGED <<nodes, nodeList, acked, astray>>
  PROVE  VersionInv' /\ FreshInv'
<1>1. nodeWire \in [Slots -> NodeCall] /\ nodes \in [EdgeNodes -> NodeRow]
  BY DEF NodePageTypeOK, NodeRows, NodeRow
<1>2. nodeWire'[s] = call /\ \A r \in Slots \ {s} : nodeWire'[r] = nodeWire[r]
  BY <1>1 DEF Sends
<1>3. \A n \in EdgeNodes : nodes[n].ver >= call.list[n].ver
  BY <1>1, NodeRowTypes DEF Sends, NodeRow
<1>4. VersionInv'
  BY <1>2, <1>3 DEF VersionInv, Sends
<1>5. ~FreshCall(s)
  BY DEF Sends, FreshCall, LiveCall
<1>6. \A r \in Slots : FreshCall(r) => FreshCall(r)'
  BY <1>2, <1>5 DEF FreshCall, LiveCall
<1>7. QED
  BY <1>4, <1>6, FreshFrame

LEMMA ChangesServe ==
  ASSUME NodePageTypeOK, VersionInv, FreshInv, NEW s \in Slots, ServeNode(s)
  PROVE  VersionInv' /\ FreshInv'
<1> USE DEF npHistory
<1>1. PICK reply : Reply(s, reply)
  BY ServeNodeReply
<1>2. /\ nodes' \in [EdgeNodes -> NodeRow] /\ nodes \in [EdgeNodes -> NodeRow]
      /\ \A n \in EdgeNodes : nodes'[n].ver >= nodes[n].ver
      /\ UNCHANGED <<nodeList, acked, astray>>
  BY ServeNodeReply DEF ServeNode, NodePageTypeOK, NodeRows, NodeRow
<1>3. /\ nodeWire \in [Slots -> NodeCall] /\ acked \in [EdgeNodes -> Nat]
      /\ \A r \in Slots, n \in EdgeNodes : nodeWire[r].list[n].ver \in Nat
      /\ \A n \in EdgeNodes : nodes[n].ver \in Nat /\ nodes'[n].ver \in Nat
  BY <1>2 DEF NodePageTypeOK, NodeCall, NodeRows, NodeRow
<1>4. nodeWire'[s] = reply /\ \A r \in Slots \ {s} : nodeWire'[r] = nodeWire[r]
  BY <1>1, <1>3 DEF Reply
<1>5. \A n \in EdgeNodes : nodes'[n].ver >= acked'[n]
  BY <1>2, <1>3 DEF VersionInv
<1>6. \A r \in Slots, n \in EdgeNodes : nodes'[n].ver >= nodeWire'[r].list[n].ver
  <2> TAKE r \in Slots, n \in EdgeNodes
  <2>1. nodes'[n].ver >= nodeWire[r].list[n].ver
    BY <1>2, <1>3 DEF VersionInv
  <2>2. CASE r = s
    <3>1. reply.list[n] \in {nodeWire[s].list[n], nodes[n], nodes'[n]}
      BY <1>1 DEF Reply
    <3>2. QED
      BY <1>2, <1>3, <1>4, <2>1, <2>2, <3>1
  <2>3. QED
    BY <1>4, <2>1, <2>2
<1>7. nodeWire[s].ok = FALSE /\ nodeWire[s].list = NoNodeRows
  BY <1>1 DEF Reply, VersionInv
<1>8. \A r \in Slots : ~nodeWire'[r].ok => nodeWire'[r].list = NoNodeRows
  BY <1>1, <1>4, <1>7 DEF Reply, VersionInv
<1>9. \A r \in Slots : nodeWire'[r].stage = "sent" => nodeWire'[r].ok = FALSE
  BY <1>1, <1>4 DEF Reply, VersionInv
<1>10. \A r \in Slots : FreshCall(r) => FreshCall(r)'
  <2>1. FreshCall(s) => FreshCall(s)'
    <3>1. SUFFICES ASSUME FreshCall(s), reply.ok
                   PROVE  \A n \in EdgeNodes : reply.list[n].ver >= acked[n]
      BY <1>1, <1>2, <1>4 DEF Reply, FreshCall, LiveCall
    <3>2. reply.list = nodes
      BY <1>1, <1>7, <3>1 DEF Reply, FreshCall
    <3>3. QED
      BY <3>2 DEF VersionInv
  <2>2. QED
    BY <1>2, <1>4, <2>1 DEF FreshCall, LiveCall
<1>11. QED
  BY <1>2, <1>5, <1>6, <1>8, <1>9, <1>10, FreshFrame DEF VersionInv

(* A slot is emptied, or holds a refresh.                                  *)
LEMMA VersionAnswer ==
  ASSUME NodePageTypeOK, VersionInv, NEW s \in Slots, NEW call,
         nodeWire' = [nodeWire EXCEPT ![s] = call],
         call = NoNodeCall \/ call = NodeListCall("refresh"), UNCHANGED nodes,
         \A n \in EdgeNodes : nodes[n].ver >= acked'[n]
  PROVE  /\ VersionInv'
         /\ nodeWire'[s] = call /\ \A r \in Slots \ {s} : nodeWire'[r] = nodeWire[r]
<1>1. nodeWire \in [Slots -> NodeCall] /\ nodes \in [EdgeNodes -> NodeRow]
  BY DEF NodePageTypeOK, NodeRows, NodeRow
<1>2. nodeWire'[s] = call /\ \A r \in Slots \ {s} : nodeWire'[r] = nodeWire[r]
  BY <1>1
<1>3. call.list = NoNodeRows /\ call.ok = FALSE
  BY NodeNoCallType, NodeListCallType DEF NodeListOps
<1>4. \A n \in EdgeNodes : nodes[n].ver >= call.list[n].ver
  BY <1>1, <1>3, NodeRowTypes DEF NodeRow
<1>5. QED
  BY <1>2, <1>3, <1>4 DEF VersionInv

LEMMA ChangesList ==
  ASSUME NodePageTypeOK, VersionInv, FreshInv, NEW s \in Slots, OnNodeList(s)
  PROVE  VersionInv' /\ FreshInv'
<1>1. /\ LiveCall(s) /\ nodeWire' = [nodeWire EXCEPT ![s] = NoNodeCall]
      /\ nodeWire[s].op \in NodeListOps /\ UNCHANGED <<nodes, acked>>
      /\ nodeList' = IF nodeWire[s].ok THEN nodeWire[s].list ELSE nodeList
      /\ \/ astray'
         \/ /\ ~astray /\ nodeWire[s].ok
            /\ \A n \in EdgeNodes : ~(nodeWire[s].list[n].ver < nodeList[n].ver)
  BY DEF OnNodeList, Answered, LiveCall
<1>2. VersionInv' /\ \A r \in Slots \ {s} : nodeWire'[r] = nodeWire[r]
  BY <1>1, VersionAnswer DEF VersionInv
<1>3. /\ acked \in [EdgeNodes -> Nat] /\ \A n \in EdgeNodes : nodeList[n].ver \in Nat
      /\ \A n \in EdgeNodes : nodeWire[s].list[n].ver \in Nat
  BY DEF NodePageTypeOK, NodeCall, NodeRows
<1>4. CASE astray'
  BY <1>2, <1>4 DEF FreshInv
<1>5. CASE ~astray'
  <2>1. /\ nodeWire[s].ok /\ nodeList' = nodeWire[s].list /\ ~astray
        /\ \A n \in EdgeNodes : nodeWire[s].list[n].ver >= nodeList[n].ver
    BY <1>1, <1>3, <1>5
  <2>2. CASE \E r \in Slots \ {s} : FreshCall(r)
    <3>1. PICK r \in Slots \ {s} : FreshCall(r)
      BY <2>2
    <3>2. FreshCall(r)'
      BY <1>1, <1>2, <3>1 DEF FreshCall, LiveCall
    <3>3. QED
      BY <1>2, <3>2 DEF FreshInv
  <2>3. CASE FreshCall(s) \/ \A n \in EdgeNodes : nodeList[n].ver >= acked[n]
    <3>1. \A n \in EdgeNodes : nodeWire[s].list[n].ver >= acked[n]
      BY <1>3, <2>1, <2>3 DEF FreshCall
    <3>2. QED
      BY <1>1, <1>2, <2>1, <3>1 DEF FreshInv
  <2>4. QED
    BY <2>1, <2>2, <2>3 DEF FreshInv
<1>6. QED
  BY <1>4, <1>5

LEMMA ChangesAnswered ==
  ASSUME NodePageTypeOK, VersionInv, FreshInv, NEW s \in Slots,
         \/ OnNodeSaved(s) \/ OnKeyRegenerated(s) \/ OnNodeDeleted(s) \/ OnDeployed(s)
  PROVE  VersionInv' /\ FreshInv'
<1>1. /\ NodeAnswered(s) /\ nodeWire[s].op \notin NodeListOps
      /\ UNCHANGED <<nodes, nodeList, astray>>
  BY AnsweredShape
<1>2. PICK call : /\ nodeWire' = [nodeWire EXCEPT ![s] = call]
                  /\ \/ call = NoNodeCall /\ ~nodeWire[s].ok
                     \/ call = NodeListCall("refresh") /\ nodeWire[s].ok
  BY AnsweredShape
<1>3. /\ acked \in [EdgeNodes -> Nat] /\ \A n \in EdgeNodes : nodeWire[s].list[n].ver \in Nat
  BY DEF NodePageTypeOK, NodeCall, NodeRows
<1>4. \A n \in EdgeNodes : acked'[n] =
         IF nodeWire[s].list[n].ver > acked[n] THEN nodeWire[s].list[n].ver ELSE acked[n]
  BY <1>1 DEF NodeAnswered
<1>5. \A n \in EdgeNodes : nodes[n].ver >= acked'[n]
  BY <1>4 DEF VersionInv
<1>6. VersionInv' /\ nodeWire'[s] = call /\ \A r \in Slots \ {s} : nodeWire'[r] = nodeWire[r]
  BY <1>1, <1>2, <1>5, VersionAnswer
<1>7. CASE nodeWire[s].ok
  <2>1. nodeWire'[s] = NodeListCall("refresh")
    BY <1>2, <1>6, <1>7
  <2>2. FreshCall(s)'
    BY <2>1, NodeListCallType DEF FreshCall, LiveCall, NodeListOps
  <2>3. QED
    BY <1>6, <2>2 DEF FreshInv
<1>8. CASE ~nodeWire[s].ok
  <2>1. nodeWire[s].list = NoNodeRows
    BY <1>8 DEF VersionInv
  <2>2. \A n \in EdgeNodes : acked'[n] = acked[n]
    BY <1>3, <1>4, <2>1, NodeRowTypes
  <2>3. \A r \in Slots : FreshCall(r) => r # s
    BY <1>1 DEF FreshCall
  <2>4. \A r \in Slots : FreshCall(r) => FreshCall(r)'
    BY <1>6, <2>2, <2>3 DEF FreshCall, LiveCall
  <2>5. FreshInv'
    BY <1>1, <2>2, <2>4 DEF FreshInv
  <2>6. QED
    BY <1>6, <2>5
<1>9. QED
  BY <1>7, <1>8

LEMMA ChangesOther ==
  ASSUME NodePageTypeOK, VersionInv, FreshInv, NEW s \in Slots,
         \/ OnTested(s) \/ NodeCallFails(s)
  PROVE  VersionInv' /\ FreshInv'
<1> USE DEF npHistory
<1>1. /\ nodeWire' = [nodeWire EXCEPT ![s] = NoNodeCall] /\ UNCHANGED <<nodes, nodeList, acked>>
      /\ astray' \/ (UNCHANGED astray /\ nodeWire[s].op \notin NodeListOps)
  <2>1. CASE OnTested(s)
    BY <2>1 DEF OnTested, NodeListOps
  <2>2. CASE NodeCallFails(s)
    <3>1. /\ nodeWire' = [nodeWire EXCEPT ![s] = NoNodeCall]
          /\ UNCHANGED <<nodes, nodeList, acked>>
      BY <2>2 DEF NodeCallFails
    <3>2. astray \in BOOLEAN /\ astray' \in BOOLEAN
      BY <2>2, NodeAnswerStepType DEF NodePageTypeOK
    <3>3. astray \/ nodeWire[s].op \in NodeListOps => astray'
      BY <2>2 DEF NodeCallFails
    <3>4. astray' \/ (UNCHANGED astray /\ nodeWire[s].op \notin NodeListOps)
      BY <3>2, <3>3
    <3>5. QED
      BY <3>1, <3>4
  <2>3. QED
    BY <2>1, <2>2
<1>2. VersionInv' /\ \A r \in Slots \ {s} : nodeWire'[r] = nodeWire[r]
  BY <1>1, VersionAnswer DEF VersionInv
<1>3. CASE astray'
  BY <1>2, <1>3 DEF FreshInv
<1>4. CASE UNCHANGED astray /\ nodeWire[s].op \notin NodeListOps
  <2>1. \A r \in Slots : FreshCall(r) => FreshCall(r)'
    BY <1>1, <1>2, <1>4 DEF FreshCall, LiveCall
  <2>2. QED
    BY <1>1, <1>2, <1>4, <2>1, FreshFrame
<1>5. QED
  BY <1>1, <1>3, <1>4

LEMMA ChangesStep ==
  ASSUME NodePageTypeOK, VersionInv, FreshInv, [NodePageNext]_npVars
  PROVE  VersionInv' /\ FreshInv'
<1> USE DEF npHistory
<1>a. ASSUME UNCHANGED <<nodes, nodeWire, nodeList, acked, astray>> PROVE VersionInv' /\ FreshInv'
  BY <1>a DEF VersionInv, FreshInv, FreshCall, LiveCall
<1>1. ASSUME NEW s \in Slots, RefreshNodeList(s) PROVE VersionInv' /\ FreshInv'
  BY <1>1, RefreshShape, ChangesSend
<1>2. ASSUME NEW s \in Slots,
             \/ NodeAddSubmit(s) \/ NodeEditSubmit(s) \/ DeleteNode(s)
             \/ HandleTestConnection(s) \/ \E k \in DeployKinds : HandleDeploy(s, k)
      PROVE  VersionInv' /\ FreshInv'
  <2>1. PICK op \in NodeOps : SubmitNode(s, op)
    BY <1>2 DEF NodeAddSubmit, NodeEditSubmit, DeleteNode, HandleTestConnection, HandleDeploy,
                NodeOps
  <2>2. QED
    BY <2>1, SubmitShape, ChangesSend
<1>3. ASSUME NEW s \in Slots, NEW n \in EdgeNodes, HandleRegenerateKey(s, n)
      PROVE  VersionInv' /\ FreshInv'
  BY <1>3, KeyShape, ChangesSend
<1>4. ASSUME \/ ShowNodeAddDialog \/ OpenDeployNew
             \/ \E n \in EdgeNodes : ShowNodeEditDialog(n) \/ ShowNodeDeleteDialog(n)
                                     \/ OpenDeploy(n)
      PROVE  VersionInv' /\ FreshInv'
  BY <1>4, <1>a, OpenShape
<1>5. ASSUME CloseNodeDialog \/ FillNodeForm PROVE VersionInv' /\ FreshInv'
  BY <1>5, <1>a DEF CloseNodeDialog, FillNodeForm
<1>6. ASSUME NEW n \in EdgeNodes, NodeChangesElsewhere(n) PROVE VersionInv' /\ FreshInv'
  <2>1. UNCHANGED <<nodeWire, nodeList, acked, astray>>
    BY <1>6 DEF NodeChangesElsewhere
  <2>2. \A m \in EdgeNodes : nodes'[m].ver >= nodes[m].ver /\ nodes'[m].ver \in Nat
    BY <1>6, NodeChangedType DEF NodeChangesElsewhere, NodeRow
  <2>3. /\ acked \in [EdgeNodes -> Nat] /\ \A m \in EdgeNodes : nodes[m].ver \in Nat
        /\ \A s \in Slots, m \in EdgeNodes : nodeWire[s].list[m].ver \in Nat
    BY DEF NodePageTypeOK, NodeCall, NodeRows
  <2>4. VersionInv'
    BY <2>1, <2>2, <2>3 DEF VersionInv
  <2>5. FreshInv'
    BY <2>1 DEF FreshInv, FreshCall, LiveCall
  <2>6. QED
    BY <2>4, <2>5
<1>7. ASSUME NEW s \in Slots,
             \/ ServeNode(s) \/ OnNodeList(s) \/ OnNodeSaved(s) \/ OnKeyRegenerated(s)
             \/ OnNodeDeleted(s) \/ OnDeployed(s) \/ OnTested(s) \/ NodeCallFails(s)
      PROVE  VersionInv' /\ FreshInv'
  BY <1>7, ChangesServe, ChangesList, ChangesAnswered, ChangesOther
<1>8. CASE UNCHANGED npVars
  BY <1>8, <1>a DEF npVars
<1>9. QED
  BY <1>1, <1>2, <1>3, <1>4, <1>5, <1>6, <1>7, <1>8 DEF NodePageNext

(***************************************************************************)
(* The theorems.                                                           *)
(***************************************************************************)
NodePageInv ==
  NodePageTypeOK /\ DeployDialogHeld /\ TestInv /\ VersionInv /\ FreshInv

LEMMA NodePageInvInit == NodePageInit => NodePageInv
<1> SUFFICES ASSUME NodePageInit PROVE NodePageInv
  OBVIOUS
<1>1. NodePageTypeOK
  BY NodeInitType
<1>2. "load" \in NodeListOps
  BY DEF NodeListOps
<1>3. /\ \A s \in Slots : nodeWire[s] \in {NodeListCall("load"), NoNodeCall}
      /\ \A s \in Slots : /\ nodeWire[s].op = "load" /\ nodeWire[s].ok = FALSE
                          /\ nodeWire[s].list = NoNodeRows
  BY <1>2, NodeNoCallType, NodeListCallType DEF NodePageInit
<1>4. \A n \in EdgeNodes : nodes[n].ver \in Nat /\ nodeList[n].ver = 0 /\ acked[n] = 0
  BY <1>1, NodeRowTypes DEF NodePageInit, NodePageTypeOK, NodeRows
<1>5. DeployDialogHeld
  BY <1>3 DEF DeployDialogHeld, DeployKinds
<1>6. TestInv
  <2>1. \A k \in DeployKinds : ~testing[k]
    BY DEF NodePageInit
  <2>2. \A s \in Slots, k \in DeployKinds : ~TestUnderWay(s, k)
    BY <1>3 DEF TestUnderWay
  <2>3. QED
    BY <2>1, <2>2 DEF TestInv
<1>7. VersionInv
  BY <1>3, <1>4, NodeRowTypes DEF VersionInv
<1>8. FreshInv
  BY <1>4 DEF FreshInv
<1>9. QED
  BY <1>1, <1>5, <1>6, <1>7, <1>8 DEF NodePageInv

LEMMA NodePageInvStep == NodePageInv /\ [NodePageNext]_npVars => NodePageInv'
  BY NodeStepType, HeldStep, TestStep, ChangesStep DEF NodePageInv

LEMMA NodePageInvHolds == NodePageSpec => []NodePageInv
  BY NodePageInvInit, NodePageInvStep, PTL DEF NodePageSpec

(* The variables of the node page have their types.                        *)
THEOREM NodePageType == NodePageSpec => []NodePageTypeOK
<1>1. NodePageInv => NodePageTypeOK
  BY DEF NodePageInv
<1>2. QED
  BY <1>1, NodePageInvHolds, PTL

(* While a deployment is under way the dialog it was asked from is open,   *)
(* shows its node and spins, so that there is never a second one           *)
(* (NodeList.js:523-525, 566, 582).                                        *)
THEOREM NodePageDeploy == NodePageSpec => []DeployDialogHeld
<1>1. NodePageInv => DeployDialogHeld
  BY DEF NodePageInv
<1>2. QED
  BY <1>1, NodePageInvHolds, PTL

(* A deployment dialog spins over "test connection" exactly while one test *)
(* is under way, however often it is closed and opened again               *)
(* (NodeList.js:532, 550).                                                 *)
THEOREM NodePageTesting == NodePageSpec => []TestingExplained
<1>1. NodePageInv => TestingExplained
  BY TestCounts DEF NodePageInv
<1>2. QED
  BY <1>1, NodePageInvHolds, PTL

(* A change that this page has made and was told of is in the table it     *)
(* shows, unless a list call is still under way, brought nothing or was    *)
(* overtaken by a later one (NodeList.js:79-84).                           *)
THEOREM NodePageChanges == NodePageSpec => []ChangesShown
<1>1. NodePageInv => ChangesShown
  BY DEF NodePageInv, FreshInv, FreshCall, ChangesShown
<1>2. QED
  BY <1>1, NodePageInvHolds, PTL
=============================================================================
