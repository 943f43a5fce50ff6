----------------------------- MODULE PushProofs -----------------------------
(***************************************************************************)
(* Theorems about Push, for every set of pages, topics, components and     *)
(* goroutines that push, every capacity and every number of connections.   *)
(***************************************************************************)
EXTENDS Push, FiniteSetTheorems, TLAPS

USE HubAssumption, PushAssumption

(***************************************************************************)
(* Connections and records.                                                *)
(***************************************************************************)

LEMMA ConnParts ==
  ASSUME NEW c \in Conn
  PROVE  c[1] \in Browsers /\ c # NoConn
BY DEF Conn, NoConn

LEMMA CurrentConn ==
  ASSUME TypeOK, NEW b \in Browsers
  PROVE  Current(b) \in Conn /\ Current(b)[1] = b
<1>1. ws[b].conn \in 1..MaxConns
  BY DEF TypeOK, PageTypeOK, WebSocket
<1>2. QED
  BY <1>1 DEF Current, Conn

LEMMA NullRecords ==
  NoClient \in Client /\ IdlePub \in Pub /\ IdleHub \in Hub
BY DEF NoClient, Client, IdlePub, Pub, IdleHub, Hub

LEMMA ListedConns == Listed \subseteq Conn
BY DEF Listed

LEMMA FrameTypes ==
  ASSUME NEW x \in Topics PROVE Sub(x) \in Frame /\ Unsub(x) \in Frame
BY DEF Sub, Unsub, Frame

(***************************************************************************)
(* The type invariant.                                                     *)
(***************************************************************************)

LEMMA InitType == Init => TypeOK
<1> SUFFICES ASSUME Init PROVE TypeOK
  OBVIOUS
<1>1. HubTypeOK
  BY NullRecords DEF Init, HubInit, HubTypeOK
<1>2. PageTypeOK
  BY DEF Init, PageTypeOK, WebSocket
<1>3. QED
  BY <1>1, <1>2 DEF TypeOK

LEMMA DeathType ==
  ASSUME TypeOK, ServerDies PROVE HubTypeOK'
BY NullRecords DEF ServerDies, TypeOK, HubTypeOK

(* Each step of a connection leaves a record of its client.                *)
LEMMA ConnectionType ==
  ASSUME TypeOK, NEW c \in Conn, Serve(c) \/ Read(c) \/ Write(c) \/ Cut(c) \/ Upgrade(c)
  PROVE  HubTypeOK'
<1> USE DEF TypeOK, HubTypeOK
<1>0. client[c] \in Client /\ c[1] \in Browsers
  BY ConnParts
<1>1. CASE Upgrade(c)
  <2>1. [client[c] EXCEPT !.handler = "register"] \in Client
    BY <1>0 DEF Client
  <2>2. QED
    BY <1>1, <2>1 DEF Upgrade
<1>2. CASE RegisterClient(c)
  <2>1. [client[c] EXCEPT !.handler = "services"] \in Client
    BY <1>0 DEF Client
  <2>2. QED
    BY <1>0, <1>2, <2>1 DEF RegisterClient
<1>3. CASE StartServices(c)
  <2>1. [client[c] EXCEPT !.handler = "maps", !.reader = "read", !.writer = "take"]
          \in Client
    BY <1>0 DEF Client
  <2>2. client' \in [Conn -> Client]
    BY <1>3, <2>1 DEF StartServices
  <2>3. QED
    BY <1>3, <2>2 DEF StartServices
<1>4. CASE MakeMaps(c)
  <2>1. [client[c] EXCEPT !.handler = "done", !.made = TRUE] \in Client
    BY <1>0 DEF Client
  <2>2. QED
    BY <1>4, <2>1 DEF MakeMaps
<1>5. CASE ReadFrame(c)
  <2>1. Head(up[c]) \in Frame /\ Tail(up[c]) \in Seq(Frame)
    BY <1>5 DEF ReadFrame
  <2>2. toggleSubscribe(client[c].subscribed, Head(up[c])) \in SUBSET Topics
    BY <1>0, <2>1 DEF toggleSubscribe, Client, Frame
  <2>3. [client[c] EXCEPT !.subscribed = toggleSubscribe(@, Head(up[c]))] \in Client
    BY <1>0, <2>2 DEF Client
  <2>4. QED
    BY <1>5, <2>1, <2>3 DEF ReadFrame
<1>6. CASE ReadPanics(c)
  BY <1>6, DeathType DEF ReadPanics
<1>7. CASE ReadFails(c)
  <2>1. [client[c] EXCEPT !.reader = "unregister"] \in Client
    BY <1>0 DEF Client
  <2>2. QED
    BY <1>7, <2>1 DEF ReadFails
<1>8. CASE UnregisterClient(c)
  <2>1. [client[c] EXCEPT !.reader = "done"] \in Client
    BY <1>0 DEF Client
  <2>2. QED
    BY <1>0, <1>8, <2>1 DEF UnregisterClient
<1>9. CASE TakeMessage(c)
  <2>1. client[c].Message \in 0..MessageCap
    BY <1>0 DEF Client
  <2>2. client[c].Message - 1 \in 0..MessageCap
    BY <1>9, <2>1 DEF TakeMessage
  <2>3. [client[c] EXCEPT !.writer = "write", !.Message = @ - 1] \in Client
    BY <1>0, <2>2 DEF Client
  <2>4. QED
    BY <1>9, <2>3 DEF TakeMessage
<1>10. CASE WriteMessage(c)
  <2>1. [client[c] EXCEPT !.writer = "take"] \in Client
    BY <1>0 DEF Client
  <2>2. down[c] < SocketCap => down[c] + 1 \in 0..SocketCap
    OBVIOUS
  <2>3. down' \in [Conn -> 0..SocketCap]
    BY <1>10, <2>2 DEF WriteMessage
  <2>4. QED
    BY <1>10, <2>1, <2>3 DEF WriteMessage
<1>11. CASE Cut(c)
  BY <1>11 DEF Cut
<1>12. QED
  BY <1>1, <1>2, <1>3, <1>4, <1>5, <1>6, <1>7, <1>8, <1>9, <1>10, <1>11
     DEF Serve, Read, Write

LEMMA PublisherType ==
  ASSUME TypeOK, NEW p \in Publishers,
         \/ \E x \in Topics : SendSubscribed(p, x)
         \/ \E x \in LogTopics : SendNewTaskLogFormOrm(p, x)
         \/ Walk(p)
         \/ TakePush(p)
  PROVE  HubTypeOK'
<1> USE DEF TypeOK, HubTypeOK
<1>0. pub[p] \in Pub
  OBVIOUS
<1>1. ASSUME NEW x \in Topics, SendSubscribed(p, x) PROVE HubTypeOK'
  <2>1. [pc |-> "send", topic |-> x, todo |-> {}] \in Pub
    BY DEF Pub
  <2>2. QED
    BY <1>1, <2>1 DEF SendSubscribed
<1>2. ASSUME NEW x \in LogTopics, SendNewTaskLogFormOrm(p, x) PROVE HubTypeOK'
  <2>1. [pc |-> "walk", topic |-> x, todo |-> Listed] \in Pub
    BY ListedConns DEF Pub
  <2>2. QED
    BY <1>2, <2>1 DEF SendNewTaskLogFormOrm
<1>3. ASSUME NEW c \in Conn, AutoSubscribe(p, c) PROVE HubTypeOK'
  <2>1. [pub[p] EXCEPT !.todo = @ \ {c}] \in Pub
    BY <1>0 DEF Pub
  <2>2. [client[c] EXCEPT !.subscribed = @ \cup {pub[p].topic}] \in Client
    <3>1. client[c] \in Client
      OBVIOUS
    <3>2. pub[p].topic \in Topics
      BY <1>0 DEF Pub
    <3>3. client[c].subscribed \cup {pub[p].topic} \in SUBSET Topics
      BY <3>1, <3>2 DEF Client
    <3>4. QED
      BY <3>1, <3>3 DEF Client
  <2>3. client' \in [Conn -> Client]
    BY <1>3, <2>2 DEF AutoSubscribe
  <2>4. QED
    BY <1>3, <2>1, <2>3 DEF AutoSubscribe
<1>4. CASE SendAdd(p)
  <2>1. [pc |-> "send", topic |-> AddTopic, todo |-> {}] \in Pub
    BY DEF Pub
  <2>2. QED
    BY <1>4, <2>1 DEF SendAdd
<1>5. CASE TakePush(p)
  <2>1. [pc |-> "push", topic |-> pub[p].topic, todo |-> Listed] \in Hub
    BY <1>0, ListedConns DEF Pub, Hub
  <2>2. QED
    BY <1>5, <2>1, NullRecords DEF TakePush
<1>6. QED
  BY <1>1, <1>2, <1>3, <1>4, <1>5 DEF Walk

LEMMA PushToType ==
  ASSUME TypeOK, PushTo PROVE HubTypeOK'
<1> USE DEF TypeOK, HubTypeOK
<1>1. CASE PushDone
  BY <1>1, NullRecords DEF PushDone
<1>2. ASSUME NEW c \in Conn, SendSubscribedInfo(c) PROVE HubTypeOK'
  <2>1. [hub EXCEPT !.todo = @ \ {c}] \in Hub
    BY DEF Hub
  <2>2. CASE UNCHANGED client
    BY <1>2, <2>1, <2>2 DEF SendSubscribedInfo
  <2>3. CASE /\ client[c].Message < MessageCap
             /\ client' = [client EXCEPT ![c].Message = @ + 1]
    <3>1. client[c] \in Client /\ client[c].Message \in 0..MessageCap
      BY DEF Client
    <3>2. client[c].Message + 1 \in 0..MessageCap
      BY <2>3, <3>1
    <3>3. [client[c] EXCEPT !.Message = @ + 1] \in Client
      BY <3>1, <3>2 DEF Client
    <3>4. QED
      BY <1>2, <2>1, <2>3, <3>3 DEF SendSubscribedInfo
  <2>4. QED
    BY <1>2, <2>2, <2>3 DEF SendSubscribedInfo
<1>3. QED
  BY <1>1, <1>2 DEF PushTo

(* The frames openCb adds to the queue.                                    *)
LEMMA ResentFrames ==
  ASSUME NEW K \in SUBSET Topics, NEW order \in [1..Cardinality(K) -> K]
  PROVE  /\ Cardinality(K) \in Nat
         /\ [i \in DOMAIN order |-> Sub(order[i])] \in Seq(Frame)
         /\ Len([i \in DOMAIN order |-> Sub(order[i])]) = Cardinality(K)
<1>1. Cardinality(K) \in Nat
  BY FS_Subset, FS_CardinalityType
<1>2. \A i \in 1..Cardinality(K) : Sub(order[i]) \in Frame
  BY FrameTypes
<1>3. DOMAIN order = 1..Cardinality(K)
  OBVIOUS
<1>4. QED
  BY <1>1, <1>2, <1>3

LEMMA SenderType ==
  ASSUME TypeOK, NEW b \in Browsers
  PROVE  LET s == sender[b]
         IN /\ [s EXCEPT !.timers = @ + 1] \in [timers : Nat, loops : Nat]
            /\ s.timers > 0 => [s EXCEPT !.timers = @ - 1, !.loops = @ + 1]
                                 \in [timers : Nat, loops : Nat]
            /\ s.loops > 0 => [s EXCEPT !.loops = @ - 1]
                                \in [timers : Nat, loops : Nat]
<1>1. sender[b] \in [timers : Nat, loops : Nat]
  BY DEF TypeOK, PageTypeOK
<1>2. sender[b].timers \in Nat /\ sender[b].loops \in Nat
  BY <1>1
<1>3. sender[b].timers + 1 \in Nat /\ sender[b].loops + 1 \in Nat
  BY <1>2
<1>4. /\ sender[b].timers > 0 => sender[b].timers - 1 \in Nat
      /\ sender[b].loops > 0 => sender[b].loops - 1 \in Nat
  BY <1>2
<1>5. QED
  BY <1>1, <1>3, <1>4

LEMMA PageType ==
  ASSUME TypeOK, TimerRight, NEW b \in Browsers, Component(b) \/ Socket(b)
  PROVE  TypeOK'
<1> USE DEF TypeOK, HubTypeOK, PageTypeOK, hubVars, pageVars
<1>0. Current(b) \in Conn /\ ws[b] \in WebSocket
  BY CurrentConn
<1>1. ASSUME NEW x \in Shown, NEW k \in Keys, Mount(b, x, k) PROVE TypeOK'
  <2>1. messageQueue' \in [Browsers -> Seq(Frame)]
    BY <1>1, FrameTypes DEF Mount
  <2>2. QED
    BY <1>1, <2>1 DEF Mount
<1>2. ASSUME NEW x \in Shown, NEW k \in Keys, Unmount(b, x, k) PROVE TypeOK'
  <2>1. messageQueue' \in [Browsers -> Seq(Frame)]
    BY <1>2, FrameTypes DEF Unmount
  <2>2. QED
    BY <1>2, <2>1 DEF Unmount
<1>3. CASE Connect(b)
  <2>1. HubTypeOK'
    BY <1>0, <1>3, ConnectionType DEF Connect
  <2>2. QED
    BY <1>3, <2>1 DEF Connect
<1>4. CASE OnOpen(b)
  <2>1. [ws[b] EXCEPT !.state = "open", !.attempts = Attempts, !.timer = FALSE]
          \in WebSocket
    BY <1>0 DEF WebSocket
  <2>2. ws' \in [Browsers -> WebSocket]
    BY <1>4, <2>1 DEF OnOpen
  <2>3. messageQueue' \in [Browsers -> Seq(Frame)]
    <3>1. PICK order \in [1..Cardinality(known[b]) -> known[b]] :
            messageQueue' = [messageQueue EXCEPT ![b] =
                               @ \o [i \in DOMAIN order |-> Sub(order[i])]]
      BY <1>4 DEF OnOpen
    <3>2. known[b] \in SUBSET Topics
      OBVIOUS
    <3>3. [i \in DOMAIN order |-> Sub(order[i])] \in Seq(Frame)
      BY <3>2, ResentFrames
    <3>4. DEFINE t == [i \in DOMAIN order |-> Sub(order[i])]
    <3>5. messageQueue[b] \in Seq(Frame) /\ t \in Seq(Frame)
      BY <3>3
    <3> HIDE DEF t
    <3>6. messageQueue[b] \o t \in Seq(Frame)
      BY <3>5
    <3>7. messageQueue' = [messageQueue EXCEPT ![b] = @ \o t]
      BY <3>1 DEF t
    <3>8. QED
      BY <3>6, <3>7
  <2>4. sender' \in [Browsers -> [timers : Nat, loops : Nat]]
    BY <1>4, SenderType DEF OnOpen
  <2>5. QED
    BY <1>4, <2>2, <2>3, <2>4 DEF OnOpen
<1>5. CASE OnClose(b)
  <2>0. ws[b].attempts \in Nat
    BY <1>0 DEF WebSocket
  <2>1. [ws[b] EXCEPT !.state = "closed", !.timer = ws[b].attempts > 0,
                      !.attempts = IF @ > 0 THEN @ ELSE Attempts] \in WebSocket
    <3>1. (IF ws[b].attempts > 0 THEN ws[b].attempts ELSE Attempts) \in Nat
      BY <2>0
    <3>2. (ws[b].attempts > 0) \in BOOLEAN
      OBVIOUS
    <3>3. QED
      BY <1>0, <3>1, <3>2 DEF WebSocket
  <2>2. ws' \in [Browsers -> WebSocket]
    BY <1>5, <2>1 DEF OnClose
  <2>3. QED
    BY <1>0, <1>5, <2>2 DEF OnClose
<1>6. CASE Reconnect(b)
  <2>1. [conn |-> ws[b].conn + 1, attempts |-> ws[b].attempts - 1,
         timer |-> FALSE, state |-> "connecting"] \in WebSocket
    <3>1. ws[b].attempts \in Nat /\ ws[b].conn \in 1..MaxConns
      BY <1>0 DEF WebSocket
    <3>2. ws[b].attempts - 1 \in Nat /\ ws[b].conn + 1 \in 1..MaxConns
      BY <1>6, <3>1 DEF TimerRight, Reconnect
    <3>3. QED
      BY <3>2 DEF WebSocket
  <2>2. QED
    BY <1>6, <2>1 DEF Reconnect
<1>7. CASE StartSender(b)
  BY <1>7, SenderType DEF StartSender
<1>8. CASE FireSend(b)
  <2>1. up[Current(b)] \o messageQueue[b] \in Seq(Frame)
    BY <1>0
  <2>2. up' \in [Conn -> Seq(Frame)]
    BY <1>8, <2>1 DEF FireSend
  <2>3. QED
    BY <1>8, <2>2 DEF FireSend
<1>9. CASE FireSendEnds(b)
  BY <1>9, SenderType DEF FireSendEnds
<1>10. CASE OnMessage(b)
  BY <1>0, <1>10 DEF OnMessage
<1>11. QED
  BY <1>1, <1>2, <1>3, <1>4, <1>5, <1>6, <1>7, <1>8, <1>9, <1>10
     DEF Component, Socket

LEMMA NextType ==
  ASSUME TypeOK, TimerRight, [Next]_vars PROVE TypeOK'
<1>1. CASE \E b \in Browsers : Component(b) \/ Socket(b)
  BY <1>1, PageType
<1>2. CASE Server /\ UNCHANGED pageVars
  <2>1. HubTypeOK'
    BY <1>2, ConnectionType, PublisherType, PushToType, DeathType DEF Server
  <2>2. QED
    BY <1>2, <2>1 DEF TypeOK, PageTypeOK, pageVars
<1>3. CASE UNCHANGED vars
  BY <1>3 DEF vars, hubVars, pageVars, TypeOK, HubTypeOK, PageTypeOK
<1>4. QED
  BY <1>1, <1>2, <1>3 DEF Next

(***************************************************************************)
(* What a client has behind it.                                            *)
(***************************************************************************)

(* The steps that leave every client, the hub and the list as they were.   *)
LEMMA ClientSteps ==
  ASSUME TypeOK, [Next]_vars
  PROVE  \/ \E c \in Conn : Serve(c) \/ Read(c) \/ Write(c) \/ Upgrade(c)
         \/ \E p \in Publishers, c \in Conn : AutoSubscribe(p, c)
         \/ PushTo
         \/ \E p \in Publishers : TakePush(p)
         \/ ServerDies
         \/ /\ UNCHANGED <<ClientList, client, hub>>
            /\ \A c \in Conn : link'[c] = "none" => link[c] = "none"
<1>0. link \in [Conn -> {"none", "open", "cut"}]
  BY DEF TypeOK, HubTypeOK
<1>1. CASE \E b \in Browsers : Component(b) \/ Socket(b)
  <2>1. PICK b \in Browsers : Component(b) \/ Socket(b)
    BY <1>1
  <2>2. CASE Connect(b)
    BY <2>2, CurrentConn DEF Connect
  <2>3. CASE (Component(b) \/ Socket(b)) /\ ~Connect(b)
    BY <1>0, <2>3, CurrentConn DEF Component, Socket, Mount, Unmount, OnOpen, OnClose, Reconnect,
                StartSender, FireSend, FireSendEnds, OnMessage, hubVars
  <2>4. QED
    BY <2>1, <2>2, <2>3
<1>2. CASE Server /\ UNCHANGED pageVars
  BY <1>0, <1>2 DEF Server, Cut, SendSubscribed, SendNewTaskLogFormOrm, SendAdd, Walk
<1>3. CASE UNCHANGED vars
  BY <1>3 DEF vars, hubVars
<1>4. QED
  BY <1>1, <1>2, <1>3 DEF Next

LEMMA DeathClients ==
  ASSUME ServerDies
  PROVE  ClientRight' /\ ListedRight'
<1>1. \A c \in Conn : ClientList'[c[1]] # c
  BY ConnParts DEF ServerDies
<1>2. Listed' = {}
  BY <1>1 DEF Listed
<1>3. QED
  BY <1>2 DEF ServerDies, ClientRight, ListedRight, NoClient

LEMMA NextClient ==
  ASSUME TypeOK, ClientRight, [Next]_vars PROVE ClientRight'
<1> USE DEF ClientRight
<1>0. client \in [Conn -> Client] /\ link \in [Conn -> {"none", "open", "cut"}]
  BY DEF TypeOK, HubTypeOK
<1>1. ASSUME NEW c \in Conn, Serve(c) \/ Write(c) \/ Upgrade(c) PROVE ClientRight'
  <2>1. CASE Upgrade(c)
    BY <1>0, <2>1 DEF Upgrade, Client
  <2>2. CASE RegisterClient(c)
    BY <1>0, <2>2 DEF RegisterClient, Client
  <2>3. CASE StartServices(c)
    BY <1>0, <2>3 DEF StartServices, Client
  <2>4. CASE MakeMaps(c)
    BY <1>0, <2>4 DEF MakeMaps, Client
  <2>5. CASE TakeMessage(c)
    BY <1>0, <2>5 DEF TakeMessage, Client
  <2>6. CASE WriteMessage(c)
    BY <1>0, <2>6 DEF WriteMessage, Client
  <2>7. QED
    BY <1>1, <2>1, <2>2, <2>3, <2>4, <2>5, <2>6 DEF Serve, Write
<1>2. ASSUME NEW c \in Conn, Read(c) PROVE ClientRight'
  <2>1. CASE ReadFrame(c)
    BY <1>0, <2>1 DEF ReadFrame, Client
  <2>2. CASE ReadPanics(c)
    BY <2>2, DeathClients DEF ReadPanics
  <2>3. CASE ReadFails(c)
    BY <1>0, <2>3 DEF ReadFails, Client
  <2>4. CASE UnregisterClient(c)
    BY <1>0, <2>4 DEF UnregisterClient, Client
  <2>5. QED
    BY <1>2, <2>1, <2>2, <2>3, <2>4 DEF Read
<1>3. ASSUME NEW p \in Publishers, NEW c \in Conn, AutoSubscribe(p, c)
      PROVE  ClientRight'
  BY <1>0, <1>3 DEF AutoSubscribe, Client
<1>4. CASE PushTo
  BY <1>0, <1>4 DEF PushTo, PushDone, SendSubscribedInfo, Client
<1>5. CASE \E p \in Publishers : TakePush(p)
  BY <1>5 DEF TakePush
<1>6. CASE ServerDies
  BY <1>6, DeathClients
<1>7. CASE /\ UNCHANGED <<ClientList, client, hub>>
           /\ \A c \in Conn : link'[c] = "none" => link[c] = "none"
  BY <1>7
<1>8. QED
  BY <1>1, <1>2, <1>3, <1>4, <1>5, <1>6, <1>7, ClientSteps

(* A step that neither registers nor unregisters keeps the list right when *)
(* it ends no reader and takes no handler back.                            *)
LEMMA ListUnchanged ==
  ASSUME ListedRight, UNCHANGED ClientList,
         \A c \in Conn : /\ client'[c].handler = client[c].handler
                         /\ client'[c].reader = client[c].reader
  PROVE  ListedRight'
BY DEF ListedRight, Listed

LEMMA NextListed ==
  ASSUME TypeOK, ClientRight, ListedRight, [Next]_vars PROVE ListedRight'
<1>0. client \in [Conn -> Client] /\ ClientList \in [Browsers -> Conn \cup {NoConn}]
  BY DEF TypeOK, HubTypeOK
<1>1. ASSUME NEW c \in Conn, Upgrade(c) PROVE ListedRight'
  <2>1. c \notin Listed'
    BY <1>0, <1>1 DEF Listed, Upgrade, ListedRight, ClientRight, Client
  <2>2. QED
    BY <1>0, <1>1, <2>1 DEF ListedRight, Listed, Upgrade
<1>2. ASSUME NEW c \in Conn, Serve(c) PROVE ListedRight'
  <2>1. CASE RegisterClient(c)
    <3>1. client[c].reader = "off"
      BY <1>0, <2>1 DEF RegisterClient, ClientRight, Client
    <3>2. \A d \in Listed' : d = c \/ d \in Listed
      BY <1>0, <2>1, ConnParts DEF RegisterClient, Listed
    <3>3. QED
      BY <1>0, <2>1, <3>1, <3>2, ListedConns DEF RegisterClient, ListedRight
  <2>2. CASE StartServices(c)
    BY <1>0, <2>2 DEF StartServices, ListedRight, Listed
  <2>3. CASE MakeMaps(c)
    BY <1>0, <2>3 DEF MakeMaps, ListedRight, Listed
  <2>4. QED
    BY <1>2, <2>1, <2>2, <2>3 DEF Serve
<1>3. ASSUME NEW c \in Conn, Read(c) PROVE ListedRight'
  <2>1. CASE ReadFrame(c)
    BY <1>0, <2>1, ListUnchanged DEF ReadFrame
  <2>2. CASE ReadPanics(c)
    BY <2>2, DeathClients DEF ReadPanics
  <2>3. CASE ReadFails(c)
    BY <1>0, <2>3 DEF ReadFails, ListedRight, Listed
  <2>4. CASE UnregisterClient(c)
    <3>1. \A d \in Listed' : d # c /\ d \in Listed
      BY <1>0, <2>4, ConnParts DEF UnregisterClient, Listed
    <3>2. QED
      BY <1>0, <2>4, <3>1, ListedConns DEF UnregisterClient, ListedRight
  <2>5. QED
    BY <1>3, <2>1, <2>2, <2>3, <2>4 DEF Read
<1>4. ASSUME NEW c \in Conn, Write(c) PROVE ListedRight'
  <2>1. /\ UNCHANGED ClientList
        /\ \A d \in Conn : /\ client'[d].handler = client[d].handler
                            /\ client'[d].reader = client[d].reader
    BY <1>0, <1>4 DEF Write, TakeMessage, WriteMessage, Client
  <2>2. QED
    BY <2>1, ListUnchanged
<1>5. ASSUME NEW p \in Publishers, NEW c \in Conn, AutoSubscribe(p, c)
      PROVE  ListedRight'
  BY <1>0, <1>5, ListUnchanged DEF AutoSubscribe
<1>6. CASE PushTo
  <2>1. /\ UNCHANGED ClientList
        /\ \A d \in Conn : /\ client'[d].handler = client[d].handler
                            /\ client'[d].reader = client[d].reader
    BY <1>0, <1>6 DEF PushTo, PushDone, SendSubscribedInfo, Client
  <2>2. QED
    BY <2>1, ListUnchanged
<1>7. CASE \E p \in Publishers : TakePush(p)
  BY <1>7, ListUnchanged DEF TakePush
<1>8. CASE ServerDies
  BY <1>8, DeathClients
<1>9. CASE UNCHANGED <<ClientList, client, hub>>
  BY <1>9, ListUnchanged
<1>10. QED
  BY <1>1, <1>2, <1>3, <1>4, <1>5, <1>6, <1>7, <1>8, <1>9, ClientSteps

(***************************************************************************)
(* The page.                                                               *)
(***************************************************************************)

(* The steps that leave the page as it was.                                *)
LEMMA PageSteps ==
  ASSUME [Next]_vars
  PROVE  \/ \E b \in Browsers :
              \/ \E x \in Shown, k \in Keys : Mount(b, x, k) \/ Unmount(b, x, k)
              \/ OnOpen(b) \/ OnClose(b) \/ Reconnect(b)
              \/ StartSender(b) \/ FireSend(b) \/ FireSendEnds(b)
         \/ UNCHANGED pageVars
BY DEF Next, Component, Socket, Connect, OnMessage, vars

LEMMA NextTimer ==
  ASSUME TypeOK, TimerRight, [Next]_vars PROVE TimerRight'
<1> USE DEF TimerRight
<1>0. ws \in [Browsers -> WebSocket]
  BY DEF TypeOK, PageTypeOK
<1>1. ASSUME NEW b \in Browsers, OnOpen(b) PROVE TimerRight'
  BY <1>0, <1>1 DEF OnOpen, WebSocket
<1>2. ASSUME NEW b \in Browsers, OnClose(b) PROVE TimerRight'
  BY <1>0, <1>2 DEF OnClose, WebSocket
<1>3. ASSUME NEW b \in Browsers, Reconnect(b) PROVE TimerRight'
  BY <1>0, <1>3 DEF Reconnect, WebSocket
<1>4. CASE UNCHANGED ws
  BY <1>4
<1>5. QED
  BY <1>1, <1>2, <1>3, <1>4, PageSteps
     DEF Mount, Unmount, StartSender, FireSend, FireSendEnds, pageVars

LEMMA NextShown ==
  ASSUME TypeOK, ShownKnown, [Next]_vars PROVE ShownKnown'
<1> USE DEF ShownKnown
<1>0. /\ subscribed \in [Browsers -> [Shown -> SUBSET Keys]]
      /\ known \in [Browsers -> SUBSET Shown]
  BY DEF TypeOK, PageTypeOK
<1>1. ASSUME NEW b \in Browsers, NEW x \in Shown, NEW k \in Keys, Mount(b, x, k)
      PROVE  ShownKnown'
  BY <1>0, <1>1 DEF Mount
<1>2. ASSUME NEW b \in Browsers, NEW x \in Shown, NEW k \in Keys, Unmount(b, x, k)
      PROVE  ShownKnown'
  BY <1>0, <1>2 DEF Unmount
<1>3. CASE UNCHANGED <<subscribed, known>>
  BY <1>3
<1>4. QED
  BY <1>1, <1>2, <1>3, PageSteps
     DEF OnOpen, OnClose, Reconnect, StartSender, FireSend, FireSendEnds, pageVars

LEMMA NextSender ==
  ASSUME TypeOK, SenderAlive, [Next]_vars PROVE SenderAlive'
<1> USE DEF SenderAlive
<1>0. /\ ws \in [Browsers -> WebSocket]
      /\ sender \in [Browsers -> [timers : Nat, loops : Nat]]
  BY DEF TypeOK, PageTypeOK
<1>1. ASSUME NEW b \in Browsers, OnOpen(b) PROVE SenderAlive'
  BY <1>0, <1>1 DEF OnOpen, WebSocket
<1>2. ASSUME NEW b \in Browsers, OnClose(b) \/ Reconnect(b) PROVE SenderAlive'
  BY <1>0, <1>2 DEF OnClose, Reconnect, WebSocket
<1>3. ASSUME NEW b \in Browsers, StartSender(b) PROVE SenderAlive'
  BY <1>0, <1>3 DEF StartSender
<1>4. ASSUME NEW b \in Browsers, FireSendEnds(b) PROVE SenderAlive'
  BY <1>0, <1>4 DEF FireSendEnds
<1>5. CASE UNCHANGED <<ws, sender>>
  BY <1>5
<1>6. QED
  BY <1>1, <1>2, <1>3, <1>4, <1>5, PageSteps DEF Mount, Unmount, FireSend, pageVars

(***************************************************************************)
(* Frames under way.                                                       *)
(***************************************************************************)

LEMMA FramesDiffer ==
  ASSUME NEW x, NEW y PROVE Sub(x) # Unsub(y) /\ (Unsub(x) = Unsub(y) => x = y)
BY DEF Sub, Unsub

LEMMA AppendFrame ==
  ASSUME NEW s \in Seq(Frame), NEW f \in Frame, NEW x
  PROVE  /\ f = Sub(x) => Says(Append(s, f), x)
         /\ f # Unsub(x) /\ Says(s, x) => Says(Append(s, f), x)
         /\ f # Unsub(x) /\ Spares(s, x) => Spares(Append(s, f), x)
<1> DEFINE t == Append(s, f)
<1>1. /\ Len(t) = Len(s) + 1
      /\ Len(s) \in Nat
      /\ t[Len(s) + 1] = f
      /\ \A i \in 1..Len(s) : t[i] = s[i]
  OBVIOUS
<1> HIDE DEF t
<1>2. f = Sub(x) => Says(t, x)
  BY <1>1 DEF Says
<1>3. ASSUME f # Unsub(x), Says(s, x) PROVE Says(t, x)
  <2>1. PICK i \in 1..Len(s) : /\ s[i] = Sub(x)
                               /\ \A j \in (i + 1)..Len(s) : s[j] # Unsub(x)
    BY <1>3 DEF Says
  <2>2. i \in 1..Len(t) /\ t[i] = Sub(x)
    BY <1>1, <2>1
  <2>3. \A j \in (i + 1)..Len(t) : t[j] # Unsub(x)
    <3> TAKE j \in (i + 1)..Len(t)
    <3>1. j = Len(s) + 1 \/ j \in (i + 1)..Len(s)
      BY <1>1
    <3>2. QED
      BY <1>1, <1>3, <2>1, <3>1
  <2>4. QED
    BY <2>2, <2>3 DEF Says
<1>4. ASSUME f # Unsub(x), Spares(s, x) PROVE Spares(t, x)
  <2> SUFFICES ASSUME NEW i \in 1..Len(t) PROVE t[i] # Unsub(x)
    BY DEF Spares
  <2>1. i = Len(s) + 1 \/ i \in 1..Len(s)
    BY <1>1
  <2>2. QED
    BY <1>1, <1>4, <2>1 DEF Spares
<1>5. QED
  BY <1>2, <1>3, <1>4 DEF t

LEMMA JoinFrames ==
  ASSUME NEW s \in Seq(Frame), NEW t \in Seq(Frame), NEW x
  PROVE  /\ Says(t, x) => Says(s \o t, x)
         /\ Says(s, x) /\ Spares(t, x) => Says(s \o t, x)
         /\ Spares(s, x) /\ Spares(t, x) => Spares(s \o t, x)
<1> DEFINE u == s \o t
<1>1. /\ Len(s) \in Nat
      /\ Len(t) \in Nat
      /\ Len(u) = Len(s) + Len(t)
      /\ \A i \in 1..Len(s) : u[i] = s[i]
      /\ \A i \in 1..Len(t) : u[Len(s) + i] = t[i]
  OBVIOUS
<1> HIDE DEF u
<1>2. \A j \in 1..Len(u) : \/ j \in 1..Len(s)
                           \/ /\ j - Len(s) \in 1..Len(t)
                              /\ u[j] = t[j - Len(s)]
  <2> TAKE j \in 1..Len(u)
  <2>1. CASE j <= Len(s)
    BY <1>1, <2>1
  <2>2. CASE j > Len(s)
    <3>1. j - Len(s) \in 1..Len(t) /\ Len(s) + (j - Len(s)) = j
      BY <1>1, <2>2
    <3>2. QED
      BY <1>1, <3>1
  <2>3. QED
    BY <1>1, <2>1, <2>2
<1>3. ASSUME Says(t, x) PROVE Says(u, x)
  <2>1. PICK i \in 1..Len(t) : /\ t[i] = Sub(x)
                               /\ \A j \in (i + 1)..Len(t) : t[j] # Unsub(x)
    BY <1>3 DEF Says
  <2>2. Len(s) + i \in 1..Len(u) /\ u[Len(s) + i] = Sub(x)
    BY <1>1, <2>1
  <2>3. \A j \in (Len(s) + i + 1)..Len(u) : u[j] # Unsub(x)
    <3> TAKE j \in (Len(s) + i + 1)..Len(u)
    <3>1. j \in 1..Len(u) /\ j \notin 1..Len(s)
      BY <1>1
    <3>2. j - Len(s) \in (i + 1)..Len(t)
      BY <1>1
    <3>3. QED
      BY <1>2, <2>1, <3>1, <3>2
  <2>4. QED
    BY <2>2, <2>3 DEF Says
<1>4. ASSUME Says(s, x), Spares(t, x) PROVE Says(u, x)
  <2>1. PICK i \in 1..Len(s) : /\ s[i] = Sub(x)
                               /\ \A j \in (i + 1)..Len(s) : s[j] # Unsub(x)
    BY <1>4 DEF Says
  <2>2. i \in 1..Len(u) /\ u[i] = Sub(x)
    BY <1>1, <2>1
  <2>3. \A j \in (i + 1)..Len(u) : u[j] # Unsub(x)
    <3> TAKE j \in (i + 1)..Len(u)
    <3>1. j \in 1..Len(u) /\ (j \in 1..Len(s) => j \in (i + 1)..Len(s))
      BY <1>1
    <3>2. QED
      BY <1>1, <1>2, <1>4, <2>1, <3>1 DEF Spares
  <2>4. QED
    BY <2>2, <2>3 DEF Says
<1>5. ASSUME Spares(s, x), Spares(t, x) PROVE Spares(u, x)
  BY <1>1, <1>2, <1>5 DEF Spares
<1>6. QED
  BY <1>3, <1>4, <1>5 DEF u

LEMMA ReadFirst ==
  ASSUME NEW s \in Seq(Frame), s # <<>>, NEW x
  PROVE  /\ Says(s, x) => \/ Says(Tail(s), x)
                          \/ Head(s) = Sub(x) /\ Spares(Tail(s), x)
         /\ Spares(s, x) => Head(s) # Unsub(x) /\ Spares(Tail(s), x)
<1> DEFINE t == Tail(s)
<1>1. /\ Len(s) \in Nat \ {0}
      /\ Len(t) = Len(s) - 1
      /\ Head(s) = s[1]
      /\ \A i \in 1..Len(t) : t[i] = s[i + 1]
  OBVIOUS
<1> HIDE DEF t
<1>2. ASSUME Says(s, x) PROVE Says(t, x) \/ (Head(s) = Sub(x) /\ Spares(t, x))
  <2>1. PICK i \in 1..Len(s) : /\ s[i] = Sub(x)
                               /\ \A j \in (i + 1)..Len(s) : s[j] # Unsub(x)
    BY <1>2 DEF Says
  <2>2. CASE i = 1
    <3>1. \A j \in 1..Len(t) : j + 1 \in (i + 1)..Len(s)
      BY <1>1, <2>2
    <3>2. QED
      BY <1>1, <2>1, <2>2, <3>1 DEF Spares
  <2>3. CASE i # 1
    <3>1. PICK k \in 1..Len(t) : k + 1 = i
      <4>1. i - 1 \in 1..Len(t) /\ (i - 1) + 1 = i
        BY <1>1, <2>3
      <4>2. QED
        BY <4>1
    <3>2. t[k] = Sub(x)
      BY <1>1, <2>1, <3>1
    <3>3. \A j \in (k + 1)..Len(t) : j \in 1..Len(t) /\ j + 1 \in (i + 1)..Len(s)
      BY <1>1, <3>1
    <3>4. \A j \in (k + 1)..Len(t) : t[j] # Unsub(x)
      BY <1>1, <2>1, <3>3
    <3>5. QED
      BY <3>1, <3>2, <3>4 DEF Says
  <2>4. QED
    BY <2>2, <2>3
<1>3. ASSUME Spares(s, x) PROVE Head(s) # Unsub(x) /\ Spares(t, x)
  <2>1. \A j \in 1..Len(t) : j + 1 \in 1..Len(s)
    BY <1>1
  <2>2. QED
    BY <1>1, <1>3, <2>1 DEF Spares
<1>4. QED
  BY <1>2, <1>3 DEF t

(* openCb: who is in the list of entries is subscribed again.              *)
LEMMA Resent ==
  ASSUME NEW K \in SUBSET Topics, NEW order \in [1..Cardinality(K) -> K],
         NEW x \in K, \E i \in DOMAIN order : order[i] = x
  PROVE  Says([i \in DOMAIN order |-> Sub(order[i])], x)
<1> DEFINE t == [i \in DOMAIN order |-> Sub(order[i])]
<1>1. Len(t) = Cardinality(K) /\ DOMAIN order = 1..Cardinality(K)
      /\ Cardinality(K) \in Nat
  BY ResentFrames
<1>2. \A i \in 1..Len(t) : t[i] = Sub(order[i])
  BY <1>1
<1>3. PICK i \in 1..Len(t) : order[i] = x
  BY <1>1
<1> HIDE DEF t
<1>4. \A j \in (i + 1)..Len(t) : j \in 1..Len(t)
  BY <1>1
<1>5. QED
  <2>1. Says(t, x)
    BY <1>2, <1>3, <1>4, FramesDiffer DEF Says
  <2>2. QED
    BY <2>1 DEF t

(* A step that touches neither the page nor what it sent, and takes no     *)
(* subscription away.                                                      *)
LEMMA ComingKept ==
  ASSUME SubscriptionsComing, NEW b \in Browsers, NEW x \in Shown, Due(b, x)',
         ws'[b] = ws[b], messageQueue'[b] = messageQueue[b],
         subscribed'[b] = subscribed[b], robbed'[b] = robbed[b],
         link[Current(b)] = "open",
         up'[Current(b)] = up[Current(b)],
         client[Current(b)].subscribed \subseteq client'[Current(b)].subscribed
  PROVE  Coming(b, x)'
<1>1. Coming(b, x)
  BY DEF Due, SubscriptionsComing, Current
<1>2. QED
  BY <1>1 DEF Coming, Current

LEMMA ComponentComing ==
  ASSUME TypeOK, SubscriptionsComing, NEW a \in Browsers, NEW b \in Browsers,
         NEW x \in Shown, Component(a), Due(b, x)'
  PROVE  Coming(b, x)'
<1>0. /\ messageQueue \in [Browsers -> Seq(Frame)]
      /\ subscribed \in [Browsers -> [Shown -> SUBSET Keys]]
      /\ robbed \in [Browsers -> SUBSET Shown]
  BY DEF TypeOK, PageTypeOK
<1> USE DEF hubVars
<1>1. ASSUME NEW y \in Shown, NEW k \in Keys, Mount(a, y, k) PROVE Coming(b, x)'
  <2>1. CASE a # b
    BY <1>0, <1>1, <2>1, ComingKept DEF Mount, Due, Current
  <2>2. CASE a = b /\ x = y
    <3>1. Says(messageQueue'[b], x)
      BY <1>0, <1>1, <2>2, FrameTypes, AppendFrame DEF Mount
    <3>2. QED
      BY <3>1 DEF Coming
  <2>3. CASE a = b /\ x # y
    <3>1. Coming(b, x)
      BY <1>0, <1>1, <2>3 DEF SubscriptionsComing, Due, Current, Mount
    <3>2. messageQueue'[b] = Append(messageQueue[b], Sub(y))
      BY <1>0, <1>1, <2>3 DEF Mount
    <3>3. /\ Says(messageQueue[b], x) => Says(messageQueue'[b], x)
          /\ Spares(messageQueue[b], x) => Spares(messageQueue'[b], x)
      BY <1>0, <3>2, FrameTypes, FramesDiffer, AppendFrame
    <3>4. QED
      BY <1>1, <3>1, <3>3 DEF Mount, Coming, Current
  <2>4. QED
    BY <2>1, <2>2, <2>3
<1>2. ASSUME NEW y \in Shown, NEW k \in Keys, Unmount(a, y, k) PROVE Coming(b, x)'
  <2>1. CASE a # b
    BY <1>0, <1>2, <2>1, ComingKept DEF Unmount, Due, Current
  <2>2. CASE a = b /\ x = y
    BY <1>0, <1>2, <2>2 DEF Unmount, Due
  <2>3. CASE a = b /\ x # y
    <3>1. Coming(b, x)
      BY <1>0, <1>2, <2>3 DEF SubscriptionsComing, Due, Current, Unmount
    <3>2. messageQueue'[b] = Append(messageQueue[b], Unsub(y))
      BY <1>0, <1>2, <2>3 DEF Unmount
    <3>3. /\ Says(messageQueue[b], x) => Says(messageQueue'[b], x)
          /\ Spares(messageQueue[b], x) => Spares(messageQueue'[b], x)
      BY <1>0, <2>3, <3>2, FrameTypes, FramesDiffer, AppendFrame
    <3>4. QED
      BY <1>2, <3>1, <3>3 DEF Unmount, Coming, Current
  <2>4. QED
    BY <2>1, <2>2, <2>3
<1>3. QED
  BY <1>1, <1>2 DEF Component

(* Connections of different pages are different.                           *)
LEMMA OtherPage ==
  ASSUME TypeOK, NEW a \in Browsers, NEW b \in Browsers, a # b
  PROVE  Current(a) # Current(b)
BY CurrentConn

LEMMA SocketComing ==
  ASSUME TypeOK, ShownKnown, SubscriptionsComing, NEW a \in Browsers,
         NEW b \in Browsers, NEW x \in Shown, Socket(a), Due(b, x)'
  PROVE  Coming(b, x)'
<1> USE DEF hubVars, pageVars
<1>0. /\ ws \in [Browsers -> WebSocket]
      /\ messageQueue \in [Browsers -> Seq(Frame)]
      /\ known \in [Browsers -> SUBSET Shown]
      /\ robbed \in [Browsers -> SUBSET Shown]
      /\ client \in [Conn -> Client]
      /\ link \in [Conn -> {"none", "open", "cut"}]
      /\ up \in [Conn -> Seq(Frame)]
      /\ Current(a) \in Conn /\ Current(b) \in Conn
  BY CurrentConn DEF TypeOK, PageTypeOK, HubTypeOK
<1>1. CASE a # b
  <2>1. /\ ws'[b] = ws[b] /\ messageQueue'[b] = messageQueue[b]
        /\ subscribed'[b] = subscribed[b] /\ robbed'[b] = robbed[b]
    BY <1>0, <1>1 DEF Socket, Connect, OnOpen, OnClose, Reconnect, StartSender,
                      FireSend, FireSendEnds, OnMessage
  <2>2. /\ link'[Current(b)] = link[Current(b)]
        /\ up'[Current(b)] = up[Current(b)]
        /\ client'[Current(b)] = client[Current(b)]
    BY <1>0, <1>1, OtherPage
       DEF Socket, Connect, Upgrade, OnOpen, OnClose, Reconnect, StartSender,
           FireSend, FireSendEnds, OnMessage
  <2>3. QED
    BY <2>1, <2>2, ComingKept DEF Due, Current
<1>2. CASE a = b /\ Connect(a)
  BY <1>2 DEF Connect, Due
<1>3. CASE a = b /\ OnOpen(a)
  <2>1. PICK order \in [1..Cardinality(known[b]) -> known[b]] :
          /\ \A y \in known[b] : \E i \in DOMAIN order : order[i] = y
          /\ messageQueue' = [messageQueue EXCEPT ![b] =
                                @ \o [i \in DOMAIN order |-> Sub(order[i])]]
    BY <1>3 DEF OnOpen
  <2> DEFINE t == [i \in DOMAIN order |-> Sub(order[i])]
  <2>2. x \in known[b]
    BY <1>3 DEF OnOpen, Due, ShownKnown
  <2>3. known[b] \in SUBSET Topics
    BY <1>0
  <2>4. Says(t, x)
    <3>1. \E i \in DOMAIN order : order[i] = x
      BY <2>1, <2>2
    <3>2. QED
      BY <2>2, <2>3, <3>1, Resent
  <2>5. t \in Seq(Frame)
    BY <2>3, ResentFrames
  <2> HIDE DEF t
  <2>6. Says(messageQueue[b] \o t, x)
    BY <1>0, <2>4, <2>5, JoinFrames
  <2>7. messageQueue'[b] = messageQueue[b] \o t
    BY <1>0, <2>1 DEF t
  <2>8. QED
    BY <2>6, <2>7 DEF Coming
<1>4. CASE a = b /\ (OnClose(a) \/ Reconnect(a))
  <2>1. ws[b] \in WebSocket
    BY <1>0
  <2>2. ws'[b].state # "open"
    BY <1>0, <1>4, <2>1 DEF OnClose, Reconnect, WebSocket
  <2>3. QED
    BY <2>2 DEF Due
<1>5. CASE a = b /\ (StartSender(a) \/ FireSendEnds(a) \/ OnMessage(a))
  BY <1>5, ComingKept DEF StartSender, FireSendEnds, OnMessage, Due, Current
<1>6. CASE a = b /\ FireSend(a)
  <2>1. Coming(b, x)
    BY <1>6 DEF SubscriptionsComing, Due, Current, FireSend
  <2>2. /\ Current(b)' = Current(b)
        /\ client' = client
        /\ messageQueue'[b] = <<>>
    BY <1>0, <1>6 DEF FireSend, Current
  <2>3. link[Current(b)] = "open"
    BY <1>6, <2>2 DEF Due, FireSend, Current
  <2>4. up'[Current(b)] = up[Current(b)] \o messageQueue[b]
    BY <1>0, <1>6, <2>3 DEF FireSend
  <2>5. Spares(messageQueue'[b], x)
    BY <2>2 DEF Spares
  <2>6. \/ Says(up[Current(b)] \o messageQueue[b], x)
        \/ /\ Spares(up[Current(b)] \o messageQueue[b], x)
           /\ x \in client[Current(b)].subscribed
    BY <1>0, <2>1, JoinFrames DEF Coming
  <2>7. QED
    BY <2>2, <2>4, <2>5, <2>6 DEF Coming
<1>7. QED
  BY <1>1, <1>2, <1>3, <1>4, <1>5, <1>6 DEF Socket

LEMMA ServerComing ==
  ASSUME TypeOK, SubscriptionsComing, NEW b \in Browsers, NEW x \in Shown,
         Server, UNCHANGED pageVars, Due(b, x)'
  PROVE  Coming(b, x)'
<1> DEFINE d == Current(b)
<1>0. /\ client \in [Conn -> Client]
      /\ link \in [Conn -> {"none", "open", "cut"}]
      /\ up \in [Conn -> Seq(Frame)]
      /\ d \in Conn
  BY CurrentConn DEF TypeOK, HubTypeOK
<1>1. UNCHANGED <<ws, messageQueue, subscribed, robbed>> /\ link'[d] = "open"
  BY DEF pageVars, Due, Current
<1> HIDE DEF d
<1>2. CASE /\ link[d] = "open"
           /\ up'[d] = up[d]
           /\ client[d].subscribed \subseteq client'[d].subscribed
  BY <1>1, <1>2, ComingKept DEF d
<1>3. ASSUME NEW c \in Conn, Serve(c) \/ Write(c) \/ Cut(c) PROVE Coming(b, x)'
  <2>1. link[d] = "open"
    BY <1>0, <1>1, <1>3
       DEF Serve, Write, Cut, RegisterClient, StartServices, MakeMaps,
           TakeMessage, WriteMessage
  <2>2. up' = up /\ client'[d].subscribed = client[d].subscribed
    <3>1. client[c] \in Client
      BY <1>0
    <3>2. CASE RegisterClient(c)
      BY <1>0, <3>1, <3>2 DEF RegisterClient, Client
    <3>3. CASE StartServices(c)
      BY <1>0, <3>1, <3>3 DEF StartServices, Client
    <3>4. CASE MakeMaps(c)
      BY <1>0, <3>1, <3>4 DEF MakeMaps, Client
    <3>5. CASE TakeMessage(c)
      BY <1>0, <3>1, <3>5 DEF TakeMessage, Client
    <3>6. CASE WriteMessage(c)
      BY <1>0, <3>1, <3>6 DEF WriteMessage, Client
    <3>7. CASE Cut(c)
      BY <3>7 DEF Cut
    <3>8. QED
      BY <1>3, <3>2, <3>3, <3>4, <3>5, <3>6, <3>7 DEF Serve, Write
  <2>3. QED
    BY <1>2, <2>1, <2>2
<1>4. ASSUME ServerDies PROVE Coming(b, x)'
  BY <1>0, <1>1, <1>4 DEF ServerDies
<1>5. ASSUME NEW c \in Conn, Read(c) PROVE Coming(b, x)'
  <2>1. CASE c # d /\ (ReadFrame(c) \/ ReadFails(c))
    BY <1>0, <1>1, <1>2, <2>1 DEF ReadFrame, ReadFails, Client
  <2>2. CASE c = d /\ ReadFrame(c)
    <3>1. Coming(b, x)
      BY <1>1, <2>2 DEF SubscriptionsComing, Due, Current, ReadFrame
    <3>2. /\ up[d] # <<>> /\ Head(up[d]) \in Frame
          /\ up'[d] = Tail(up[d])
          /\ client'[d].subscribed = toggleSubscribe(client[d].subscribed, Head(up[d]))
      BY <1>0, <2>2 DEF ReadFrame, Client
    <3>3. /\ Says(up[d], x) => \/ Says(Tail(up[d]), x)
                               \/ Head(up[d]) = Sub(x) /\ Spares(Tail(up[d]), x)
          /\ Spares(up[d], x) => Head(up[d]) # Unsub(x) /\ Spares(Tail(up[d]), x)
      BY <1>0, <3>2, ReadFirst
    <3>4. /\ Head(up[d]) = Sub(x) => x \in client'[d].subscribed
          /\ Head(up[d]) # Unsub(x) /\ x \in client[d].subscribed
               => x \in client'[d].subscribed
      BY <3>2 DEF toggleSubscribe, Frame, Sub, Unsub
    <3>5. /\ Current(b)' = d
          /\ messageQueue' = messageQueue
      BY <1>1 DEF Current, d
    <3>6. QED
      BY <3>1, <3>2, <3>3, <3>4, <3>5 DEF Coming, d
  <2>3. CASE c = d /\ ReadFails(c)
    BY <1>1, <2>3 DEF ReadFails
  <2>4. CASE ReadPanics(c)
    BY <1>4, <2>4 DEF ReadPanics
  <2>5. CASE UnregisterClient(c)
    BY <1>0, <1>1, <1>2, <2>5 DEF UnregisterClient, Client
  <2>6. QED
    BY <1>5, <2>1, <2>2, <2>3, <2>4, <2>5 DEF Read
<1>6. ASSUME NEW p \in Publishers, NEW c \in Conn, AutoSubscribe(p, c)
      PROVE  Coming(b, x)'
  BY <1>0, <1>1, <1>2, <1>6 DEF AutoSubscribe, Client
<1>7. CASE PushTo
  <2>1. UNCHANGED <<link, up>>
    BY <1>7 DEF PushTo, PushDone, SendSubscribedInfo
  <2>2. client'[d].subscribed = client[d].subscribed
    <3>1. CASE PushDone
      BY <3>1 DEF PushDone
    <3>2. ASSUME NEW c \in Conn, SendSubscribedInfo(c)
          PROVE  client'[d].subscribed = client[d].subscribed
      <4>1. client[c] \in Client
        BY <1>0
      <4>2. CASE client' = client
        BY <4>2
      <4>3. CASE client' = [client EXCEPT ![c].Message = @ + 1]
        BY <1>0, <4>1, <4>3 DEF Client
      <4>4. QED
        BY <3>2, <4>2, <4>3 DEF SendSubscribedInfo
    <3>3. QED
      BY <1>7, <3>1, <3>2 DEF PushTo
  <2>3. QED
    BY <1>1, <1>2, <2>1, <2>2
<1>8. CASE \E p \in Publishers : \/ \E y \in Topics : SendSubscribed(p, y)
                                 \/ \E y \in LogTopics : SendNewTaskLogFormOrm(p, y)
                                 \/ SendAdd(p)
                                 \/ TakePush(p)
  BY <1>1, <1>2, <1>8 DEF SendSubscribed, SendNewTaskLogFormOrm, SendAdd, TakePush
<1>9. QED
  BY <1>3, <1>4, <1>5, <1>6, <1>7, <1>8 DEF Server, Walk

LEMMA NextComing ==
  ASSUME TypeOK, ShownKnown, SubscriptionsComing, [Next]_vars
  PROVE  SubscriptionsComing'
<1> SUFFICES ASSUME NEW b \in Browsers, NEW x \in Shown, Due(b, x)'
             PROVE  Coming(b, x)'
  BY DEF SubscriptionsComing
<1>1. CASE \E a \in Browsers : Component(a) \/ Socket(a)
  BY <1>1, ComponentComing, SocketComing
<1>2. CASE Server /\ UNCHANGED pageVars
  BY <1>2, ServerComing
<1>3. CASE UNCHANGED vars
  BY <1>3, ComingKept DEF vars, hubVars, pageVars, Due, Current
<1>4. QED
  BY <1>1, <1>2, <1>3 DEF Next

(***************************************************************************)
(* Where the newest connection of a page is listed.                        *)
(***************************************************************************)

(* A connection is used when its turn has come, and its reader ends only   *)
(* when it is cut.                                                         *)
LinkRight ==
  \A c \in Conn :
    /\ link[c] # "none" => c[2] <= ws[c[1]].conn
    /\ client[c].reader \in {"unregister", "done"} => link[c] = "cut"

(* Past its registration the newest connection of a page is the listed one.*)
Registered(c) ==
  client[c].handler \in {"services", "maps", "done"} /\ client[c].reader # "done"

NewestListed ==
  \A b \in Browsers : Registered(Current(b)) => ClientList[b] = Current(b)

LEMMA ConnSteps ==
  ASSUME TypeOK, [Next]_vars
  PROVE  \/ \E b \in Browsers : Reconnect(b)
         \/ \A b \in Browsers : ws'[b].conn = ws[b].conn
<1>0. ws \in [Browsers -> WebSocket]
  BY DEF TypeOK, PageTypeOK
<1>1. ASSUME NEW b \in Browsers, OnOpen(b)
      PROVE  \A a \in Browsers : ws'[a].conn = ws[a].conn
  BY <1>0, <1>1 DEF OnOpen, WebSocket
<1>2. ASSUME NEW b \in Browsers, OnClose(b)
      PROVE  \A a \in Browsers : ws'[a].conn = ws[a].conn
  BY <1>0, <1>2 DEF OnClose, WebSocket
<1>3. QED
  BY <1>1, <1>2, PageSteps DEF Mount, Unmount, StartSender, FireSend, FireSendEnds, pageVars

LEMMA LinkSteps ==
  ASSUME TypeOK, [Next]_vars
  PROVE  \/ \E b \in Browsers : Connect(b) \/ OnClose(b)
         \/ \E c \in Conn : Cut(c)
         \/ ServerDies
         \/ UNCHANGED link
<1>1. CASE \E b \in Browsers : Component(b) \/ Socket(b)
  BY <1>1 DEF Component, Socket, Mount, Unmount, OnOpen, Reconnect, StartSender, FireSend,
              FireSendEnds, OnMessage, hubVars
<1>2. CASE Server /\ UNCHANGED pageVars
  BY <1>2 DEF Server, Serve, Read, Write, Walk, PushTo, RegisterClient, StartServices,
              MakeMaps, ReadFrame, ReadPanics, ReadFails, UnregisterClient, TakeMessage,
              WriteMessage, SendSubscribed, SendNewTaskLogFormOrm, AutoSubscribe,
              SendAdd, TakePush, SendSubscribedInfo, PushDone
<1>3. CASE UNCHANGED vars
  BY <1>3 DEF vars, hubVars
<1>4. QED
  BY <1>1, <1>2, <1>3 DEF Next

LEMMA LinkKept ==
  ASSUME TypeOK, [Next]_vars, NEW c \in Conn
  PROVE  /\ link[c] = "cut" => link'[c] = "cut"
         /\ link'[c] # "none" => link[c] # "none" \/ c = Current(c[1])
<1>0. link \in [Conn -> {"none", "open", "cut"}]
  BY DEF TypeOK, HubTypeOK
<1>1. ASSUME NEW b \in Browsers, Connect(b) \/ OnClose(b)
      PROVE  /\ link[c] = "cut" => link'[c] = "cut"
             /\ link'[c] # "none" => link[c] # "none" \/ c = Current(c[1])
  <2>1. Current(b) \in Conn /\ Current(b)[1] = b
    BY CurrentConn
  <2>2. link[Current(b)] # "cut" \/ link'[Current(b)] = "cut"
    BY <1>0, <1>1, <2>1 DEF Connect, Upgrade, OnClose
  <2>3. c # Current(b) => link'[c] = link[c]
    BY <1>0, <1>1, <2>1 DEF Connect, Upgrade, OnClose
  <2>4. QED
    BY <2>1, <2>2, <2>3
<1>2. QED
  BY <1>0, <1>1, LinkSteps DEF Cut, ServerDies

(* A reader ends by ReadFails.                                             *)
LEMMA ReaderSteps ==
  ASSUME TypeOK, [Next]_vars, NEW c \in Conn,
         client'[c].reader \in {"unregister", "done"}
  PROVE  client[c].reader \in {"unregister", "done"} \/ link[c] = "cut"
<1>0. client \in [Conn -> Client]
  BY DEF TypeOK, HubTypeOK
<1>1. ASSUME NEW d \in Conn, Serve(d) \/ Write(d) \/ Upgrade(d)
      PROVE  client[c].reader \in {"unregister", "done"}
  BY <1>0, <1>1 DEF Serve, Write, Upgrade, RegisterClient, StartServices, MakeMaps,
                    TakeMessage, WriteMessage, Client
<1>2. ASSUME NEW d \in Conn, Read(d)
      PROVE  client[c].reader \in {"unregister", "done"} \/ link[c] = "cut"
  BY <1>0, <1>2 DEF Read, ReadFrame, ReadPanics, ReadFails, UnregisterClient,
                    ServerDies, NoClient, Client
<1>3. ASSUME NEW p \in Publishers, NEW d \in Conn, AutoSubscribe(p, d)
      PROVE  client[c].reader \in {"unregister", "done"}
  BY <1>0, <1>3 DEF AutoSubscribe, Client
<1>4. CASE PushTo
  BY <1>0, <1>4 DEF PushTo, PushDone, SendSubscribedInfo, Client
<1>5. QED
  BY <1>1, <1>2, <1>3, <1>4, ClientSteps DEF TakePush, ServerDies, NoClient

LEMMA NextLink ==
  ASSUME TypeOK, LinkRight, [Next]_vars PROVE LinkRight'
<1> SUFFICES ASSUME NEW c \in Conn
             PROVE  /\ link'[c] # "none" => c[2] <= ws'[c[1]].conn
                    /\ client'[c].reader \in {"unregister", "done"} => link'[c] = "cut"
  BY DEF LinkRight
<1>0. /\ ws \in [Browsers -> WebSocket]
      /\ c[1] \in Browsers
      /\ c[2] \in Nat
  BY DEF TypeOK, PageTypeOK, Conn
<1>1. ws[c[1]].conn <= ws'[c[1]].conn
  <2>1. ws[c[1]].conn \in Nat
    BY <1>0 DEF WebSocket
  <2>2. ASSUME NEW b \in Browsers, Reconnect(b) PROVE ws[c[1]].conn <= ws'[c[1]].conn
    BY <1>0, <2>1, <2>2 DEF Reconnect
  <2>3. QED
    BY <1>0, <2>1, <2>2, ConnSteps
<1>2. ASSUME link'[c] # "none" PROVE c[2] <= ws'[c[1]].conn
  <2>1. c[2] <= ws[c[1]].conn
    <3>1. CASE link[c] # "none"
      BY <3>1 DEF LinkRight
    <3>2. CASE c = Current(c[1])
      <4>1. c[2] = ws[c[1]].conn
        BY <3>2 DEF Current
      <4>2. QED
        BY <1>0, <4>1
    <3>3. QED
      BY <1>2, <3>1, <3>2, LinkKept
  <2>2. ws[c[1]].conn \in Nat /\ ws'[c[1]].conn \in Nat
    <3>1. ws[c[1]].conn \in Nat
      BY <1>0 DEF WebSocket
    <3>2. ASSUME NEW b \in Browsers, Reconnect(b) PROVE ws'[c[1]].conn \in Nat
      BY <1>0, <3>1, <3>2 DEF Reconnect
    <3>3. QED
      BY <1>0, <3>1, <3>2, ConnSteps
  <2>3. QED
    BY <1>0, <1>1, <2>1, <2>2
<1>3. ASSUME client'[c].reader \in {"unregister", "done"} PROVE link'[c] = "cut"
  BY <1>3, LinkKept, ReaderSteps DEF LinkRight
<1>4. QED
  BY <1>2, <1>3

(* The steps that can put the newest connection of a page out of the list, *)
(* with no earlier one left.                                               *)
LEMMA NewestKept ==
  ASSUME TypeOK, ClientRight, NewestListed, OldConnectionsGone, [Next]_vars,
         NEW b \in Browsers, NEW n, n = Current(b), Registered(n)'
  PROVE  ClientList'[b] = n
<1>0. /\ n \in Conn /\ n[1] = b
      /\ client \in [Conn -> Client]
      /\ ClientList \in [Browsers -> Conn \cup {NoConn}]
  BY CurrentConn DEF TypeOK, HubTypeOK
<1>1. /\ client'[n].handler \in {"services", "maps", "done"}
      /\ client'[n].reader # "done"
  BY DEF Registered
<1>2. Registered(n) => ClientList[b] = n
  BY DEF NewestListed
<1>3. ASSUME NEW c \in Conn, c[1] = b, c # n, client[n].handler # "none"
      PROVE  client[c].handler = "none" \/ client[c].reader = "done"
  BY <1>3 DEF OldConnectionsGone
<1>4. ASSUME UNCHANGED ClientList, Registered(n) PROVE ClientList'[b] = n
  BY <1>2, <1>4
<1>5. ASSUME NEW c \in Conn, Serve(c) \/ Write(c) \/ Upgrade(c) PROVE ClientList'[b] = n
  <2>1. CASE Upgrade(c)
    <3>1. c # n
      BY <1>0, <1>1, <2>1 DEF Upgrade, Client
    <3>2. QED
      BY <1>0, <1>1, <1>4, <2>1, <3>1 DEF Upgrade, Registered
  <2>2. CASE RegisterClient(c)
    <3>1. CASE c = n
      BY <1>0, <2>2, <3>1 DEF RegisterClient
    <3>2. CASE c # n
      <4>1. client'[n] = client[n] /\ client[n].handler # "none"
        BY <1>0, <1>1, <2>2, <3>2 DEF RegisterClient
      <4>2. client[c].handler = "register" /\ client[c].reader = "off"
        BY <1>0, <2>2 DEF RegisterClient, ClientRight, Client
      <4>3. c[1] # b
        BY <1>3, <3>2, <4>1, <4>2
      <4>4. QED
        BY <1>0, <1>1, <1>2, <2>2, <4>1, <4>3, ConnParts DEF RegisterClient, Registered
    <3>3. QED
      BY <3>1, <3>2
  <2>3. CASE StartServices(c) \/ MakeMaps(c)
    <3>1. Registered(n)
      BY <1>0, <1>1, <2>3 DEF StartServices, MakeMaps, Registered, ClientRight, Client
    <3>2. QED
      BY <1>4, <2>3, <3>1 DEF StartServices, MakeMaps
  <2>4. CASE Write(c)
    <3>1. client[n].handler = client'[n].handler /\ client[n].reader = client'[n].reader
      <4>1. CASE TakeMessage(c)
        BY <1>0, <4>1 DEF TakeMessage, Client
      <4>2. CASE WriteMessage(c)
        BY <1>0, <4>2 DEF WriteMessage, Client
      <4>3. QED
        BY <2>4, <4>1, <4>2 DEF Write
    <3>2. QED
      BY <1>1, <1>4, <2>4, <3>1 DEF Registered, Write, TakeMessage, WriteMessage
  <2>5. QED
    BY <1>5, <2>1, <2>2, <2>3, <2>4 DEF Serve
<1>6. ASSUME NEW c \in Conn, Read(c) PROVE ClientList'[b] = n
  <2>1. CASE ReadFrame(c) \/ ReadFails(c)
    <3>1. client[n].handler = client'[n].handler /\ client[n].reader # "done"
      <4>1. CASE ReadFrame(c)
        BY <1>0, <1>1, <4>1 DEF ReadFrame, Client
      <4>2. CASE ReadFails(c)
        BY <1>0, <1>1, <4>2 DEF ReadFails, Client
      <4>3. QED
        BY <2>1, <4>1, <4>2
    <3>2. QED
      BY <1>1, <1>4, <2>1, <3>1 DEF Registered, ReadFrame, ReadFails
  <2>2. CASE ReadPanics(c)
    BY <1>0, <1>1, <2>2 DEF ReadPanics, ServerDies, NoClient
  <2>3. CASE UnregisterClient(c)
    <3>1. c # n
      BY <1>0, <1>1, <2>3 DEF UnregisterClient, Client
    <3>2. client'[n] = client[n] /\ client[n].handler # "none"
      BY <1>0, <1>1, <2>3, <3>1 DEF UnregisterClient
    <3>3. client[c].handler # "none" /\ client[c].reader # "done"
      BY <1>0, <2>3 DEF UnregisterClient, ClientRight, Client
    <3>4. c[1] # b
      BY <1>3, <3>1, <3>2, <3>3
    <3>5. QED
      BY <1>0, <1>1, <1>2, <2>3, <3>2, <3>4, ConnParts DEF UnregisterClient, Registered
  <2>4. QED
    BY <1>6, <2>1, <2>2, <2>3 DEF Read
<1>7. ASSUME NEW p \in Publishers, NEW c \in Conn, AutoSubscribe(p, c)
      PROVE  ClientList'[b] = n
  <2>1. Registered(n)
    BY <1>0, <1>1, <1>7 DEF AutoSubscribe, Registered, Client
  <2>2. QED
    BY <1>4, <1>7, <2>1 DEF AutoSubscribe
<1>8. CASE PushTo
  <2>1. Registered(n)
    BY <1>0, <1>1, <1>8 DEF PushTo, PushDone, SendSubscribedInfo, Registered, Client
  <2>2. ClientList' = ClientList
    BY <1>8 DEF PushTo, PushDone, SendSubscribedInfo
  <2>3. QED
    BY <1>2, <2>1, <2>2
<1>9. CASE ClientList' = ClientList /\ client' = client
  BY <1>1, <1>2, <1>9 DEF Registered
<1>10. CASE ServerDies
  BY <1>0, <1>1, <1>10 DEF ServerDies, NoClient
<1>11. ASSUME NEW p \in Publishers, TakePush(p)
       PROVE  ClientList' = ClientList /\ client' = client
  BY <1>11 DEF TakePush
<1>12. QED
  BY <1>5, <1>6, <1>7, <1>8, <1>9, <1>10, <1>11, ClientSteps

LEMMA NextNewest ==
  ASSUME TypeOK, ClientRight, LinkRight, NewestListed, OldConnectionsGone, [Next]_vars
  PROVE  NewestListed'
<1> SUFFICES ASSUME NEW b \in Browsers, Registered(Current(b))'
             PROVE  ClientList'[b] = Current(b)'
  BY DEF NewestListed
<1>1. CASE ws'[b].conn = ws[b].conn
  BY <1>1, NewestKept DEF Current
<1>2. ASSUME NEW a \in Browsers, Reconnect(a), ws'[b].conn # ws[b].conn PROVE FALSE
  <2>0. ws \in [Browsers -> WebSocket] /\ ws[b].conn \in 1..MaxConns
    BY DEF TypeOK, PageTypeOK, WebSocket
  <2>1. ws'[b].conn = ws[b].conn + 1 /\ ws[b].conn + 1 \in 1..MaxConns
    BY <1>2, <2>0 DEF Reconnect
  <2>2. Current(b)' = <<b, ws[b].conn + 1>> /\ <<b, ws[b].conn + 1>> \in Conn
    BY <2>1 DEF Current, Conn
  <2>3. link[<<b, ws[b].conn + 1>>] = "none"
    BY <2>0, <2>1, <2>2 DEF LinkRight
  <2>4. client'[Current(b)'].handler = "none"
    BY <1>2, <2>2, <2>3 DEF ClientRight, Reconnect, hubVars
  <2>5. QED
    BY <2>4 DEF Registered
<1>3. QED
  BY <1>1, <1>2, ConnSteps

(***************************************************************************)
(* The theorems.                                                           *)
(***************************************************************************)

LEMMA InitInv == Init => IndInv
<1> SUFFICES ASSUME Init PROVE IndInv
  OBVIOUS
<1>1. TypeOK
  BY InitType
<1>2. ClientRight /\ ListedRight
  <2>1. \A c \in Conn : ClientList[c[1]] # c
    BY ConnParts DEF Init, HubInit
  <2>2. QED
    BY <2>1 DEF Init, HubInit, NoClient, ClientRight, ListedRight, Listed
<1>3. TimerRight /\ ShownKnown /\ SenderAlive /\ SubscriptionsComing
  BY DEF Init, TimerRight, ShownKnown, SenderAlive, SubscriptionsComing, Due
<1>4. QED
  BY <1>1, <1>2, <1>3 DEF IndInv

LEMMA NextInv == IndInv /\ [Next]_vars => IndInv'
BY NextType, NextClient, NextListed, NextTimer, NextShown, NextSender, NextComing
   DEF IndInv

(* Every variable keeps its type: no connection is made that was not       *)
(* allowed, and no client holds more updates than its channel has room for *)
(* (Socket.js, ws.go, client.go).                                          *)
THEOREM TypeCorrect == Spec => []TypeOK
<1>1. IndInv => TypeOK
  BY DEF IndInv
<1>2. QED
  BY <1>1, InitInv, NextInv, PTL DEF Spec

(* When all it sent has been read, a connected page is subscribed to what  *)
(* it shows, but for what one component unsubscribed under another: for    *)
(* every number of connections, topics and components.                     *)
THEOREM PagesAreSubscribed == Spec => []SubscriptionsHeld
<1>1. IndInv => SubscriptionsHeld
  <2> SUFFICES ASSUME IndInv, NEW b \in Browsers, ws[b].state = "open",
                      messageQueue[b] = <<>>, link[Current(b)] = "open",
                      up[Current(b)] = <<>>,
                      NEW x \in Shown, subscribed[b][x] # {}, x \notin robbed[b]
               PROVE  x \in client[Current(b)].subscribed
    BY DEF SubscriptionsHeld
  <2>1. Coming(b, x)
    BY DEF IndInv, SubscriptionsComing, Due
  <2>2. QED
    BY <2>1 DEF Coming, Says
<1>2. QED
  BY <1>1, InitInv, NextInv, PTL DEF Spec

(* No client stays in the list when its reader has ended, in whatever      *)
(* order the connections of a page come and go.                            *)
THEOREM ListHasNoDead == Spec => []DeadClientsGone
<1>1. IndInv => DeadClientsGone
  BY DEF IndInv, ListedRight, DeadClientsGone
<1>2. QED
  BY <1>1, InitInv, NextInv, PTL DEF Spec

(* A connected page has a timer or a loop that sends its frames.           *)
THEOREM ConnectedPagesSend == Spec => []SenderAlive
<1>1. IndInv => SenderAlive
  BY DEF IndInv
<1>2. QED
  BY <1>1, InitInv, NextInv, PTL DEF Spec

(* Where the hub waits, a writer is at work: for every number of clients   *)
(* and every capacity.                                                     *)
THEOREM HubIsServed == Spec => []HubWaitsForWriter
<1>1. IndInv => HubWaitsForWriter
  <2> SUFFICES ASSUME IndInv, NEW c \in hub.todo, client[c].Message = MessageCap
               PROVE  client[c].writer # "off"
    BY DEF HubWaitsForWriter
  <2>1. c \in Conn /\ client[c] \in Client
    BY DEF IndInv, TypeOK, HubTypeOK, Hub
  <2>2. client[c].Message > 0
    OBVIOUS
  <2>3. QED
    BY <2>1, <2>2 DEF IndInv, ClientRight
<1>2. QED
  BY <1>1, InitInv, NextInv, PTL DEF Spec

(* While the server accepts a connection of a page only when it has        *)
(* unregistered the earlier ones, the newest connection of a page is       *)
(* listed from its registration until it is cut, through deaths of the     *)
(* server and any number of connections: what takes a connected page out   *)
(* of the list is an earlier connection of its own that registers or       *)
(* unregisters late (ws.go WsClient and Start, Websocket.js onReconnect).  *)
THEOREM ConnectedStaysListed == Spec /\ []OldConnectionsGone => []ConnectedIsListed
<1>1. Init => LinkRight /\ NewestListed
  <2> SUFFICES ASSUME Init PROVE LinkRight /\ NewestListed
    OBVIOUS
  <2>1. LinkRight
    BY DEF Init, HubInit, NoClient, LinkRight
  <2>2. \A b \in Browsers : client[Current(b)].handler = "none"
    BY InitType, CurrentConn DEF Init, HubInit, NoClient
  <2>3. QED
    BY <2>1, <2>2 DEF NewestListed, Registered
<1>2. IndInv /\ LinkRight /\ NewestListed /\ OldConnectionsGone /\ [Next]_vars
        => LinkRight' /\ NewestListed'
  BY NextLink, NextNewest DEF IndInv
<1>3. IndInv /\ LinkRight /\ NewestListed => ConnectedIsListed
  <2> SUFFICES ASSUME IndInv, LinkRight, NewestListed, NEW b \in Browsers,
                      client[Current(b)].handler = "done", link[Current(b)] = "open"
               PROVE  ClientList[b] = Current(b)
    BY DEF ConnectedIsListed
  <2>1. Current(b) \in Conn
    BY CurrentConn DEF IndInv
  <2>2. client[Current(b)].reader # "done"
    BY <2>1 DEF LinkRight
  <2>3. QED
    BY <2>2 DEF NewestListed, Registered
<1>4. QED
  BY <1>1, <1>2, <1>3, InitInv, NextInv, PTL DEF Spec

=============================================================================
