------------------------------- MODULE WsHub -------------------------------
(***************************************************************************)
(* The server's side of the push service: the hub goroutine and the HTTP   *)
(* handler of /ws/:clientId (src/web/ws/ws.go), the reader and the writer  *)
(* goroutine of each connection (client.go) and the goroutines that push   *)
(* (subscription/*.go, called from job goroutines, the push cron and HTTP  *)
(* handlers).                                                              *)
(*                                                                         *)
(* Register, Unregister and subscribeMessage are channels without a        *)
(* buffer, so a send on one of them and the hub's receive are one action.  *)
(* Only client.Message has a buffer; what is in it matters to nobody here, *)
(* so updates are counted.  The ClientList and the maps of subscriptions   *)
(* are touched by several goroutines without a lock; the runtime may       *)
(* answer that with a fatal error, one of the reasons for ServerDies.      *)
(*                                                                         *)
(* This module has no specification of its own: module Push adds the       *)
(* browsers at the other end of the connections.                           *)
(***************************************************************************)
EXTENDS Naturals, Sequences, FiniteSets

CONSTANTS
  Browsers,     \* pages that are open, by the client id they made up
  Topics,       \* pairs of a subscription type and an id
  AddTopic,     \* TASK_LOG_ADD of a task
  LogTopics,    \* TASK_LOG of the log rows of that task
  Publishers,   \* goroutines that push
  MessageCap,   \* capacity of client.Message (1024 in the code)
  SocketCap,    \* updates the network holds for a browser that does not read
  MaxConns      \* bound: connections a page makes

ASSUME HubAssumption ==
  /\ IsFiniteSet(Topics)
  /\ AddTopic \in Topics
  /\ LogTopics \subseteq Topics \ {AddTopic}
  /\ MessageCap \in Nat \ {0}
  /\ SocketCap \in Nat \ {0}
  /\ MaxConns \in Nat \ {0}

(* Connection <<b, k>> is the k-th one of page b; its Client has Id b.     *)
Conn   == Browsers \X (1..MaxConns)
NoConn == <<>>

VARIABLES
  ClientList,   \* Manager.ClientList
  hub,          \* the goroutine of Manager.Start
  client,       \* the Client of each connection, with its goroutines
  pub,          \* the goroutines that push
  link,         \* the connections: "none", "open" or "cut"
  up,           \* frames on their way to the server
  down          \* updates on their way to the browser, as their number

hubVars == <<ClientList, hub, client, pub, link, up, down>>

Frame == [event : {"SUBSCRIBE", "UNSUBSCRIBE"}, topic : Topics]

NoClient == [handler |-> "none", reader |-> "off", writer |-> "off",
             made |-> FALSE, subscribed |-> {}, Message |-> 0]
IdlePub  == [pc |-> "idle", topic |-> AddTopic, todo |-> {}]
IdleHub  == [pc |-> "select", topic |-> AddTopic, todo |-> {}]

Listed == {c \in Conn : ClientList[c[1]] = c}

Client ==
  [handler : {"none", "register", "services", "maps", "done"},
   reader : {"off", "read", "unregister", "done"},
   writer : {"off", "take", "write"},
   made : BOOLEAN, subscribed : SUBSET Topics, Message : 0..MessageCap]
Pub == [pc : {"idle", "walk", "send"}, topic : Topics, todo : SUBSET Conn]
Hub == [pc : {"select", "push"}, topic : Topics, todo : SUBSET Conn]

HubTypeOK ==
  /\ ClientList \in [Browsers -> Conn \cup {NoConn}]
  /\ hub \in Hub
  /\ client \in [Conn -> Client]
  /\ pub \in [Publishers -> Pub]
  /\ link \in [Conn -> {"none", "open", "cut"}]
  /\ up \in [Conn -> Seq(Frame)]
  /\ down \in [Conn -> 0..SocketCap]

HubInit ==
  /\ ClientList = [b \in Browsers |-> NoConn]
  /\ hub = IdleHub
  /\ client = [c \in Conn |-> NoClient]
  /\ pub = [p \in Publishers |-> IdlePub]
  /\ link = [c \in Conn |-> "none"]
  /\ up = [c \in Conn |-> <<>>]
  /\ down = [c \in Conn |-> 0]

(***************************************************************************)
(* WsClient, one step per blocking call or write that others can see.      *)
(***************************************************************************)

Upgrade(c) ==
  /\ link[c] = "none"
  /\ link' = [link EXCEPT ![c] = "open"]
  /\ client' = [client EXCEPT ![c].handler = "register"]
  /\ UNCHANGED <<ClientList, hub, pub, up, down>>

RegisterClient(c) ==
  /\ client[c].handler = "register"
  /\ hub.pc = "select"
  /\ ClientList' = [ClientList EXCEPT ![c[1]] = c]
  /\ client' = [client EXCEPT ![c].handler = "services"]
  /\ UNCHANGED <<hub, pub, link, up, down>>

(* Mutant: the goroutines are started before the client is registered.     *)
StartServicesFirst(c) ==
  /\ client[c].handler = "register"
  /\ client[c].reader = "off"
  /\ client' = [client EXCEPT ![c].reader = "read", ![c].writer = "take"]
  /\ UNCHANGED <<ClientList, hub, pub, link, up, down>>

(* StartAllService: both goroutines are started ...                        *)
StartServices(c) ==
  /\ client[c].handler = "services"
  /\ client' = [client EXCEPT ![c].handler = "maps", ![c].reader = "read",
                              ![c].writer = "take"]
  /\ UNCHANGED <<ClientList, hub, pub, link, up, down>>

(* ... and then the maps they use are made.                                *)
MakeMaps(c) ==
  /\ client[c].handler = "maps"
  /\ client' = [client EXCEPT ![c].handler = "done", ![c].made = TRUE]
  /\ UNCHANGED <<ClientList, hub, pub, link, up, down>>

(***************************************************************************)
(* readService and writeService.                                           *)
(***************************************************************************)

toggleSubscribe(subscribed, f) ==
  IF f.event = "SUBSCRIBE" THEN subscribed \cup {f.topic}
                           ELSE subscribed \ {f.topic}

ReadFrame(c) ==
  /\ client[c].reader = "read"
  /\ up[c] # <<>>
  /\ client[c].made
  /\ client' = [client EXCEPT ![c].subscribed = toggleSubscribe(@, Head(up[c]))]
  /\ up' = [up EXCEPT ![c] = Tail(@)]
  /\ UNCHANGED <<ClientList, hub, pub, link, down>>

(* ReadMessage fails once the connection is gone: the end of the reader.   *)
ReadFails(c) ==
  /\ client[c].reader = "read"
  /\ link[c] = "cut"
  /\ client' = [client EXCEPT ![c].reader = "unregister"]
  /\ up' = [up EXCEPT ![c] = <<>>]
  /\ UNCHANGED <<ClientList, hub, pub, link, down>>

(* The hub deletes what it has under the id of the client.                 *)
UnregisterClient(c) ==
  /\ client[c].reader = "unregister"
  /\ hub.pc = "select"
  /\ ClientList' = [ClientList EXCEPT ![c[1]] = NoConn]
  /\ client' = [client EXCEPT ![c].reader = "done"]
  /\ UNCHANGED <<hub, pub, link, up, down>>

(* Mutant: the select of writeService has a default case.                  *)
TakeAnyMessage(c) ==
  /\ client[c].writer = "take"
  /\ client' = [client EXCEPT ![c].writer = "write", ![c].Message = @ - 1]
  /\ UNCHANGED <<ClientList, hub, pub, link, up, down>>

TakeMessage(c) ==
  /\ client[c].writer = "take"
  /\ client[c].Message > 0
  /\ client' = [client EXCEPT ![c].writer = "write", ![c].Message = @ - 1]
  /\ UNCHANGED <<ClientList, hub, pub, link, up, down>>

(* Mutant: writeService returns when WriteMessage fails.                   *)
WriteMessageReturns(c) ==
  /\ client[c].writer = "write"
  /\ \/ /\ link[c] = "open"
        /\ down[c] < SocketCap
        /\ down' = [down EXCEPT ![c] = @ + 1]
        /\ client' = [client EXCEPT ![c].writer = "take"]
     \/ /\ link[c] = "cut"
        /\ client' = [client EXCEPT ![c].writer = "off"]
        /\ UNCHANGED down
  /\ UNCHANGED <<ClientList, hub, pub, link, up>>

(* An error of WriteMessage is logged, and the loop goes on: nobody closes *)
(* client.Message, so a writer lives as long as the server.                *)
WriteMessage(c) ==
  /\ client[c].writer = "write"
  /\ \/ /\ link[c] = "open"
        /\ down[c] < SocketCap
        /\ down' = [down EXCEPT ![c] = @ + 1]
     \/ /\ link[c] = "cut"
        /\ UNCHANGED down
  /\ client' = [client EXCEPT ![c].writer = "take"]
  /\ UNCHANGED <<ClientList, hub, pub, link, up>>

(***************************************************************************)
(* The goroutines that push, and the hub.                                  *)
(***************************************************************************)

(* SendTaskInfoFormOrm, SendTaskLogInfoFormOrm and the system monitor.     *)
SendSubscribed(p, x) ==
  /\ pub[p].pc = "idle"
  /\ pub' = [pub EXCEPT ![p] = [pc |-> "send", topic |-> x, todo |-> {}]]
  /\ UNCHANGED <<ClientList, hub, client, link, up, down>>

(* SendNewTaskLogFormOrm walks the list of clients in a job goroutine:     *)
(* who waits for new rows is subscribed to this one.                       *)
SendNewTaskLogFormOrm(p, x) ==
  /\ pub[p].pc = "idle"
  /\ pub' = [pub EXCEPT ![p] = [pc |-> "walk", topic |-> x, todo |-> Listed]]
  /\ UNCHANGED <<ClientList, hub, client, link, up, down>>

AutoSubscribe(p, c) ==
  /\ pub[p].pc = "walk"
  /\ c \in pub[p].todo
  /\ pub' = [pub EXCEPT ![p].todo = @ \ {c}]
  /\ client' = IF c \in Listed /\ AddTopic \in client[c].subscribed
               THEN [client EXCEPT ![c].subscribed = @ \cup {pub[p].topic}]
               ELSE client
  /\ UNCHANGED <<ClientList, hub, link, up, down>>

SendAdd(p) ==
  /\ pub[p].pc = "walk"
  /\ pub[p].todo = {}
  /\ pub' = [pub EXCEPT ![p] = [pc |-> "send", topic |-> AddTopic, todo |-> {}]]
  /\ UNCHANGED <<ClientList, hub, client, link, up, down>>

(* The third case of the hub's select; the sender goes on.                 *)
TakePush(p) ==
  /\ pub[p].pc = "send"
  /\ hub.pc = "select"
  /\ hub' = [pc |-> "push", topic |-> pub[p].topic, todo |-> Listed]
  /\ pub' = [pub EXCEPT ![p] = IdlePub]
  /\ UNCHANGED <<ClientList, client, link, up, down>>

(* A full client.Message stops the hub here.                               *)
SendSubscribedInfo(c) ==
  /\ hub.pc = "push"
  /\ c \in hub.todo
  /\ \/ /\ hub.topic \notin client[c].subscribed
        /\ UNCHANGED client
     \/ /\ hub.topic \in client[c].subscribed
        /\ client[c].Message < MessageCap
        /\ client' = [client EXCEPT ![c].Message = @ + 1]
  /\ hub' = [hub EXCEPT !.todo = @ \ {c}]
  /\ UNCHANGED <<ClientList, pub, link, up, down>>

PushDone ==
  /\ hub.pc = "push"
  /\ hub.todo = {}
  /\ hub' = IdleHub
  /\ UNCHANGED <<ClientList, client, pub, link, up, down>>

(***************************************************************************)
(* The connection, and the end of the server.                              *)
(***************************************************************************)

(* Frames and updates under way may be lost with the connection.           *)
Cut(c) ==
  /\ link[c] = "open"
  /\ link' = [link EXCEPT ![c] = "cut"]
  /\ down' = [down EXCEPT ![c] = 0]
  /\ UNCHANGED <<ClientList, hub, client, pub, up>>

(* The server dies and is started again.  Its goroutines are gone, and its *)
(* end of every connection is closed.                                      *)
ServerDies ==
  /\ ClientList' = [b \in Browsers |-> NoConn]
  /\ hub' = IdleHub
  /\ client' = [c \in Conn |-> NoClient]
  /\ pub' = [p \in Publishers |-> IdlePub]
  /\ link' = [c \in Conn |-> IF link[c] = "open" THEN "cut" ELSE link[c]]
  /\ down' = [c \in Conn |-> 0]
  /\ up' = [c \in Conn |-> <<>>]

(* A frame is read before the maps are made: the entry for its type is     *)
(* written to a nil map, and the panic is in a goroutine without Recover.  *)
ReadPanics(c) ==
  /\ client[c].reader = "read"
  /\ up[c] # <<>>
  /\ ~client[c].made
  /\ ServerDies

(***************************************************************************)
(* Steps of the server, grouped for the fairness of Push.                  *)
(***************************************************************************)

Serve(c) ==
  \/ RegisterClient(c)
  \/ StartServices(c)
  \/ MakeMaps(c)

Read(c) ==
  \/ ReadFrame(c)
  \/ ReadPanics(c)
  \/ ReadFails(c)
  \/ UnregisterClient(c)

Write(c) ==
  \/ TakeMessage(c)
  \/ WriteMessage(c)

PushTo == PushDone \/ \E c \in Conn : SendSubscribedInfo(c)

Walk(p) == SendAdd(p) \/ \E c \in Conn : AutoSubscribe(p, c)

=============================================================================
