-------------------------------- MODULE Push --------------------------------
(***************************************************************************)
(* The push service as a whole: WsHub, and the browsers that use it, whose *)
(* code is Socket.js and Websocket.js of src/web/client/src/common/socket. *)
(*                                                                         *)
(* JavaScript runs to completion, so an action of a browser is one         *)
(* callback: an effect of a component, an event of the WebSocket or a      *)
(* timer.  A page keeps its client id when it connects again.  The PING of *)
(* Heart is left out: readService unmarshals a frame into a map of strings *)
(* and drops this one, whose data is an object.                            *)
(***************************************************************************)
EXTENDS WsHub

CONSTANTS
  Shown,          \* topics the components of the page show
  Keys,           \* components that show the same topic, by handlerKey
  FirstAttempts,  \* options.reconnectCount at the start (5 in the code)
  Attempts,       \* reconnectCount (10 in the code)
  MaxFrames       \* bound: frames of a page on their way when a component
                  \* is mounted or unmounted

ASSUME PushAssumption ==
  /\ Shown \subseteq Topics
  /\ FirstAttempts \in Nat
  /\ Attempts \in Nat

VARIABLES
  ws,             \* the WebSocket of each page and its reconnectTimer
  messageQueue,   \* frames a page has still to send
  sender,         \* timers and loops of fireSend
  subscribed,     \* the handlers by topic
  known,          \* topics that have an entry in subscribed
  robbed          \* history: topics unsubscribed under another component

pageVars == <<ws, messageQueue, sender, subscribed, known, robbed>>
vars == <<hubVars, pageVars>>

WebSocket == [conn : 1..MaxConns, attempts : Nat, timer : BOOLEAN,
              state : {"connecting", "open", "closed"}]

PageTypeOK ==
  /\ ws \in [Browsers -> WebSocket]
  /\ messageQueue \in [Browsers -> Seq(Frame)]
  /\ sender \in [Browsers -> [timers : Nat, loops : Nat]]
  /\ subscribed \in [Browsers -> [Shown -> SUBSET Keys]]
  /\ known \in [Browsers -> SUBSET Shown]
  /\ robbed \in [Browsers -> SUBSET Shown]

TypeOK == HubTypeOK /\ PageTypeOK

Init ==
  /\ HubInit
  /\ ws = [b \in Browsers |-> [conn |-> 1, attempts |-> FirstAttempts,
                               timer |-> FALSE, state |-> "connecting"]]
  /\ messageQueue = [b \in Browsers |-> <<>>]
  /\ sender = [b \in Browsers |-> [timers |-> 0, loops |-> 0]]
  /\ subscribed = [b \in Browsers |-> [x \in Shown |-> {}]]
  /\ known = [b \in Browsers |-> {}]
  /\ robbed = [b \in Browsers |-> {}]

Current(b) == <<b, ws[b].conn>>
Sub(x)     == [event |-> "SUBSCRIBE", topic |-> x]
Unsub(x)   == [event |-> "UNSUBSCRIBE", topic |-> x]

FrameBudget(b) == Len(messageQueue[b]) + Len(up[Current(b)]) < MaxFrames

(***************************************************************************)
(* useSubscribe: the effect of a component and its cleanup.                *)
(***************************************************************************)

Mount(b, x, k) ==
  /\ k \notin subscribed[b][x]
  /\ FrameBudget(b)
  /\ messageQueue' = [messageQueue EXCEPT ![b] = Append(@, Sub(x))]
  /\ subscribed' = [subscribed EXCEPT ![b][x] = @ \cup {k}]
  /\ known' = [known EXCEPT ![b] = @ \cup {x}]
  /\ robbed' = [robbed EXCEPT ![b] = @ \ {x}]
  /\ UNCHANGED <<hubVars, ws, sender>>

(* The topic is unsubscribed whether or not others still show it.          *)
Unmount(b, x, k) ==
  /\ k \in subscribed[b][x]
  /\ FrameBudget(b)
  /\ messageQueue' = [messageQueue EXCEPT ![b] = Append(@, Unsub(x))]
  /\ subscribed' = [subscribed EXCEPT ![b][x] = @ \ {k}]
  /\ robbed' = [robbed EXCEPT ![b] =
                  IF subscribed[b][x] = {k} THEN @ ELSE @ \cup {x}]
  /\ UNCHANGED <<hubVars, ws, sender, known>>

(***************************************************************************)
(* The WebSocket.                                                          *)
(***************************************************************************)

(* The server's end is open before onopen runs in the browser.             *)
Connect(b) ==
  /\ ws[b].state = "connecting"
  /\ Upgrade(Current(b))
  /\ UNCHANGED pageVars

(* Mutant: openCb sends nothing: a new connection starts from scratch.     *)
OnOpenForgets(b) ==
  /\ ws[b].state = "connecting"
  /\ link[Current(b)] # "none"
  /\ ws' = [ws EXCEPT ![b].state = "open", ![b].attempts = Attempts,
                      ![b].timer = FALSE]
  /\ sender' = [sender EXCEPT ![b].timers = @ + 1]
  /\ robbed' = [robbed EXCEPT ![b] = {}]
  /\ UNCHANGED <<hubVars, messageQueue, subscribed, known>>

(* Mutant: fireSend is started for the first connection only.              *)
OnOpenStartsOnce(b) ==
  /\ ws[b].state = "connecting"
  /\ link[Current(b)] # "none"
  /\ ws' = [ws EXCEPT ![b].state = "open", ![b].attempts = Attempts,
                      ![b].timer = FALSE]
  /\ sender' = [sender EXCEPT ![b].timers = IF ws[b].conn = 1 THEN @ + 1 ELSE @]
  /\ robbed' = [robbed EXCEPT ![b] = {}]
  /\ UNCHANGED <<hubVars, messageQueue, subscribed, known>>

(* openCb sends every topic with an entry, in the order of the entries:    *)
(* its test for an empty entry compares an array with 0 and never holds.   *)
OnOpen(b) ==
  /\ ws[b].state = "connecting"
  /\ link[Current(b)] # "none"
  /\ ws' = [ws EXCEPT ![b].state = "open", ![b].attempts = Attempts,
                      ![b].timer = FALSE]
  /\ \E order \in [1..Cardinality(known[b]) -> known[b]] :
       /\ \A x \in known[b] : \E i \in DOMAIN order : order[i] = x
       /\ messageQueue' = [messageQueue EXCEPT ![b] =
                             @ \o [i \in DOMAIN order |-> Sub(order[i])]]
  /\ sender' = [sender EXCEPT ![b].timers = @ + 1]
  /\ robbed' = [robbed EXCEPT ![b] = {}]
  /\ UNCHANGED <<hubVars, subscribed, known>>

(* onclose, with onReconnect.  A connection that was never accepted is     *)
(* closed as well.                                                         *)
OnClose(b) ==
  /\ ws[b].state # "closed"
  /\ link[Current(b)] # "open"
  /\ link' = [link EXCEPT ![Current(b)] = "cut"]
  /\ ws' = [ws EXCEPT ![b].state = "closed", ![b].timer = ws[b].attempts > 0,
                      ![b].attempts = IF @ > 0 THEN @ ELSE Attempts]
  /\ UNCHANGED <<ClientList, hub, client, pub, up, down,
                 messageQueue, sender, subscribed, known, robbed>>

(* The timer of onReconnect.                                               *)
Reconnect(b) ==
  /\ ws[b].timer
  /\ ws[b].conn < MaxConns
  /\ ws' = [ws EXCEPT ![b] = [conn |-> @.conn + 1, attempts |-> @.attempts - 1,
                              timer |-> FALSE, state |-> "connecting"]]
  /\ UNCHANGED <<hubVars, messageQueue, sender, subscribed, known, robbed>>

(* The timer of onOpen starts a loop of fireSend.                          *)
StartSender(b) ==
  /\ sender[b].timers > 0
  /\ sender' = [sender EXCEPT ![b].timers = @ - 1, ![b].loops = @ + 1]
  /\ UNCHANGED <<hubVars, ws, messageQueue, subscribed, known, robbed>>

(* A loop sends all there is, or ends when there is something to send and  *)
(* the WebSocket is not open; with nothing to send it goes on.             *)
FireSend(b) ==
  /\ sender[b].loops > 0
  /\ messageQueue[b] # <<>>
  /\ ws[b].state = "open"
  /\ messageQueue' = [messageQueue EXCEPT ![b] = <<>>]
  /\ up' = IF link[Current(b)] = "open"
           THEN [up EXCEPT ![Current(b)] = @ \o messageQueue[b]] ELSE up
  /\ UNCHANGED <<ClientList, hub, client, pub, link, down,
                 ws, sender, subscribed, known, robbed>>

FireSendEnds(b) ==
  /\ sender[b].loops > 0
  /\ messageQueue[b] # <<>>
  /\ ws[b].state # "open"
  /\ sender' = [sender EXCEPT ![b].loops = @ - 1]
  /\ UNCHANGED <<hubVars, ws, messageQueue, subscribed, known, robbed>>

(* onmessage gives an update to the handlers of its topic.                 *)
OnMessage(b) ==
  /\ ws[b].state = "open"
  /\ down[Current(b)] > 0
  /\ down' = [down EXCEPT ![Current(b)] = @ - 1]
  /\ UNCHANGED <<ClientList, hub, client, pub, link, up, pageVars>>

(***************************************************************************)
(* The specification.                                                      *)
(***************************************************************************)

Component(b) ==
  \E x \in Shown, k \in Keys : Mount(b, x, k) \/ Unmount(b, x, k)

Socket(b) ==
  \/ Connect(b)
  \/ OnOpen(b)
  \/ OnClose(b)
  \/ Reconnect(b)
  \/ StartSender(b)
  \/ FireSend(b)
  \/ FireSendEnds(b)
  \/ OnMessage(b)

Server ==
  \/ \E c \in Conn : Serve(c) \/ Read(c) \/ Write(c) \/ Cut(c)
  \/ \E p \in Publishers :
       \/ \E x \in Topics : SendSubscribed(p, x)
       \/ \E x \in LogTopics : SendNewTaskLogFormOrm(p, x)
       \/ Walk(p)
       \/ TakePush(p)
  \/ PushTo
  \/ ServerDies

Next ==
  \/ \E b \in Browsers : Component(b) \/ Socket(b)
  \/ Server /\ UNCHANGED pageVars

Spec == Init /\ [][Next]_vars

(* Goroutines are run, and a browser takes its updates unless the          *)
(* connection breaks.  select chooses among the channels that are ready by *)
(* chance, and a channel serves its senders in order: no sender is passed  *)
(* over for ever.  Nothing makes a component, a push or a death happen.    *)
FairSpec ==
  /\ Spec
  /\ \A c \in Conn :
       /\ WF_vars(Write(c) /\ UNCHANGED pageVars)
       /\ WF_vars((StartServices(c) \/ MakeMaps(c)) /\ UNCHANGED pageVars)
       /\ SF_vars(UnregisterClient(c) /\ UNCHANGED pageVars)
  /\ \A p \in Publishers :
       /\ WF_vars(Walk(p) /\ UNCHANGED pageVars)
       /\ SF_vars(TakePush(p) /\ UNCHANGED pageVars)
  /\ WF_vars(PushTo /\ UNCHANGED pageVars)
  /\ \A b \in Browsers : WF_vars(OnMessage(b)) /\ WF_vars(OnOpen(b) \/ OnClose(b))

(***************************************************************************)
(* Properties.                                                             *)
(***************************************************************************)

(* When everything a page sent over its connection has been read, the      *)
(* server pushes it every topic it shows, whatever was mounted and         *)
(* unmounted while connections broke; but for a topic that one component   *)
(* unsubscribed under another (useSubscribe, openCb, toggleSubscribe).     *)
SubscriptionsHeld ==
  \A b \in Browsers :
    (/\ ws[b].state = "open"
     /\ messageQueue[b] = <<>>
     /\ link[Current(b)] = "open"
     /\ up[Current(b)] = <<>>
     /\ client[Current(b)].reader = "read") =>
      {x \in Shown : subscribed[b][x] # {}} \ robbed[b]
        \subseteq client[Current(b)].subscribed

(* The hub keeps no client whose reader has ended, whatever the order in   *)
(* which old and new connections of a page register and unregister.        *)
DeadClientsGone == \A c \in Listed : client[c].reader # "done"

(* While a page is connected, something sends what its components queue:   *)
(* the loop that ended with the last connection has a successor.           *)
SenderAlive ==
  \A b \in Browsers :
    ws[b].state = "open" => sender[b].timers + sender[b].loops > 0

(* The hub waits for a client only while that client's writer is at work:  *)
(* it never waits for a reader, a handler or itself.                       *)
HubWaitsForWriter ==
  \A c \in hub.todo :
    client[c].Message = MessageCap => client[c].writer # "off"

(***************************************************************************)
(* Parts of the inductive invariant.                                       *)
(***************************************************************************)

(* What the goroutines of a client have behind them at each step of its    *)
(* handler: a reader comes only after the registration, maps only after a writer *)
(* and updates only after a subscription.                                  *)
ClientRight ==
  \A c \in Conn :
    /\ link[c] = "none" => client[c].handler = "none"
    /\ client[c].reader # "off" => client[c].handler \in {"maps", "done"}
    /\ client[c].handler \in {"maps", "done"} => client[c].writer # "off"
    /\ client[c].made => client[c].handler = "done"
    /\ client[c].subscribed # {} => client[c].made
    /\ client[c].Message > 0 => client[c].made

(* A client is listed between its registration and the end of its reader.  *)
ListedRight ==
  \A c \in Listed : /\ client[c].handler \in {"services", "maps", "done"}
                    /\ client[c].reader # "done"

TimerRight == \A b \in Browsers : ws[b].timer => ws[b].attempts > 0

ShownKnown ==
  \A b \in Browsers : \A x \in Shown : subscribed[b][x] # {} => x \in known[b]

(* The frames s subscribe topic x, or leave it as it was.                  *)
Says(s, x) ==
  \E i \in 1..Len(s) : /\ s[i] = Sub(x)
                       /\ \A j \in (i + 1)..Len(s) : s[j] # Unsub(x)
Spares(s, x) == \A i \in 1..Len(s) : s[i] # Unsub(x)

(* Page b is connected, and a topic it shows is not robbed.                *)
Due(b, x) ==
  /\ ws[b].state = "open"
  /\ link[Current(b)] = "open"
  /\ subscribed[b][x] # {}
  /\ x \notin robbed[b]

(* What is on its way, read after what was read, subscribes the topic.     *)
Coming(b, x) ==
  \/ Says(messageQueue[b], x)
  \/ /\ Spares(messageQueue[b], x)
     /\ \/ Says(up[Current(b)], x)
        \/ /\ Spares(up[Current(b)], x)
           /\ x \in client[Current(b)].subscribed

(* SubscriptionsHeld, before everything is read.                           *)
SubscriptionsComing ==
  \A b \in Browsers : \A x \in Shown : Due(b, x) => Coming(b, x)

IndInv == /\ TypeOK
          /\ ClientRight
          /\ ListedRight
          /\ TimerRight
          /\ ShownKnown
          /\ SenderAlive
          /\ SubscriptionsComing

(* A goroutine that pushes, a job among them, and a reader that leaves are *)
(* not blocked for ever by a slow or broken connection of someone else.    *)
HubServesAll ==
  /\ \A p \in Publishers : pub[p].pc # "idle" ~> pub[p].pc = "idle"
  /\ \A c \in Conn :
       client[c].reader = "unregister" ~> client[c].reader # "unregister"

(* README.md:83: the server pushes the state to the front end.  So a page  *)
(* is listed while its newest connection is up and past its registration.  *)
ConnectedIsListed ==
  \A b \in Browsers :
    client[Current(b)].handler = "done" /\ link[Current(b)] = "open" =>
      ClientList[b] = Current(b)

(* What would make it so: the server accepts a connection of a page only   *)
(* when it has unregistered the earlier ones.                              *)
OldConnectionsGone ==
  \A c \in Conn :
    c # Current(c[1]) /\ client[Current(c[1])].handler # "none" =>
      client[c].handler = "none" \/ client[c].reader = "done"

=============================================================================
