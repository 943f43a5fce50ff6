\* a page that connects twice and shows a topic twice
SPECIFICATION Spec
CONSTANTS
  Browsers = {b1}
  Topics = {add}
  AddTopic = add
  LogTopics = {}
  Publishers = {}
  MessageCap = 1
  SocketCap = 1
  MaxConns = 2
  Shown = {add}
  Keys = {k1, k2}
  FirstAttempts = 1
  Attempts = 1
  MaxFrames = 3
INVARIANTS TypeOK SubscriptionsHeld DeadClientsGone SenderAlive
\* a page that gave up, or used its connections, has nothing left to do
CHECK_DEADLOCK FALSE
