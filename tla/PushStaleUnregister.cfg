\* a page that connects again before its old connection is unregistered
SPECIFICATION Spec
CONSTANTS
  Browsers = {b1}
  Topics = {add}
  AddTopic = add
  LogTopics = {}
  Publishers = {}
  MessageCap = 1
  SocketCap = 1
  MaxConns = 2
  Shown = {add}
  Keys = {k1}
  FirstAttempts = 1
  Attempts = 1
  MaxFrames = 1
INVARIANT ConnectedIsListed
