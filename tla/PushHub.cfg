\* one page with one connection, and two goroutines that push
SPECIFICATION FairSpec
CONSTANTS
  Browsers = {b1}
  Topics = {add, log}
  AddTopic = add
  LogTopics = {log}
  Publishers = {p1, p2}
  MessageCap = 1
  SocketCap = 1
  MaxConns = 1
  Shown = {add}
  Keys = {k1}
  FirstAttempts = 1
  Attempts = 1
  MaxFrames = 1
INVARIANT HubWaitsForWriter
PROPERTY HubServesAll
