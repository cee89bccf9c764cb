\* Two goroutines, a request and a notification of the main loop, one pipe;
\* or two messages in the other direction.
SPECIFICATION TransportSpec
CONSTANTS
  Task = {g1, g2, r, n}
  Request = {g1, g2, r}
  Concurrent = {g1, g2}
  Shutdown = {r}
  NoTask = NoTask
  Parts = 1
  Room = 1
  MaxNotes = 2
  Payload <- MCPayload
  Malformed <- MCMalformed
  Before <- MCBefore
  MaxMessages = 2
INVARIANTS
  FramesAreWhole
  OrderlyEnd
  DeliveredAsSent
  StopsForAReason
PROPERTIES
  StreamOfMessages
  MainLoopComesBack
  EverythingSentIsRead
