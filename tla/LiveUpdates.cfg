SPECIFICATION Spec
CONSTANTS
  browser = browser
  s1 = s1
  s2 = s2
  widget = widget
  logs = logs
  Socket = {s1, s2}
  Scoped = {s2}
  Type = {widget, logs}
  Streaming = {logs}
  Permitted <- FirstPermitted
  Paced = FALSE
  MaxTime = 1
  None = None
  Browser = {browser}
  SocketsOf <- TwoSockets
  NoSocket = NoSocket
  NoId = NoId
  TempId = TempId
  MaxAttempts = 1
  MaxMounts = 1
INVARIANTS
  TypeOK
  WatchersRegistered
  ContextsWatched
  WatchersServed
  ConfirmedWatched
PROPERTIES
  FeedKept
  FirstConnectionServed
CHECK_DEADLOCK FALSE
