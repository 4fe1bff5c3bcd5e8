SPECIFICATION Spec
CONSTANTS
  browser = browser
  s1 = s1
  s2 = s2
  widget = widget
  logs = logs
  Socket = {s1, s2}
  Scoped = {}
  Type = {widget}
  Streaming = {}
  Permitted <- BothPermitted
  Paced = TRUE
  MaxTime = 3
  None = None
  Browser = {browser}
  SocketsOf <- TwoSockets
  NoSocket = NoSocket
  NoId = NoId
  TempId = TempId
  MaxAttempts = 1
  MaxMounts = 1
PROPERTIES
  ReconnectionServed
CHECK_DEADLOCK FALSE
