CONSTANTS
  p = p
  q = q
  k = k
  Profiles = {p, q}
  Controls = {k}
  MaxLayer = 1
  Files <- MCFiles
  NoConfig = NoConfig
  NoContext = NoContext
  NoEvent = NoEvent
  NoRequest = NoRequest
  QueueCapacity = 1
  MaxExponent = 1
  Requests = {r1}
  MaxEvents = 2
  MaxSessions = 2
  MaxClientChanges = 0
SPECIFICATION FairSpec
PROPERTIES
  ImplementsLifecycle
  StopReturns
  ReloadIsAnswered
