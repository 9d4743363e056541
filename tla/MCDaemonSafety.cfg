CONSTANTS
  p = p
  q = q
  k = k
  Profiles = {p, q}
  Controls = {k}
  MaxLayer = 1
  Files <- MCFiles
  NoConfig = NoConfig
  NoContext = NoContext
  NoEvent = NoEvent
  NoRequest = NoRequest
  QueueCapacity = 2
  MaxExponent = 0
  Requests = {r1}
  MaxEvents = 3
  MaxSessions = 2
  MaxClientChanges = 1
SPECIFICATION Spec
INVARIANTS
  EventsAccountedFor
  PlansAccountedFor
  InOrder
PROPERTIES
  ReloadAnswersAreTrue
  ImplementsManager
