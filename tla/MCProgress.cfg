CONSTANTS
  MaxEvents = 2
  MaxEntries = 3
  MaxLen = 1
  Publishers = {p1, p2}
  BatchSize = 2
  MaxAttempts = 2
  MaxClaims = 2
  MaxCrashes = 1
  Messages = {"m1"}
  First = "m1"
  Requests = {"q1", "q2"}
  KeyAdmins = {"d1"}
  Creds = {1}
  MaxFaults = 2
SPECIFICATION Spec
INVARIANTS
  PublishedWasSent
  SentOncePerClaim
  A2aAccounted
PROPERTIES
  EventsArrive
  WorkSettles
  CallsEnd
  ImplementsStream
CHECK_DEADLOCK FALSE
