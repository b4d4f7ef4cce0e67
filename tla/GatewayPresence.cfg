CONSTANTS
  u1 = u1
  u2 = u2
  n1 = n1
  n2 = n2
  Users = {u1}
  Nodes = {n1, n2}
  Sockets <- ThreeOfOne
  Owner <- OwnerOf
  At <- PlaceOf
  Chats = {}
  Faults = {"reject", "expiry", "restart"}
  NoSocket = NoSocket
  NoJob = NoJob
SPECIFICATION Spec
INVARIANT PresenceIsAccurate
PROPERTIES
  EventuallyOnline
  PresenceOnlyImproves
CHECK_DEADLOCK FALSE
