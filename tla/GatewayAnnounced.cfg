CONSTANTS
  u1 = u1
  u2 = u2
  n1 = n1
  n2 = n2
  Users = {u1, u2}
  Nodes = {n1}
  Sockets <- OneEach
  Owner <- OwnerOf
  At <- PlaceOf
  Chats = {c1}
  Faults = {}
  NoSocket = NoSocket
  NoJob = NoJob
SPECIFICATION Spec
PROPERTY CreatedChatIsAnnounced
CHECK_DEADLOCK FALSE
