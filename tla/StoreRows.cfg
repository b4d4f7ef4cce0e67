CONSTANTS
  Users = {u1, u2}
  Chats = {c1}
  Messages = {m1}
  Requests = {r1, r2}
  Texts = {hello}
  NoText = NoText
  Statuses = {SENT, SEEN}
  SENT = SENT
  Absent = Absent
  Members <- Everyone
  Ops = {"create", "read", "status", "edit", "delete", "clear", "drop"}
  FilesRelation = TRUE
SYMMETRY Symmetry
SPECIFICATION Spec
INVARIANTS
  TypeOK
  RowsKeepOrigin
  NoMessageOutlivesItsChat
  ReceiptsAreGenuine
  StatusWasRequested
PROPERTIES
  IsolatedSaveIsAtomic
  OnlyOverlapUndoes
CHECK_DEADLOCK FALSE
