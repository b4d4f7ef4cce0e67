CONSTANTS
  Users = {u1, u2}
  Chats = {c1}
  Messages = {m1, m2}
  Requests = {r1, r2}
  Texts = {}
  NoText = NoText
  Statuses = {SENT, SEEN}
  SENT = SENT
  Absent = Absent
  Members <- Everyone
  Ops = {"create", "read", "clear", "drop"}
  FilesRelation = TRUE
SYMMETRY Symmetry
SPECIFICATION VSpec
PROPERTIES
  IsolatedSaveIsAtomic
  ImplementsVersions
CHECK_DEADLOCK FALSE
