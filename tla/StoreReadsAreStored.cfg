CONSTANTS
  Users = {u1, u2}
  Chats = {c1}
  Messages = {m1}
  Requests = {r1, r2}
  Texts = {}
  NoText = NoText
  Statuses = {SENT, SEEN}
  SENT = SENT
  Absent = Absent
  Members <- Everyone
  Ops = {"create", "read"}
  FilesRelation = FALSE
SPECIFICATION FairSpec
PROPERTY ReadsAreStored
CHECK_DEADLOCK FALSE
