CONSTANTS
  u1 = u1
  u2 = u2
  c1 = c1
  c2 = c2
  m1 = m1
  r1 = r1
  r2 = r2
  Users = {u1, u2}
  Chats = {c1, c2}
  Messages = {m1}
  Requests = {r1, r2}
  Ops = {"create", "read", "resend", "delete", "clear", "drop"}
  Faults = {"disconnect", "reject"}
  FilesRelation = TRUE
  Members <- Everyone
  Absent = Absent
  None = None
SYMMETRY Symmetry
VIEW View
SPECIFICATION Spec
INVARIANTS
  TypeOK
  ShownIsRight
  BadgesAgree
