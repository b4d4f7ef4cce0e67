CONSTANTS
  u1 = u1
  u2 = u2
  m1 = m1
  r1 = r1
  r2 = r2
  Users = {u1, u2}
  Messages = {m1}
  Requests = {r1, r2}
  Ops = {"create", "read", "resend", "delete", "clear", "drop"}
  FilesRelation = TRUE
  Absent = Absent
SYMMETRY Symmetry
SPECIFICATION Spec
INVARIANTS
  TypeOK
  ListsAreRight
