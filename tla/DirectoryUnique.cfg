CONSTANTS
  u1 = u1
  u2 = u2
  u3 = u3
  c1 = c1
  c2 = c2
  r1 = r1
  r2 = r2
  Users = {u1, u2, u3}
  Chats = {c1, c2}
  Requests = {r1, r2}
  Ops = {"chat", "dialog", "group", "remove"}
  Absent = Absent
  NoChat = NoChat
SYMMETRY Symmetry
SPECIFICATION Spec
INVARIANTS
  TypeOK
  IsExistDialogIsExact
PROPERTY
  DialogsStayUnique
