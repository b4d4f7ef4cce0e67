CONSTANTS
  u1 = u1
  u2 = u2
  r1 = r1
  r2 = r2
  r3 = r3
  Users = {u1, u2}
  Requests = {r1, r2, r3}
  Faults = {"expire", "fail", "resend", "snapshot"}
  Absent = Absent
SYMMETRY Symmetry
SPECIFICATION Spec
INVARIANTS
  TypeOK
  SignedInIsServed
  LoggedOutIsRefused
