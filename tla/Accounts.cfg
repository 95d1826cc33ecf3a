SPECIFICATION Spec
CONSTANTS
  c1 = c1
  c2 = c2
  u1 = u1
  u2 = u2
  u3 = u3
  s1 = s1
  s2 = s2
  Clients = {c1, c2}
  Users = {u1, u2, u3}
  Seeded = {u1, u2}
  Sessions = {s1, s2}
  Roles = {ADMIN, VIEWER}
  Admin = ADMIN
  Absent = Absent
  Deleted = Deleted
  None = None
  MaxFailures = 1
  MaxPasswords = 2
  MaxRequests = 4
SYMMETRY MCSymmetry
INVARIANTS
  TypeOK
  UnusableHasNoSession
  AdminLostOnlyByOverlap
  RolesDoubledOnlyByOverlap
  OldPasswordOnlyByOverlap
