CONSTANTS
  e1 = e1  e2 = e2  p1 = p1
  c1 = c1  c2 = c2  b1 = b1  b2 = b2  b3 = b3  l1 = l1  l2 = l2  f1 = f1  u1 = u1
  a1 = a1  a2 = a2  r1 = r1  r2 = r2  x1 = x1  x2 = x2
  v1 = v1  v2 = v2  n1 = n1  n2 = n2  t1 = t1  t2 = t2  q1 = q1  q2 = q2  h1 = h1  h2 = h2
  Editors = {e1, e2}
  Posts = {p1}
  Sizes = {1, 2}
  Mishaps = 1
  Users = {u1}
  Clerks = {c1, c2}
  Bins = {b1, b2, b3}
  Links = {l1, l2}
  Files = {f1}
  BinLimit = 1
  LinkLimit = 1
  MaxAttempts = 2
  Reports = {r1, r2}
  Admins = {a1, a2}
  BugReports = {x1, x2}
  Attachments = 2
  Troubles = 2
  MaxUsers = 3
  MaxStored = 2
  Jumps = {50, 150}
  Horizon = 1030
  MaxSnapshots = 2
  MaxReports = 2
  Meanwhile = 1
  Visitors = {v1, v2}
  Names = {n1, n2}
  MaxCodes = 2
  Tasks = {t1, t2}
  MaxUses = 1
  MaxPhrases = 2
  Reloads = 1
  AdminPasswords = {q1, q2}
  Requests = {h1, h2}
  MaxKeys = 4
  MaxLogins = 2
SPECIFICATION MCSpec
INVARIANTS PostsWhole AuditTrue ShelvesKept AttachmentsStored AnswersAgree RegistrationsKept AdminSessions
SYMMETRY Symmetry
CHECK_DEADLOCK FALSE
