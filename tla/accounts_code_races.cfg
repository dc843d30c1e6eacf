SPECIFICATION Spec
CONSTANTS
  Handlers = {h1, h2}
  Keys = {k1, k2, k3}
  Passwords = {p1}
  Codes = {c1, c2, c3}
  None = None
  FirstKey = k1
  FirstPassword = p1
  MaxRequests = 0
  Ops = {"login", "generateInviteCode", "register", "updateUserStatus"}
  Faulty = FALSE
INVARIANTS CodeUsedOnce InviteLimit RestrictedHasNoCodes
