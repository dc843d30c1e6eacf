SPECIFICATION Spec
CONSTANTS
  Handlers = {h1, h2}
  Keys = {k1, k2, k3}
  Passwords = {p1, p2}
  Codes = {}
  None = None
  FirstKey = k1
  FirstPassword = p1
  MaxRequests = 0
  Ops = {"login", "refreshToken", "changePassword"}
  Faulty = FALSE
INVARIANT OldPasswordShutOut
