SPECIFICATION MCSpec
CONSTANTS
  Handlers = {h1, h2}
  Keys = {k1, k2, k3}
  Passwords = {p1, p2, p3}
  Codes = {c1, c2, c3}
  None = None
  FirstKey = k1
  FirstPassword = p1
  LastingPassword = p3
  MaxRequests = 0
  Ops = {"login", "refreshToken", "logout", "changePassword", "recoverPassword", "forceLogoutUser", "clearUserData", "generateInviteCode", "register", "updateUserStatus"}
  Faulty = FALSE
ACTION_CONSTRAINT OneLoad
SYMMETRY SymmetricLoads
INVARIANTS
  LoginBindsPassword
  RefreshOnce
  CodesCounted
