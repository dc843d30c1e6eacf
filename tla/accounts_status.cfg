SPECIFICATION Spec
CONSTANTS
  Handlers = {h1, h2}
  Keys = {k1, k2, k3}
  Passwords = {p1}
  Codes = {}
  None = None
  FirstKey = k1
  FirstPassword = p1
  MaxRequests = 2
  Ops = {"login", "profile", "reactivateAccount", "requestAccountDeletion", "updateUserStatus", "processPendingDeletionRequests", "processExpiredRestrictions"}
  Faulty = TRUE
SYMMETRY Symmetric
INVARIANTS
  StatusJustified
PROPERTIES
  StandingHolds
