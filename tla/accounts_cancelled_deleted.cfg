SPECIFICATION Spec
CONSTANTS
  Handlers = {h1, h2}
  Keys = {k1, k2, k3, k4}
  Passwords = {p1}
  Codes = {}
  None = None
  FirstKey = k1
  FirstPassword = p1
  MaxRequests = 1
  Ops = {"login", "reactivateAccount", "requestAccountDeletion", "processPendingDeletionRequests"}
  Faulty = FALSE
PROPERTY CancelledStaysCancelled
