SPECIFICATION Spec
CONSTANTS
  Users = {a, b}
  Mails = {m1, m2}
  Handlers = {h1, h2}
  None = None
  Quota = 1
  Ops = {"send", "recall"}
  Faults = {}
SYMMETRY Symmetric
INVARIANTS
  RecallReachesAll
CHECK_DEADLOCK FALSE
