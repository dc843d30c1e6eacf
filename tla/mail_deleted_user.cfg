SPECIFICATION Spec
CONSTANTS
  Users = {a}
  Mails = {m1}
  Handlers = {h1, h2}
  None = None
  Quota = 1
  Ops = {"close", "inbound"}
  Faults = {}
SYMMETRY Symmetric
INVARIANTS
  DeletedHasNoMail
CHECK_DEADLOCK FALSE
