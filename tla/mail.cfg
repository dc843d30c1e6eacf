SPECIFICATION MCSpec
CONSTANTS
  Users = {a, b}
  Mails = {m1, m2, m3}
  Handlers = {h1, h2}
  None = None
  Quota = 1
  Ops = {"send", "recall", "remove", "fetch", "delete", "bulk", "clear", "close", "inbound"}
  Faults = {"error", "crash"}
SYMMETRY Symmetric
INVARIANTS
  CopiesRecallable
  RecallComplete
  MailsWhole
  OverrunBounded
CHECK_DEADLOCK FALSE
