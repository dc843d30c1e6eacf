SPECIFICATION Spec
CONSTANTS
  Downloads = {d1, d2}
  Tries = 2
  Chunks = 2
  MAX_PENDING_SESSIONS = 1
  MAX_PENDING_FETCHES = 1
  MAX_ACTIVE_DOWNLOADS = 1
SYMMETRY Symmetric
INVARIANTS
  OneResponse
  NoTruncatedFile
CHECK_DEADLOCK FALSE
