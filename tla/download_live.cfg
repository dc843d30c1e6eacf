SPECIFICATION LiveSpec
CONSTANTS
  Downloads = {d1, d2}
  Tries = 1
  Chunks = 1
  MAX_PENDING_SESSIONS = 1
  MAX_PENDING_FETCHES = 1
  MAX_ACTIVE_DOWNLOADS = 1
PROPERTIES
  SlotReturned
  RequestAnswered
  EndReachesOther
CHECK_DEADLOCK FALSE
