CONSTANTS
  t1 = t1  t2 = t2  s1 = s1  s2 = s2  m1 = m1  m2 = m2  k1 = k1  k2 = k2
  a1 = a1  a2 = a2  NoAttempt = NoAttempt
  Browser = {t1, t2}
  Slots = {s1, s2}
  MaxPairs = 3
  MaxEnds = 1
  Outages = 1
  Mails = {m1, m2}
  Tasks = {k1}
  MaxChanges = 2
  MaxSwitches = 1
  Breaks = 1
  Attempts = {a1, a2}
  Chunks <- TwoThenOne
  MaxLosses = 2
  MaxSize = 5
  ChunkSize = 2
  Overhead = 1
  MaxPiece = 4
  Refusals = 2
SPECIFICATION MCSpec
INVARIANTS SessionKept ListTrue UploadsCancelled FileExact CardTrue
CONSTRAINT Worthwhile
SYMMETRY Symmetry
CHECK_DEADLOCK FALSE
