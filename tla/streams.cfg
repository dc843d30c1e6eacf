CONSTANTS
  q1 = q1  q2 = q2  g1 = g1  g2 = g2  s1 = s1  s2 = s2  s3 = s3
  route = route  address = address  user1 = user1  user2 = user2  peer = peer
  Requests = {q1, q2}
  Guesses = {g1, g2}
  Streams = {s1, s2, s3}
  Windows = {route, address}
  Slots = {user1, user2, peer}
  KeysOf <- MCKeysOf
  Limit <- MCLimit
  Loads <- MCLoads
  Crashes = 1
  Tabs = {"t1", "t2"}
  Instances = {"i1", "i2"}
  Writers = {"i1"}
  Notes = {"n1"}
  Breaks = 1
SPECIFICATION MCSpec
INVARIANT SlotsAccounted
PROPERTIES WindowsKept SlotsReturn BoardKept NoticeArrives
CHECK_DEADLOCK FALSE
