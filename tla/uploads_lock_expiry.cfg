SPECIFICATION Spec
CONSTANTS
  Uploads = {u1, u2}
  Requests = {r1, r2}
  Free = Free
  NoUpload = NoUpload
  Size <- OneChunk
  ChunkSize = 1
  MaxFileSize = 2
  Quota = 2
  Total <- SumOfSizes
  Ops = {"init"}
  Faults = {"slow"}
  MaxCrashes = 0
SYMMETRY Symmetric
INVARIANTS
  OneActiveUpload
