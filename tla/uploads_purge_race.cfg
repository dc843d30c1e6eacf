SPECIFICATION Spec
CONSTANTS
  Uploads = {u1}
  Requests = {r1, r2}
  Free = Free
  NoUpload = NoUpload
  Size <- OneChunk
  ChunkSize = 1
  MaxFileSize = 2
  Quota = 1
  Total <- SumOfSizes
  Ops = {"init", "chunk", "finalize", "purge"}
  Faults = {}
  MaxCrashes = 0
SYMMETRY Symmetric
PROPERTIES
  PurgeRemovesObjects
