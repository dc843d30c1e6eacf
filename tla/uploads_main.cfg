CONSTANTS
  u1 = u1  u2 = u2  u3 = u3
  Uploads = {u1, u2, u3}
  Requests = {r1, r2}
  Free = Free
  NoUpload = NoUpload
  Size <- Sizes
  ChunkSize = 2
  MaxFileSize = 3
  Quota = 3
  Total <- SumOfSizes
  Ops = {"init", "chunk", "finalize", "cancel", "delete", "remove", "purge"}
  Faults = {"s3", "disconnect", "slow"}
  MaxCrashes = 0
SPECIFICATION Spec
ACTION_CONSTRAINT OneLoad
SYMMETRY HandlersAndFiles
INVARIANTS
  OneActiveUpload
  QuotaRespected
  StoresAgree
  WholeObjects
  NoStuckSlot
PROPERTIES
  ChunksKept
