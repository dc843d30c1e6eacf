--------------------------- MODULE MCUploadsLoads ---------------------------
(***************************************************************************)
(* Two loads, told apart by the upload that comes first.  With u1: every   *)
(* request about a file of two chunks, S3 refusing calls, clients that     *)
(* disconnect and an init lock that ends under its holder.  With u2 or u3: *)
(* the requests of both, uploads of one chunk, which together are too      *)
(* large for the quota, without a fault and without deletions.             *)
(***************************************************************************)
EXTENDS MCUploads

CONSTANTS u1, u2, u3

Sizes == [u \in Uploads |-> IF u = u1 THEN 3 ELSE 2]

\* No call fails, and the init lock outlives nobody who holds it.
NoFault ==
  /\ Sweeps \/ Expires \/ \E r \in Requests : Starts(r) \/ Steps(r)
  /\ (ExpireInitLock /\ req' = req) => ~HoldsInitLock(initLock)

NoDeletion == \A r \in Requests : req'[r].pc \notin DeletePcs \cup PurgePcs

OneLoad == known' \subseteq {u1} \/ (u1 \notin known' /\ NoFault /\ NoDeletion)

\* Rows and objects agree, although no transaction spans the database and S3:
\* a row always has its object, and, as long as S3 refuses nothing, an object
\* without a row is one whose finalizeUpload is still running.
StoresAgree == NoDanglingRow /\ (u1 \notin known => NoOrphanObject)

\* As long as no client disconnects from a chunk that is being handled, no
\* handler of a chunk overwrites the metadata with what it read earlier.
ChunksKept == [][u1 \notin known => KeepsChunks]_vars

\* Handlers are interchangeable, and so are the files of one chunk.
HandlersAndFiles == Permutations(Requests) \cup Permutations({u2, u3})
=============================================================================
