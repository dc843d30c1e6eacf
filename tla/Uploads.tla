------------------------------ MODULE Uploads ------------------------------
(***************************************************************************)
(* The multipart upload lifecycle of apps/backend/src/files: a file is     *)
(* initialised, sent chunk by chunk, finalised or cancelled, and later     *)
(* deleted, by request handlers that interleave at every await over three  *)
(* stores that share no transaction:                                       *)
(*   Redis     upload:meta, upload:s3 (the index), upload:active and the   *)
(*             two locks upload:init-lock and upload:request-lock;         *)
(*   S3        multipart uploads and completed objects;                    *)
(*   MariaDB   the File rows and the row lock of the User.                 *)
(* A second process, the sweep, is cleanupStaleMultipartUploads.           *)
(*                                                                         *)
(* Every Redis key is prefixed by the user and every row filtered by it,   *)
(* so the module follows one user. uploadId, storageKey and s3UploadId are *)
(* created together, once, and are one value here: the upload.             *)
(* The masterkey check of initializeUpload and finalizeUpload only ever    *)
(* rejects a request before it has had an effect; a request that is not    *)
(* made stands for it. Times are kept as one bit: "touched during the      *)
(* last hour".                                                             *)
(***************************************************************************)
EXTENDS Integers, Sequences, FiniteSets

CONSTANTS
  Uploads,      \* upload ids the user's clients may be given
  Requests,     \* handlers that can run at the same time
  Free,         \* the value of a lock nobody holds
  NoUpload,     \* the upload of an idle handler
  Size,         \* Size[u]: plaintext bytes of the file
  ChunkSize,    \* PLAINTEXT_CHUNK_SIZE_BYTES
  MaxFileSize,  \* limits.maxFileSize
  Quota,        \* limits.quotaLimit
  Total,        \* Total[S]: the SUM(size) aggregate over the rows S
  Ops,          \* the kinds of request the environment makes
  Faults,       \* the kinds of failure that happen
  MaxCrashes    \* bound on process restarts

OpKinds == {"init", "chunk", "finalize", "cancel", "delete", "purge", "remove"}

\* "s3", "redis", "db": a call of that store fails and has no effect.
\* "reply": it takes effect but its answer is lost. "slow": a holder of the
\* init lock outlives the lock's 120 s. "disconnect": the client of a chunk
\* request goes away while its handler runs.
FaultKinds == {"s3", "redis", "db", "reply", "slow", "disconnect"}

ASSUME SizeAssumption ==
  /\ Size \in [Uploads -> Nat \ {0}]
  /\ ChunkSize \in Nat \ {0}
  /\ MaxFileSize \in Nat
  /\ Quota \in Nat

\* What is used of SQL's SUM: adding a row adds its size, and fewer rows do
\* not sum up to more.
ASSUME TotalAssumption ==
  /\ Total \in [SUBSET Uploads -> Nat]
  /\ Total[{}] = 0
  /\ \A S \in SUBSET Uploads : \A u \in Uploads \ S :
       Total[S \cup {u}] = Total[S] + Size[u]
  /\ \A S \in SUBSET Uploads : \A T \in SUBSET S : Total[T] <= Total[S]

ASSUME NullAssumption ==
  /\ Free \notin Requests
  /\ NoUpload \notin Uploads

ASSUME EnvironmentAssumption ==
  /\ Ops \subseteq OpKinds
  /\ Faults \subseteq FaultKinds
  /\ MaxCrashes \in Nat

VARIABLES
  meta,       \* upload:meta, per upload
  index,      \* uploads with an upload:s3 entry
  active,     \* the set upload:active
  initLock,   \* upload:init-lock
  chunkLock,  \* upload:request-lock, per upload
  multipart,  \* S3: the multipart upload, per upload
  object,     \* S3: the completed object as the parts it is made of, or <<>>
  rows,       \* uploads that have a File row
  userRow,    \* holder of the row lock SELECT ... FOR UPDATE takes
  known,      \* upload ids generated so far
  issued,     \* upload ids a client has been answered with
  req,        \* the handlers
  sweep,      \* the cron job
  crashes

redis == <<meta, index, active, initLock, chunkLock>>
s3 == <<multipart, object>>
db == <<rows, userRow>>
ids == <<known, issued>>
vars == <<redis, s3, db, ids, req, sweep, crashes>>

-----------------------------------------------------------------------------
(* Values *)

MAX_ACTIVE_UPLOADS_PER_USER == 1

TotalChunks(u) == (Size[u] + ChunkSize - 1) \div ChunkSize

\* parts holds the ETag of each accepted chunk in order, so nextExpectedChunk
\* is Len(parts). An ETag is named by the handler that sent the part.
Meta == [live : BOOLEAN, recent : BOOLEAN, parts : Seq(Requests)]
NoMeta == [live |-> FALSE, recent |-> FALSE, parts |-> <<>>]
MetaWith(parts) == [live |-> TRUE, recent |-> TRUE, parts |-> parts]

\* The stored parts of a multipart upload: pairs of part number and ETag.
Multipart == [state : {"none", "open", "aborted", "completed"},
              recent : BOOLEAN, parts : SUBSET (Nat \X Requests)]
Closed(state) == [state |-> state, recent |-> FALSE, parts |-> {}]

\* ListMultipartUploads shows what is open, and what parts a late UploadPart
\* left behind in an aborted upload.
Listed(u) == \/ multipart[u].state = "open"
             \/ multipart[u].state = "aborted" /\ multipart[u].parts # {}

\* Cleanup calls a handler still has to make on upload v, first one first.
\* "abort" lets an S3 error through, "tryAbort" and "object" swallow it.
Calls == {"abort", "tryAbort", "object", "meta", "index", "active"}

CancelCalls == <<"abort", "index", "meta", "active">>
FinalizeCalls == <<"meta", "index", "active">>

InitPcs == {"iLock", "iCreate", "iMeta", "iIndex", "iMembers", "iMetas",
            "iEvict", "iAdd", "iCatch", "iUnlock", "iFail"}
ChunkPcs == {"cRead", "cTouch", "cSend", "cLand", "cExists", "cStore",
             "cCatch", "cUnlock"}
FinalizePcs == {"fComplete", "fHead", "fLock", "fSum", "fCommit", "fClean",
                "fCatch"}
DeletePcs == {"dObject", "dRow"}
PurgePcs == {"pObjects", "pScan", "pAborts", "rObjects"}
Pcs == {"idle", "kClean"} \cup InitPcs \cup ChunkPcs \cup FinalizePcs
         \cup DeletePcs \cup PurgePcs

Handler == [pc : Pcs, u : Uploads \cup {NoUpload}, v : Uploads \cup {NoUpload},
            parts : Seq(Requests), todo : Seq(Calls), sum : Nat,
            set : SUBSET Uploads, keys : SUBSET Uploads]

Idle == [pc |-> "idle", u |-> NoUpload, v |-> NoUpload, parts |-> <<>>,
         todo |-> <<>>, sum |-> 0, set |-> {}, keys |-> {}]

\* A handler that starts work on upload u at pc.
At(pc, u) == [Idle EXCEPT !.pc = pc, !.u = u]

SweepIdle == [pc |-> "idle", todo |-> {}, u |-> NoUpload]

TypeOK ==
  /\ meta \in [Uploads -> Meta]
  /\ index \subseteq Uploads
  /\ active \subseteq Uploads
  /\ initLock \in Requests \cup {Free}
  /\ chunkLock \in [Uploads -> Requests \cup {Free}]
  /\ multipart \in [Uploads -> Multipart]
  /\ object \in [Uploads -> Seq(Requests)]
  /\ rows \subseteq Uploads
  /\ userRow \in Requests \cup {Free}
  /\ known \subseteq Uploads
  /\ issued \subseteq Uploads
  /\ req \in [Requests -> Handler]
  /\ sweep \in [pc : {"idle", "pick", "abort", "untrack"},
                todo : SUBSET Uploads, u : Uploads \cup {NoUpload}]
  /\ crashes \in Nat

Init ==
  /\ meta = [u \in Uploads |-> NoMeta]
  /\ index = {}
  /\ active = {}
  /\ initLock = Free
  /\ chunkLock = [u \in Uploads |-> Free]
  /\ multipart = [u \in Uploads |-> Closed("none")]
  /\ object = [u \in Uploads |-> <<>>]
  /\ rows = {}
  /\ userRow = Free
  /\ known = {}
  /\ issued = {}
  /\ req = [r \in Requests |-> Idle]
  /\ sweep = SweepIdle
  /\ crashes = 0

-----------------------------------------------------------------------------
(* Control flow of a handler *)

Goto(r, from, to) ==
  /\ req[r].pc = from
  /\ req' = [req EXCEPT ![r].pc = to]

Finish(r) == req' = [req EXCEPT ![r] = Idle]

\* q enters a cleanup script on its own upload.
Clean(q, pc, calls) == [At(pc, q.u) EXCEPT !.v = q.u, !.todo = calls]

\* What q does after the first cleanup call has returned.
Continue(q) ==
  IF Len(q.todo) > 1 THEN [q EXCEPT !.todo = Tail(@)]
  ELSE CASE q.pc = "iEvict" ->
              [q EXCEPT !.todo = <<>>, !.v = NoUpload,
                        !.pc = IF q.set = {} THEN "iAdd" ELSE "iEvict"]
         [] q.pc = "iCatch" -> At("iFail", q.u)
         [] q.pc = "cCatch" -> At("cUnlock", q.u)
         [] OTHER -> Idle

\* Mutants of Raise: the completed object is not removed; the multipart upload
\* is taken for completed before S3 has answered.
RaiseKeepsObject(q) ==
  CASE q.pc \in {"iCreate", "iCatch"} -> At("iFail", q.u)
    [] q.pc = "iMeta" -> Clean(q, "iCatch", <<"tryAbort", "index">>)
    [] q.pc \in {"iIndex", "iMembers", "iMetas", "iEvict", "iAdd"} ->
         Clean(q, "iCatch", <<"tryAbort", "meta", "index">>)
    [] q.pc \in ChunkPcs \ {"cUnlock"} -> At("cUnlock", q.u)
    [] q.pc \in FinalizePcs \ {"fCatch"} -> Clean(q, "fCatch", FinalizeCalls)
    [] OTHER -> Idle
RaiseDeletesObject(q) ==
  IF q.pc \in FinalizePcs \ {"fCatch"}
  THEN Clean(q, "fCatch", <<"object">> \o FinalizeCalls) ELSE RaiseKeepsObject(q)

\* Where an exception takes q: the catch and finally blocks of the four
\* upload handlers. The others have none.
Raise(q) ==
  CASE q.pc \in {"iCreate", "iCatch"} -> At("iFail", q.u)
    [] q.pc = "iMeta" -> Clean(q, "iCatch", <<"tryAbort", "index">>)
    [] q.pc \in {"iIndex", "iMembers", "iMetas", "iEvict", "iAdd"} ->
         Clean(q, "iCatch", <<"tryAbort", "meta", "index">>)
    [] q.pc \in ChunkPcs \ {"cUnlock"} -> At("cUnlock", q.u)
    [] q.pc = "fComplete" -> Clean(q, "fCatch", <<"tryAbort">> \o FinalizeCalls)
    [] q.pc \in FinalizePcs \ {"fComplete", "fCatch"} ->
         Clean(q, "fCatch", <<"object">> \o FinalizeCalls)
    [] OTHER -> Idle

Throw(r) == req' = [req EXCEPT ![r] = Raise(@)]

-----------------------------------------------------------------------------
(* initializeUpload *)

\* Limits are checked before the lock is taken and not looked at again.
InitCheck(r, u) ==
  /\ "init" \in Ops
  /\ req[r] = Idle
  /\ u \notin known
  /\ Size[u] <= MaxFileSize
  /\ Total[rows] + Size[u] <= Quota
  /\ known' = known \cup {u}
  /\ req' = [req EXCEPT ![r] = At("iLock", u)]
  /\ UNCHANGED <<redis, s3, db, issued, sweep, crashes>>

\* Mutant of InitLock: SET without NX.
InitLockAlways(r) ==
  /\ initLock' = r
  /\ Goto(r, "iLock", "iCreate")
  /\ UNCHANGED <<meta, index, active, chunkLock, s3, db, ids, sweep, crashes>>

InitLock(r) ==
  /\ initLock = Free
  /\ initLock' = r
  /\ Goto(r, "iLock", "iCreate")
  /\ UNCHANGED <<meta, index, active, chunkLock, s3, db, ids, sweep, crashes>>

\* ConflictException: nothing refers to the id, which counts as not used.
InitConflict(r) ==
  /\ req[r].pc = "iLock"
  /\ initLock # Free
  /\ known' = known \ {req[r].u}
  /\ Finish(r)
  /\ UNCHANGED <<redis, s3, db, issued, sweep, crashes>>

CreateMultipart(r) ==
  /\ Goto(r, "iCreate", "iMeta")
  /\ multipart' = [multipart EXCEPT ![req[r].u] =
       [state |-> "open", recent |-> TRUE, parts |-> {}]]
  /\ UNCHANGED <<redis, object, db, ids, sweep, crashes>>

SetMeta(r) ==
  /\ Goto(r, "iMeta", "iIndex")
  /\ meta' = [meta EXCEPT ![req[r].u] = MetaWith(<<>>)]
  /\ UNCHANGED <<index, active, initLock, chunkLock, s3, db, ids, sweep, crashes>>

SetIndex(r) ==
  /\ Goto(r, "iIndex", "iMembers")
  /\ index' = index \cup {req[r].u}
  /\ UNCHANGED <<meta, active, initLock, chunkLock, s3, db, ids, sweep, crashes>>

\* makeRoomForActiveUpload, first await: SMEMBERS.
ReadActive(r) ==
  /\ req[r].pc = "iMembers"
  /\ req' = [req EXCEPT
       ![r].pc = IF Cardinality(active) < MAX_ACTIVE_UPLOADS_PER_USER
                 THEN "iAdd" ELSE "iMetas",
       ![r].set = IF Cardinality(active) < MAX_ACTIVE_UPLOADS_PER_USER
                  THEN {} ELSE active]
  /\ UNCHANGED <<redis, s3, db, ids, sweep, crashes>>

\* MGET of their metadata, members without any removed at once. As many
\* others are evicted as exceed the limit; the code takes the oldest.
ReadMetas(r) ==
  LET candidates == {u \in req[r].set : meta[u].live}
      excess == Cardinality(candidates) - MAX_ACTIVE_UPLOADS_PER_USER + 1
  IN
  /\ req[r].pc = "iMetas"
  /\ active' = active \ (req[r].set \ candidates)
  /\ \E victims \in SUBSET candidates :
       /\ Cardinality(victims) = excess
       /\ req' = [req EXCEPT ![r].set = victims,
            ![r].pc = IF victims = {} THEN "iAdd" ELSE "iEvict"]
  /\ UNCHANGED <<meta, index, initLock, chunkLock, s3, db, ids, sweep, crashes>>

\* abortActiveUpload of the next victim.
Evict(r) ==
  /\ req[r].pc = "iEvict"
  /\ req[r].todo = <<>>
  /\ \E v \in req[r].set :
       req' = [req EXCEPT ![r].v = v, ![r].todo = CancelCalls,
                          ![r].set = @ \ {v}]
  /\ UNCHANGED <<redis, s3, db, ids, sweep, crashes>>

AddActive(r) ==
  /\ Goto(r, "iAdd", "iUnlock")
  /\ active' = active \cup {req[r].u}
  /\ UNCHANGED <<meta, index, initLock, chunkLock, s3, db, ids, sweep, crashes>>

\* releaseUploadInitLock deletes the lock only while it is still its own.
\* An error of the release is logged. Only a success tells the client the id.
InitUnlock(r) ==
  /\ req[r].pc \in {"iUnlock", "iFail"}
  /\ \/ initLock' = IF initLock = r THEN Free ELSE initLock
     \/ "redis" \in Faults /\ UNCHANGED initLock
  /\ issued' = IF req[r].pc = "iUnlock" THEN issued \cup {req[r].u} ELSE issued
  /\ Finish(r)
  /\ UNCHANGED <<meta, index, active, chunkLock, s3, db, known, sweep, crashes>>

-----------------------------------------------------------------------------
(* UploadChunkConcurrencyGuard and handleChunk *)

\* Mutant of ChunkLock: no guard on the route.
ChunkLockAlways(r, u) ==
  /\ "chunk" \in Ops
  /\ req[r] = Idle
  /\ u \in issued
  /\ chunkLock' = [chunkLock EXCEPT ![u] = r]
  /\ req' = [req EXCEPT ![r] = At("cRead", u)]
  /\ UNCHANGED <<meta, index, active, initLock, s3, db, ids, sweep, crashes>>

\* SET NX of the request lock; a request that finds it taken is rejected.
ChunkLock(r, u) ==
  /\ "chunk" \in Ops
  /\ req[r] = Idle
  /\ u \in issued
  /\ chunkLock[u] = Free
  /\ chunkLock' = [chunkLock EXCEPT ![u] = r]
  /\ req' = [req EXCEPT ![r] = At("cRead", u)]
  /\ UNCHANGED <<meta, index, active, initLock, s3, db, ids, sweep, crashes>>

\* The metadata the rest of the handler works on. The chunk sent is the one
\* expected, or the request is rejected here.
ChunkRead(r) ==
  LET u == req[r].u IN
  /\ req[r].pc = "cRead"
  /\ IF meta[u].live /\ Len(meta[u].parts) < TotalChunks(u)
     THEN req' = [req EXCEPT ![r].pc = "cTouch", ![r].parts = meta[u].parts]
     ELSE Throw(r)
  /\ UNCHANGED <<redis, s3, db, ids, sweep, crashes>>

\* The first refreshUploadState: SET, whether or not the key still exists.
ChunkTouch(r) ==
  /\ Goto(r, "cTouch", "cSend")
  /\ meta' = [meta EXCEPT ![req[r].u] = MetaWith(req[r].parts)]
  /\ UNCHANGED <<index, active, initLock, chunkLock, s3, db, ids, sweep, crashes>>

\* UploadPart leaves for S3, which refuses it at once if the upload is gone.
ChunkSend(r) ==
  /\ req[r].pc = "cSend"
  /\ IF multipart[req[r].u].state = "open"
     THEN Goto(r, "cSend", "cLand") ELSE Throw(r)
  /\ UNCHANGED <<redis, s3, db, ids, sweep, crashes>>

\* UploadPart ends. If the upload was aborted meanwhile, S3 may still have
\* kept the part.
ChunkLand(r) ==
  LET q == req[r]
      n == Len(q.parts) + 1
      m == multipart[q.u]
  IN
  /\ q.pc = "cLand"
  /\ \/ /\ m.state \in {"open", "aborted"}
        /\ multipart' = [multipart EXCEPT ![q.u] =
             [m EXCEPT !.recent = TRUE,
                       !.parts = {p \in @ : p[1] # n} \cup {<<n, r>>}]]
        /\ Goto(r, "cLand", "cExists")
     \/ /\ m.state # "open"
        /\ Throw(r)
        /\ UNCHANGED multipart
  /\ UNCHANGED <<redis, object, db, ids, sweep, crashes>>

ChunkExists(r) ==
  /\ req[r].pc = "cExists"
  /\ req' = [req EXCEPT ![r] =
       IF meta[@.u].live THEN [@ EXCEPT !.pc = "cStore"]
                         ELSE Clean(@, "cCatch", <<"tryAbort">>)]
  /\ UNCHANGED <<redis, s3, db, ids, sweep, crashes>>

\* The second refreshUploadState, with the part added.
ChunkStore(r) ==
  /\ req[r].pc = "cStore"
  /\ meta' = [meta EXCEPT ![req[r].u] = MetaWith(Append(req[r].parts, r))]
  /\ req' = [req EXCEPT ![r] = At("cUnlock", @.u)]
  /\ UNCHANGED <<index, active, initLock, chunkLock, s3, db, ids, sweep, crashes>>

\* response "finish": the lock is deleted while it is still this request's.
ChunkUnlock(r) ==
  /\ req[r].pc = "cUnlock"
  /\ chunkLock' = [chunkLock EXCEPT ![req[r].u] = IF @ = r THEN Free ELSE @]
  /\ Finish(r)
  /\ UNCHANGED <<meta, index, active, initLock, s3, db, ids, sweep, crashes>>

\* response "close" comes first: the lock goes, the handler does not.
Disconnect(r) ==
  /\ "disconnect" \in Faults
  /\ req[r].pc \in ChunkPcs
  /\ chunkLock[req[r].u] = r
  /\ chunkLock' = [chunkLock EXCEPT ![req[r].u] = Free]
  /\ UNCHANGED <<meta, index, active, initLock, s3, db, ids, req, sweep, crashes>>

-----------------------------------------------------------------------------
(* finalizeUpload *)

\* Mutant of FinalizeStart: the accepted parts are not counted.
FinalizeStartEarly(r, u) ==
  /\ "finalize" \in Ops
  /\ req[r] = Idle
  /\ u \in issued
  /\ meta[u].live
  /\ req' = [req EXCEPT ![r] = [At("fComplete", u) EXCEPT !.parts = meta[u].parts]]
  /\ UNCHANGED <<redis, s3, db, ids, sweep, crashes>>

FinalizeStart(r, u) ==
  /\ "finalize" \in Ops
  /\ req[r] = Idle
  /\ u \in issued
  /\ meta[u].live
  /\ Len(meta[u].parts) = TotalChunks(u)
  /\ req' = [req EXCEPT ![r] = [At("fComplete", u) EXCEPT !.parts = meta[u].parts]]
  /\ UNCHANGED <<redis, s3, db, ids, sweep, crashes>>

\* S3 assembles the listed parts, if the upload is open and has each of them
\* with the ETag listed.
Completes(q) ==
  /\ multipart[q.u].state = "open"
  /\ {<<i, q.parts[i]>> : i \in DOMAIN q.parts} \subseteq multipart[q.u].parts

Assemble(q) ==
  /\ multipart' = [multipart EXCEPT ![q.u] = Closed("completed")]
  /\ object' = [object EXCEPT ![q.u] = q.parts]

Complete(r) ==
  /\ req[r].pc = "fComplete"
  /\ IF Completes(req[r])
     THEN Goto(r, "fComplete", "fHead") /\ Assemble(req[r])
     ELSE Throw(r) /\ UNCHANGED s3
  /\ UNCHANGED <<redis, db, ids, sweep, crashes>>

\* HeadObject: the length is right when the object has every chunk.
HeadObject(r) ==
  /\ req[r].pc = "fHead"
  /\ IF Len(object[req[r].u]) = TotalChunks(req[r].u)
     THEN Goto(r, "fHead", "fLock") ELSE Throw(r)
  /\ UNCHANGED <<redis, s3, db, ids, sweep, crashes>>

\* Mutant of LockUser: a plain SELECT.
LockUserWithout(r) ==
  /\ userRow' = r
  /\ Goto(r, "fLock", "fSum")
  /\ UNCHANGED <<redis, s3, rows, ids, sweep, crashes>>

\* SELECT ... FOR UPDATE on the User row waits for the row lock.
LockUser(r) ==
  /\ userRow = Free
  /\ userRow' = r
  /\ Goto(r, "fLock", "fSum")
  /\ UNCHANGED <<redis, s3, rows, ids, sweep, crashes>>

\* The aggregate the quota is judged by; over quota rolls back.
SumRows(r) ==
  LET q == req[r] IN
  /\ q.pc = "fSum"
  /\ IF Size[q.u] <= MaxFileSize /\ Total[rows] + Size[q.u] <= Quota
     THEN /\ req' = [req EXCEPT ![r].pc = "fCommit", ![r].sum = Total[rows]]
          /\ UNCHANGED userRow
     ELSE Throw(r) /\ userRow' = Free
  /\ UNCHANGED <<redis, s3, rows, ids, sweep, crashes>>

CommitRow(r) ==
  /\ req[r].pc = "fCommit"
  /\ rows' = rows \cup {req[r].u}
  /\ userRow' = Free
  /\ req' = [req EXCEPT ![r] = Clean(@, "fClean", FinalizeCalls)]
  /\ UNCHANGED <<redis, s3, ids, sweep, crashes>>

-----------------------------------------------------------------------------
(* cancelUpload *)

CancelStart(r, u) ==
  /\ "cancel" \in Ops
  /\ req[r] = Idle
  /\ u \in issued
  /\ req' = [req EXCEPT ![r] = Clean(At("idle", u), "kClean",
               IF meta[u].live THEN CancelCalls ELSE <<"active">>)]
  /\ UNCHANGED <<redis, s3, db, ids, sweep, crashes>>

-----------------------------------------------------------------------------
(* Cleanup calls, one await each *)

Calling(r, c) == req[r].todo # <<>> /\ Head(req[r].todo) = c
Returns(r) == req' = [req EXCEPT ![r] = Continue(@)]

\* AbortMultipartUpload of an upload S3 no longer has is an error.
CallAbort(r) ==
  LET v == req[r].v IN
  /\ Calling(r, "abort") \/ Calling(r, "tryAbort")
  /\ IF Listed(v)
     THEN /\ multipart' = [multipart EXCEPT ![v] = Closed("aborted")]
          /\ Returns(r)
     ELSE /\ IF Calling(r, "abort") THEN Throw(r) ELSE Returns(r)
          /\ UNCHANGED multipart
  /\ UNCHANGED <<redis, object, db, ids, sweep, crashes>>

CallDeleteObject(r) ==
  /\ Calling(r, "object")
  /\ object' = [object EXCEPT ![req[r].v] = <<>>]
  /\ Returns(r)
  /\ UNCHANGED <<redis, multipart, db, ids, sweep, crashes>>

CallDelMeta(r) ==
  /\ Calling(r, "meta")
  /\ meta' = [meta EXCEPT ![req[r].v] = NoMeta]
  /\ Returns(r)
  /\ UNCHANGED <<index, active, initLock, chunkLock, s3, db, ids, sweep, crashes>>

CallDelIndex(r) ==
  /\ Calling(r, "index")
  /\ index' = index \ {req[r].v}
  /\ Returns(r)
  /\ UNCHANGED <<meta, active, initLock, chunkLock, s3, db, ids, sweep, crashes>>

\* releaseActiveUpload.
CallRelease(r) ==
  /\ Calling(r, "active")
  /\ active' = active \ {req[r].v}
  /\ Returns(r)
  /\ UNCHANGED <<meta, index, initLock, chunkLock, s3, db, ids, sweep, crashes>>

-----------------------------------------------------------------------------
(* deleteFileInternal: a user's delete, the hourly cleanup of expired files *)
(* and a download that finds its file expired.                              *)

DeleteStart(r, u) ==
  /\ "delete" \in Ops
  /\ req[r] = Idle
  /\ u \in rows
  /\ req' = [req EXCEPT ![r] = At("dObject", u)]
  /\ UNCHANGED <<redis, s3, db, ids, sweep, crashes>>

\* An S3 error is logged and the row goes all the same.
DeleteObject(r) ==
  /\ Goto(r, "dObject", "dRow")
  /\ \/ object' = [object EXCEPT ![req[r].u] = <<>>]
     \/ "s3" \in Faults /\ UNCHANGED object
  /\ UNCHANGED <<redis, multipart, db, ids, sweep, crashes>>

\* Deleting a row that is gone already throws, with no effect either.
DeleteRow(r) ==
  /\ req[r].pc = "dRow"
  /\ rows' = rows \ {req[r].u}
  /\ Finish(r)
  /\ UNCHANGED <<redis, s3, userRow, ids, sweep, crashes>>

-----------------------------------------------------------------------------
(* The admin's deletions. PurgeStart is clearUserData and                  *)
(* deleteUserDataAndMarkDeleted; RemoveStart is deleteUserFiles.           *)

PurgeStart(r) ==
  /\ "purge" \in Ops
  /\ req[r] = Idle
  /\ req' = [req EXCEPT ![r] = [Idle EXCEPT !.pc = "pObjects", !.set = rows]]
  /\ UNCHANGED <<redis, s3, db, ids, sweep, crashes>>

RemoveStart(r) ==
  /\ "remove" \in Ops
  /\ req[r] = Idle
  /\ \E files \in SUBSET rows \ {{}} :
       req' = [req EXCEPT ![r] = [Idle EXCEPT !.pc = "rObjects", !.set = files,
                                              !.keys = files]]
  /\ UNCHANGED <<redis, s3, db, ids, sweep, crashes>>

\* deleteS3Objects: all at once, errors logged.
DeleteObjects(r) ==
  /\ req[r].pc \in {"pObjects", "rObjects"}
  /\ \E u \in req[r].set :
       /\ req' = [req EXCEPT ![r].set = @ \ {u}]
       /\ \/ object' = [object EXCEPT ![u] = <<>>]
          \/ "s3" \in Faults /\ UNCHANGED object
  /\ UNCHANGED <<redis, multipart, db, ids, sweep, crashes>>

RemoveRows(r) ==
  /\ req[r].pc = "rObjects"
  /\ req[r].set = {}
  /\ rows' = rows \ req[r].keys
  /\ Finish(r)
  /\ UNCHANGED <<redis, s3, userRow, ids, sweep, crashes>>

\* deleteMany takes every row of the user, whatever the snapshot held.
PurgeRows(r) ==
  /\ req[r].pc = "pObjects"
  /\ req[r].set = {}
  /\ rows' = {}
  /\ req' = [req EXCEPT ![r].pc = "pScan"]
  /\ UNCHANGED <<redis, s3, userRow, ids, sweep, crashes>>

\* clearUserRedisData: SMEMBERS, SCAN and MGET.
PurgeScan(r) ==
  LET live == {u \in Uploads : meta[u].live} IN
  /\ req[r].pc = "pScan"
  /\ req' = [req EXCEPT ![r].pc = "pAborts", ![r].set = live,
                        ![r].keys = active \cup live]
  /\ UNCHANGED <<redis, s3, db, ids, sweep, crashes>>

\* abortRedisBackedUploads: errors, NoSuchUpload among them, are logged.
PurgeAborts(r) ==
  /\ req[r].pc = "pAborts"
  /\ \E u \in req[r].set :
       /\ req' = [req EXCEPT ![r].set = @ \ {u}]
       /\ \/ /\ Listed(u)
             /\ multipart' = [multipart EXCEPT ![u] = Closed("aborted")]
          \/ /\ ~Listed(u) \/ "s3" \in Faults
             /\ UNCHANGED multipart
  /\ UNCHANGED <<redis, object, db, ids, sweep, crashes>>

\* One DEL of all the keys. The index entries are not among them.
PurgeKeys(r) ==
  /\ req[r].pc = "pAborts"
  /\ req[r].set = {}
  /\ active' = {}
  /\ meta' = [u \in Uploads |-> IF u \in req[r].keys THEN NoMeta ELSE meta[u]]
  /\ Finish(r)
  /\ UNCHANGED <<index, initLock, chunkLock, s3, db, ids, sweep, crashes>>

-----------------------------------------------------------------------------
(* cleanupStaleMultipartUploads: every ten minutes and at every start. An   *)
(* error concerning one upload is logged and the sweep goes on.             *)

SweepStart ==
  /\ sweep.pc = "idle"
  /\ sweep' = [SweepIdle EXCEPT !.pc = "pick", !.todo = {u \in Uploads : Listed(u)}]
  /\ UNCHANGED <<redis, s3, db, ids, req, crashes>>

SweepEnd ==
  /\ sweep.pc = "pick"
  /\ sweep.todo = {}
  /\ sweep' = SweepIdle
  /\ UNCHANGED <<redis, s3, db, ids, req, crashes>>

SweepDrop(u) == [SweepIdle EXCEPT !.pc = "pick", !.todo = sweep.todo \ {u}]

\* Mutant of Recent: an upload Redis knows nothing of is left alone.
RecentUnlessTracked(u) == u \in index /\ meta[u].live => meta[u].recent

\* getMultipartLastActivity: updatedAt while Redis knows the upload, else the
\* dates S3 keeps.
Recent(u) == IF u \in index /\ meta[u].live THEN meta[u].recent
                                            ELSE multipart[u].recent

SweepInspect(u) ==
  /\ sweep.pc = "pick"
  /\ u \in sweep.todo
  /\ sweep' = IF Recent(u) THEN SweepDrop(u)
                           ELSE [sweep EXCEPT !.pc = "abort", !.u = u]
  /\ UNCHANGED <<redis, s3, db, ids, req, crashes>>

SweepAbort ==
  LET u == sweep.u IN
  /\ sweep.pc = "abort"
  /\ \/ /\ Listed(u)
        /\ multipart' = [multipart EXCEPT ![u] = Closed("aborted")]
        /\ sweep' = [sweep EXCEPT !.pc = "untrack"]
     \/ /\ ~Listed(u) \/ "s3" \in Faults
        /\ sweep' = SweepDrop(u)
        /\ UNCHANGED multipart
  /\ UNCHANGED <<redis, object, db, ids, req, crashes>>

\* Mutant of SweepUntrack: only the index entry is removed.
SweepUntrackIndex ==
  /\ sweep.pc = "untrack"
  /\ sweep' = SweepDrop(sweep.u)
  /\ index' = index \ {sweep.u}
  /\ UNCHANGED <<meta, active, initLock, chunkLock, s3, db, ids, req, crashes>>

\* removeTrackedUploadState finds the keys through the index entry.
SweepUntrack ==
  LET u == sweep.u IN
  /\ sweep.pc = "untrack"
  /\ sweep' = SweepDrop(u)
  /\ IF u \in index
     THEN /\ meta' = [meta EXCEPT ![u] = NoMeta]
          /\ active' = active \ {u}
          /\ index' = index \ {u}
     ELSE UNCHANGED <<meta, active, index>>
  /\ UNCHANGED <<initLock, chunkLock, s3, db, ids, req, crashes>>

-----------------------------------------------------------------------------
(* Failures *)

\* The store the next step of q calls, where a failure can make a difference.
Store(q) ==
  CASE q.todo # <<>> ->
         IF Head(q.todo) \in {"meta", "index", "active"} THEN "redis" ELSE "s3"
    [] q.todo = <<>> /\ q.pc \in {"iCreate", "cLand", "fComplete", "fHead"} -> "s3"
    [] q.todo = <<>> /\ q.pc \in {"iMeta", "iIndex", "iMembers", "iMetas", "iAdd",
                    "cRead", "cTouch", "cExists", "cStore", "cUnlock"} -> "redis"
    [] q.todo = <<>> /\ q.pc \in {"fLock", "fSum", "fCommit", "dRow"} -> "db"
    [] OTHER -> "none"

\* A call that fails throws, unless its error is swallowed where it is made.
\* An open transaction is rolled back.
CallFails(r) ==
  /\ Store(req[r]) \in Faults
  /\ IF Calling(r, "tryAbort") \/ Calling(r, "object") THEN Returns(r) ELSE Throw(r)
  /\ userRow' = IF userRow = r THEN Free ELSE userRow
  /\ UNCHANGED <<redis, s3, rows, ids, sweep, crashes>>

\* The multipart upload is created, the upload added to the active set (and
\* SADD or the EXPIRE after it fails), the object assembled or the transaction
\* committed, and the handler sees an error.
ReplyLost(r) ==
  /\ "reply" \in Faults
  /\ \/ /\ req[r].pc = "iCreate"
        /\ multipart' = [multipart EXCEPT ![req[r].u] =
             [state |-> "open", recent |-> TRUE, parts |-> {}]]
        /\ UNCHANGED <<active, object, db>>
     \/ /\ req[r].pc = "iAdd"
        /\ active' = active \cup {req[r].u}
        /\ UNCHANGED <<s3, db>>
     \/ /\ req[r].pc = "fComplete"
        /\ Completes(req[r])
        /\ Assemble(req[r])
        /\ UNCHANGED <<active, db>>
     \/ /\ req[r].pc = "fCommit"
        /\ rows' = rows \cup {req[r].u}
        /\ userRow' = Free
        /\ UNCHANGED <<active, s3>>
  /\ Throw(r)
  /\ UNCHANGED <<meta, index, initLock, chunkLock, ids, sweep, crashes>>

\* The process dies: handlers and transactions go, the stores stay.
Crash ==
  /\ crashes < MaxCrashes
  /\ crashes' = crashes + 1
  /\ req' = [r \in Requests |-> Idle]
  /\ sweep' = SweepIdle
  /\ userRow' = Free
  /\ UNCHANGED <<redis, s3, rows, ids>>

-----------------------------------------------------------------------------
(* Time *)

\* No handler that may still touch u is running, and the sweep is elsewhere:
\* both take less than the hour and the day that make a difference below.
Quiet(u) ==
  /\ sweep.u # u
  /\ \A r \in Requests : req[r].u = u => req[r].pc \in {"cRead", "cUnlock", "kClean"}

\* An hour goes by without activity on u.
Age(u) ==
  /\ meta[u].recent \/ multipart[u].recent
  /\ Quiet(u)
  /\ meta' = [meta EXCEPT ![u].recent = FALSE]
  /\ multipart' = [multipart EXCEPT ![u].recent = FALSE]
  /\ UNCHANGED <<index, active, initLock, chunkLock, object, db, ids, req, sweep,
                 crashes>>

\* Mutant of ExpireMeta: SET without EX.
ExpireMetaNever(u) == FALSE /\ UNCHANGED vars

\* 24 hours without a refresh end the metadata, the index entry and the set.
\* The index entry is written after the metadata and extended along with it,
\* so it is the last to go.
ExpireMeta(u) ==
  /\ meta[u].live /\ ~meta[u].recent /\ Quiet(u)
  /\ meta' = [meta EXCEPT ![u] = NoMeta]
  /\ UNCHANGED <<index, active, initLock, chunkLock, s3, db, ids, req, sweep, crashes>>

ExpireIndex(u) ==
  /\ u \in index /\ ~meta[u].live /\ ~multipart[u].recent /\ Quiet(u)
  /\ index' = index \ {u}
  /\ UNCHANGED <<meta, active, initLock, chunkLock, s3, db, ids, req, sweep, crashes>>

ExpireActive ==
  /\ active # {} /\ \A u \in active : ~meta[u].recent /\ Quiet(u)
  /\ active' = {}
  /\ UNCHANGED <<meta, index, initLock, chunkLock, s3, db, ids, req, sweep, crashes>>

HoldsInitLock(r) == req[r].pc \in InitPcs \ {"iLock"}

ExpireInitLock ==
  /\ initLock # Free
  /\ ~HoldsInitLock(initLock) \/ "slow" \in Faults
  /\ initLock' = Free
  /\ UNCHANGED <<meta, index, active, chunkLock, s3, db, ids, req, sweep, crashes>>

\* One hour, longer than a handler runs.
ExpireChunkLock(u) ==
  /\ chunkLock[u] # Free
  /\ ~(req[chunkLock[u]].pc \in ChunkPcs /\ req[chunkLock[u]].u = u)
  /\ chunkLock' = [chunkLock EXCEPT ![u] = Free]
  /\ UNCHANGED <<meta, index, active, initLock, s3, db, ids, req, sweep, crashes>>

-----------------------------------------------------------------------------
Starts(r) ==
  \/ \E u \in Uploads : \/ InitCheck(r, u) \/ ChunkLock(r, u)
                        \/ FinalizeStart(r, u) \/ CancelStart(r, u)
                        \/ DeleteStart(r, u)
  \/ PurgeStart(r) \/ RemoveStart(r)

Steps(r) ==
  \/ InitLock(r) \/ InitConflict(r) \/ CreateMultipart(r) \/ SetMeta(r)
  \/ SetIndex(r) \/ ReadActive(r) \/ ReadMetas(r) \/ Evict(r) \/ AddActive(r)
  \/ InitUnlock(r)
  \/ ChunkRead(r) \/ ChunkTouch(r) \/ ChunkSend(r) \/ ChunkLand(r)
  \/ ChunkExists(r) \/ ChunkStore(r) \/ ChunkUnlock(r)
  \/ Complete(r) \/ HeadObject(r) \/ LockUser(r) \/ SumRows(r) \/ CommitRow(r)
  \/ CallAbort(r) \/ CallDeleteObject(r) \/ CallDelMeta(r) \/ CallDelIndex(r)
  \/ CallRelease(r)
  \/ DeleteObject(r) \/ DeleteRow(r)
  \/ DeleteObjects(r) \/ RemoveRows(r) \/ PurgeRows(r) \/ PurgeScan(r)
  \/ PurgeAborts(r) \/ PurgeKeys(r)

Sweeps == SweepStart \/ SweepEnd \/ SweepAbort \/ SweepUntrack
            \/ \E u \in Uploads : SweepInspect(u)

Fails == Crash \/ \E r \in Requests : CallFails(r) \/ ReplyLost(r) \/ Disconnect(r)

Expires == \/ ExpireActive \/ ExpireInitLock
           \/ \E u \in Uploads : Age(u) \/ ExpireMeta(u) \/ ExpireIndex(u)
                                   \/ ExpireChunkLock(u)

Next == \/ \E r \in Requests : Starts(r) \/ Steps(r)
        \/ Sweeps \/ Fails \/ Expires

Spec == Init /\ [][Next]_vars

\* A handler that has started runs on, the scheduler runs the sweep, and time
\* passes, which repeated requests cannot prevent. Nothing makes clients send
\* requests.
Fairness ==
  /\ \A r \in Requests : WF_vars(Steps(r))
  /\ WF_vars(Sweeps)
  /\ \A u \in Uploads : SF_vars(Age(u)) /\ WF_vars(ExpireMeta(u))
  /\ WF_vars(ExpireInitLock)

FairSpec == Spec /\ Fairness

-----------------------------------------------------------------------------
(* Properties *)

\* The files a user has never exceed the quota, however many finalizeUpload
\* transactions overlap: each sums the rows under the row lock of the user.
QuotaRespected == Total[rows] <= Quota

\* Every completed object consists of all chunks of its file, though parts,
\* metadata and the chunk counter live in two stores and several handlers may
\* be sending the same chunk.
WholeObjects == \A u \in Uploads : object[u] # <<>> => Len(object[u]) = TotalChunks(u)

\* Why QuotaRespected holds: the row lock is held exactly by the transaction
\* that is open, and the sum it read is not below what is stored now.
RowLockInv ==
  /\ \A r \in Requests : req[r].pc \in {"fSum", "fCommit"} <=> userRow = r
  /\ \A r \in Requests : req[r].pc = "fCommit" =>
       /\ Total[rows] <= req[r].sum
       /\ req[r].sum + Size[req[r].u] <= Quota

\* MAX_ACTIVE_UPLOADS_PER_USER bounds the tracked uploads of a user, whatever
\* initialisations, evictions, cancellations and sweeps overlap.
OneActiveUpload == Cardinality(active) <= MAX_ACTIVE_UPLOADS_PER_USER

\* Some handler, or the sweep, is about to remove the tracking state of u.
BeingCleared(u) ==
  \/ sweep.u = u
  \/ \E r \in Requests :
       \/ req[r].v = u /\ req[r].todo # <<>>
       \/ req[r].u = u /\ req[r].pc \in FinalizePcs
       \/ req[r].pc = "pAborts" /\ u \in req[r].keys

\* u is tracked as active but S3 has nothing left to abort: evicting it
\* fails, and with it every initializeUpload of the user.
Stuck(u) == u \in active /\ meta[u].live /\ ~Listed(u)

\* A tracked upload without a multipart upload is one being cleared, so that
\* a user is not kept from uploading by a dead upload.
NoStuckSlot == \A u \in Uploads : Stuck(u) => BeingCleared(u)

BeingDeleted(u) ==
  \E r \in Requests : \/ req[r].pc = "dRow" /\ req[r].u = u
                      \/ req[r].pc = "pObjects"
                      \/ req[r].pc = "rObjects" /\ u \in req[r].keys

\* A File row always has its object, except while the file is being deleted.
NoDanglingRow == \A u \in rows : object[u] = <<>> => BeingDeleted(u)

BeingFinalized(u) ==
  \E r \in Requests : req[r].u = u /\ req[r].pc \in FinalizePcs

\* backend.md, DELETE /files/:id: the file is physically removed from the
\* server. When deleteFileInternal has removed the row, the object is gone.
DeleteRemovesObject ==
  [][\A r \in Requests : req[r].pc = "dRow" /\ req'[r].pc = "idle"
       => object[req[r].u] = <<>>]_vars

\* Privacy policy, 8.2: all files are removed from object storage upon final
\* deletion. The rows deleteMany takes have lost their objects before.
PurgeRemovesObjects ==
  [][\A r \in Requests : req[r].pc = "pObjects" /\ req'[r].pc = "pScan"
       => \A u \in rows : object[u] = <<>>]_vars

\* A completed object without a File row, which nothing would ever remove, is
\* one whose finalizeUpload is still running.
NoOrphanObject == \A u \in Uploads \ rows : object[u] # <<>> => BeingFinalized(u)

\* A chunk the client was told is accepted stays accepted as long as the
\* upload is: no handler overwrites the metadata with what it read earlier.
KeepsChunks ==
  \A u \in Uploads : meta[u].live /\ meta'[u].live
    => /\ Len(meta[u].parts) <= Len(meta'[u].parts)
       /\ \A i \in DOMAIN meta[u].parts : meta'[u].parts[i] = meta[u].parts[i]

\* handleChunk's comment: the late part cannot become an orphan. A part left
\* in an aborted upload has a handler that will abort it once more.
LatePartAborted ==
  \A u \in Uploads :
    multipart[u].state = "aborted" /\ multipart[u].parts # {} =>
      \E r \in Requests : req[r].u = u /\ req[r].pc \in {"cExists", "cCatch"}

\* The client sends no more chunks of u from some time on.
ClientStops(u) == <>[](\A r \in Requests : req[r].pc \in ChunkPcs => req[r].u # u)

\* deployment/backend/README.md: multipart uploads without activity are
\* aborted, even when their Redis metadata has already disappeared. Chunks
\* count as activity even if S3 refuses every one of them.
StaleReclaimed == \A u \in Uploads : ClientStops(u) => (Listed(u) ~> ~Listed(u))

\* A crash does not keep its user from uploading for good: the lock of an
\* initializeUpload that died ends, and a slot left stuck is freed by the
\* expiry of the metadata.
SlotFreed == /\ initLock # Free ~> initLock = Free
             /\ \A u \in Uploads : ClientStops(u) => (Stuck(u) ~> ~Stuck(u))

\* Nothing of an upload that nobody goes on with stays for good, in S3 or in
\* Redis (cleanupStaleMultipartUploads and the TTLs).
Reclaimed == StaleReclaimed /\ SlotFreed
=============================================================================
