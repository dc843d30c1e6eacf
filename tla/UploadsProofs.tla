--------------------------- MODULE UploadsProofs ---------------------------
(***************************************************************************)
(* Theorems about Uploads, for any number of uploads and handlers, any     *)
(* sizes and limits, and the faults each theorem names.                    *)
(*                                                                         *)
(* IInv   TypeInv, which says of each handler what its program counter     *)
(*        implies; RowLockInv, which ties the row lock to the open         *)
(*        transaction and the sum it has read; QuotaRespected. A step is   *)
(*        one of three kinds: Outside a transaction, one that Ends it, or  *)
(*        Elsewhere; each keeps IInv for a reason of its own.              *)
(* IdsInv       which uploads exist, and that before an id is answered     *)
(*              only its initializeUpload works on it                      *)
(* ScriptsInv   which cleanup calls a handler still has to make            *)
(* WholeInv     objects and finalisations have every chunk                 *)
(* SlotInv      who may add to the active set                              *)
(* ChunkInv     who holds a request lock and what it has read              *)
(* RowsInv      who finalises, has a row and is deleted, in this order     *)
(* OrphanInv    who still has to make a row of an object, or delete it     *)
(* PastInv      what an eviction or a purge deals with has left the part   *)
(*              of initializeUpload it could be disturbed in               *)
(* StartedInv   what initializeUpload has created is still there           *)
(* ClearInv     an active upload is being cleared, or can be aborted and   *)
(*              is written by nobody who has missed its removal            *)
(*                                                                         *)
(* Each later invariant rests on TypeInv and those it names; each is kept  *)
(* by most steps through a lemma of its own (IdsFrame, WholeFrame, ...)    *)
(* and looked at step by step only where it is made or ended.              *)
(***************************************************************************)
EXTENDS MCUploadsLoads, SequenceTheorems, FiniteSetTheorems, TLAPS

\* A handler that works for one upload has it, and only a handler in a cleanup
\* script has cleanup calls left.
Shaped(q) ==
  /\ q.pc \notin {"idle"} \cup PurgePcs => q.u \in Uploads
  /\ q.todo # <<>> => q.pc \in {"iEvict", "iCatch", "cCatch", "fClean", "fCatch",
                                 "kClean"}
-----------------------------------------------------------------------------
(* Well-formed handlers *)

USE NullAssumption

\* An idle handler is well formed.
LEMMA IdleType == Idle \in Handler /\ Shaped(Idle) /\ Idle.todo = <<>> /\ Idle.pc = "idle"
  BY DEF Idle, Handler, Shaped, Pcs, PurgePcs
\* A handler that starts work on an upload is well formed.
LEMMA AtType ==
  ASSUME NEW pc \in Pcs , NEW u \in Uploads
  PROVE  /\ At(pc, u) \in Handler
         /\ At(pc, u).pc = pc
         /\ At(pc, u).u = u
         /\ At(pc, u).todo = <<>>
         /\ Shaped(At(pc, u))
<1>1. At(pc, u) \in Handler BY IdleType DEF At, Handler
<1>2. At(pc, u).pc = pc BY IdleType DEF At, Handler
<1>3. At(pc, u).u = u BY IdleType DEF At, Handler
<1>4. At(pc, u).todo = <<>> BY IdleType DEF At, Handler
<1>5. Shaped(At(pc, u)) BY <1>2, <1>3, <1>4 DEF Shaped
<1> QED BY <1>1, <1>2, <1>3, <1>4, <1>5

\* A handler that enters a cleanup script (a catch block, cancelUpload, the
\* end of finalizeUpload) is well formed.
LEMMA CleanType ==
  ASSUME NEW q, q.u \in Uploads,
         NEW pc \in {"iCatch", "cCatch", "fClean", "fCatch", "kClean"},
         NEW calls \in Seq(Calls)
  PROVE  /\ Clean(q, pc, calls) \in Handler
         /\ Clean(q, pc, calls).pc = pc
         /\ Clean(q, pc, calls).u = q.u
         /\ Shaped(Clean(q, pc, calls))
<1> pc \in Pcs BY DEF Pcs, InitPcs, ChunkPcs, FinalizePcs
<1>a. /\ At(pc, q.u) \in Handler /\ At(pc, q.u).pc = pc /\ At(pc, q.u).u = q.u
  BY AtType
<1>1. Clean(q, pc, calls) \in Handler BY <1>a DEF Clean, Handler
<1>2. Clean(q, pc, calls).pc = pc BY <1>a DEF Clean, Handler
<1>3. Clean(q, pc, calls).u = q.u BY <1>a DEF Clean, Handler
<1> QED BY <1>1, <1>2, <1>3 DEF Shaped

\* The cleanup scripts consist of cleanup calls.
LEMMA Scripts ==
  /\ CancelCalls \in Seq(Calls)
  /\ FinalizeCalls \in Seq(Calls)
  /\ <<"tryAbort">> \o FinalizeCalls \in Seq(Calls)
  /\ <<"object">> \o FinalizeCalls \in Seq(Calls)
  /\ <<"tryAbort", "index">> \in Seq(Calls)
  /\ <<"tryAbort", "meta", "index">> \in Seq(Calls)
  /\ <<"tryAbort">> \in Seq(Calls)
  /\ <<"active">> \in Seq(Calls)
  BY DEF CancelCalls, FinalizeCalls, Calls

\* An exception takes a well-formed handler to a well-formed one, out of any
\* transaction.
LEMMA RaiseType ==
  ASSUME NEW q \in Handler, Shaped(q)
  PROVE  /\ Raise(q) \in Handler
         /\ Shaped(Raise(q))
         /\ Raise(q).pc \notin {"fSum", "fCommit"}
<1>1. CASE q.pc \in {"iCreate", "iCatch"}
  <2>1. "iFail" \in Pcs /\ q.u \in Uploads
    BY <1>1 DEF Shaped, PurgePcs, Pcs, InitPcs
  <2>2. Raise(q) = At("iFail", q.u)
    BY <1>1 DEF Raise, ChunkPcs, FinalizePcs
  <2> QED BY <2>1, <2>2, AtType
<1>2. CASE q.pc \in {"iMeta", "iIndex", "iMembers", "iMetas", "iEvict", "iAdd"}
  <2>1. q.u \in Uploads
    BY <1>2 DEF Shaped, PurgePcs
  <2>2. \/ Raise(q) = Clean(q, "iCatch", <<"tryAbort", "index">>)
        \/ Raise(q) = Clean(q, "iCatch", <<"tryAbort", "meta", "index">>)
    BY <1>2 DEF Raise, ChunkPcs, FinalizePcs
  <2>3. ASSUME NEW calls \in Seq(Calls)
        PROVE  /\ Clean(q, "iCatch", calls) \in Handler
               /\ Shaped(Clean(q, "iCatch", calls))
               /\ Clean(q, "iCatch", calls).pc = "iCatch"
    BY <2>1, CleanType
  <2> QED BY <2>2, <2>3, Scripts
<1>3. CASE q.pc \in ChunkPcs \ {"cUnlock"}
  <2>1. "cUnlock" \in Pcs /\ q.u \in Uploads
    BY <1>3 DEF Shaped, PurgePcs, Pcs, ChunkPcs
  <2>2. Raise(q) = At("cUnlock", q.u)
    BY <1>3 DEF Raise, ChunkPcs, FinalizePcs
  <2> QED BY <2>1, <2>2, AtType
<1>4. CASE q.pc \in FinalizePcs \ {"fCatch"}
  <2>1. q.u \in Uploads
    BY <1>4 DEF Shaped, PurgePcs, FinalizePcs
  <2>2. \/ Raise(q) = Clean(q, "fCatch", <<"tryAbort">> \o FinalizeCalls)
        \/ Raise(q) = Clean(q, "fCatch", <<"object">> \o FinalizeCalls)
    BY <1>4 DEF Raise, FinalizePcs, ChunkPcs
  <2>3. ASSUME NEW calls \in Seq(Calls)
        PROVE  /\ Clean(q, "fCatch", calls) \in Handler
               /\ Shaped(Clean(q, "fCatch", calls))
               /\ Clean(q, "fCatch", calls).pc = "fCatch"
    BY <2>1, CleanType
  <2> QED BY <2>2, <2>3, Scripts
<1>5. CASE q.pc \in {"idle", "kClean", "iLock", "iUnlock", "iFail", "cUnlock",
                     "fCatch"} \cup DeletePcs \cup PurgePcs
  BY <1>5, IdleType DEF Raise, DeletePcs, PurgePcs, ChunkPcs, FinalizePcs
<1> QED
  BY <1>1, <1>2, <1>3, <1>4, <1>5
     DEF Handler, Pcs, InitPcs, ChunkPcs, FinalizePcs, DeletePcs, PurgePcs

\* The return of a cleanup call takes a well-formed handler to a well-formed
\* one, out of any transaction.
LEMMA ContinueType ==
  ASSUME NEW q \in Handler, Shaped(q), q.todo # <<>>
  PROVE  /\ Continue(q) \in Handler
         /\ Shaped(Continue(q))
         /\ Continue(q).pc \notin {"fSum", "fCommit"}
<1>1. CASE Len(q.todo) > 1
  <2>1. Continue(q) = [q EXCEPT !.todo = Tail(q.todo)]
    BY <1>1 DEF Continue
  <2>2. Tail(q.todo) \in Seq(Calls)
    BY DEF Handler
  <2>3. Continue(q) \in Handler
    BY <2>1, <2>2 DEF Handler
  <2>4. Continue(q).pc = q.pc /\ Continue(q).u = q.u
    BY <2>1 DEF Handler
  <2> QED BY <2>3, <2>4 DEF Shaped
<1>2. CASE Len(q.todo) <= 1 /\ q.pc = "iEvict"
  <2> DEFINE next == IF q.set = {} THEN "iAdd" ELSE "iEvict"
  <2>1. Continue(q) = [q EXCEPT !.todo = <<>>, !.v = NoUpload, !.pc = next]
    BY <1>2 DEF Continue, Handler
  <2>2. next \in {"iAdd", "iEvict"} /\ next \in Pcs /\ q.u \in Uploads
    BY <1>2 DEF Shaped, PurgePcs, Pcs, InitPcs
  <2> HIDE DEF next
  <2>3. Continue(q).pc = next /\ Continue(q).u = q.u
    BY <2>1 DEF Handler
  <2>4. Continue(q) \in Handler
    <3>1. <<>> \in Seq(Calls)
      OBVIOUS
    <3> QED BY <2>1, <2>2, <3>1 DEF Handler
  <2>5. Continue(q).todo = <<>>
    BY <2>1 DEF Handler
  <2> QED BY <2>2, <2>3, <2>4, <2>5 DEF Shaped
<1>3. CASE Len(q.todo) <= 1 /\ q.pc \in {"iCatch", "cCatch"}
  <2>1. {"iFail", "cUnlock"} \subseteq Pcs /\ q.u \in Uploads
    BY <1>3 DEF Shaped, PurgePcs, Pcs, InitPcs, ChunkPcs
  <2>2. \/ Continue(q) = At("iFail", q.u)
        \/ Continue(q) = At("cUnlock", q.u)
    BY <1>3 DEF Continue, Handler
  <2> QED BY <2>1, <2>2, AtType
<1>4. CASE Len(q.todo) <= 1 /\ q.pc \in {"fClean", "fCatch", "kClean"}
  <2>1. Continue(q) = Idle
    BY <1>4 DEF Continue, Handler
  <2> QED BY <2>1, IdleType
<1> QED
  <2>1. Len(q.todo) \in Nat BY DEF Handler
  <2> QED BY <2>1, <1>1, <1>2, <1>3, <1>4 DEF Shaped

\* Every handler is well formed.
ReqInv == req \in [Requests -> Handler] /\ \A r \in Requests : Shaped(req[r])

\* A step of handler r leaves the others where they are.
Only(r) == \A s \in Requests \ {r} : req'[s] = req[s]

\* A handler may be replaced by a well-formed one.
LEMMA MoveType ==
  ASSUME ReqInv, NEW r \in Requests, NEW q \in Handler, Shaped(q),
         req' = [req EXCEPT ![r] = q]
  PROVE  ReqInv' /\ Only(r) /\ req'[r] = q
  BY DEF ReqInv, Only

\* Goto keeps the handlers well formed, outside the cleanup scripts.
LEMMA GotoType ==
  ASSUME ReqInv, NEW r \in Requests, NEW from \in Pcs, NEW to \in Pcs, Goto(r, from, to),
         from \notin {"idle"} \cup PurgePcs
           \cup {"iEvict", "iCatch", "cCatch", "fClean", "fCatch", "kClean"}
  PROVE  ReqInv' /\ Only(r) /\ req'[r].pc = to
<1> DEFINE q == [req[r] EXCEPT !.pc = to]
<1>1. req[r] \in Handler /\ Shaped(req[r]) /\ req[r].pc = from
  BY DEF ReqInv, Goto
<1>2. q \in Handler /\ q.pc = to
  BY <1>1 DEF Handler
<1>3. q.u = req[r].u /\ q.todo = req[r].todo
  BY <1>1 DEF Handler
<1>4. Shaped(q)
  BY <1>1, <1>3 DEF Shaped
<1>5. req' = [req EXCEPT ![r] = q]
  BY DEF Goto
<1> QED BY <1>2, <1>4, <1>5, MoveType

\* A handler that has answered is idle.
LEMMA FinishType ==
  ASSUME ReqInv, NEW r \in Requests, Finish(r)
  PROVE  ReqInv' /\ Only(r) /\ req'[r] = Idle
  BY MoveType, IdleType DEF Finish

\* Throw keeps the handlers well formed and leaves any transaction.
LEMMA ThrowType ==
  ASSUME ReqInv, NEW r \in Requests, Throw(r)
  PROVE  ReqInv' /\ Only(r) /\ req'[r].pc \notin {"fSum", "fCommit"}
<1>1. req' = [req EXCEPT ![r] = Raise(req[r])]
  BY DEF Throw, ReqInv
<1>2. req[r] \in Handler /\ Shaped(req[r])
  BY DEF ReqInv
<1> QED BY <1>1, <1>2, RaiseType, MoveType

\* So does the return of a cleanup call.
LEMMA ReturnsType ==
  ASSUME ReqInv, NEW r \in Requests, Returns(r), req[r].todo # <<>>
  PROVE  ReqInv' /\ Only(r) /\ req'[r].pc \notin {"fSum", "fCommit"}
<1>1. req' = [req EXCEPT ![r] = Continue(req[r])]
  BY DEF Returns, ReqInv
<1>2. req[r] \in Handler /\ Shaped(req[r])
  BY DEF ReqInv
<1> QED BY <1>1, <1>2, ContinueType, MoveType

\* A request may start work on an upload.
LEMMA StartAt ==
  ASSUME ReqInv, NEW r \in Requests, NEW pc \in Pcs, NEW u \in Uploads,
         req' = [req EXCEPT ![r] = At(pc, u)]
  PROVE  ReqInv' /\ Only(r) /\ req'[r].pc = pc
<1> DEFINE q == At(pc, u)
<1>1. q \in Handler /\ Shaped(q) /\ q.pc = pc
  BY AtType
<1>2. req' = [req EXCEPT ![r] = q]
  OBVIOUS
<1> HIDE DEF q
<1> QED BY <1>1, <1>2, MoveType

\* A handler may strike an upload off its list.
LEMMA NarrowType ==
  ASSUME ReqInv, NEW r \in Requests, NEW u, req' = [req EXCEPT ![r].set = @ \ {u}]
  PROVE  ReqInv' /\ Only(r) /\ req'[r].pc = req[r].pc
<1> DEFINE q == [req[r] EXCEPT !.set = req[r].set \ {u}]
<1>1. req[r] \in Handler /\ Shaped(req[r])
  BY DEF ReqInv
<1>2. q \in Handler
  BY <1>1 DEF Handler
<1>3. q.pc = req[r].pc /\ q.u = req[r].u /\ q.todo = req[r].todo
  BY <1>1 DEF Handler
<1>4. req' = [req EXCEPT ![r] = q]
  OBVIOUS
<1> HIDE DEF q
<1>5. Shaped(q)
  BY <1>1, <1>3 DEF Shaped
<1> QED BY <1>2, <1>3, <1>4, <1>5, MoveType

\* The inductive form of TypeOK.
TypeInv == TypeOK /\ \A r \in Requests : Shaped(req[r])

\* A step outside a transaction, which may delete rows.
Outside(r) ==
  /\ Only(r)
  /\ req[r].pc \notin {"fSum", "fCommit"}
  /\ req'[r].pc \notin {"fSum", "fCommit"}
  /\ rows' \subseteq rows
  /\ userRow' = userRow

\* TypeInv without the stores.
LEMMA ReqTyped == TypeInv => ReqInv
  BY DEF TypeInv, TypeOK, ReqInv

\* The steps of initializeUpload keep the types and are outside transactions.
LEMMA InitSteps ==
  ASSUME TypeInv, NEW r \in Requests,
         \/ InitLock(r) \/ InitConflict(r) \/ CreateMultipart(r) \/ SetMeta(r)
         \/ SetIndex(r) \/ ReadActive(r) \/ ReadMetas(r) \/ Evict(r)
         \/ AddActive(r) \/ InitUnlock(r)
  PROVE  TypeInv' /\ Outside(r)
<1> USE ReqTyped DEF Outside, Only
<1>0. /\ req[r] \in Handler
      /\ req[r].pc \in {"iLock", "iCreate", "iMeta", "iIndex", "iMembers", "iMetas",
                        "iEvict", "iAdd", "iUnlock", "iFail"}
            => req[r].u \in Uploads /\ (req[r].pc # "iEvict" => req[r].todo = <<>>)
  BY DEF ReqInv, Shaped, PurgePcs
<1>1. CASE InitLock(r)
  <2>1. ReqInv' /\ Only(r) /\ req'[r].pc = "iCreate"
    BY <1>1, GotoType DEF InitLock, Pcs, InitPcs, PurgePcs
  <2> QED
    BY <1>1, <2>1 DEF InitLock, Goto, TypeInv, TypeOK, ReqInv, s3, db, ids
<1>2. CASE InitConflict(r)
  <2>1. ReqInv' /\ Only(r) /\ req'[r] = Idle
    BY <1>2, FinishType DEF InitConflict
  <2> QED
    BY <1>2, <2>1, IdleType
       DEF InitConflict, TypeInv, TypeOK, ReqInv, redis, s3, db
<1>3. CASE CreateMultipart(r)
  <2>1. ReqInv' /\ Only(r) /\ req'[r].pc = "iMeta"
    BY <1>3, GotoType DEF CreateMultipart, Pcs, InitPcs, PurgePcs
  <2>2. multipart' \in [Uploads -> Multipart]
    BY <1>3 DEF CreateMultipart, Multipart, TypeInv, TypeOK
  <2> QED
    BY <1>3, <2>1, <2>2
       DEF CreateMultipart, Goto, TypeInv, TypeOK, ReqInv, redis, db, ids
<1>4. CASE SetMeta(r)
  <2>1. ReqInv' /\ Only(r) /\ req'[r].pc = "iIndex"
    BY <1>4, GotoType DEF SetMeta, Pcs, InitPcs, PurgePcs
  <2>2. MetaWith(<<>>) \in Meta
    BY DEF MetaWith, Meta
  <2> QED
    BY <1>4, <2>1, <2>2 DEF SetMeta, Goto, TypeInv, TypeOK, ReqInv, s3, db, ids
<1>5. CASE SetIndex(r)
  <2>1. ReqInv' /\ Only(r) /\ req'[r].pc = "iMembers"
    BY <1>5, GotoType DEF SetIndex, Pcs, InitPcs, PurgePcs
  <2> QED
    BY <1>0, <1>5, <2>1
       DEF SetIndex, Goto, TypeInv, TypeOK, ReqInv, s3, db, ids
<1>6. CASE ReadActive(r)
  <2> DEFINE pc == IF Cardinality(active) < MAX_ACTIVE_UPLOADS_PER_USER
                   THEN "iAdd" ELSE "iMetas"
             set == IF Cardinality(active) < MAX_ACTIVE_UPLOADS_PER_USER
                    THEN {} ELSE active
             q == [req[r] EXCEPT !.pc = pc, !.set = set]
  <2>1. pc \in {"iAdd", "iMetas"} /\ set \subseteq Uploads
    BY DEF TypeInv, TypeOK
  <2>2. req' = [req EXCEPT ![r] = q] /\ req[r].pc = "iMembers"
    BY <1>6 DEF ReadActive
  <2> HIDE DEF pc, set
  <2>3. q \in Handler
    BY <1>0, <2>1 DEF Handler, Pcs, InitPcs
  <2>4. q.pc = pc /\ q.u = req[r].u /\ q.todo = req[r].todo
    BY <1>0 DEF Handler
  <2> HIDE DEF q
  <2>5. Shaped(q)
    BY <1>0, <2>2, <2>4 DEF Shaped
  <2>6. ReqInv' /\ Only(r) /\ req'[r] = q
    BY <2>2, <2>3, <2>5, MoveType
  <2> QED
    BY <1>6, <2>1, <2>2, <2>4, <2>6
       DEF ReadActive, TypeInv, TypeOK, ReqInv, redis, s3, db, ids
<1>7. CASE ReadMetas(r)
  <2>1. PICK victims \in SUBSET req[r].set :
          req' = [req EXCEPT ![r].set = victims,
                   ![r].pc = IF victims = {} THEN "iAdd" ELSE "iEvict"]
    BY <1>7 DEF ReadMetas
  <2> DEFINE pc == IF victims = {} THEN "iAdd" ELSE "iEvict"
             q == [req[r] EXCEPT !.set = victims, !.pc = pc]
  <2>2. pc \in {"iAdd", "iEvict"} /\ victims \subseteq Uploads
    BY <1>0 DEF Handler
  <2>3. req' = [req EXCEPT ![r] = q] /\ req[r].pc = "iMetas"
    BY <1>7, <2>1 DEF ReadMetas
  <2> HIDE DEF pc
  <2>4. q \in Handler
    BY <1>0, <2>2 DEF Handler, Pcs, InitPcs
  <2>5. q.pc = pc /\ q.u = req[r].u /\ q.todo = req[r].todo
    BY <1>0 DEF Handler
  <2> HIDE DEF q
  <2>6. Shaped(q)
    BY <1>0, <2>3, <2>5 DEF Shaped
  <2>7. ReqInv' /\ Only(r) /\ req'[r] = q
    BY <2>3, <2>4, <2>6, MoveType
  <2> QED
    BY <1>7, <2>2, <2>3, <2>5, <2>7
       DEF ReadMetas, TypeInv, TypeOK, ReqInv, s3, db, ids
<1>8. CASE Evict(r)
  <2>1. PICK v \in req[r].set :
          req' = [req EXCEPT ![r].v = v, ![r].todo = CancelCalls, ![r].set = @ \ {v}]
    BY <1>8 DEF Evict
  <2> DEFINE q == [req[r] EXCEPT !.v = v, !.todo = CancelCalls, !.set = req[r].set \ {v}]
  <2>2. v \in Uploads /\ req[r].set \ {v} \subseteq Uploads
    BY <1>0 DEF Handler
  <2>3. req' = [req EXCEPT ![r] = q] /\ req[r].pc = "iEvict"
    BY <1>8, <2>1 DEF Evict
  <2>4. q \in Handler
    BY <1>0, <2>2, Scripts DEF Handler
  <2>5. q.pc = req[r].pc /\ q.u = req[r].u
    BY <1>0 DEF Handler
  <2> HIDE DEF q
  <2>6. Shaped(q)
    BY <1>0, <2>3, <2>5 DEF Shaped
  <2>7. ReqInv' /\ Only(r) /\ req'[r] = q
    BY <2>3, <2>4, <2>6, MoveType
  <2> QED
    BY <1>8, <2>3, <2>5, <2>7
       DEF Evict, TypeInv, TypeOK, ReqInv, redis, s3, db, ids
<1>9. CASE AddActive(r)
  <2>1. ReqInv' /\ Only(r) /\ req'[r].pc = "iUnlock"
    BY <1>9, GotoType DEF AddActive, Pcs, InitPcs, PurgePcs
  <2> QED
    BY <1>0, <1>9, <2>1
       DEF AddActive, Goto, TypeInv, TypeOK, ReqInv, s3, db, ids
<1>10. CASE InitUnlock(r)
  <2>1. ReqInv' /\ Only(r) /\ req'[r] = Idle
    BY <1>10, FinishType DEF InitUnlock
  <2> QED
    BY <1>0, <1>10, <2>1, IdleType
       DEF InitUnlock, TypeInv, TypeOK, ReqInv, s3, db
<1> QED
  BY <1>1, <1>2, <1>3, <1>4, <1>5, <1>6, <1>7, <1>8, <1>9, <1>10

\* So are those of handleChunk and its guard.
LEMMA ChunkSteps ==
  ASSUME TypeInv, NEW r \in Requests,
         \/ ChunkRead(r) \/ ChunkTouch(r) \/ ChunkSend(r) \/ ChunkLand(r)
         \/ ChunkExists(r) \/ ChunkStore(r) \/ ChunkUnlock(r)
  PROVE  TypeInv' /\ Outside(r)
<1> USE ReqTyped DEF Outside
<1>0. /\ req[r] \in Handler /\ Shaped(req[r])
      /\ req[r].pc \in ChunkPcs \ {"cCatch"} => req[r].u \in Uploads /\ req[r].todo = <<>>
  BY DEF ReqInv, Shaped, PurgePcs, ChunkPcs
<1>1. CASE ChunkRead(r)
  <2>1. CASE Throw(r)
    <3>1. ReqInv' /\ Only(r) /\ req'[r].pc \notin {"fSum", "fCommit"}
      BY <2>1, ThrowType
    <3> QED
      BY <1>1, <3>1 DEF ChunkRead, TypeInv, TypeOK, ReqInv, redis, s3, db, ids
  <2>2. CASE ~Throw(r)
    <3> DEFINE u == req[r].u
               q == [req[r] EXCEPT !.pc = "cTouch", !.parts = meta[u].parts]
    <3>1. req' = [req EXCEPT ![r] = q] /\ req[r].pc = "cRead"
      BY <1>1, <2>2 DEF ChunkRead
    <3>2. meta[u].parts \in Seq(Requests)
      BY <1>0, <3>1 DEF ChunkPcs, TypeInv, TypeOK, Meta
    <3>3. q \in Handler
      BY <1>0, <3>2 DEF Handler, Pcs, ChunkPcs
    <3>4. q.pc = "cTouch" /\ q.u = u /\ q.todo = req[r].todo
      BY <1>0 DEF Handler
    <3> HIDE DEF q
    <3>5. Shaped(q)
      BY <1>0, <3>1, <3>4 DEF Shaped, ChunkPcs
    <3>6. ReqInv' /\ Only(r) /\ req'[r] = q
      BY <3>1, <3>3, <3>5, MoveType
    <3> QED
      BY <1>1, <3>1, <3>4, <3>6
         DEF ChunkRead, TypeInv, TypeOK, ReqInv, redis, s3, db, ids
  <2> QED BY <2>1, <2>2
<1>2. CASE ChunkTouch(r)
  <2>1. ReqInv' /\ Only(r) /\ req'[r].pc = "cSend"
    BY <1>2, GotoType DEF ChunkTouch, Pcs, ChunkPcs, PurgePcs
  <2>2. MetaWith(req[r].parts) \in Meta
    BY <1>0 DEF MetaWith, Meta, Handler
  <2> QED
    BY <1>2, <2>1, <2>2
       DEF ChunkTouch, Goto, TypeInv, TypeOK, ReqInv, s3, db, ids
<1>3. CASE ChunkSend(r)
  <2>1. ReqInv' /\ Only(r) /\ req'[r].pc \notin {"fSum", "fCommit"}
    BY <1>3, GotoType, ThrowType DEF ChunkSend, Pcs, ChunkPcs, PurgePcs
  <2> QED
    BY <1>3, <2>1 DEF ChunkSend, TypeInv, TypeOK, ReqInv, redis, s3, db, ids
<1>4. CASE ChunkLand(r)
  <2>1. ReqInv' /\ Only(r) /\ req'[r].pc \notin {"fSum", "fCommit"}
    BY <1>4, GotoType, ThrowType DEF ChunkLand, Pcs, ChunkPcs, PurgePcs
  <2>2. multipart' \in [Uploads -> Multipart]
    <3> DEFINE n == Len(req[r].parts) + 1
               m == multipart[req[r].u]
               parts == {p \in m.parts : p[1] # n} \cup {<<n, r>>}
    <3>1. CASE UNCHANGED multipart
      BY <3>1 DEF TypeInv, TypeOK
    <3>2. CASE multipart' = [multipart EXCEPT ![req[r].u] =
                 [m EXCEPT !.recent = TRUE, !.parts = parts]]
      <4>1. req[r].u \in Uploads
        BY <1>0, <1>4 DEF ChunkLand, ChunkPcs
      <4>2. m \in Multipart /\ n \in Nat
        BY <1>0, <4>1 DEF TypeInv, TypeOK, Handler
      <4>3. parts \in SUBSET (Nat \X Requests)
        BY <4>2 DEF Multipart
      <4> HIDE DEF parts, m
      <4>4. [m EXCEPT !.recent = TRUE, !.parts = parts] \in Multipart
        BY <4>2, <4>3 DEF Multipart
      <4> QED
        BY <3>2, <4>4 DEF TypeInv, TypeOK
    <3> QED BY <1>4, <3>1, <3>2 DEF ChunkLand
  <2> QED
    BY <1>4, <2>1, <2>2 DEF ChunkLand, TypeInv, TypeOK, ReqInv, redis, db, ids
<1>5. CASE ChunkExists(r)
  <2>1. req[r].pc = "cExists" /\ req[r].u \in Uploads /\ req[r].todo = <<>>
    BY <1>0, <1>5 DEF ChunkExists, ChunkPcs
  <2> DEFINE stay == [req[r] EXCEPT !.pc = "cStore"]
             abort == Clean(req[r], "cCatch", <<"tryAbort">>)
  <2>2. stay \in Handler
    BY <1>0 DEF Handler, Pcs, ChunkPcs
  <2>3. stay.pc = "cStore" /\ stay.u = req[r].u /\ stay.todo = req[r].todo
    BY <1>0 DEF Handler
  <2>4. Shaped(stay)
    BY <2>1, <2>3 DEF Shaped
  <2>5. abort \in Handler /\ Shaped(abort) /\ abort.pc = "cCatch"
    <3>1. <<"tryAbort">> \in Seq(Calls)
      BY Scripts
    <3> QED BY <2>1, <3>1, CleanType, ZenonT(60)
  <2>6. \/ req' = [req EXCEPT ![r] = stay]
        \/ req' = [req EXCEPT ![r] = abort]
    BY <1>0, <1>5 DEF ChunkExists, ReqInv
  <2> HIDE DEF stay, abort
  <2>7. ReqInv' /\ Only(r) /\ req'[r] \in {stay, abort}
    BY <2>2, <2>4, <2>5, <2>6, MoveType
  <2> QED
    BY <1>5, <2>1, <2>3, <2>5, <2>7
       DEF ChunkExists, TypeInv, TypeOK, ReqInv, redis, s3, db, ids
<1>6. CASE ChunkStore(r)
  <2>1. req[r].pc = "cStore" /\ req[r].u \in Uploads
    BY <1>0, <1>6 DEF ChunkStore, ChunkPcs
  <2>2. req' = [req EXCEPT ![r] = At("cUnlock", req[r].u)]
    BY <1>6 DEF ChunkStore, ReqInv
  <2>3. ReqInv' /\ Only(r) /\ req'[r].pc = "cUnlock"
    <3>1. "cUnlock" \in Pcs
      BY DEF Pcs, ChunkPcs
    <3> DEFINE q == At("cUnlock", req[r].u)
    <3>2. q \in Handler /\ Shaped(q) /\ q.pc = "cUnlock"
      BY <2>1, <3>1, AtType
    <3>3. req' = [req EXCEPT ![r] = q]
      BY <2>2
    <3> HIDE DEF q
    <3> QED BY <3>2, <3>3, MoveType
  <2>4. MetaWith(Append(req[r].parts, r)) \in Meta
    BY <1>0 DEF MetaWith, Meta, Handler
  <2> QED
    BY <1>6, <2>1, <2>3, <2>4
       DEF ChunkStore, TypeInv, TypeOK, ReqInv, s3, db, ids
<1>7. CASE ChunkUnlock(r)
  <2>1. ReqInv' /\ Only(r) /\ req'[r] = Idle
    BY <1>7, FinishType DEF ChunkUnlock
  <2> QED
    BY <1>7, <2>1, IdleType
       DEF ChunkUnlock, TypeInv, TypeOK, ReqInv, s3, db, ids
<1> QED
  BY <1>1, <1>2, <1>3, <1>4, <1>5, <1>6, <1>7

\* So are the cleanup calls.
LEMMA CallSteps ==
  ASSUME TypeInv, NEW r \in Requests,
         \/ CallAbort(r) \/ CallDeleteObject(r) \/ CallDelMeta(r) \/ CallDelIndex(r)
         \/ CallRelease(r)
  PROVE  TypeInv' /\ Outside(r)
<1> USE ReqTyped DEF Outside
<1>0. /\ req[r] \in Handler /\ Shaped(req[r])
      /\ req[r].todo # <<>> => req[r].pc \notin {"fSum", "fCommit"}
  BY DEF ReqInv, Shaped
<1>1. CASE CallAbort(r)
  <2>1. req[r].todo # <<>> /\ (Returns(r) \/ Throw(r))
    BY <1>1 DEF CallAbort, Calling
  <2>2. ReqInv' /\ Only(r) /\ req'[r].pc \notin {"fSum", "fCommit"}
    BY <2>1, ReturnsType, ThrowType
  <2>3. Closed("aborted") \in Multipart
    BY DEF Closed, Multipart
  <2>4. multipart' \in [Uploads -> Multipart]
    BY <1>1, <2>3, ZenonT(60) DEF CallAbort, TypeInv, TypeOK
  <2> QED
    BY <1>0, <1>1, <2>1, <2>2, <2>4
       DEF CallAbort, TypeInv, TypeOK, ReqInv, redis, db, ids
<1>2. CASE CallDeleteObject(r)
  <2>1. req[r].todo # <<>> /\ Returns(r)
    BY <1>2 DEF CallDeleteObject, Calling
  <2>2. ReqInv' /\ Only(r) /\ req'[r].pc \notin {"fSum", "fCommit"}
    BY <2>1, ReturnsType
  <2>3. <<>> \in Seq(Requests)
    OBVIOUS
  <2> QED
    BY <1>0, <1>2, <2>1, <2>2, <2>3
       DEF CallDeleteObject, TypeInv, TypeOK, ReqInv, redis, db, ids
<1>3. CASE CallDelMeta(r)
  <2>1. req[r].todo # <<>> /\ Returns(r)
    BY <1>3 DEF CallDelMeta, Calling
  <2>2. ReqInv' /\ Only(r) /\ req'[r].pc \notin {"fSum", "fCommit"}
    BY <2>1, ReturnsType
  <2>3. NoMeta \in Meta
    BY DEF NoMeta, Meta
  <2> QED
    BY <1>0, <1>3, <2>1, <2>2, <2>3
       DEF CallDelMeta, TypeInv, TypeOK, ReqInv, s3, db, ids
<1>4. CASE CallDelIndex(r)
  <2>1. req[r].todo # <<>> /\ Returns(r)
    BY <1>4 DEF CallDelIndex, Calling
  <2>2. ReqInv' /\ Only(r) /\ req'[r].pc \notin {"fSum", "fCommit"}
    BY <2>1, ReturnsType
  <2> QED
    BY <1>0, <1>4, <2>1, <2>2
       DEF CallDelIndex, TypeInv, TypeOK, ReqInv, s3, db, ids
<1>5. CASE CallRelease(r)
  <2>1. req[r].todo # <<>> /\ Returns(r)
    BY <1>5 DEF CallRelease, Calling
  <2>2. ReqInv' /\ Only(r) /\ req'[r].pc \notin {"fSum", "fCommit"}
    BY <2>1, ReturnsType
  <2> QED
    BY <1>0, <1>5, <2>1, <2>2
       DEF CallRelease, TypeInv, TypeOK, ReqInv, s3, db, ids
<1> QED
  BY <1>1, <1>2, <1>3, <1>4, <1>5

\* So is the arrival of a request.
LEMMA StartSteps ==
  ASSUME TypeInv, NEW r \in Requests, Starts(r)
  PROVE  TypeInv' /\ Outside(r)
<1> USE ReqTyped DEF Outside
<1>1. ASSUME NEW u \in Uploads, InitCheck(r, u)
      PROVE  TypeInv' /\ Outside(r)
  <2>1. ReqInv' /\ Only(r) /\ req'[r].pc = "iLock" /\ req[r].pc = "idle"
    BY <1>1, StartAt, IdleType DEF InitCheck, Pcs, InitPcs, PurgePcs
  <2> QED
    BY <1>1, <2>1 DEF InitCheck, TypeInv, TypeOK, ReqInv, redis, s3, db
<1>2. ASSUME NEW u \in Uploads, ChunkLock(r, u)
      PROVE  TypeInv' /\ Outside(r)
  <2>1. ReqInv' /\ Only(r) /\ req'[r].pc = "cRead" /\ req[r].pc = "idle"
    BY <1>2, StartAt, IdleType DEF ChunkLock, Pcs, ChunkPcs, PurgePcs
  <2> QED
    BY <1>2, <2>1 DEF ChunkLock, TypeInv, TypeOK, ReqInv, s3, db, ids
<1>3. ASSUME NEW u \in Uploads, FinalizeStart(r, u)
      PROVE  TypeInv' /\ Outside(r)
  <2> DEFINE a == At("fComplete", u)
             q == [a EXCEPT !.parts = meta[u].parts]
  <2>1. req' = [req EXCEPT ![r] = q] /\ req[r] = Idle
    BY <1>3 DEF FinalizeStart
  <2>2. "fComplete" \in Pcs
    BY DEF Pcs, FinalizePcs
  <2>3. a \in Handler /\ a.pc = "fComplete" /\ a.u = u /\ a.todo = <<>>
    BY <2>2, AtType
  <2> HIDE DEF a
  <2>4. meta[u].parts \in Seq(Requests)
    BY DEF TypeInv, TypeOK, Meta
  <2>5. q \in Handler
    BY <2>3, <2>4 DEF Handler
  <2>6. q.pc = "fComplete" /\ q.u = u /\ q.todo = <<>>
    BY <2>3 DEF Handler
  <2> HIDE DEF q
  <2>7. Shaped(q)
    BY <2>6 DEF Shaped
  <2>8. ReqInv' /\ Only(r) /\ req'[r] = q
    BY <2>1, <2>5, <2>7, MoveType
  <2> QED
    BY <1>3, <2>1, <2>6, <2>8, IdleType
       DEF FinalizeStart, TypeInv, TypeOK, ReqInv, redis, s3, db, ids
<1>4. ASSUME NEW u \in Uploads, CancelStart(r, u)
      PROVE  TypeInv' /\ Outside(r)
  <2>1. PICK calls \in Seq(Calls) :
          req' = [req EXCEPT ![r] = Clean(At("idle", u), "kClean", calls)]
    BY <1>4, Scripts DEF CancelStart
  <2> DEFINE q == Clean(At("idle", u), "kClean", calls)
  <2>2. At("idle", u).u = u
    BY AtType DEF Pcs
  <2>3. q \in Handler /\ Shaped(q) /\ q.pc = "kClean"
    BY <2>2, CleanType
  <2>4. req' = [req EXCEPT ![r] = q] /\ req[r] = Idle
    BY <1>4, <2>1 DEF CancelStart
  <2> HIDE DEF q
  <2>5. ReqInv' /\ Only(r) /\ req'[r] = q
    BY <2>3, <2>4, MoveType
  <2> QED
    BY <1>4, <2>3, <2>4, <2>5, IdleType
       DEF CancelStart, TypeInv, TypeOK, ReqInv, redis, s3, db, ids
<1>5. ASSUME NEW u \in Uploads, DeleteStart(r, u)
      PROVE  TypeInv' /\ Outside(r)
  <2>1. ReqInv' /\ Only(r) /\ req'[r].pc = "dObject" /\ req[r].pc = "idle"
    BY <1>5, StartAt, IdleType DEF DeleteStart, Pcs, DeletePcs, PurgePcs
  <2> QED
    BY <1>5, <2>1 DEF DeleteStart, TypeInv, TypeOK, ReqInv, redis, s3, db, ids
<1>6. CASE PurgeStart(r)
  <2> DEFINE q == [Idle EXCEPT !.pc = "pObjects", !.set = rows]
  <2>1. req' = [req EXCEPT ![r] = q] /\ req[r] = Idle
    BY <1>6 DEF PurgeStart
  <2>2. q \in Handler
    BY IdleType DEF Handler, Pcs, PurgePcs, TypeInv, TypeOK
  <2>3. q.pc = "pObjects" /\ q.todo = <<>>
    BY IdleType DEF Handler
  <2> HIDE DEF q
  <2>4. Shaped(q)
    BY <2>3 DEF Shaped, PurgePcs
  <2>5. ReqInv' /\ Only(r) /\ req'[r] = q
    BY <2>1, <2>2, <2>4, MoveType
  <2> QED
    BY <1>6, <2>1, <2>3, <2>5, IdleType
       DEF PurgeStart, TypeInv, TypeOK, ReqInv, redis, s3, db, ids
<1>7. CASE RemoveStart(r)
  <2>1. PICK files \in SUBSET rows :
          req' = [req EXCEPT ![r] = [Idle EXCEPT !.pc = "rObjects", !.set = files,
                                                 !.keys = files]]
    BY <1>7 DEF RemoveStart
  <2> DEFINE q == [Idle EXCEPT !.pc = "rObjects", !.set = files, !.keys = files]
  <2>2. req' = [req EXCEPT ![r] = q] /\ req[r] = Idle
    BY <1>7, <2>1 DEF RemoveStart
  <2>3. files \in SUBSET Uploads
    BY DEF TypeInv, TypeOK
  <2>4. q \in Handler
    BY <2>3, IdleType DEF Handler, Pcs, PurgePcs
  <2>5. q.pc = "rObjects" /\ q.todo = <<>>
    BY IdleType DEF Handler
  <2> HIDE DEF q
  <2>6. Shaped(q)
    BY <2>5 DEF Shaped, PurgePcs
  <2>7. ReqInv' /\ Only(r) /\ req'[r] = q
    BY <2>2, <2>4, <2>6, MoveType
  <2> QED
    BY <1>7, <2>2, <2>5, <2>7, IdleType
       DEF RemoveStart, TypeInv, TypeOK, ReqInv, redis, s3, db, ids
<1> QED
  BY <1>1, <1>2, <1>3, <1>4, <1>5, <1>6, <1>7 DEF Starts

\* So are the deletions of files, which only remove rows.
LEMMA DeletionSteps ==
  ASSUME TypeInv, NEW r \in Requests,
         \/ DeleteObject(r) \/ DeleteRow(r) \/ DeleteObjects(r) \/ RemoveRows(r)
         \/ PurgeRows(r) \/ PurgeScan(r) \/ PurgeAborts(r) \/ PurgeKeys(r)
  PROVE  TypeInv' /\ Outside(r)
<1> USE ReqTyped DEF Outside
<1>0. req[r] \in Handler /\ Shaped(req[r])
  BY DEF ReqInv
<1>1. <<>> \in Seq(Requests)
  OBVIOUS
<1>2. CASE DeleteObject(r)
  <2>1. ReqInv' /\ Only(r) /\ req'[r].pc = "dRow"
    BY <1>2, GotoType DEF DeleteObject, Pcs, DeletePcs, PurgePcs
  <2>2. object' \in [Uploads -> Seq(Requests)]
    BY <1>1, <1>2, ZenonT(60) DEF DeleteObject, TypeInv, TypeOK
  <2> QED
    BY <1>2, <2>1, <2>2
       DEF DeleteObject, Goto, TypeInv, TypeOK, ReqInv, redis, db, ids
<1>3. CASE DeleteRow(r)
  <2>1. ReqInv' /\ Only(r) /\ req'[r] = Idle
    BY <1>3, FinishType DEF DeleteRow
  <2> QED
    BY <1>3, <2>1, IdleType
       DEF DeleteRow, TypeInv, TypeOK, ReqInv, redis, s3, ids
<1>4. CASE DeleteObjects(r)
  <2>1. PICK u \in req[r].set : req' = [req EXCEPT ![r].set = @ \ {u}]
    BY <1>4 DEF DeleteObjects
  <2>2. ReqInv' /\ Only(r) /\ req'[r].pc = req[r].pc
    BY <2>1, NarrowType
  <2>3. object' \in [Uploads -> Seq(Requests)]
    BY <1>1, <1>4, ZenonT(60) DEF DeleteObjects, TypeInv, TypeOK
  <2> QED
    BY <1>4, <2>2, <2>3
       DEF DeleteObjects, TypeInv, TypeOK, ReqInv, redis, db, ids
<1>5. CASE RemoveRows(r)
  <2>1. ReqInv' /\ Only(r) /\ req'[r] = Idle
    BY <1>5, FinishType DEF RemoveRows
  <2> QED
    BY <1>5, <2>1, IdleType
       DEF RemoveRows, TypeInv, TypeOK, ReqInv, redis, s3, ids
<1>6. CASE PurgeRows(r)
  <2> DEFINE q == [req[r] EXCEPT !.pc = "pScan"]
  <2>1. q \in Handler
    BY <1>0 DEF Handler, Pcs, PurgePcs
  <2>2. q.pc = "pScan" /\ q.todo = req[r].todo
    BY <1>0 DEF Handler
  <2>3. req' = [req EXCEPT ![r] = q] /\ req[r].pc = "pObjects"
    BY <1>6 DEF PurgeRows
  <2> HIDE DEF q
  <2>4. Shaped(q)
    BY <1>0, <2>2, <2>3 DEF Shaped, PurgePcs
  <2>5. ReqInv' /\ Only(r) /\ req'[r] = q
    BY <2>1, <2>3, <2>4, MoveType
  <2> QED
    BY <1>6, <2>2, <2>5 DEF PurgeRows, TypeInv, TypeOK, ReqInv, redis, s3, ids
<1>7. CASE PurgeScan(r)
  <2> DEFINE live == {u \in Uploads : meta[u].live}
             q == [req[r] EXCEPT !.pc = "pAborts", !.set = live, !.keys = active \cup live]
  <2>1. live \in SUBSET Uploads /\ active \cup live \in SUBSET Uploads
    BY DEF TypeInv, TypeOK
  <2>2. req' = [req EXCEPT ![r] = q] /\ req[r].pc = "pScan"
    BY <1>7 DEF PurgeScan
  <2> HIDE DEF live
  <2>3. q \in Handler
    BY <1>0, <2>1 DEF Handler, Pcs, PurgePcs
  <2>4. q.pc = "pAborts" /\ q.todo = req[r].todo
    BY <1>0 DEF Handler
  <2> HIDE DEF q
  <2>5. Shaped(q)
    BY <1>0, <2>2, <2>4 DEF Shaped, PurgePcs
  <2>6. ReqInv' /\ Only(r) /\ req'[r] = q
    BY <2>2, <2>3, <2>5, MoveType
  <2> QED
    BY <1>7, <2>4, <2>6
       DEF PurgeScan, TypeInv, TypeOK, ReqInv, redis, s3, db, ids
<1>8. CASE PurgeAborts(r)
  <2>1. PICK u \in req[r].set : req' = [req EXCEPT ![r].set = @ \ {u}]
    BY <1>8 DEF PurgeAborts
  <2>2. ReqInv' /\ Only(r) /\ req'[r].pc = req[r].pc
    BY <2>1, NarrowType
  <2>3. Closed("aborted") \in Multipart
    BY DEF Closed, Multipart
  <2>4. multipart' \in [Uploads -> Multipart]
    BY <1>8, <2>3, ZenonT(60) DEF PurgeAborts, TypeInv, TypeOK
  <2> QED
    BY <1>8, <2>2, <2>4
       DEF PurgeAborts, TypeInv, TypeOK, ReqInv, redis, db, ids
<1>9. CASE PurgeKeys(r)
  <2>1. ReqInv' /\ Only(r) /\ req'[r] = Idle
    BY <1>9, FinishType DEF PurgeKeys
  <2>2. NoMeta \in Meta
    BY DEF NoMeta, Meta
  <2> QED
    BY <1>9, <2>1, <2>2, IdleType
       DEF PurgeKeys, TypeInv, TypeOK, ReqInv, s3, db, ids
<1> QED
  BY <1>2, <1>3, <1>4, <1>5, <1>6, <1>7, <1>8, <1>9

\* Neither the handlers nor the database take part in the step.
Elsewhere == UNCHANGED <<req, db>>

\* The states of the cron job.
Sweep == [pc : {"idle", "pick", "abort", "untrack"},
          todo : SUBSET Uploads, u : Uploads \cup {NoUpload}]

\* The sweep keeps the types.
LEMMA SweepSteps ==
  ASSUME TypeInv, Sweeps
  PROVE  TypeInv' /\ Elsewhere
<1> USE DEF Elsewhere
<1>0. Closed("aborted") \in Multipart /\ NoMeta \in Meta
  BY DEF Closed, Multipart, NoMeta, Meta
<1>6. sweep \in Sweep /\ SweepDrop(sweep.u) \in Sweep
  BY DEF SweepDrop, SweepIdle, TypeInv, TypeOK, Sweep
<1>1. CASE SweepStart
  BY <1>1 DEF SweepStart, SweepIdle, TypeInv, TypeOK, redis, s3, db, ids
<1>2. CASE SweepEnd
  BY <1>2 DEF SweepEnd, SweepIdle, TypeInv, TypeOK, redis, s3, db, ids
<1>3. ASSUME NEW u \in Uploads, SweepInspect(u)
      PROVE  TypeInv' /\ Elsewhere
  BY <1>3
     DEF SweepInspect, SweepDrop, SweepIdle, TypeInv, TypeOK, redis, s3, db,
         ids
<1>4. CASE SweepAbort
  <2>1. multipart' \in [Uploads -> Multipart]
    BY <1>0, <1>4 DEF SweepAbort, TypeInv, TypeOK
  <2>2. sweep' \in Sweep
    BY <1>4, <1>6 DEF SweepAbort, Sweep
  <2> QED
    BY <1>4, <2>1, <2>2 DEF SweepAbort, Sweep, TypeInv, TypeOK, redis, db, ids
<1>5. CASE SweepUntrack
  <2>1. \/ meta' = [meta EXCEPT ![sweep.u] = NoMeta] /\ active' = active \ {sweep.u}
           /\ index' = index \ {sweep.u}
        \/ UNCHANGED <<meta, active, index>>
    BY <1>5 DEF SweepUntrack
  <2>2. meta \in [Uploads -> Meta] /\ active \subseteq Uploads /\ index \subseteq Uploads
    BY DEF TypeInv, TypeOK
  <2>3. meta' \in [Uploads -> Meta]
    BY <1>0, <2>1, <2>2
  <2>4. active' \subseteq Uploads /\ index' \subseteq Uploads
    BY <2>1, <2>2
  <2>5. sweep' \in Sweep
    <3>1. sweep' = SweepDrop(sweep.u)
      BY <1>5 DEF SweepUntrack
    <3> QED BY <1>6, <3>1
  <2> QED
    BY <1>5, <2>3, <2>4, <2>5
       DEF SweepUntrack, Sweep, TypeInv, TypeOK, s3, db, ids
<1> QED
  BY <1>1, <1>2, <1>3, <1>4, <1>5 DEF Sweeps

\* So does the passing of time.
LEMMA ExpirySteps ==
  ASSUME TypeInv, Expires
  PROVE  TypeInv' /\ Elsewhere
<1> USE DEF Elsewhere
<1>0. NoMeta \in Meta
  BY DEF NoMeta, Meta
<1>1. CASE ExpireActive
  BY <1>1 DEF ExpireActive, TypeInv, TypeOK, redis, s3, db, ids
<1>2. CASE ExpireInitLock
  BY <1>2 DEF ExpireInitLock, TypeInv, TypeOK, redis, s3, db, ids
<1>3. ASSUME NEW u \in Uploads, Age(u)
      PROVE  TypeInv' /\ Elsewhere
  <2>0. meta \in [Uploads -> Meta] /\ multipart \in [Uploads -> Multipart]
    BY DEF TypeInv, TypeOK
  <2>1. meta' \in [Uploads -> Meta]
    BY <1>3, <2>0 DEF Age, Meta
  <2>2. multipart' \in [Uploads -> Multipart]
    BY <1>3, <2>0 DEF Age, Multipart
  <2> QED
    BY <1>3, <2>1, <2>2 DEF Age, TypeInv, TypeOK, db, ids
<1>4. ASSUME NEW u \in Uploads, ExpireMeta(u)
      PROVE  TypeInv' /\ Elsewhere
  BY <1>0, <1>4 DEF ExpireMeta, TypeInv, TypeOK, s3, db, ids
<1>5. ASSUME NEW u \in Uploads, ExpireIndex(u)
      PROVE  TypeInv' /\ Elsewhere
  BY <1>5 DEF ExpireIndex, TypeInv, TypeOK, s3, db, ids
<1>6. ASSUME NEW u \in Uploads, ExpireChunkLock(u)
      PROVE  TypeInv' /\ Elsewhere
  BY <1>6 DEF ExpireChunkLock, TypeInv, TypeOK, s3, db, ids
<1> QED
  BY <1>1, <1>2, <1>3, <1>4, <1>5, <1>6 DEF Expires

\* A transaction of r, if it has one open, ends without adding a row.
Ends(r) ==
  /\ Only(r)
  /\ req'[r].pc \notin {"fSum", "fCommit"}
  /\ rows' \subseteq rows
  /\ userRow' = IF userRow = r THEN Free ELSE userRow

\* A failed call ends the transaction; a disconnect touches the chunk lock.
LEMMA FailSteps ==
  ASSUME TypeInv, NEW r \in Requests
  PROVE  /\ CallFails(r) => TypeInv' /\ Ends(r)
         /\ Disconnect(r) => TypeInv' /\ Elsewhere
<1> USE ReqTyped DEF Ends
<1>1. ASSUME CallFails(r) PROVE TypeInv' /\ Ends(r)
  <2>1. (Returns(r) /\ req[r].todo # <<>>) \/ Throw(r)
    BY <1>1 DEF CallFails, Calling
  <2>2. ReqInv' /\ Only(r) /\ req'[r].pc \notin {"fSum", "fCommit"}
    BY <2>1, ReturnsType, ThrowType
  <2> QED
    <3>1. /\ userRow' = IF userRow = r THEN Free ELSE userRow
          /\ UNCHANGED <<redis, s3, rows, ids, sweep, crashes>>
      BY <1>1 DEF CallFails
    <3>2. userRow' \in Requests \cup {Free}
      BY <3>1 DEF TypeInv, TypeOK
    <3>3. TypeInv'
      BY <2>2, <3>1, <3>2 DEF TypeInv, TypeOK, ReqInv, redis, s3, ids
    <3> QED BY <2>2, <3>1, <3>3
<1>2. ASSUME Disconnect(r) PROVE TypeInv' /\ Elsewhere
  <2>1. /\ chunkLock' = [chunkLock EXCEPT ![req[r].u] = Free]
        /\ UNCHANGED <<meta, index, active, initLock, s3, db, ids, req, sweep, crashes>>
    BY <1>2 DEF Disconnect
  <2>2. chunkLock' \in [Uploads -> Requests \cup {Free}]
    BY <2>1 DEF TypeInv, TypeOK
  <2>3. TypeInv'
    BY <2>1, <2>2 DEF TypeInv, TypeOK, s3, db, ids
  <2> QED BY <2>1, <2>3 DEF Elsewhere
<1> QED
  BY <1>1, <1>2

\* A crash ends every handler and every transaction.
LEMMA CrashStep ==
  ASSUME TypeInv, Crash
  PROVE  /\ TypeInv' /\ rows' = rows /\ userRow' = Free
         /\ req' = [s \in Requests |-> Idle]
<1>1. /\ crashes' = crashes + 1 /\ userRow' = Free
      /\ req' = [s \in Requests |-> Idle]
      /\ UNCHANGED <<redis, s3, rows, ids>>
  BY DEF Crash
<1>2. sweep' \in Sweep
  BY DEF Crash, SweepIdle, Sweep
<1>3. ReqInv'
  BY <1>1, IdleType DEF ReqInv
<1>4. TypeInv'
  BY <1>1, <1>2, <1>3 DEF Sweep, TypeInv, TypeOK, ReqInv, redis, s3, ids
<1> QED BY <1>1, <1>4

-----------------------------------------------------------------------------

(* The quota *)

\* The inductive invariant.
IInv == TypeInv /\ RowLockInv /\ QuotaRespected

\* SUM(size) is a number, and does not grow when rows go.
LEMMA SumTyped ==
  ASSUME NEW S \in SUBSET Uploads
  PROVE  /\ Total[S] \in Nat
         /\ \A T \in SUBSET S : Total[T] \in Nat /\ Total[T] <= Total[S]
  BY TotalAssumption

\* A step that adds no row and leaves a transaction, if any, keeps IInv: the
\* sum another transaction has read only gets farther from what is stored.
LEMMA EndsInv ==
  ASSUME IInv, NEW r \in Requests, TypeInv', Ends(r)
  PROVE  IInv'
<1>1. Total[rows'] <= Total[rows] /\ Total[rows] \in Nat /\ Total[rows'] \in Nat
  BY SumTyped DEF Ends, IInv, TypeInv, TypeOK
<1>2. QuotaRespected'
  BY <1>1, SizeAssumption DEF IInv, QuotaRespected
<1>3. \A s \in Requests : req'[s].pc \in {"fSum", "fCommit"} => s # r /\ req'[s] = req[s]
  BY DEF Ends, Only
<1>4. \A s \in Requests : req'[s].pc \in {"fSum", "fCommit"} <=> userRow' = s
  BY <1>3 DEF Ends, Only, IInv, RowLockInv
<1>5. ASSUME NEW s \in Requests, req'[s].pc = "fCommit"
      PROVE  Total[rows'] <= req'[s].sum /\ req'[s].sum + Size[req'[s].u] <= Quota
  <2>1. req'[s] = req[s]
    BY <1>3, <1>5
  <2>2. Total[rows] <= req[s].sum /\ req[s].sum + Size[req[s].u] <= Quota
    BY <1>5, <2>1 DEF IInv, RowLockInv
  <2>3. req[s].sum \in Nat
    BY DEF IInv, TypeInv, TypeOK, Handler
  <2> QED
    BY <1>1, <2>1, <2>2, <2>3
<1> QED
  BY <1>2, <1>4, <1>5 DEF IInv, RowLockInv

\* A step outside transactions keeps IInv.
LEMMA OutsideInv ==
  ASSUME IInv, NEW r \in Requests, TypeInv', Outside(r)
  PROVE  IInv'
<1>1. userRow # r
  BY DEF Outside, IInv, RowLockInv
<1> QED
  BY <1>1, EndsInv DEF Outside, Ends

\* A step of the sweep or of a clock keeps IInv.
LEMMA ElsewhereInv ==
  ASSUME IInv, TypeInv', Elsewhere
  PROVE  IInv'
  BY DEF Elsewhere, IInv, RowLockInv, QuotaRespected, db

\* The commit keeps IInv: under the row lock no row was added since the sum
\* was read.
LEMMA CommitInv ==
  ASSUME IInv, NEW r \in Requests, TypeInv', req[r].pc = "fCommit",
         Only(r), req'[r].pc \notin {"fSum", "fCommit"},
         rows' = rows \cup {req[r].u}, userRow' = Free
  PROVE  IInv'
<1> DEFINE u == req[r].u
<1>1. /\ rows \in SUBSET Uploads /\ rows' \in SUBSET Uploads
      /\ req[r] \in Handler /\ u \in Uploads
  BY DEF IInv, TypeInv, TypeOK, Shaped, PurgePcs
<1>2. userRow = r
  BY DEF IInv, RowLockInv
<1>3. \A s \in Requests : req'[s].pc \notin {"fSum", "fCommit"}
  BY <1>2 DEF Only, IInv, RowLockInv
<1>4. RowLockInv'
  BY <1>3, NullAssumption DEF RowLockInv
<1>5. Total[rows'] <= Quota
  <2>1. CASE u \in rows
    BY <2>1, <1>1 DEF IInv, QuotaRespected
  <2>2. CASE u \notin rows
    <3>1. Total[rows \cup {u}] = Total[rows] + Size[u]
      BY <1>1, <2>2, TotalAssumption
    <3>2. Total[rows] <= req[r].sum /\ req[r].sum + Size[u] <= Quota
      BY DEF IInv, RowLockInv
    <3>3. /\ Total[rows] \in Nat /\ req[r].sum \in Nat
          /\ Size[u] \in Nat /\ Quota \in Nat
      BY <1>1, SumTyped, SizeAssumption DEF Handler
    <3> QED BY <3>1, <3>2, <3>3
  <2> QED BY <2>1, <2>2
<1> QED
  BY <1>4, <1>5 DEF IInv, QuotaRespected

\* The steps of finalizeUpload keep IInv.
LEMMA FinalizeSteps ==
  ASSUME IInv, NEW r \in Requests,
         Complete(r) \/ HeadObject(r) \/ LockUser(r) \/ SumRows(r) \/ CommitRow(r)
  PROVE  IInv'
<1> USE ReqTyped
<1>0. /\ TypeInv /\ req[r] \in Handler /\ Shaped(req[r])
      /\ req[r].pc \in FinalizePcs => req[r].u \in Uploads
  BY DEF IInv, ReqInv, Shaped, PurgePcs, FinalizePcs
<1>1. CASE Complete(r)
  <2>1. ReqInv' /\ Only(r) /\ req'[r].pc \notin {"fSum", "fCommit"}
    BY <1>0, <1>1, GotoType, ThrowType DEF Complete, Pcs, FinalizePcs, PurgePcs
  <2>2. Closed("completed") \in Multipart
    BY DEF Closed, Multipart
  <2>3. req[r].parts \in Seq(Requests)
    BY <1>0 DEF Handler
  <2>4. multipart' \in [Uploads -> Multipart]
    BY <1>0, <1>1, <2>2 DEF Complete, Assemble, s3, TypeInv, TypeOK
  <2>5. object' \in [Uploads -> Seq(Requests)]
    BY <1>0, <1>1, <2>3 DEF Complete, Assemble, s3, TypeInv, TypeOK
  <2>6. TypeInv'
    BY <1>0, <1>1, <2>1, <2>4, <2>5
       DEF Complete, TypeInv, TypeOK, ReqInv, redis, db, ids
  <2>7. Outside(r)
    BY <1>1, <2>1 DEF Complete, Outside, db
  <2> QED BY <2>6, <2>7, OutsideInv
<1>2. CASE HeadObject(r)
  <2>1. ReqInv' /\ Only(r) /\ req'[r].pc \notin {"fSum", "fCommit"}
    <3>1. CASE Goto(r, "fHead", "fLock")
      BY <1>0, <3>1, GotoType DEF Pcs, FinalizePcs, PurgePcs
    <3>2. CASE Throw(r)
      BY <1>0, <3>2, ThrowType
    <3> QED BY <1>2, <3>1, <3>2 DEF HeadObject
  <2>2. TypeInv'
    BY <1>0, <1>2, <2>1
       DEF HeadObject, TypeInv, TypeOK, ReqInv, redis, s3, db, ids
  <2>3. Outside(r)
    BY <1>2, <2>1 DEF HeadObject, Outside, db
  <2> QED BY <2>2, <2>3, OutsideInv
<1>3. CASE LockUser(r)
  <2>1. ReqInv' /\ Only(r) /\ req'[r].pc = "fSum"
    BY <1>0, <1>3, GotoType DEF LockUser, Pcs, FinalizePcs, PurgePcs
  <2>2. TypeInv'
    BY <1>0, <1>3, <2>1 DEF LockUser, TypeInv, TypeOK, ReqInv, redis, s3, ids
  <2>3. userRow = Free /\ userRow' = r /\ rows' = rows
    BY <1>3 DEF LockUser
  <2>4. \A s \in Requests : req[s].pc \notin {"fSum", "fCommit"}
    BY <2>3, NullAssumption DEF IInv, RowLockInv
  <2>5. RowLockInv'
    BY <2>1, <2>3, <2>4 DEF Only, RowLockInv
  <2> QED BY <2>2, <2>3, <2>5 DEF IInv, QuotaRespected
<1>4. CASE SumRows(r)
  <2>1. req[r].pc = "fSum" /\ rows' = rows
    BY <1>4 DEF SumRows
  <2>2. userRow = r /\ \A s \in Requests \ {r} : req[s].pc \notin {"fSum", "fCommit"}
    BY <2>1 DEF IInv, RowLockInv
  <2>3. CASE Throw(r) /\ userRow' = Free
    <3>1. ReqInv' /\ Only(r) /\ req'[r].pc \notin {"fSum", "fCommit"}
      BY <1>0, <2>3, ThrowType
    <3>2. TypeInv'
      BY <1>0, <1>4, <2>3, <3>1
         DEF SumRows, TypeInv, TypeOK, ReqInv, redis, s3, ids
    <3>3. Ends(r)
      BY <2>1, <2>2, <2>3, <3>1 DEF Ends
    <3> QED BY <3>2, <3>3, EndsInv
  <2>4. CASE ~(Throw(r) /\ userRow' = Free)
    <3> DEFINE q == [req[r] EXCEPT !.pc = "fCommit", !.sum = Total[rows]]
    <3>1. /\ req' = [req EXCEPT ![r] = q] /\ userRow' = userRow
          /\ Total[rows] + Size[req[r].u] <= Quota
      BY <1>4, <2>4 DEF SumRows
    <3>2. Total[rows] \in Nat
      BY <1>0, SumTyped DEF TypeInv, TypeOK
    <3>3. q \in Handler
      BY <1>0, <3>2 DEF Handler, Pcs, FinalizePcs
    <3>4. q.pc = "fCommit" /\ q.sum = Total[rows]
      BY <1>0 DEF Handler
    <3>5. q.u = req[r].u /\ q.todo = req[r].todo
      BY <1>0 DEF Handler
    <3> HIDE DEF q
    <3>6. Shaped(q)
      BY <1>0, <2>1, <3>4, <3>5 DEF Shaped, FinalizePcs
    <3>7. ReqInv' /\ Only(r) /\ req'[r] = q
      BY <1>0, <3>1, <3>3, <3>6, MoveType
    <3>8. TypeInv'
      BY <1>0, <1>4, <3>1, <3>7
         DEF SumRows, TypeInv, TypeOK, ReqInv, redis, s3, ids
    <3>9. RowLockInv'
      BY <2>1, <2>2, <3>1, <3>2, <3>4, <3>5, <3>7 DEF Only, RowLockInv
    <3> QED BY <2>1, <3>8, <3>9 DEF IInv, QuotaRespected
  <2> QED BY <2>3, <2>4
<1>5. CASE CommitRow(r)
  <2>1. req[r].pc = "fCommit" /\ req[r].u \in Uploads
    BY <1>0, <1>5 DEF CommitRow, FinalizePcs
  <2> DEFINE q == Clean(req[r], "fClean", FinalizeCalls)
  <2>2. FinalizeCalls \in Seq(Calls)
    BY Scripts
  <2>3. q \in Handler /\ Shaped(q) /\ q.pc = "fClean"
    BY <2>1, <2>2, CleanType
  <2>4. req' = [req EXCEPT ![r] = q]
    BY <1>0, <1>5 DEF CommitRow, ReqInv
  <2> HIDE DEF q
  <2>5. ReqInv' /\ Only(r) /\ req'[r] = q
    BY <1>0, <2>3, <2>4, MoveType
  <2>6. rows' = rows \cup {req[r].u} /\ userRow' = Free
    BY <1>5 DEF CommitRow
  <2>7. TypeInv'
    BY <1>0, <1>5, <2>1, <2>5, <2>6
       DEF CommitRow, TypeInv, TypeOK, ReqInv, redis, s3, ids
  <2> QED BY <2>1, <2>3, <2>5, <2>6, <2>7, CommitInv
<1> QED
  BY <1>1, <1>2, <1>3, <1>4, <1>5

\* IInv survives a lost answer: a transaction the handler takes for failed may
\* have been committed.
LEMMA ReplyLostStep ==
  ASSUME IInv, NEW r \in Requests, ReplyLost(r)
  PROVE  IInv'
<1>0. TypeInv /\ ReqInv /\ req[r] \in Handler /\ Shaped(req[r])
  BY ReqTyped DEF IInv, ReqInv
<1>1. ReqInv' /\ Only(r) /\ req'[r].pc \notin {"fSum", "fCommit"}
  BY <1>0, ThrowType DEF ReplyLost
<1>2. CASE req[r].pc = "iCreate"
  <2>1. /\ multipart' = [multipart EXCEPT ![req[r].u] =
             [state |-> "open", recent |-> TRUE, parts |-> {}]]
        /\ UNCHANGED <<object, db, active, ids, sweep, crashes>>
        /\ UNCHANGED <<meta, index, initLock, chunkLock>>
    BY <1>2 DEF ReplyLost
  <2>2. multipart' \in [Uploads -> Multipart]
    BY <1>0, <2>1 DEF Multipart, TypeInv, TypeOK
  <2>3. TypeInv'
    BY <1>0, <1>1, <2>1, <2>2 DEF TypeInv, TypeOK, ReqInv, db, ids
  <2>4. Outside(r)
    BY <1>1, <1>2, <2>1 DEF Outside, db
  <2> QED BY <2>3, <2>4, OutsideInv
<1>3. CASE req[r].pc = "fComplete"
  <2>1. /\ Assemble(req[r])
        /\ UNCHANGED <<db, active, ids, sweep, crashes>>
        /\ UNCHANGED <<meta, index, initLock, chunkLock>>
    BY <1>3 DEF ReplyLost
  <2>2. Closed("completed") \in Multipart /\ req[r].parts \in Seq(Requests)
    BY <1>0 DEF Closed, Multipart, Handler
  <2>3. multipart' \in [Uploads -> Multipart] /\ object' \in [Uploads -> Seq(Requests)]
    BY <1>0, <2>1, <2>2 DEF Assemble, TypeInv, TypeOK
  <2>4. TypeInv'
    BY <1>0, <1>1, <2>1, <2>3 DEF TypeInv, TypeOK, ReqInv, db, ids
  <2>5. Outside(r)
    BY <1>1, <1>3, <2>1 DEF Outside, db
  <2> QED BY <2>4, <2>5, OutsideInv
<1>4. CASE req[r].pc = "fCommit"
  <2>1. /\ rows' = rows \cup {req[r].u} /\ userRow' = Free
        /\ UNCHANGED <<s3, active, ids, sweep, crashes>>
        /\ UNCHANGED <<meta, index, initLock, chunkLock>>
    BY <1>4 DEF ReplyLost
  <2>2. req[r].u \in Uploads
    BY <1>0, <1>4 DEF Shaped, PurgePcs
  <2>3. TypeInv'
    BY <1>0, <1>1, <2>1, <2>2 DEF TypeInv, TypeOK, ReqInv, s3, ids
  <2> QED BY <1>1, <1>4, <2>1, <2>3, CommitInv
<1>5. CASE req[r].pc = "iAdd"
  <2>1. /\ active' = active \cup {req[r].u}
        /\ UNCHANGED <<s3, db, ids, sweep, crashes>>
        /\ UNCHANGED <<meta, index, initLock, chunkLock>>
    BY <1>5 DEF ReplyLost
  <2>2. req[r].u \in Uploads
    BY <1>0, <1>5 DEF Shaped, PurgePcs
  <2>3. TypeInv'
    BY <1>0, <1>1, <2>1, <2>2 DEF TypeInv, TypeOK, ReqInv, s3, db, ids
  <2>4. Outside(r)
    BY <1>1, <1>5, <2>1 DEF Outside, db
  <2> QED BY <2>3, <2>4, OutsideInv
<1> QED
  BY <1>2, <1>3, <1>4, <1>5 DEF ReplyLost

\* IInv holds at first.
LEMMA InitInv == Init => IInv
<1> SUFFICES ASSUME Init PROVE IInv
  OBVIOUS
<1>1. NoMeta \in Meta /\ Closed("none") \in Multipart /\ <<>> \in Seq(Requests)
  BY DEF NoMeta, Meta, Closed, Multipart
<1>2. SweepIdle \in Sweep
  BY DEF SweepIdle, Sweep
<1>3. TypeInv
  BY <1>1, <1>2, IdleType DEF Init, TypeInv, TypeOK, Sweep
<1>4. RowLockInv
  BY IdleType, NullAssumption DEF Init, RowLockInv
<1>5. QuotaRespected
  BY TotalAssumption, SizeAssumption DEF Init, QuotaRespected
<1> QED BY <1>3, <1>4, <1>5 DEF IInv

\* Every step keeps IInv.
LEMMA NextInv == IInv /\ [Next]_vars => IInv'
<1> SUFFICES ASSUME IInv, [Next]_vars PROVE IInv'
  OBVIOUS
<1>0. TypeInv
  BY DEF IInv
<1>1. ASSUME NEW r \in Requests, Starts(r) PROVE IInv'
  BY <1>0, <1>1, StartSteps, OutsideInv
<1>2. ASSUME NEW r \in Requests, Steps(r) PROVE IInv'
  <2>1. CASE InitLock(r) \/ InitConflict(r) \/ CreateMultipart(r) \/ SetMeta(r)
             \/ SetIndex(r) \/ ReadActive(r) \/ ReadMetas(r) \/ Evict(r)
             \/ AddActive(r) \/ InitUnlock(r)
    BY <1>0, <2>1, InitSteps, OutsideInv
  <2>2. CASE ChunkRead(r) \/ ChunkTouch(r) \/ ChunkSend(r) \/ ChunkLand(r)
             \/ ChunkExists(r) \/ ChunkStore(r) \/ ChunkUnlock(r)
    BY <1>0, <2>2, ChunkSteps, OutsideInv
  <2>3. CASE Complete(r) \/ HeadObject(r) \/ LockUser(r) \/ SumRows(r) \/ CommitRow(r)
    BY <2>3, FinalizeSteps
  <2>4. CASE CallAbort(r) \/ CallDeleteObject(r) \/ CallDelMeta(r)
             \/ CallDelIndex(r) \/ CallRelease(r)
    BY <1>0, <2>4, CallSteps, OutsideInv
  <2>5. CASE DeleteObject(r) \/ DeleteRow(r) \/ DeleteObjects(r) \/ RemoveRows(r)
             \/ PurgeRows(r) \/ PurgeScan(r) \/ PurgeAborts(r) \/ PurgeKeys(r)
    BY <1>0, <2>5, DeletionSteps, OutsideInv
  <2> QED
    BY <1>2, <2>1, <2>2, <2>3, <2>4, <2>5 DEF Steps
<1>3. CASE Sweeps
  BY <1>0, <1>3, SweepSteps, ElsewhereInv
<1>4. CASE Fails
  <2>1. ASSUME NEW r \in Requests, CallFails(r) PROVE IInv'
    BY <1>0, <2>1, FailSteps, EndsInv
  <2>2. ASSUME NEW r \in Requests, ReplyLost(r) PROVE IInv'
    BY <2>2, ReplyLostStep
  <2>3. ASSUME NEW r \in Requests, Disconnect(r) PROVE IInv'
    BY <1>0, <2>3, FailSteps, ElsewhereInv
  <2>4. CASE Crash
    <3>1. /\ rows' = rows /\ userRow' = Free /\ TypeInv'
          /\ req' = [s \in Requests |-> Idle]
      BY <1>0, <2>4, CrashStep
    <3>2. RowLockInv'
      BY <3>1, IdleType, NullAssumption DEF RowLockInv
    <3> QED BY <3>1, <3>2 DEF IInv, QuotaRespected
  <2> QED
    BY <1>4, <2>1, <2>2, <2>3, <2>4 DEF Fails
<1>5. CASE Expires
  BY <1>0, <1>5, ExpirySteps, ElsewhereInv
<1>6. CASE UNCHANGED vars
  BY <1>6
     DEF vars, redis, s3, db, ids, IInv, TypeInv, TypeOK, RowLockInv,
         QuotaRespected
<1> QED
  BY <1>1, <1>2, <1>3, <1>4, <1>5, <1>6 DEF Next

\* IInv is an invariant of the upload protocol.
THEOREM Invariance == Spec => []IInv
  BY InitInv, NextInv, PTL DEF Spec

\* Every variable keeps its type, whatever handlers, faults and crashes do.
THEOREM TypeCorrect == Spec => []TypeOK
<1>1. IInv => TypeOK
  BY DEF IInv, TypeInv
<1> QED BY <1>1, Invariance, PTL

\* The row lock SELECT ... FOR UPDATE takes is held exactly by the open
\* transaction, and the sum that transaction has read stays an upper bound.
THEOREM RowLockHolds == Spec => []RowLockInv
<1>1. IInv => RowLockInv
  BY DEF IInv
<1> QED BY <1>1, Invariance, PTL

\* finalizeUpload never takes a user over the quota, for any number of
\* concurrent finalisations, deletions, crashes and lost answers.
THEOREM QuotaHolds == Spec => []QuotaRespected
<1>1. IInv => QuotaRespected
  BY DEF IInv
<1> QED BY <1>1, Invariance, PTL

\* The fields of a handler that starts, and of one that enters a cleanup script.
LEMMA AtIs ==
  ASSUME NEW pc, NEW u
  PROVE  /\ At(pc, u).pc = pc /\ At(pc, u).u = u /\ At(pc, u).v = NoUpload
         /\ At(pc, u).parts = <<>> /\ At(pc, u).todo = <<>>
         /\ At(pc, u).set = {} /\ At(pc, u).keys = {}
  BY DEF At, Idle
LEMMA CleanIs ==
  ASSUME NEW q, NEW pc, NEW calls
  PROVE  /\ Clean(q, pc, calls).pc = pc /\ Clean(q, pc, calls).u = q.u
         /\ Clean(q, pc, calls).v = q.u /\ Clean(q, pc, calls).todo = calls
         /\ Clean(q, pc, calls).set = {} /\ Clean(q, pc, calls).keys = {}
  BY DEF Clean, At, Idle

\* A handler goes from q to q2 and stays with its upload, within or outside
\* initializeUpload, or answers.
Follows(q, q2) ==
  \/ q2.u = NoUpload /\ q2.pc \notin InitPcs
  \/ /\ q2.u = q.u
     /\ q2.pc \in InitPcs <=> q.pc \in InitPcs
     /\ q2.pc \notin {"iLock", "iCreate", "iMeta"}

\* An exception keeps a handler with its upload.
LEMMA RaiseFollows ==
  ASSUME NEW q \in Handler
  PROVE  Follows(q, Raise(q))
<1>1. CASE q.pc \in {"iCreate", "iCatch"}
  <2>1. Raise(q) = At("iFail", q.u)
    BY <1>1 DEF Raise, ChunkPcs, FinalizePcs
  <2> QED BY <1>1, <2>1, AtIs DEF Follows, InitPcs
<1>2. CASE q.pc \in {"iMeta", "iIndex", "iMembers", "iMetas", "iEvict", "iAdd"}
  <2>1. \/ Raise(q) = Clean(q, "iCatch", <<"tryAbort", "index">>)
        \/ Raise(q) = Clean(q, "iCatch", <<"tryAbort", "meta", "index">>)
    BY <1>2 DEF Raise, ChunkPcs, FinalizePcs
  <2> QED BY <1>2, <2>1, CleanIs DEF Follows, InitPcs
<1>3. CASE q.pc \in ChunkPcs \ {"cUnlock"}
  <2>1. Raise(q) = At("cUnlock", q.u)
    BY <1>3 DEF Raise, ChunkPcs, FinalizePcs
  <2> QED BY <1>3, <2>1, AtIs DEF Follows, InitPcs, ChunkPcs
<1>4. CASE q.pc \in FinalizePcs \ {"fCatch"}
  <2>1. \/ Raise(q) = Clean(q, "fCatch", <<"tryAbort">> \o FinalizeCalls)
        \/ Raise(q) = Clean(q, "fCatch", <<"object">> \o FinalizeCalls)
    BY <1>4 DEF Raise, ChunkPcs, FinalizePcs
  <2> QED BY <1>4, <2>1, CleanIs DEF Follows, InitPcs, FinalizePcs
<1>5. CASE q.pc \in {"idle", "kClean", "iLock", "iUnlock", "iFail", "cUnlock",
                     "fCatch"} \cup DeletePcs \cup PurgePcs
  <2>1. Raise(q) = Idle
    BY <1>5 DEF Raise, DeletePcs, PurgePcs, ChunkPcs, FinalizePcs
  <2> QED BY <2>1 DEF Follows, Idle, InitPcs
<1> QED
  BY <1>1, <1>2, <1>3, <1>4, <1>5
     DEF Handler, Pcs, InitPcs, ChunkPcs, FinalizePcs, DeletePcs, PurgePcs

\* So does the return of a cleanup call.
LEMMA ContinueFollows ==
  ASSUME NEW q \in Handler, Shaped(q), q.todo # <<>>
  PROVE  Follows(q, Continue(q))
<1>1. CASE Len(q.todo) > 1
  <2>1. Continue(q) = [q EXCEPT !.todo = Tail(q.todo)]
    BY <1>1 DEF Continue
  <2>2. Continue(q).pc = q.pc /\ Continue(q).u = q.u
    BY <2>1 DEF Handler
  <2> QED BY <2>2 DEF Follows, Shaped
<1>2. CASE Len(q.todo) <= 1 /\ q.pc = "iEvict"
  <2> DEFINE next == IF q.set = {} THEN "iAdd" ELSE "iEvict"
  <2>1. Continue(q) = [q EXCEPT !.todo = <<>>, !.v = NoUpload, !.pc = next]
    BY <1>2 DEF Continue, Handler
  <2>2. next \in {"iAdd", "iEvict"}
    OBVIOUS
  <2> HIDE DEF next
  <2>3. Continue(q).pc = next /\ Continue(q).u = q.u
    BY <2>1 DEF Handler
  <2> QED BY <1>2, <2>2, <2>3 DEF Follows, InitPcs
<1>3. CASE Len(q.todo) <= 1 /\ q.pc = "iCatch"
  <2>1. Continue(q) = At("iFail", q.u)
    BY <1>3 DEF Continue, Handler
  <2> QED BY <1>3, <2>1, AtIs DEF Follows, InitPcs
<1>4. CASE Len(q.todo) <= 1 /\ q.pc = "cCatch"
  <2>1. Continue(q) = At("cUnlock", q.u)
    BY <1>4 DEF Continue, Handler
  <2> QED BY <1>4, <2>1, AtIs DEF Follows, InitPcs
<1>5. CASE Len(q.todo) <= 1 /\ q.pc \in {"fClean", "fCatch", "kClean"}
  <2>1. Continue(q) = Idle
    BY <1>5 DEF Continue, Handler
  <2> QED BY <2>1 DEF Follows, Idle, InitPcs
<1> QED
  <2>1. Len(q.todo) \in Nat BY DEF Handler
  <2> QED BY <2>1, <1>1, <1>2, <1>3, <1>4, <1>5 DEF Shaped

\* Every handler stays with its upload: so does an exception, a return, an
\* answer, a goto.
LEMMA ThrowFollows ==
  ASSUME ReqInv, NEW r \in Requests, Throw(r)
  PROVE  Only(r) /\ req'[r] = Raise(req[r]) /\ Follows(req[r], req'[r])
  BY RaiseFollows DEF Throw, ReqInv, Only
LEMMA ReturnsFollows ==
  ASSUME ReqInv, NEW r \in Requests, Returns(r), req[r].todo # <<>>
  PROVE  Only(r) /\ req'[r] = Continue(req[r]) /\ Follows(req[r], req'[r])
  BY ContinueFollows DEF Returns, ReqInv, Only
LEMMA FinishFollows ==
  ASSUME ReqInv, NEW r \in Requests, Finish(r)
  PROVE  Only(r) /\ req'[r] = Idle /\ Follows(req[r], req'[r])
<1>1. Only(r) /\ req'[r] = Idle
  BY DEF Finish, ReqInv, Only
<1>2. Idle.u = NoUpload /\ Idle.pc \notin InitPcs
  BY DEF Idle, InitPcs
<1> QED BY <1>1, <1>2 DEF Follows

\* A goto changes the program counter and nothing else.
Same(q, q2) ==
  /\ q2.u = q.u /\ q2.v = q.v /\ q2.parts = q.parts /\ q2.todo = q.todo
  /\ q2.sum = q.sum /\ q2.set = q.set /\ q2.keys = q.keys
LEMMA GotoMoves ==
  ASSUME ReqInv, NEW r \in Requests, NEW from, NEW to, Goto(r, from, to)
  PROVE  Only(r) /\ req[r].pc = from /\ req'[r].pc = to /\ Same(req[r], req'[r])
<1>1. req[r] \in Handler
  BY DEF ReqInv
<1>2. req[r].pc = from /\ req' = [req EXCEPT ![r] = [req[r] EXCEPT !.pc = to]]
  BY DEF Goto, ReqInv
<1>3. req'[r] = [req[r] EXCEPT !.pc = to] /\ Only(r)
  BY <1>2 DEF ReqInv, Only
<1> QED BY <1>1, <1>2, <1>3 DEF Same, Handler

-----------------------------------------------------------------------------
(* Upload ids *)

\* An id is known, and then issued once, by the initialisation that drew it;
\* until it is issued nobody else works with it, and what is stored or done
\* after initializeUpload concerns issued ids.
IdsInv ==
  /\ issued \subseteq known
  /\ rows \subseteq issued
  /\ \A u \in Uploads : object[u] # <<>> => u \in issued
  /\ \A u \in Uploads \ known : multipart[u].state = "none" /\ ~meta[u].live
  /\ \A r \in Requests : req[r].u # NoUpload => req[r].u \in known
  /\ \A r \in Requests : req[r].pc \in InitPcs => req[r].u \notin issued
  /\ \A r \in Requests :
       req[r].pc \notin InitPcs /\ req[r].u # NoUpload => req[r].u \in issued
  /\ \A r, s \in Requests :
       r # s /\ req[r].pc \in InitPcs /\ req[s].pc \in InitPcs => req[r].u # req[s].u
  /\ \A r \in Requests :
       req[r].pc \in {"iLock", "iCreate"} => multipart[req[r].u].state = "none"
  /\ \A r \in Requests :
       req[r].pc \in {"iLock", "iCreate", "iMeta"} => ~meta[req[r].u].live

\* What a step of a handler beyond initializeUpload's first awaits does to the
\* stores, as far as ids are concerned.
Ordinary ==
  /\ known' = known /\ issued' = issued
  /\ rows' \subseteq issued
  /\ \A u \in Uploads : object'[u] \in {object[u], <<>>} \/ u \in issued
  /\ \A u \in Uploads : multipart'[u].state = "none" <=> multipart[u].state = "none"
  /\ \A u \in Uploads : meta'[u].live => meta[u].live \/ u \in issued

\* A handler in initializeUpload has an upload.
LEMMA InitHasUpload ==
  ASSUME TypeInv, NEW r \in Requests, req[r].pc \in InitPcs
  PROVE  req[r].u \in Uploads /\ req[r].u # NoUpload
  BY NullAssumption DEF TypeInv, Shaped, InitPcs, PurgePcs

\* An ordinary step of a handler that stays with its upload keeps IdsInv.
LEMMA IdsFrame ==
  ASSUME TypeInv, IdsInv, NEW r \in Requests, Only(r), Follows(req[r], req'[r]), Ordinary
  PROVE  IdsInv'
<1>1. \A s \in Requests : s # r => req'[s] = req[s]
  BY DEF Only
<1>2. \A s \in Requests : req'[s].pc \in InitPcs => req[s].pc \in InitPcs /\ req'[s].u = req[s].u
  BY <1>1 DEF Follows
<1>3. \A s \in Requests : req'[s].u # NoUpload =>
        req'[s].u = req[s].u /\ (req'[s].pc \in InitPcs <=> req[s].pc \in InitPcs)
  BY <1>1 DEF Follows
<1>4. \A s \in Requests : req'[s].pc \in {"iLock", "iCreate", "iMeta"} => req'[s] = req[s]
  BY <1>1 DEF Follows, InitPcs
<1>5. \A s \in Requests : req[s].pc \in InitPcs => req[s].u \in Uploads
  BY InitHasUpload
<1>6. /\ (issued \subseteq known)' /\ (rows \subseteq issued)'
      /\ (\A u \in Uploads : object[u] # <<>> => u \in issued)'
  BY DEF IdsInv, Ordinary
<1>7. (\A u \in Uploads \ known : multipart[u].state = "none" /\ ~meta[u].live)'
  BY DEF IdsInv, Ordinary
<1>8. (\A s \in Requests : req[s].u # NoUpload => req[s].u \in known)'
  BY <1>3 DEF IdsInv, Ordinary
<1>9. (\A s \in Requests : req[s].pc \in InitPcs => req[s].u \notin issued)'
  BY <1>2 DEF IdsInv, Ordinary
<1>10. (\A s \in Requests :
         req[s].pc \notin InitPcs /\ req[s].u # NoUpload => req[s].u \in issued)'
  BY <1>3 DEF IdsInv, Ordinary
<1>11. (\A s, t \in Requests :
         s # t /\ req[s].pc \in InitPcs /\ req[t].pc \in InitPcs => req[s].u # req[t].u)'
  BY <1>2 DEF IdsInv
<1>12. (\A s \in Requests :
         req[s].pc \in {"iLock", "iCreate"} => multipart[req[s].u].state = "none")'
  BY <1>4, <1>5 DEF IdsInv, Ordinary, InitPcs
<1>13. (\A s \in Requests :
         req[s].pc \in {"iLock", "iCreate", "iMeta"} => ~meta[req[s].u].live)'
  BY <1>4, <1>5 DEF IdsInv, Ordinary, InitPcs
<1> QED
  BY <1>6, <1>7, <1>8, <1>9, <1>10, <1>11, <1>12, <1>13 DEF IdsInv

\* A handler that works for an upload after initializeUpload has an issued one.
LEMMA WorksForIssued ==
  ASSUME TypeInv, IdsInv, NEW r \in Requests,
         req[r].pc \in ChunkPcs \cup FinalizePcs \cup DeletePcs \cup {"kClean"}
  PROVE  req[r].u \in Uploads /\ req[r].u \in issued
<1>1. req[r].u \in Uploads
  BY DEF TypeInv, Shaped, ChunkPcs, FinalizePcs, DeletePcs, PurgePcs
<1>2. req[r].pc \notin InitPcs
  BY DEF InitPcs, ChunkPcs, FinalizePcs, DeletePcs
<1> QED BY <1>1, <1>2 DEF IdsInv

\* Within initializeUpload.
LEMMA InitOrdinary ==
  ASSUME TypeInv, IdsInv, NEW r \in Requests,
         SetIndex(r) \/ ReadActive(r) \/ ReadMetas(r) \/ Evict(r) \/ AddActive(r)
  PROVE  Only(r) /\ Follows(req[r], req'[r]) /\ Ordinary
<1>0. ReqInv /\ req[r] \in Handler /\ req \in [Requests -> Handler]
  BY ReqTyped DEF ReqInv
<1>1. UNCHANGED <<meta, multipart, object, rows, ids>>
  BY DEF SetIndex, ReadActive, ReadMetas, Evict, AddActive, redis, s3, db
<1>2. Ordinary
  BY <1>1 DEF Ordinary, ids, IdsInv
<1>3. CASE SetIndex(r) \/ AddActive(r)
  BY <1>0, <1>2, <1>3, GotoMoves DEF SetIndex, AddActive, Follows, Same, InitPcs
<1>4. CASE ReadActive(r)
  <2>1. Only(r) /\ req'[r].u = req[r].u /\ req'[r].pc \in {"iAdd", "iMetas"}
    BY <1>0, <1>4 DEF ReadActive, Handler, Only
  <2> QED BY <1>2, <1>4, <2>1 DEF ReadActive, Follows, InitPcs
<1>5. CASE ReadMetas(r)
  <2>1. PICK victims : req' = [req EXCEPT ![r].set = victims,
                          ![r].pc = IF victims = {} THEN "iAdd" ELSE "iEvict"]
    BY <1>5 DEF ReadMetas
  <2>2. Only(r) /\ req'[r].u = req[r].u /\ req'[r].pc \in {"iAdd", "iEvict"}
    BY <1>0, <2>1 DEF Handler, Only
  <2> QED BY <1>2, <1>5, <2>2 DEF ReadMetas, Follows, InitPcs
<1>6. CASE Evict(r)
  <2>1. PICK v : req' = [req EXCEPT ![r].v = v, ![r].todo = CancelCalls,
                                    ![r].set = @ \ {v}]
    BY <1>6 DEF Evict
  <2>2. Only(r) /\ req'[r].u = req[r].u /\ req'[r].pc = req[r].pc
    BY <1>0, <2>1 DEF Handler, Only
  <2> QED BY <1>2, <1>6, <2>2 DEF Evict, Follows, InitPcs
<1> QED BY <1>3, <1>4, <1>5, <1>6

\* Within handleChunk.
LEMMA ChunkOrdinary ==
  ASSUME TypeInv, IdsInv, NEW r \in Requests,
         \/ ChunkRead(r) \/ ChunkTouch(r) \/ ChunkSend(r) \/ ChunkLand(r)
         \/ ChunkExists(r) \/ ChunkStore(r) \/ ChunkUnlock(r)
  PROVE  Only(r) /\ Follows(req[r], req'[r]) /\ Ordinary
<1>0. ReqInv /\ req[r] \in Handler /\ req \in [Requests -> Handler]
  BY ReqTyped DEF ReqInv
<1>1. req[r].pc \in ChunkPcs \ {"cCatch"}
  BY DEF ChunkRead, ChunkTouch, ChunkSend, ChunkLand, ChunkExists, ChunkStore,
         ChunkUnlock, Goto, ChunkPcs
<1>2. req[r].u \in Uploads /\ req[r].u \in issued
  BY <1>1, WorksForIssued
<1>3. Only(r) /\ Follows(req[r], req'[r])
  <2>1. CASE Throw(r)
    BY <1>0, <2>1, ThrowFollows
  <2>2. CASE \E to \in {"cSend", "cLand", "cExists"} : Goto(r, req[r].pc, to)
    <3>1. PICK to \in {"cSend", "cLand", "cExists"} : Goto(r, req[r].pc, to)
      BY <2>2
    <3> QED BY <1>0, <1>1, <3>1, GotoMoves DEF Follows, Same, InitPcs, ChunkPcs
  <2>3. CASE ChunkRead(r) /\ ~Throw(r)
    <3>1. req' = [req EXCEPT ![r].pc = "cTouch", ![r].parts = meta[req[r].u].parts]
      BY <2>3 DEF ChunkRead
    <3>2. Only(r) /\ req'[r].u = req[r].u /\ req'[r].pc = "cTouch"
      BY <1>0, <3>1 DEF Handler, Only
    <3> QED BY <1>1, <3>2 DEF Follows, InitPcs, ChunkPcs
  <2>4. CASE ChunkExists(r)
    <3>1. req' = [req EXCEPT ![r] =
             IF meta[req[r].u].live THEN [req[r] EXCEPT !.pc = "cStore"]
                                    ELSE Clean(req[r], "cCatch", <<"tryAbort">>)]
      BY <1>0, <2>4 DEF ChunkExists
    <3>2. Only(r) /\ req'[r] \in {[req[r] EXCEPT !.pc = "cStore"],
                                  Clean(req[r], "cCatch", <<"tryAbort">>)}
      BY <1>0, <3>1 DEF Only
    <3>3. req'[r].u = req[r].u /\ req'[r].pc \in {"cStore", "cCatch"}
      BY <1>0, <3>2, CleanIs DEF Handler
    <3> QED BY <1>1, <3>2, <3>3 DEF Follows, InitPcs, ChunkPcs
  <2>5. CASE ChunkStore(r)
    <3>1. Only(r) /\ req'[r] = At("cUnlock", req[r].u)
      BY <1>0, <2>5 DEF ChunkStore, Only
    <3>2. req'[r].u = req[r].u /\ req'[r].pc = "cUnlock"
      BY <3>1, AtIs
    <3> QED BY <1>1, <3>1, <3>2 DEF Follows, InitPcs, ChunkPcs
  <2>6. CASE ChunkUnlock(r)
    BY <1>0, <2>6, FinishFollows DEF ChunkUnlock
  <2> QED
    BY <2>1, <2>2, <2>3, <2>4, <2>5, <2>6
       DEF ChunkRead, ChunkTouch, ChunkSend, ChunkLand, Goto
<1>4. /\ UNCHANGED <<object, rows, ids>>
      /\ UNCHANGED meta \/ \E parts : meta' = [meta EXCEPT ![req[r].u] = MetaWith(parts)]
  BY DEF ChunkRead, ChunkTouch, ChunkSend, ChunkLand, ChunkExists, ChunkStore,
         ChunkUnlock, redis, s3, db
<1>5. \A u \in Uploads : meta'[u].live => meta[u].live \/ u \in issued
  BY <1>2, <1>4 DEF TypeInv, TypeOK
<1>6. \A u \in Uploads : multipart'[u].state = multipart[u].state
  <2>1. CASE UNCHANGED multipart
    BY <2>1
  <2>2. CASE ~UNCHANGED multipart
    <3> DEFINE m == multipart[req[r].u]
               parts == {p \in m.parts : p[1] # Len(req[r].parts) + 1}
                          \cup {<<Len(req[r].parts) + 1, r>>}
    <3>1. multipart' = [multipart EXCEPT ![req[r].u] =
             [m EXCEPT !.recent = TRUE, !.parts = parts]]
      BY <2>2 DEF ChunkRead, ChunkTouch, ChunkSend, ChunkLand, ChunkExists,
                  ChunkStore, ChunkUnlock, s3
    <3> HIDE DEF parts
    <3>2. multipart \in [Uploads -> Multipart]
      BY DEF TypeInv, TypeOK
    <3> QED BY <1>2, <3>1, <3>2 DEF Multipart
  <2> QED BY <2>1, <2>2
<1> QED BY <1>3, <1>4, <1>5, <1>6 DEF Ordinary, ids, IdsInv

\* Within finalizeUpload.
LEMMA FinalizeOrdinary ==
  ASSUME TypeInv, IdsInv, NEW r \in Requests,
         Complete(r) \/ HeadObject(r) \/ LockUser(r) \/ SumRows(r) \/ CommitRow(r)
  PROVE  Only(r) /\ Follows(req[r], req'[r]) /\ Ordinary
<1>0. ReqInv /\ req[r] \in Handler /\ req \in [Requests -> Handler]
  BY ReqTyped DEF ReqInv
<1>1. req[r].pc \in FinalizePcs \ {"fClean", "fCatch"}
  BY DEF Complete, HeadObject, LockUser, SumRows, CommitRow, Goto, Throw, FinalizePcs
<1>2. req[r].u \in Uploads /\ req[r].u \in issued
  BY <1>1, WorksForIssued
<1>3. Only(r) /\ Follows(req[r], req'[r])
  <2>1. CASE Throw(r)
    BY <1>0, <2>1, ThrowFollows
  <2>2. CASE \E to \in {"fHead", "fLock", "fSum"} : Goto(r, req[r].pc, to)
    <3>1. PICK to \in {"fHead", "fLock", "fSum"} : Goto(r, req[r].pc, to)
      BY <2>2
    <3> QED BY <1>0, <1>1, <3>1, GotoMoves DEF Follows, Same, InitPcs, FinalizePcs
  <2>3. CASE SumRows(r) /\ ~Throw(r)
    <3>1. req' = [req EXCEPT ![r].pc = "fCommit", ![r].sum = Total[rows]]
      BY <2>3 DEF SumRows
    <3>2. Only(r) /\ req'[r].u = req[r].u /\ req'[r].pc = "fCommit"
      BY <1>0, <3>1 DEF Handler, Only
    <3> QED BY <1>1, <3>2 DEF Follows, InitPcs, FinalizePcs
  <2>4. CASE CommitRow(r)
    <3>1. Only(r) /\ req'[r] = Clean(req[r], "fClean", FinalizeCalls)
      BY <1>0, <2>4 DEF CommitRow, Only
    <3>2. req'[r].u = req[r].u /\ req'[r].pc = "fClean"
      BY <3>1, CleanIs
    <3> QED BY <1>1, <3>1, <3>2 DEF Follows, InitPcs, FinalizePcs
  <2> QED
    BY <2>1, <2>2, <2>3, <2>4 DEF Complete, HeadObject, LockUser, SumRows, Goto
<1>4. UNCHANGED <<meta, ids>> /\ rows' \subseteq rows \cup {req[r].u}
  BY DEF Complete, HeadObject, LockUser, SumRows, CommitRow, redis, db
<1>5. UNCHANGED s3 \/ (Completes(req[r]) /\ Assemble(req[r]))
  BY DEF Complete, HeadObject, LockUser, SumRows, CommitRow
<1>6. \A u \in Uploads : object'[u] \in {object[u], <<>>} \/ u \in issued
  BY <1>2, <1>5 DEF Assemble, s3, TypeInv, TypeOK
<1>7. \A u \in Uploads : multipart'[u].state = "none" <=> multipart[u].state = "none"
  <2>1. CASE UNCHANGED multipart
    BY <2>1
  <2>2. CASE ~UNCHANGED multipart
    <3>1. /\ multipart[req[r].u].state = "open"
          /\ multipart' = [multipart EXCEPT ![req[r].u] = Closed("completed")]
      BY <1>5, <2>2 DEF Completes, Assemble, s3
    <3> QED BY <3>1 DEF Closed, TypeInv, TypeOK
  <2> QED BY <2>1, <2>2
<1> QED BY <1>2, <1>3, <1>4, <1>6, <1>7 DEF Ordinary, ids, IdsInv

\* The cleanup calls.
LEMMA CallOrdinary ==
  ASSUME TypeInv, IdsInv, NEW r \in Requests,
         \/ CallAbort(r) \/ CallDeleteObject(r) \/ CallDelMeta(r) \/ CallDelIndex(r)
         \/ CallRelease(r)
  PROVE  Only(r) /\ Follows(req[r], req'[r]) /\ Ordinary
<1>0. ReqInv /\ req[r].todo # <<>>
  BY ReqTyped DEF CallAbort, CallDeleteObject, CallDelMeta, CallDelIndex, CallRelease,
                  Calling
<1>1. Throw(r) \/ Returns(r)
  BY DEF CallAbort, CallDeleteObject, CallDelMeta, CallDelIndex, CallRelease
<1>2. Only(r) /\ Follows(req[r], req'[r])
  BY <1>0, <1>1, ThrowFollows, ReturnsFollows
<1>3. UNCHANGED <<rows, ids>>
  BY DEF CallAbort, CallDeleteObject, CallDelMeta, CallDelIndex, CallRelease, db
<1>4. \A u \in Uploads : object'[u] \in {object[u], <<>>}
  BY DEF CallAbort, CallDeleteObject, CallDelMeta, CallDelIndex, CallRelease, s3,
         TypeInv, TypeOK
<1>5. \A u \in Uploads : multipart'[u].state = "none" <=> multipart[u].state = "none"
  <2>1. CASE UNCHANGED multipart
    BY <2>1
  <2>2. CASE ~UNCHANGED multipart
    <3>1. /\ Listed(req[r].v)
          /\ multipart' = [multipart EXCEPT ![req[r].v] = Closed("aborted")]
      BY <2>2 DEF CallAbort, CallDeleteObject, CallDelMeta, CallDelIndex,
                  CallRelease, s3
    <3> QED BY <3>1 DEF Listed, Closed, TypeInv, TypeOK
  <2> QED BY <2>1, <2>2
<1>6. \A u \in Uploads : meta'[u].live => meta[u].live
  <2>1. UNCHANGED meta \/ meta' = [meta EXCEPT ![req[r].v] = NoMeta]
    BY DEF CallAbort, CallDeleteObject, CallDelMeta, CallDelIndex, CallRelease, redis
  <2>2. ~NoMeta.live
    BY DEF NoMeta
  <2>3. \A u \in Uploads : meta'[u] \in {meta[u], NoMeta}
    BY <2>1 DEF TypeInv, TypeOK
  <2> QED BY <2>2, <2>3
<1> QED BY <1>2, <1>3, <1>4, <1>5, <1>6 DEF Ordinary, ids, IdsInv

\* The deletions of files.
LEMMA DeletionOrdinary ==
  ASSUME TypeInv, IdsInv, NEW r \in Requests,
         \/ DeleteObject(r) \/ DeleteRow(r) \/ DeleteObjects(r) \/ RemoveRows(r)
         \/ PurgeRows(r) \/ PurgeScan(r) \/ PurgeAborts(r) \/ PurgeKeys(r)
  PROVE  Only(r) /\ Follows(req[r], req'[r]) /\ Ordinary
<1>0. ReqInv /\ req[r] \in Handler /\ req \in [Requests -> Handler]
  BY ReqTyped DEF ReqInv
<1>1. CASE DeleteRow(r) \/ RemoveRows(r) \/ PurgeKeys(r)
  <2>1. Only(r) /\ Follows(req[r], req'[r])
    BY <1>0, <1>1, FinishFollows DEF DeleteRow, RemoveRows, PurgeKeys
  <2>2. /\ UNCHANGED <<object, multipart, ids>> /\ rows' \subseteq rows
        /\ \A u \in Uploads : meta'[u].live => meta[u].live
    BY <1>1 DEF DeleteRow, RemoveRows, PurgeKeys, s3, db, redis, NoMeta
  <2> QED BY <2>1, <2>2 DEF Ordinary, ids, IdsInv
<1>2. CASE DeleteObject(r)
  <2>1. Only(r) /\ Follows(req[r], req'[r])
    BY <1>0, <1>2, GotoMoves DEF DeleteObject, Follows, Same, InitPcs
  <2>2. /\ UNCHANGED <<meta, multipart, rows, ids>>
        /\ \A u \in Uploads : object'[u] \in {object[u], <<>>}
    BY <1>2 DEF DeleteObject, redis, db, TypeInv, TypeOK
  <2> QED BY <2>1, <2>2 DEF Ordinary, ids, IdsInv
<1>3. CASE PurgeRows(r) \/ PurgeScan(r)
  <2>1. Only(r) /\ req'[r].u = req[r].u /\ req'[r].pc \in PurgePcs /\ req[r].pc \in PurgePcs
    <3>1. CASE PurgeRows(r)
      BY <1>0, <3>1 DEF PurgeRows, Handler, Only, PurgePcs
    <3>2. CASE PurgeScan(r)
      <4> DEFINE live == {u \in Uploads : meta[u].live}
      <4>1. /\ req[r].pc = "pScan"
            /\ req' = [req EXCEPT ![r].pc = "pAborts", ![r].set = live,
                                  ![r].keys = active \cup live]
        BY <3>2 DEF PurgeScan
      <4> HIDE DEF live
      <4> QED BY <1>0, <4>1 DEF Handler, Only, PurgePcs
    <3> QED BY <1>3, <3>1, <3>2
  <2>2. Follows(req[r], req'[r])
    BY <2>1 DEF Follows, InitPcs, PurgePcs
  <2>3. UNCHANGED <<meta, object, multipart, ids>> /\ rows' \subseteq rows
    BY <1>3 DEF PurgeRows, PurgeScan, redis, s3, db
  <2> QED BY <2>1, <2>2, <2>3 DEF Ordinary, ids, IdsInv
<1>4. CASE DeleteObjects(r) \/ PurgeAborts(r)
  <2>1. PICK u \in req[r].set :
          /\ req' = [req EXCEPT ![r].set = @ \ {u}]
          /\ \/ UNCHANGED <<multipart, object>>
             \/ object' = [object EXCEPT ![u] = <<>>] /\ UNCHANGED multipart
             \/ /\ Listed(u) /\ UNCHANGED object
                /\ multipart' = [multipart EXCEPT ![u] = Closed("aborted")]
    BY <1>4 DEF DeleteObjects, PurgeAborts
  <2>2. Only(r) /\ req'[r].u = req[r].u /\ req'[r].pc = req[r].pc /\ req[r].pc \in PurgePcs
    BY <1>0, <1>4, <2>1 DEF DeleteObjects, PurgeAborts, Handler, Only, PurgePcs
  <2>3. Follows(req[r], req'[r])
    BY <2>2 DEF Follows, InitPcs, PurgePcs
  <2>4. UNCHANGED <<meta, rows, ids>>
    BY <1>4 DEF DeleteObjects, PurgeAborts, redis, db
  <2>5. \A w \in Uploads : object'[w] \in {object[w], <<>>}
    BY <2>1 DEF TypeInv, TypeOK
  <2>6. \A w \in Uploads : multipart'[w].state = "none" <=> multipart[w].state = "none"
    BY <2>1 DEF Listed, Closed, TypeInv, TypeOK
  <2> QED BY <2>2, <2>3, <2>4, <2>5, <2>6 DEF Ordinary, ids, IdsInv
<1> QED BY <1>1, <1>2, <1>3, <1>4

\* The steps of initializeUpload that draw, release or issue an id, or store
\* something under it.
LEMMA InitIds ==
  ASSUME TypeInv, IdsInv, NEW r \in Requests,
         \/ InitLock(r) \/ InitConflict(r) \/ CreateMultipart(r) \/ SetMeta(r)
         \/ InitUnlock(r)
  PROVE  IdsInv'
<1> DEFINE u == req[r].u
<1>0. ReqInv /\ req[r] \in Handler /\ req \in [Requests -> Handler]
  BY ReqTyped DEF ReqInv
<1>1. u \in Uploads /\ u # NoUpload /\ req[r].pc \in InitPcs
  BY InitHasUpload
     DEF InitLock, InitConflict, CreateMultipart, SetMeta, InitUnlock, Goto, InitPcs
<1>2. \A s \in Requests : s # r => req[s].u # u
  BY <1>1 DEF IdsInv
<1>3. Only(r)
  BY <1>0, GotoMoves, FinishFollows
     DEF InitLock, InitConflict, CreateMultipart, SetMeta, InitUnlock
<1>4. \A s \in Requests : s # r => req'[s] = req[s]
  BY <1>3 DEF Only
<1>5. CASE InitLock(r)
  <2>1. req'[r].pc = "iCreate" /\ req'[r].u = u /\ req[r].pc = "iLock"
    BY <1>0, <1>5, GotoMoves DEF InitLock, Same
  <2>2. UNCHANGED <<meta, s3, rows, ids>>
    BY <1>5 DEF InitLock, db
  <2> QED BY <1>4, <2>1, <2>2 DEF IdsInv, s3, ids, InitPcs
<1>6. CASE InitConflict(r)
  <2>1. req[r].pc = "iLock" /\ req'[r] = Idle
    BY <1>0, <1>6, FinishFollows DEF InitConflict
  <2>2. UNCHANGED <<meta, multipart, object, rows, issued>> /\ known' = known \ {u}
    BY <1>6 DEF InitConflict, redis, s3, db
  <2>3. u \notin issued /\ multipart[u].state = "none" /\ ~meta[u].live
    BY <2>1 DEF IdsInv, InitPcs
  <2>4. Idle.u = NoUpload /\ Idle.pc \notin InitPcs
    BY DEF Idle, InitPcs
  <2> QED BY <1>2, <1>4, <2>1, <2>2, <2>3, <2>4 DEF IdsInv, InitPcs
<1>7. CASE CreateMultipart(r)
  <2>1. req'[r].pc = "iMeta" /\ req'[r].u = u /\ req[r].pc = "iCreate"
    BY <1>0, <1>7, GotoMoves DEF CreateMultipart, Same
  <2>2. /\ UNCHANGED <<meta, object, rows, ids>>
        /\ \A w \in Uploads \ {u} : multipart'[w] = multipart[w]
    BY <1>7 DEF CreateMultipart, redis, db, TypeInv, TypeOK
  <2>3. u \in known /\ \A s \in Requests : req[s].pc \in InitPcs => req[s].u \in Uploads
    BY <1>1, InitHasUpload DEF IdsInv
  <2> QED BY <1>2, <1>4, <2>1, <2>2, <2>3 DEF IdsInv, ids, InitPcs
<1>8. CASE SetMeta(r)
  <2>1. req'[r].pc = "iIndex" /\ req'[r].u = u /\ req[r].pc = "iMeta"
    BY <1>0, <1>8, GotoMoves DEF SetMeta, Same
  <2>2. /\ UNCHANGED <<multipart, object, rows, ids>>
        /\ \A w \in Uploads \ {u} : meta'[w] = meta[w]
    BY <1>8 DEF SetMeta, s3, db, TypeInv, TypeOK
  <2>3. u \in known /\ \A s \in Requests : req[s].pc \in InitPcs => req[s].u \in Uploads
    BY <1>1, InitHasUpload DEF IdsInv
  <2> QED BY <1>2, <1>4, <2>1, <2>2, <2>3 DEF IdsInv, ids, InitPcs
<1>9. CASE InitUnlock(r)
  <2>1. req'[r] = Idle
    BY <1>0, <1>9, FinishFollows DEF InitUnlock
  <2>2. /\ UNCHANGED <<meta, multipart, object, rows, known>>
        /\ issued' \in {issued, issued \cup {u}}
    BY <1>9 DEF InitUnlock, s3, db
  <2>3. u \in known
    BY <1>1 DEF IdsInv
  <2>4. Idle.u = NoUpload /\ Idle.pc \notin InitPcs
    BY DEF Idle, InitPcs
  <2> QED BY <1>2, <1>4, <2>1, <2>2, <2>3, <2>4 DEF IdsInv, InitPcs
<1> QED BY <1>5, <1>6, <1>7, <1>8, <1>9

\* A request starts with a new id or with an issued one.
LEMMA StartIds ==
  ASSUME TypeInv, IdsInv, NEW r \in Requests, Starts(r)
  PROVE  IdsInv'
<1>0. ReqInv /\ req[r] \in Handler /\ req \in [Requests -> Handler]
  BY ReqTyped DEF ReqInv
<1>1. ASSUME NEW u \in Uploads, InitCheck(r, u)
      PROVE  IdsInv'
  <2>1. Only(r) /\ req'[r].pc = "iLock" /\ req'[r].u = u
    BY <1>0, <1>1, AtIs DEF InitCheck, Only
  <2>2. \A s \in Requests : s # r => req'[s] = req[s]
    BY <2>1 DEF Only
  <2>3. /\ UNCHANGED <<meta, multipart, object, rows, issued>>
        /\ u \notin known /\ known' = known \cup {u}
    BY <1>1 DEF InitCheck, redis, s3, db
  <2>4. \A s \in Requests : req[s].u # u
    BY <2>3 DEF IdsInv
  <2>5. u \notin issued /\ multipart[u].state = "none" /\ ~meta[u].live
    BY <2>3 DEF IdsInv
  <2> QED BY <2>1, <2>2, <2>3, <2>4, <2>5 DEF IdsInv, InitPcs
<1>2. ASSUME /\ Only(r) /\ req'[r].pc \notin InitPcs
             /\ req'[r].u = NoUpload \/ req'[r].u \in issued
             /\ UNCHANGED <<meta, multipart, object, rows, ids>>
      PROVE  IdsInv'
  <2>1. \A s \in Requests : s # r => req'[s] = req[s]
    BY <1>2 DEF Only
  <2>2. {"iLock", "iCreate", "iMeta"} \subseteq InitPcs
    BY DEF InitPcs
  <2> QED BY <1>2, <2>1, <2>2 DEF IdsInv, ids
<1>3. ASSUME NEW u \in Uploads,
             ChunkLock(r, u) \/ FinalizeStart(r, u) \/ CancelStart(r, u) \/ DeleteStart(r, u)
      PROVE  IdsInv'
  <2>1. u \in issued /\ UNCHANGED <<meta, multipart, object, rows, ids>>
    BY <1>3 DEF ChunkLock, FinalizeStart, CancelStart, DeleteStart, redis, s3, db, IdsInv
  <2>2. Only(r) /\ req'[r].pc \notin InitPcs /\ req'[r].u = u
    <3>1. CASE ChunkLock(r, u)
      BY <1>0, <3>1, AtIs DEF ChunkLock, Only, InitPcs
    <3>2. CASE FinalizeStart(r, u)
      <4>1. /\ req' = [req EXCEPT ![r] = [At("fComplete", u) EXCEPT !.parts = meta[u].parts]]
            /\ "fComplete" \in Pcs
        BY <3>2 DEF FinalizeStart, Pcs, FinalizePcs
      <4>2. At("fComplete", u) \in Handler
        BY <4>1, AtType
      <4> QED BY <1>0, <4>1, <4>2, AtIs DEF Only, InitPcs, Handler
    <3>3. CASE CancelStart(r, u)
      <4>1. req' = [req EXCEPT ![r] = Clean(At("idle", u), "kClean",
                     IF meta[u].live THEN CancelCalls ELSE <<"active">>)]
        BY <3>3 DEF CancelStart
      <4> QED BY <1>0, <4>1, AtIs, CleanIs DEF Only, InitPcs
    <3>4. CASE DeleteStart(r, u)
      BY <1>0, <3>4, AtIs DEF DeleteStart, Only, InitPcs
    <3> QED BY <1>3, <3>1, <3>2, <3>3, <3>4
  <2> QED BY <1>2, <2>1, <2>2
<1>4. ASSUME PurgeStart(r) \/ RemoveStart(r)
      PROVE  IdsInv'
  <2>1. UNCHANGED <<meta, multipart, object, rows, ids>>
    BY <1>4 DEF PurgeStart, RemoveStart, redis, s3, db
  <2>2. Only(r) /\ req'[r].pc \notin InitPcs /\ req'[r].u = NoUpload
    <3>1. CASE PurgeStart(r)
      BY <1>0, <3>1, IdleType DEF PurgeStart, Only, InitPcs, Idle
    <3>2. CASE RemoveStart(r)
      <4>1. PICK files \in SUBSET rows :
              req' = [req EXCEPT ![r] = [Idle EXCEPT !.pc = "rObjects", !.set = files,
                                                     !.keys = files]]
        BY <3>2 DEF RemoveStart
      <4> QED BY <1>0, <4>1, IdleType DEF Only, InitPcs, Idle
    <3> QED BY <1>4, <3>1, <3>2
  <2> QED BY <1>2, <2>1, <2>2
<1> QED BY <1>1, <1>3, <1>4 DEF Starts

\* Failures lose no id.
LEMMA FailIds ==
  ASSUME TypeInv, IdsInv, Fails
  PROVE  IdsInv'
<1>0. ReqInv /\ req \in [Requests -> Handler]
  BY ReqTyped DEF ReqInv
<1>1. CASE Crash
  <2>1. /\ req' = [s \in Requests |-> Idle]
        /\ UNCHANGED <<meta, multipart, object, rows, ids>>
    BY <1>1 DEF Crash, redis, s3
  <2>2. Idle.u = NoUpload /\ Idle.pc = "idle"
    BY DEF Idle
  <2> QED BY <2>1, <2>2 DEF IdsInv, ids, InitPcs
<1>2. ASSUME NEW r \in Requests, CallFails(r)
      PROVE  IdsInv'
  <2>1. UNCHANGED <<meta, multipart, object, rows, ids>>
    BY <1>2 DEF CallFails, redis, s3
  <2>2. Throw(r) \/ (Returns(r) /\ req[r].todo # <<>>)
    BY <1>2 DEF CallFails, Calling
  <2>3. Only(r) /\ Follows(req[r], req'[r])
    BY <1>0, <2>2, ThrowFollows, ReturnsFollows
  <2> QED BY <2>1, <2>3, IdsFrame DEF Ordinary, ids, IdsInv
<1>3. ASSUME NEW r \in Requests, Disconnect(r)
      PROVE  IdsInv'
  BY <1>3 DEF Disconnect, IdsInv, ids, s3, db
<1>4. ASSUME NEW r \in Requests, ReplyLost(r)
      PROVE  IdsInv'
  <2> DEFINE u == req[r].u
  <2>1. Only(r) /\ req'[r] = Raise(req[r]) /\ Follows(req[r], req'[r])
    BY <1>0, <1>4, ThrowFollows DEF ReplyLost
  <2>2. UNCHANGED <<meta, ids>>
    BY <1>4 DEF ReplyLost
  <2>3. CASE req[r].pc = "iCreate"
    <3>1. /\ UNCHANGED <<object, rows>>
          /\ \A w \in Uploads \ {u} : multipart'[w] = multipart[w]
      BY <1>4, <2>3 DEF ReplyLost, db, TypeInv, TypeOK
    <3>2. req'[r].pc = "iFail" /\ req'[r].u = u
      BY <2>1, <2>3, AtIs DEF Raise, ChunkPcs, FinalizePcs
    <3>3. /\ u \in known /\ u \in Uploads
          /\ \A s \in Requests : s # r => req[s].u # u
          /\ \A s \in Requests : req[s].pc \in InitPcs => req[s].u \in Uploads
      BY <2>3, InitHasUpload DEF IdsInv, InitPcs
    <3>4. \A s \in Requests : s # r => req'[s] = req[s]
      BY <2>1 DEF Only
    <3> QED BY <2>2, <2>3, <3>1, <3>2, <3>3, <3>4 DEF IdsInv, ids, InitPcs
  <2>4. CASE req[r].pc \in {"iAdd", "fCommit"}
    <3>1. UNCHANGED s3 /\ rows' \in {rows, rows \cup {u}}
      BY <1>4, <2>4 DEF ReplyLost, db
    <3>2. rows' \subseteq issued
      <4>1. CASE req[r].pc = "iAdd"
        BY <1>4, <4>1 DEF ReplyLost, db, IdsInv
      <4>2. CASE req[r].pc = "fCommit"
        BY <3>1, <4>2, WorksForIssued DEF FinalizePcs, IdsInv
      <4> QED BY <2>4, <4>1, <4>2
    <3> QED BY <2>1, <2>2, <3>1, <3>2, IdsFrame DEF Ordinary, ids, s3
  <2>5. CASE req[r].pc = "fComplete"
    <3>1. Completes(req[r]) /\ Assemble(req[r]) /\ UNCHANGED rows
      BY <1>4, <2>5 DEF ReplyLost, db
    <3>2. u \in Uploads /\ u \in issued
      BY <2>5, WorksForIssued DEF FinalizePcs
    <3>3. \A w \in Uploads : object'[w] \in {object[w], <<>>} \/ w \in issued
      BY <3>1, <3>2 DEF Assemble, TypeInv, TypeOK
    <3>4. \A w \in Uploads : multipart'[w].state = "none" <=> multipart[w].state = "none"
      BY <3>1, <3>2 DEF Assemble, Completes, Closed, TypeInv, TypeOK
    <3> QED BY <2>1, <2>2, <3>1, <3>3, <3>4, IdsFrame DEF Ordinary, ids, IdsInv
  <2> QED BY <1>4, <2>3, <2>4, <2>5 DEF ReplyLost
<1> QED BY <1>1, <1>2, <1>3, <1>4 DEF Fails

\* The sweep and the clocks draw no id and make nothing live.
LEMMA ElsewhereIds ==
  ASSUME TypeInv, IdsInv, Sweeps \/ Expires
  PROVE  IdsInv'
<1>1. UNCHANGED <<req, object, rows, ids>>
  BY DEF Sweeps, SweepStart, SweepEnd, SweepInspect, SweepAbort, SweepUntrack,
         Expires, ExpireActive, ExpireInitLock, Age, ExpireMeta, ExpireIndex,
         ExpireChunkLock, s3, db
<1>2. \A u \in Uploads : multipart'[u].state = "none" <=> multipart[u].state = "none"
  <2>1. CASE UNCHANGED multipart
    BY <2>1
  <2>2. CASE SweepAbort /\ ~UNCHANGED multipart
    <3>1. /\ Listed(sweep.u)
          /\ multipart' = [multipart EXCEPT ![sweep.u] = Closed("aborted")]
      BY <2>2 DEF SweepAbort
    <3> QED BY <3>1 DEF Listed, Closed, TypeInv, TypeOK
  <2>3. ASSUME NEW w \in Uploads, Age(w)
        PROVE  \A u \in Uploads : multipart'[u].state = "none" <=> multipart[u].state = "none"
    <3>1. multipart' = [multipart EXCEPT ![w] = [multipart[w] EXCEPT !.recent = FALSE]]
      BY <2>3 DEF Age, TypeInv, TypeOK
    <3>2. multipart \in [Uploads -> Multipart]
      BY DEF TypeInv, TypeOK
    <3> QED BY <3>1, <3>2 DEF Multipart
  <2> QED
    BY <2>1, <2>2, <2>3
       DEF Sweeps, SweepStart, SweepEnd, SweepInspect, SweepUntrack,
           Expires, ExpireActive, ExpireInitLock, ExpireMeta, ExpireIndex,
           ExpireChunkLock, s3
<1>3. \A u \in Uploads : meta'[u].live => meta[u].live
  <2>0. ~NoMeta.live
    BY DEF NoMeta
  <2>1. CASE UNCHANGED meta
    BY <2>1
  <2>2. CASE \E w \in Uploads \cup {NoUpload} : meta' = [meta EXCEPT ![w] = NoMeta]
    <3>1. \A u \in Uploads : meta'[u] \in {meta[u], NoMeta}
      BY <2>2 DEF TypeInv, TypeOK
    <3> QED BY <2>0, <3>1
  <2>3. ASSUME NEW w \in Uploads, Age(w)
        PROVE  \A u \in Uploads : meta'[u].live => meta[u].live
    <3>1. meta' = [meta EXCEPT ![w] = [meta[w] EXCEPT !.recent = FALSE]]
      BY <2>3 DEF Age, TypeInv, TypeOK
    <3>2. meta \in [Uploads -> Meta]
      BY DEF TypeInv, TypeOK
    <3> QED BY <3>1, <3>2 DEF Meta
  <2>4. SweepUntrack => UNCHANGED meta \/ meta' = [meta EXCEPT ![sweep.u] = NoMeta]
    BY DEF SweepUntrack
  <2>5. sweep.u \in Uploads \cup {NoUpload}
    BY DEF TypeInv, TypeOK
  <2>6. CASE Sweeps
    BY <2>1, <2>2, <2>4, <2>5, <2>6
       DEF Sweeps, SweepStart, SweepEnd, SweepInspect, SweepAbort, redis
  <2>7. ASSUME NEW w \in Uploads, ExpireMeta(w)
        PROVE  \A u \in Uploads : meta'[u].live => meta[u].live
    BY <2>2, <2>7 DEF ExpireMeta
  <2>8. CASE Expires
    <3>1. UNCHANGED meta \/ \E w \in Uploads : Age(w) \/ ExpireMeta(w)
      BY <2>8 DEF Expires, ExpireActive, ExpireInitLock, ExpireIndex, ExpireChunkLock
    <3> QED BY <2>1, <2>3, <2>7, <3>1
  <2> QED BY <2>6, <2>8
<1>4. \A r \in Requests : req[r].pc \in InitPcs => req[r].u \in Uploads
  BY InitHasUpload
<1> QED BY <1>1, <1>2, <1>3, <1>4 DEF IdsInv, ids, InitPcs

\* Every step keeps IdsInv.
LEMMA IdsNext ==
  ASSUME TypeInv, IdsInv, [Next]_vars
  PROVE  IdsInv'
<1>1. ASSUME NEW r \in Requests, Steps(r)
      PROVE  IdsInv'
  <2>1. CASE InitLock(r) \/ InitConflict(r) \/ CreateMultipart(r) \/ SetMeta(r)
               \/ InitUnlock(r)
    BY <2>1, InitIds
  <2>2. CASE SetIndex(r) \/ ReadActive(r) \/ ReadMetas(r) \/ Evict(r) \/ AddActive(r)
    BY <2>2, InitOrdinary, IdsFrame
  <2>3. CASE ChunkRead(r) \/ ChunkTouch(r) \/ ChunkSend(r) \/ ChunkLand(r)
               \/ ChunkExists(r) \/ ChunkStore(r) \/ ChunkUnlock(r)
    BY <2>3, ChunkOrdinary, IdsFrame
  <2>4. CASE Complete(r) \/ HeadObject(r) \/ LockUser(r) \/ SumRows(r) \/ CommitRow(r)
    BY <2>4, FinalizeOrdinary, IdsFrame
  <2>5. CASE CallAbort(r) \/ CallDeleteObject(r) \/ CallDelMeta(r) \/ CallDelIndex(r)
               \/ CallRelease(r)
    BY <2>5, CallOrdinary, IdsFrame
  <2>6. CASE DeleteObject(r) \/ DeleteRow(r) \/ DeleteObjects(r) \/ RemoveRows(r)
               \/ PurgeRows(r) \/ PurgeScan(r) \/ PurgeAborts(r) \/ PurgeKeys(r)
    BY <2>6, DeletionOrdinary, IdsFrame
  <2> QED BY <1>1, <2>1, <2>2, <2>3, <2>4, <2>5, <2>6 DEF Steps
<1>2. CASE UNCHANGED vars
  BY <1>2 DEF vars, redis, s3, db, ids, IdsInv
<1> QED BY <1>1, <1>2, StartIds, FailIds, ElsewhereIds DEF Next

-----------------------------------------------------------------------------
(* Cleanup scripts *)

\* What can be left of the scripts.
CancelTails == {<<"abort", "index", "meta", "active">>, <<"index", "meta", "active">>,
                <<"meta", "active">>, <<"active">>}
FinalTails == {<<"meta", "index", "active">>, <<"index", "active">>, <<"active">>}
RaisedTails == {<<"tryAbort", "meta", "index", "active">>,
                <<"object", "meta", "index", "active">>}
CatchTails == {<<"tryAbort", "index">>, <<"tryAbort", "meta", "index">>,
               <<"meta", "index">>, <<"index">>}

\* The cleanup calls a handler still has to make follow from its place, and but
\* for an eviction they concern its own upload.
Scripted(q) ==
  /\ q.pc = "iEvict" => q.todo = <<>> \/ (q.todo \in CancelTails /\ q.v \in Uploads)
  /\ q.pc = "iCatch" => q.v = q.u /\ q.todo \in CatchTails
  /\ q.pc = "cCatch" => q.v = q.u /\ q.todo = <<"tryAbort">>
  /\ q.pc = "fClean" => q.v = q.u /\ q.todo \in FinalTails
  /\ q.pc = "fCatch" => q.v = q.u /\ q.todo \in FinalTails \cup RaisedTails
  /\ q.pc = "kClean" => q.v = q.u /\ q.todo \in CancelTails
ScriptsInv == \A r \in Requests : Scripted(req[r])

\* A call put before finalizeUpload's own.
LEMMA Prefixed ==
  ASSUME NEW c \in Calls
  PROVE  <<c>> \o <<"meta", "index", "active">> = <<c, "meta", "index", "active">>
<1> DEFINE first == <<c>>
           rest == <<"meta", "index", "active">>
           all == <<c, "meta", "index", "active">>
<1>1. /\ first \in Seq(Calls) /\ rest \in Seq(Calls) /\ all \in Seq(Calls)
      /\ Len(first) = 1 /\ Len(rest) = 3 /\ Len(all) = 4
  BY DEF Calls
<1>2. first[1] = c /\ rest[1] = "meta" /\ rest[2] = "index" /\ rest[3] = "active"
  OBVIOUS
<1>6. all[1] = c /\ all[2] = "meta" /\ all[3] = "index" /\ all[4] = "active"
  OBVIOUS
<1> HIDE DEF first, rest, all
<1>3. /\ first \o rest \in Seq(Calls) /\ Len(first \o rest) = 4
      /\ \A i \in 1..4 : (first \o rest)[i] = IF i <= 1 THEN first[i] ELSE rest[i - 1]
  <2>1. /\ first \o rest \in Seq(Calls) /\ Len(first \o rest) = Len(first) + Len(rest)
        /\ \A i \in 1 .. Len(first) + Len(rest) :
             (first \o rest)[i] = IF i <= Len(first) THEN first[i] ELSE rest[i - Len(first)]
    BY <1>1, ConcatProperties
  <2> QED BY <1>1, <2>1
<1>4. ASSUME NEW i \in 1..4
      PROVE  (first \o rest)[i] = all[i]
  <2>1. CASE i = 1
    BY <1>2, <1>3, <1>6, <2>1
  <2>2. CASE i = 2
    BY <1>2, <1>3, <1>6, <2>2
  <2>3. CASE i = 3
    BY <1>2, <1>3, <1>6, <2>3
  <2>4. CASE i = 4
    BY <1>2, <1>3, <1>6, <2>4
  <2> QED
    <3>1. i = 1 \/ i = 2 \/ i = 3 \/ i = 4
      OBVIOUS
    <3> QED BY <3>1, <2>1, <2>2, <2>3, <2>4
<1>5. first \o rest = all
  BY <1>1, <1>3, <1>4, SeqEqual
<1> QED BY <1>5 DEF first, rest, all

\* The scripts in full.
LEMMA ScriptsAre ==
  /\ CancelCalls = <<"abort", "index", "meta", "active">>
  /\ FinalizeCalls = <<"meta", "index", "active">>
  /\ <<"tryAbort">> \o FinalizeCalls = <<"tryAbort", "meta", "index", "active">>
  /\ <<"object">> \o FinalizeCalls = <<"object", "meta", "index", "active">>
<1>1. /\ CancelCalls = <<"abort", "index", "meta", "active">>
      /\ FinalizeCalls = <<"meta", "index", "active">>
  BY DEF CancelCalls, FinalizeCalls
<1>2. <<"tryAbort">> \o <<"meta", "index", "active">>
        = <<"tryAbort", "meta", "index", "active">>
  BY Prefixed DEF Calls
<1>3. <<"object">> \o <<"meta", "index", "active">>
        = <<"object", "meta", "index", "active">>
  BY Prefixed DEF Calls
<1> QED BY <1>1, <1>2, <1>3

\* What is left of a script after its first call.
LEMMA CancelTailsAre ==
  ASSUME NEW t \in CancelTails, Len(t) > 1
  PROVE  Tail(t) \in CancelTails
<1>1. CASE t = <<"abort", "index", "meta", "active">>
  BY <1>1 DEF CancelTails
<1>2. CASE t = <<"index", "meta", "active">>
  BY <1>2 DEF CancelTails
<1>3. CASE t = <<"meta", "active">>
  BY <1>3 DEF CancelTails
<1>4. CASE t = <<"active">>
  BY <1>4
<1> QED BY <1>1, <1>2, <1>3, <1>4 DEF CancelTails
LEMMA FinalTailsAre ==
  ASSUME NEW t \in FinalTails \cup RaisedTails, Len(t) > 1
  PROVE  Tail(t) \in FinalTails
<1>1. CASE t = <<"meta", "index", "active">>
  BY <1>1 DEF FinalTails
<1>2. CASE t = <<"index", "active">>
  BY <1>2 DEF FinalTails
<1>3. CASE t = <<"active">>
  BY <1>3
<1>4. CASE t = <<"tryAbort", "meta", "index", "active">>
  BY <1>4 DEF FinalTails
<1>5. CASE t = <<"object", "meta", "index", "active">>
  BY <1>5 DEF FinalTails
<1> QED BY <1>1, <1>2, <1>3, <1>4, <1>5 DEF FinalTails, RaisedTails
LEMMA CatchTailsAre ==
  ASSUME NEW t \in CatchTails, Len(t) > 1
  PROVE  Tail(t) \in CatchTails
<1>1. CASE t = <<"tryAbort", "index">>
  BY <1>1 DEF CatchTails
<1>2. CASE t = <<"tryAbort", "meta", "index">>
  BY <1>2 DEF CatchTails
<1>3. CASE t = <<"meta", "index">>
  BY <1>3 DEF CatchTails
<1>4. CASE t = <<"index">>
  BY <1>4
<1> QED BY <1>1, <1>2, <1>3, <1>4 DEF CatchTails

LEMMA LengthsAre ==
  /\ Len(<<"abort", "index", "meta", "active">>) = 4
  /\ Len(<<"index", "meta", "active">>) = 3
  /\ Len(<<"meta", "active">>) = 2
  /\ Len(<<"active">>) = 1
  /\ Len(<<"meta", "index", "active">>) = 3
  /\ Len(<<"index", "active">>) = 2
  /\ Len(<<"tryAbort", "meta", "index", "active">>) = 4
  /\ Len(<<"object", "meta", "index", "active">>) = 4
  /\ Len(<<"tryAbort", "index">>) = 2
  /\ Len(<<"tryAbort", "meta", "index">>) = 3
  /\ Len(<<"meta", "index">>) = 2
  /\ Len(<<"index">>) = 1
  /\ Len(<<"tryAbort">>) = 1
  OBVIOUS
LEMMA HeadsAre ==
  /\ Head(<<"abort", "index", "meta", "active">>) = "abort"
  /\ Head(<<"index", "meta", "active">>) = "index"
  /\ Head(<<"meta", "active">>) = "meta"
  /\ Head(<<"active">>) = "active"
  /\ Head(<<"meta", "index", "active">>) = "meta"
  /\ Head(<<"index", "active">>) = "index"
  /\ Head(<<"tryAbort", "meta", "index", "active">>) = "tryAbort"
  /\ Head(<<"object", "meta", "index", "active">>) = "object"
  /\ Head(<<"tryAbort", "index">>) = "tryAbort"
  /\ Head(<<"tryAbort", "meta", "index">>) = "tryAbort"
  /\ Head(<<"meta", "index">>) = "meta"
  /\ Head(<<"index">>) = "index"
  /\ Head(<<"tryAbort">>) = "tryAbort"
  OBVIOUS

\* An exception leads to the beginning of a script, or to none.
LEMMA RaiseScripted ==
  ASSUME NEW q \in Handler
  PROVE  Scripted(Raise(q))
<1>1. CASE q.pc \in {"iCreate", "iCatch"}
  <2>1. Raise(q) = At("iFail", q.u)
    BY <1>1 DEF Raise, ChunkPcs, FinalizePcs
  <2> QED BY <2>1, AtIs DEF Scripted
<1>2. CASE q.pc \in {"iMeta", "iIndex", "iMembers", "iMetas", "iEvict", "iAdd"}
  <2>1. \/ Raise(q) = Clean(q, "iCatch", <<"tryAbort", "index">>)
        \/ Raise(q) = Clean(q, "iCatch", <<"tryAbort", "meta", "index">>)
    BY <1>2 DEF Raise, ChunkPcs, FinalizePcs
  <2>2. Raise(q).pc = "iCatch" /\ Raise(q).v = q.u /\ Raise(q).u = q.u
        /\ Raise(q).todo \in {<<"tryAbort", "index">>, <<"tryAbort", "meta", "index">>}
    BY <2>1, CleanIs
  <2> QED BY <2>2 DEF Scripted, CatchTails
<1>3. CASE q.pc \in ChunkPcs \ {"cUnlock"}
  <2>1. Raise(q) = At("cUnlock", q.u)
    BY <1>3 DEF Raise, ChunkPcs, FinalizePcs
  <2> QED BY <2>1, AtIs DEF Scripted
<1>4. CASE q.pc \in FinalizePcs \ {"fCatch"}
  <2>1. \/ Raise(q) = Clean(q, "fCatch", <<"tryAbort", "meta", "index", "active">>)
        \/ Raise(q) = Clean(q, "fCatch", <<"object", "meta", "index", "active">>)
    BY <1>4, ScriptsAre DEF Raise, ChunkPcs, FinalizePcs
  <2>2. Raise(q).pc = "fCatch" /\ Raise(q).v = q.u /\ Raise(q).u = q.u
        /\ Raise(q).todo \in RaisedTails
    BY <2>1, CleanIs DEF RaisedTails
  <2> QED BY <2>2 DEF Scripted
<1>5. CASE q.pc \in {"idle", "kClean", "iLock", "iUnlock", "iFail", "cUnlock",
                     "fCatch"} \cup DeletePcs \cup PurgePcs
  <2>1. Raise(q) = Idle
    BY <1>5 DEF Raise, DeletePcs, PurgePcs, ChunkPcs, FinalizePcs
  <2> QED BY <2>1 DEF Scripted, Idle
<1> QED
  BY <1>1, <1>2, <1>3, <1>4, <1>5
     DEF Handler, Pcs, InitPcs, ChunkPcs, FinalizePcs, DeletePcs, PurgePcs

\* Where a handler goes when a cleanup call returns: on in its script, or out
\* of it, which is after the call that releases the active upload, or after the
\* last one of initializeUpload's and handleChunk's own scripts.
LEMMA ContinueLeads ==
  ASSUME NEW q \in Handler, Shaped(q), Scripted(q), q.todo # <<>>
  PROVE  LET p == Continue(q) IN
         \/ /\ Len(q.todo) > 1 /\ p.pc = q.pc /\ p.u = q.u /\ p.v = q.v
            /\ p.set = q.set /\ p.keys = q.keys /\ p.todo = Tail(q.todo)
         \/ /\ q.pc = "iEvict" /\ q.todo = <<"active">> /\ p.u = q.u
            /\ p.todo = <<>> /\ p.set = q.set
            /\ p.pc = IF q.set = {} THEN "iAdd" ELSE "iEvict"
         \/ q.pc = "iCatch" /\ q.todo = <<"index">> /\ p = At("iFail", q.u)
         \/ q.pc = "cCatch" /\ p = At("cUnlock", q.u)
         \/ q.pc \in {"fClean", "fCatch", "kClean"} /\ q.todo = <<"active">> /\ p = Idle
<1>1. CASE Len(q.todo) > 1
  <2>1. Continue(q) = [q EXCEPT !.todo = Tail(q.todo)]
    BY <1>1 DEF Continue
  <2>2. /\ Continue(q).pc = q.pc /\ Continue(q).u = q.u /\ Continue(q).v = q.v
        /\ Continue(q).set = q.set /\ Continue(q).keys = q.keys
        /\ Continue(q).todo = Tail(q.todo)
    BY <2>1 DEF Handler
  <2> QED BY <1>1, <2>2
<1>2. CASE Len(q.todo) <= 1 /\ q.pc = "iEvict"
  <2> DEFINE next == IF q.set = {} THEN "iAdd" ELSE "iEvict"
  <2>1. Continue(q) = [q EXCEPT !.todo = <<>>, !.v = NoUpload, !.pc = next]
    BY <1>2 DEF Continue, Handler
  <2> HIDE DEF next
  <2>2. /\ Continue(q).pc = next /\ Continue(q).u = q.u /\ Continue(q).todo = <<>>
        /\ Continue(q).set = q.set
    BY <2>1 DEF Handler
  <2>3. q.todo = <<"active">>
    BY <1>2, LengthsAre DEF Scripted, CancelTails
  <2> QED BY <1>2, <2>2, <2>3 DEF next
<1>3. CASE Len(q.todo) <= 1 /\ q.pc = "iCatch"
  <2>1. Continue(q) = At("iFail", q.u)
    BY <1>3 DEF Continue, Handler
  <2>2. q.todo = <<"index">>
    BY <1>3, LengthsAre DEF Scripted, CatchTails
  <2> QED BY <1>3, <2>1, <2>2
<1>4. CASE Len(q.todo) <= 1 /\ q.pc = "cCatch"
  <2>1. Continue(q) = At("cUnlock", q.u)
    BY <1>4 DEF Continue, Handler
  <2> QED BY <1>4, <2>1
<1>5. CASE Len(q.todo) <= 1 /\ q.pc \in {"fClean", "fCatch", "kClean"}
  <2>1. Continue(q) = Idle
    BY <1>5 DEF Continue, Handler
  <2>2. q.todo = <<"active">>
    BY <1>5, LengthsAre, SMTT(30) DEF Scripted, CancelTails, FinalTails, RaisedTails
  <2> QED BY <1>5, <2>1, <2>2
<1> QED
  <2>1. Len(q.todo) \in Nat BY DEF Handler
  <2> QED BY <2>1, <1>1, <1>2, <1>3, <1>4, <1>5 DEF Shaped

\* A handler goes on in its script.
LEMMA ContinueScripted ==
  ASSUME NEW q \in Handler, Shaped(q), Scripted(q), q.todo # <<>>
  PROVE  Scripted(Continue(q))
<1> DEFINE p == Continue(q)
<1>1. CASE /\ Len(q.todo) > 1 /\ p.pc = q.pc /\ p.u = q.u /\ p.v = q.v
           /\ p.set = q.set /\ p.keys = q.keys /\ p.todo = Tail(q.todo)
  <2> HIDE DEF p
  <2>1. q.pc \in {"iEvict", "kClean"} => q.todo \in CancelTails /\ p.todo \in CancelTails
    BY <1>1, CancelTailsAre DEF Scripted
  <2>2. q.pc = "iCatch" => p.todo \in CatchTails
    BY <1>1, CatchTailsAre DEF Scripted
  <2>3. q.pc \in {"fClean", "fCatch"} => p.todo \in FinalTails
    BY <1>1, FinalTailsAre DEF Scripted, FinalTails
  <2>4. q.pc # "cCatch"
    <3>1. ASSUME q.todo = <<"tryAbort">> PROVE FALSE
      BY <1>1, <3>1
    <3> QED BY <3>1 DEF Scripted
  <2>5. p.pc = "iEvict" => p.todo \in CancelTails /\ p.v \in Uploads
    BY <1>1, <2>1 DEF Scripted
  <2>6. p.pc \in {"iCatch", "fClean", "fCatch", "kClean"} => p.v = p.u
    BY <1>1 DEF Scripted
  <2>7. Scripted(p)
    BY <1>1, <2>1, <2>2, <2>3, <2>4, <2>5, <2>6 DEF Scripted
  <2> QED BY <2>7 DEF p
<1>2. CASE q.pc = "iEvict" /\ p.todo = <<>> /\ p.pc \in {"iAdd", "iEvict"}
  BY <1>2 DEF Scripted
<1>3. CASE p = At("iFail", q.u) \/ p = At("cUnlock", q.u)
  BY <1>3, AtIs DEF Scripted
<1>4. CASE p = Idle
  BY <1>4 DEF Scripted, Idle
<1> QED BY <1>1, <1>2, <1>3, <1>4, ContinueLeads

-----------------------------------------------------------------------------
(* Where handlers go *)

\* The places of cleanup scripts, and those an exception or the return of a
\* cleanup call leads to.
CleanupPcs == {"iEvict", "iCatch", "cCatch", "fClean", "fCatch", "kClean"}
Landings == CleanupPcs \cup {"iAdd", "iFail", "cUnlock", "idle"}

\* An exception and a return lead to one of the landings.
LEMMA RaiseLands ==
  ASSUME NEW q \in Handler
  PROVE  Raise(q).pc \in {"iFail", "iCatch", "cUnlock", "fCatch", "idle"}
<1>1. CASE q.pc \in {"iCreate", "iCatch"}
  <2>1. Raise(q) = At("iFail", q.u)
    BY <1>1 DEF Raise, ChunkPcs, FinalizePcs
  <2> QED BY <2>1, AtIs
<1>2. CASE q.pc \in {"iMeta", "iIndex", "iMembers", "iMetas", "iEvict", "iAdd"}
  <2>1. \/ Raise(q) = Clean(q, "iCatch", <<"tryAbort", "index">>)
        \/ Raise(q) = Clean(q, "iCatch", <<"tryAbort", "meta", "index">>)
    BY <1>2 DEF Raise, ChunkPcs, FinalizePcs
  <2> QED BY <2>1, CleanIs
<1>3. CASE q.pc \in ChunkPcs \ {"cUnlock"}
  <2>1. Raise(q) = At("cUnlock", q.u)
    BY <1>3 DEF Raise, ChunkPcs, FinalizePcs
  <2> QED BY <2>1, AtIs
<1>4. CASE q.pc \in FinalizePcs \ {"fCatch"}
  <2>1. \E calls : Raise(q) = Clean(q, "fCatch", calls)
    BY <1>4 DEF Raise, ChunkPcs, FinalizePcs
  <2> QED BY <2>1, CleanIs
<1>5. CASE q.pc \in {"idle", "kClean", "iLock", "iUnlock", "iFail", "cUnlock",
                     "fCatch"} \cup DeletePcs \cup PurgePcs
  <2>1. Raise(q) = Idle
    BY <1>5 DEF Raise, DeletePcs, PurgePcs, ChunkPcs, FinalizePcs
  <2> QED BY <2>1 DEF Idle
<1> QED
  BY <1>1, <1>2, <1>3, <1>4, <1>5
     DEF Handler, Pcs, InitPcs, ChunkPcs, FinalizePcs, DeletePcs, PurgePcs
LEMMA ContinueLands ==
  ASSUME NEW q \in Handler, Shaped(q), Scripted(q), q.todo # <<>>
  PROVE  Continue(q).pc \in Landings
<1>1. q.pc \in CleanupPcs
  BY DEF Shaped, CleanupPcs
<1>2. CASE Continue(q).pc \in {q.pc, "iAdd", "iEvict"}
  BY <1>1, <1>2 DEF Landings, CleanupPcs
<1>3. CASE Continue(q) = At("iFail", q.u) \/ Continue(q) = At("cUnlock", q.u)
  BY <1>3, AtIs DEF Landings
<1>4. CASE Continue(q) = Idle
  BY <1>4 DEF Landings, Idle
<1> QED BY <1>2, <1>3, <1>4, ContinueLeads

\* Every handler goes on in a script of its own, and only FinalizeStart leads
\* to the beginning of finalizeUpload's S3 calls.
Proceeds(r) == Only(r) /\ Scripted(req'[r]) /\ req'[r].pc # "fComplete"

\* Outside the cleanup scripts there is nothing to follow.
LEMMA PlainProceeds ==
  ASSUME NEW r \in Requests, Only(r), req'[r].pc \notin CleanupPcs \cup {"fComplete"}
  PROVE  Proceeds(r)
  BY DEF Proceeds, Scripted, CleanupPcs
LEMMA GotoProceeds ==
  ASSUME TypeInv, NEW r \in Requests, NEW from, NEW to, Goto(r, from, to),
         to \notin CleanupPcs \cup {"fComplete"}
  PROVE  Proceeds(r)
  BY ReqTyped, GotoMoves, PlainProceeds
LEMMA FinishProceeds ==
  ASSUME TypeInv, NEW r \in Requests, Finish(r)
  PROVE  Proceeds(r)
  BY ReqTyped, FinishFollows, PlainProceeds DEF Idle, CleanupPcs
LEMMA ThrowProceeds ==
  ASSUME TypeInv, NEW r \in Requests, Throw(r)
  PROVE  Proceeds(r)
  BY ReqTyped, ThrowFollows, RaiseScripted, RaiseLands DEF Proceeds, ReqInv
LEMMA ReturnsProceeds ==
  ASSUME TypeInv, ScriptsInv, NEW r \in Requests, Returns(r), req[r].todo # <<>>
  PROVE  Proceeds(r)
  BY ReqTyped, ReturnsFollows, ContinueScripted, ContinueLands
     DEF Proceeds, ReqInv, ScriptsInv, Landings, CleanupPcs

\* So does every step of a handler.
LEMMA StepsProceed ==
  ASSUME TypeInv, ScriptsInv, NEW r \in Requests, Steps(r)
  PROVE  Proceeds(r)
<1>0. /\ req[r] \in Handler /\ req \in [Requests -> Handler] /\ Shaped(req[r])
      /\ Scripted(req[r])
  BY ReqTyped DEF ReqInv, ScriptsInv
<1>1. CASE \/ InitLock(r) \/ CreateMultipart(r) \/ SetMeta(r) \/ SetIndex(r)
           \/ AddActive(r) \/ ChunkTouch(r) \/ LockUser(r) \/ DeleteObject(r)
  <2>1. \E from : \E to \in {"iCreate", "iMeta", "iIndex", "iMembers", "iUnlock",
                             "cSend", "fSum", "dRow"} : Goto(r, from, to)
    BY <1>1 DEF InitLock, CreateMultipart, SetMeta, SetIndex, AddActive, ChunkTouch,
                LockUser, DeleteObject
  <2> QED BY <2>1, GotoProceeds DEF CleanupPcs
<1>2. CASE InitConflict(r) \/ InitUnlock(r) \/ ChunkUnlock(r) \/ DeleteRow(r)
             \/ RemoveRows(r) \/ PurgeKeys(r)
  BY <1>2, FinishProceeds
     DEF InitConflict, InitUnlock, ChunkUnlock, DeleteRow, RemoveRows, PurgeKeys
<1>3. CASE ReadActive(r)
  <2>1. Only(r) /\ req'[r].pc \in {"iAdd", "iMetas"}
    BY <1>0, <1>3 DEF ReadActive, Handler, Only
  <2> QED BY <2>1, PlainProceeds DEF CleanupPcs
<1>4. CASE ReadMetas(r)
  <2>1. PICK victims : req' = [req EXCEPT ![r].set = victims,
                          ![r].pc = IF victims = {} THEN "iAdd" ELSE "iEvict"]
    BY <1>4 DEF ReadMetas
  <2>2. Only(r) /\ req'[r].todo = req[r].todo /\ req'[r].pc \in {"iAdd", "iEvict"}
    BY <1>0, <2>1 DEF Handler, Only
  <2>3. req[r].todo = <<>>
    BY <1>0, <1>4 DEF ReadMetas, Shaped
  <2> QED BY <2>2, <2>3 DEF Proceeds, Scripted
<1>5. CASE Evict(r)
  <2>1. PICK v \in req[r].set :
          req' = [req EXCEPT ![r].v = v, ![r].todo = CancelCalls, ![r].set = @ \ {v}]
    BY <1>5 DEF Evict
  <2>2. /\ Only(r) /\ req'[r].pc = "iEvict" /\ req'[r].v = v
        /\ req'[r].todo = CancelCalls
    BY <1>0, <1>5, <2>1 DEF Evict, Handler, Only
  <2>3. v \in Uploads /\ CancelCalls \in CancelTails
    BY <1>0, ScriptsAre DEF Handler, CancelTails
  <2> QED BY <2>2, <2>3 DEF Proceeds, Scripted
<1>6. CASE ChunkRead(r)
  <2>1. CASE Throw(r)
    BY <2>1, ThrowProceeds
  <2>2. CASE ~Throw(r)
    <3>1. req' = [req EXCEPT ![r].pc = "cTouch", ![r].parts = meta[req[r].u].parts]
      BY <1>6, <2>2 DEF ChunkRead
    <3>2. Only(r) /\ req'[r].pc = "cTouch"
      BY <1>0, <3>1 DEF Handler, Only
    <3> QED BY <3>2, PlainProceeds DEF CleanupPcs
  <2> QED BY <2>1, <2>2
<1>7. CASE ChunkSend(r) \/ ChunkLand(r)
  <2>1. Throw(r) \/ \E from : \E to \in {"cLand", "cExists"} : Goto(r, from, to)
    BY <1>7 DEF ChunkSend, ChunkLand
  <2> QED BY <2>1, ThrowProceeds, GotoProceeds DEF CleanupPcs
<1>8. CASE ChunkExists(r)
  <2>1. req' = [req EXCEPT ![r] =
           IF meta[req[r].u].live THEN [req[r] EXCEPT !.pc = "cStore"]
                                  ELSE Clean(req[r], "cCatch", <<"tryAbort">>)]
    BY <1>0, <1>8 DEF ChunkExists
  <2>2. Only(r) /\ req'[r] \in {[req[r] EXCEPT !.pc = "cStore"],
                                Clean(req[r], "cCatch", <<"tryAbort">>)}
    BY <1>0, <2>1 DEF Only
  <2>3. CASE req'[r] = [req[r] EXCEPT !.pc = "cStore"]
    <3>1. req'[r].pc = "cStore"
      BY <1>0, <2>3 DEF Handler
    <3> QED BY <2>2, <3>1, PlainProceeds DEF CleanupPcs
  <2>4. CASE req'[r] = Clean(req[r], "cCatch", <<"tryAbort">>)
    BY <2>2, <2>4, CleanIs DEF Proceeds, Scripted
  <2> QED BY <2>2, <2>3, <2>4
<1>9. CASE ChunkStore(r)
  <2>1. Only(r) /\ req'[r] = At("cUnlock", req[r].u)
    BY <1>0, <1>9 DEF ChunkStore, Only
  <2> QED BY <2>1, AtIs, PlainProceeds DEF CleanupPcs
<1>10. CASE Complete(r) \/ HeadObject(r)
  <2>1. Throw(r) \/ \E from : \E to \in {"fHead", "fLock"} : Goto(r, from, to)
    BY <1>10 DEF Complete, HeadObject
  <2> QED BY <2>1, ThrowProceeds, GotoProceeds DEF CleanupPcs
<1>11. CASE SumRows(r)
  <2>1. CASE Throw(r)
    BY <2>1, ThrowProceeds
  <2>2. CASE ~Throw(r)
    <3>1. req' = [req EXCEPT ![r].pc = "fCommit", ![r].sum = Total[rows]]
      BY <1>11, <2>2 DEF SumRows
    <3>2. Only(r) /\ req'[r].pc = "fCommit"
      BY <1>0, <3>1 DEF Handler, Only
    <3> QED BY <3>2, PlainProceeds DEF CleanupPcs
  <2> QED BY <2>1, <2>2
<1>12. CASE CommitRow(r)
  <2>1. Only(r) /\ req'[r] = Clean(req[r], "fClean", FinalizeCalls)
    BY <1>0, <1>12 DEF CommitRow, Only
  <2>2. FinalizeCalls \in FinalTails
    BY ScriptsAre DEF FinalTails
  <2> QED BY <2>1, <2>2, CleanIs DEF Proceeds, Scripted
<1>13. CASE CallAbort(r) \/ CallDeleteObject(r) \/ CallDelMeta(r) \/ CallDelIndex(r)
              \/ CallRelease(r)
  <2>1. Throw(r) \/ (Returns(r) /\ req[r].todo # <<>>)
    BY <1>13 DEF CallAbort, CallDeleteObject, CallDelMeta, CallDelIndex, CallRelease,
                 Calling
  <2> QED BY <2>1, ThrowProceeds, ReturnsProceeds
<1>14. CASE DeleteObjects(r) \/ PurgeAborts(r)
  <2>1. PICK u : req' = [req EXCEPT ![r].set = @ \ {u}]
    BY <1>14 DEF DeleteObjects, PurgeAborts
  <2>2. Only(r) /\ req'[r].pc = req[r].pc
    BY <1>0, <2>1 DEF Handler, Only
  <2>3. req[r].pc \in {"pObjects", "rObjects", "pAborts"}
    BY <1>14 DEF DeleteObjects, PurgeAborts
  <2> QED BY <2>2, <2>3, PlainProceeds DEF CleanupPcs
<1>15. CASE PurgeRows(r)
  <2>1. Only(r) /\ req'[r].pc = "pScan"
    BY <1>0, <1>15 DEF PurgeRows, Handler, Only
  <2> QED BY <2>1, PlainProceeds DEF CleanupPcs
<1>16. CASE PurgeScan(r)
  <2>1. Only(r) /\ req'[r].pc = "pAborts"
    BY <1>0, <1>16 DEF PurgeScan, Handler, Only
  <2> QED BY <2>1, PlainProceeds DEF CleanupPcs
<1> QED
  BY <1>1, <1>2, <1>3, <1>4, <1>5, <1>6, <1>7, <1>8, <1>9, <1>10, <1>11, <1>12,
     <1>13, <1>14, <1>15, <1>16 DEF Steps

\* What the handler of a request that has just started looks like.
Begins(q) ==
  \/ q.pc = "iLock" /\ q.u \in Uploads \ known
  \/ q.pc = "cRead" /\ q.u \in issued
  \/ /\ q.pc = "fComplete" /\ q.u \in issued
     /\ q.parts = meta[q.u].parts /\ Len(q.parts) = TotalChunks(q.u)
  \/ /\ q.pc = "kClean" /\ q.u \in issued /\ q.v = q.u
     /\ q.todo \in {CancelCalls, <<"active">>}
  \/ q.pc = "dObject" /\ q.u \in rows
  \/ q.pc = "pObjects" /\ q.u = NoUpload /\ q.set = rows /\ q.keys = {}
  \/ q.pc = "rObjects" /\ q.u = NoUpload /\ q.set = q.keys /\ q.keys \subseteq rows

\* A request that starts leaves the stores alone.
LEMMA StartBegins ==
  ASSUME TypeInv, NEW r \in Requests, Starts(r)
  PROVE  /\ Only(r) /\ req[r] = Idle /\ Begins(req'[r])
         /\ UNCHANGED <<meta, index, active, initLock, s3, db, issued, sweep>>
<1>0. req[r] \in Handler /\ req \in [Requests -> Handler]
  BY ReqTyped DEF ReqInv
<1>1. ASSUME NEW u \in Uploads, InitCheck(r, u)
      PROVE  Only(r) /\ req[r] = Idle /\ Begins(req'[r])
  <2>1. Only(r) /\ req'[r].pc = "iLock" /\ req'[r].u = u
    BY <1>0, <1>1, AtIs DEF InitCheck, Only
  <2> QED BY <1>1, <2>1 DEF InitCheck, Begins
<1>2. ASSUME NEW u \in Uploads, ChunkLock(r, u)
      PROVE  Only(r) /\ req[r] = Idle /\ Begins(req'[r])
  <2>1. Only(r) /\ req'[r].pc = "cRead" /\ req'[r].u = u
    BY <1>0, <1>2, AtIs DEF ChunkLock, Only
  <2> QED BY <1>2, <2>1 DEF ChunkLock, Begins
<1>3. ASSUME NEW u \in Uploads, FinalizeStart(r, u)
      PROVE  Only(r) /\ req[r] = Idle /\ Begins(req'[r])
  <2> DEFINE a == At("fComplete", u)
             q == [a EXCEPT !.parts = meta[u].parts]
  <2>1. req' = [req EXCEPT ![r] = q] /\ req[r] = Idle
    BY <1>3 DEF FinalizeStart
  <2>2. a \in Handler /\ a.pc = "fComplete" /\ a.u = u
    BY AtType DEF Pcs, FinalizePcs
  <2> HIDE DEF a
  <2>3. q.pc = "fComplete" /\ q.u = u /\ q.parts = meta[u].parts
    BY <2>2 DEF Handler
  <2> HIDE DEF q
  <2>4. Only(r) /\ req'[r] = q
    BY <1>0, <2>1 DEF Only
  <2> QED BY <1>3, <2>1, <2>3, <2>4 DEF FinalizeStart, Begins
<1>4. ASSUME NEW u \in Uploads, CancelStart(r, u)
      PROVE  Only(r) /\ req[r] = Idle /\ Begins(req'[r])
  <2>1. PICK calls \in {CancelCalls, <<"active">>} :
          req' = [req EXCEPT ![r] = Clean(At("idle", u), "kClean", calls)]
    BY <1>4 DEF CancelStart
  <2> DEFINE q == Clean(At("idle", u), "kClean", calls)
  <2>2. q.pc = "kClean" /\ q.u = u /\ q.v = u /\ q.todo = calls
    BY AtIs, CleanIs
  <2> HIDE DEF q
  <2>3. Only(r) /\ req'[r] = q
    BY <1>0, <2>1 DEF Only, q
  <2> QED BY <1>4, <2>2, <2>3 DEF CancelStart, Begins
<1>5. ASSUME NEW u \in Uploads, DeleteStart(r, u)
      PROVE  Only(r) /\ req[r] = Idle /\ Begins(req'[r])
  <2>1. Only(r) /\ req'[r].pc = "dObject" /\ req'[r].u = u
    BY <1>0, <1>5, AtIs DEF DeleteStart, Only
  <2> QED BY <1>5, <2>1 DEF DeleteStart, Begins
<1>6. ASSUME PurgeStart(r)
      PROVE  Only(r) /\ req[r] = Idle /\ Begins(req'[r])
  <2> DEFINE q == [Idle EXCEPT !.pc = "pObjects", !.set = rows]
  <2>1. q.pc = "pObjects" /\ q.u = NoUpload /\ q.set = rows /\ q.keys = {}
    BY DEF Idle
  <2>2. req' = [req EXCEPT ![r] = q] /\ req[r] = Idle
    BY <1>6 DEF PurgeStart
  <2> HIDE DEF q
  <2>3. Only(r) /\ req'[r] = q
    BY <1>0, <2>2 DEF Only
  <2>4. /\ req'[r].pc = "pObjects" /\ req'[r].u = NoUpload
        /\ req'[r].set = rows /\ req'[r].keys = {}
    BY <2>1, <2>3
  <2>5. Begins(req'[r])
    BY <2>4 DEF Begins
  <2> QED BY <2>2, <2>3, <2>5
<1>7. ASSUME RemoveStart(r)
      PROVE  Only(r) /\ req[r] = Idle /\ Begins(req'[r])
  <2>1. PICK files \in SUBSET rows :
          req' = [req EXCEPT ![r] = [Idle EXCEPT !.pc = "rObjects", !.set = files,
                                                 !.keys = files]]
    BY <1>7 DEF RemoveStart
  <2> DEFINE q == [Idle EXCEPT !.pc = "rObjects", !.set = files, !.keys = files]
  <2>2. q.pc = "rObjects" /\ q.u = NoUpload /\ q.set = files /\ q.keys = files
    BY DEF Idle
  <2>3. req' = [req EXCEPT ![r] = q] /\ req[r] = Idle
    BY <1>7, <2>1 DEF RemoveStart
  <2> HIDE DEF q
  <2>4. Only(r) /\ req'[r] = q
    BY <1>0, <2>3 DEF Only
  <2>5. /\ req'[r].pc = "rObjects" /\ req'[r].u = NoUpload
        /\ req'[r].set = req'[r].keys /\ req'[r].keys \subseteq rows
    BY <2>2, <2>4
  <2>6. Begins(req'[r])
    BY <2>5 DEF Begins
  <2> QED BY <2>3, <2>4, <2>6
<1>8. UNCHANGED <<meta, index, active, initLock, s3, db, issued, sweep>>
  BY DEF Starts, InitCheck, ChunkLock, FinalizeStart, CancelStart, DeleteStart,
         PurgeStart, RemoveStart, redis, ids
<1> QED
  BY <1>1, <1>2, <1>3, <1>4, <1>5, <1>6, <1>7, <1>8 DEF Starts

\* A request that starts starts at the beginning of a script, if it has one.
LEMMA StartScripted ==
  ASSUME NEW q, Begins(q)
  PROVE  Scripted(q)
<1>1. {CancelCalls, <<"active">>} \subseteq CancelTails
  BY ScriptsAre DEF CancelTails
<1> QED BY <1>1 DEF Begins, Scripted

\* What is neither a step nor the start of a request moves no handler, or by an
\* exception, or the return of a call, or stops them all.
LEMMA OthersProceed ==
  ASSUME TypeInv, ScriptsInv, Sweeps \/ Fails \/ Expires \/ UNCHANGED vars
  PROVE  \/ UNCHANGED req
         \/ req' = [s \in Requests |-> Idle]
         \/ \E r \in Requests : Proceeds(r)
<1>1. CASE Sweeps \/ Expires \/ UNCHANGED vars
  BY <1>1 DEF Sweeps, SweepStart, SweepEnd, SweepInspect, SweepAbort, SweepUntrack,
         Expires, ExpireActive, ExpireInitLock, Age, ExpireMeta, ExpireIndex,
         ExpireChunkLock, vars
<1>2. ASSUME NEW r \in Requests, CallFails(r)
      PROVE  Proceeds(r)
  <2>1. Throw(r) \/ (Returns(r) /\ req[r].todo # <<>>)
    BY <1>2 DEF CallFails, Calling
  <2> QED BY <2>1, ThrowProceeds, ReturnsProceeds
<1>3. ASSUME NEW r \in Requests, ReplyLost(r)
      PROVE  Proceeds(r)
  BY <1>3, ThrowProceeds DEF ReplyLost
<1> QED BY <1>1, <1>2, <1>3 DEF Fails, Crash, Disconnect

\* Every step keeps ScriptsInv.
LEMMA ScriptsNext ==
  ASSUME TypeInv, ScriptsInv, [Next]_vars
  PROVE  ScriptsInv'
<1>1. ASSUME NEW r \in Requests, Only(r), Scripted(req'[r])
      PROVE  ScriptsInv'
  BY <1>1 DEF Only, Scripted, ScriptsInv
<1>2. ASSUME NEW r \in Requests, Starts(r)
      PROVE  ScriptsInv'
  BY <1>1, <1>2, StartBegins, StartScripted
<1>3. ASSUME NEW r \in Requests, Proceeds(r)
      PROVE  ScriptsInv'
  BY <1>1, <1>3 DEF Proceeds
<1>4. CASE UNCHANGED req
  BY <1>4 DEF ScriptsInv, Scripted
<1>5. CASE req' = [s \in Requests |-> Idle]
  BY <1>5, IdleType DEF ScriptsInv, Scripted
<1> QED BY <1>2, <1>3, <1>4, <1>5, StepsProceed, OthersProceed DEF Next

-----------------------------------------------------------------------------
(* Whole objects *)

\* A finalizeUpload that asks S3 to assemble lists every chunk of its file, so
\* that what S3 assembles from the list is whole.
WholeInv ==
  /\ WholeObjects
  /\ \A r \in Requests :
       req[r].pc = "fComplete" => Len(req[r].parts) = TotalChunks(req[r].u)

\* A step that makes no object, and no list, keeps WholeInv.
LEMMA WholeFrame ==
  ASSUME WholeInv, NEW r \in Requests, Only(r), req'[r].pc # "fComplete",
         \A u \in Uploads : object'[u] \in {object[u], <<>>}
  PROVE  WholeInv'
<1>1. WholeObjects'
  BY DEF WholeInv, WholeObjects, TotalChunks
<1>2. ASSUME NEW s \in Requests, req'[s].pc = "fComplete"
      PROVE  Len(req'[s].parts) = TotalChunks(req'[s].u)
  BY <1>2 DEF WholeInv, Only
<1> QED BY <1>1, <1>2 DEF WholeInv, TotalChunks

\* So does the one that has S3 assemble the list.
LEMMA WholeAssembles ==
  ASSUME TypeInv, WholeInv, NEW r \in Requests, req[r].pc = "fComplete",
         Assemble(req[r]), Only(r), req'[r].pc # "fComplete"
  PROVE  WholeInv'
<1>1. \A u \in Uploads : object'[u] = object[u] \/ (u = req[r].u /\ object'[u] = req[r].parts)
  BY DEF Assemble, TypeInv, TypeOK
<1>2. WholeObjects'
  BY <1>1 DEF WholeInv, WholeObjects, TotalChunks
<1>3. ASSUME NEW s \in Requests, req'[s].pc = "fComplete"
      PROVE  Len(req'[s].parts) = TotalChunks(req'[s].u)
  BY <1>3 DEF WholeInv, Only
<1> QED BY <1>2, <1>3 DEF WholeInv, TotalChunks

\* Every step keeps WholeInv.
LEMMA WholeNext ==
  ASSUME TypeInv, ScriptsInv, WholeInv, [Next]_vars
  PROVE  WholeInv'
<1>0. object \in [Uploads -> Seq(Requests)]
  BY DEF TypeInv, TypeOK
<1>1. ASSUME NEW r \in Requests, Starts(r)
      PROVE  WholeInv'
  <2>1. Only(r) /\ Begins(req'[r]) /\ object' = object
    BY <1>1, StartBegins DEF s3
  <2>2. WholeObjects'
    BY <2>1 DEF WholeInv, WholeObjects, TotalChunks
  <2>3. ASSUME NEW s \in Requests, req'[s].pc = "fComplete"
        PROVE  Len(req'[s].parts) = TotalChunks(req'[s].u)
    BY <2>1, <2>3 DEF WholeInv, Only, Begins
  <2> QED BY <2>2, <2>3 DEF WholeInv, TotalChunks
<1>2. ASSUME NEW r \in Requests, Steps(r)
      PROVE  WholeInv'
  <2>1. Only(r) /\ req'[r].pc # "fComplete"
    BY <1>2, StepsProceed DEF Proceeds
  <2>2. CASE Complete(r) /\ Completes(req[r])
    BY <2>1, <2>2, WholeAssembles DEF Complete
  <2>3. CASE ~(Complete(r) /\ Completes(req[r]))
    <3>1. \/ UNCHANGED object
          \/ \E v : object' = [object EXCEPT ![v] = <<>>]
      BY <1>2, <2>3
         DEF Steps, InitLock, InitConflict, CreateMultipart, SetMeta, SetIndex,
             ReadActive, ReadMetas, Evict, AddActive, InitUnlock, ChunkRead,
             ChunkTouch, ChunkSend, ChunkLand, ChunkExists, ChunkStore, ChunkUnlock,
             Complete, HeadObject, LockUser, SumRows, CommitRow, CallAbort,
             CallDeleteObject, CallDelMeta, CallDelIndex, CallRelease, DeleteObject,
             DeleteRow, DeleteObjects, RemoveRows, PurgeRows, PurgeScan, PurgeAborts,
             PurgeKeys, s3
    <3>2. \A u \in Uploads : object'[u] \in {object[u], <<>>}
      BY <1>0, <3>1
    <3> QED BY <2>1, <3>2, WholeFrame
  <2> QED BY <2>2, <2>3
<1>3. ASSUME UNCHANGED <<object, req>>
      PROVE  WholeInv'
  BY <1>3 DEF WholeInv, WholeObjects, TotalChunks
<1>4. CASE Sweeps \/ Expires \/ UNCHANGED vars
  BY <1>3, <1>4
     DEF Sweeps, SweepStart, SweepEnd, SweepInspect, SweepAbort, SweepUntrack,
         Expires, ExpireActive, ExpireInitLock, Age, ExpireMeta, ExpireIndex,
         ExpireChunkLock, s3, vars
<1>5. ASSUME NEW r \in Requests, CallFails(r)
      PROVE  WholeInv'
  <2>1. Throw(r) \/ (Returns(r) /\ req[r].todo # <<>>)
    BY <1>5 DEF CallFails, Calling
  <2>2. Proceeds(r) /\ object' = object
    BY <1>5, <2>1, ThrowProceeds, ReturnsProceeds DEF CallFails, s3
  <2> QED BY <2>2, WholeFrame DEF Proceeds
<1>6. ASSUME NEW r \in Requests, ReplyLost(r)
      PROVE  WholeInv'
  <2>1. Only(r) /\ req'[r].pc # "fComplete"
    BY <1>6, ThrowProceeds DEF ReplyLost, Proceeds
  <2>2. UNCHANGED object \/ (req[r].pc = "fComplete" /\ Assemble(req[r]))
    BY <1>6 DEF ReplyLost, s3
  <2> QED BY <2>1, <2>2, WholeFrame, WholeAssembles
<1>7. ASSUME NEW r \in Requests, Disconnect(r)
      PROVE  WholeInv'
  BY <1>3, <1>7 DEF Disconnect, s3
<1>8. CASE Crash
  <2>1. object' = object /\ req' = [s \in Requests |-> Idle] /\ Idle.pc = "idle"
    BY <1>8 DEF Crash, s3, Idle
  <2> QED BY <2>1 DEF WholeInv, WholeObjects, TotalChunks
<1> QED BY <1>1, <1>2, <1>4, <1>5, <1>6, <1>7, <1>8 DEF Next, Fails

\* The invariants above hold at first.
LEMMA ScriptsWholeInit == Init => ScriptsInv /\ WholeInv /\ IdsInv
<1> SUFFICES ASSUME Init PROVE ScriptsInv /\ WholeInv /\ IdsInv
  OBVIOUS
<1>1. /\ Idle.pc = "idle" /\ Idle.u = NoUpload
      /\ ~NoMeta.live /\ Closed("none").state = "none"
  BY DEF Idle, NoMeta, Closed
<1>2. \A r \in Requests : req[r] = Idle
  BY DEF Init
<1>3. ScriptsInv
  BY <1>1, <1>2 DEF ScriptsInv, Scripted
<1>4. WholeInv
  BY <1>1, <1>2 DEF Init, WholeInv, WholeObjects
<1>5. IdsInv
  BY <1>1, <1>2 DEF Init, IdsInv, InitPcs
<1> QED BY <1>3, <1>4, <1>5

\* Every object S3 has consists of all chunks of its file, whatever chunks are
\* sent twice, lost, sent late or to an upload that has been cancelled.
THEOREM ObjectsAreWhole == Spec => []WholeObjects
<1> DEFINE Inv == IInv /\ ScriptsInv /\ WholeInv
<1>1. Init => Inv
  BY InitInv, ScriptsWholeInit
<1>2. Inv /\ [Next]_vars => Inv'
  <2>1. IInv => TypeInv
    BY DEF IInv
  <2> QED BY <2>1, NextInv, ScriptsNext, WholeNext
<1>3. Inv => WholeObjects
  BY DEF WholeInv
<1> QED BY <1>1, <1>2, <1>3, PTL DEF Spec

-----------------------------------------------------------------------------
(* One active upload *)

AtMostOne(S) == \A a, b \in S : a = b

\* What makeRoomForActiveUpload has seen bounds the active set S: before it
\* evicts, after it has picked its victim, and, at the end, nothing is left.
Room(q, S) ==
  /\ q.pc = "iMetas" => S \subseteq q.set /\ AtMostOne(q.set)
  /\ q.pc = "iEvict" /\ q.todo = <<>> => S \subseteq q.set /\ AtMostOne(q.set)
  /\ q.pc = "iEvict" /\ q.todo # <<>> => S \subseteq {q.v} /\ q.set = {}
  /\ q.pc = "iAdd" => S = {}

\* An initializeUpload past its lock holds it, and so has the set to itself.
Holding(q) == q.pc \in InitPcs \ {"iLock"}
SlotInv ==
  /\ \A r \in Requests : Holding(req[r]) => initLock = r
  /\ AtMostOne(active)
  /\ \A r \in Requests : Room(req[r], active)

\* The invariant says of the set what the property counts.
LEMMA AtMostOneCounts ==
  ASSUME NEW S, AtMostOne(S)
  PROVE  /\ Cardinality(S) \in {0, 1}
         /\ Cardinality(S) = 0 <=> S = {}
         /\ IsFiniteSet(S)
<1>1. CASE S = {}
  BY <1>1, FS_EmptySet
<1>2. CASE S # {}
  <2>1. PICK a \in S : TRUE
    BY <1>2
  <2>2. S = {a}
    BY <2>1 DEF AtMostOne
  <2> QED BY <2>2, FS_Singleton
<1> QED BY <1>1, <1>2

\* Removing uploads from the set makes room.
LEMMA RoomShrinks ==
  ASSUME NEW q, NEW S, NEW T \in SUBSET S, Room(q, S)
  PROVE  Room(q, T)
  BY DEF Room

\* Handlers outside initializeUpload, and those that end or leave it by an
\* exception, claim nothing of the set.
Claimless(q) == q.pc \notin {"iMetas", "iEvict", "iAdd"}
LEMMA RoomElsewhere ==
  ASSUME NEW q, NEW S, Claimless(q)
  PROVE  Room(q, S)
  BY DEF Room, Claimless

\* A step of a handler that takes no lock and adds nothing to the set.
LEMMA SlotFrame ==
  ASSUME SlotInv, NEW r \in Requests, Only(r), active' \subseteq active,
         initLock' = initLock, Holding(req'[r]) => Holding(req[r]),
         Room(req'[r], active')
  PROVE  SlotInv'
<1>1. \A s \in Requests : Holding(req'[s]) => initLock' = s
  BY DEF SlotInv, Only
<1>2. AtMostOne(active')
  BY DEF SlotInv, AtMostOne
<1>3. ASSUME NEW s \in Requests PROVE Room(req'[s], active')
  <2>1. CASE s # r
    BY <2>1, RoomShrinks DEF SlotInv, Only
  <2> QED BY <2>1
<1> QED BY <1>1, <1>2, <1>3 DEF SlotInv

\* A step of no handler.
LEMMA SlotElsewhere ==
  ASSUME SlotInv, UNCHANGED req, active' \subseteq active,
         \A s \in Requests : Holding(req[s]) => initLock' = s
  PROVE  SlotInv'
<1>1. AtMostOne(active')
  BY DEF SlotInv, AtMostOne
<1>2. ASSUME NEW s \in Requests PROVE Room(req'[s], active')
  BY RoomShrinks DEF SlotInv
<1> QED BY <1>1, <1>2 DEF SlotInv

\* An exception leaves initializeUpload's lock with the handler that has it.
LEMMA ThrowSlot ==
  ASSUME TypeInv, NEW r \in Requests, Throw(r)
  PROVE  Only(r) /\ (Holding(req'[r]) => Holding(req[r])) /\ Claimless(req'[r])
<1>1. req[r] \in Handler /\ Only(r) /\ req'[r] = Raise(req[r])
  BY ReqTyped, ThrowFollows DEF ReqInv
<1>2. Claimless(req'[r])
  BY <1>1, RaiseLands DEF Claimless
<1>3. CASE req[r].pc = "iLock"
  <2>1. req'[r] = Idle
    BY <1>1, <1>3 DEF Raise, ChunkPcs, FinalizePcs
  <2> QED BY <1>1, <1>2, <2>1 DEF Holding, Idle, InitPcs
<1>4. CASE req[r].pc # "iLock"
  BY <1>1, <1>2, <1>4, RaiseFollows DEF Follows, Holding, InitPcs
<1> QED BY <1>3, <1>4

\* The return of a cleanup call goes on with the eviction, and the last call of
\* an eviction, which takes the victim out of the set, makes room.
LEMMA ReturnsSlot ==
  ASSUME TypeInv, ScriptsInv, SlotInv, NEW r \in Requests, Returns(r),
         req[r].todo # <<>>, active' \subseteq active,
         req[r].pc = "iEvict" /\ req[r].todo = <<"active">> =>
           active' \subseteq active \ {req[r].v}
  PROVE  /\ Only(r) /\ (Holding(req'[r]) => Holding(req[r]))
         /\ Room(req'[r], active')
<1> DEFINE q == req[r]
           p == Continue(q)
<1>1. /\ q \in Handler /\ Shaped(q) /\ Scripted(q) /\ q.todo # <<>>
      /\ Only(r) /\ req'[r] = p /\ Follows(q, p)
      /\ Room(q, active)
  BY ReqTyped, ReturnsFollows DEF ReqInv, ScriptsInv, SlotInv
<1>2. Holding(p) => Holding(q)
  BY <1>1 DEF Follows, Shaped, Holding, InitPcs
<1>3. Room(p, active')
  <2>1. CASE /\ p.pc = q.pc /\ p.v = q.v /\ p.set = q.set /\ p.todo = Tail(q.todo)
             /\ Len(q.todo) > 1
    <3>1. CASE q.pc = "iEvict"
      <4>1. active \subseteq {q.v} /\ q.set = {}
        BY <1>1, <3>1 DEF Room
      <4>2. p.todo # <<>>
        <5>1. q.todo \in CancelTails
          BY <1>1, <3>1 DEF Scripted
        <5>2. p.todo \in CancelTails
          BY <2>1, <5>1, CancelTailsAre
        <5> HIDE DEF p
        <5> QED BY <5>2 DEF CancelTails
      <4> HIDE DEF p, q
      <4> QED BY <2>1, <3>1, <4>1, <4>2 DEF Room
    <3>2. CASE q.pc # "iEvict"
      <4>1. Claimless(p)
        BY <1>1, <2>1, <3>2 DEF Shaped, Claimless
      <4> QED BY <4>1, RoomElsewhere
    <3> QED BY <3>1, <3>2
  <2>2. CASE /\ q.pc = "iEvict" /\ q.todo = <<"active">> /\ p.set = q.set
             /\ p.todo = <<>> /\ p.pc = IF q.set = {} THEN "iAdd" ELSE "iEvict"
    <3>1. active \subseteq {q.v} /\ q.set = {}
      BY <1>1, <2>2 DEF Room
    <3>2. active' = {} /\ p.pc = "iAdd"
      BY <2>2, <3>1
    <3> HIDE DEF p
    <3> QED BY <3>2 DEF Room
  <2>3. CASE p = At("iFail", q.u) \/ p = At("cUnlock", q.u)
    <3>1. Claimless(p)
      BY <2>3, AtIs DEF Claimless
    <3> QED BY <3>1, RoomElsewhere
  <2>4. CASE p = Idle
    <3>1. Claimless(p)
      BY <2>4 DEF Claimless, Idle
    <3> QED BY <3>1, RoomElsewhere
  <2> QED BY <1>1, <2>1, <2>2, <2>3, <2>4, ContinueLeads
<1> QED BY <1>1, <1>2, <1>3

\* The holder of the lock that has made room adds its upload.
LEMMA AddSlot ==
  ASSUME SlotInv, NEW r \in Requests, Only(r), req[r].pc = "iAdd",
         active' = active \cup {req[r].u}, initLock' = initLock, Claimless(req'[r])
  PROVE  SlotInv'
<1>1. Holding(req[r]) /\ active = {}
  BY DEF Holding, InitPcs, SlotInv, Room
<1>2. \A s \in Requests \ {r} : ~Holding(req[s])
  BY <1>1 DEF SlotInv
<1>3. \A s \in Requests : Holding(req'[s]) => initLock' = s
  BY <1>1, <1>2 DEF SlotInv, Only
<1>4. AtMostOne(active')
  BY <1>1 DEF AtMostOne
<1>5. ASSUME NEW s \in Requests PROVE Claimless(req'[s])
  BY <1>2, <1>5 DEF Only, Claimless, Holding, InitPcs
<1>6. \A s \in Requests : Room(req'[s], active')
  BY <1>5, RoomElsewhere
<1> QED BY <1>3, <1>4, <1>6 DEF SlotInv

\* Within initializeUpload.
LEMMA InitSlot ==
  ASSUME TypeInv, ScriptsInv, SlotInv, NEW r \in Requests,
         \/ InitLock(r) \/ InitConflict(r) \/ CreateMultipart(r) \/ SetMeta(r)
         \/ SetIndex(r) \/ ReadActive(r) \/ ReadMetas(r) \/ Evict(r)
         \/ AddActive(r) \/ InitUnlock(r)
  PROVE  SlotInv'
<1>0. /\ req[r] \in Handler /\ req \in [Requests -> Handler] /\ Shaped(req[r])
      /\ ReqInv
  BY ReqTyped DEF ReqInv
<1>1. CASE InitLock(r)
  <2>1. Only(r) /\ req'[r].pc = "iCreate" /\ initLock = Free /\ initLock' = r
        /\ active' = active
    BY <1>0, <1>1, GotoMoves DEF InitLock
  <2>2. \A s \in Requests : ~Holding(req[s])
    BY <2>1 DEF SlotInv
  <2>3. \A s \in Requests : Holding(req'[s]) => initLock' = s
    BY <2>1, <2>2 DEF Only
  <2>4. Room(req'[r], active')
    BY <2>1 DEF Room
  <2>5. \A s \in Requests : Room(req'[s], active')
    BY <2>1, <2>4 DEF SlotInv, Only
  <2> QED BY <2>1, <2>3, <2>5 DEF SlotInv
<1>2. CASE InitConflict(r)
  <2>1. Only(r) /\ req'[r] = Idle /\ UNCHANGED <<initLock, active>>
    BY <1>0, <1>2, FinishFollows DEF InitConflict, redis
  <2>2. ~Holding(req'[r]) /\ Claimless(req'[r])
    BY <2>1 DEF Holding, Claimless, Idle, InitPcs
  <2> QED BY <2>1, <2>2, RoomElsewhere, SlotFrame
<1>3. CASE CreateMultipart(r) \/ SetMeta(r) \/ SetIndex(r)
  <2>1. \E from \in {"iCreate", "iMeta", "iIndex"} :
          \E to \in {"iMeta", "iIndex", "iMembers"} : Goto(r, from, to)
    BY <1>3 DEF CreateMultipart, SetMeta, SetIndex
  <2>2. UNCHANGED <<initLock, active>>
    BY <1>3 DEF CreateMultipart, SetMeta, SetIndex, redis
  <2>3. /\ Only(r) /\ req[r].pc \in {"iCreate", "iMeta", "iIndex"}
        /\ req'[r].pc \in {"iMeta", "iIndex", "iMembers"}
    BY <1>0, <2>1, GotoMoves
  <2>4. Holding(req[r]) /\ Claimless(req'[r])
    BY <2>3 DEF Holding, Claimless, InitPcs
  <2> QED BY <2>2, <2>3, <2>4, RoomElsewhere, SlotFrame
<1>4. CASE ReadActive(r)
  <2> DEFINE free == Cardinality(active) < MAX_ACTIVE_UPLOADS_PER_USER
  <2>1. /\ Only(r) /\ req'[r].pc = (IF free THEN "iAdd" ELSE "iMetas")
        /\ req'[r].set = (IF free THEN {} ELSE active)
        /\ UNCHANGED <<initLock, active>> /\ req[r].pc = "iMembers"
    BY <1>0, <1>4 DEF ReadActive, Handler, Only, redis
  <2>2. AtMostOne(active) /\ (free <=> active = {})
    <3>1. AtMostOne(active)
      BY DEF SlotInv
    <3> QED BY <3>1, AtMostOneCounts DEF MAX_ACTIVE_UPLOADS_PER_USER
  <2> HIDE DEF free
  <2>3. Room(req'[r], active')
    BY <2>1, <2>2 DEF Room
  <2>4. Holding(req[r])
    BY <2>1 DEF Holding, InitPcs
  <2> QED BY <2>1, <2>3, <2>4, SlotFrame
<1>5. CASE ReadMetas(r)
  <2> DEFINE candidates == {u \in req[r].set : meta[u].live}
  <2>1. PICK victims \in SUBSET candidates :
          /\ Cardinality(victims)
               = Cardinality(candidates) - MAX_ACTIVE_UPLOADS_PER_USER + 1
          /\ req' = [req EXCEPT ![r].set = victims,
               ![r].pc = IF victims = {} THEN "iAdd" ELSE "iEvict"]
    BY <1>5 DEF ReadMetas
  <2>2. /\ req[r].pc = "iMetas" /\ initLock' = initLock
        /\ active' = active \ (req[r].set \ candidates)
    BY <1>5 DEF ReadMetas
  <2>3. /\ Only(r) /\ req'[r].set = victims /\ req'[r].todo = req[r].todo
        /\ req'[r].pc = IF victims = {} THEN "iAdd" ELSE "iEvict"
    BY <1>0, <2>1 DEF Handler, Only
  <2>4. active \subseteq req[r].set /\ AtMostOne(req[r].set)
    BY <2>2 DEF SlotInv, Room
  <2>5. victims = candidates
    <3>1. AtMostOne(candidates) /\ AtMostOne(victims)
      BY <2>4 DEF AtMostOne
    <3>2. Cardinality(victims) = Cardinality(candidates)
      <4>1. Cardinality(candidates) \in {0, 1}
        BY <3>1, AtMostOneCounts
      <4> QED BY <2>1, <4>1 DEF MAX_ACTIVE_UPLOADS_PER_USER
    <3>3. victims = {} <=> candidates = {}
      BY <3>1, <3>2, AtMostOneCounts
    <3> QED BY <3>1, <3>3 DEF AtMostOne
  <2>6. active' \subseteq victims /\ AtMostOne(victims)
    BY <2>2, <2>4, <2>5 DEF AtMostOne
  <2>7. req[r].todo = <<>>
    BY <1>0, <2>2 DEF Shaped
  <2>8. Room(req'[r], active')
    BY <2>3, <2>6, <2>7 DEF Room
  <2>9. Holding(req[r])
    BY <2>2 DEF Holding, InitPcs
  <2> QED BY <2>2, <2>3, <2>8, <2>9, SlotFrame
<1>6. CASE Evict(r)
  <2>1. PICK v \in req[r].set :
          req' = [req EXCEPT ![r].v = v, ![r].todo = CancelCalls, ![r].set = @ \ {v}]
    BY <1>6 DEF Evict
  <2>2. /\ Only(r) /\ req'[r].pc = "iEvict" /\ req'[r].v = v
        /\ req'[r].todo = CancelCalls /\ req'[r].set = req[r].set \ {v}
    BY <1>0, <1>6, <2>1 DEF Evict, Handler, Only
  <2>3. req[r].pc = "iEvict" /\ req[r].todo = <<>> /\ UNCHANGED <<initLock, active>>
    BY <1>6 DEF Evict, redis
  <2>4. active \subseteq req[r].set /\ AtMostOne(req[r].set)
    BY <2>3 DEF SlotInv, Room
  <2>5. active \subseteq {v} /\ req[r].set \ {v} = {}
    BY <2>4 DEF AtMostOne
  <2>6. CancelCalls # <<>>
    BY DEF CancelCalls
  <2>7. Room(req'[r], active')
    BY <2>2, <2>3, <2>5, <2>6 DEF Room
  <2>8. Holding(req[r])
    BY <2>3 DEF Holding, InitPcs
  <2> QED BY <2>2, <2>3, <2>7, <2>8, SlotFrame
<1>7. CASE AddActive(r)
  <2>1. /\ Only(r) /\ req[r].pc = "iAdd" /\ req'[r].pc = "iUnlock"
        /\ active' = active \cup {req[r].u} /\ initLock' = initLock
    BY <1>0, <1>7, GotoMoves DEF AddActive
  <2>2. Claimless(req'[r])
    BY <2>1 DEF Claimless
  <2> QED BY <2>1, <2>2, AddSlot
<1>8. CASE InitUnlock(r)
  <2>1. /\ Only(r) /\ req'[r] = Idle /\ active' = active
        /\ initLock' \in {initLock, IF initLock = r THEN Free ELSE initLock}
    BY <1>0, <1>8, FinishFollows DEF InitUnlock
  <2>2. Holding(req[r])
    BY <1>8 DEF InitUnlock, Holding, InitPcs
  <2>3. \A s \in Requests \ {r} : ~Holding(req[s])
    BY <2>2 DEF SlotInv
  <2>4. ~Holding(req'[r]) /\ Claimless(req'[r])
    BY <2>1 DEF Holding, Claimless, Idle, InitPcs
  <2>5. \A s \in Requests : ~Holding(req'[s])
    BY <2>1, <2>3, <2>4 DEF Only
  <2>6. \A s \in Requests : Room(req'[s], active')
    BY <2>1, <2>4, RoomElsewhere DEF SlotInv, Only
  <2> QED BY <2>1, <2>5, <2>6 DEF SlotInv
<1> QED BY <1>1, <1>2, <1>3, <1>4, <1>5, <1>6, <1>7, <1>8
\* The calls of a cleanup script.
LEMMA CallSlot ==
  ASSUME TypeInv, ScriptsInv, SlotInv, NEW r \in Requests,
         \/ CallAbort(r) \/ CallDeleteObject(r) \/ CallDelMeta(r) \/ CallDelIndex(r)
         \/ CallRelease(r)
  PROVE  SlotInv'
<1>1. req[r].todo # <<>> /\ initLock' = initLock
  BY DEF CallAbort, CallDeleteObject, CallDelMeta, CallDelIndex, CallRelease, Calling,
         redis
<1>2. active' \subseteq active
  BY DEF CallAbort, CallDeleteObject, CallDelMeta, CallDelIndex, CallRelease, redis
<1>3. req[r].todo = <<"active">> => CallRelease(r)
  BY HeadsAre
     DEF CallAbort, CallDeleteObject, CallDelMeta, CallDelIndex, Calling
<1>4. req[r].todo = <<"active">> => active' \subseteq active \ {req[r].v}
  BY <1>3 DEF CallRelease
<1>5. CASE Throw(r)
  <2>1. Only(r) /\ (Holding(req'[r]) => Holding(req[r])) /\ Claimless(req'[r])
    BY <1>5, ThrowSlot
  <2>2. Room(req'[r], active')
    BY <2>1, RoomElsewhere
  <2> QED BY <1>1, <1>2, <2>1, <2>2, SlotFrame
<1>6. CASE Returns(r)
  <2>1. /\ Only(r) /\ (Holding(req'[r]) => Holding(req[r]))
        /\ Room(req'[r], active')
    BY <1>1, <1>2, <1>4, <1>6, ReturnsSlot
  <2> QED BY <1>1, <1>2, <2>1, SlotFrame
<1> QED
  BY <1>5, <1>6
     DEF CallAbort, CallDeleteObject, CallDelMeta, CallDelIndex, CallRelease

\* Every step of a handler.
LEMMA StepsSlot ==
  ASSUME TypeInv, IdsInv, ScriptsInv, SlotInv, NEW r \in Requests, Steps(r)
  PROVE  SlotInv'
<1>1. ASSUME /\ req[r].pc \notin InitPcs /\ Only(r) /\ Follows(req[r], req'[r])
             /\ active' \subseteq active /\ initLock' = initLock
      PROVE  SlotInv'
  <2>1. ~Holding(req'[r]) /\ Claimless(req'[r])
    BY <1>1 DEF Follows, Holding, Claimless, InitPcs
  <2> QED BY <1>1, <2>1, RoomElsewhere, SlotFrame
<1>2. CASE \/ InitLock(r) \/ InitConflict(r) \/ CreateMultipart(r) \/ SetMeta(r)
           \/ SetIndex(r) \/ ReadActive(r) \/ ReadMetas(r) \/ Evict(r)
           \/ AddActive(r) \/ InitUnlock(r)
  BY <1>2, InitSlot
<1>3. CASE ChunkRead(r) \/ ChunkTouch(r) \/ ChunkSend(r) \/ ChunkLand(r)
             \/ ChunkExists(r) \/ ChunkStore(r) \/ ChunkUnlock(r)
  <2>1. Only(r) /\ Follows(req[r], req'[r])
    BY <1>3, ChunkOrdinary
  <2>2. req[r].pc \notin InitPcs /\ UNCHANGED <<active, initLock>>
    BY <1>3 DEF ChunkRead, ChunkTouch, ChunkSend, ChunkLand, ChunkExists, ChunkStore,
                ChunkUnlock, Goto, redis, InitPcs
  <2> QED BY <1>1, <2>1, <2>2
<1>4. CASE Complete(r) \/ HeadObject(r) \/ LockUser(r) \/ SumRows(r) \/ CommitRow(r)
  <2>1. Only(r) /\ Follows(req[r], req'[r])
    BY <1>4, FinalizeOrdinary
  <2>2. req[r].pc \notin InitPcs /\ UNCHANGED <<active, initLock>>
    BY <1>4 DEF Complete, HeadObject, LockUser, SumRows, CommitRow, Goto, redis, InitPcs
  <2> QED BY <1>1, <2>1, <2>2
<1>5. CASE CallAbort(r) \/ CallDeleteObject(r) \/ CallDelMeta(r) \/ CallDelIndex(r)
             \/ CallRelease(r)
  BY <1>5, CallSlot
<1>6. CASE DeleteObject(r) \/ DeleteRow(r) \/ DeleteObjects(r) \/ RemoveRows(r)
             \/ PurgeRows(r) \/ PurgeScan(r) \/ PurgeAborts(r) \/ PurgeKeys(r)
  <2>1. Only(r) /\ Follows(req[r], req'[r])
    BY <1>6, DeletionOrdinary
  <2>2. /\ req[r].pc \notin InitPcs /\ initLock' = initLock
        /\ active' \in {active, {}}
    BY <1>6 DEF DeleteObject, DeleteRow, DeleteObjects, RemoveRows, PurgeRows,
                PurgeScan, PurgeAborts, PurgeKeys, Goto, redis, InitPcs
  <2> QED BY <1>1, <2>1, <2>2
<1> QED BY <1>2, <1>3, <1>4, <1>5, <1>6 DEF Steps

\* Every step, if no holder of the lock outlives its 120 seconds.
LEMMA SlotNext ==
  ASSUME "slow" \notin Faults, TypeInv, IdsInv, ScriptsInv, SlotInv, [Next]_vars
  PROVE  SlotInv'
<1>1. ASSUME NEW r \in Requests, Starts(r)
      PROVE  SlotInv'
  <2>1. Only(r) /\ Begins(req'[r]) /\ UNCHANGED <<active, initLock>>
    BY <1>1, StartBegins
  <2>2. ~Holding(req'[r]) /\ Claimless(req'[r])
    BY <2>1 DEF Begins, Holding, Claimless, InitPcs
  <2> QED BY <2>1, <2>2, RoomElsewhere, SlotFrame
<1>2. CASE Sweeps \/ UNCHANGED vars
  <2>1. /\ UNCHANGED <<req, initLock>>
        /\ active' = active \/ \E u : active' = active \ {u}
    BY <1>2 DEF Sweeps, SweepStart, SweepEnd, SweepInspect, SweepAbort, SweepUntrack,
                vars, redis
  <2> QED BY <2>1, SlotElsewhere DEF SlotInv
<1>3. CASE Expires
  <2>1. CASE ExpireInitLock
    <3>1. /\ UNCHANGED <<req, active>> /\ initLock # Free
          /\ ~HoldsInitLock(initLock) /\ initLock' = Free
      BY <2>1 DEF ExpireInitLock
    <3>2. \A s \in Requests : ~Holding(req[s])
      BY <3>1 DEF SlotInv, HoldsInitLock, Holding
    <3> QED BY <3>1, <3>2, SlotElsewhere
  <2>2. CASE ~ExpireInitLock
    <3>1. UNCHANGED <<req, initLock>> /\ active' \in {active, {}}
      BY <1>3, <2>2 DEF Expires, ExpireActive, Age, ExpireMeta, ExpireIndex,
                        ExpireChunkLock
    <3> QED BY <3>1, SlotElsewhere DEF SlotInv
  <2> QED BY <2>1, <2>2
<1>4. ASSUME NEW r \in Requests, CallFails(r)
      PROVE  SlotInv'
  <2>1. UNCHANGED <<active, initLock>>
    BY <1>4 DEF CallFails, redis
  <2>2. CASE Throw(r)
    <3>1. Only(r) /\ (Holding(req'[r]) => Holding(req[r])) /\ Claimless(req'[r])
      BY <2>2, ThrowSlot
    <3>2. Room(req'[r], active')
      BY <3>1, RoomElsewhere
    <3> QED BY <2>1, <3>1, <3>2, SlotFrame
  <2>3. CASE Returns(r) /\ (Calling(r, "tryAbort") \/ Calling(r, "object"))
    <3>1. req[r].todo # <<>> /\ req[r].todo # <<"active">>
      BY <2>3, HeadsAre DEF Calling
    <3>2. /\ Only(r) /\ (Holding(req'[r]) => Holding(req[r]))
          /\ Room(req'[r], active')
      BY <2>1, <2>3, <3>1, ReturnsSlot
    <3> QED BY <2>1, <3>2, SlotFrame
  <2> QED BY <1>4, <2>2, <2>3 DEF CallFails
<1>5. ASSUME NEW r \in Requests, ReplyLost(r)
      PROVE  SlotInv'
  <2>1. Only(r) /\ (Holding(req'[r]) => Holding(req[r])) /\ Claimless(req'[r])
    BY <1>5, ThrowSlot DEF ReplyLost
  <2>2. /\ initLock' = initLock
        /\ active' = active \/ (req[r].pc = "iAdd" /\ active' = active \cup {req[r].u})
    BY <1>5 DEF ReplyLost
  <2>3. Room(req'[r], active')
    BY <2>1, RoomElsewhere
  <2>4. CASE active' = active
    BY <2>1, <2>2, <2>3, <2>4, SlotFrame
  <2> QED BY <2>1, <2>2, <2>4, AddSlot
<1>6. ASSUME NEW r \in Requests, Disconnect(r)
      PROVE  SlotInv'
  <2>1. UNCHANGED <<req, initLock, active>>
    BY <1>6 DEF Disconnect
  <2> QED BY <2>1, SlotElsewhere DEF SlotInv
<1>7. CASE Crash
  <2>1. req' = [s \in Requests |-> Idle] /\ active' = active
    BY <1>7 DEF Crash, redis
  <2>2. ~Holding(Idle) /\ Claimless(Idle)
    BY DEF Idle, Holding, Claimless, InitPcs
  <2> QED BY <2>1, <2>2, RoomElsewhere DEF SlotInv
<1> QED
  BY <1>1, <1>2, <1>3, <1>4, <1>5, <1>6, <1>7, StepsSlot DEF Next, Fails

\* A user never has more than one active upload, whatever initialisations,
\* evictions, cancellations, purges, sweeps, crashes and failing calls overlap,
\* as long as no initializeUpload takes longer than its lock lasts.
THEOREM OneUploadIsActive ==
  ASSUME "slow" \notin Faults
  PROVE  Spec => []OneActiveUpload
<1> DEFINE Inv == IInv /\ IdsInv /\ ScriptsInv /\ SlotInv
<1>1. Init => Inv
  <2>1. Init => SlotInv
    <3> SUFFICES ASSUME Init PROVE SlotInv
      OBVIOUS
    <3>1. \A s \in Requests : ~Holding(req[s]) /\ Claimless(req[s])
      BY DEF Init, Idle, Holding, Claimless, InitPcs
    <3>2. \A s \in Requests : Room(req[s], active)
      BY <3>1, RoomElsewhere
    <3>3. AtMostOne(active)
      BY DEF Init, AtMostOne
    <3> QED BY <3>1, <3>2, <3>3 DEF SlotInv
  <2> QED BY <2>1, InitInv, ScriptsWholeInit
<1>2. Inv /\ [Next]_vars => Inv'
  <2>1. IInv => TypeInv
    BY DEF IInv
  <2> QED BY <2>1, NextInv, IdsNext, ScriptsNext, SlotNext
<1>3. Inv => OneActiveUpload
  <2>1. AtMostOne(active) => Cardinality(active) <= 1
    BY AtMostOneCounts
  <2> QED BY <2>1 DEF SlotInv, OneActiveUpload, MAX_ACTIVE_UPLOADS_PER_USER
<1> QED BY <1>1, <1>2, <1>3, PTL DEF Spec

-----------------------------------------------------------------------------
(* Kinds of handlers *)

\* A handler stays what it is, with its upload, until it has answered.
Stays(q, q2) ==
  \/ q2 = Idle
  \/ /\ q2.u = q.u
     /\ q2.pc \in InitPcs <=> q.pc \in InitPcs
     /\ q2.pc \in ChunkPcs <=> q.pc \in ChunkPcs
     /\ q2.pc \in FinalizePcs <=> q.pc \in FinalizePcs
     /\ q2.pc \in DeletePcs <=> q.pc \in DeletePcs
     /\ q2.pc \in PurgePcs <=> q.pc \in PurgePcs
     /\ q2.pc = "kClean" <=> q.pc = "kClean"

\* The kinds exclude each other.
LEMMA KindsDiffer ==
  ASSUME NEW q, NEW q2, q2.u = q.u,
         \/ q.pc \in InitPcs /\ q2.pc \in InitPcs
         \/ q.pc \in ChunkPcs /\ q2.pc \in ChunkPcs
         \/ q.pc \in FinalizePcs /\ q2.pc \in FinalizePcs
         \/ q.pc \in DeletePcs /\ q2.pc \in DeletePcs
         \/ q.pc \in PurgePcs /\ q2.pc \in PurgePcs
         \/ q.pc = q2.pc
  PROVE  Stays(q, q2)
  BY DEF Stays, InitPcs, ChunkPcs, FinalizePcs, DeletePcs, PurgePcs

\* An exception leaves a handler of its kind.
LEMMA RaiseStays ==
  ASSUME NEW q \in Handler
  PROVE  Stays(q, Raise(q))
<1>1. CASE q.pc \in {"iCreate", "iCatch"}
  <2>1. Raise(q) = At("iFail", q.u)
    BY <1>1 DEF Raise, ChunkPcs, FinalizePcs
  <2>2. Raise(q).pc \in InitPcs /\ Raise(q).u = q.u /\ q.pc \in InitPcs
    BY <1>1, <2>1, AtIs DEF InitPcs
  <2> QED BY <2>2, KindsDiffer
<1>2. CASE q.pc \in {"iMeta", "iIndex", "iMembers", "iMetas", "iEvict", "iAdd"}
  <2>1. \/ Raise(q) = Clean(q, "iCatch", <<"tryAbort", "index">>)
        \/ Raise(q) = Clean(q, "iCatch", <<"tryAbort", "meta", "index">>)
    BY <1>2 DEF Raise, ChunkPcs, FinalizePcs
  <2>2. Raise(q).pc \in InitPcs /\ Raise(q).u = q.u /\ q.pc \in InitPcs
    BY <1>2, <2>1, CleanIs DEF InitPcs
  <2> QED BY <2>2, KindsDiffer
<1>3. CASE q.pc \in ChunkPcs \ {"cUnlock"}
  <2>1. Raise(q) = At("cUnlock", q.u)
    BY <1>3 DEF Raise, ChunkPcs, FinalizePcs
  <2>2. Raise(q).pc \in ChunkPcs /\ Raise(q).u = q.u /\ q.pc \in ChunkPcs
    BY <1>3, <2>1, AtIs DEF ChunkPcs
  <2> QED BY <2>2, KindsDiffer
<1>4. CASE q.pc \in FinalizePcs \ {"fCatch"}
  <2>1. \E calls : Raise(q) = Clean(q, "fCatch", calls)
    BY <1>4 DEF Raise, ChunkPcs, FinalizePcs
  <2>2. Raise(q).pc \in FinalizePcs /\ Raise(q).u = q.u /\ q.pc \in FinalizePcs
    BY <1>4, <2>1, CleanIs DEF FinalizePcs
  <2> QED BY <2>2, KindsDiffer
<1>5. CASE q.pc \in {"idle", "kClean", "iLock", "iUnlock", "iFail", "cUnlock",
                     "fCatch"} \cup DeletePcs \cup PurgePcs
  <2>1. Raise(q) = Idle
    BY <1>5 DEF Raise, DeletePcs, PurgePcs, ChunkPcs, FinalizePcs
  <2> QED BY <2>1 DEF Stays
<1> QED
  BY <1>1, <1>2, <1>3, <1>4, <1>5
     DEF Handler, Pcs, InitPcs, ChunkPcs, FinalizePcs, DeletePcs, PurgePcs

\* So does the return of a cleanup call.
LEMMA ContinueStays ==
  ASSUME NEW q \in Handler, Shaped(q), Scripted(q), q.todo # <<>>
  PROVE  Stays(q, Continue(q))
<1> DEFINE p == Continue(q)
<1>1. CASE p.pc = q.pc /\ p.u = q.u
  BY <1>1, KindsDiffer
<1>2. CASE q.pc = "iEvict" /\ p.u = q.u /\ p.pc \in {"iAdd", "iEvict"}
  <2>1. q.pc \in InitPcs /\ p.pc \in InitPcs /\ p.u = q.u
    BY <1>2 DEF InitPcs
  <2> QED BY <2>1, KindsDiffer
<1>3. CASE q.pc = "iCatch" /\ p = At("iFail", q.u)
  <2>1. q.pc \in InitPcs /\ p.pc \in InitPcs /\ p.u = q.u
    BY <1>3, AtIs DEF InitPcs
  <2> QED BY <2>1, KindsDiffer
<1>4. CASE q.pc = "cCatch" /\ p = At("cUnlock", q.u)
  <2>1. q.pc \in ChunkPcs /\ p.pc \in ChunkPcs /\ p.u = q.u
    BY <1>4, AtIs DEF ChunkPcs
  <2> QED BY <2>1, KindsDiffer
<1>5. CASE p = Idle
  BY <1>5 DEF Stays
<1> QED BY <1>1, <1>2, <1>3, <1>4, <1>5, ContinueLeads

\* So does every step of a handler.
LEMMA ThrowStays ==
  ASSUME TypeInv, NEW r \in Requests, Throw(r)
  PROVE  Only(r) /\ Stays(req[r], req'[r])
  BY ReqTyped, ThrowFollows, RaiseStays DEF ReqInv
LEMMA ReturnsStays ==
  ASSUME TypeInv, ScriptsInv, NEW r \in Requests, Returns(r), req[r].todo # <<>>
  PROVE  Only(r) /\ Stays(req[r], req'[r])
  BY ReqTyped, ReturnsFollows, ContinueStays DEF ReqInv, ScriptsInv
LEMMA StepsStay ==
  ASSUME TypeInv, IdsInv, ScriptsInv, NEW r \in Requests, Steps(r)
  PROVE  Stays(req[r], req'[r])
<1>0. /\ req[r] \in Handler /\ req \in [Requests -> Handler] /\ ReqInv
  BY ReqTyped DEF ReqInv
<1>1. CASE Throw(r) \/ (Returns(r) /\ req[r].todo # <<>>)
  BY <1>1, ThrowStays, ReturnsStays
<1>2. CASE Finish(r)
  BY <1>0, <1>2, FinishFollows DEF Stays
<1>3. ASSUME \/ InitLock(r) \/ CreateMultipart(r) \/ SetMeta(r) \/ SetIndex(r)
             \/ AddActive(r) \/ ChunkTouch(r) \/ LockUser(r) \/ DeleteObject(r)
      PROVE  Stays(req[r], req'[r])
  <2>1. CASE InitLock(r) \/ CreateMultipart(r) \/ SetMeta(r) \/ SetIndex(r) \/ AddActive(r)
    <3>1. \E from \in InitPcs : \E to \in InitPcs : Goto(r, from, to)
      BY <2>1 DEF InitLock, CreateMultipart, SetMeta, SetIndex, AddActive, InitPcs
    <3> QED BY <1>0, <3>1, GotoMoves, KindsDiffer DEF Same
  <2>2. CASE ChunkTouch(r)
    <3>1. \E from \in ChunkPcs : \E to \in ChunkPcs : Goto(r, from, to)
      BY <2>2 DEF ChunkTouch, ChunkPcs
    <3> QED BY <1>0, <3>1, GotoMoves, KindsDiffer DEF Same
  <2>3. CASE LockUser(r)
    <3>1. \E from \in FinalizePcs : \E to \in FinalizePcs : Goto(r, from, to)
      BY <2>3 DEF LockUser, FinalizePcs
    <3> QED BY <1>0, <3>1, GotoMoves, KindsDiffer DEF Same
  <2>4. CASE DeleteObject(r)
    <3>1. \E from \in DeletePcs : \E to \in DeletePcs : Goto(r, from, to)
      BY <2>4 DEF DeleteObject, DeletePcs
    <3> QED BY <1>0, <3>1, GotoMoves, KindsDiffer DEF Same
  <2> QED BY <1>3, <2>1, <2>2, <2>3, <2>4
<1>4. ASSUME ReadActive(r) \/ ReadMetas(r) \/ Evict(r)
      PROVE  Stays(req[r], req'[r])
  <2>1. Follows(req[r], req'[r])
    BY <1>4, InitOrdinary
  <2>2. req[r].pc \in InitPcs /\ req[r].u # NoUpload
    <3>1. req[r].pc \in InitPcs
      BY <1>4 DEF ReadActive, ReadMetas, Evict, InitPcs
    <3> QED BY <3>1, InitHasUpload
  <2>3. req'[r].u = req[r].u
    <3>1. CASE ReadActive(r)
      BY <1>0, <3>1 DEF ReadActive, Handler
    <3>2. CASE ReadMetas(r)
      <4>1. PICK victims : req' = [req EXCEPT ![r].set = victims,
                              ![r].pc = IF victims = {} THEN "iAdd" ELSE "iEvict"]
        BY <3>2 DEF ReadMetas
      <4> QED BY <1>0, <4>1 DEF Handler
    <3>3. CASE Evict(r)
      <4>1. PICK v : req' = [req EXCEPT ![r].v = v, ![r].todo = CancelCalls,
                                        ![r].set = @ \ {v}]
        BY <3>3 DEF Evict
      <4> QED BY <1>0, <4>1 DEF Handler
    <3> QED BY <1>4, <3>1, <3>2, <3>3
  <2>4. req'[r].pc \in InitPcs
    BY <2>1, <2>2, <2>3 DEF Follows
  <2> QED BY <2>2, <2>3, <2>4, KindsDiffer
<1>5. ASSUME ChunkRead(r) \/ ChunkSend(r) \/ ChunkLand(r) \/ ChunkExists(r) \/ ChunkStore(r),
             ~Throw(r)
      PROVE  Stays(req[r], req'[r])
  <2>1. req[r].pc \in ChunkPcs
    BY <1>5 DEF ChunkRead, ChunkSend, ChunkLand, ChunkExists, ChunkStore, ChunkPcs
  <2>2. req'[r].pc \in ChunkPcs /\ req'[r].u = req[r].u
    <3>1. CASE ChunkRead(r)
      <4>1. req' = [req EXCEPT ![r].pc = "cTouch", ![r].parts = meta[req[r].u].parts]
        BY <1>5, <3>1 DEF ChunkRead
      <4> QED BY <1>0, <4>1 DEF Handler, ChunkPcs
    <3>2. CASE ChunkSend(r) \/ ChunkLand(r)
      <4>1. \E from, to \in {"cSend", "cLand", "cExists"} : Goto(r, from, to)
        BY <1>5, <3>2 DEF ChunkSend, ChunkLand
      <4> QED BY <1>0, <4>1, GotoMoves DEF Same, ChunkPcs
    <3>3. CASE ChunkExists(r)
      <4>1. req'[r] = IF meta[req[r].u].live THEN [req[r] EXCEPT !.pc = "cStore"]
                                    ELSE Clean(req[r], "cCatch", <<"tryAbort">>)
        BY <1>0, <3>3 DEF ChunkExists
      <4>2. req'[r] \in {[req[r] EXCEPT !.pc = "cStore"],
                         Clean(req[r], "cCatch", <<"tryAbort">>)}
        BY <4>1
      <4> QED BY <1>0, <4>2, CleanIs DEF Handler, ChunkPcs
    <3>4. CASE ChunkStore(r)
      <4>1. req'[r] = At("cUnlock", req[r].u)
        BY <1>0, <3>4 DEF ChunkStore
      <4> QED BY <4>1, AtIs DEF ChunkPcs
    <3> QED BY <1>5, <3>1, <3>2, <3>3, <3>4
  <2> QED BY <2>1, <2>2, KindsDiffer
<1>6. ASSUME Complete(r) \/ HeadObject(r) \/ SumRows(r) \/ CommitRow(r), ~Throw(r)
      PROVE  Stays(req[r], req'[r])
  <2>1. req[r].pc \in FinalizePcs
    BY <1>6 DEF Complete, HeadObject, SumRows, CommitRow, FinalizePcs
  <2>2. req'[r].pc \in FinalizePcs /\ req'[r].u = req[r].u
    <3>1. CASE Complete(r) \/ HeadObject(r)
      <4>1. \E from \in FinalizePcs : \E to \in FinalizePcs : Goto(r, from, to)
        BY <1>6, <3>1 DEF Complete, HeadObject, FinalizePcs
      <4> QED BY <1>0, <4>1, GotoMoves DEF Same
    <3>2. CASE SumRows(r)
      <4>1. req' = [req EXCEPT ![r].pc = "fCommit", ![r].sum = Total[rows]]
        BY <1>6, <3>2 DEF SumRows
      <4> QED BY <1>0, <4>1 DEF Handler, FinalizePcs
    <3>3. CASE CommitRow(r)
      <4>1. req'[r] = Clean(req[r], "fClean", FinalizeCalls)
        BY <1>0, <3>3 DEF CommitRow
      <4> QED BY <4>1, CleanIs DEF FinalizePcs
    <3> QED BY <1>6, <3>1, <3>2, <3>3
  <2> QED BY <2>1, <2>2, KindsDiffer
<1>7. ASSUME DeleteObjects(r) \/ PurgeAborts(r) \/ PurgeRows(r) \/ PurgeScan(r)
      PROVE  Stays(req[r], req'[r])
  <2>1. req[r].pc \in PurgePcs
    BY <1>7 DEF DeleteObjects, PurgeAborts, PurgeRows, PurgeScan, PurgePcs
  <2>2. req'[r].pc \in PurgePcs /\ req'[r].u = req[r].u
    <3>1. CASE DeleteObjects(r) \/ PurgeAborts(r)
      <4>1. PICK u : req' = [req EXCEPT ![r].set = @ \ {u}]
        BY <3>1 DEF DeleteObjects, PurgeAborts
      <4> QED BY <1>0, <2>1, <4>1 DEF Handler
    <3>2. CASE PurgeRows(r)
      BY <1>0, <3>2 DEF PurgeRows, Handler, PurgePcs
    <3>3. CASE PurgeScan(r)
      BY <1>0, <3>3 DEF PurgeScan, Handler, PurgePcs
    <3> QED BY <1>7, <3>1, <3>2, <3>3
  <2> QED BY <2>1, <2>2, KindsDiffer
<1>8. CASE InitConflict(r) \/ InitUnlock(r) \/ ChunkUnlock(r) \/ DeleteRow(r)
             \/ RemoveRows(r) \/ PurgeKeys(r)
  BY <1>2, <1>8
     DEF InitConflict, InitUnlock, ChunkUnlock, DeleteRow, RemoveRows, PurgeKeys
<1>9. CASE CallAbort(r) \/ CallDeleteObject(r) \/ CallDelMeta(r) \/ CallDelIndex(r)
             \/ CallRelease(r)
  BY <1>1, <1>9
     DEF CallAbort, CallDeleteObject, CallDelMeta, CallDelIndex, CallRelease, Calling
<1> QED BY <1>1, <1>3, <1>4, <1>5, <1>6, <1>7, <1>8, <1>9 DEF Steps

-----------------------------------------------------------------------------
(* Accepted chunks *)

\* Between its two refreshes a handler of a chunk is the only one of its upload
\* and knows the parts accepted so far.
Writing(q) == q.pc \in {"cTouch", "cSend", "cLand", "cExists", "cStore"}
ChunkInv ==
  /\ \A r \in Requests : req[r].pc \in ChunkPcs => chunkLock[req[r].u] = r
  /\ \A r \in Requests :
       Writing(req[r]) /\ meta[req[r].u].live => req[r].parts = meta[req[r].u].parts

\* The metadata is kept, or removed.
MetaKept ==
  \A u \in Uploads : meta'[u].live => meta[u].live /\ meta'[u].parts = meta[u].parts

LEMMA MetaKeptKeeps == MetaKept => KeepsChunks
  BY DEF MetaKept, KeepsChunks

\* A handler of a chunk has an upload.
LEMMA ChunkHasUpload ==
  ASSUME TypeInv, NEW r \in Requests, req[r].pc \in ChunkPcs
  PROVE  req[r].u \in Uploads
  BY DEF TypeInv, Shaped, ChunkPcs, PurgePcs

\* A step that leaves the request locks alone and writes no new metadata.
LEMMA ChunkFrame ==
  ASSUME TypeInv, ChunkInv, NEW r \in Requests, Only(r), Stays(req[r], req'[r]),
         chunkLock' = chunkLock, MetaKept,
         Writing(req'[r]) => Writing(req[r]) /\ req'[r].parts = req[r].parts
  PROVE  ChunkInv'
<1>0. Idle.pc = "idle"
  BY DEF Idle
<1>1. ASSUME NEW s \in Requests, req'[s].pc \in ChunkPcs
      PROVE  req[s].pc \in ChunkPcs /\ req'[s].u = req[s].u
  BY <1>0, <1>1 DEF Only, Stays, ChunkPcs
<1>2. ASSUME NEW s \in Requests, Writing(req'[s])
      PROVE  /\ Writing(req[s]) /\ req'[s].parts = req[s].parts
             /\ req'[s].pc \in ChunkPcs
  BY <1>2 DEF Only, Writing, ChunkPcs
<1>3. ASSUME NEW s \in Requests, Writing(req'[s]), meta'[req'[s].u].live
      PROVE  req'[s].parts = meta'[req'[s].u].parts
  <2>1. req'[s].u = req[s].u /\ req[s].u \in Uploads
    BY <1>1, <1>2, <1>3, ChunkHasUpload
  <2> QED BY <1>2, <1>3, <2>1 DEF ChunkInv, MetaKept
<1> QED BY <1>1, <1>3 DEF ChunkInv

\* The same for a step of no handler.
LEMMA ChunkFrameElsewhere ==
  ASSUME TypeInv, ChunkInv, UNCHANGED req, MetaKept,
         \A u \in Uploads : \A s \in Requests :
           req[s].pc \in ChunkPcs /\ req[s].u = u => chunkLock'[u] = chunkLock[u]
  PROVE  ChunkInv'
<1>1. ASSUME NEW s \in Requests, Writing(req[s]), meta'[req[s].u].live
      PROVE  req[s].parts = meta'[req[s].u].parts
  <2>1. req[s].u \in Uploads
    BY <1>1, ChunkHasUpload DEF Writing, ChunkPcs
  <2> QED BY <1>1, <2>1 DEF ChunkInv, MetaKept
<1>2. ASSUME NEW s \in Requests, req[s].pc \in ChunkPcs
      PROVE  chunkLock'[req[s].u] = s
  BY <1>2, ChunkHasUpload DEF ChunkInv
<1> QED BY <1>1, <1>2 DEF ChunkInv

\* Only handlers of chunks, and initializeUpload, write metadata.
LEMMA StepsKeepMeta ==
  ASSUME TypeInv, NEW r \in Requests, Steps(r),
         ~SetMeta(r), ~ChunkTouch(r), ~ChunkStore(r)
  PROVE  MetaKept
<1>0. ~NoMeta.live
  BY DEF NoMeta
<1>1. CASE UNCHANGED meta
  BY <1>1 DEF MetaKept
<1>2. CASE \E v : meta' = [meta EXCEPT ![v] = NoMeta]
  <2>1. \A u \in Uploads : meta'[u] \in {meta[u], NoMeta}
    BY <1>2 DEF TypeInv, TypeOK
  <2> QED BY <1>0, <2>1 DEF MetaKept
<1>3. CASE PurgeKeys(r)
  <2>1. \A u \in Uploads : meta'[u] \in {meta[u], NoMeta}
    BY <1>3 DEF PurgeKeys
  <2> QED BY <1>0, <2>1 DEF MetaKept
<1>4. PurgeKeys(r) \/ UNCHANGED meta \/ \E v : meta' = [meta EXCEPT ![v] = NoMeta]
  BY DEF Steps, InitLock, InitConflict, CreateMultipart, SetIndex,
         ReadActive, ReadMetas, Evict, AddActive, InitUnlock, ChunkRead,
         ChunkSend, ChunkLand, ChunkExists, ChunkUnlock,
         Complete, HeadObject, LockUser, SumRows, CommitRow, CallAbort,
         CallDeleteObject, CallDelMeta, CallDelIndex, CallRelease, DeleteObject,
         DeleteRow, DeleteObjects, RemoveRows, PurgeRows, PurgeScan, PurgeAborts,
         redis
<1> QED BY <1>1, <1>2, <1>3, <1>4

\* What a handler of a chunk knows it has read in ChunkRead.
LEMMA StepsWriting ==
  ASSUME TypeInv, IdsInv, ScriptsInv, NEW r \in Requests, Steps(r), ~ChunkRead(r),
         Writing(req'[r])
  PROVE  Writing(req[r]) /\ req'[r].parts = req[r].parts
<1>0. req[r] \in Handler /\ req \in [Requests -> Handler] /\ ReqInv
      /\ req[r].pc \in ChunkPcs
  <2>1. Stays(req[r], req'[r]) /\ Idle.pc = "idle"
    BY StepsStay DEF Idle
  <2> QED BY <2>1, ReqTyped DEF ReqInv, Stays, Writing, ChunkPcs
<1>1. ~Throw(r)
  <2>1. Throw(r) => req'[r] = Raise(req[r])
    BY <1>0, ThrowFollows
  <2> QED BY <1>0, <2>1, RaiseLands DEF Writing
<1>2. ~(Returns(r) /\ req[r].todo # <<>>)
  <2>1. ASSUME Returns(r), req[r].todo # <<>>
        PROVE  req'[r].pc \in Landings
    BY <1>0, <2>1, ReturnsFollows, ContinueLands DEF ReqInv, ScriptsInv
  <2> QED BY <2>1 DEF Landings, CleanupPcs, Writing
<1>3. CASE ChunkTouch(r) \/ ChunkSend(r) \/ ChunkLand(r)
  <2>1. \E from \in {"cTouch", "cSend", "cLand"} :
          \E to \in {"cSend", "cLand", "cExists"} : Goto(r, from, to)
    BY <1>1, <1>3 DEF ChunkTouch, ChunkSend, ChunkLand
  <2> QED BY <1>0, <2>1, GotoMoves DEF Same, Writing
<1>4. CASE ChunkExists(r)
  <2>1. req'[r] = IF meta[req[r].u].live THEN [req[r] EXCEPT !.pc = "cStore"]
                            ELSE Clean(req[r], "cCatch", <<"tryAbort">>)
    BY <1>0, <1>4 DEF ChunkExists
  <2>2. req'[r] \in {[req[r] EXCEPT !.pc = "cStore"],
                     Clean(req[r], "cCatch", <<"tryAbort">>)}
    BY <2>1
  <2>3. req'[r] = [req[r] EXCEPT !.pc = "cStore"]
    BY <2>2, CleanIs DEF Writing
  <2>4. req'[r].parts = req[r].parts
    BY <1>0, <2>3 DEF Handler
  <2> QED BY <1>4, <2>4 DEF ChunkExists, Writing
<1>5. CASE ChunkStore(r)
  <2>1. req'[r] = At("cUnlock", req[r].u)
    BY <1>0, <1>5 DEF ChunkStore
  <2> QED BY <2>1, AtIs DEF Writing
<1>6. CASE ChunkUnlock(r)
  BY <1>0, <1>6, FinishFollows DEF ChunkUnlock, Idle, Writing
<1>7. CASE CallAbort(r) \/ CallDeleteObject(r) \/ CallDelMeta(r) \/ CallDelIndex(r)
             \/ CallRelease(r)
  BY <1>1, <1>2, <1>7
     DEF CallAbort, CallDeleteObject, CallDelMeta, CallDelIndex, CallRelease, Calling
<1>8. ~(\/ InitLock(r) \/ InitConflict(r) \/ CreateMultipart(r) \/ SetMeta(r)
        \/ SetIndex(r) \/ ReadActive(r) \/ ReadMetas(r) \/ Evict(r) \/ AddActive(r)
        \/ InitUnlock(r) \/ Complete(r) \/ HeadObject(r) \/ LockUser(r) \/ SumRows(r)
        \/ CommitRow(r) \/ DeleteObject(r) \/ DeleteRow(r) \/ DeleteObjects(r)
        \/ RemoveRows(r) \/ PurgeRows(r) \/ PurgeScan(r) \/ PurgeAborts(r)
        \/ PurgeKeys(r))
  BY <1>0 DEF InitLock, InitConflict, CreateMultipart, SetMeta, SetIndex, ReadActive,
       ReadMetas, Evict, AddActive, InitUnlock, Complete, HeadObject, LockUser, SumRows,
       CommitRow, DeleteObject, DeleteRow, DeleteObjects, RemoveRows, PurgeRows,
       PurgeScan, PurgeAborts, PurgeKeys, Goto, ChunkPcs
<1> QED BY <1>3, <1>4, <1>5, <1>6, <1>7, <1>8 DEF Steps

\* A handler of a chunk writes the metadata of its upload.
LEMMA WriteKeeps ==
  ASSUME TypeInv, ChunkInv, NEW r \in Requests, Only(r), Writing(req[r]),
         req'[r].pc \in ChunkPcs, req'[r].u = req[r].u, chunkLock' = chunkLock,
         NEW parts,
         parts = req[r].parts \/ parts = Append(req[r].parts, r),
         meta' = [meta EXCEPT ![req[r].u] = MetaWith(parts)],
         Writing(req'[r]) => req'[r].parts = parts
  PROVE  ChunkInv' /\ KeepsChunks
<1> DEFINE u == req[r].u
<1>0. /\ u \in Uploads /\ req[r].pc \in ChunkPcs /\ req[r].parts \in Seq(Requests)
      /\ meta \in [Uploads -> Meta]
  <2>1. req[r].pc \in ChunkPcs
    BY DEF Writing, ChunkPcs
  <2> QED BY <2>1, ChunkHasUpload DEF TypeInv, TypeOK, Handler
<1>1. /\ meta'[u].parts = parts
      /\ \A w \in Uploads \ {u} : meta'[w] = meta[w]
  BY <1>0 DEF MetaWith
<1>2. \A s \in Requests \ {r} : req'[s] = req[s] /\ (req[s].pc \in ChunkPcs => req[s].u # u)
  BY <1>0 DEF ChunkInv, Only
<1>3. \A s \in Requests : req'[s].pc \in ChunkPcs => chunkLock'[req'[s].u] = s
  BY <1>0, <1>2 DEF ChunkInv
<1>4. ASSUME NEW s \in Requests, Writing(req'[s]), meta'[req'[s].u].live
      PROVE  req'[s].parts = meta'[req'[s].u].parts
  <2>1. CASE s = r
    BY <1>1, <1>4, <2>1
  <2>2. CASE s # r
    <3>1. /\ req'[s] = req[s] /\ req[s].pc \in ChunkPcs
      BY <1>2, <1>4, <2>2 DEF Writing, ChunkPcs
    <3>2. req[s].u \in Uploads \ {u}
      BY <1>2, <2>2, <3>1, ChunkHasUpload
    <3>3. meta'[req[s].u] = meta[req[s].u]
      BY <1>1, <3>2
    <3> QED BY <1>4, <3>1, <3>3 DEF ChunkInv
  <2> QED BY <2>1, <2>2
<1>5. ASSUME meta[u].live
      PROVE  /\ Len(meta[u].parts) <= Len(meta'[u].parts)
             /\ \A i \in DOMAIN meta[u].parts : meta'[u].parts[i] = meta[u].parts[i]
  <2>1. req[r].parts = meta[u].parts
    BY <1>5 DEF ChunkInv
  <2>2. CASE parts = req[r].parts
    BY <1>0, <1>1, <2>1, <2>2
  <2>3. CASE parts = Append(req[r].parts, r)
    <3>1. ASSUME NEW p \in Seq(Requests)
          PROVE  /\ Len(p) <= Len(Append(p, r))
                 /\ \A i \in DOMAIN p : Append(p, r)[i] = p[i]
      OBVIOUS
    <3>2. /\ Len(req[r].parts) <= Len(Append(req[r].parts, r))
          /\ \A i \in DOMAIN req[r].parts : Append(req[r].parts, r)[i] = req[r].parts[i]
      BY <1>0, <3>1
    <3>3. meta'[u].parts = Append(req[r].parts, r)
      BY <1>1, <2>3
    <3> HIDE DEF u
    <3> QED BY <2>1, <3>2, <3>3
  <2> QED BY <2>2, <2>3
<1>6. ASSUME NEW w \in Uploads \ {u}
      PROVE  /\ Len(meta[w].parts) <= Len(meta'[w].parts)
             /\ \A i \in DOMAIN meta[w].parts : meta'[w].parts[i] = meta[w].parts[i]
  <2>1. meta'[w] = meta[w] /\ Len(meta[w].parts) \in Nat
    BY <1>0, <1>1 DEF Meta
  <2> QED BY <2>1
<1> QED BY <1>3, <1>4, <1>5, <1>6 DEF ChunkInv, KeepsChunks

\* Steps of a handler.
LEMMA StepsChunks ==
  ASSUME TypeInv, IdsInv, ScriptsInv, ChunkInv, NEW r \in Requests, Steps(r)
  PROVE  ChunkInv' /\ KeepsChunks
<1>0. /\ Only(r) /\ Stays(req[r], req'[r]) /\ ReqInv
      /\ req \in [Requests -> Handler] /\ meta \in [Uploads -> Meta]
      /\ req[r] \in Handler
  BY StepsProceed, StepsStay, ReqTyped DEF Proceeds, ReqInv, TypeInv, TypeOK
<1>1. CASE SetMeta(r)
  <2> DEFINE u == req[r].u
  <2>1. /\ req[r].pc = "iMeta" /\ req'[r].pc = "iIndex" /\ chunkLock' = chunkLock
        /\ meta' = [meta EXCEPT ![u] = MetaWith(<<>>)]
    BY <1>0, <1>1, GotoMoves DEF SetMeta
  <2>2. u \in Uploads /\ u \notin issued /\ ~meta[u].live
    BY <2>1, InitHasUpload DEF IdsInv, InitPcs
  <2>3. \A w \in Uploads \ {u} : meta'[w] = meta[w]
    BY <2>1
  <2>4. KeepsChunks
    <3>1. ASSUME NEW w \in Uploads, meta[w].live
          PROVE  /\ Len(meta[w].parts) <= Len(meta'[w].parts)
                 /\ \A i \in DOMAIN meta[w].parts : meta'[w].parts[i] = meta[w].parts[i]
      <4>1. meta'[w] = meta[w] /\ Len(meta[w].parts) \in Nat
        BY <1>0, <2>2, <2>3, <3>1 DEF Meta
      <4> QED BY <4>1
    <3> QED BY <3>1 DEF KeepsChunks
  <2>5. ASSUME NEW s \in Requests, req'[s].pc \in ChunkPcs
        PROVE  s # r /\ req'[s] = req[s]
    BY <1>0, <2>1, <2>5 DEF Only, ChunkPcs
  <2>6. ASSUME NEW s \in Requests, Writing(req'[s]), meta'[req'[s].u].live
        PROVE  req'[s].parts = meta'[req'[s].u].parts
    <3>1. req'[s] = req[s] /\ req[s].pc \in ChunkPcs
      BY <2>5, <2>6 DEF Writing, ChunkPcs
    <3>2. req[s].u \in Uploads \ {u}
      BY <2>2, <3>1, WorksForIssued
    <3> QED BY <2>3, <2>6, <3>1, <3>2 DEF ChunkInv
  <2> QED BY <2>1, <2>4, <2>5, <2>6 DEF ChunkInv
<1>2. CASE ChunkTouch(r)
  <2>1. /\ req[r].pc = "cTouch" /\ req'[r].pc = "cSend" /\ req'[r].u = req[r].u
        /\ req'[r].parts = req[r].parts /\ chunkLock' = chunkLock
        /\ meta' = [meta EXCEPT ![req[r].u] = MetaWith(req[r].parts)]
    BY <1>0, <1>2, GotoMoves DEF ChunkTouch, Same
  <2>2. Writing(req[r]) /\ req'[r].pc \in ChunkPcs
    BY <2>1 DEF Writing, ChunkPcs
  <2> QED BY <1>0, <2>1, <2>2, WriteKeeps
<1>3. CASE ChunkStore(r)
  <2>1. /\ req[r].pc = "cStore" /\ req'[r] = At("cUnlock", req[r].u)
        /\ chunkLock' = chunkLock
        /\ meta' = [meta EXCEPT ![req[r].u] = MetaWith(Append(req[r].parts, r))]
    BY <1>0, <1>3 DEF ChunkStore
  <2>2. req'[r].pc = "cUnlock" /\ req'[r].u = req[r].u
    BY <2>1, AtIs
  <2>3. Writing(req[r]) /\ req'[r].pc \in ChunkPcs /\ ~Writing(req'[r])
    BY <2>1, <2>2 DEF Writing, ChunkPcs
  <2> QED BY <1>0, <2>1, <2>2, <2>3, WriteKeeps
<1>4. CASE ChunkRead(r)
  <2>1. MetaKept /\ chunkLock' = chunkLock /\ meta' = meta
    BY <1>4 DEF ChunkRead, redis, MetaKept
  <2>2. CASE Throw(r)
    <3>1. ~Writing(req'[r])
      BY <1>0, <2>2, ThrowFollows, RaiseLands DEF Writing
    <3> QED BY <1>0, <2>1, <3>1, ChunkFrame, MetaKeptKeeps
  <2>3. CASE ~Throw(r)
    <3>1. /\ req' = [req EXCEPT ![r].pc = "cTouch", ![r].parts = meta[req[r].u].parts]
          /\ req[r].pc = "cRead"
      BY <1>4, <2>3 DEF ChunkRead
    <3>2. req'[r].u = req[r].u /\ req'[r].parts = meta[req[r].u].parts
      BY <1>0, <3>1 DEF Handler
    <3>3. \A s \in Requests : req'[s].pc \in ChunkPcs => chunkLock'[req'[s].u] = s
      BY <1>0, <2>1, <3>1, <3>2 DEF ChunkInv, Only, ChunkPcs
    <3>4. ASSUME NEW s \in Requests, Writing(req'[s]), meta'[req'[s].u].live
          PROVE  req'[s].parts = meta'[req'[s].u].parts
      BY <1>0, <2>1, <3>2, <3>4 DEF ChunkInv, Only
    <3> QED BY <2>1, <3>3, <3>4, MetaKeptKeeps DEF ChunkInv
  <2> QED BY <2>2, <2>3
<1>5. CASE ChunkUnlock(r)
  <2> DEFINE u == req[r].u
  <2>1. /\ req[r].pc = "cUnlock" /\ req'[r] = Idle /\ MetaKept /\ meta' = meta
        /\ chunkLock' = [chunkLock EXCEPT ![u] = IF @ = r THEN Free ELSE @]
    BY <1>0, <1>5, FinishFollows DEF ChunkUnlock, MetaKept
  <2>2. u \in Uploads /\ chunkLock[u] = r
    BY <2>1, ChunkHasUpload DEF ChunkPcs, ChunkInv
  <2>3. ASSUME NEW s \in Requests, req'[s].pc \in ChunkPcs
        PROVE  s # r /\ req'[s] = req[s] /\ req[s].u # u
    BY <1>0, <2>1, <2>2, <2>3 DEF Only, ChunkPcs, Idle, ChunkInv
  <2>4. ASSUME NEW s \in Requests, req'[s].pc \in ChunkPcs
        PROVE  chunkLock'[req'[s].u] = s
    <3>1. req'[s] = req[s] /\ req[s].u # u /\ chunkLock[req[s].u] = s
      BY <2>3, <2>4 DEF ChunkInv
    <3>2. req[s].u \in Uploads
      BY <2>4, <3>1, ChunkHasUpload
    <3> QED BY <2>1, <3>1, <3>2 DEF TypeInv, TypeOK
  <2>5. ASSUME NEW s \in Requests, Writing(req'[s]), meta'[req'[s].u].live
        PROVE  req'[s].parts = meta'[req'[s].u].parts
    BY <2>1, <2>3, <2>5 DEF ChunkInv, Writing, ChunkPcs
  <2> QED BY <2>1, <2>4, <2>5, MetaKeptKeeps DEF ChunkInv
<1>6. CASE ~SetMeta(r) /\ ~ChunkTouch(r) /\ ~ChunkStore(r) /\ ~ChunkRead(r)
             /\ ~ChunkUnlock(r)
  <2>1. MetaKept
    BY <1>6, StepsKeepMeta
  <2>2. chunkLock' = chunkLock
    BY <1>6
       DEF Steps, InitLock, InitConflict, CreateMultipart, SetIndex,
           ReadActive, ReadMetas, Evict, AddActive, InitUnlock,
           ChunkSend, ChunkLand, ChunkExists,
           Complete, HeadObject, LockUser, SumRows, CommitRow, CallAbort,
           CallDeleteObject, CallDelMeta, CallDelIndex, CallRelease, DeleteObject,
           DeleteRow, DeleteObjects, RemoveRows, PurgeRows, PurgeScan, PurgeAborts,
           PurgeKeys, redis
  <2>3. Writing(req'[r]) => Writing(req[r]) /\ req'[r].parts = req[r].parts
    BY <1>6, StepsWriting
  <2> QED BY <1>0, <2>1, <2>2, <2>3, ChunkFrame, MetaKeptKeeps
<1> QED BY <1>1, <1>2, <1>3, <1>4, <1>5, <1>6

\* Every step, if no client disconnects from a chunk that is being handled.
LEMMA ChunksNext ==
  ASSUME "disconnect" \notin Faults, TypeInv, IdsInv, ScriptsInv, ChunkInv, [Next]_vars
  PROVE  ChunkInv' /\ KeepsChunks
<1>0. /\ MetaKept => KeepsChunks
      /\ UNCHANGED meta => MetaKept
  BY MetaKeptKeeps DEF MetaKept
<1>1. ASSUME NEW r \in Requests, Starts(r)
      PROVE  ChunkInv' /\ KeepsChunks
  <2>1. Only(r) /\ req[r] = Idle /\ Begins(req'[r]) /\ meta' = meta
    BY <1>1, StartBegins
  <2>2. ~Writing(req'[r])
    BY <2>1 DEF Begins, Writing
  <2>3. ASSUME NEW s \in Requests, Writing(req'[s]), meta'[req'[s].u].live
        PROVE  req'[s].parts = meta'[req'[s].u].parts
    BY <2>1, <2>2, <2>3 DEF Only, ChunkInv
  <2>4. \A s \in Requests : req'[s].pc \in ChunkPcs => chunkLock'[req'[s].u] = s
    <3>1. CASE \E u \in Uploads : ChunkLock(r, u)
      <4>1. PICK u \in Uploads : ChunkLock(r, u)
        BY <3>1
      <4>2. /\ chunkLock[u] = Free /\ chunkLock' = [chunkLock EXCEPT ![u] = r]
            /\ req'[r].u = u
        BY <4>1, AtIs DEF ChunkLock, TypeInv, TypeOK
      <4>3. \A s \in Requests : req[s].pc \in ChunkPcs => req[s].u # u
        BY <4>2 DEF ChunkInv
      <4>4. ASSUME NEW s \in Requests, req'[s].pc \in ChunkPcs
            PROVE  chunkLock'[req'[s].u] = s
        <5>1. CASE s = r
          BY <4>2, <5>1 DEF TypeInv, TypeOK
        <5>2. CASE s # r
          <6>1. req'[s] = req[s] /\ chunkLock[req[s].u] = s /\ req[s].u # u
            BY <2>1, <4>3, <4>4, <5>2 DEF Only, ChunkInv
          <6>2. req[s].u \in Uploads
            BY <4>4, <6>1, ChunkHasUpload
          <6> QED BY <4>2, <6>1, <6>2 DEF TypeInv, TypeOK
        <5> QED BY <5>1, <5>2
      <4> QED BY <4>4
    <3>2. CASE ~\E u \in Uploads : ChunkLock(r, u)
      <4>1. chunkLock' = chunkLock
        BY <1>1, <3>2
           DEF Starts, InitCheck, FinalizeStart, CancelStart, DeleteStart,
               PurgeStart, RemoveStart, redis
      <4>2. req'[r].pc \notin ChunkPcs
        <5>1. CASE \E u \in Uploads : InitCheck(r, u)
          BY <5>1, AtIs DEF InitCheck, ChunkPcs, TypeInv, TypeOK
        <5>2. CASE \E u \in Uploads : DeleteStart(r, u)
          BY <5>2, AtIs DEF DeleteStart, ChunkPcs, TypeInv, TypeOK
        <5>3. CASE \E u \in Uploads : FinalizeStart(r, u)
          <6>1. PICK u \in Uploads :
                  req' = [req EXCEPT ![r] = [At("fComplete", u) EXCEPT !.parts = meta[u].parts]]
            BY <5>3 DEF FinalizeStart
          <6>2. At("fComplete", u) \in Handler /\ At("fComplete", u).pc = "fComplete"
            BY AtType DEF Pcs, FinalizePcs
          <6> QED BY <6>1, <6>2 DEF Handler, ChunkPcs, TypeInv, TypeOK
        <5>4. CASE \E u \in Uploads : CancelStart(r, u)
          <6>1. \E q, calls : req'[r] = Clean(q, "kClean", calls)
            BY <5>4 DEF CancelStart, TypeInv, TypeOK
          <6> QED BY <6>1, CleanIs DEF ChunkPcs
        <5>5. CASE PurgeStart(r)
          <6>1. req'[r] = [Idle EXCEPT !.pc = "pObjects", !.set = rows]
            BY <5>5 DEF PurgeStart, TypeInv, TypeOK
          <6> QED BY <6>1, IdleType DEF Handler, ChunkPcs
        <5>6. CASE RemoveStart(r)
          <6>1. \E files : req'[r] = [Idle EXCEPT !.pc = "rObjects", !.set = files,
                                                  !.keys = files]
            BY <5>6 DEF RemoveStart, TypeInv, TypeOK
          <6> QED BY <6>1, IdleType DEF Handler, ChunkPcs
        <5> QED BY <1>1, <3>2, <5>1, <5>2, <5>3, <5>4, <5>5, <5>6 DEF Starts
      <4> QED BY <2>1, <4>1, <4>2 DEF Only, ChunkInv
    <3> QED BY <3>1, <3>2
  <2> QED BY <1>0, <2>1, <2>3, <2>4 DEF ChunkInv
<1>2. CASE Sweeps \/ Expires \/ UNCHANGED vars
  <2>1. UNCHANGED req
    BY <1>2 DEF Sweeps, SweepStart, SweepEnd, SweepInspect, SweepAbort, SweepUntrack,
         Expires, ExpireActive, ExpireInitLock, Age, ExpireMeta, ExpireIndex,
         ExpireChunkLock, vars
  <2>2. MetaKept
    <3>0. ~NoMeta.live /\ meta \in [Uploads -> Meta]
      BY DEF NoMeta, TypeInv, TypeOK
    <3>1. CASE \E w : meta' = [meta EXCEPT ![w] = NoMeta]
      <4>1. \A u \in Uploads : meta'[u] \in {meta[u], NoMeta}
        BY <3>0, <3>1
      <4> QED BY <3>0, <4>1 DEF MetaKept
    <3>2. ASSUME NEW w \in Uploads, Age(w)
          PROVE  MetaKept
      <4>1. meta' = [meta EXCEPT ![w] = [meta[w] EXCEPT !.recent = FALSE]]
        BY <3>0, <3>2 DEF Age
      <4> QED BY <3>0, <4>1 DEF Meta, MetaKept
    <3>3. \/ UNCHANGED meta \/ \E w : meta' = [meta EXCEPT ![w] = NoMeta]
          \/ \E w \in Uploads : Age(w)
      BY <1>2 DEF Sweeps, SweepStart, SweepEnd, SweepInspect, SweepAbort, SweepUntrack,
           Expires, ExpireActive, ExpireInitLock, ExpireMeta, ExpireIndex,
           ExpireChunkLock, vars, redis
    <3> QED BY <1>0, <3>1, <3>2, <3>3
  <2>3. \A u \in Uploads : \A s \in Requests :
          req[s].pc \in ChunkPcs /\ req[s].u = u => chunkLock'[u] = chunkLock[u]
    <3>1. ASSUME NEW w \in Uploads, ExpireChunkLock(w)
          PROVE  \A u \in Uploads : \A s \in Requests :
                   req[s].pc \in ChunkPcs /\ req[s].u = u => chunkLock'[u] = chunkLock[u]
      BY <3>1 DEF ExpireChunkLock, ChunkInv, TypeInv, TypeOK
    <3>2. UNCHANGED chunkLock \/ \E w \in Uploads : ExpireChunkLock(w)
      BY <1>2 DEF Sweeps, SweepStart, SweepEnd, SweepInspect, SweepAbort, SweepUntrack,
           Expires, ExpireActive, ExpireInitLock, Age, ExpireMeta, ExpireIndex,
           vars, redis
    <3> QED BY <3>1, <3>2
  <2> QED BY <1>0, <2>1, <2>2, <2>3, ChunkFrameElsewhere
<1>3. ASSUME NEW r \in Requests, CallFails(r) \/ ReplyLost(r)
      PROVE  ChunkInv' /\ KeepsChunks
  <2>1. UNCHANGED <<meta, chunkLock>>
    BY <1>3 DEF CallFails, ReplyLost, redis
  <2>2. Throw(r) \/ (Returns(r) /\ req[r].todo # <<>>)
    BY <1>3 DEF CallFails, ReplyLost, Calling
  <2>3. Only(r) /\ Stays(req[r], req'[r]) /\ ~Writing(req'[r])
    <3>1. CASE Throw(r)
      BY <3>1, ThrowStays, ThrowFollows, RaiseLands, ReqTyped DEF ReqInv, Writing
    <3>2. CASE Returns(r) /\ req[r].todo # <<>>
      <4>1. req'[r].pc \in Landings
        BY <3>2, ReturnsFollows, ContinueLands, ReqTyped DEF ReqInv, ScriptsInv
      <4> QED BY <3>2, <4>1, ReturnsStays DEF Landings, CleanupPcs, Writing
    <3> QED BY <2>2, <3>1, <3>2
  <2> QED BY <1>0, <2>1, <2>3, ChunkFrame
<1>4. \A r \in Requests : ~Disconnect(r)
  BY DEF Disconnect
<1>5. CASE Crash
  <2>1. req' = [s \in Requests |-> Idle] /\ meta' = meta /\ Idle.pc = "idle"
    BY <1>5 DEF Crash, redis, Idle
  <2> QED BY <1>0, <2>1 DEF ChunkInv, Writing, ChunkPcs
<1> QED BY <1>1, <1>2, <1>3, <1>4, <1>5, StepsChunks DEF Next, Fails

\* A chunk the client has been told is accepted stays accepted as long as its
\* upload does, whatever handlers of the same chunk or upload overlap, if no
\* client disconnects from a chunk while it is being handled.
THEOREM AcceptedChunksStay ==
  ASSUME "disconnect" \notin Faults
  PROVE  Spec => [][KeepsChunks]_vars /\ ChunksKept
<1> DEFINE Inv == IInv /\ IdsInv /\ ScriptsInv /\ ChunkInv
<1>1. Init => Inv
  <2>1. Init => ChunkInv
    BY DEF Init, ChunkInv, Idle, Writing, ChunkPcs
  <2> QED BY <2>1, InitInv, ScriptsWholeInit
<1>2. Inv /\ [Next]_vars => Inv' /\ KeepsChunks
  <2>1. IInv => TypeInv
    BY DEF IInv
  <2> QED BY <2>1, NextInv, IdsNext, ScriptsNext, ChunksNext
<1>3. KeepsChunks => (u1 \notin known => KeepsChunks)
  OBVIOUS
<1> QED BY <1>1, <1>2, <1>3, PTL DEF Spec, ChunksKept

-----------------------------------------------------------------------------
(* Rows and objects *)

\* A finalizeUpload between the completion of its object and its row, or about
\* to delete the object again; a deletion under way.
Between(q) ==
  \/ q.pc \in {"fHead", "fLock", "fSum", "fCommit"}
  \/ q.pc = "fCatch" /\ q.todo # <<>> /\ Head(q.todo) = "object"
Deleting(q, u) ==
  \/ q.pc \in DeletePcs /\ q.u = u
  \/ q.pc \in {"pObjects", "rObjects"} /\ u \in q.set \cup q.keys

\* An upload is completed once, and from then on belongs to its finalizeUpload,
\* then to its row, and to deletions only after that.
RowsComplete == \A u \in rows : multipart[u].state = "completed"
BetweenInv ==
  \A r \in Requests : Between(req[r]) =>
    /\ multipart[req[r].u].state = "completed" /\ req[r].u \notin rows
    /\ req[r].pc \in {"fLock", "fSum", "fCommit"} => object[req[r].u] # <<>>
    /\ \A s \in Requests \ {r} : Between(req[s]) => req[s].u # req[r].u
DeletingInv ==
  \A r \in Requests : \A u \in Uploads : Deleting(req[r], u) =>
    /\ multipart[u].state = "completed"
    /\ \A s \in Requests : Between(req[s]) => req[s].u # u
RemovingInv ==
  \A r \in Requests : req[r].pc = "rObjects" => req[r].set \subseteq req[r].keys
RowsInv == RowsComplete /\ BetweenInv /\ DeletingInv /\ RemovingInv /\ NoDanglingRow

\* No call fails but those to S3, and no process dies.
Calm == Faults \cap {"redis", "db", "reply"} = {} /\ MaxCrashes = 0

\* A file has at least one chunk.
LEMMA ChunksPositive ==
  ASSUME NEW u \in Uploads
  PROVE  TotalChunks(u) # 0
<1>1. Size[u] \in Nat \ {0} /\ ChunkSize \in Nat \ {0}
  BY SizeAssumption
<1>2. ASSUME NEW s \in Nat \ {0}, NEW c \in Nat \ {0}
      PROVE  (s + c - 1) \div c # 0
  BY SMT
<1> QED BY <1>1, <1>2 DEF TotalChunks

\* What has been completed stays completed.
CompletedStays ==
  \A u \in Uploads : multipart[u].state = "completed" => multipart'[u].state = "completed"

LEMMA StepsComplete ==
  ASSUME TypeInv, IdsInv, NEW r \in Requests, Steps(r)
  PROVE  CompletedStays
<1>0. /\ multipart \in [Uploads -> Multipart] /\ req[r] \in Handler
      /\ Closed("completed").state = "completed"
  BY DEF TypeInv, TypeOK, Closed
<1>1. CASE UNCHANGED multipart
  BY <1>1 DEF CompletedStays
<1>2. CASE \E u : Listed(u) /\ multipart' = [multipart EXCEPT ![u] = Closed("aborted")]
  BY <1>0, <1>2 DEF CompletedStays, Listed
<1>3. CASE CreateMultipart(r)
  <2>1. /\ req[r].pc = "iCreate"
        /\ multipart' = [multipart EXCEPT ![req[r].u] =
             [state |-> "open", recent |-> TRUE, parts |-> {}]]
    BY <1>3 DEF CreateMultipart, Goto
  <2>2. multipart[req[r].u].state = "none"
    BY <2>1 DEF IdsInv
  <2> QED BY <1>0, <2>1, <2>2 DEF CompletedStays
<1>4. CASE ChunkLand(r)
  <2> DEFINE m == multipart[req[r].u]
             parts == {p \in m.parts : p[1] # Len(req[r].parts) + 1}
                        \cup {<<Len(req[r].parts) + 1, r>>}
  <2>1. CASE UNCHANGED multipart
    BY <2>1 DEF CompletedStays
  <2>2. CASE ~UNCHANGED multipart
    <3>1. /\ multipart' = [multipart EXCEPT ![req[r].u] =
               [m EXCEPT !.recent = TRUE, !.parts = parts]]
          /\ m.state \in {"open", "aborted"}
      BY <1>4, <2>2 DEF ChunkLand
    <3> HIDE DEF parts
    <3> QED BY <1>0, <3>1 DEF CompletedStays
  <2> QED BY <2>1, <2>2
<1>5. CASE Assemble(req[r])
  BY <1>0, <1>5 DEF CompletedStays, Assemble
<1>6. \/ UNCHANGED multipart \/ CreateMultipart(r) \/ ChunkLand(r) \/ Assemble(req[r])
      \/ \E u : Listed(u) /\ multipart' = [multipart EXCEPT ![u] = Closed("aborted")]
  BY DEF Steps, InitLock, InitConflict, SetMeta, SetIndex,
         ReadActive, ReadMetas, Evict, AddActive, InitUnlock, ChunkRead, ChunkTouch,
         ChunkSend, ChunkExists, ChunkStore, ChunkUnlock,
         Complete, HeadObject, LockUser, SumRows, CommitRow, CallAbort,
         CallDeleteObject, CallDelMeta, CallDelIndex, CallRelease, DeleteObject,
         DeleteRow, DeleteObjects, RemoveRows, PurgeRows, PurgeScan, PurgeAborts,
         PurgeKeys, s3
<1> QED BY <1>1, <1>2, <1>3, <1>4, <1>5, <1>6

\* A step that makes no object and no row.
LEMMA RowsFrame ==
  ASSUME TypeInv, RowsInv, NEW r \in Requests, Only(r), CompletedStays, rows' \subseteq rows,
         Between(req'[r]) =>
           /\ Between(req[r]) /\ req'[r].u = req[r].u
           /\ req'[r].pc \in {"fLock", "fSum", "fCommit"} => object'[req[r].u] # <<>>,
         \A u \in Uploads : Deleting(req'[r], u) => Deleting(req[r], u) \/ u \in rows,
         \A u \in Uploads :
           \/ object'[u] = object[u]
           \/ Deleting(req[r], u) \/ (Between(req[r]) /\ req[r].u = u),
         req'[r].pc = "rObjects" => req'[r].set \subseteq req'[r].keys,
         NoDanglingRow'
  PROVE  RowsInv'
<1>0. /\ rows \subseteq Uploads
      /\ \A s \in Requests : Between(req[s]) => req[s].u \in Uploads
  BY DEF TypeInv, TypeOK, Shaped, Between, PurgePcs
<1>1. RowsComplete'
  BY <1>0 DEF RowsInv, RowsComplete, CompletedStays
<1>2. ASSUME NEW s \in Requests, Between(req'[s])
      PROVE  Between(req[s]) /\ req'[s].u = req[s].u
  BY <1>2 DEF Only
<1>3. ASSUME NEW s \in Requests, Between(req'[s]), req'[s].pc \in {"fLock", "fSum", "fCommit"}
      PROVE  object'[req'[s].u] # <<>>
  <2>1. CASE s = r
    BY <1>2, <1>3, <2>1
  <2>2. CASE s # r
    <3>1. req'[s] = req[s] /\ Between(req[s]) /\ req[s].u \in Uploads
      BY <1>0, <1>2, <1>3, <2>2 DEF Only
    <3>2. object[req[s].u] # <<>>
      BY <1>3, <3>1 DEF RowsInv, BetweenInv
    <3>3. ~Deleting(req[r], req[s].u)
      BY <3>1 DEF RowsInv, DeletingInv
    <3>4. ~(Between(req[r]) /\ req[r].u = req[s].u)
      BY <2>2, <3>1 DEF RowsInv, BetweenInv
    <3> QED BY <3>1, <3>2, <3>3, <3>4
  <2> QED BY <2>1, <2>2
<1>4. BetweenInv'
  BY <1>0, <1>2, <1>3 DEF RowsInv, BetweenInv, CompletedStays
<1>5. ASSUME NEW s \in Requests, NEW u \in Uploads, Deleting(req'[s], u)
      PROVE  /\ multipart[u].state = "completed"
             /\ \A t \in Requests : Between(req[t]) => req[t].u # u
  <2>1. Deleting(req[s], u) \/ u \in rows
    BY <1>5 DEF Only
  <2>2. CASE Deleting(req[s], u)
    BY <2>2 DEF RowsInv, DeletingInv
  <2>3. CASE u \in rows
    BY <2>3 DEF RowsInv, RowsComplete, BetweenInv
  <2> QED BY <2>1, <2>2, <2>3
<1>6. DeletingInv'
  BY <1>2, <1>5 DEF DeletingInv, CompletedStays
<1>7. RemovingInv'
  BY DEF RowsInv, RemovingInv, Only
<1> QED BY <1>1, <1>4, <1>6, <1>7 DEF RowsInv

\* A step of no handler.
LEMMA RowsElsewhere ==
  ASSUME TypeInv, RowsInv, CompletedStays, UNCHANGED <<req, rows, object>>
  PROVE  RowsInv'
<1>0. /\ rows \subseteq Uploads
      /\ \A s \in Requests : Between(req[s]) => req[s].u \in Uploads
  BY DEF TypeInv, TypeOK, Shaped, Between, PurgePcs
<1>1. RowsComplete'
  BY <1>0 DEF RowsInv, RowsComplete, CompletedStays
<1>2. BetweenInv'
  BY <1>0 DEF RowsInv, BetweenInv, CompletedStays
<1>3. DeletingInv'
  BY DEF RowsInv, DeletingInv, CompletedStays
<1>4. RemovingInv' /\ NoDanglingRow'
  BY DEF RowsInv, RemovingInv, NoDanglingRow, BeingDeleted
<1> QED BY <1>1, <1>2, <1>3, <1>4 DEF RowsInv

\* No row loses its object in a step of a handler that deletes nothing.
LEMMA DanglingFrame ==
  ASSUME NoDanglingRow, NEW r \in Requests, Only(r), rows' \subseteq rows,
         \A u \in rows : object'[u] = object[u],
         req[r].pc \notin {"dRow", "pObjects", "rObjects"}
  PROVE  NoDanglingRow'
<1>1. ASSUME NEW u \in rows, object[u] = <<>>
      PROVE  BeingDeleted(u)'
  <2>1. PICK s \in Requests : \/ req[s].pc = "dRow" /\ req[s].u = u
                              \/ req[s].pc = "pObjects"
                              \/ req[s].pc = "rObjects" /\ u \in req[s].keys
    BY <1>1 DEF NoDanglingRow, BeingDeleted
  <2>2. req'[s] = req[s]
    BY <2>1 DEF Only
  <2> QED BY <2>1, <2>2 DEF BeingDeleted
<1> QED BY <1>1 DEF NoDanglingRow

\* An exception makes finalizeUpload delete the object only if it has one.
LEMMA RaiseBetween ==
  ASSUME NEW q \in Handler, Between(Raise(q))
  PROVE  /\ q.pc \in {"fHead", "fLock", "fSum", "fCommit", "fClean"}
         /\ Raise(q).pc = "fCatch" /\ Raise(q).u = q.u
<1>1. Raise(q).pc = "fCatch" /\ Head(Raise(q).todo) = "object"
  BY RaiseLands DEF Between
<1>2. CASE q.pc = "fComplete"
  <2>1. Raise(q) = Clean(q, "fCatch", <<"tryAbort", "meta", "index", "active">>)
    BY <1>2, ScriptsAre DEF Raise, ChunkPcs, FinalizePcs
  <2> QED BY <1>1, <2>1, CleanIs, HeadsAre
<1>3. CASE q.pc \in FinalizePcs \ {"fComplete", "fCatch"}
  <2>1. Raise(q).u = q.u
    <3>1. \E calls : Raise(q) = Clean(q, "fCatch", calls)
      BY <1>3 DEF Raise, ChunkPcs, FinalizePcs
    <3> QED BY <3>1, CleanIs
  <2> QED BY <1>1, <1>3, <2>1 DEF FinalizePcs
<1>4. CASE q.pc \notin FinalizePcs
  <2>1. Stays(q, Raise(q)) /\ Idle.pc = "idle"
    BY RaiseStays DEF Idle
  <2> QED BY <1>1, <1>4, <2>1 DEF Stays, FinalizePcs
<1>5. CASE q.pc = "fCatch"
  <2>1. Raise(q) = Idle
    BY <1>5 DEF Raise, ChunkPcs, FinalizePcs
  <2> QED BY <1>1, <2>1 DEF Idle
<1> QED BY <1>2, <1>3, <1>4, <1>5 DEF FinalizePcs

\* After the first of its calls it has deleted it.
LEMMA ContinueBetween ==
  ASSUME NEW q \in Handler, Shaped(q), Scripted(q), q.todo # <<>>
  PROVE  ~Between(Continue(q))
<1> DEFINE p == Continue(q)
<1>1. CASE p.pc = q.pc /\ p.todo = Tail(q.todo) /\ Len(q.todo) > 1
  <2>1. CASE q.pc = "fCatch"
    <3>1. q.todo \in FinalTails \cup RaisedTails
      BY <2>1 DEF Scripted
    <3>2. p.todo \in FinalTails
      BY <1>1, <3>1, FinalTailsAre
    <3> HIDE DEF p
    <3>3. Head(p.todo) # "object"
      <4>1. CASE p.todo = <<"meta", "index", "active">>
        BY <4>1, HeadsAre
      <4>2. CASE p.todo = <<"index", "active">>
        BY <4>2, HeadsAre
      <4>3. CASE p.todo = <<"active">>
        BY <4>3, HeadsAre
      <4> QED BY <3>2, <4>1, <4>2, <4>3 DEF FinalTails
    <3>4. p.pc = "fCatch"
      BY <1>1, <2>1
    <3> QED BY <3>3, <3>4 DEF Between, p
  <2>2. CASE q.pc # "fCatch"
    BY <1>1, <2>2 DEF Between, Shaped
  <2> QED BY <2>1, <2>2
<1>2. CASE p.pc \in {"iAdd", "iEvict"}
  BY <1>2 DEF Between
<1>3. CASE p = At("iFail", q.u) \/ p = At("cUnlock", q.u)
  BY <1>3, AtIs DEF Between
<1>4. CASE p = Idle
  BY <1>4 DEF Between, Idle
<1> QED BY <1>1, <1>2, <1>3, <1>4, ContinueLeads

\* What the first call of a script is says where the handler is.
LEMMA CallsPlaced ==
  ASSUME TypeInv, ScriptsInv, NEW r \in Requests, req[r].todo # <<>>
  PROVE  LET c == Head(req[r].todo) IN
         /\ c = "abort" => req[r].pc \in {"iEvict", "kClean"}
         /\ c = "tryAbort" => req[r].pc \in {"iCatch", "cCatch", "fCatch"}
         /\ c = "object" => req[r].pc = "fCatch"
<1> DEFINE q == req[r]
<1>1. Shaped(q) /\ Scripted(q) /\ q.todo # <<>>
  BY DEF TypeInv, ScriptsInv
<1> HIDE DEF q
<1>2. ASSUME q.todo \in CancelTails
      PROVE  Head(q.todo) \notin {"tryAbort", "object"}
  <2>1. CASE q.todo = <<"abort", "index", "meta", "active">>
    BY <2>1, HeadsAre
  <2>2. CASE q.todo = <<"index", "meta", "active">>
    BY <2>2, HeadsAre
  <2>3. CASE q.todo = <<"meta", "active">>
    BY <2>3, HeadsAre
  <2>4. CASE q.todo = <<"active">>
    BY <2>4, HeadsAre
  <2> QED BY <1>2, <2>1, <2>2, <2>3, <2>4 DEF CancelTails
<1>3. ASSUME q.todo \in FinalTails
      PROVE  Head(q.todo) \notin {"abort", "tryAbort", "object"}
  <2>1. CASE q.todo = <<"meta", "index", "active">>
    BY <2>1, HeadsAre
  <2>2. CASE q.todo = <<"index", "active">>
    BY <2>2, HeadsAre
  <2>3. CASE q.todo = <<"active">>
    BY <2>3, HeadsAre
  <2> QED BY <1>3, <2>1, <2>2, <2>3 DEF FinalTails
<1>4. ASSUME q.todo \in RaisedTails
      PROVE  Head(q.todo) \in {"tryAbort", "object"}
  <2>1. CASE q.todo = <<"tryAbort", "meta", "index", "active">>
    BY <2>1, HeadsAre
  <2>2. CASE q.todo = <<"object", "meta", "index", "active">>
    BY <2>2, HeadsAre
  <2> QED BY <1>4, <2>1, <2>2 DEF RaisedTails
<1>5. ASSUME q.todo \in CatchTails
      PROVE  Head(q.todo) \notin {"abort", "object"}
  <2>1. CASE q.todo = <<"tryAbort", "index">>
    BY <2>1, HeadsAre
  <2>2. CASE q.todo = <<"tryAbort", "meta", "index">>
    BY <2>2, HeadsAre
  <2>3. CASE q.todo = <<"meta", "index">>
    BY <2>3, HeadsAre
  <2>4. CASE q.todo = <<"index">>
    BY <2>4, HeadsAre
  <2> QED BY <1>5, <2>1, <2>2, <2>3, <2>4 DEF CatchTails
<1>6. q.pc \in {"iEvict", "iCatch", "cCatch", "fClean", "fCatch", "kClean"}
  BY <1>1 DEF Shaped
<1>7. q.pc = "cCatch" => Head(q.todo) = "tryAbort"
  BY <1>1, HeadsAre DEF Scripted
<1>8. /\ q.pc \in {"iEvict", "kClean"} => q.todo \in CancelTails
      /\ q.pc = "iCatch" => q.todo \in CatchTails
      /\ q.pc = "fClean" => q.todo \in FinalTails
      /\ q.pc = "fCatch" => q.todo \in FinalTails \/ q.todo \in RaisedTails
  BY <1>1 DEF Scripted
<1>9. /\ Head(q.todo) = "abort" => q.pc \in {"iEvict", "kClean"}
      /\ Head(q.todo) = "tryAbort" => q.pc \in {"iCatch", "cCatch", "fCatch"}
      /\ Head(q.todo) = "object" => q.pc = "fCatch"
  BY <1>2, <1>3, <1>4, <1>5, <1>6, <1>7, <1>8
<1> QED BY <1>9 DEF q

\* A handler that neither finalises nor deletes.
LEMMA QuietRows ==
  ASSUME TypeInv, RowsInv, NEW r \in Requests, Only(r), Stays(req[r], req'[r]),
         CompletedStays, UNCHANGED <<object, rows>>,
         req[r].pc \notin FinalizePcs \cup DeletePcs \cup {"pObjects", "rObjects"},
         req'[r].pc \notin {"pObjects", "rObjects"}
  PROVE  RowsInv'
<1>1. req'[r].pc \notin FinalizePcs \cup DeletePcs
  BY DEF Stays, Idle, FinalizePcs, DeletePcs
<1>2. ~Between(req'[r]) /\ \A u \in Uploads : ~Deleting(req'[r], u)
  BY <1>1 DEF Between, Deleting, FinalizePcs
<1>3. NoDanglingRow'
  BY DanglingFrame DEF RowsInv, DeletePcs
<1> QED BY <1>1, <1>2, <1>3, RowsFrame

\* The calls of finalizeUpload's scripts.
LEMMA FinalCallRows ==
  ASSUME TypeInv, IdsInv, ScriptsInv, RowsInv, NEW r \in Requests,
         req[r].pc \in FinalizePcs, Returns(r), req[r].todo # <<>>, CompletedStays,
         rows' = rows,
         UNCHANGED object
           \/ (Calling(r, "object") /\ object' = [object EXCEPT ![req[r].v] = <<>>])
  PROVE  RowsInv'
<1>0. /\ req[r] \in Handler /\ Shaped(req[r]) /\ Scripted(req[r]) /\ Only(r)
      /\ req'[r] = Continue(req[r]) /\ Stays(req[r], req'[r])
  BY ReqTyped, ReturnsFollows, ReturnsStays DEF ReqInv, ScriptsInv
<1>1. ~Between(req'[r])
  BY <1>0, ContinueBetween
<1>2. req'[r].pc \notin DeletePcs \cup {"pObjects", "rObjects"}
  BY <1>0 DEF Stays, Idle, FinalizePcs, DeletePcs, PurgePcs
<1>3. \A u \in Uploads : ~Deleting(req'[r], u)
  BY <1>2 DEF Deleting
<1>4. \A u \in Uploads : object'[u] = object[u] \/ (Between(req[r]) /\ req[r].u = u)
  <2>1. CASE UNCHANGED object
    BY <2>1
  <2>2. CASE Calling(r, "object") /\ object' = [object EXCEPT ![req[r].v] = <<>>]
    <3>1. req[r].pc = "fCatch"
      BY <2>2, CallsPlaced DEF Calling
    <3>2. req[r].v = req[r].u /\ Between(req[r])
      BY <1>0, <2>2, <3>1 DEF Scripted, Between, Calling
    <3> QED BY <2>2, <3>2 DEF TypeInv, TypeOK
  <2> QED BY <2>1, <2>2
<1>5. \A u \in rows : object'[u] = object[u]
  <2>1. rows \subseteq Uploads
    BY DEF TypeInv, TypeOK
  <2>2. Between(req[r]) => req[r].u \notin rows
    BY DEF RowsInv, BetweenInv
  <2> QED BY <1>4, <2>1, <2>2
<1>6. req[r].pc \notin {"dRow", "pObjects", "rObjects"}
  BY DEF FinalizePcs
<1>7. NoDanglingRow'
  BY <1>0, <1>5, <1>6, DanglingFrame DEF RowsInv
<1> QED BY <1>0, <1>1, <1>2, <1>3, <1>4, <1>7, RowsFrame

\* A step within finalizeUpload that changes neither objects nor rows.
LEMMA FinalizeRows ==
  ASSUME TypeInv, RowsInv, NEW r \in Requests, Only(r), Stays(req[r], req'[r]),
         req[r].pc \in FinalizePcs, CompletedStays, UNCHANGED <<object, rows>>,
         Between(req'[r]) =>
           /\ Between(req[r])
           /\ req'[r].pc \in {"fLock", "fSum", "fCommit"} => object[req[r].u] # <<>>
  PROVE  RowsInv'
<1>1. req'[r].pc \notin DeletePcs \cup {"pObjects", "rObjects"}
  BY DEF Stays, Idle, FinalizePcs, DeletePcs, PurgePcs
<1>2. \A u \in Uploads : ~Deleting(req'[r], u)
  BY <1>1 DEF Deleting
<1>3. req[r].pc \notin {"dRow", "pObjects", "rObjects"}
  BY DEF FinalizePcs
<1>4. NoDanglingRow'
  BY <1>3, DanglingFrame DEF RowsInv
<1>5. Between(req'[r]) => req'[r].u = req[r].u
  BY DEF Stays, Idle, Between
<1> QED BY <1>1, <1>2, <1>4, <1>5, RowsFrame

\* An exception in finalizeUpload before its row is committed.
LEMMA ThrowRows ==
  ASSUME TypeInv, RowsInv, NEW r \in Requests, Throw(r), req[r].pc \in FinalizePcs \ {"fClean"},
         CompletedStays, UNCHANGED <<object, rows>>
  PROVE  RowsInv'
<1>1. /\ req[r] \in Handler /\ Only(r) /\ Stays(req[r], req'[r])
      /\ req'[r] = Raise(req[r])
  BY ReqTyped, ThrowStays, ThrowFollows DEF ReqInv
<1>2. Between(req'[r]) => Between(req[r]) /\ req'[r].pc = "fCatch"
  BY <1>1, RaiseBetween DEF Between
<1> QED BY <1>1, <1>2, FinalizeRows

\* S3 assembles the object of an upload that was open, so has no row, and that
\* no other handler finalises further or deletes.
LEMMA AssembleRows ==
  ASSUME TypeInv, RowsInv, NEW r \in Requests, Complete(r), ~Throw(r), CompletedStays
  PROVE  RowsInv'
<1> DEFINE w == req[r].u
<1>0. /\ req[r].pc = "fComplete" /\ w \in Uploads /\ rows \subseteq Uploads
      /\ Goto(r, "fComplete", "fHead") /\ multipart[w].state = "open" /\ rows' = rows
      /\ object' = [object EXCEPT ![w] = req[r].parts]
      /\ multipart' = [multipart EXCEPT ![w] = Closed("completed")]
      /\ \A s \in Requests : Between(req[s]) => req[s].u \in Uploads
  BY DEF Complete, Completes, Assemble, db, TypeInv, TypeOK, Shaped, PurgePcs, Between
<1>1. Only(r) /\ req'[r].pc = "fHead" /\ req'[r].u = w
  BY <1>0, ReqTyped, GotoMoves DEF Same
<1>2. /\ multipart'[w].state = "completed"
      /\ \A u \in Uploads \ {w} : object'[u] = object[u]
  BY <1>0 DEF Closed, TypeInv, TypeOK
<1>3. /\ w \notin rows
      /\ \A s \in Requests : Between(req[s]) => req[s].u # w
      /\ \A s \in Requests : ~Deleting(req[s], w)
  BY <1>0 DEF RowsInv, RowsComplete, BetweenInv, DeletingInv
<1> HIDE DEF w
<1>4. ~Between(req[r]) /\ \A u \in Uploads : ~Deleting(req'[r], u)
  BY <1>0, <1>1 DEF Between, Deleting, DeletePcs
<1>5. RowsComplete'
  BY <1>0 DEF RowsInv, RowsComplete, CompletedStays
<1>6. ASSUME NEW s \in Requests, Between(req'[s])
      PROVE  /\ multipart'[req'[s].u].state = "completed" /\ req'[s].u \notin rows'
             /\ req'[s].pc \in {"fLock", "fSum", "fCommit"} => object'[req'[s].u] # <<>>
             /\ s # r => req'[s] = req[s] /\ Between(req[s]) /\ req[s].u # w
  <2>1. CASE s = r
    BY <1>0, <1>1, <1>2, <1>3, <2>1
  <2>2. CASE s # r
    <3>1. /\ req'[s] = req[s] /\ Between(req[s]) /\ req[s].u \in Uploads
          /\ req[s].u # w
      BY <1>0, <1>1, <1>3, <1>6, <2>2 DEF Only
    <3> QED BY <1>0, <1>2, <3>1 DEF RowsInv, BetweenInv, CompletedStays
  <2> QED BY <2>1, <2>2
<1>7. BetweenInv'
  <2>1. ASSUME NEW s \in Requests, NEW t \in Requests \ {s},
               Between(req'[s]), Between(req'[t])
        PROVE  req'[t].u # req'[s].u
    <3>1. CASE s = r \/ t = r
      BY <1>1, <1>6, <2>1, <3>1
    <3>2. CASE s # r /\ t # r
      BY <1>6, <2>1, <3>2 DEF RowsInv, BetweenInv
    <3> QED BY <3>1, <3>2
  <2> QED BY <1>6, <2>1 DEF BetweenInv
<1>8. ASSUME NEW s \in Requests, NEW u \in Uploads, Deleting(req'[s], u)
      PROVE  /\ multipart'[u].state = "completed"
             /\ \A t \in Requests : Between(req'[t]) => req'[t].u # u
  <2>1. Deleting(req[s], u)
    BY <1>1, <1>4, <1>8 DEF Only
  <2> QED BY <1>1, <1>3, <1>6, <2>1 DEF RowsInv, DeletingInv, CompletedStays
<1>9. RemovingInv'
  BY <1>1 DEF RowsInv, RemovingInv, Only
<1>10. NoDanglingRow'
  BY <1>0, <1>1, <1>2, <1>3, DanglingFrame DEF RowsInv
<1> QED BY <1>5, <1>7, <1>8, <1>9, <1>10 DEF RowsInv, DeletingInv

\* A row is committed for the upload of a handler that has its object.
LEMMA CommitRows ==
  ASSUME TypeInv, RowsInv, NEW r \in Requests, CommitRow(r)
  PROVE  RowsInv'
<1> DEFINE w == req[r].u
<1>0. /\ req[r].pc = "fCommit" /\ Between(req[r]) /\ rows' = rows \cup {w}
      /\ UNCHANGED <<multipart, object>> /\ w \in Uploads /\ rows \subseteq Uploads
      /\ Only(r) /\ req'[r] = Clean(req[r], "fClean", FinalizeCalls)
  BY DEF CommitRow, s3, Between, TypeInv, TypeOK, Shaped, PurgePcs, Only
<1>1. ~Between(req'[r]) /\ (\A u \in Uploads : ~Deleting(req'[r], u))
      /\ req'[r].pc = "fClean"
  BY <1>0, CleanIs DEF Between, Deleting, DeletePcs
<1>2. /\ multipart[w].state = "completed" /\ object[w] # <<>>
      /\ \A s \in Requests \ {r} : Between(req[s]) => req[s].u # w
  BY <1>0 DEF RowsInv, BetweenInv
<1> HIDE DEF w
<1>3. RowsComplete'
  BY <1>0, <1>2 DEF RowsInv, RowsComplete
<1>4. \A s \in Requests : Between(req'[s]) => s # r /\ req'[s] = req[s] /\ Between(req[s])
  BY <1>0, <1>1 DEF Only
<1>5. BetweenInv'
  BY <1>0, <1>2, <1>4 DEF RowsInv, BetweenInv
<1>6. \A s \in Requests : \A u \in Uploads : Deleting(req'[s], u) => Deleting(req[s], u)
  BY <1>0, <1>1 DEF Only
<1>7. DeletingInv'
  BY <1>0, <1>4, <1>6 DEF RowsInv, DeletingInv
<1>8. RemovingInv'
  BY <1>0, <1>1 DEF RowsInv, RemovingInv, Only
<1>9. ASSUME NEW u \in rows, object[u] = <<>>
      PROVE  BeingDeleted(u)'
  <2>1. PICK s \in Requests : \/ req[s].pc = "dRow" /\ req[s].u = u
                              \/ req[s].pc = "pObjects"
                              \/ req[s].pc = "rObjects" /\ u \in req[s].keys
    BY <1>9 DEF RowsInv, NoDanglingRow, BeingDeleted
  <2>2. req'[s] = req[s]
    BY <1>0, <2>1 DEF Only
  <2> QED BY <2>1, <2>2 DEF BeingDeleted
<1>10. NoDanglingRow'
  BY <1>0, <1>2, <1>9 DEF NoDanglingRow
<1> QED BY <1>3, <1>5, <1>7, <1>8, <1>10 DEF RowsInv

\* A deletion under way goes on: it empties objects of what it deletes, or
\* removes their rows.
LEMMA DeletingRows ==
  ASSUME TypeInv, RowsInv, NEW r \in Requests, Only(r), CompletedStays,
         req[r].pc \in {"dObject", "dRow", "pObjects", "rObjects"},
         ~Between(req'[r]), req'[r].pc = "rObjects" => req'[r].set \subseteq req'[r].keys,
         \A u \in Uploads : Deleting(req'[r], u) => Deleting(req[r], u),
         rows' \subseteq rows,
         \A u \in Uploads : object'[u] # object[u] => Deleting(req[r], u),
         \A u \in rows' :
           \/ object'[u] = object[u] /\ ~(req[r].pc = "dRow" /\ req[r].u = u)
                /\ req[r].pc # "pObjects" /\ ~(req[r].pc = "rObjects" /\ u \in req[r].keys)
           \/ req'[r].pc = "dRow" /\ req'[r].u = u
           \/ req'[r].pc = "pObjects"
           \/ req'[r].pc = "rObjects" /\ u \in req'[r].keys
  PROVE  RowsInv'
<1>1. ASSUME NEW u \in rows', object'[u] = <<>>
      PROVE  BeingDeleted(u)'
  <2>1. CASE \/ req'[r].pc = "dRow" /\ req'[r].u = u
             \/ req'[r].pc = "pObjects"
             \/ req'[r].pc = "rObjects" /\ u \in req'[r].keys
    BY <2>1 DEF BeingDeleted
  <2>2. CASE object'[u] = object[u] /\ ~(req[r].pc = "dRow" /\ req[r].u = u)
               /\ req[r].pc # "pObjects" /\ ~(req[r].pc = "rObjects" /\ u \in req[r].keys)
    <3>1. PICK s \in Requests : \/ req[s].pc = "dRow" /\ req[s].u = u
                                \/ req[s].pc = "pObjects"
                                \/ req[s].pc = "rObjects" /\ u \in req[s].keys
      BY <1>1, <2>2 DEF RowsInv, NoDanglingRow, BeingDeleted
    <3>2. req'[s] = req[s]
      BY <2>2, <3>1 DEF Only
    <3> QED BY <3>1, <3>2 DEF BeingDeleted
  <2> QED BY <1>1, <2>1, <2>2
<1>2. NoDanglingRow'
  BY <1>1 DEF NoDanglingRow
<1> QED BY <1>2, RowsFrame

\* Every deletion does.
LEMMA DeletionRows ==
  ASSUME TypeInv, RowsInv, NEW r \in Requests, CompletedStays,
         DeleteObject(r) \/ DeleteRow(r) \/ DeleteObjects(r) \/ RemoveRows(r) \/ PurgeRows(r)
  PROVE  RowsInv'
<1>0. /\ req[r] \in Handler /\ req \in [Requests -> Handler] /\ ReqInv
      /\ object \in [Uploads -> Seq(Requests)] /\ rows \subseteq Uploads
  BY ReqTyped DEF ReqInv, TypeInv, TypeOK
<1>1. CASE DeleteObject(r)
  <2>1. /\ Only(r) /\ req[r].pc = "dObject" /\ req'[r].pc = "dRow" /\ req'[r].u = req[r].u
        /\ rows' = rows
    BY <1>0, <1>1, GotoMoves DEF DeleteObject, Same, db
  <2>2. \A u \in Uploads : object'[u] # object[u] => u = req[r].u
    BY <1>0, <1>1 DEF DeleteObject
  <2>3. ~Between(req'[r]) /\ \A u \in Uploads : Deleting(req'[r], u) <=> u = req[r].u
    BY <2>1 DEF Between, Deleting, DeletePcs
  <2>4. \A u \in Uploads : Deleting(req[r], u) <=> u = req[r].u
    BY <2>1 DEF Deleting, DeletePcs
  <2>5. \A u \in rows' : \/ object'[u] = object[u] \/ req'[r].u = u
    BY <1>0, <2>1, <2>2
  <2> QED BY <2>1, <2>2, <2>3, <2>4, <2>5, DeletingRows
<1>2. CASE DeleteRow(r)
  <2>1. /\ Only(r) /\ req[r].pc = "dRow" /\ req'[r] = Idle
        /\ rows' = rows \ {req[r].u} /\ object' = object
    BY <1>0, <1>2, FinishFollows DEF DeleteRow, s3
  <2>2. ~Between(req'[r]) /\ (\A u \in Uploads : ~Deleting(req'[r], u))
        /\ req'[r].pc = "idle"
    BY <2>1 DEF Between, Deleting, DeletePcs, Idle
  <2> QED BY <2>1, <2>2, DeletingRows
<1>3. CASE DeleteObjects(r)
  <2>1. PICK u \in req[r].set :
          /\ req' = [req EXCEPT ![r].set = @ \ {u}]
          /\ \/ object' = [object EXCEPT ![u] = <<>>]
             \/ "s3" \in Faults /\ UNCHANGED object
    BY <1>3 DEF DeleteObjects
  <2>2. /\ Only(r) /\ req'[r].pc = req[r].pc /\ req'[r].set = req[r].set \ {u}
        /\ req'[r].keys = req[r].keys /\ req'[r].u = req[r].u
        /\ req[r].pc \in {"pObjects", "rObjects"} /\ rows' = rows
    BY <1>0, <1>3, <2>1 DEF DeleteObjects, Handler, Only, db
  <2>3. \A x \in Uploads : object'[x] # object[x] => x = u
    BY <1>0, <2>1
  <2>4. ~Between(req'[r]) /\ \A x \in Uploads : Deleting(req'[r], x) => Deleting(req[r], x)
    BY <2>2 DEF Between, Deleting, DeletePcs
  <2>5. \A x \in Uploads : object'[x] # object[x] => Deleting(req[r], x)
    BY <2>1, <2>2, <2>3 DEF Deleting
  <2>6. req[r].pc = "rObjects" => req[r].set \subseteq req[r].keys
    BY DEF RowsInv, RemovingInv
  <2>7. \A x \in rows' : \/ object'[x] = object[x] \/ x = u
    BY <1>0, <2>2, <2>3
  <2> QED BY <2>1, <2>2, <2>4, <2>5, <2>6, <2>7, DeletingRows
<1>4. CASE RemoveRows(r)
  <2>1. /\ Only(r) /\ req[r].pc = "rObjects" /\ req'[r] = Idle
        /\ rows' = rows \ req[r].keys /\ object' = object
    BY <1>0, <1>4, FinishFollows DEF RemoveRows, s3
  <2>2. ~Between(req'[r]) /\ (\A u \in Uploads : ~Deleting(req'[r], u))
        /\ req'[r].pc = "idle"
    BY <2>1 DEF Between, Deleting, DeletePcs, Idle
  <2> QED BY <2>1, <2>2, DeletingRows
<1>5. CASE PurgeRows(r)
  <2>1. /\ Only(r) /\ req[r].pc = "pObjects" /\ req'[r].pc = "pScan"
        /\ rows' = {} /\ object' = object
    BY <1>0, <1>5 DEF PurgeRows, s3, Only, Handler
  <2>2. ~Between(req'[r]) /\ \A u \in Uploads : ~Deleting(req'[r], u)
    BY <2>1 DEF Between, Deleting, DeletePcs
  <2> QED BY <2>1, <2>2, DeletingRows
<1> QED BY <1>1, <1>2, <1>3, <1>4, <1>5

\* Every step of a handler keeps RowsInv.
LEMMA StepsRows ==
  ASSUME TypeInv, IdsInv, ScriptsInv, RowsInv, NEW r \in Requests, Steps(r)
  PROVE  RowsInv'
<1>0. /\ req[r] \in Handler /\ ReqInv /\ Only(r) /\ Stays(req[r], req'[r])
      /\ CompletedStays /\ Shaped(req[r])
  BY ReqTyped, StepsProceed, StepsStay, StepsComplete DEF ReqInv, Proceeds
<1>1. ASSUME \/ InitLock(r) \/ InitConflict(r) \/ CreateMultipart(r) \/ SetMeta(r)
             \/ SetIndex(r) \/ ReadActive(r) \/ ReadMetas(r) \/ Evict(r) \/ AddActive(r)
             \/ InitUnlock(r)
             \/ ChunkRead(r) \/ ChunkTouch(r) \/ ChunkSend(r) \/ ChunkLand(r)
             \/ ChunkExists(r) \/ ChunkStore(r) \/ ChunkUnlock(r)
             \/ PurgeScan(r) \/ PurgeAborts(r) \/ PurgeKeys(r)
      PROVE  RowsInv'
  <2>1. UNCHANGED <<object, rows>>
    BY <1>1 DEF InitLock, InitConflict, CreateMultipart, SetMeta, SetIndex,
         ReadActive, ReadMetas, Evict, AddActive, InitUnlock, ChunkRead, ChunkTouch,
         ChunkSend, ChunkLand, ChunkExists, ChunkStore, ChunkUnlock, PurgeScan,
         PurgeAborts, PurgeKeys, s3, db
  <2>2. req[r].pc \in InitPcs \cup ChunkPcs \cup {"pScan", "pAborts"}
    BY <1>1 DEF InitLock, InitConflict, CreateMultipart, SetMeta, SetIndex,
         ReadActive, ReadMetas, Evict, AddActive, InitUnlock, ChunkRead, ChunkTouch,
         ChunkSend, ChunkLand, ChunkExists, ChunkStore, ChunkUnlock, PurgeScan,
         PurgeAborts, PurgeKeys, InitPcs, ChunkPcs, Goto
  <2>3. req[r].pc \notin FinalizePcs \cup DeletePcs \cup {"pObjects", "rObjects"}
    BY <2>2 DEF InitPcs, ChunkPcs, FinalizePcs, DeletePcs
  <2>4. req'[r].pc \notin {"pObjects", "rObjects"}
    <3>1. CASE PurgeScan(r)
      BY <1>0, <3>1 DEF PurgeScan, Handler, ReqInv
    <3>2. CASE PurgeAborts(r)
      <4>1. PICK u : req' = [req EXCEPT ![r].set = @ \ {u}]
        BY <3>2 DEF PurgeAborts
      <4> QED BY <1>0, <3>2, <4>1 DEF PurgeAborts, Handler, ReqInv
    <3>3. CASE PurgeKeys(r)
      BY <1>0, <3>3, FinishFollows DEF PurgeKeys, Idle
    <3>4. CASE req[r].pc \in InitPcs \cup ChunkPcs
      BY <1>0, <3>4 DEF Stays, Idle, InitPcs, ChunkPcs, PurgePcs
    <3>5. \/ req[r].pc \in InitPcs \cup ChunkPcs
          \/ PurgeScan(r) \/ PurgeAborts(r) \/ PurgeKeys(r)
      BY <1>1 DEF InitLock, InitConflict, CreateMultipart, SetMeta, SetIndex,
         ReadActive, ReadMetas, Evict, AddActive, InitUnlock, ChunkRead, ChunkTouch,
         ChunkSend, ChunkLand, ChunkExists, ChunkStore, ChunkUnlock,
         InitPcs, ChunkPcs, Goto
    <3> QED BY <3>1, <3>2, <3>3, <3>4, <3>5
  <2> QED BY <1>0, <2>1, <2>3, <2>4, QuietRows
<1>2. ASSUME \/ CallAbort(r) \/ CallDeleteObject(r) \/ CallDelMeta(r) \/ CallDelIndex(r)
             \/ CallRelease(r)
      PROVE  RowsInv'
  <2>1. req[r].todo # <<>> /\ rows' = rows
    BY <1>2 DEF CallAbort, CallDeleteObject, CallDelMeta, CallDelIndex, CallRelease,
                Calling, db
  <2>2. /\ Calling(r, "abort") => req[r].pc \in {"iEvict", "kClean"}
        /\ Calling(r, "object") => req[r].pc = "fCatch"
    BY <2>1, CallsPlaced DEF Calling
  <2>3. UNCHANGED object
           \/ (Calling(r, "object") /\ object' = [object EXCEPT ![req[r].v] = <<>>])
    BY <1>2 DEF CallAbort, CallDeleteObject, CallDelMeta, CallDelIndex, CallRelease, s3
  <2>4. CASE req[r].pc \in FinalizePcs
    <3>1. Returns(r)
      BY <1>2, <2>2, <2>4
         DEF CallAbort, CallDeleteObject, CallDelMeta, CallDelIndex, CallRelease, FinalizePcs
    <3> QED BY <1>0, <2>1, <2>3, <2>4, <3>1, FinalCallRows
  <2>5. CASE req[r].pc \notin FinalizePcs
    <3>1. req[r].pc \in {"iEvict", "iCatch", "cCatch", "kClean"}
      BY <1>0, <2>1, <2>5 DEF Shaped, FinalizePcs
    <3>2. object' = object
      BY <2>2, <2>3, <3>1
    <3>3. req[r].pc \notin FinalizePcs \cup DeletePcs \cup {"pObjects", "rObjects"}
      BY <3>1 DEF FinalizePcs, DeletePcs
    <3>4. req'[r].pc \notin {"pObjects", "rObjects"}
      BY <1>0, <3>1 DEF Stays, Idle, PurgePcs
    <3> QED BY <1>0, <2>1, <3>2, <3>3, <3>4, QuietRows
  <2> QED BY <2>4, <2>5
<1>3. CASE Complete(r)
  <2>1. CASE Throw(r)
    <3>1. req[r].pc = "fComplete" /\ UNCHANGED rows
      BY <1>3 DEF Complete, db
    <3>2. UNCHANGED object
      <4>1. CASE UNCHANGED s3
        BY <4>1 DEF s3
      <4>2. CASE Goto(r, "fComplete", "fHead")
        <5>1. req'[r].pc = "fHead" /\ req'[r] = Raise(req[r])
          BY <1>0, <2>1, <4>2, GotoMoves, ThrowFollows
        <5> QED BY <1>0, <5>1, RaiseLands
      <4> QED BY <1>3, <4>1, <4>2 DEF Complete
    <3> QED BY <1>0, <2>1, <3>1, <3>2, ThrowRows DEF FinalizePcs
  <2>2. CASE ~Throw(r)
    BY <1>0, <1>3, <2>2, AssembleRows
  <2> QED BY <2>1, <2>2
<1>4. CASE HeadObject(r)
  <2>1. req[r].pc = "fHead" /\ req[r].pc \in FinalizePcs \ {"fClean"} /\ Between(req[r])
        /\ UNCHANGED <<object, rows>>
    BY <1>4 DEF HeadObject, FinalizePcs, Between, s3, db
  <2>2. CASE Throw(r)
    BY <1>0, <2>1, <2>2, ThrowRows
  <2>3. CASE ~Throw(r)
    <3>1. req[r].u \in Uploads
      BY <1>0, <2>1 DEF Shaped, PurgePcs
    <3>2. Len(object[req[r].u]) = TotalChunks(req[r].u)
      BY <1>4, <2>3 DEF HeadObject
    <3>3. object[req[r].u] # <<>>
      BY <3>1, <3>2, ChunksPositive, LengthsAre
    <3> QED BY <1>0, <2>1, <3>3, FinalizeRows
  <2> QED BY <2>2, <2>3
<1>5. CASE LockUser(r)
  <2>1. Goto(r, "fLock", "fSum") /\ UNCHANGED <<object, rows>>
    BY <1>5 DEF LockUser, s3
  <2>2. req[r].pc = "fLock" /\ req'[r].pc = "fSum" /\ req[r].pc \in FinalizePcs
        /\ Between(req[r])
    BY <1>0, <2>1, GotoMoves DEF FinalizePcs, Between
  <2>3. object[req[r].u] # <<>>
    BY <2>2 DEF RowsInv, BetweenInv
  <2> QED BY <1>0, <2>1, <2>2, <2>3, FinalizeRows
<1>6. CASE SumRows(r)
  <2>1. /\ req[r].pc = "fSum" /\ req[r].pc \in FinalizePcs \ {"fClean"}
        /\ Between(req[r]) /\ UNCHANGED <<object, rows>>
    BY <1>6 DEF SumRows, s3, FinalizePcs, Between
  <2>2. CASE Throw(r)
    BY <1>0, <2>1, <2>2, ThrowRows
  <2>3. object[req[r].u] # <<>>
    BY <2>1 DEF RowsInv, BetweenInv
  <2>4. CASE ~Throw(r)
    BY <1>0, <2>1, <2>3, <2>4, FinalizeRows
  <2> QED BY <2>2, <2>4
<1>7. CASE CommitRow(r)
  BY <1>7, CommitRows
<1>8. CASE DeleteObject(r) \/ DeleteRow(r) \/ DeleteObjects(r) \/ RemoveRows(r) \/ PurgeRows(r)
  BY <1>0, <1>8, DeletionRows
<1> QED BY <1>1, <1>2, <1>3, <1>4, <1>5, <1>6, <1>7, <1>8 DEF Steps

\* A request that starts deletes nothing but what has a row.
LEMMA StartRows ==
  ASSUME TypeInv, RowsInv, NEW r \in Requests, Starts(r)
  PROVE  RowsInv'
<1>1. /\ Only(r) /\ req[r] = Idle /\ Begins(req'[r])
      /\ UNCHANGED <<multipart, object, rows>>
  BY StartBegins DEF s3, db
<1>2. CompletedStays /\ req[r].pc = "idle"
  BY <1>1 DEF CompletedStays, Idle
<1>3. ~Between(req'[r]) /\ \A u \in Uploads : Deleting(req'[r], u) => u \in rows
  BY <1>1 DEF Begins, Between, Deleting, DeletePcs
<1>4. req'[r].pc = "rObjects" => req'[r].set \subseteq req'[r].keys
  BY <1>1 DEF Begins
<1>5. NoDanglingRow'
  BY <1>1, <1>2, DanglingFrame DEF RowsInv
<1> QED BY <1>1, <1>2, <1>3, <1>4, <1>5, RowsFrame

\* A call that fails, of those to S3: no script that follows a committed row
\* makes one.
LEMMA FailsRows ==
  ASSUME Calm, TypeInv, IdsInv, ScriptsInv, RowsInv, NEW r \in Requests, CallFails(r)
  PROVE  RowsInv'
<1>0. /\ req[r] \in Handler /\ Shaped(req[r]) /\ CompletedStays
      /\ UNCHANGED <<object, rows>>
  BY ReqTyped DEF ReqInv, CallFails, s3, CompletedStays
<1>1. Store(req[r]) = "s3"
  <2>1. Faults \subseteq FaultKinds
    BY EnvironmentAssumption
  <2>2. Store(req[r]) \in {"s3", "redis", "db", "none"} /\ Store(req[r]) \in Faults
    BY DEF CallFails, Store
  <2> QED BY <2>1, <2>2 DEF Calm, FaultKinds
<1>2. Throw(r) \/ (Returns(r) /\ req[r].todo # <<>>)
  BY DEF CallFails, Calling
<1>3. Only(r) /\ Stays(req[r], req'[r])
  BY <1>2, ThrowStays, ReturnsStays
<1>4. CASE req[r].pc \in FinalizePcs
  <2>1. CASE req[r].todo = <<>>
    <3>1. req[r].pc \in {"fComplete", "fHead"} /\ Throw(r)
      BY <1>1, <1>4, <2>1 DEF Store, FinalizePcs, CallFails, Calling
    <3> QED BY <1>0, <3>1, ThrowRows DEF FinalizePcs
  <2>2. CASE req[r].todo # <<>>
    <3>1. req[r].pc \in {"fClean", "fCatch"}
      BY <1>0, <1>4, <2>2 DEF Shaped, FinalizePcs
    <3>2. Head(req[r].todo) \notin {"meta", "index", "active"}
      BY <1>1, <2>2 DEF Store
    <3>3. req[r].todo \in Seq(Calls)
      BY <1>0 DEF Handler
    <3>4. Head(req[r].todo) \in Calls
      BY <2>2, <3>3
    <3>5. Calling(r, "tryAbort") \/ Calling(r, "object")
      BY <2>2, <3>1, <3>2, <3>4, CallsPlaced DEF Calls, Calling
    <3>6. Returns(r)
      BY <3>5 DEF CallFails
    <3> QED BY <1>0, <1>4, <2>2, <3>6, FinalCallRows
  <2> QED BY <2>1, <2>2
<1>5. CASE req[r].pc \notin FinalizePcs
  <2>1. req[r].pc \in InitPcs \cup ChunkPcs \cup {"kClean"}
    <3>1. CASE req[r].todo # <<>>
      BY <1>0, <1>5, <3>1 DEF Shaped, InitPcs, ChunkPcs, FinalizePcs
    <3>2. CASE req[r].todo = <<>>
      BY <1>1, <1>5, <3>2 DEF Store, InitPcs, ChunkPcs, FinalizePcs
    <3> QED BY <3>1, <3>2
  <2>2. req[r].pc \notin FinalizePcs \cup DeletePcs \cup {"pObjects", "rObjects"}
    BY <2>1 DEF InitPcs, ChunkPcs, FinalizePcs, DeletePcs
  <2>3. req'[r].pc \notin {"pObjects", "rObjects"}
    BY <1>3, <2>1 DEF Stays, Idle, InitPcs, ChunkPcs, PurgePcs
  <2> QED BY <1>0, <1>3, <2>2, <2>3, QuietRows
<1> QED BY <1>4, <1>5

\* What no handler does moves neither rows nor objects.
LEMMA ElsewhereRows ==
  ASSUME TypeInv, RowsInv, Sweeps \/ Expires \/ UNCHANGED vars
  PROVE  RowsInv'
<1>1. UNCHANGED <<req, object, rows>>
  BY DEF Sweeps, SweepStart, SweepEnd, SweepInspect, SweepAbort, SweepUntrack,
         Expires, ExpireActive, ExpireInitLock, Age, ExpireMeta, ExpireIndex,
         ExpireChunkLock, vars, s3, db
<1>2. CompletedStays
  <2>0. multipart \in [Uploads -> Multipart]
    BY DEF TypeInv, TypeOK
  <2>1. CASE UNCHANGED multipart
    BY <2>1 DEF CompletedStays
  <2>2. CASE SweepAbort
    BY <2>0, <2>2 DEF SweepAbort, Listed, CompletedStays
  <2>3. ASSUME NEW w \in Uploads, Age(w)
        PROVE  CompletedStays
    <3>1. multipart' = [multipart EXCEPT ![w] = [multipart[w] EXCEPT !.recent = FALSE]]
      BY <2>0, <2>3 DEF Age
    <3> QED BY <2>0, <3>1 DEF Multipart, CompletedStays
  <2>4. UNCHANGED multipart \/ SweepAbort \/ \E w \in Uploads : Age(w)
    BY DEF Sweeps, SweepStart, SweepEnd, SweepInspect, SweepUntrack,
         Expires, ExpireActive, ExpireInitLock, ExpireMeta, ExpireIndex,
         ExpireChunkLock, vars, s3
  <2> QED BY <2>1, <2>2, <2>3, <2>4
<1> QED BY <1>1, <1>2, RowsElsewhere

LEMMA RowsNext ==
  ASSUME Calm, TypeInv, IdsInv, ScriptsInv, RowsInv, [Next]_vars
  PROVE  RowsInv'
<1>1. ASSUME NEW r \in Requests, ReplyLost(r)
      PROVE  FALSE
  BY <1>1 DEF ReplyLost, Calm
<1>2. CASE Crash
  BY <1>2 DEF Crash, Calm, TypeInv, TypeOK
<1>3. ASSUME NEW r \in Requests, Disconnect(r)
      PROVE  RowsInv'
  <2>1. UNCHANGED <<req, rows, object>> /\ CompletedStays
    BY <1>3 DEF Disconnect, s3, db, CompletedStays
  <2> QED BY <2>1, RowsElsewhere
<1> QED BY <1>1, <1>2, <1>3, StartRows, StepsRows, FailsRows, ElsewhereRows DEF Next, Fails

LEMMA RowsInit == Init => RowsInv
<1>1. Idle.pc = "idle"
  BY DEF Idle
<1> QED
  BY <1>1 DEF Init, RowsInv, RowsComplete, BetweenInv, DeletingInv, RemovingInv,
              NoDanglingRow, Between, Deleting, DeletePcs

\* A row always has its object, except while it is being deleted, whatever S3
\* refuses and however long handlers take, if only calls to S3 fail and no
\* process dies.
THEOREM RowsHaveObjects ==
  ASSUME Calm
  PROVE  Spec => []NoDanglingRow
<1> DEFINE Inv == IInv /\ IdsInv /\ ScriptsInv /\ RowsInv
<1>1. Init => Inv
  BY InitInv, ScriptsWholeInit, RowsInit
<1>2. Inv /\ [Next]_vars => Inv'
  <2>1. IInv => TypeInv
    BY DEF IInv
  <2> QED BY <2>1, NextInv, IdsNext, ScriptsNext, RowsNext
<1>3. Inv => NoDanglingRow
  BY DEF RowsInv
<1> QED BY <1>1, <1>2, <1>3, PTL DEF Spec

-----------------------------------------------------------------------------
(* Objects without a row *)

\* An object without a row belongs to a finalizeUpload that will insert the row
\* or delete the object; a row is removed after its object.
OrphanInv ==
  /\ \A u \in Uploads \ rows : object[u] # <<>> =>
       \E r \in Requests : Between(req[r]) /\ req[r].u = u
  /\ \A r \in Requests : req[r].pc = "dRow" => object[req[r].u] = <<>>
  /\ \A r \in Requests : req[r].pc = "rObjects" =>
       \A u \in req[r].keys \ req[r].set : object[u] = <<>>
  /\ \A r \in Requests : req[r].pc # "pObjects"

\* No call fails and no process dies, and nobody closes the account, which
\* would remove rows that were committed after their objects were listed.
Orderly == Calm /\ "s3" \notin Faults /\ "purge" \notin Ops

\* What a handler that deletes works on are uploads.
LEMMA DeletesUploads ==
  ASSUME TypeInv, NEW r \in Requests
  PROVE  /\ req[r].pc = "dRow" => req[r].u \in Uploads
         /\ req[r].keys \subseteq Uploads /\ req[r].set \subseteq Uploads
  BY ReqTyped DEF ReqInv, TypeInv, Shaped, PurgePcs, Handler

\* A step that makes no object, removes rows only without one, and lets go of
\* no object without a row.
LEMMA OrphanFrame ==
  ASSUME TypeInv, OrphanInv, NEW r \in Requests, Only(r),
         \A u \in Uploads : object'[u] \in {object[u], <<>>},
         \A u \in rows \ rows' : object'[u] = <<>>,
         \A u \in Uploads :
           Between(req[r]) /\ req[r].u = u /\ object'[u] # <<>> =>
             u \in rows' \/ (Between(req'[r]) /\ req'[r].u = u),
         req'[r].pc = "dRow" => object'[req'[r].u] = <<>>,
         req'[r].pc = "rObjects" =>
           \A u \in req'[r].keys \ req'[r].set : object'[u] = <<>>,
         req'[r].pc # "pObjects"
  PROVE  OrphanInv'
<1>0. \A s \in Requests \ {r} : req'[s] = req[s]
  BY DEF Only
<1>1. ASSUME NEW u \in Uploads \ rows', object'[u] # <<>>
      PROVE  \E s \in Requests : Between(req'[s]) /\ req'[s].u = u
  <2>1. object[u] # <<>> /\ u \notin rows
    BY <1>1
  <2>2. PICK s \in Requests : Between(req[s]) /\ req[s].u = u
    BY <2>1 DEF OrphanInv
  <2> QED BY <1>0, <1>1, <2>2
<1>2. ASSUME NEW s \in Requests, req'[s].pc = "dRow"
      PROVE  object'[req'[s].u] = <<>>
  <2>1. CASE s # r
    <3>1. req[s].u \in Uploads /\ object[req[s].u] = <<>>
      BY <1>0, <1>2, <2>1, DeletesUploads DEF OrphanInv
    <3> QED BY <1>0, <2>1, <3>1
  <2> QED BY <1>2, <2>1
<1>3. ASSUME NEW s \in Requests, req'[s].pc = "rObjects", NEW u \in req'[s].keys \ req'[s].set
      PROVE  object'[u] = <<>>
  <2>1. CASE s # r
    <3>1. u \in Uploads /\ object[u] = <<>>
      BY <1>0, <1>3, <2>1, DeletesUploads DEF OrphanInv
    <3> QED BY <3>1
  <2> QED BY <1>3, <2>1
<1>4. \A s \in Requests : req'[s].pc # "pObjects"
  BY <1>0 DEF OrphanInv
<1> QED BY <1>1, <1>2, <1>3, <1>4 DEF OrphanInv

\* A handler that neither finalises nor deletes.
LEMMA QuietOrphans ==
  ASSUME TypeInv, OrphanInv, NEW r \in Requests, Only(r), UNCHANGED <<object, rows>>,
         ~Between(req[r]), req'[r].pc \notin {"dRow", "pObjects", "rObjects"}
  PROVE  OrphanInv'
  BY OrphanFrame

\* finalizeUpload deletes its object after an exception.
LEMMA RaiseDeletes ==
  ASSUME NEW q \in Handler, q.pc \in {"fHead", "fLock", "fSum", "fCommit"}
  PROVE  Between(Raise(q)) /\ Raise(q).u = q.u
<1>1. Raise(q) = Clean(q, "fCatch", <<"object", "meta", "index", "active">>)
  BY ScriptsAre DEF Raise, ChunkPcs, FinalizePcs
<1> QED BY <1>1, CleanIs, HeadsAre DEF Between

\* A step within finalizeUpload that keeps its object, and an exception.
LEMMA FinalizeOrphans ==
  ASSUME TypeInv, OrphanInv, NEW r \in Requests, Only(r), UNCHANGED object,
         rows \subseteq rows',
         req[r].u \in rows' \/ (Between(req'[r]) /\ req'[r].u = req[r].u),
         req'[r].pc \in FinalizePcs
  PROVE  OrphanInv'
<1>1. req'[r].pc \notin {"dRow", "pObjects", "rObjects"}
  BY DEF FinalizePcs
<1> QED BY <1>1, OrphanFrame

\* The calls of its scripts: the first one deletes the object.
LEMMA FinalCallOrphans ==
  ASSUME TypeInv, ScriptsInv, OrphanInv, NEW r \in Requests,
         req[r].pc \in FinalizePcs, Returns(r), req[r].todo # <<>>, rows' = rows,
         IF Calling(r, "object") THEN object' = [object EXCEPT ![req[r].v] = <<>>]
                                 ELSE UNCHANGED object
  PROVE  OrphanInv'
<1>0. /\ req[r] \in Handler /\ Shaped(req[r]) /\ Scripted(req[r]) /\ Only(r)
      /\ Stays(req[r], req'[r]) /\ object \in [Uploads -> Seq(Requests)]
  BY ReqTyped, ReturnsStays DEF ReqInv, ScriptsInv, TypeInv, TypeOK
<1>1. req'[r].pc \notin {"dRow", "pObjects", "rObjects"}
  BY <1>0 DEF Stays, Idle, FinalizePcs, DeletePcs, PurgePcs
<1>2. \A u \in Uploads : object'[u] \in {object[u], <<>>}
  BY <1>0
<1>3. ASSUME Between(req[r]), req[r].u \in Uploads
      PROVE  object'[req[r].u] = <<>>
  <2>1. req[r].pc = "fCatch" /\ Calling(r, "object")
    BY <1>0, <1>3 DEF Between, Shaped, Calling
  <2>2. req[r].v = req[r].u
    BY <1>0, <2>1 DEF Scripted, Calling
  <2> QED BY <1>0, <1>3, <2>1, <2>2
<1> QED BY <1>0, <1>1, <1>2, <1>3, OrphanFrame

\* A new object belongs to the handler that has had it assembled.
LEMMA AssembleOrphans ==
  ASSUME TypeInv, RowsInv, OrphanInv, NEW r \in Requests, Complete(r), ~Throw(r)
  PROVE  OrphanInv'
<1> DEFINE w == req[r].u
<1>0. /\ req[r].pc = "fComplete" /\ w \in Uploads /\ object \in [Uploads -> Seq(Requests)]
      /\ Goto(r, "fComplete", "fHead") /\ multipart[w].state = "open" /\ rows' = rows
      /\ object' = [object EXCEPT ![w] = req[r].parts]
  BY DEF Complete, Completes, Assemble, db, TypeInv, TypeOK, Shaped, PurgePcs
<1>1. Only(r) /\ req'[r].pc = "fHead" /\ req'[r].u = w
  BY <1>0, ReqTyped, GotoMoves DEF Same
<1>2. /\ \A s \in Requests : ~Deleting(req[s], w)
      /\ \A u \in Uploads \ {w} : object'[u] = object[u]
      /\ ~Between(req[r])
  BY <1>0 DEF RowsInv, DeletingInv, Between
<1> HIDE DEF w
<1>3. ASSUME NEW u \in Uploads \ rows', object'[u] # <<>>
      PROVE  \E s \in Requests : Between(req'[s]) /\ req'[s].u = u
  <2>1. CASE u = w
    BY <1>1, <2>1 DEF Between
  <2>2. CASE u # w
    <3>1. PICK s \in Requests : Between(req[s]) /\ req[s].u = u
      BY <1>0, <1>2, <1>3, <2>2 DEF OrphanInv
    <3> QED BY <1>1, <1>2, <3>1 DEF Only
  <2> QED BY <2>1, <2>2
<1>4. ASSUME NEW s \in Requests, req'[s].pc = "dRow"
      PROVE  object'[req'[s].u] = <<>>
  <2>1. req'[s] = req[s] /\ req[s].u \in Uploads
    BY <1>1, <1>4, DeletesUploads DEF Only
  <2>2. Deleting(req[s], req[s].u)
    BY <1>4, <2>1 DEF Deleting, DeletePcs
  <2> QED BY <1>2, <1>4, <2>1, <2>2 DEF OrphanInv
<1>5. ASSUME NEW s \in Requests, req'[s].pc = "rObjects", NEW u \in req'[s].keys \ req'[s].set
      PROVE  object'[u] = <<>>
  <2>1. req'[s] = req[s] /\ u \in Uploads
    BY <1>1, <1>5, DeletesUploads DEF Only
  <2>2. Deleting(req[s], u)
    BY <1>5, <2>1 DEF Deleting
  <2> QED BY <1>2, <1>5, <2>1, <2>2 DEF OrphanInv
<1>6. \A s \in Requests : req'[s].pc # "pObjects"
  BY <1>1 DEF OrphanInv, Only
<1> QED BY <1>3, <1>4, <1>5, <1>6 DEF OrphanInv

\* Every step of a handler keeps OrphanInv.
LEMMA StepsOrphans ==
  ASSUME Orderly, TypeInv, IdsInv, ScriptsInv, RowsInv, OrphanInv, NEW r \in Requests, Steps(r)
  PROVE  OrphanInv'
<1>0. /\ req[r] \in Handler /\ req \in [Requests -> Handler] /\ ReqInv /\ Only(r)
      /\ Stays(req[r], req'[r]) /\ Shaped(req[r])
      /\ object \in [Uploads -> Seq(Requests)]
  BY ReqTyped, StepsProceed, StepsStay DEF ReqInv, Proceeds, TypeInv, TypeOK
<1>1. ASSUME req[r].pc \in InitPcs \cup ChunkPcs \cup {"pScan", "pAborts", "kClean"},
             UNCHANGED <<object, rows>>, req'[r].pc \notin {"pObjects", "rObjects"}
      PROVE  OrphanInv'
  <2>1. ~Between(req[r]) /\ req'[r].pc # "dRow"
    BY <1>0, <1>1
       DEF Between, Stays, Idle, InitPcs, ChunkPcs, DeletePcs, PurgePcs
  <2> QED BY <1>0, <1>1, <2>1, QuietOrphans
<1>2. ASSUME \/ InitLock(r) \/ InitConflict(r) \/ CreateMultipart(r) \/ SetMeta(r)
             \/ SetIndex(r) \/ ReadActive(r) \/ ReadMetas(r) \/ Evict(r) \/ AddActive(r)
             \/ InitUnlock(r)
             \/ ChunkRead(r) \/ ChunkTouch(r) \/ ChunkSend(r) \/ ChunkLand(r)
             \/ ChunkExists(r) \/ ChunkStore(r) \/ ChunkUnlock(r)
             \/ PurgeScan(r) \/ PurgeAborts(r) \/ PurgeKeys(r)
      PROVE  OrphanInv'
  <2>1. UNCHANGED <<object, rows>>
    BY <1>2 DEF InitLock, InitConflict, CreateMultipart, SetMeta, SetIndex,
         ReadActive, ReadMetas, Evict, AddActive, InitUnlock, ChunkRead, ChunkTouch,
         ChunkSend, ChunkLand, ChunkExists, ChunkStore, ChunkUnlock, PurgeScan,
         PurgeAborts, PurgeKeys, s3, db
  <2>2. \/ req[r].pc \in InitPcs \cup ChunkPcs
        \/ PurgeScan(r) \/ PurgeAborts(r) \/ PurgeKeys(r)
    BY <1>2 DEF InitLock, InitConflict, CreateMultipart, SetMeta, SetIndex,
         ReadActive, ReadMetas, Evict, AddActive, InitUnlock, ChunkRead, ChunkTouch,
         ChunkSend, ChunkLand, ChunkExists, ChunkStore, ChunkUnlock,
         InitPcs, ChunkPcs, Goto
  <2>3. req[r].pc \in InitPcs \cup ChunkPcs \cup {"pScan", "pAborts"}
    BY <2>2 DEF PurgeScan, PurgeAborts, PurgeKeys
  <2>4. req'[r].pc \notin {"pObjects", "rObjects"}
    <3>1. CASE PurgeScan(r)
      BY <1>0, <3>1 DEF PurgeScan, Handler
    <3>2. CASE PurgeAborts(r)
      <4>1. PICK u : req' = [req EXCEPT ![r].set = @ \ {u}]
        BY <3>2 DEF PurgeAborts
      <4> QED BY <1>0, <3>2, <4>1 DEF PurgeAborts, Handler
    <3>3. CASE PurgeKeys(r)
      BY <1>0, <3>3, FinishFollows DEF PurgeKeys, Idle
    <3>4. CASE req[r].pc \in InitPcs \cup ChunkPcs
      BY <1>0, <3>4 DEF Stays, Idle, InitPcs, ChunkPcs, PurgePcs
    <3> QED BY <2>2, <3>1, <3>2, <3>3, <3>4
  <2> QED BY <1>1, <2>1, <2>3, <2>4
<1>3. ASSUME \/ CallAbort(r) \/ CallDeleteObject(r) \/ CallDelMeta(r) \/ CallDelIndex(r)
             \/ CallRelease(r)
      PROVE  OrphanInv'
  <2>1. req[r].todo # <<>> /\ rows' = rows
    BY <1>3 DEF CallAbort, CallDeleteObject, CallDelMeta, CallDelIndex, CallRelease,
                Calling, db
  <2>2. /\ Calling(r, "abort") => req[r].pc \in {"iEvict", "kClean"}
        /\ Calling(r, "object") => req[r].pc = "fCatch"
    BY <2>1, CallsPlaced DEF Calling
  <2>3. IF Calling(r, "object") THEN object' = [object EXCEPT ![req[r].v] = <<>>]
                                ELSE UNCHANGED object
    BY <1>3 DEF CallAbort, CallDeleteObject, CallDelMeta, CallDelIndex, CallRelease, s3,
                Calling
  <2>4. CASE req[r].pc \in FinalizePcs
    <3>1. Returns(r)
      BY <1>3, <2>2, <2>4
         DEF CallAbort, CallDeleteObject, CallDelMeta, CallDelIndex, CallRelease, FinalizePcs
    <3> QED BY <2>1, <2>3, <2>4, <3>1, FinalCallOrphans
  <2>5. CASE req[r].pc \notin FinalizePcs
    <3>1. req[r].pc \in {"iEvict", "iCatch", "cCatch", "kClean"}
      BY <1>0, <2>1, <2>5 DEF Shaped, FinalizePcs
    <3>2. object' = object
      BY <2>2, <2>3, <3>1
    <3>3. req[r].pc \in InitPcs \cup ChunkPcs \cup {"kClean"}
      BY <3>1 DEF InitPcs, ChunkPcs
    <3>4. req'[r].pc \notin {"pObjects", "rObjects"}
      BY <1>0, <3>1 DEF Stays, Idle, PurgePcs
    <3> QED BY <1>1, <2>1, <3>2, <3>3, <3>4
  <2> QED BY <2>4, <2>5
<1>4. ASSUME Throw(r), req[r].pc \in FinalizePcs \ {"fClean", "fCatch"},
             UNCHANGED <<object, rows>>
      PROVE  OrphanInv'
  <2>1. req'[r] = Raise(req[r])
    BY <1>0, <1>4, ThrowFollows
  <2>2. CASE req[r].pc = "fComplete"
    <3>1. ~Between(req[r]) /\ req'[r].pc \notin {"dRow", "pObjects", "rObjects"}
      BY <1>0, <2>1, <2>2, RaiseLands DEF Between
    <3> QED BY <1>0, <1>4, <3>1, QuietOrphans
  <2>3. CASE req[r].pc # "fComplete"
    <3>1. Between(req'[r]) /\ req'[r].u = req[r].u
      BY <1>0, <1>4, <2>1, <2>3, RaiseDeletes DEF FinalizePcs
    <3> QED BY <1>0, <1>4, <3>1, FinalizeOrphans DEF Between, FinalizePcs
  <2> QED BY <2>2, <2>3
<1>5. CASE Complete(r)
  <2>1. CASE Throw(r)
    <3>1. req[r].pc = "fComplete" /\ UNCHANGED rows
      BY <1>5 DEF Complete, db
    <3>2. UNCHANGED object
      <4>1. CASE UNCHANGED s3
        BY <4>1 DEF s3
      <4>2. CASE Goto(r, "fComplete", "fHead")
        <5>1. req'[r].pc = "fHead" /\ req'[r] = Raise(req[r])
          BY <1>0, <2>1, <4>2, GotoMoves, ThrowFollows
        <5> QED BY <1>0, <5>1, RaiseLands
      <4> QED BY <1>5, <4>1, <4>2 DEF Complete
    <3> QED BY <1>4, <2>1, <3>1, <3>2 DEF FinalizePcs
  <2>2. CASE ~Throw(r)
    BY <1>5, <2>2, AssembleOrphans
  <2> QED BY <2>1, <2>2
<1>6. CASE HeadObject(r) \/ LockUser(r) \/ SumRows(r)
  <2>1. /\ req[r].pc \in FinalizePcs \ {"fClean", "fCatch"}
        /\ UNCHANGED <<object, rows>>
    BY <1>6 DEF HeadObject, LockUser, SumRows, Goto, FinalizePcs, s3, db
  <2>2. CASE Throw(r)
    BY <1>4, <2>1, <2>2
  <2>3. CASE ~Throw(r)
    <3>1. req'[r].pc \in {"fLock", "fSum", "fCommit"}
      <4>1. CASE HeadObject(r) \/ LockUser(r)
        <5>1. \E from \in Pcs : \E to \in {"fLock", "fSum"} : Goto(r, from, to)
          BY <2>3, <4>1 DEF HeadObject, LockUser, Pcs, FinalizePcs
        <5> QED BY <1>0, <5>1, GotoMoves
      <4>2. CASE SumRows(r)
        <5>1. req' = [req EXCEPT ![r].pc = "fCommit", ![r].sum = Total[rows]]
          BY <2>3, <4>2 DEF SumRows
        <5> QED BY <1>0, <5>1 DEF Handler
      <4> QED BY <1>6, <4>1, <4>2
    <3>2. req'[r].u = req[r].u
      BY <1>0, <3>1 DEF Stays, Idle
    <3> QED BY <1>0, <2>1, <3>1, <3>2, FinalizeOrphans DEF Between, FinalizePcs
  <2> QED BY <2>2, <2>3
<1>7. CASE CommitRow(r)
  <2>1. /\ rows' = rows \cup {req[r].u} /\ UNCHANGED object
        /\ req'[r] = Clean(req[r], "fClean", FinalizeCalls)
    BY <1>0, <1>7 DEF CommitRow, s3
  <2>2. req'[r].pc \in FinalizePcs
    BY <2>1, CleanIs DEF FinalizePcs
  <2> QED BY <1>0, <2>1, <2>2, FinalizeOrphans
<1>8. CASE DeleteObject(r)
  <2>1. /\ req[r].pc = "dObject" /\ req'[r].pc = "dRow" /\ req'[r].u = req[r].u
        /\ rows' = rows /\ object' = [object EXCEPT ![req[r].u] = <<>>]
    BY <1>0, <1>8, GotoMoves DEF DeleteObject, Same, db, Orderly
  <2>2. req[r].u \in Uploads /\ ~Between(req[r])
    BY <1>0, <2>1 DEF Shaped, PurgePcs, Between
  <2>3. /\ \A u \in Uploads : object'[u] \in {object[u], <<>>}
        /\ object'[req'[r].u] = <<>>
    BY <1>0, <2>1, <2>2
  <2> QED BY <1>0, <2>1, <2>2, <2>3, OrphanFrame
<1>9. CASE DeleteRow(r)
  <2>1. /\ req[r].pc = "dRow" /\ req'[r].pc = "idle" /\ rows' = rows \ {req[r].u}
        /\ object' = object
    BY <1>0, <1>9, FinishFollows DEF DeleteRow, s3, Idle
  <2>2. ~Between(req[r]) /\ object[req[r].u] = <<>>
    BY <2>1 DEF Between, OrphanInv
  <2> QED BY <1>0, <2>1, <2>2, OrphanFrame
<1>10. CASE DeleteObjects(r)
  <2>1. PICK u \in req[r].set :
          /\ req' = [req EXCEPT ![r].set = @ \ {u}]
          /\ object' = [object EXCEPT ![u] = <<>>]
    BY <1>10 DEF DeleteObjects, Orderly
  <2>2. /\ req[r].pc = "rObjects" /\ req'[r].pc = "rObjects"
        /\ req'[r].set = req[r].set \ {u} /\ req'[r].keys = req[r].keys /\ rows' = rows
    BY <1>0, <1>10, <2>1 DEF DeleteObjects, Handler, db, OrphanInv
  <2>3. u \in Uploads /\ ~Between(req[r])
    BY <2>1, <2>2, DeletesUploads DEF Between
  <2>4. \A x \in Uploads : object'[x] \in {object[x], <<>>}
    BY <1>0, <2>1
  <2>5. ASSUME NEW x \in req'[r].keys \ req'[r].set
        PROVE  object'[x] = <<>>
    <3>1. CASE x = u
      BY <1>0, <2>1, <2>3, <3>1
    <3>2. CASE x # u
      <4>1. x \in req[r].keys \ req[r].set
        BY <2>2, <2>5, <3>2
      <4>2. x \in Uploads /\ object[x] = <<>>
        BY <2>2, <4>1, DeletesUploads DEF OrphanInv
      <4> QED BY <2>4, <4>2
    <3> QED BY <3>1, <3>2
  <2> QED BY <1>0, <2>2, <2>3, <2>4, <2>5, OrphanFrame
<1>11. CASE RemoveRows(r)
  <2>1. /\ req[r].pc = "rObjects" /\ req[r].set = {} /\ req'[r].pc = "idle"
        /\ rows' = rows \ req[r].keys /\ object' = object
    BY <1>0, <1>11, FinishFollows DEF RemoveRows, s3, Idle
  <2>2. ~Between(req[r]) /\ \A u \in req[r].keys : object[u] = <<>>
    BY <2>1 DEF Between, OrphanInv
  <2> QED BY <1>0, <2>1, <2>2, OrphanFrame
<1>12. ~PurgeRows(r)
  BY DEF PurgeRows, OrphanInv
<1> QED
  BY <1>2, <1>3, <1>5, <1>6, <1>7, <1>8, <1>9, <1>10, <1>11, <1>12 DEF Steps

\* So does every step.
LEMMA OrphansNext ==
  ASSUME Orderly, TypeInv, IdsInv, ScriptsInv, RowsInv, OrphanInv, [Next]_vars
  PROVE  OrphanInv'
<1>1. ASSUME NEW r \in Requests, Starts(r)
      PROVE  OrphanInv'
  <2>1. Only(r) /\ req[r] = Idle /\ Begins(req'[r]) /\ UNCHANGED <<object, rows>>
    BY <1>1, StartBegins DEF s3, db
  <2>2. ~Between(req[r]) /\ req'[r].pc # "dRow"
    BY <2>1 DEF Begins, Between, Idle
  <2>3. req'[r].pc = "rObjects" => req'[r].set = req'[r].keys
    BY <2>1 DEF Begins
  <2>4. req'[r].pc # "pObjects"
    <3>0. req \in [Requests -> Handler] /\ "purge" \notin Ops
      BY ReqTyped DEF ReqInv, Orderly
    <3>1. CASE \E u \in Uploads : InitCheck(r, u) \/ ChunkLock(r, u) \/ DeleteStart(r, u)
      BY <3>0, <3>1, AtIs DEF InitCheck, ChunkLock, DeleteStart
    <3>2. CASE \E u \in Uploads : FinalizeStart(r, u)
      <4>1. PICK u \in Uploads :
              req' = [req EXCEPT ![r] = [At("fComplete", u) EXCEPT !.parts = meta[u].parts]]
        BY <3>2 DEF FinalizeStart
      <4>2. At("fComplete", u) \in Handler /\ At("fComplete", u).pc = "fComplete"
        BY AtType DEF Pcs, FinalizePcs
      <4> QED BY <3>0, <4>1, <4>2 DEF Handler
    <3>3. CASE \E u \in Uploads : CancelStart(r, u)
      <4>1. \E q, calls : req'[r] = Clean(q, "kClean", calls)
        BY <3>0, <3>3 DEF CancelStart
      <4> QED BY <4>1, CleanIs
    <3>4. CASE RemoveStart(r)
      <4>1. \E files : req'[r] = [Idle EXCEPT !.pc = "rObjects", !.set = files,
                                              !.keys = files]
        BY <3>0, <3>4 DEF RemoveStart
      <4> QED BY <4>1, IdleType DEF Handler
    <3> QED BY <1>1, <3>0, <3>1, <3>2, <3>3, <3>4 DEF Starts, PurgeStart
  <2> QED BY <2>1, <2>2, <2>3, <2>4, OrphanFrame
<1>2. CASE UNCHANGED <<req, object, rows>>
  BY <1>2 DEF OrphanInv, Between
<1>3. Sweeps \/ Expires \/ UNCHANGED vars => UNCHANGED <<req, object, rows>>
  BY DEF Sweeps, SweepStart, SweepEnd, SweepInspect, SweepAbort, SweepUntrack,
         Expires, ExpireActive, ExpireInitLock, Age, ExpireMeta, ExpireIndex,
         ExpireChunkLock, vars, s3, db
<1>4. ASSUME NEW r \in Requests
      PROVE  ~CallFails(r) /\ ~ReplyLost(r)
  <2>1. Faults \subseteq FaultKinds
    BY EnvironmentAssumption
  <2>2. Store(req[r]) \in {"s3", "redis", "db", "none"}
    BY DEF Store
  <2>3. Store(req[r]) \notin Faults /\ "reply" \notin Faults
    BY <2>1, <2>2 DEF Orderly, Calm, FaultKinds
  <2> QED BY <2>3 DEF CallFails, ReplyLost
<1>5. ~Crash
  BY DEF Crash, Orderly, Calm, TypeInv, TypeOK
<1>6. \A r \in Requests : Disconnect(r) => UNCHANGED <<req, object, rows>>
  BY DEF Disconnect, s3, db
<1> QED BY <1>1, <1>2, <1>3, <1>4, <1>5, <1>6, StepsOrphans DEF Next, Fails

\* Rows and objects agree, though no transaction spans the database and S3:
\* a row has its object except while it is being deleted, and an object without
\* a row is one whose finalizeUpload is still running, whatever uploads, user's
\* and admin's deletions overlap, slow holders and disconnected clients
\* included.
THEOREM RowsAndObjectsAgree ==
  ASSUME Orderly
  PROVE  Spec => [](StoresAgree /\ NoOrphanObject)
<1> DEFINE Inv == IInv /\ IdsInv /\ ScriptsInv /\ RowsInv /\ OrphanInv
<1>1. Init => Inv
  <2>1. Init => OrphanInv
    BY DEF Init, OrphanInv, Idle
  <2> QED BY <2>1, InitInv, ScriptsWholeInit, RowsInit
<1>2. Inv /\ [Next]_vars => Inv'
  <2>1. IInv => TypeInv
    BY DEF IInv
  <2>2. Calm
    BY DEF Orderly
  <2> QED BY <2>1, <2>2, NextInv, IdsNext, ScriptsNext, RowsNext, OrphansNext
<1>3. Inv => StoresAgree /\ NoOrphanObject
  <2>1. \A q : Between(q) => q.pc \in FinalizePcs
    BY DEF Between, FinalizePcs
  <2> QED BY <2>1 DEF RowsInv, OrphanInv, StoresAgree, NoOrphanObject, BeingFinalized
<1> QED BY <1>1, <1>2, <1>3, PTL DEF Spec

-----------------------------------------------------------------------------
(* No stuck slot *)

\* Neither Redis nor the answers of the stores fail, and no process dies.
Answered == Faults \cap {"redis", "reply"} = {} /\ MaxCrashes = 0

Early == {"iLock", "iCreate", "iMeta"}
Tracking == {"iIndex", "iMembers", "iMetas", "iEvict", "iAdd"}

\* The initializeUpload of w has added it to the active set, if it ever will;
\* it has written the metadata, if it ever will.
Past(w) ==
  /\ w \in known
  /\ \A s \in Requests : req[s].u = w => req[s].pc \notin InitPcs \ {"iUnlock"}
Entered(w) ==
  /\ w \in known
  /\ \A s \in Requests : req[s].u = w => req[s].pc \notin Early

\* What a handler deals with beside its own upload is past that.
Beside(q) ==
  /\ q.pc \in {"iMetas", "iEvict"} => \A w \in q.set : Past(w)
  /\ q.pc = "iEvict" /\ q.todo # <<>> => Past(q.v)
  /\ q.pc = "pAborts" => q.set \subseteq q.keys /\ \A w \in q.keys : Entered(w)
PastInv ==
  /\ \A u \in active : Past(u)
  /\ \A r \in Requests : Beside(req[r])

\* No step takes an upload back.
PastStays == \A w \in Uploads : (Past(w) => Past(w)') /\ (Entered(w) => Entered(w)')

\* A handler that has left the beginning of initializeUpload.
Leaves(r) ==
  \/ req'[r].u = req[r].u /\ req'[r].pc = req[r].pc
  \/ /\ req'[r].u = req[r].u /\ req'[r].pc \notin Early
     /\ req'[r].pc \in InitPcs \ {"iUnlock"} => req[r].pc \in InitPcs \ {"iUnlock"}
  \/ req'[r].u = req[r].u /\ req[r].pc \in Early
  \/ req'[r].pc \notin InitPcs

\* A step by which a handler goes on takes no upload back.
LEMMA LeavesPast ==
  ASSUME NEW r \in Requests, Only(r), Leaves(r), known \subseteq known'
  PROVE  PastStays
<1>1. ASSUME NEW w \in Uploads, Past(w)
      PROVE  Past(w)'
  <2>1. ASSUME NEW s \in Requests, req'[s].u = w
        PROVE  req'[s].pc \notin InitPcs \ {"iUnlock"}
    BY <1>1, <2>1 DEF Past, Only, Leaves, Early, InitPcs
  <2> QED BY <1>1, <2>1 DEF Past
<1>2. ASSUME NEW w \in Uploads, Entered(w)
      PROVE  Entered(w)'
  <2>1. ASSUME NEW s \in Requests, req'[s].u = w
        PROVE  req'[s].pc \notin Early
    BY <1>2, <2>1 DEF Entered, Only, Leaves, Early, InitPcs
  <2> QED BY <1>2, <2>1 DEF Entered
<1> QED BY <1>1, <1>2 DEF PastStays

\* A step that adds nothing to the active set.
LEMMA PastFrame ==
  ASSUME TypeInv, ScriptsInv, PastInv, NEW r \in Requests, Only(r), PastStays,
         active' \subseteq active, Beside(req[r])'
  PROVE  PastInv'
<1>1. \A u \in active : Past(u)'
  BY DEF PastInv, PastStays, TypeInv, TypeOK
<1>2. ASSUME NEW s \in Requests \ {r}
      PROVE  Beside(req[s])'
  <2>1. req'[s] = req[s] /\ Beside(req[s]) /\ req[s].set \subseteq Uploads
        /\ req[s].keys \subseteq Uploads
    BY DeletesUploads DEF Only, PastInv
  <2>2. req[s].pc = "iEvict" /\ req[s].todo # <<>> => req[s].v \in Uploads
    BY DEF ScriptsInv, Scripted
  <2>3. \E p : p = req[s]
    OBVIOUS
  <2>4. PICK p : p = req[s]
    BY <2>3
  <2>5. Beside(p)
    BY <2>1, <2>4
  <2>6. Beside(p)'
    BY <2>1, <2>2, <2>4, <2>5 DEF Beside, PastStays
  <2>7. p = req'[s]
    BY <2>1, <2>4
  <2> QED BY <2>6, <2>7 DEF Beside, Past, Entered
<1> QED BY <1>1, <1>2 DEF PastInv

\* Outside makeRoomForActiveUpload and clearUserRedisData a handler deals with
\* its own upload only.
Alone(q) == q.pc \notin {"iMetas", "iEvict", "pAborts"}
LEMMA AloneBeside ==
  ASSUME NEW r \in Requests, Alone(req'[r])
  PROVE  Beside(req[r])'
  BY DEF Alone, Beside

\* A step of a handler goes on in initializeUpload or leaves it.
LEMMA StepsLeave ==
  ASSUME TypeInv, IdsInv, ScriptsInv, NEW r \in Requests, Steps(r)
  PROVE  Leaves(r)
<1>0. /\ req[r] \in Handler /\ ReqInv /\ Only(r) /\ Stays(req[r], req'[r])
      /\ Shaped(req[r]) /\ Idle.pc = "idle"
  BY ReqTyped, StepsProceed, StepsStay DEF ReqInv, Proceeds, Idle
<1>1. CASE req[r].pc \notin InitPcs \/ req[r].pc \in Early
  BY <1>0, <1>1 DEF Stays, Leaves, InitPcs, Early
<1>2. CASE req[r].pc = "iUnlock"
  <2>1. req[r].todo = <<>>
    BY <1>0, <1>2 DEF Shaped
  <2>2. InitUnlock(r)
    BY <1>2, <2>1
       DEF Steps, InitLock, InitConflict, CreateMultipart, SetMeta, SetIndex,
           ReadActive, ReadMetas, Evict, AddActive, ChunkRead, ChunkTouch,
           ChunkSend, ChunkLand, ChunkExists, ChunkStore, ChunkUnlock, Complete,
           HeadObject, LockUser, SumRows, CommitRow, CallAbort, CallDeleteObject,
           CallDelMeta, CallDelIndex, CallRelease, Calling, DeleteObject, DeleteRow,
           DeleteObjects, RemoveRows, PurgeRows, PurgeScan, PurgeAborts, PurgeKeys, Goto
  <2> QED BY <1>0, <2>2, FinishFollows DEF InitUnlock, Leaves, InitPcs
<1>3. CASE req[r].pc \in InitPcs \ (Early \cup {"iUnlock"})
  <2>1. Follows(req[r], req'[r])
    <3>1. CASE SetIndex(r) \/ ReadActive(r) \/ ReadMetas(r) \/ Evict(r) \/ AddActive(r)
      BY <3>1, InitOrdinary
    <3>2. CASE \/ CallAbort(r) \/ CallDeleteObject(r) \/ CallDelMeta(r) \/ CallDelIndex(r)
               \/ CallRelease(r)
      BY <3>2, CallOrdinary
    <3>3. CASE InitUnlock(r)
      BY <1>0, <3>3, FinishFollows DEF InitUnlock
    <3>4. \/ SetIndex(r) \/ ReadActive(r) \/ ReadMetas(r) \/ Evict(r) \/ AddActive(r)
          \/ CallAbort(r) \/ CallDeleteObject(r) \/ CallDelMeta(r) \/ CallDelIndex(r)
          \/ CallRelease(r) \/ InitUnlock(r)
      BY <1>3
         DEF Steps, InitLock, InitConflict, CreateMultipart, SetMeta, ChunkRead,
             ChunkTouch, ChunkSend, ChunkLand, ChunkExists, ChunkStore, ChunkUnlock,
             Complete, HeadObject, LockUser, SumRows, CommitRow, DeleteObject,
             DeleteRow, DeleteObjects, RemoveRows, PurgeRows, PurgeScan, PurgeAborts,
             PurgeKeys, Goto, Early, InitPcs
    <3> QED BY <3>1, <3>2, <3>3, <3>4
  <2>2. CASE req'[r] = Idle
    BY <1>0, <2>2 DEF Leaves, InitPcs
  <2>3. CASE req'[r] # Idle
    BY <1>0, <1>3, <2>1, <2>3, InitHasUpload DEF Stays, Follows, Leaves, Early
  <2> QED BY <2>2, <2>3
<1> QED BY <1>1, <1>2, <1>3

\* Few steps lead to a place where a handler deals with others.
LEMMA StepsAlone ==
  ASSUME TypeInv, IdsInv, ScriptsInv, NEW r \in Requests, Steps(r),
         ~ReadActive(r), ~ReadMetas(r), ~Evict(r), ~PurgeScan(r), ~PurgeAborts(r),
         ~(req[r].pc = "iEvict" /\ Returns(r) /\ req[r].todo # <<>>)
  PROVE  Alone(req'[r])
<1>0. /\ req[r] \in Handler /\ ReqInv /\ Only(r) /\ Stays(req[r], req'[r])
      /\ Shaped(req[r]) /\ Scripted(req[r]) /\ Idle.pc = "idle"
  BY ReqTyped, StepsProceed, StepsStay DEF ReqInv, ScriptsInv, Proceeds, Idle
<1>1. CASE Throw(r)
  BY <1>0, <1>1, ThrowFollows, RaiseLands DEF Alone
<1>2. CASE Returns(r) /\ req[r].todo # <<>>
  <2>1. req'[r] = Continue(req[r])
    BY <1>0, <1>2, ReturnsFollows
  <2>2. Continue(req[r]).pc \in {req[r].pc, "iFail", "cUnlock", "idle"}
    BY <1>0, <1>2, ContinueLeads, AtIs
  <2> QED BY <1>0, <1>2, <2>1, <2>2 DEF Alone, Shaped
<1>3. CASE Finish(r)
  BY <1>0, <1>3, FinishFollows DEF Alone
<1>4. CASE req[r].pc \notin InitPcs \cup PurgePcs
  BY <1>0, <1>4 DEF Stays, Alone, InitPcs, PurgePcs
<1>5. CASE \/ InitLock(r) \/ CreateMultipart(r) \/ SetMeta(r) \/ SetIndex(r) \/ AddActive(r)
  <2>1. \E from : \E to \in {"iCreate", "iMeta", "iIndex", "iMembers", "iUnlock"} :
          Goto(r, from, to)
    BY <1>5 DEF InitLock, CreateMultipart, SetMeta, SetIndex, AddActive
  <2> QED BY <1>0, <2>1, GotoMoves DEF Alone
<1>6. CASE InitConflict(r) \/ InitUnlock(r) \/ RemoveRows(r) \/ PurgeKeys(r)
  BY <1>3, <1>6 DEF InitConflict, InitUnlock, RemoveRows, PurgeKeys
<1>7. CASE PurgeRows(r)
  BY <1>0, <1>7 DEF PurgeRows, Handler, Alone, ReqInv
<1>8. CASE DeleteObjects(r)
  <2>1. PICK u : req' = [req EXCEPT ![r].set = @ \ {u}]
    BY <1>8 DEF DeleteObjects
  <2> QED BY <1>0, <1>8, <2>1 DEF DeleteObjects, Handler, Alone, ReqInv
<1>9. CASE \/ CallAbort(r) \/ CallDeleteObject(r) \/ CallDelMeta(r) \/ CallDelIndex(r)
           \/ CallRelease(r)
  BY <1>1, <1>2, <1>9
     DEF CallAbort, CallDeleteObject, CallDelMeta, CallDelIndex, CallRelease, Calling
<1>10. \/ req[r].pc \notin InitPcs \cup PurgePcs
       \/ InitLock(r) \/ CreateMultipart(r) \/ SetMeta(r) \/ SetIndex(r) \/ AddActive(r)
       \/ InitConflict(r) \/ InitUnlock(r) \/ RemoveRows(r) \/ PurgeKeys(r)
       \/ PurgeRows(r) \/ DeleteObjects(r)
       \/ CallAbort(r) \/ CallDeleteObject(r) \/ CallDelMeta(r) \/ CallDelIndex(r)
       \/ CallRelease(r)
  BY DEF Steps, ChunkRead, ChunkTouch, ChunkSend, ChunkLand, ChunkExists, ChunkStore,
         ChunkUnlock, Complete, HeadObject, LockUser, SumRows, CommitRow,
         DeleteObject, DeleteRow, Goto, InitPcs, PurgePcs
<1> QED BY <1>4, <1>5, <1>6, <1>7, <1>8, <1>9, <1>10

\* Every step of a handler keeps PastInv.
LEMMA StepsPast ==
  ASSUME TypeInv, IdsInv, ScriptsInv, PastInv, NEW r \in Requests, Steps(r)
  PROVE  PastInv' /\ PastStays
<1>0. /\ req[r] \in Handler /\ req \in [Requests -> Handler] /\ ReqInv /\ Only(r)
      /\ Shaped(req[r]) /\ Scripted(req[r]) /\ Beside(req[r])
  BY ReqTyped, StepsProceed DEF ReqInv, ScriptsInv, Proceeds, PastInv
<1>1. PastStays
  <2>1. CASE InitConflict(r)
    <3>1. /\ req[r].pc = "iLock" /\ known' = known \ {req[r].u} /\ req'[r].pc = "idle"
      BY <1>0, <2>1, FinishFollows DEF InitConflict, Idle
    <3>2. \A w \in Uploads : Past(w) \/ Entered(w) => w # req[r].u
      BY <3>1 DEF Past, Entered, Early, InitPcs
    <3>3. \A s \in Requests : req'[s] = req[s] \/ req'[s].pc = "idle"
      BY <1>0, <3>1 DEF Only
    <3>4. ASSUME NEW w \in Uploads
          PROVE  (Past(w) => Past(w)') /\ (Entered(w) => Entered(w)')
      BY <3>1, <3>2, <3>3 DEF Past, Entered, Early, InitPcs
    <3> QED BY <3>4 DEF PastStays
  <2>2. CASE ~InitConflict(r)
    <3>1. known' = known
      BY <2>2
         DEF Steps, InitLock, CreateMultipart, SetMeta, SetIndex,
             ReadActive, ReadMetas, Evict, AddActive, InitUnlock, ChunkRead, ChunkTouch,
             ChunkSend, ChunkLand, ChunkExists, ChunkStore, ChunkUnlock, Complete,
             HeadObject, LockUser, SumRows, CommitRow, CallAbort, CallDeleteObject,
             CallDelMeta, CallDelIndex, CallRelease, DeleteObject, DeleteRow,
             DeleteObjects, RemoveRows, PurgeRows, PurgeScan, PurgeAborts, PurgeKeys, ids
    <3> QED BY <1>0, <3>1, StepsLeave, LeavesPast
  <2> QED BY <2>1, <2>2
<1>2. ~AddActive(r) => active' \subseteq active
  BY DEF Steps, InitLock, InitConflict, CreateMultipart, SetMeta, SetIndex,
         ReadActive, ReadMetas, Evict, InitUnlock, ChunkRead, ChunkTouch,
         ChunkSend, ChunkLand, ChunkExists, ChunkStore, ChunkUnlock, Complete,
         HeadObject, LockUser, SumRows, CommitRow, CallAbort, CallDeleteObject,
         CallDelMeta, CallDelIndex, CallRelease, DeleteObject, DeleteRow,
         DeleteObjects, RemoveRows, PurgeRows, PurgeScan, PurgeAborts, PurgeKeys, redis
<1>3. CASE AddActive(r)
  <2>0. PICK w : w = req[r].u
    OBVIOUS
  <2>1. /\ req[r].pc = "iAdd" /\ req'[r].pc = "iUnlock" /\ req'[r].u = w
        /\ active' = active \cup {w} /\ known' = known /\ w \in Uploads
        /\ w # NoUpload
    BY <1>0, <1>3, <2>0, GotoMoves, InitHasUpload DEF AddActive, Same, ids, InitPcs
  <2>2. w \in known /\ \A s \in Requests \ {r} : req[s].u = w => req[s].pc \notin InitPcs
    BY <2>0, <2>1 DEF IdsInv, InitPcs
  <2>3. Past(w)'
    <3>1. \A s \in Requests : req'[s].u = w => req'[s].pc \notin InitPcs \ {"iUnlock"}
      BY <1>0, <2>1, <2>2 DEF Only
    <3> QED BY <2>1, <2>2, <3>1 DEF Past
  <2>4. \A u \in active : Past(u)'
    BY <1>1 DEF PastInv, PastStays, TypeInv, TypeOK
  <2>5. \A s \in Requests : Beside(req[s])'
    <3>1. ASSUME NEW s \in Requests
          PROVE  Beside(req[s])'
      <4>1. CASE s = r
        BY <2>1, <4>1, AloneBeside DEF Alone
      <4>2. CASE s # r
        <5>1. req'[s] = req[s] /\ Beside(req[s]) /\ req[s].set \subseteq Uploads
              /\ req[s].keys \subseteq Uploads
          BY <1>0, <4>2, DeletesUploads DEF Only, PastInv
        <5>2. req[s].pc = "iEvict" /\ req[s].todo # <<>> => req[s].v \in Uploads
          BY DEF ScriptsInv, Scripted
        <5>3. PICK p : p = req[s]
          OBVIOUS
        <5>4. Beside(p)
          BY <5>1, <5>3
        <5>5. Beside(p)'
          BY <1>1, <5>1, <5>2, <5>3, <5>4 DEF Beside, PastStays
        <5> QED BY <5>1, <5>3, <5>5 DEF Beside, Past, Entered
      <4> QED BY <4>1, <4>2
    <3> QED BY <3>1
  <2>6. \A u \in active' : Past(u)'
    BY <2>1, <2>3, <2>4
  <2> QED BY <1>1, <2>5, <2>6 DEF PastInv
<1>4. ASSUME ~AddActive(r), Beside(req[r])'
      PROVE  PastInv' /\ PastStays
  BY <1>0, <1>1, <1>2, <1>4, PastFrame
<1>5. ASSUME req'[r].pc \in {"iMetas", "iEvict"}, req'[r].set \subseteq Uploads,
             \A w \in req'[r].set : Past(w),
             req'[r].todo # <<>> => req'[r].v \in Uploads /\ Past(req'[r].v)
      PROVE  Beside(req[r])'
  <2>1. PICK p : p = req'[r]
    OBVIOUS
  <2>2. Beside(p)'
    BY <1>1, <1>5, <2>1 DEF Beside, PastStays
  <2> QED BY <2>1, <2>2 DEF Beside, Past, Entered
<1>6. CASE ReadActive(r)
  <2>1. /\ req'[r].pc = "iMetas" => req'[r].set = active
        /\ req'[r].pc \in {"iMetas", "iAdd"}
    BY <1>0, <1>6 DEF ReadActive, Handler
  <2>2. req'[r].todo = <<>>
    BY <1>0, <1>6 DEF ReadActive, Handler, Shaped
  <2>3. CASE req'[r].pc = "iMetas"
    <3>1. req'[r].set \subseteq Uploads /\ \A w \in req'[r].set : Past(w)
      BY <2>1, <2>3 DEF PastInv, TypeInv, TypeOK
    <3> QED BY <1>4, <1>5, <1>6, <2>2, <2>3, <3>1 DEF ReadActive, AddActive, Goto
  <2>4. CASE req'[r].pc # "iMetas"
    BY <1>4, <1>6, <2>1, <2>4, AloneBeside DEF Alone, ReadActive, AddActive, Goto
  <2> QED BY <2>3, <2>4
<1>7. CASE ReadMetas(r)
  <2>1. PICK victims \in SUBSET req[r].set :
          req' = [req EXCEPT ![r].set = victims,
                             ![r].pc = IF victims = {} THEN "iAdd" ELSE "iEvict"]
    BY <1>7 DEF ReadMetas
  <2>2. /\ req'[r].set \subseteq req[r].set /\ req'[r].todo = <<>>
        /\ req'[r].pc \in {"iEvict", "iAdd"} /\ req[r].pc = "iMetas"
    BY <1>0, <1>7, <2>1 DEF ReadMetas, Handler, Shaped
  <2>3. req'[r].set \subseteq Uploads /\ \A w \in req'[r].set : Past(w)
    BY <1>0, <2>2, DeletesUploads DEF Beside
  <2>4. CASE req'[r].pc = "iEvict"
    BY <1>4, <1>5, <2>2, <2>3, <2>4 DEF AddActive, Goto
  <2>5. CASE req'[r].pc # "iEvict"
    BY <1>4, <2>2, <2>5, AloneBeside DEF Alone, AddActive, Goto
  <2> QED BY <2>4, <2>5
<1>8. CASE Evict(r)
  <2>1. PICK v \in req[r].set :
          req' = [req EXCEPT ![r].v = v, ![r].todo = CancelCalls, ![r].set = @ \ {v}]
    BY <1>8 DEF Evict
  <2>2. /\ req'[r].set \subseteq req[r].set /\ req'[r].v = v
        /\ req'[r].pc = "iEvict" /\ req[r].pc = "iEvict"
    BY <1>0, <1>8, <2>1 DEF Evict, Handler
  <2>3. /\ req'[r].set \subseteq Uploads /\ \A w \in req'[r].set : Past(w)
        /\ v \in Uploads /\ Past(v)
    BY <1>0, <2>2, DeletesUploads DEF Beside
  <2> QED BY <1>4, <1>5, <2>2, <2>3 DEF AddActive, Goto
<1>9. CASE req[r].pc = "iEvict" /\ Returns(r) /\ req[r].todo # <<>>
  <2>1. req'[r] = Continue(req[r]) /\ ~AddActive(r)
    BY <1>0, <1>9, ReturnsFollows DEF AddActive, Goto
  <2>2. \/ req'[r].pc = "iEvict" /\ req'[r].v = req[r].v /\ req'[r].set = req[r].set
        \/ req'[r].todo = <<>> /\ req'[r].set = req[r].set /\ req'[r].pc \in {"iAdd", "iEvict"}
    BY <1>0, <1>9, <2>1, ContinueLeads
  <2>3. req[r].v \in Uploads /\ req[r].set \subseteq Uploads
    BY <1>0, <1>9, DeletesUploads DEF Scripted
  <2>4. Past(req[r].v) /\ \A w \in req[r].set : Past(w)
    BY <1>0, <1>9 DEF Beside
  <2>5. CASE req'[r].pc = "iEvict"
    <3>1. req'[r].todo # <<>> => req'[r].v \in Uploads /\ Past(req'[r].v)
      BY <2>2, <2>3, <2>4, <2>5
    <3>2. req'[r].set \subseteq Uploads /\ \A w \in req'[r].set : Past(w)
      BY <2>2, <2>3, <2>4
    <3> QED BY <1>4, <1>5, <2>1, <2>5, <3>1, <3>2
  <2>6. CASE req'[r].pc # "iEvict"
    BY <1>4, <2>1, <2>2, <2>6, AloneBeside DEF Alone
  <2> QED BY <2>5, <2>6
<1>10. ASSUME req'[r].pc = "pAborts", req'[r].set \subseteq req'[r].keys,
              req'[r].keys \subseteq Uploads, \A w \in req'[r].keys : Entered(w)
       PROVE  Beside(req[r])'
  <2>1. PICK p : p = req'[r]
    OBVIOUS
  <2>2. Beside(p)'
    BY <1>1, <1>10, <2>1 DEF Beside, PastStays
  <2> QED BY <2>1, <2>2 DEF Beside, Past, Entered
<1>11. CASE PurgeScan(r)
  <2> DEFINE live == {u \in Uploads : meta[u].live}
  <2>1. req'[r].pc = "pAborts" /\ req'[r].set = live /\ req'[r].keys = active \cup live
    BY <1>0, <1>11 DEF PurgeScan, Handler
  <2>2. ASSUME NEW w \in active \cup live
        PROVE  Entered(w)
    <3>1. CASE w \in active
      BY <3>1 DEF PastInv, Past, Entered, Early, InitPcs
    <3>2. CASE w \in live
      BY <3>2 DEF Entered, IdsInv, Early
    <3> QED BY <3>1, <3>2
  <2>3. active \subseteq Uploads
    BY DEF TypeInv, TypeOK
  <2> QED BY <1>4, <1>10, <1>11, <2>1, <2>2, <2>3 DEF PurgeScan, AddActive, Goto
<1>12. CASE PurgeAborts(r)
  <2>1. PICK u : req' = [req EXCEPT ![r].set = @ \ {u}]
    BY <1>12 DEF PurgeAborts
  <2>2. /\ req'[r].pc = "pAborts" /\ req'[r].set \subseteq req[r].set
        /\ req'[r].keys = req[r].keys /\ req[r].pc = "pAborts"
    BY <1>0, <1>12, <2>1 DEF PurgeAborts, Handler
  <2>3. /\ req[r].set \subseteq req[r].keys /\ req[r].keys \subseteq Uploads
        /\ \A w \in req[r].keys : Entered(w)
    BY <1>0, <2>2, DeletesUploads DEF Beside
  <2> QED BY <1>4, <1>10, <2>2, <2>3 DEF AddActive, Goto
<1> QED
  BY <1>3, <1>4, <1>6, <1>7, <1>8, <1>9, <1>11, <1>12, StepsAlone, AloneBeside

\* A new handler begins with an id nobody has, or after initializeUpload.
LEMMA StartPast ==
  ASSUME TypeInv, ScriptsInv, PastInv, NEW r \in Requests, Starts(r)
  PROVE  PastInv'
<1>1. /\ Only(r) /\ Begins(req'[r]) /\ active' = active
  BY StartBegins
<1>2. known \subseteq known'
  BY DEF Starts, InitCheck, ChunkLock, FinalizeStart, CancelStart, DeleteStart,
         PurgeStart, RemoveStart, ids
<1>3. Alone(req'[r]) /\ Beside(req[r])'
  BY <1>1, AloneBeside DEF Begins, Alone
<1>4. ASSUME NEW w \in known, req'[r].u = w
      PROVE  req'[r].pc \notin InitPcs
  BY <1>1, <1>4 DEF Begins, InitPcs
<1>5. ASSUME NEW w \in Uploads, Past(w)
      PROVE  Past(w)'
  BY <1>1, <1>2, <1>4, <1>5 DEF Past, Only, InitPcs
<1>6. ASSUME NEW w \in Uploads, Entered(w)
      PROVE  Entered(w)'
  BY <1>1, <1>2, <1>4, <1>6 DEF Entered, Only, InitPcs, Early
<1>7. PastStays
  BY <1>5, <1>6 DEF PastStays
<1> QED BY <1>1, <1>3, <1>7, PastFrame

\* Steps that are not a handler's add nothing to the active set.
LEMMA PastElsewhere ==
  ASSUME PastInv, UNCHANGED <<req, known>>, active' \subseteq active
  PROVE  PastInv'
<1>1. \A w : (Past(w) => Past(w)') /\ (Entered(w) => Entered(w)')
  BY DEF Past, Entered
<1>2. \A u \in active' : Past(u)'
  BY <1>1 DEF PastInv
<1>3. ASSUME NEW s \in Requests
      PROVE  Beside(req[s])'
  <2>1. PICK p : p = req[s]
    OBVIOUS
  <2>2. Beside(p)
    BY <2>1 DEF PastInv
  <2>3. Beside(p)'
    BY <1>1, <2>2 DEF Beside
  <2>4. p = req'[s]
    BY <2>1
  <2> QED BY <2>3, <2>4 DEF Beside, Past, Entered
<1> QED BY <1>2, <1>3 DEF PastInv

\* A call of S3 or of the database that fails.
LEMMA FailedCall ==
  ASSUME TypeInv, ScriptsInv, "redis" \notin Faults, NEW r \in Requests, CallFails(r)
  PROVE  /\ Only(r) /\ UNCHANGED <<redis, s3, ids, sweep>>
         /\ \/ /\ req'[r] = Raise(req[r])
               /\ \/ req[r].todo # <<>> /\ Head(req[r].todo) = "abort"
                  \/ /\ req[r].todo = <<>>
                     /\ req[r].pc \in {"iCreate", "cLand", "fComplete", "fHead",
                                       "fLock", "fSum", "fCommit", "dRow"}
            \/ /\ req'[r] = Continue(req[r]) /\ req[r].todo # <<>>
               /\ Head(req[r].todo) \in {"tryAbort", "object"}
<1>0. ReqInv /\ req[r] \in Handler /\ Scripted(req[r]) /\ Shaped(req[r])
  BY ReqTyped DEF ReqInv, ScriptsInv
<1>1. "none" \notin Faults /\ "redis" \notin Faults
  BY EnvironmentAssumption DEF FaultKinds
<1>2. UNCHANGED <<redis, s3, ids, sweep>>
  BY DEF CallFails
<1>3. CASE Calling(r, "tryAbort") \/ Calling(r, "object")
  <2>1. Returns(r) /\ req[r].todo # <<>>
    BY <1>3 DEF CallFails, Calling
  <2> QED BY <1>0, <1>2, <1>3, <2>1, ReturnsFollows DEF Calling
<1>4. CASE ~(Calling(r, "tryAbort") \/ Calling(r, "object"))
  <2>1. Throw(r) /\ Store(req[r]) \in Faults
    BY <1>4 DEF CallFails
  <2>2. CASE req[r].todo # <<>>
    <3>1. Head(req[r].todo) \in Calls
      BY <1>0, <2>2 DEF Handler
    <3>2. Head(req[r].todo) \notin {"meta", "index", "active"}
      BY <1>1, <2>1, <2>2 DEF Store
    <3>3. Head(req[r].todo) = "abort"
      BY <1>4, <2>2, <3>1, <3>2 DEF Calls, Calling
    <3> QED BY <1>0, <1>2, <2>1, <2>2, <3>3, ThrowFollows
  <2>3. CASE req[r].todo = <<>>
    <3>1. req[r].pc \in {"iCreate", "cLand", "fComplete", "fHead",
                         "fLock", "fSum", "fCommit", "dRow"}
      BY <1>1, <2>1, <2>3 DEF Store
    <3> QED BY <1>0, <1>2, <2>1, <2>3, <3>1, ThrowFollows
  <2> QED BY <2>2, <2>3
<1> QED BY <1>3, <1>4

\* A handler whose call fails goes on in its own cleanup.
LEMMA FailPast ==
  ASSUME TypeInv, ScriptsInv, PastInv, "redis" \notin Faults, NEW r \in Requests, CallFails(r)
  PROVE  PastInv'
<1>0. /\ req[r] \in Handler /\ Scripted(req[r]) /\ Shaped(req[r])
      /\ Only(r) /\ active' = active /\ known' = known
  BY ReqTyped, FailedCall DEF ReqInv, ScriptsInv, redis, ids
<1>1. CASE req'[r] = Raise(req[r])
  <2>1. Alone(req'[r]) /\ Beside(req[r])'
    BY <1>0, <1>1, RaiseLands, AloneBeside DEF Alone
  <2>2. req[r].pc # "iUnlock"
    BY <1>0, FailedCall, CallsPlaced DEF Shaped
  <2>3. Leaves(r)
    BY <1>0, <1>1, <2>2, RaiseFollows DEF Leaves, Follows, Early, InitPcs
  <2> QED BY <1>0, <2>1, <2>3, LeavesPast, PastFrame
<1>2. CASE req'[r] = Continue(req[r]) /\ req[r].todo # <<>>
           /\ Head(req[r].todo) \in {"tryAbort", "object"}
  <2>1. req[r].pc \in {"iCatch", "cCatch", "fCatch"}
    BY <1>2, CallsPlaced
  <2>2. req'[r].pc \in {req[r].pc, "iFail", "cUnlock", "idle"}
    BY <1>0, <1>2, <2>1, ContinueLeads, AtIs DEF Idle
  <2>3. Alone(req'[r]) /\ Beside(req[r])'
    BY <2>1, <2>2, AloneBeside DEF Alone
  <2>4. Leaves(r)
    BY <1>0, <1>2, <2>1, ContinueFollows DEF Leaves, Follows, Early, InitPcs
  <2> QED BY <1>0, <2>3, <2>4, LeavesPast, PastFrame
<1> QED BY <1>1, <1>2, FailedCall

\* Every step keeps PastInv.
LEMMA PastNext ==
  ASSUME Answered, TypeInv, IdsInv, ScriptsInv, PastInv, [Next]_vars
  PROVE  PastInv'
<1>0. "redis" \notin Faults /\ "reply" \notin Faults /\ MaxCrashes = 0 /\ crashes \in Nat
  BY DEF Answered, TypeInv, TypeOK
<1>1. CASE Crash
  BY <1>0, <1>1 DEF Crash
<1>2. CASE Sweeps \/ UNCHANGED vars
  <2>1. UNCHANGED <<req, known>> /\ active' \subseteq active
    BY <1>2 DEF Sweeps, SweepStart, SweepEnd, SweepAbort, SweepUntrack, SweepInspect,
                ids, vars, redis
  <2> QED BY <2>1, PastElsewhere
<1>3. CASE Expires
  <2>1. UNCHANGED <<req, known>> /\ active' \subseteq active
    BY <1>3 DEF Expires, ExpireActive, ExpireInitLock, Age, ExpireMeta, ExpireIndex,
                ExpireChunkLock, ids
  <2> QED BY <2>1, PastElsewhere
<1>4. ASSUME NEW r \in Requests, Disconnect(r)
      PROVE  PastInv'
  <2>1. UNCHANGED <<req, known>> /\ active' \subseteq active
    BY <1>4 DEF Disconnect, ids
  <2> QED BY <2>1, PastElsewhere
<1>5. ASSUME NEW r \in Requests, ReplyLost(r)
      PROVE  PastInv'
  BY <1>0, <1>5 DEF ReplyLost
<1> QED BY <1>0, <1>1, <1>2, <1>3, <1>4, <1>5, StartPast, StepsPast, FailPast
           DEF Next, Fails

Starting == Tracking \cup {"iMeta"}

\* clearUserRedisData is about to delete the keys of u.
Purging(u) == \E r \in Requests : req[r].pc = "pAborts" /\ u \in req[r].keys

\* What initializeUpload has created for u is there, and used too lately for
\* the sweep.
Fresh(u) == multipart[u].state = "open" /\ multipart[u].recent /\ sweep.u # u
Started(q) ==
  /\ q.pc = "iMeta" => Fresh(q.u)
  /\ q.pc \in Tracking /\ meta[q.u].live =>
       \/ Purging(q.u)
       \/ Fresh(q.u) /\ meta[q.u].recent /\ (q.pc # "iIndex" => q.u \in index)
StartedInv ==
  /\ \A u \in Uploads : u \in sweep.todo \cup {sweep.u} => multipart[u].state # "none"
  /\ \A r \in Requests : Started(req[r])

\* A handler in initializeUpload has its upload for itself.
LEMMA OwnUpload ==
  ASSUME TypeInv, IdsInv, ScriptsInv, PastInv, NEW r \in Requests, NEW s \in Requests,
         req[s].pc \in Starting
  PROVE  /\ req[s].u \in Uploads
         /\ r # s => req[r].u # req[s].u
         /\ req[r].todo # <<>> /\ (r = s => req[r].pc = "iEvict") => req[r].v # req[s].u
         /\ req[s].pc = "iMeta" /\ req[r].pc = "pAborts" => req[s].u \notin req[r].keys
<1>0. /\ req[s].pc \in InitPcs \ {"iUnlock"} /\ req[s].u \in Uploads
      /\ req[s].u \notin issued /\ Scripted(req[r]) /\ Shaped(req[r]) /\ Beside(req[r])
  BY InitHasUpload DEF Starting, Tracking, InitPcs, IdsInv, ScriptsInv, TypeInv, PastInv
<1>1. ASSUME r # s
      PROVE  req[r].u # req[s].u
  BY <1>0, <1>1 DEF IdsInv
<1>2. ~Past(req[s].u)
  BY <1>0 DEF Past
<1>3. ASSUME req[r].todo # <<>>, r = s => req[r].pc = "iEvict"
      PROVE  req[r].v # req[s].u
  <2>1. CASE req[r].pc = "iEvict"
    BY <1>0, <1>2, <1>3, <2>1 DEF Beside
  <2>2. CASE req[r].pc # "iEvict"
    BY <1>0, <1>1, <1>3, <2>2 DEF Scripted, Shaped
  <2> QED BY <2>1, <2>2
<1>4. ASSUME req[s].pc = "iMeta", req[r].pc = "pAborts"
      PROVE  req[s].u \notin req[r].keys
  BY <1>0, <1>4 DEF Beside, Entered, Early
<1> QED BY <1>0, <1>1, <1>3, <1>4

\* What a handler changes beside its own upload and the one it cleans up.
LEMMA StepsTouch ==
  ASSUME TypeInv, NEW r \in Requests, Steps(r), NEW x \in Uploads, req[r].u # x,
         req[r].todo # <<>> => req[r].v # x
  PROVE  /\ multipart'[x] = multipart[x] \/ (PurgeAborts(r) /\ x \in req[r].set)
         /\ meta'[x] = meta[x] \/ (PurgeKeys(r) /\ x \in req[r].keys)
         /\ x \in index <=> x \in index'
         /\ sweep' = sweep
<1>1. CASE \/ CreateMultipart(r) \/ ChunkLand(r) \/ Complete(r) \/ CallAbort(r)
  <2>1. multipart \in [Uploads -> Multipart] /\ UNCHANGED <<meta, index, sweep>>
    BY <1>1 DEF CreateMultipart, ChunkLand, Complete, CallAbort, TypeInv, TypeOK, redis
  <2>2. \/ UNCHANGED multipart
        \/ \E y, m : y # x /\ multipart' = [multipart EXCEPT ![y] = m]
    <3>1. CASE CreateMultipart(r)
      BY <3>1 DEF CreateMultipart
    <3>2. CASE ChunkLand(r)
      BY <3>2 DEF ChunkLand
    <3>3. CASE Complete(r)
      BY <3>3 DEF Complete, Assemble, s3
    <3>4. CASE CallAbort(r)
      BY <3>4 DEF CallAbort, Calling
    <3> QED BY <1>1, <3>1, <3>2, <3>3, <3>4
  <2> QED BY <2>1, <2>2
<1>2. CASE \/ SetMeta(r) \/ ChunkTouch(r) \/ ChunkStore(r) \/ CallDelMeta(r)
  BY <1>2 DEF SetMeta, ChunkTouch, ChunkStore, CallDelMeta, Calling, TypeInv, TypeOK, s3
<1>3. CASE SetIndex(r) \/ CallDelIndex(r)
  BY <1>3 DEF SetIndex, CallDelIndex, Calling, s3
<1>4. CASE PurgeAborts(r)
  <2>1. PICK y \in req[r].set :
          multipart' = [multipart EXCEPT ![y] = Closed("aborted")] \/ UNCHANGED multipart
    BY <1>4 DEF PurgeAborts
  <2> QED BY <1>4, <2>1 DEF PurgeAborts, redis, TypeInv, TypeOK
<1>5. CASE PurgeKeys(r)
  BY <1>5 DEF PurgeKeys, s3
<1>6. CASE UNCHANGED <<meta, index, multipart, sweep>>
  BY <1>6
<1>7. UNCHANGED <<meta, index, multipart, sweep>>
      \/ CreateMultipart(r) \/ ChunkLand(r) \/ Complete(r) \/ CallAbort(r)
      \/ SetMeta(r) \/ ChunkTouch(r) \/ ChunkStore(r) \/ CallDelMeta(r)
      \/ SetIndex(r) \/ CallDelIndex(r) \/ PurgeAborts(r) \/ PurgeKeys(r)
  BY DEF Steps, InitLock, InitConflict, ReadActive, ReadMetas, Evict, AddActive,
         InitUnlock, ChunkRead, ChunkSend, ChunkExists, ChunkUnlock, HeadObject,
         LockUser, SumRows, CommitRow, CallDeleteObject, CallRelease, DeleteObject,
         DeleteRow, DeleteObjects, RemoveRows, PurgeRows, PurgeScan, redis, s3
<1> QED BY <1>1, <1>2, <1>3, <1>4, <1>5, <1>6, <1>7

\* A purge goes on until the keys are deleted.
LEMMA PurgingStays ==
  ASSUME TypeInv, ScriptsInv, NEW r \in Requests, Steps(r), NEW x \in Uploads, Purging(x)
  PROVE  Purging(x)' \/ ~meta'[x].live
<1>0. /\ Only(r) /\ req[r] \in Handler /\ ReqInv /\ ~NoMeta.live
      /\ (req[r].pc = "pAborts" => req[r].todo = <<>>)
  BY ReqTyped, StepsProceed DEF Proceeds, ReqInv, NoMeta, Shaped
<1>1. PICK p \in Requests : req[p].pc = "pAborts" /\ x \in req[p].keys
  BY DEF Purging
<1>2. CASE p # r
  BY <1>0, <1>1, <1>2 DEF Only, Purging
<1>3. CASE p = r
  <2>1. PurgeAborts(r) \/ PurgeKeys(r)
    BY <1>0, <1>1, <1>3
       DEF Steps, InitLock, InitConflict, CreateMultipart, SetMeta, SetIndex,
           ReadActive, ReadMetas, Evict, AddActive, InitUnlock, ChunkRead, ChunkTouch,
           ChunkSend, ChunkLand, ChunkExists, ChunkStore, ChunkUnlock, Complete,
           HeadObject, LockUser, SumRows, CommitRow, CallAbort, CallDeleteObject,
           CallDelMeta, CallDelIndex, CallRelease, Calling, DeleteObject, DeleteRow,
           DeleteObjects, RemoveRows, PurgeRows, PurgeScan, Goto
  <2>2. CASE PurgeKeys(r)
    BY <1>0, <1>1, <1>3, <2>2 DEF PurgeKeys
  <2>3. CASE PurgeAborts(r)
    <3>1. PICK u : req' = [req EXCEPT ![r].set = @ \ {u}]
      BY <2>3 DEF PurgeAborts
    <3>2. req'[r].pc = "pAborts" /\ x \in req'[r].keys
      BY <1>0, <1>1, <1>3, <3>1 DEF ReqInv, Handler
    <3> QED BY <3>2 DEF Purging
  <2> QED BY <2>1, <2>2, <2>3
<1> QED BY <1>2, <1>3

\* No step of another handler disturbs a handler in initializeUpload.
LEMMA OthersStarted ==
  ASSUME TypeInv, IdsInv, ScriptsInv, PastInv, StartedInv, NEW r \in Requests, Steps(r),
         NEW s \in Requests, s # r
  PROVE  Started(req[s])'
<1>0. PICK x : x = req[s].u
  OBVIOUS
<1>1. PICK pc : pc = req[s].pc
  OBVIOUS
<1>2. req'[s].u = x /\ req'[s].pc = pc /\ Started(req[s]) /\ req[s].u = x /\ req[s].pc = pc
  BY <1>0, <1>1, StepsProceed DEF Proceeds, Only, StartedInv
<1>3. CASE pc \notin Starting
  BY <1>2, <1>3 DEF Started, Starting, Tracking
<1>4. CASE pc \in Starting
  <2>1. /\ x \in Uploads /\ req[r].u # x /\ (req[r].todo # <<>> => req[r].v # x)
        /\ pc = "iMeta" /\ req[r].pc = "pAborts" => x \notin req[r].keys
    BY <1>2, <1>4, OwnUpload
  <2>2. /\ multipart'[x] = multipart[x] \/ (PurgeAborts(r) /\ x \in req[r].set)
        /\ meta'[x] = meta[x] \/ ~meta'[x].live
        /\ x \in index => x \in index'
        /\ sweep' = sweep
    <3>1. PurgeKeys(r) /\ x \in req[r].keys => ~meta'[x].live
      BY <2>1 DEF PurgeKeys, NoMeta
    <3> QED BY <2>1, <3>1, StepsTouch
  <2>3. PurgeAborts(r) /\ x \in req[r].set => Purging(x) /\ req[r].pc = "pAborts"
                                               /\ x \in req[r].keys
    <3>1. Beside(req[r])
      BY DEF PastInv
    <3> QED BY <3>1 DEF PurgeAborts, Beside, Purging
  <2>4. pc = "iMeta" => Fresh(x)'
    BY <1>2, <2>1, <2>2, <2>3 DEF Started, Fresh
  <2>5. ASSUME pc \in Tracking, meta'[x].live
        PROVE  \/ Purging(x)'
               \/ Fresh(x)' /\ meta'[x].recent /\ (pc # "iIndex" => x \in index')
    <3>1. meta'[x] = meta[x] /\ meta[x].live
      BY <2>2, <2>5
    <3>2. CASE Purging(x)
      BY <2>1, <2>5, <3>2, PurgingStays
    <3>3. CASE ~Purging(x)
      BY <1>2, <2>2, <2>3, <2>5, <3>1, <3>3 DEF Started, Fresh
    <3> QED BY <3>2, <3>3
  <2> QED BY <1>2, <2>4, <2>5 DEF Started
<1> QED BY <1>3, <1>4

\* A handler that leaves the stores alone and is not in initializeUpload.
LEMMA StartedStill ==
  ASSUME StartedInv, NEW r \in Requests, Only(r), req'[r].pc \notin Starting,
         req[r].pc # "pAborts", UNCHANGED <<meta, index, multipart, sweep>>
  PROVE  StartedInv'
<1>1. \A x \in Uploads : Purging(x) => Purging(x)'
  BY DEF Purging, Only
<1>2. ASSUME NEW s \in Requests
      PROVE  Started(req[s])'
  <2>1. CASE s = r
    BY <2>1 DEF Started, Starting, Tracking
  <2>2. CASE s # r
    <3>1. PICK p : p = req[s]
      OBVIOUS
    <3>2. Started(p) /\ p = req'[s]
      BY <2>2, <3>1 DEF StartedInv, Only
    <3>3. \A x : Purging(x) => Purging(x)'
      BY DEF Purging, Only
    <3>4. Started(p)'
      BY <3>2, <3>3 DEF Started, Fresh
    <3> QED BY <3>2, <3>4 DEF Started, Fresh, Purging
  <2> QED BY <2>1, <2>2
<1> QED BY <1>2 DEF StartedInv

\* The step of a handler in initializeUpload.
LEMMA OwnStarted ==
  ASSUME TypeInv, IdsInv, ScriptsInv, PastInv, StartedInv, NEW r \in Requests, Steps(r)
  PROVE  Started(req[r])'
<1>0. /\ req[r] \in Handler /\ ReqInv /\ Only(r) /\ Stays(req[r], req'[r])
      /\ Shaped(req[r]) /\ Scripted(req[r]) /\ Idle.pc = "idle" /\ Started(req[r])
      /\ multipart \in [Uploads -> Multipart] /\ meta \in [Uploads -> Meta]
  BY ReqTyped, StepsProceed, StepsStay
     DEF ReqInv, ScriptsInv, Proceeds, Idle, StartedInv, TypeInv, TypeOK
<1>1. CASE req'[r].pc \notin Starting
  BY <1>1 DEF Started, Starting, Tracking
<1>2. PICK x : x = req[r].u
  OBVIOUS
<1>3. ASSUME req'[r].pc \in Starting
      PROVE  x \in Uploads /\ req'[r].u = x /\ req[r].pc \in InitPcs
  BY <1>0, <1>2, <1>3, InitHasUpload DEF Stays, Starting, Tracking, InitPcs
<1>4. ASSUME req'[r].pc \in Starting
      PROVE  \/ CreateMultipart(r) \/ SetMeta(r) \/ SetIndex(r)
             \/ ReadActive(r) \/ ReadMetas(r) \/ Evict(r)
             \/ CallAbort(r) \/ CallDelMeta(r) \/ CallDelIndex(r) \/ CallRelease(r)
  <2>1. ~InitLock(r) /\ ~InitConflict(r) /\ ~AddActive(r) /\ ~InitUnlock(r)
    BY <1>0, <1>4, GotoMoves, FinishFollows
       DEF InitLock, InitConflict, AddActive, InitUnlock, Starting, Tracking
  <2>2. ~CallDeleteObject(r)
    BY <1>3, <1>4, CallsPlaced DEF CallDeleteObject, Calling, InitPcs
  <2> QED BY <1>3, <1>4, <2>1, <2>2
             DEF Steps, ChunkRead, ChunkTouch, ChunkSend, ChunkLand, ChunkExists,
                 ChunkStore, ChunkUnlock, Complete, HeadObject, LockUser, SumRows,
                 CommitRow, DeleteObject, DeleteRow, DeleteObjects, RemoveRows,
                 PurgeRows, PurgeScan, PurgeAborts, PurgeKeys, Goto, InitPcs
<1>5. CASE CreateMultipart(r)
  <2>1. /\ req[r].pc = "iCreate" /\ req'[r].pc = "iMeta" /\ req'[r].u = x /\ x \in Uploads
        /\ multipart' = [multipart EXCEPT ![x] =
             [state |-> "open", recent |-> TRUE, parts |-> {}]]
        /\ sweep' = sweep
    BY <1>0, <1>2, <1>5, GotoMoves, InitHasUpload DEF CreateMultipart, Same, InitPcs
  <2>2. sweep.u # x
    BY <1>2, <2>1 DEF IdsInv, StartedInv
  <2>3. Fresh(x)'
    BY <1>0, <2>1, <2>2 DEF Fresh
  <2> QED BY <2>1, <2>3 DEF Started, Tracking
<1>6. CASE SetMeta(r)
  <2>1. /\ req[r].pc = "iMeta" /\ req'[r].pc = "iIndex" /\ req'[r].u = x /\ x \in Uploads
        /\ meta' = [meta EXCEPT ![x] = MetaWith(<<>>)]
        /\ UNCHANGED <<multipart, sweep>>
    BY <1>0, <1>2, <1>6, GotoMoves, InitHasUpload DEF SetMeta, Same, InitPcs, s3
  <2>2. Fresh(x)' /\ meta'[x].recent
    BY <1>0, <1>2, <2>1 DEF Fresh, Started, MetaWith
  <2> QED BY <2>1, <2>2 DEF Started, Tracking
<1>7. CASE SetIndex(r)
  <2>1. /\ req[r].pc = "iIndex" /\ req'[r].pc = "iMembers" /\ req'[r].u = x /\ x \in Uploads
        /\ index' = index \cup {x}
        /\ UNCHANGED <<multipart, sweep, meta>>
    BY <1>0, <1>2, <1>7, GotoMoves, InitHasUpload DEF SetIndex, Same, InitPcs, s3
  <2>2. meta[x].live => Purging(x) \/ (Fresh(x) /\ meta[x].recent)
    BY <1>0, <1>2, <2>1 DEF Started, Tracking
  <2>3. meta'[x].live => Purging(x)' \/ (Fresh(x)' /\ meta'[x].recent)
    <3>1. CASE Purging(x)
      BY <2>1, <3>1, PurgingStays
    <3>2. CASE ~Purging(x)
      BY <2>1, <2>2, <3>2 DEF Fresh
    <3> QED BY <3>1, <3>2
  <2> QED BY <2>1, <2>3 DEF Started
<1>8. ASSUME req'[r].pc \in Starting,
             \/ ReadActive(r) \/ ReadMetas(r) \/ Evict(r) \/ CallAbort(r)
             \/ CallDelMeta(r) \/ CallDelIndex(r) \/ CallRelease(r)
      PROVE  Started(req[r])'
  <2>1. /\ req[r].pc \in {"iMembers", "iMetas", "iEvict"} /\ req'[r].pc \in Tracking
        /\ req'[r].pc # "iIndex"
    <3>1. CASE ReadActive(r) \/ ReadMetas(r) \/ Evict(r)
      <4>1. CASE ReadActive(r)
        <5>1. PICK to \in {"iAdd", "iMetas"} : \E set :
                req' = [req EXCEPT ![r].pc = to, ![r].set = set]
          BY <4>1 DEF ReadActive
        <5> QED BY <1>0, <4>1, <5>1 DEF ReadActive, ReqInv, Handler, Tracking
      <4>2. CASE ReadMetas(r)
        <5>1. PICK to \in {"iAdd", "iEvict"} : \E set :
                req' = [req EXCEPT ![r].set = set, ![r].pc = to]
          BY <4>2 DEF ReadMetas
        <5> QED BY <1>0, <4>2, <5>1 DEF ReadMetas, ReqInv, Handler, Tracking
      <4>3. CASE Evict(r)
        <5>1. PICK v : req' = [req EXCEPT ![r].v = v, ![r].todo = CancelCalls,
                                          ![r].set = @ \ {v}]
          BY <4>3 DEF Evict
        <5> QED BY <1>0, <4>3, <5>1 DEF Evict, ReqInv, Handler, Tracking
      <4> QED BY <3>1, <4>1, <4>2, <4>3
    <3>2. CASE \/ CallAbort(r) \/ CallDelMeta(r) \/ CallDelIndex(r) \/ CallRelease(r)
      <4>1. req[r].todo # <<>> /\ req[r].pc \in {"iEvict", "iCatch"}
        BY <1>0, <1>3, <1>8, <3>2
           DEF CallAbort, CallDelMeta, CallDelIndex, CallRelease, Calling, Shaped, InitPcs
      <4>2. Throw(r) \/ Returns(r)
        BY <3>2 DEF CallAbort, CallDelMeta, CallDelIndex, CallRelease
      <4>3. ~Throw(r)
        BY <1>0, <1>8, ThrowFollows, RaiseLands DEF Starting, Tracking
      <4>4. req'[r] = Continue(req[r])
        BY <1>0, <4>1, <4>2, <4>3, ReturnsFollows
      <4>5. \/ req'[r].pc = req[r].pc
            \/ req[r].pc = "iEvict" /\ req'[r].pc \in {"iAdd", "iEvict"}
            \/ req'[r].pc = "iFail"
        BY <1>0, <4>1, <4>4, ContinueLeads, AtIs
      <4> QED BY <1>8, <4>1, <4>5 DEF Starting, Tracking
    <3> QED BY <1>8, <3>1, <3>2
  <2>2. req[r].pc \in Starting /\ x \in Uploads /\ req'[r].u = x
    BY <1>3, <1>8, <2>1 DEF Starting, Tracking
  <2>3. req[r].todo # <<>> => req[r].v # x
    <3>1. req[r].todo # <<>> => req[r].pc = "iEvict"
      BY <1>0, <2>1 DEF Shaped
    <3> QED BY <1>2, <2>2, <3>1, OwnUpload
  <2>4. /\ multipart'[x] = multipart[x] /\ meta'[x] = meta[x] /\ sweep' = sweep
        /\ x \in index => x \in index'
    <3>1. CASE ReadActive(r) \/ ReadMetas(r) \/ Evict(r)
      BY <3>1 DEF ReadActive, ReadMetas, Evict, redis, s3
    <3>2. CASE CallAbort(r)
      BY <1>0, <2>2, <2>3, <3>2 DEF CallAbort, Calling, redis
    <3>3. CASE CallDelMeta(r) \/ CallDelIndex(r) \/ CallRelease(r)
      BY <1>0, <2>2, <2>3, <3>3 DEF CallDelMeta, CallDelIndex, CallRelease, Calling, s3
    <3> QED BY <1>8, <3>1, <3>2, <3>3
  <2>5. meta[x].live => Purging(x) \/ (Fresh(x) /\ meta[x].recent /\ x \in index)
    BY <1>0, <1>2, <2>1 DEF Started, Tracking
  <2>6. meta'[x].live => Purging(x)' \/ (Fresh(x)' /\ meta'[x].recent /\ x \in index')
    <3>1. CASE Purging(x)
      BY <2>2, <3>1, PurgingStays
    <3>2. CASE ~Purging(x)
      BY <2>4, <2>5, <3>2 DEF Fresh
    <3> QED BY <3>1, <3>2
  <2> QED BY <2>1, <2>2, <2>6 DEF Started, Tracking
<1> QED BY <1>1, <1>4, <1>5, <1>6, <1>7, <1>8

\* A multipart upload that has been created stays known to S3.
CreatedStays ==
  \A u \in Uploads : multipart[u].state # "none" => multipart'[u].state # "none"
LEMMA StepsCreated ==
  ASSUME TypeInv, NEW r \in Requests, Steps(r)
  PROVE  CreatedStays
<1>0. /\ multipart \in [Uploads -> Multipart]
      /\ Closed("completed").state # "none" /\ Closed("aborted").state # "none"
  BY DEF TypeInv, TypeOK, Closed
<1>1. CASE UNCHANGED multipart
  BY <1>1 DEF CreatedStays
<1>2. CASE \E u : multipart' = [multipart EXCEPT ![u] = Closed("aborted")]
  BY <1>0, <1>2 DEF CreatedStays
<1>3. CASE CreateMultipart(r)
  BY <1>0, <1>3 DEF CreatedStays, CreateMultipart
<1>4. CASE ChunkLand(r)
  <2> DEFINE m == multipart[req[r].u]
             parts == {p \in m.parts : p[1] # Len(req[r].parts) + 1}
                        \cup {<<Len(req[r].parts) + 1, r>>}
  <2>1. CASE UNCHANGED multipart
    BY <2>1 DEF CreatedStays
  <2>2. CASE ~UNCHANGED multipart
    <3>1. /\ multipart' = [multipart EXCEPT ![req[r].u] =
               [m EXCEPT !.recent = TRUE, !.parts = parts]]
          /\ m.state \in {"open", "aborted"}
      BY <1>4, <2>2 DEF ChunkLand
    <3> HIDE DEF parts
    <3> QED BY <1>0, <3>1 DEF CreatedStays, Multipart
  <2> QED BY <2>1, <2>2
<1>5. CASE Assemble(req[r])
  BY <1>0, <1>5 DEF CreatedStays, Assemble
<1>6. \/ UNCHANGED multipart \/ CreateMultipart(r) \/ ChunkLand(r) \/ Assemble(req[r])
      \/ \E u : multipart' = [multipart EXCEPT ![u] = Closed("aborted")]
  BY DEF Steps, InitLock, InitConflict, SetMeta, SetIndex,
         ReadActive, ReadMetas, Evict, AddActive, InitUnlock, ChunkRead, ChunkTouch,
         ChunkSend, ChunkExists, ChunkStore, ChunkUnlock,
         Complete, HeadObject, LockUser, SumRows, CommitRow, CallAbort,
         CallDeleteObject, CallDelMeta, CallDelIndex, CallRelease, DeleteObject,
         DeleteRow, DeleteObjects, RemoveRows, PurgeRows, PurgeScan, PurgeAborts,
         PurgeKeys, s3
<1> QED BY <1>1, <1>2, <1>3, <1>4, <1>5, <1>6

\* Every step of a handler keeps StartedInv.
LEMMA StepsStarted ==
  ASSUME TypeInv, IdsInv, ScriptsInv, PastInv, StartedInv, NEW r \in Requests, Steps(r)
  PROVE  StartedInv'
<1>1. sweep' = sweep
  BY DEF Steps, InitLock, InitConflict, CreateMultipart, SetMeta, SetIndex,
         ReadActive, ReadMetas, Evict, AddActive, InitUnlock, ChunkRead, ChunkTouch,
         ChunkSend, ChunkLand, ChunkExists, ChunkStore, ChunkUnlock, Complete,
         HeadObject, LockUser, SumRows, CommitRow, CallAbort, CallDeleteObject,
         CallDelMeta, CallDelIndex, CallRelease, DeleteObject, DeleteRow,
         DeleteObjects, RemoveRows, PurgeRows, PurgeScan, PurgeAborts, PurgeKeys
<1>2. \A u \in Uploads : u \in sweep'.todo \cup {sweep'.u} => multipart'[u].state # "none"
  BY <1>1, StepsCreated DEF StartedInv, CreatedStays
<1>3. \A s \in Requests : Started(req[s])'
  BY OwnStarted, OthersStarted
<1> QED BY <1>2, <1>3 DEF StartedInv

\* A new handler has created nothing yet.
LEMMA StartStarted ==
  ASSUME TypeInv, StartedInv, NEW r \in Requests, Starts(r)
  PROVE  StartedInv'
<1>1. /\ Only(r) /\ Begins(req'[r]) /\ req[r].pc = "idle"
      /\ UNCHANGED <<meta, index, multipart, sweep>>
  BY StartBegins DEF s3, Idle
<1>2. req'[r].pc \notin Starting
  BY <1>1 DEF Begins, Starting, Tracking
<1> QED BY <1>1, <1>2, StartedStill

\* A handler whose call fails is no longer in initializeUpload.
LEMMA FailStarted ==
  ASSUME TypeInv, ScriptsInv, StartedInv, "redis" \notin Faults,
         NEW r \in Requests, CallFails(r)
  PROVE  StartedInv'
<1>0. /\ req[r] \in Handler /\ Scripted(req[r]) /\ Shaped(req[r])
      /\ Only(r) /\ UNCHANGED <<meta, index, multipart, sweep>>
  BY ReqTyped, FailedCall DEF ReqInv, ScriptsInv, redis, s3
<1>1. req[r].pc # "pAborts"
  BY <1>0, FailedCall DEF Shaped
<1>2. req'[r].pc \notin Starting
  <2>1. CASE req'[r] = Raise(req[r])
    BY <1>0, <2>1, RaiseLands DEF Starting, Tracking
  <2>2. CASE req'[r] = Continue(req[r]) /\ req[r].todo # <<>>
             /\ Head(req[r].todo) \in {"tryAbort", "object"}
    <3>1. req[r].pc \in {"iCatch", "cCatch", "fCatch"}
      BY <2>2, CallsPlaced
    <3> QED BY <1>0, <2>2, <3>1, ContinueLeads, AtIs DEF Idle, Starting, Tracking
  <2> QED BY <2>1, <2>2, FailedCall
<1> QED BY <1>0, <1>1, <1>2, StartedStill

\* A step that is not a handler's, which leaves what a handler in
\* initializeUpload has created alone.
Untouched(x) ==
  /\ meta'[x] = meta[x] \/ ~meta'[x].live
  /\ Fresh(x) /\ (meta[x].live => meta[x].recent) => Fresh(x)' /\ (x \in index => x \in index')
LEMMA StartedElsewhere ==
  ASSUME TypeInv, IdsInv, StartedInv, UNCHANGED req,
         \A u \in Uploads : u \in sweep'.todo \cup {sweep'.u} => multipart'[u].state # "none",
         \A s \in Requests : req[s].pc \in Starting => Untouched(req[s].u)
  PROVE  StartedInv'
<1>1. ASSUME NEW s \in Requests
      PROVE  Started(req[s])'
  <2>1. CASE req[s].pc \notin Starting
    BY <2>1 DEF Started, Starting, Tracking
  <2>2. CASE req[s].pc \in Starting
    <3>1. PICK x : x = req[s].u
      OBVIOUS
    <3>2. PICK pc : pc = req[s].pc
      OBVIOUS
    <3>3. /\ Untouched(x) /\ req'[s].u = x /\ req'[s].pc = pc /\ pc \in Starting
          /\ pc = "iMeta" => Fresh(x) /\ ~meta[x].live
          /\ pc \in Tracking /\ meta[x].live =>
               \/ Purging(x)
               \/ Fresh(x) /\ meta[x].recent /\ (pc # "iIndex" => x \in index)
      BY <2>2, <3>1, <3>2 DEF StartedInv, Started, IdsInv
    <3>4. Purging(x) => Purging(x)'
      BY DEF Purging
    <3>5. pc = "iMeta" => Fresh(x)'
      BY <3>3 DEF Untouched
    <3>6. pc \in Tracking /\ meta'[x].live =>
            \/ Purging(x)'
            \/ Fresh(x)' /\ meta'[x].recent /\ (pc # "iIndex" => x \in index')
      BY <3>3, <3>4 DEF Untouched
    <3> QED BY <3>3, <3>5, <3>6 DEF Started
  <2> QED BY <2>1, <2>2
<1> QED BY <1>1 DEF StartedInv

\* The sweep picks no upload that has just been created.
LEMMA SweepStarted ==
  ASSUME TypeInv, IdsInv, StartedInv, Sweeps
  PROVE  StartedInv'
<1>0. /\ req' = req /\ sweep \in Sweep /\ multipart \in [Uploads -> Multipart]
      /\ meta \in [Uploads -> Meta] /\ ~NoMeta.live
      /\ SweepIdle.u = NoUpload /\ SweepIdle.todo = {}
      /\ Closed("aborted").state = "aborted"
  BY SweepSteps DEF Elsewhere, TypeInv, TypeOK, Sweep, SweepIdle, Closed, NoMeta
<1>1. \A s \in Requests : req[s].pc \in Starting => req[s].u \in Uploads
  BY InitHasUpload DEF Starting, Tracking, InitPcs
<1>2. CASE SweepStart
  <2>1. /\ sweep'.todo = {u \in Uploads : Listed(u)} /\ sweep'.u = NoUpload
        /\ UNCHANGED <<meta, index, multipart>>
    BY <1>2 DEF SweepStart, SweepIdle, redis, s3
  <2>2. \A u \in Uploads : u \in sweep'.todo \cup {sweep'.u} => multipart'[u].state # "none"
    BY <2>1 DEF Listed
  <2>3. \A x \in Uploads : Untouched(x)
    BY <2>1 DEF Untouched, Fresh
  <2> QED BY <1>0, <1>1, <2>2, <2>3, StartedElsewhere
<1>3. CASE SweepEnd
  <2>1. /\ sweep'.todo = {} /\ sweep'.u = NoUpload
        /\ UNCHANGED <<meta, index, multipart>>
    BY <1>3 DEF SweepEnd, SweepIdle, redis, s3
  <2>2. \A u \in Uploads : u \in sweep'.todo \cup {sweep'.u} => multipart'[u].state # "none"
    BY <2>1
  <2>3. \A x \in Uploads : Untouched(x)
    BY <2>1 DEF Untouched, Fresh
  <2> QED BY <1>0, <1>1, <2>2, <2>3, StartedElsewhere
<1>4. ASSUME NEW u \in Uploads, SweepInspect(u)
      PROVE  StartedInv'
  <2>1. /\ u \in sweep.todo /\ UNCHANGED <<meta, index, multipart>>
        /\ \/ sweep'.todo \subseteq sweep.todo /\ sweep'.u = NoUpload
           \/ sweep'.todo = sweep.todo /\ sweep'.u = u /\ ~Recent(u)
    BY <1>0, <1>4 DEF SweepInspect, SweepDrop, SweepIdle, Sweep, redis, s3
  <2>2. \A w \in Uploads : w \in sweep'.todo \cup {sweep'.u} => multipart'[w].state # "none"
    BY <2>1 DEF StartedInv
  <2>3. \A x \in Uploads : Untouched(x)
    BY <2>1 DEF Untouched, Fresh, Recent
  <2> QED BY <1>0, <1>1, <2>2, <2>3, StartedElsewhere
<1>5. CASE SweepAbort
  <2>1. /\ UNCHANGED <<meta, index>>
        /\ \/ multipart' = multipart
           \/ multipart' = [multipart EXCEPT ![sweep.u] = Closed("aborted")]
        /\ sweep'.todo \subseteq sweep.todo /\ sweep'.u \in {sweep.u, NoUpload}
    BY <1>0, <1>5, ZenonT(60) DEF SweepAbort, SweepDrop, SweepIdle, Sweep, redis
  <2>2. \A w \in Uploads : w \in sweep'.todo \cup {sweep'.u} => multipart'[w].state # "none"
    BY <1>0, <2>1 DEF StartedInv
  <2>3. \A x \in Uploads : Untouched(x)
    BY <1>0, <2>1 DEF Untouched, Fresh
  <2> QED BY <1>0, <1>1, <2>2, <2>3, StartedElsewhere
<1>6. CASE SweepUntrack
  <2>1. /\ multipart' = multipart
        /\ meta' = meta \/ meta' = [meta EXCEPT ![sweep.u] = NoMeta]
        /\ index' = index \/ index' = index \ {sweep.u}
        /\ sweep'.todo \subseteq sweep.todo /\ sweep'.u = NoUpload
    BY <1>0, <1>6 DEF SweepUntrack, SweepDrop, SweepIdle, Sweep, s3
  <2>2. \A w \in Uploads : w \in sweep'.todo \cup {sweep'.u} => multipart'[w].state # "none"
    BY <2>1 DEF StartedInv
  <2>3. \A x \in Uploads : Untouched(x)
    BY <1>0, <2>1 DEF Untouched, Fresh
  <2> QED BY <1>0, <1>1, <2>2, <2>3, StartedElsewhere
<1> QED BY <1>2, <1>3, <1>4, <1>5, <1>6 DEF Sweeps

\* Nothing expires while its initializeUpload is running.
LEMMA ExpiryStarted ==
  ASSUME TypeInv, IdsInv, StartedInv, Expires
  PROVE  StartedInv'
<1>0. /\ req' = req /\ multipart \in [Uploads -> Multipart]
      /\ meta \in [Uploads -> Meta]
  BY ExpirySteps DEF Elsewhere, TypeInv, TypeOK
<1>1. \A s \in Requests : req[s].pc \in Starting => req[s].u \in Uploads
  BY InitHasUpload DEF Starting, Tracking, InitPcs
<1>2. sweep' = sweep
  BY DEF Expires, ExpireActive, ExpireInitLock, Age, ExpireMeta, ExpireIndex, ExpireChunkLock
<1>3. \/ UNCHANGED <<meta, index, multipart>>
      \/ \E u \in Uploads :
           /\ Quiet(u)
           /\ \/ Age(u) \/ ExpireMeta(u) \/ ExpireIndex(u)
  BY DEF Expires, ExpireActive, ExpireInitLock, Age, ExpireMeta, ExpireIndex, ExpireChunkLock, s3
<1>4. CASE UNCHANGED <<meta, index, multipart>>
  <2>1. \A x \in Uploads : Untouched(x)
    BY <1>2, <1>4 DEF Untouched, Fresh
  <2>2. \A w \in Uploads : w \in sweep'.todo \cup {sweep'.u} => multipart'[w].state # "none"
    BY <1>2, <1>4 DEF StartedInv
  <2> QED BY <1>0, <1>1, <2>1, <2>2, StartedElsewhere
<1>5. ASSUME NEW u \in Uploads, Quiet(u), Age(u) \/ ExpireMeta(u) \/ ExpireIndex(u)
      PROVE  StartedInv'
  <2>1. \A x \in Uploads : x # u =>
          multipart'[x] = multipart[x] /\ meta'[x] = meta[x] /\ (x \in index => x \in index')
    BY <1>0, <1>5 DEF Age, ExpireMeta, ExpireIndex, s3
  <2>2. \A w \in Uploads : multipart'[w].state = multipart[w].state
    <3>1. CASE Age(u)
      <4>1. multipart' = [multipart EXCEPT ![u] = [multipart[u] EXCEPT !.recent = FALSE]]
        BY <1>0, <3>1 DEF Age
      <4> QED BY <1>0, <4>1 DEF Multipart
    <3> QED BY <1>5, <3>1 DEF ExpireMeta, ExpireIndex, s3
  <2>3. \A w \in Uploads : w \in sweep'.todo \cup {sweep'.u} => multipart'[w].state # "none"
    BY <1>2, <2>2 DEF StartedInv
  <2>4. ASSUME NEW s \in Requests, req[s].pc \in Starting
        PROVE  Untouched(req[s].u)
    <3>1. req[s].u # u
      BY <1>5, <2>4 DEF Quiet, Starting, Tracking
    <3>2. PICK x : x = req[s].u
      OBVIOUS
    <3>3. Untouched(x)
      BY <1>1, <1>2, <2>1, <2>4, <3>1, <3>2 DEF Untouched, Fresh
    <3> QED BY <1>0, <3>2, <3>3 DEF Untouched, Fresh
  <2> QED BY <1>0, <2>3, <2>4, StartedElsewhere
<1> QED BY <1>3, <1>4, <1>5

\* Every step keeps StartedInv.
LEMMA StartedNext ==
  ASSUME Answered, TypeInv, IdsInv, ScriptsInv, PastInv, StartedInv, [Next]_vars
  PROVE  StartedInv'
<1>0. "redis" \notin Faults /\ "reply" \notin Faults /\ MaxCrashes = 0 /\ crashes \in Nat
  BY DEF Answered, TypeInv, TypeOK
<1>1. CASE Crash
  BY <1>0, <1>1 DEF Crash
<1>2. ASSUME NEW r \in Requests, ReplyLost(r)
      PROVE  StartedInv'
  BY <1>0, <1>2 DEF ReplyLost
<1>3. ASSUME UNCHANGED <<req, meta, index, multipart, sweep>>
      PROVE  StartedInv'
  <2>1. \A s \in Requests : req[s].pc \in Starting => Untouched(req[s].u)
    BY <1>3 DEF Untouched, Fresh
  <2>2. \A w \in Uploads : w \in sweep'.todo \cup {sweep'.u} => multipart'[w].state # "none"
    BY <1>3 DEF StartedInv
  <2> QED BY <1>3, <2>1, <2>2, StartedElsewhere
<1>4. ASSUME UNCHANGED vars \/ \E r \in Requests : Disconnect(r)
      PROVE  StartedInv'
  BY <1>3, <1>4 DEF Disconnect, vars, redis, s3
<1> QED BY <1>0, <1>1, <1>2, <1>4, StartStarted, StepsStarted, FailStarted,
           SweepStarted, ExpiryStarted
        DEF Next, Fails

\* A handler that has still to remove u from the active set: a cancellation or
\* an eviction past the abort, a finalizeUpload, or a purge.
Clears(q, u) ==
  \/ q.pc \in {"kClean", "iEvict"} /\ q.v = u /\ q.todo \in CancelTails \ {CancelCalls}
  \/ q.pc \in FinalizePcs /\ q.u = u
  \/ q.pc = "pAborts" /\ u \in q.keys
Clearing(u) ==
  \/ \E r \in Requests : Clears(req[r], u)
  \/ sweep.pc = "untrack" /\ sweep.u = u /\ u \in index

\* Otherwise u can still be aborted and found by the sweep, and nobody writes
\* metadata that has been removed.
Settled(u) ==
  /\ meta[u].live => Listed(u) /\ u \in index
  /\ \A r \in Requests : req[r].u = u =>
       /\ Writing(req[r]) => meta[u].live
       /\ req[r].pc # "cCatch"
ClearInv == \A u \in active : Clearing(u) \/ Settled(u)

\* Clearing is the part of BeingCleared that can be relied on.
LEMMA ClearingBeing ==
  ASSUME NEW u \in Uploads, Clearing(u)
  PROVE  BeingCleared(u)
<1>1. CASE sweep.u = u
  BY <1>1 DEF BeingCleared
<1>2. ASSUME NEW r \in Requests, Clears(req[r], u)
      PROVE  BeingCleared(u)
  <2>1. \A t \in CancelTails : t # <<>>
    BY DEF CancelTails
  <2> QED BY <1>2, <2>1 DEF Clears, BeingCleared
<1> QED BY <1>1, <1>2 DEF Clearing

\* ClearInv implies the property.
LEMMA ClearInvHolds ==
  ASSUME TypeInv, ClearInv
  PROVE  NoStuckSlot
<1>1. ASSUME NEW u \in Uploads, Stuck(u)
      PROVE  BeingCleared(u)
  <2>1. Clearing(u)
    BY <1>1 DEF Stuck, ClearInv, Settled
  <2> QED BY <2>1, ClearingBeing
<1> QED BY <1>1 DEF NoStuckSlot

\* A handler that has begun to clear u goes on until u is not active.
LEMMA ClearsOn ==
  ASSUME TypeInv, IdsInv, ScriptsInv, NEW r \in Requests, Steps(r), NEW u \in Uploads,
         Clears(req[r], u), u \in active'
  PROVE  Clears(req'[r], u)
<1>0. /\ req[r] \in Handler /\ ReqInv /\ Only(r) /\ Shaped(req[r]) /\ Scripted(req[r])
      /\ Idle.pc = "idle" /\ active \subseteq Uploads
  BY ReqTyped, StepsProceed DEF ReqInv, ScriptsInv, Proceeds, Idle, TypeInv, TypeOK
<1>1. CASE req[r].pc \in {"kClean", "iEvict"} /\ req[r].v = u
           /\ req[r].todo \in CancelTails \ {CancelCalls}
  <2>1. /\ req[r].todo # <<>> /\ Head(req[r].todo) \notin {"abort", "tryAbort", "object"}
        /\ Head(req[r].todo) = "active" \/ Len(req[r].todo) > 1
        /\ Len(req[r].todo) > 1 => Tail(req[r].todo) \in CancelTails \ {CancelCalls}
    <3>1. req[r].todo \in {<<"index", "meta", "active">>, <<"meta", "active">>, <<"active">>}
      BY <1>1, ScriptsAre DEF CancelTails
    <3>2. /\ Tail(<<"index", "meta", "active">>) = <<"meta", "active">>
          /\ Tail(<<"meta", "active">>) = <<"active">>
      OBVIOUS
    <3>3. <<"meta", "active">> # CancelCalls /\ <<"active">> # CancelCalls
      BY LengthsAre DEF CancelCalls
    <3>4. CASE req[r].todo = <<"index", "meta", "active">>
      BY <3>2, <3>3, <3>4, HeadsAre, LengthsAre DEF CancelTails
    <3>5. CASE req[r].todo = <<"meta", "active">>
      BY <3>2, <3>3, <3>5, HeadsAre, LengthsAre DEF CancelTails
    <3>6. CASE req[r].todo = <<"active">>
      BY <3>6, HeadsAre, LengthsAre DEF CancelTails
    <3> QED BY <3>1, <3>4, <3>5, <3>6
  <2>2. CallDelMeta(r) \/ CallDelIndex(r) \/ CallRelease(r)
    BY <1>1, <2>1
       DEF Steps, InitLock, InitConflict, CreateMultipart, SetMeta, SetIndex,
           ReadActive, ReadMetas, Evict, AddActive, InitUnlock, ChunkRead, ChunkTouch,
           ChunkSend, ChunkLand, ChunkExists, ChunkStore, ChunkUnlock, Complete,
           HeadObject, LockUser, SumRows, CommitRow, CallAbort, CallDeleteObject,
           Calling, DeleteObject, DeleteRow, DeleteObjects, RemoveRows, PurgeRows,
           PurgeScan, PurgeAborts, PurgeKeys, Goto
  <2>3. Head(req[r].todo) = "active" => u \notin active'
    BY <1>1, <2>2 DEF CallDelMeta, CallDelIndex, CallRelease, Calling
  <2>4. Len(req[r].todo) > 1
    BY <2>1, <2>3
  <2>5. req'[r] = Continue(req[r])
    BY <1>0, <2>1, <2>2, ReturnsFollows DEF CallDelMeta, CallDelIndex, CallRelease
  <2>6. /\ req'[r].pc = req[r].pc /\ req'[r].v = req[r].v /\ req'[r].todo = Tail(req[r].todo)
    BY <1>0, <2>4, <2>5 DEF Continue, Handler
  <2> QED BY <1>1, <2>1, <2>4, <2>6 DEF Clears
<1>2. CASE req[r].pc \in FinalizePcs /\ req[r].u = u
  <2>1. CASE req'[r] # Idle
    BY <1>2, <2>1, StepsStay DEF Stays, Clears
  <2>2. CASE req'[r] = Idle
    <3>1. CASE Complete(r) \/ HeadObject(r) \/ LockUser(r) \/ SumRows(r)
      <4>1. req[r].pc \in {"fComplete", "fHead", "fLock", "fSum"}
        BY <3>1 DEF Complete, HeadObject, LockUser, SumRows, Goto
      <4>2. \/ Throw(r)
            \/ \E to \in {"fHead", "fLock", "fSum", "fCommit"} :
                 \E sum : req' = [req EXCEPT ![r].pc = to, ![r].sum = sum]
                       \/ req' = [req EXCEPT ![r].pc = to]
        BY <3>1 DEF Complete, HeadObject, LockUser, SumRows, Goto
      <4>3. CASE Throw(r)
        <5>1. Raise(req[r]).pc = "fCatch"
          BY <4>1, CleanIs DEF Raise, ChunkPcs, FinalizePcs
        <5> QED BY <1>0, <2>2, <4>3, <5>1, ThrowFollows
      <4>4. CASE ~Throw(r)
        <5>1. req'[r].pc \in {"fHead", "fLock", "fSum", "fCommit"}
          BY <1>0, <4>2, <4>4 DEF Handler, ReqInv
        <5> QED BY <1>0, <2>2, <5>1
      <4> QED BY <4>3, <4>4
    <3>2. CASE CommitRow(r)
      <4>1. req'[r].pc = "fClean"
        BY <1>0, <3>2, CleanIs DEF CommitRow, ReqInv
      <4> QED BY <1>0, <2>2, <4>1
    <3>3. CASE \/ CallAbort(r) \/ CallDeleteObject(r) \/ CallDelMeta(r) \/ CallDelIndex(r)
               \/ CallRelease(r)
      <4>1. req[r].todo # <<>> /\ req[r].pc \in {"fClean", "fCatch"}
        BY <1>0, <1>2, <3>3
           DEF CallAbort, CallDeleteObject, CallDelMeta, CallDelIndex, CallRelease,
               Calling, Shaped, FinalizePcs
      <4>2. ~Calling(r, "abort")
        BY <4>1, CallsPlaced DEF Calling
      <4>3. Returns(r) /\ req'[r] = Continue(req[r])
        BY <1>0, <3>3, <4>1, <4>2, ReturnsFollows
           DEF CallAbort, CallDeleteObject, CallDelMeta, CallDelIndex, CallRelease
      <4>4. req[r].todo = <<"active">>
        BY <1>0, <2>2, <4>1, <4>3, ContinueLeads
      <4>5. CallRelease(r) /\ req[r].v = u
        BY <1>0, <1>2, <3>3, <4>1, <4>4, HeadsAre
           DEF CallAbort, CallDeleteObject, CallDelMeta, CallDelIndex, Calling, Scripted
      <4>6. u \notin active'
        BY <4>5 DEF CallRelease
      <4> QED BY <4>6
    <3> QED BY <1>2, <3>1, <3>2, <3>3
            DEF Steps, InitLock, InitConflict, CreateMultipart, SetMeta, SetIndex,
                ReadActive, ReadMetas, Evict, AddActive, InitUnlock, ChunkRead,
                ChunkTouch, ChunkSend, ChunkLand, ChunkExists, ChunkStore, ChunkUnlock,
                DeleteObject, DeleteRow, DeleteObjects, RemoveRows, PurgeRows,
                PurgeScan, PurgeAborts, PurgeKeys, Goto, FinalizePcs
  <2> QED BY <2>1, <2>2
<1>3. CASE req[r].pc = "pAborts" /\ u \in req[r].keys
  <2>0. req[r].todo = <<>>
    BY <1>0, <1>3 DEF Shaped
  <2>1. PurgeAborts(r) \/ PurgeKeys(r)
    BY <1>3, <2>0
       DEF Steps, InitLock, InitConflict, CreateMultipart, SetMeta, SetIndex,
           ReadActive, ReadMetas, Evict, AddActive, InitUnlock, ChunkRead, ChunkTouch,
           ChunkSend, ChunkLand, ChunkExists, ChunkStore, ChunkUnlock, Complete,
           HeadObject, LockUser, SumRows, CommitRow, CallAbort, CallDeleteObject,
           CallDelMeta, CallDelIndex, CallRelease, Calling, DeleteObject, DeleteRow,
           DeleteObjects, RemoveRows, PurgeRows, PurgeScan, Goto
  <2>2. PurgeAborts(r)
    BY <2>1 DEF PurgeKeys
  <2>3. PICK x : req' = [req EXCEPT ![r].set = @ \ {x}]
    BY <2>2 DEF PurgeAborts
  <2>4. req'[r].pc = "pAborts" /\ req'[r].keys = req[r].keys
    BY <1>0, <1>3, <2>3 DEF ReqInv, Handler
  <2> QED BY <1>3, <2>4 DEF Clears
<1> QED BY <1>1, <1>2, <1>3 DEF Clears

\* Who deletes the keys of an active upload is clearing it.
LEMMA CleansUp ==
  ASSUME TypeInv, ScriptsInv, NEW r \in Requests, NEW u \in Uploads, Past(u),
         req[r].todo # <<>>, Head(req[r].todo) \in {"meta", "index", "active"},
         req[r].v = u
  PROVE  Clears(req[r], u)
<1>0. Shaped(req[r]) /\ Scripted(req[r])
  BY DEF TypeInv, ScriptsInv
<1>1. CASE req[r].pc \in {"iEvict", "kClean"}
  <2>1. req[r].todo \in CancelTails
    BY <1>0, <1>1 DEF Scripted
  <2>2. Head(CancelCalls) = "abort"
    BY HeadsAre, ScriptsAre
  <2> QED BY <1>1, <2>1, <2>2 DEF Clears
<1>2. CASE req[r].pc \in {"fClean", "fCatch"}
  BY <1>0, <1>2 DEF Scripted, Clears, FinalizePcs
<1>3. CASE req[r].pc = "iCatch"
  BY <1>0, <1>3 DEF Scripted, Past, InitPcs
<1>4. CASE req[r].pc = "cCatch"
  BY <1>0, <1>4, HeadsAre DEF Scripted
<1> QED BY <1>0, <1>1, <1>2, <1>3, <1>4 DEF Shaped

\* Clearing goes on until the upload is not active.
LEMMA StepsClearing ==
  ASSUME TypeInv, IdsInv, ScriptsInv, NEW r \in Requests, Steps(r), NEW u \in Uploads,
         Past(u), Clearing(u), u \in active'
  PROVE  Clearing(u)'
<1>1. ASSUME NEW s \in Requests, Clears(req[s], u)
      PROVE  Clearing(u)'
  <2>1. CASE s = r
    <3>1. PICK p : p = req'[r]
      OBVIOUS
    <3>2. Clears(p, u)
      BY <1>1, <2>1, <3>1, ClearsOn
    <3> QED BY <3>1, <3>2 DEF Clearing, Clears
  <2>2. CASE s # r
    <3>1. req'[s] = req[s]
      BY <2>2, StepsProceed DEF Proceeds, Only
    <3>2. PICK p : p = req[s]
      OBVIOUS
    <3>3. Clears(p, u) /\ p = req'[s]
      BY <1>1, <3>1, <3>2
    <3> QED BY <3>3 DEF Clearing, Clears
  <2> QED BY <2>1, <2>2
<1>2. CASE sweep.pc = "untrack" /\ sweep.u = u /\ u \in index
  <2>1. sweep' = sweep /\ (CallDelIndex(r) \/ u \in index')
    <3>1. sweep' = sweep
      BY DEF Steps, InitLock, InitConflict, CreateMultipart, SetMeta, SetIndex,
             ReadActive, ReadMetas, Evict, AddActive, InitUnlock, ChunkRead, ChunkTouch,
             ChunkSend, ChunkLand, ChunkExists, ChunkStore, ChunkUnlock, Complete,
             HeadObject, LockUser, SumRows, CommitRow, CallAbort, CallDeleteObject,
             CallDelMeta, CallDelIndex, CallRelease, DeleteObject, DeleteRow,
             DeleteObjects, RemoveRows, PurgeRows, PurgeScan, PurgeAborts, PurgeKeys
    <3>2. SetIndex(r) \/ CallDelIndex(r) \/ index' = index
      BY DEF Steps, InitLock, InitConflict, CreateMultipart, SetMeta,
             ReadActive, ReadMetas, Evict, AddActive, InitUnlock, ChunkRead, ChunkTouch,
             ChunkSend, ChunkLand, ChunkExists, ChunkStore, ChunkUnlock, Complete,
             HeadObject, LockUser, SumRows, CommitRow, CallAbort, CallDeleteObject,
             CallDelMeta, CallRelease, DeleteObject, DeleteRow,
             DeleteObjects, RemoveRows, PurgeRows, PurgeScan, PurgeAborts, PurgeKeys, redis
    <3> QED BY <1>2, <3>1, <3>2 DEF SetIndex
  <2>2. CASE u \in index'
    BY <1>2, <2>1, <2>2 DEF Clearing
  <2>3. CASE u \notin index'
    <3>1. req[r].todo # <<>> /\ Head(req[r].todo) = "index" /\ req[r].v = u
      BY <1>2, <2>1, <2>3 DEF CallDelIndex, Calling
    <3> QED BY <1>1, <3>1, CleansUp
  <2> QED BY <2>2, <2>3
<1> QED BY <1>1, <1>2 DEF Clearing

\* A step that leaves what is settled as it is.
LEMMA SettledFrame ==
  ASSUME NEW u \in Uploads, Settled(u), NEW r \in Requests, Only(r),
         meta'[u].live <=> meta[u].live,
         meta[u].live /\ Listed(u) => Listed(u)',
         u \in index => u \in index',
         req'[r].u = u => /\ Writing(req'[r]) => meta'[u].live
                          /\ req'[r].pc # "cCatch"
  PROVE  Settled(u)'
<1>1. ASSUME NEW s \in Requests, req'[s].u = u
      PROVE  (Writing(req[s])' => meta'[u].live) /\ req'[s].pc # "cCatch"
  <2>1. CASE s = r
    BY <1>1, <2>1 DEF Writing
  <2>2. CASE s # r
    BY <1>1, <2>2 DEF Settled, Only, Writing
  <2> QED BY <2>1, <2>2
<1> QED BY <1>1 DEF Settled

\* A step of a handler on an upload that nobody clears.
LEMMA StepsSettled ==
  ASSUME TypeInv, IdsInv, ScriptsInv, PastInv, NEW r \in Requests, Steps(r),
         NEW u \in Uploads, Past(u), ~Clearing(u), Settled(u), u \in active'
  PROVE  Clearing(u)' \/ Settled(u)'
<1>0. /\ req[r] \in Handler /\ ReqInv /\ Only(r) /\ Stays(req[r], req'[r])
      /\ Shaped(req[r]) /\ Scripted(req[r]) /\ Idle.pc = "idle" /\ Idle.u = NoUpload
      /\ multipart \in [Uploads -> Multipart] /\ meta \in [Uploads -> Meta]
      /\ ~Clears(req[r], u)
  BY ReqTyped, StepsProceed, StepsStay
     DEF ReqInv, ScriptsInv, Proceeds, Idle, TypeInv, TypeOK, Clearing
<1>10. PurgeAborts(r) => u \notin req[r].set
  BY <1>0 DEF PurgeAborts, PastInv, Beside, Clears
<1>11. ~PurgeKeys(r)
  BY DEF PurgeKeys
<1>1. CASE req[r].u # u /\ (req[r].todo # <<>> => req[r].v # u)
  <2>1. multipart'[u] = multipart[u] /\ meta'[u] = meta[u] /\ (u \in index <=> u \in index')
    BY <1>1, <1>10, <1>11, StepsTouch
  <2>2. req'[r].u # u
    BY <1>0, <1>1 DEF Stays
  <2>3. Listed(u) => Listed(u)'
    BY <2>1 DEF Listed
  <2> QED BY <1>0, <2>1, <2>2, <2>3, SettledFrame
<1>2. CASE req[r].todo # <<>> /\ req[r].v = u
  <2>1. Head(req[r].todo) \in {"abort", "tryAbort", "object"}
    <3>1. Head(req[r].todo) \in Calls
      BY <1>0, <1>2 DEF Handler
    <3>2. Head(req[r].todo) \notin {"meta", "index", "active"}
      BY <1>0, <1>2, CleansUp
    <3> QED BY <3>1, <3>2 DEF Calls
  <2>2. CASE Head(req[r].todo) \in {"tryAbort", "object"}
    <3>1. req[r].pc \in {"iCatch", "cCatch", "fCatch"}
      BY <1>2, <2>2, CallsPlaced
    <3>2. req[r].u = u
      BY <1>0, <1>2, <3>1 DEF Scripted
    <3> QED BY <1>0, <3>1, <3>2 DEF Past, InitPcs, Settled, Clears, FinalizePcs
  <2>3. CASE Head(req[r].todo) = "abort"
    <3>1. req[r].pc \in {"iEvict", "kClean"} /\ req[r].todo \in CancelTails
      BY <1>0, <1>2, <2>3, CallsPlaced DEF Scripted
    <3>2. req[r].todo = <<"abort", "index", "meta", "active">>
      BY <2>3, <3>1, HeadsAre DEF CancelTails
    <3>3. CallAbort(r)
      BY <1>2, <2>3, <3>1
         DEF Steps, InitLock, InitConflict, CreateMultipart, SetMeta, SetIndex,
             ReadActive, ReadMetas, Evict, AddActive, InitUnlock, ChunkRead, ChunkTouch,
             ChunkSend, ChunkLand, ChunkExists, ChunkStore, ChunkUnlock, Complete,
             HeadObject, LockUser, SumRows, CommitRow, CallDeleteObject, CallDelMeta,
             CallDelIndex, CallRelease, Calling, DeleteObject, DeleteRow, DeleteObjects,
             RemoveRows, PurgeRows, PurgeScan, PurgeAborts, PurgeKeys, Goto
    <3>4. CASE Listed(u)
      <4>1. Returns(r) /\ req'[r] = Continue(req[r])
        BY <1>0, <1>2, <3>3, <3>4, ReturnsFollows DEF CallAbort
      <4>2. /\ req'[r].pc = req[r].pc /\ req'[r].v = u
            /\ req'[r].todo = <<"index", "meta", "active">>
        <5>1. Len(req[r].todo) > 1
          BY <3>2, LengthsAre
        <5>2. Tail(<<"abort", "index", "meta", "active">>) = <<"index", "meta", "active">>
          OBVIOUS
        <5> QED BY <1>0, <1>2, <3>2, <4>1, <5>1, <5>2 DEF Continue, Handler
      <4>3. <<"index", "meta", "active">> \in CancelTails \ {CancelCalls}
        BY ScriptsAre, HeadsAre DEF CancelTails
      <4>4. PICK p : p = req'[r]
        OBVIOUS
      <4>5. Clears(p, u)
        BY <3>1, <4>2, <4>3, <4>4 DEF Clears
      <4> QED BY <4>4, <4>5 DEF Clearing, Clears
    <3>5. CASE ~Listed(u)
      <4>1. /\ Throw(r) /\ UNCHANGED <<meta, index, multipart>>
        BY <1>2, <2>3, <3>3, <3>5 DEF CallAbort, Calling, redis
      <4>2. req'[r].pc \in {"iFail", "iCatch", "cUnlock", "fCatch", "idle"}
        BY <1>0, <4>1, ThrowFollows, RaiseLands
      <4> QED BY <1>0, <3>5, <4>1, <4>2, SettledFrame DEF Writing
    <3> QED BY <3>4, <3>5
  <2> QED BY <2>1, <2>2, <2>3
<1>3. CASE req[r].u = u /\ ~(req[r].todo # <<>> /\ req[r].v = u)
  <2>1. req[r].pc \notin (InitPcs \ {"iUnlock"}) \cup FinalizePcs \cup {"cCatch"}
    BY <1>0, <1>3 DEF Past, Clears, Settled
  <2>2. req[r].todo = <<>>
    BY <1>0, <1>3, <2>1 DEF Shaped, Scripted, InitPcs, FinalizePcs
  <2>3. \/ InitUnlock(r) \/ ChunkRead(r) \/ ChunkTouch(r) \/ ChunkSend(r) \/ ChunkLand(r)
        \/ ChunkExists(r) \/ ChunkStore(r) \/ ChunkUnlock(r)
        \/ DeleteObject(r) \/ DeleteRow(r) \/ DeleteObjects(r) \/ RemoveRows(r)
        \/ PurgeRows(r) \/ PurgeScan(r) \/ PurgeAborts(r)
    BY <1>11, <2>1, <2>2
       DEF Steps, InitLock, InitConflict, CreateMultipart, SetMeta, SetIndex,
           ReadActive, ReadMetas, Evict, AddActive, Complete, HeadObject, LockUser,
           SumRows, CommitRow, CallAbort, CallDeleteObject, CallDelMeta, CallDelIndex,
           CallRelease, Calling, Goto, InitPcs, FinalizePcs
  <2>4. ASSUME UNCHANGED <<meta, index, multipart>>,
               req'[r].pc \notin ChunkPcs
                 \/ (req'[r].pc # "cCatch" /\ (Writing(req'[r]) => meta[u].live))
        PROVE  Settled(u)'
    <3>1. Listed(u) => Listed(u)'
      BY <2>4 DEF Listed
    <3> QED BY <1>0, <2>4, <3>1, SettledFrame DEF Writing, ChunkPcs
  <2>5. CASE \/ DeleteObject(r) \/ DeleteRow(r) \/ DeleteObjects(r) \/ RemoveRows(r)
             \/ PurgeRows(r) \/ PurgeScan(r)
    <3>1. UNCHANGED <<meta, index, multipart>> /\ req[r].pc \notin ChunkPcs
      BY <2>5 DEF DeleteObject, DeleteRow, DeleteObjects, RemoveRows, PurgeRows,
                  PurgeScan, Goto, redis, s3, ChunkPcs
    <3> QED BY <1>0, <2>4, <3>1 DEF Stays, ChunkPcs
  <2>6. CASE InitUnlock(r) \/ ChunkUnlock(r)
    <3>1. UNCHANGED <<meta, index, multipart>> /\ req'[r] = Idle
      BY <1>0, <2>6, FinishFollows DEF InitUnlock, ChunkUnlock, s3
    <3> QED BY <1>0, <2>4, <3>1 DEF ChunkPcs
  <2>7. CASE PurgeAborts(r)
    <3>1. PICK x \in req[r].set :
            /\ req' = [req EXCEPT ![r].set = @ \ {x}]
            /\ multipart' = [multipart EXCEPT ![x] = Closed("aborted")] \/ UNCHANGED multipart
      BY <2>7 DEF PurgeAborts
    <3>2. /\ multipart'[u] = multipart[u] /\ UNCHANGED <<meta, index>>
          /\ req'[r].pc = "pAborts"
      BY <1>0, <1>10, <2>7, <3>1 DEF PurgeAborts, redis, ReqInv, Handler
    <3>3. Listed(u) => Listed(u)'
      BY <3>2 DEF Listed
    <3> QED BY <1>0, <3>2, <3>3, SettledFrame DEF Writing
  <2>8. CASE ChunkRead(r)
    <3>1. UNCHANGED <<meta, index, multipart>> /\ req[r].pc = "cRead"
      BY <2>8 DEF ChunkRead, redis, s3
    <3>2. CASE meta[u].live
      <4>1. req'[r].pc # "cCatch"
        <5>1. CASE Throw(r)
          BY <1>0, <5>1, ThrowFollows, RaiseLands
        <5>2. CASE ~Throw(r)
          BY <1>0, <2>8, <5>2 DEF ChunkRead, Handler, ReqInv
        <5> QED BY <5>1, <5>2
      <4> QED BY <2>4, <3>1, <3>2, <4>1
    <3>3. CASE ~meta[u].live
      <4>1. Throw(r)
        BY <1>3, <2>8, <3>3 DEF ChunkRead
      <4>2. req'[r].pc \in {"iFail", "iCatch", "cUnlock", "fCatch", "idle"}
        BY <1>0, <4>1, ThrowFollows, RaiseLands
      <4> QED BY <2>4, <3>1, <4>2 DEF Writing
    <3> QED BY <3>2, <3>3
  <2>9. CASE ChunkSend(r)
    <3>1. UNCHANGED <<meta, index, multipart>> /\ req[r].pc = "cSend" /\ meta[u].live
      BY <1>3, <2>9 DEF ChunkSend, redis, s3, Settled, Writing
    <3>2. req'[r].pc # "cCatch"
      <4>1. CASE Throw(r)
        BY <1>0, <4>1, ThrowFollows, RaiseLands
      <4>2. CASE ~Throw(r)
        BY <1>0, <2>9, <4>2, GotoMoves DEF ChunkSend
      <4> QED BY <4>1, <4>2
    <3> QED BY <2>4, <3>1, <3>2
  <2>10. CASE ChunkExists(r)
    <3>1. /\ UNCHANGED <<meta, index, multipart>> /\ req[r].pc = "cExists" /\ meta[u].live
      BY <1>3, <2>10 DEF ChunkExists, redis, s3, Settled, Writing
    <3>2. req' = [req EXCEPT ![r] = [req[r] EXCEPT !.pc = "cStore"]]
      BY <1>0, <1>3, <2>10, <3>1 DEF ChunkExists
    <3>3. req'[r].pc # "cCatch"
      BY <1>0, <3>2 DEF Handler, ReqInv
    <3> QED BY <2>4, <3>1, <3>3
  <2>11. CASE ChunkTouch(r) \/ ChunkStore(r)
    <3>1. /\ UNCHANGED <<index, multipart>> /\ meta[u].live
          /\ \E parts : meta' = [meta EXCEPT ![u] = MetaWith(parts)]
      BY <1>3, <2>11 DEF ChunkTouch, ChunkStore, Goto, s3, Settled, Writing
    <3>2. meta'[u].live
      BY <1>0, <3>1 DEF MetaWith
    <3>3. req'[r].pc # "cCatch"
      <4>1. CASE ChunkTouch(r)
        BY <1>0, <4>1, GotoMoves DEF ChunkTouch
      <4>2. CASE ChunkStore(r)
        BY <1>0, <4>2, AtIs DEF ChunkStore, ReqInv
      <4> QED BY <2>11, <4>1, <4>2
    <3>4. Listed(u) => Listed(u)'
      BY <3>1 DEF Listed
    <3> QED BY <1>0, <3>1, <3>2, <3>3, <3>4, SettledFrame
  <2>12. CASE ChunkLand(r)
    <3>1. UNCHANGED <<meta, index>> /\ meta[u].live
      BY <1>3, <2>12 DEF ChunkLand, redis, Settled, Writing
    <3>2. CASE Throw(r) /\ UNCHANGED multipart
      <4>1. req'[r].pc \in {"iFail", "iCatch", "cUnlock", "fCatch", "idle"}
        BY <1>0, <3>2, ThrowFollows, RaiseLands
      <4> QED BY <2>4, <3>1, <3>2, <4>1
    <3>3. CASE ~(Throw(r) /\ UNCHANGED multipart)
      <4> DEFINE part == <<Len(req[r].parts) + 1, r>>
                 parts == {p \in multipart[u].parts : p[1] # Len(req[r].parts) + 1} \cup {part}
      <4>1. /\ multipart' = [multipart EXCEPT ![u] =
                 [multipart[u] EXCEPT !.recent = TRUE, !.parts = parts]]
            /\ Goto(r, "cLand", "cExists")
        BY <1>3, <2>12, <3>3 DEF ChunkLand
      <4>2. part \in parts
        OBVIOUS
      <4> HIDE DEF parts, part
      <4>3. multipart'[u].state = multipart[u].state /\ multipart'[u].parts = parts
        BY <1>0, <4>1 DEF Multipart
      <4>4. Listed(u) => Listed(u)'
        BY <4>2, <4>3 DEF Listed
      <4>5. req'[r].pc = "cExists"
        BY <1>0, <4>1, GotoMoves
      <4> QED BY <1>0, <3>1, <4>4, <4>5, SettledFrame
    <3> QED BY <3>2, <3>3
  <2> QED BY <2>3, <2>5, <2>6, <2>7, <2>8, <2>9, <2>10, <2>11, <2>12
<1> QED BY <1>1, <1>2, <1>3

\* The upload initializeUpload adds to the active set.
LEMMA AddClear ==
  ASSUME TypeInv, IdsInv, ScriptsInv, PastInv, StartedInv, NEW r \in Requests, AddActive(r)
  PROVE  active' \subseteq active \cup {req[r].u}
         /\ (Clearing(req[r].u)' \/ Settled(req[r].u)')
<1>0. ReqInv /\ req[r] \in Handler
  BY ReqTyped DEF ReqInv
<1>1. PICK u : u = req[r].u
  OBVIOUS
<1>2. /\ Only(r) /\ req[r].pc = "iAdd" /\ req'[r].pc = "iUnlock" /\ req'[r].u = u
      /\ active' = active \cup {u} /\ UNCHANGED <<meta, index, multipart, sweep>>
  BY <1>0, <1>1, GotoMoves DEF AddActive, Same, s3
<1>3. u \in Uploads /\ u \notin issued /\ Started(req[r])
  BY <1>1, <1>2, InitHasUpload DEF IdsInv, StartedInv, InitPcs
<1>4. ASSUME NEW s \in Requests, req'[s].u = u
      PROVE  ~Writing(req'[s]) /\ req'[s].pc # "cCatch"
  <2>1. CASE s = r
    BY <1>2, <2>1 DEF Writing
  <2>2. CASE s # r
    <3>1. req'[s] = req[s] /\ req[s].u = u
      BY <1>2, <1>4, <2>2 DEF Only
    <3>2. req[s].pc \notin ChunkPcs
      BY <1>3, <3>1, WorksForIssued
    <3> QED BY <3>1, <3>2 DEF Writing, ChunkPcs
  <2> QED BY <2>1, <2>2
<1>5. meta[u].live => Purging(u) \/ (Fresh(u) /\ u \in index)
  BY <1>1, <1>2, <1>3 DEF Started, Tracking
<1>6. Clearing(u)' \/ Settled(u)'
  <2>1. CASE Purging(u)
    <3>1. PICK s \in Requests : req[s].pc = "pAborts" /\ u \in req[s].keys
      BY <2>1 DEF Purging
    <3>2. req'[s].pc = "pAborts" /\ u \in req'[s].keys
      BY <1>2, <3>1 DEF Only
    <3> QED BY <3>2 DEF Clearing, Clears
  <2>2. CASE ~Purging(u)
    <3>1. meta'[u].live => Listed(u)' /\ u \in index'
      BY <1>2, <1>5, <2>2 DEF Fresh, Listed
    <3>2. \A s \in Requests : req'[s].u = u => ~Writing(req[s])' /\ req'[s].pc # "cCatch"
      BY <1>4 DEF Writing
    <3> QED BY <3>1, <3>2 DEF Settled
  <2> QED BY <2>1, <2>2
<1>7. req'[r].u = req[r].u
  BY <1>1, <1>2
<1> QED BY <1>1, <1>2, <1>6, <1>7

\* Every step of a handler keeps ClearInv.
LEMMA StepsClear ==
  ASSUME TypeInv, IdsInv, ScriptsInv, PastInv, StartedInv, ClearInv,
         NEW r \in Requests, Steps(r)
  PROVE  ClearInv'
<1>0. active \subseteq Uploads
  BY DEF TypeInv, TypeOK
<1>1. ASSUME NEW u \in active, u \in active'
      PROVE  Clearing(u)' \/ Settled(u)'
  <2>1. Past(u) /\ (Clearing(u) \/ Settled(u)) /\ u \in Uploads
    BY <1>0, <1>1 DEF PastInv, ClearInv
  <2> QED BY <1>1, <2>1, StepsClearing, StepsSettled
<1>2. CASE ~AddActive(r)
  <2>1. active' \subseteq active
    BY <1>2
       DEF Steps, InitLock, InitConflict, CreateMultipart, SetMeta, SetIndex,
         ReadActive, ReadMetas, Evict, InitUnlock, ChunkRead, ChunkTouch,
         ChunkSend, ChunkLand, ChunkExists, ChunkStore, ChunkUnlock, Complete,
         HeadObject, LockUser, SumRows, CommitRow, CallAbort, CallDeleteObject,
         CallDelMeta, CallDelIndex, CallRelease, DeleteObject, DeleteRow,
         DeleteObjects, RemoveRows, PurgeRows, PurgeScan, PurgeAborts, PurgeKeys, redis
  <2>2. \A u \in active' : Clearing(u)' \/ Settled(u)'
    BY <1>1, <2>1
  <2> QED BY <2>2 DEF ClearInv
<1>3. CASE AddActive(r)
  <2>1. PICK w : w = req[r].u
    OBVIOUS
  <2>2. w = req'[r].u
    BY <1>3, <2>1, ReqTyped, GotoMoves DEF AddActive, Same
  <2>3. active' \subseteq active \cup {w}
    BY <1>3, <2>1, AddClear
  <2>4. Clearing(w)' \/ Settled(w)'
    BY <1>3, <2>1, <2>2, AddClear DEF Clearing, Clears, Settled, Listed
  <2>5. \A u \in active' : Clearing(u)' \/ Settled(u)'
    BY <1>1, <2>3, <2>4
  <2> QED BY <2>5 DEF ClearInv
<1> QED BY <1>2, <1>3

\* A step by which no handler deals with an upload it did not deal with.
LEMMA StartClear ==
  ASSUME TypeInv, ClearInv, NEW r \in Requests, Starts(r)
  PROVE  ClearInv'
<1>0. /\ Only(r) /\ Begins(req'[r]) /\ req[r].pc = "idle" /\ active' = active
      /\ UNCHANGED <<meta, index, multipart, sweep>>
  BY StartBegins DEF s3, Idle
<1>1. ASSUME NEW u \in active, Clearing(u)
      PROVE  Clearing(u)'
  <2>1. ASSUME NEW s \in Requests, Clears(req[s], u)
        PROVE  Clearing(u)'
    <3>1. s # r
      BY <1>0, <2>1 DEF Clears, FinalizePcs
    <3>2. PICK p : p = req[s]
      OBVIOUS
    <3>3. Clears(p, u) /\ p = req'[s]
      BY <1>0, <2>1, <3>1, <3>2 DEF Only
    <3> QED BY <3>3 DEF Clearing, Clears
  <2> QED BY <1>0, <1>1, <2>1 DEF Clearing
<1>2. ASSUME NEW u \in active, Settled(u)
      PROVE  Settled(u)'
  <2>1. u \in Uploads /\ (Listed(u) => Listed(u)')
    BY <1>0 DEF Listed, TypeInv, TypeOK
  <2>2. ~Writing(req'[r]) /\ req'[r].pc # "cCatch"
    BY <1>0 DEF Begins, Writing
  <2> QED BY <1>0, <1>2, <2>1, <2>2, SettledFrame
<1>3. \A u \in active' : Clearing(u)' \/ Settled(u)'
  BY <1>0, <1>1, <1>2 DEF ClearInv
<1> QED BY <1>3 DEF ClearInv

\* A handler whose call fails goes on clearing what it was clearing.
LEMMA FailClear ==
  ASSUME TypeInv, ScriptsInv, ClearInv, "redis" \notin Faults,
         NEW r \in Requests, CallFails(r)
  PROVE  ClearInv'
<1>0. /\ req[r] \in Handler /\ Scripted(req[r]) /\ Shaped(req[r]) /\ Idle.pc = "idle"
      /\ Only(r) /\ UNCHANGED <<meta, index, multipart, active, sweep>>
  BY ReqTyped, FailedCall DEF ReqInv, ScriptsInv, redis, s3, Idle
<1>1. ASSUME NEW u \in active, Clears(req[r], u)
      PROVE  Clears(req'[r], u)
  <2>1. CASE /\ req'[r] = Raise(req[r])
             /\ \/ req[r].todo # <<>> /\ Head(req[r].todo) = "abort"
                \/ /\ req[r].todo = <<>>
                   /\ req[r].pc \in {"iCreate", "cLand", "fComplete", "fHead",
                                     "fLock", "fSum", "fCommit", "dRow"}
    <3>1. CASE req[r].todo # <<>> /\ Head(req[r].todo) = "abort"
      <4>1. req[r].pc \in {"iEvict", "kClean"}
        BY <3>1, CallsPlaced
      <4>2. req[r].todo \in {<<"index", "meta", "active">>, <<"meta", "active">>, <<"active">>}
        BY <1>1, <4>1, ScriptsAre DEF Clears, CancelTails, FinalizePcs
      <4> QED BY <3>1, <4>2, HeadsAre
    <3>2. CASE /\ req[r].todo = <<>>
               /\ req[r].pc \in {"iCreate", "cLand", "fComplete", "fHead",
                                 "fLock", "fSum", "fCommit", "dRow"}
      <4>1. req[r].pc \in {"fComplete", "fHead", "fLock", "fSum", "fCommit"} /\ req[r].u = u
        BY <1>1, <3>2 DEF Clears, FinalizePcs
      <4>2. Raise(req[r]).pc = "fCatch" /\ Raise(req[r]).u = u
        BY <4>1, CleanIs DEF Raise, ChunkPcs, FinalizePcs
      <4> QED BY <2>1, <4>2 DEF Clears, FinalizePcs
    <3> QED BY <2>1, <3>1, <3>2
  <2>2. CASE req'[r] = Continue(req[r]) /\ req[r].todo # <<>>
             /\ Head(req[r].todo) \in {"tryAbort", "object"}
    <3>1. req[r].pc = "fCatch" /\ req[r].u = u
      BY <1>1, <2>2, CallsPlaced DEF Clears, FinalizePcs
    <3>2. req[r].todo # <<"active">>
      BY <2>2, HeadsAre
    <3>3. req'[r].pc = "fCatch" /\ req'[r].u = u
      BY <1>0, <2>2, <3>1, <3>2, ContinueLeads
    <3> QED BY <3>3 DEF Clears, FinalizePcs
  <2> QED BY <2>1, <2>2, FailedCall
<1>2. ~Writing(req'[r]) /\ req'[r].pc # "cCatch"
  <2>1. CASE req'[r] = Raise(req[r])
    BY <1>0, <2>1, RaiseLands DEF Writing
  <2>2. CASE req'[r] = Continue(req[r]) /\ req[r].todo # <<>>
    <3>1. req'[r].pc \in Landings
      BY <1>0, <2>2, ContinueLands
    <3>2. req'[r].pc # "cCatch"
      <4>1. req[r].pc = "cCatch" => ~(Len(req[r].todo) > 1)
        <5>1. ~(Len(<<"tryAbort">>) > 1)
          BY LengthsAre
        <5> QED BY <1>0, <5>1 DEF Scripted
      <4>2. \/ Len(req[r].todo) > 1 /\ req'[r].pc = req[r].pc
            \/ req'[r].pc \in {"iAdd", "iEvict", "iFail", "cUnlock", "idle"}
        BY <1>0, <2>2, ContinueLeads, AtIs
      <4> QED BY <4>1, <4>2
    <3> QED BY <3>1, <3>2 DEF Landings, CleanupPcs, Writing
  <2> QED BY <2>1, <2>2, FailedCall
<1>3. ASSUME NEW u \in active, Clearing(u)
      PROVE  Clearing(u)'
  <2>1. ASSUME NEW s \in Requests, Clears(req[s], u)
        PROVE  Clearing(u)'
    <3>1. PICK p : p = req'[s]
      OBVIOUS
    <3>2. Clears(p, u)
      BY <1>0, <1>1, <2>1, <3>1 DEF Only
    <3> QED BY <3>1, <3>2 DEF Clearing, Clears
  <2> QED BY <1>0, <1>3, <2>1 DEF Clearing
<1>4. ASSUME NEW u \in active, Settled(u)
      PROVE  Settled(u)'
  <2>1. u \in Uploads /\ (Listed(u) => Listed(u)')
    BY <1>0 DEF Listed, TypeInv, TypeOK
  <2> QED BY <1>0, <1>2, <1>4, <2>1, SettledFrame
<1>5. \A u \in active' : Clearing(u)' \/ Settled(u)'
  BY <1>0, <1>3, <1>4 DEF ClearInv
<1> QED BY <1>5 DEF ClearInv

\* A step that is not a handler's.
LEMMA ClearElsewhere ==
  ASSUME ClearInv, UNCHANGED req, active' \subseteq active,
         \A u \in active' : sweep.pc = "untrack" /\ sweep.u = u /\ u \in index =>
           sweep'.pc = "untrack" /\ sweep'.u = u /\ u \in index',
         \A u \in active' : Settled(u) =>
           \/ sweep'.pc = "untrack" /\ sweep'.u = u /\ u \in index'
           \/ meta'[u].live => meta[u].live /\ Listed(u)' /\ u \in index',
         \A u \in active' : ~meta'[u].live /\ meta[u].live =>
           \A r \in Requests : req[r].u = u => ~Writing(req[r])
  PROVE  ClearInv'
<1>1. ASSUME NEW u \in active', Clearing(u)
      PROVE  Clearing(u)'
  BY <1>1 DEF Clearing, Clears
<1>2. ASSUME NEW u \in active', Settled(u)
      PROVE  Clearing(u)' \/ Settled(u)'
  <2>1. CASE sweep'.pc = "untrack" /\ sweep'.u = u /\ u \in index'
    BY <2>1 DEF Clearing
  <2>2. CASE meta'[u].live => meta[u].live /\ Listed(u)' /\ u \in index'
    <3>1. ASSUME NEW s \in Requests, req'[s].u = u
          PROVE  (Writing(req[s])' => meta'[u].live) /\ req'[s].pc # "cCatch"
      BY <1>2, <3>1 DEF Settled, Writing
    <3> QED BY <2>2, <3>1 DEF Settled
  <2> QED BY <1>2, <2>1, <2>2
<1>3. \A u \in active' : Clearing(u)' \/ Settled(u)'
  BY <1>1, <1>2 DEF ClearInv
<1> QED BY <1>3 DEF ClearInv

\* The sweep aborts an upload only to clear it next.
LEMMA SweepClear ==
  ASSUME TypeInv, ClearInv, Sweeps
  PROVE  ClearInv'
<1>0. /\ req' = req /\ sweep \in Sweep /\ multipart \in [Uploads -> Multipart]
      /\ meta \in [Uploads -> Meta] /\ active \subseteq Uploads /\ ~NoMeta.live
  BY SweepSteps DEF Elsewhere, TypeInv, TypeOK, Sweep, NoMeta
<1>1. ASSUME sweep.pc # "untrack", UNCHANGED <<meta, index, active, multipart>>
      PROVE  ClearInv'
  <2>1. \A u \in active' : Settled(u) =>
         (meta'[u].live => meta[u].live /\ Listed(u)' /\ u \in index')
    BY <1>1 DEF Settled, Listed
  <2> QED BY <1>0, <1>1, <2>1, ClearElsewhere
<1>2. CASE SweepStart \/ SweepEnd \/ \E u \in Uploads : SweepInspect(u)
  BY <1>1, <1>2 DEF SweepStart, SweepEnd, SweepInspect, redis, s3
<1>3. CASE SweepAbort
  <2>1. CASE Listed(sweep.u) /\ multipart' = [multipart EXCEPT ![sweep.u] = Closed("aborted")]
             /\ sweep' = [sweep EXCEPT !.pc = "untrack"]
    <3>1. /\ sweep'.pc = "untrack" /\ sweep'.u = sweep.u /\ sweep.pc = "abort"
          /\ UNCHANGED <<meta, index, active>>
      BY <1>0, <1>3, <2>1 DEF SweepAbort, Sweep, redis
    <3>2. ASSUME NEW u \in active', Settled(u)
          PROVE  \/ sweep'.pc = "untrack" /\ sweep'.u = u /\ u \in index'
                 \/ meta'[u].live => meta[u].live /\ Listed(u)' /\ u \in index'
      <4>1. CASE u = sweep.u
        BY <3>1, <3>2, <4>1 DEF Settled
      <4>2. CASE u # sweep.u
        <5>1. multipart'[u] = multipart[u]
          BY <1>0, <2>1, <3>1, <3>2, <4>2
        <5> QED BY <3>1, <3>2, <5>1 DEF Settled, Listed
      <4> QED BY <4>1, <4>2
    <3> QED BY <1>0, <3>1, <3>2, ClearElsewhere
  <2>2. CASE UNCHANGED multipart
    BY <1>1, <1>3, <2>2 DEF SweepAbort, redis
  <2> QED BY <1>3, <2>1, <2>2 DEF SweepAbort
<1>4. CASE SweepUntrack
  <2>1. CASE sweep.u \in index
    <3>1. /\ meta' = [meta EXCEPT ![sweep.u] = NoMeta] /\ active' = active \ {sweep.u}
          /\ index' = index \ {sweep.u} /\ multipart' = multipart
      BY <1>4, <2>1 DEF SweepUntrack, s3
    <3>2. \A u \in active' : u # sweep.u /\ meta'[u] = meta[u] /\ (u \in index => u \in index')
      BY <1>0, <3>1
    <3>3. \A u \in active' : Settled(u) =>
           (meta'[u].live => meta[u].live /\ Listed(u)' /\ u \in index')
      BY <3>1, <3>2 DEF Settled, Listed
    <3> QED BY <1>0, <3>1, <3>2, <3>3, ClearElsewhere
  <2>2. CASE sweep.u \notin index
    <3>1. UNCHANGED <<meta, index, active, multipart>>
      BY <1>4, <2>2 DEF SweepUntrack, s3
    <3>2. \A u \in active' : Settled(u) =>
           (meta'[u].live => meta[u].live /\ Listed(u)' /\ u \in index')
      BY <3>1 DEF Settled, Listed
    <3> QED BY <1>0, <2>2, <3>1, <3>2, ClearElsewhere
  <2> QED BY <2>1, <2>2
<1> QED BY <1>2, <1>3, <1>4 DEF Sweeps

\* Metadata expires when nobody is about to write it again.
LEMMA ExpiryClear ==
  ASSUME TypeInv, ClearInv, Expires
  PROVE  ClearInv'
<1>0. /\ req' = req /\ multipart \in [Uploads -> Multipart] /\ sweep' = sweep
      /\ meta \in [Uploads -> Meta] /\ active \subseteq Uploads /\ ~NoMeta.live
  BY ExpirySteps
     DEF Elsewhere, TypeInv, TypeOK, NoMeta, Expires, ExpireActive, ExpireInitLock, Age,
         ExpireMeta, ExpireIndex, ExpireChunkLock
<1>1. CASE ExpireActive
  BY <1>1 DEF ExpireActive, ClearInv
<1>2. CASE ExpireInitLock \/ \E u \in Uploads : ExpireChunkLock(u)
  <2>1. UNCHANGED <<meta, index, active, multipart>>
    BY <1>2 DEF ExpireInitLock, ExpireChunkLock, s3
  <2>2. \A u \in active' : Settled(u) =>
         (meta'[u].live => meta[u].live /\ Listed(u)' /\ u \in index')
    BY <2>1 DEF Settled, Listed
  <2> QED BY <1>0, <2>1, <2>2, ClearElsewhere
<1>3. ASSUME NEW w \in Uploads, Age(w)
      PROVE  ClearInv'
  <2>1. /\ meta' = [meta EXCEPT ![w] = [meta[w] EXCEPT !.recent = FALSE]]
        /\ multipart' = [multipart EXCEPT ![w] = [multipart[w] EXCEPT !.recent = FALSE]]
        /\ UNCHANGED <<index, active>>
    BY <1>3 DEF Age
  <2>2. \A u \in Uploads : /\ meta'[u].live = meta[u].live
                           /\ multipart'[u].state = multipart[u].state
                           /\ multipart'[u].parts = multipart[u].parts
    BY <1>0, <2>1 DEF Meta, Multipart
  <2>3. \A u \in active' : Settled(u) =>
         (meta'[u].live => meta[u].live /\ Listed(u)' /\ u \in index')
    BY <1>0, <2>1, <2>2 DEF Settled, Listed
  <2>4. \A u \in active' : ~(~meta'[u].live /\ meta[u].live)
    BY <1>0, <2>1, <2>2
  <2> QED BY <1>0, <2>1, <2>3, <2>4, ClearElsewhere
<1>4. ASSUME NEW w \in Uploads, ExpireMeta(w)
      PROVE  ClearInv'
  <2>1. /\ meta' = [meta EXCEPT ![w] = NoMeta] /\ Quiet(w)
        /\ UNCHANGED <<index, active, multipart>>
    BY <1>4 DEF ExpireMeta, s3
  <2>2. \A u \in active' : meta'[u].live => meta[u].live
    BY <1>0, <2>1
  <2>3. \A u \in active' : Settled(u) =>
         (meta'[u].live => meta[u].live /\ Listed(u)' /\ u \in index')
    BY <2>1, <2>2 DEF Settled, Listed
  <2>4. \A u \in active' : ~meta'[u].live /\ meta[u].live =>
          \A r \in Requests : req[r].u = u => ~Writing(req[r])
    BY <1>0, <2>1 DEF Quiet, Writing
  <2> QED BY <1>0, <2>1, <2>3, <2>4, ClearElsewhere
<1>5. ASSUME NEW w \in Uploads, ExpireIndex(w)
      PROVE  ClearInv'
  <2>1. /\ index' = index \ {w} /\ ~meta[w].live /\ sweep.u # w
        /\ UNCHANGED <<meta, active, multipart>>
    BY <1>5 DEF ExpireIndex, Quiet, s3
  <2>2. \A u \in active' : Settled(u) =>
         (meta'[u].live => meta[u].live /\ Listed(u)' /\ u \in index')
    BY <2>1 DEF Settled, Listed
  <2>3. \A u \in active' : sweep.u = u /\ u \in index => u \in index'
    BY <2>1
  <2> QED BY <1>0, <2>1, <2>2, <2>3, ClearElsewhere
<1> QED BY <1>1, <1>2, <1>3, <1>4, <1>5 DEF Expires

\* Every step keeps ClearInv.
LEMMA ClearNext ==
  ASSUME Answered, TypeInv, IdsInv, ScriptsInv, PastInv, StartedInv, ClearInv, [Next]_vars
  PROVE  ClearInv'
<1>0. "redis" \notin Faults /\ "reply" \notin Faults /\ MaxCrashes = 0 /\ crashes \in Nat
  BY DEF Answered, TypeInv, TypeOK
<1>1. CASE Crash
  BY <1>0, <1>1 DEF Crash
<1>2. ASSUME NEW r \in Requests, ReplyLost(r)
      PROVE  ClearInv'
  BY <1>0, <1>2 DEF ReplyLost
<1>3. ASSUME UNCHANGED vars \/ \E r \in Requests : Disconnect(r)
      PROVE  ClearInv'
  <2>1. UNCHANGED <<req, meta, index, active, multipart, sweep>>
    BY <1>3 DEF Disconnect, vars, redis, s3
  <2>2. \A u \in active' : Settled(u) =>
         (meta'[u].live => meta[u].live /\ Listed(u)' /\ u \in index')
    BY <2>1 DEF Settled, Listed
  <2> QED BY <2>1, <2>2, ClearElsewhere
<1> QED BY <1>0, <1>1, <1>2, <1>3, StartClear, StepsClear, FailClear, SweepClear, ExpiryClear
        DEF Next, Fails

\* Nothing is active and nobody is at work in the beginning.
LEMMA ClearInit == Init => PastInv /\ StartedInv /\ ClearInv
<1>1. Idle.pc = "idle" /\ SweepIdle.todo = {} /\ SweepIdle.u = NoUpload
  BY DEF Idle, SweepIdle
<1> QED
  BY <1>1 DEF Init, PastInv, Beside, StartedInv, Started, Tracking, ClearInv

\* As long as Redis answers and no process dies, a tracked upload that S3 no
\* longer has is one somebody is clearing: abortActiveUpload, cancelUpload,
\* finalizeUpload, clearUserRedisData and the sweep may overlap as they like, a
\* late refreshUploadState included, and S3 and the database may refuse calls.
THEOREM DeadUploadsAreCleared ==
  ASSUME Answered
  PROVE  Spec => []NoStuckSlot
<1> DEFINE Inv == IInv /\ IdsInv /\ ScriptsInv /\ PastInv /\ StartedInv /\ ClearInv
<1>0. IInv => TypeInv
  BY DEF IInv
<1>1. Init => Inv
  BY InitInv, ScriptsWholeInit, ClearInit
<1>2. Inv /\ [Next]_vars => Inv'
  BY <1>0, NextInv, IdsNext, ScriptsNext, PastNext, StartedNext, ClearNext
<1>3. Inv => NoStuckSlot
  BY <1>0, ClearInvHolds
<1> QED BY <1>1, <1>2, <1>3, PTL DEF Spec
=============================================================================
