-------------------------- MODULE AccountsProofs ---------------------------
(***************************************************************************)
(* Theorems about Accounts, for any number of handlers, session keys,      *)
(* passwords, requests and codes, any operations and any failures.         *)
(*                                                                         *)
(* IInv says of the rows that they justify the status, of each handler     *)
(* what its program counter implies (Good), and of the codes that they are *)
(* counted. A step either moves one handler (LocalStep), commits a new     *)
(* session key (KeyStep) or a new status (StatusStep), or lets time pass.  *)
(***************************************************************************)
EXTENDS Accounts, TLAPS, FiniteSetTheorems,
        WellFoundedInduction

\* The program counters a call of usersService returns to.
Returns == {"idle", "current", "authenticate", "store", "exchange", "next"}

At(q, pcs) == q.pc \in pcs \/ q.after \in pcs

\* What a handler carries, by where it is and by its operation.
Shaped(q) ==
  /\ q.after \in Returns
  /\ At(q, {"current", "authenticate", "store", "exchange", "reissue"})
       => q.password \in Passwords
  /\ At(q, {"current", "exchange"}) => q.key \in Keys
  /\ q.pc \in {"current", "authenticate", "store", "exchange"} => q.after = "idle"
  /\ q.todo # {}
       => q.op \in {"processPendingDeletionRequests", "processExpiredRestrictions"}
  /\ At(q, {"next"})
       => q.op \in {"processPendingDeletionRequests", "processExpiredRestrictions"}
  /\ q.op = "processPendingDeletionRequests"
       => /\ q.pc \in {"next", "finalize", "deleteTxn", "drop"}
          /\ q.after \in {"idle", "next"}
          /\ q.todo \subseteq Requests
  /\ q.op = "processExpiredRestrictions"
       => /\ q.pc \in {"next", "reactivate", "reactivateTxn", "drop"}
          /\ q.after \in {"idle", "next"}

\* A login that will store a session key which is still the user's was given
\* the password that is still the user's.
Bound(q) == At(q, {"store"}) /\ q.key = user.key => q.password = user.password

\* What a handler that does op and has come to pc knows of the status, ...
Knows(op, pc) ==
  /\ pc = "checkBan" => user.status = "BANNED"
  /\ pc \in {"find", "cancelFind"} => user.status = "PENDING"
  /\ pc \in {"verify", "checkActive", "requestTxn"} => user.status = "ACTIVE"
  /\ pc \in {"reactivate", "reactivateTxn"} =>
       IF op = "updateUserStatus" THEN user.status # "DELETED" ELSE ~Standing
  /\ pc = "finalize" => user.status \in {"PENDING", "DELETED"}
  /\ pc = "deleteTxn" => op = "updateUserStatus" \/ user.status = "PENDING"
  /\ pc \in {"lockTxn", "banTxn"} =>
       op = "updateUserStatus" /\ user.status # "DELETED"

\* ... unless it has changed since the handler started. A sweep knows it as
\* long as there is something left on its list.
Informed(q) ==
  ~q.stale =>
    /\ Knows(q.op, q.pc)
    /\ q.op = "processPendingDeletionRequests" /\ q.todo # {} =>
         user.status \in {"PENDING", "DELETED"}
    /\ q.op = "processExpiredRestrictions" /\ q.todo # {} => ~Standing

Good(q) == q \in Task /\ Shaped(q) /\ Bound(q) /\ Informed(q)

RowsOK ==
  /\ user \in [status : Statuses, key : Keys, password : Passwords]
  /\ open \in Seq(Restriction)
  /\ request \in [Requests -> Request]
  /\ code \in [Codes -> Code]
  /\ issuedCodes \in Nat
HeldOK ==
  /\ masterKey \in BOOLEAN
  /\ tokens \subseteq Token
  /\ tickets \subseteq Ticket
TasksOK ==
  /\ task \in [Handlers -> Task]
  /\ \A h \in Handlers : Good(task[h])

\* The handlers that have counted the codes and not yet added theirs.
Counted == {h \in Handlers : task[h].pc = "createCode"}
CountOK ==
  /\ issuedCodes + Cardinality(Counted) <= INVITE_LIMIT + Cardinality(Handlers) - 1
  /\ CodesCounted

IInv ==
  /\ RowsOK
  /\ HeldOK
  /\ TasksOK
  /\ StatusJustified
  /\ LoginBindsPassword
  /\ RefreshOnce
  /\ CountOK

USE AccountAssumption
-----------------------------------------------------------------------------
(* Handlers *)

\* A handler that has not started, or is done, is well formed.
LEMMA IdleGood == Good(Idle) /\ Idle.pc = "idle"
<1>1. Idle \in Task
  BY DEF Idle, Task, PCs
<1>2. /\ Idle.op = "none" /\ Idle.pc = "idle" /\ Idle.after = "idle"
      /\ Idle.todo = {} /\ Idle.stale = FALSE
  BY DEF Idle
<1> QED
  BY <1>1, <1>2 DEF Good, Shaped, Bound, Informed, Knows, At, Returns

\* A handler whose program counter moves keeps the rest.
LEMMA Moved ==
  ASSUME NEW q \in Task, NEW pc \in PCs
  PROVE  /\ [q EXCEPT !.pc = pc] \in Task
         /\ [q EXCEPT !.pc = pc].pc = pc
         /\ [q EXCEPT !.pc = pc].op = q.op
         /\ [q EXCEPT !.pc = pc].after = q.after
         /\ [q EXCEPT !.pc = pc].password = q.password
         /\ [q EXCEPT !.pc = pc].key = q.key
         /\ [q EXCEPT !.pc = pc].row = q.row
         /\ [q EXCEPT !.pc = pc].todo = q.todo
         /\ [q EXCEPT !.pc = pc].stale = q.stale
  BY DEF Task

\* A handler that starts has nothing in its hands.
Started(r, op, pc) ==
  /\ r \in Task
  /\ r.pc = pc /\ r.op = op /\ r.after = "idle"
  /\ r.password = None /\ r.key = None /\ r.row = None
  /\ r.todo = {} /\ r.stale = FALSE

LEMMA Called ==
  ASSUME NEW op \in OpKinds, NEW pc \in PCs
  PROVE  Started(Call(op, pc), op, pc)
<1>1. Idle \in Task
  BY IdleGood DEF Good
<1>2. /\ Idle.after = "idle" /\ Idle.password = None /\ Idle.key = None
      /\ Idle.row = None /\ Idle.todo = {} /\ Idle.stale = FALSE
  BY DEF Idle
<1>3. /\ [Idle EXCEPT !.op = op, !.pc = pc] \in Task
      /\ [Idle EXCEPT !.op = op, !.pc = pc].op = op
      /\ [Idle EXCEPT !.op = op, !.pc = pc].pc = pc
      /\ [Idle EXCEPT !.op = op, !.pc = pc].after = Idle.after
      /\ [Idle EXCEPT !.op = op, !.pc = pc].password = Idle.password
      /\ [Idle EXCEPT !.op = op, !.pc = pc].key = Idle.key
      /\ [Idle EXCEPT !.op = op, !.pc = pc].row = Idle.row
      /\ [Idle EXCEPT !.op = op, !.pc = pc].todo = Idle.todo
      /\ [Idle EXCEPT !.op = op, !.pc = pc].stale = Idle.stale
  BY <1>1 DEF Task
<1> QED
  BY <1>2, <1>3 DEF Call, Started

\* A call of usersService that returns leaves a well-formed handler.
LEMMA ReturnGood ==
  ASSUME NEW q, Good(q), q.pc \notin {"idle", "next"}
  PROVE  /\ Good(Return(q))
         /\ Return(q).pc \in Returns
<1>1. CASE q.after = "idle"
  BY <1>1, IdleGood DEF Return, Returns
<1>2. CASE q.after # "idle"
  <2> DEFINE r == [q EXCEPT !.pc = q.after, !.after = "idle"]
  <2>1. Return(q) = r
    BY <1>2 DEF Return
  <2>2. q.after \in PCs /\ q.after \in Returns
    BY DEF Good, Shaped, Returns, PCs
  <2>3. /\ r \in Task /\ r.pc = q.after /\ r.after = "idle" /\ r.op = q.op
        /\ r.password = q.password /\ r.key = q.key /\ r.todo = q.todo
        /\ r.stale = q.stale
    BY <2>2 DEF Good, Task, PCs
  <2> HIDE DEF r
  <2>4. Shaped(r)
    BY <1>2, <2>2, <2>3 DEF Good, Shaped, At, Returns
  <2>5. Bound(r)
    BY <2>3 DEF Good, Bound, At
  <2>6. Informed(r)
    BY <2>2, <2>3 DEF Good, Informed, Knows, Returns
  <2> QED
    BY <2>1, <2>2, <2>3, <2>4, <2>5, <2>6 DEF Good
<1> QED
  BY <1>1, <1>2

\* assertUserCanLogin takes a handler that may go on to one that does, one
\* that repairs the account first, or none.
LEMMA AssertedGood ==
  ASSUME RowsOK,
         NEW r \in Task, Shaped(r), Bound(r), r.after = "idle", r.todo = {},
         r.op \notin {"processPendingDeletionRequests", "processExpiredRestrictions"},
         r.pc \in {"idle", "authenticate", "store", "exchange"}
  PROVE  /\ Good(Asserted(r))
         /\ Asserted(r).pc \notin {"reissue", "createCode"}
<1>1. CASE user.status = "ACTIVE"
  <2>1. Asserted(r) = r
    BY <1>1 DEF Asserted
  <2>2. Informed(r)
    BY DEF Informed, Knows
  <2> QED
    BY <2>1, <2>2 DEF Good
<1>2. ASSUME NEW pc \in {"prepare", "checkBan"},
             Asserted(r) = [r EXCEPT !.pc = pc, !.after = r.pc],
             pc = "checkBan" => user.status = "BANNED"
      PROVE  Good(Asserted(r)) /\ Asserted(r).pc \notin {"reissue", "createCode"}
  <2> DEFINE q == [r EXCEPT !.pc = pc, !.after = r.pc]
  <2>1. /\ q \in Task /\ q.pc = pc /\ q.after = r.pc /\ q.op = r.op
        /\ q.password = r.password /\ q.key = r.key /\ q.todo = r.todo
        /\ q.stale = r.stale
    BY ZenonT(60) DEF Task, PCs
  <2> HIDE DEF q
  <2>2. Shaped(q)
    BY <2>1 DEF Shaped, At, Returns
  <2>3. Bound(q)
    BY <2>1 DEF Bound, At
  <2>4. Informed(q)
    BY <1>2, <2>1 DEF Informed, Knows
  <2> QED
    BY <1>2, <2>1, <2>2, <2>3, <2>4 DEF Good, q
<1>3. CASE user.status = "PENDING"
  BY <1>2, <1>3 DEF Asserted
<1>4. CASE user.status = "BANNED"
  BY <1>2, <1>4 DEF Asserted
<1>5. CASE user.status \in {"LOCKED", "DELETED"}
  BY <1>5, IdleGood DEF Asserted
<1> QED
  BY <1>1, <1>3, <1>4, <1>5 DEF RowsOK, Statuses
-----------------------------------------------------------------------------
(* Kinds of steps *)

\* One handler moves; the rows, what is held and the others stay.
LEMMA LocalStep ==
  ASSUME IInv, NEW h \in Handlers, NEW r, Good(r),
         r.pc \notin {"reissue", "createCode"},
         task' = [task EXCEPT ![h] = r],
         UNCHANGED rows, HeldOK', LoginBindsPassword'
  PROVE  IInv'
<1>1. RowsOK'
  BY DEF IInv, RowsOK, rows
<1>2. TasksOK'
  <2>1. r \in Task /\ task \in [Handlers -> Task]
    BY DEF Good, IInv, TasksOK
  <2>2. task' \in [Handlers -> Task]
    BY <2>1
  <2>3. ASSUME NEW g \in Handlers
        PROVE  Good(task[g])'
    <3>1. Good(task'[g])
      BY <2>1 DEF IInv, TasksOK
    <3>2. UNCHANGED <<user, open>>
      BY DEF rows
    <3> QED
      BY <3>1, <3>2 DEF Good, Shaped, Bound, Informed, Knows, Standing, Expired, At
  <2> QED
    BY <2>2, <2>3 DEF TasksOK
<1>3. StatusJustified'
  BY DEF IInv, StatusJustified, OpenRequests, rows
<1>4. RefreshOnce'
  BY DEF IInv, TasksOK, RefreshOnce, rows
<1>5. CountOK'
  <2>1. Counted' \subseteq Counted
    BY DEF Counted, IInv, TasksOK
  <2>2. IsFiniteSet(Counted)
    BY FS_Subset DEF Counted
  <2>3. Cardinality(Counted') <= Cardinality(Counted)
    BY <2>1, <2>2, FS_Subset
  <2>4. /\ Cardinality(Counted') \in Nat /\ Cardinality(Counted) \in Nat
        /\ Cardinality(Handlers) \in Nat
    BY <2>1, <2>2, FS_Subset, FS_CardinalityType
  <2>5. CodesCounted'
    BY DEF IInv, CountOK, CodesCounted, rows
  <2> QED
    BY <2>3, <2>4, <2>5 DEF IInv, CountOK, RowsOK, INVITE_LIMIT, rows
<1> QED
  BY <1>1, <1>2, <1>3, <1>4, <1>5 DEF IInv

\* One handler moves and nothing is handed out or stored.
LEMMA QuietStep ==
  ASSUME IInv, NEW h \in Handlers, NEW r, Good(r),
         r.pc \notin {"reissue", "createCode"},
         task' = [task EXCEPT ![h] = r],
         UNCHANGED <<rows, masterKey, tokens>>, tickets' \subseteq Ticket
  PROVE  IInv'
<1>1. HeldOK' /\ LoginBindsPassword'
  BY DEF IInv, HeldOK, LoginBindsPassword, rows
<1> QED
  BY <1>1, LocalStep

\* A handler writes a new session key, with a new password or the old one.
LEMMA KeyStep ==
  ASSUME IInv, NEW h \in Handlers, NEW r \in Task, NEW k \in Keys, Unused(k),
         NEW p \in Passwords,
         user' \in [status : Statuses, key : Keys, password : Passwords],
         user'.status = user.status, user'.key = k, user'.password = p,
         Shaped(r), Informed(r), r.key # k, r.pc # "createCode",
         r.pc = "reissue" => r.key = user.key,
         task' = [task EXCEPT ![h] = r],
         UNCHANGED <<open, request, code, issuedCodes, masterKey, held>>
  PROVE  IInv'
<1>1. /\ user'.status = user.status /\ user'.key = k /\ user'.password = p
      /\ RowsOK'
  BY DEF IInv, RowsOK
<1>2. task \in [Handlers -> Task] /\ task' \in [Handlers -> Task]
  BY DEF IInv, TasksOK
<1>3. Standing' = Standing
  BY <1>1 DEF Standing, Expired
<1>4. \A g \in Handlers : task'[g].key # k
  BY <1>2 DEF Unused
<1>5. TasksOK'
  <2> SUFFICES ASSUME NEW g \in Handlers
               PROVE  Good(task[g])'
    BY <1>2 DEF TasksOK
  <2>1. Shaped(task'[g]) /\ Informed(task'[g]) /\ task'[g] \in Task
    BY <1>2 DEF IInv, TasksOK, Good
  <2>2. Bound(task[g])'
    BY <1>1, <1>4 DEF Bound
  <2>3. Informed(task[g])'
    BY <2>1, <1>1, <1>3 DEF Informed, Knows
  <2>4. Shaped(task[g])'
    BY <2>1 DEF Shaped, At
  <2> QED
    BY <2>1, <2>2, <2>3, <2>4 DEF Good
<1>6. StatusJustified'
  BY <1>1 DEF IInv, StatusJustified, OpenRequests
<1>7. LoginBindsPassword' /\ HeldOK'
  BY <1>1 DEF IInv, LoginBindsPassword, HeldOK, Unused, held
<1>8. RefreshOnce'
  BY <1>1, <1>2, <1>4 DEF IInv, RefreshOnce
<1>9. CountOK'
  <2>1. Counted' \subseteq Counted
    BY <1>2 DEF Counted
  <2>2. IsFiniteSet(Counted)
    BY FS_Subset DEF Counted
  <2>3. Cardinality(Counted') <= Cardinality(Counted)
    BY <2>1, <2>2, FS_Subset
  <2>4. /\ Cardinality(Counted') \in Nat /\ Cardinality(Counted) \in Nat
        /\ Cardinality(Handlers) \in Nat
    BY <2>1, <2>2, FS_Subset, FS_CardinalityType
  <2>5. CodesCounted'
    BY DEF IInv, CountOK, CodesCounted
  <2> QED
    BY <2>3, <2>4, <2>5 DEF IInv, CountOK, RowsOK, INVITE_LIMIT
<1> QED
  BY <1>1, <1>5, <1>6, <1>7, <1>8, <1>9 DEF IInv

\* A handler moves over the codes.
LEMMA CodeStep ==
  ASSUME IInv, NEW h \in Handlers, NEW r, Good(r), r.pc # "reissue",
         task' = [task EXCEPT ![h] = r],
         UNCHANGED <<user, open, request, masterKey, held>>,
         code' \in [Codes -> Code], issuedCodes' \in Nat, CountOK'
  PROVE  IInv'
<1>1. RowsOK' /\ HeldOK' /\ LoginBindsPassword'
  BY DEF IInv, RowsOK, HeldOK, LoginBindsPassword, held
<1>2. TasksOK'
  <2>1. r \in Task /\ task \in [Handlers -> Task]
    BY DEF Good, IInv, TasksOK
  <2>2. task' \in [Handlers -> Task]
    BY <2>1
  <2>3. ASSUME NEW g \in Handlers
        PROVE  Good(task[g])'
    <3>1. Good(task'[g])
      BY <2>1 DEF IInv, TasksOK
    <3> QED
      BY <3>1 DEF Good, Shaped, Bound, Informed, Knows, Standing, Expired, At
  <2> QED
    BY <2>2, <2>3 DEF TasksOK
<1>3. StatusJustified'
  BY DEF IInv, StatusJustified, OpenRequests
<1>4. RefreshOnce'
  BY DEF IInv, TasksOK, RefreshOnce
<1> QED
  BY <1>1, <1>2, <1>3, <1>4 DEF IInv

\* A handler commits a change of the status. What it writes beside it must
\* justify the new status, and what it still has to do must fit it.
LEMMA StatusStep ==
  ASSUME IInv, NEW h \in Handlers, NEW status \in Statuses,
         SetStatus(h, status), UNCHANGED <<masterKey, held>>,
         open' \in Seq(Restriction), request' \in [Requests -> Request],
         code' \in [Codes -> Code], issuedCodes' \in Nat,
         issuedCodes' <= issuedCodes, CodesCounted',
         StatusJustified',
         task[h].op = "processPendingDeletionRequests" => status = "DELETED",
         task[h].op = "processExpiredRestrictions" => status = "ACTIVE"
  PROVE  IInv'
<1>1. PICK k \in Keys :
        /\ Unused(k)
        /\ user' = [user EXCEPT !.status = status, !.key = k]
        /\ task' = [g \in Handlers |->
             IF g = h THEN [task[g] EXCEPT !.pc = "drop"]
             ELSE IF task[g].pc = "idle" THEN task[g]
             ELSE [task[g] EXCEPT !.stale = TRUE]]
  BY DEF SetStatus
<1>2. /\ user'.status = status /\ user'.key = k /\ user'.password = user.password
      /\ RowsOK'
  BY <1>1 DEF IInv, RowsOK
<1>3. task \in [Handlers -> Task] /\ \A g \in Handlers : Good(task[g])
  BY DEF IInv, TasksOK
<1>4. ASSUME NEW g \in Handlers
      PROVE  /\ task'[g] \in Task
             /\ task'[g].op = task[g].op /\ task'[g].after = task[g].after
             /\ task'[g].key = task[g].key /\ task'[g].todo = task[g].todo
             /\ task'[g].password = task[g].password
             /\ task'[g].pc = IF g = h THEN "drop" ELSE task[g].pc
             /\ g # h => task'[g].stale \/ task'[g].pc = "idle"
  <2>1. task[g] \in Task
    BY <1>3
  <2>2. CASE g = h
    BY <1>1, <2>1, <2>2 DEF Task, PCs
  <2>3. CASE g # h
    BY <1>1, <2>1, <2>3 DEF Task
  <2> QED
    BY <2>2, <2>3
<1>5. TasksOK'
  <2>1. task' \in [Handlers -> Task]
    BY <1>1, <1>4
  <2>2. ASSUME NEW g \in Handlers
        PROVE  Good(task[g])'
    <3>1. Shaped(task'[g])
      BY <1>3, <1>4 DEF Good, Shaped, At
    <3>2. Shaped(task[g])'
      BY <3>1 DEF Shaped, At
    <3>3. Bound(task[g])'
      BY <1>1, <1>2, <1>4 DEF Bound, Unused
    <3>4. CASE g = h
      <4>1. status = "ACTIVE" => ~Standing'
        BY <1>2 DEF Standing
      <4>2. Informed(task[g])'
        BY <1>2, <1>4, <3>4, <4>1 DEF Informed, Knows
      <4> QED
        BY <1>4, <3>2, <3>3, <4>2 DEF Good
    <3>5. CASE g # h
      <4>1. task'[g].stale \/ task'[g].pc = "idle"
        BY <1>4, <3>5
      <4>2. Informed(task[g])'
        BY <3>1, <4>1 DEF Informed, Knows, Shaped
      <4> QED
        BY <1>4, <3>2, <3>3, <4>2 DEF Good
    <3> QED
      BY <3>4, <3>5
  <2> QED
    BY <2>1, <2>2 DEF TasksOK
<1>6. LoginBindsPassword' /\ HeldOK'
  BY <1>1, <1>2 DEF IInv, LoginBindsPassword, HeldOK, Unused, held
<1>7. RefreshOnce'
  BY <1>1, <1>2, <1>4 DEF IInv, RefreshOnce, Unused
<1>8. CountOK'
  <2>1. Counted' \subseteq Counted
    BY <1>4 DEF Counted
  <2>2. IsFiniteSet(Counted)
    BY FS_Subset DEF Counted
  <2>3. Cardinality(Counted') <= Cardinality(Counted)
    BY <2>1, <2>2, FS_Subset
  <2>4. /\ Cardinality(Counted') \in Nat /\ Cardinality(Counted) \in Nat
        /\ Cardinality(Handlers) \in Nat
    BY <2>1, <2>2, FS_Subset, FS_CardinalityType
  <2> QED
    BY <2>3, <2>4 DEF IInv, CountOK, RowsOK, INVITE_LIMIT
<1> QED
  BY <1>2, <1>5, <1>6, <1>7, <1>8 DEF IInv
-----------------------------------------------------------------------------
(* Steps of one handler *)

\* Begin, Goto and Finish move one handler.
LEMMA Moves ==
  ASSUME NEW h \in Handlers
  PROVE  /\ \A pc : Goto(h, pc) => task' = [task EXCEPT ![h] = [task[h] EXCEPT !.pc = pc]]
         /\ Finish(h) => task' = [task EXCEPT ![h] = Idle]
         /\ \A r : Begin(h, r) => task' = [task EXCEPT ![h] = r] /\ r.op \in Ops
  BY DEF Goto, Finish, Begin

\* A handler that finishes, fails included.
LEMMA FinishStep ==
  ASSUME IInv, NEW h \in Handlers, Finish(h),
         UNCHANGED <<rows, masterKey, tokens>>, tickets' \subseteq Ticket
  PROVE  IInv'
<1>1. task' = [task EXCEPT ![h] = Idle] /\ Good(Idle) /\ Idle.pc = "idle"
  BY Moves, IdleGood
<1> QED
  BY <1>1, QuietStep

\* The places a handler goes to within an operation.
Places == PCs \ (Returns \cup {"reissue", "createCode"})

\* A handler that goes on, with what it knows by then.
LEMMA GotoStep ==
  ASSUME IInv, NEW h \in Handlers,
         NEW pc \in Places, Goto(h, pc),
         UNCHANGED <<rows, masterKey, tokens>>, tickets' \subseteq Ticket,
         ~task[h].stale => Knows(task[h].op, pc),
         task[h].op = "processPendingDeletionRequests"
           => pc \in {"finalize", "deleteTxn", "drop"},
         task[h].op = "processExpiredRestrictions"
           => pc \in {"reactivate", "reactivateTxn", "drop"}
  PROVE  IInv'
<1> DEFINE r == [task[h] EXCEPT !.pc = pc]
<1>1. Good(task[h])
  BY DEF IInv, TasksOK
<1>0. pc \in PCs /\ pc \notin Returns \cup {"reissue", "createCode"}
  BY DEF Places
<1>2. /\ r \in Task /\ r.pc = pc /\ r.op = task[h].op /\ r.after = task[h].after
      /\ r.password = task[h].password /\ r.key = task[h].key
      /\ r.todo = task[h].todo /\ r.stale = task[h].stale
  BY <1>0, <1>1, Moved DEF Good
<1>3. task' = [task EXCEPT ![h] = r]
  BY Moves
<1> HIDE DEF r
<1>4. Shaped(r)
  BY <1>0, <1>1, <1>2 DEF Good, Shaped, At, Returns
<1>5. Bound(r)
  BY <1>0, <1>1, <1>2 DEF Good, Bound, At, Returns
<1>6. Informed(r)
  BY <1>0, <1>1, <1>2 DEF Good, Informed
<1> QED
  BY <1>0, <1>2, <1>3, <1>4, <1>5, <1>6, QuietStep DEF Good

\* A handler that starts with nothing in its hands.
LEMMA CallStep ==
  ASSUME IInv, NEW h \in Handlers,
         NEW op \in OpKinds \ {"processPendingDeletionRequests",
                               "processExpiredRestrictions"},
         NEW pc \in Places,
         Begin(h, Call(op, pc)), UNCHANGED <<rows, masterKey, held>>,
         Knows(op, pc)
  PROVE  IInv'
<1> DEFINE r == Call(op, pc)
<1>0. op \in OpKinds /\ pc \in PCs
  BY DEF Places
<1>1. Started(r, op, pc)
  BY <1>0, Called
<1>p. pc \notin Returns \cup {"reissue", "createCode"}
  BY DEF Places
<1>2. task' = [task EXCEPT ![h] = r]
  BY Moves
<1> HIDE DEF r
<1>3. Good(r)
  BY <1>1, <1>p DEF Started, Good, Shaped, Bound, Informed, At, Returns
<1>4. UNCHANGED <<rows, masterKey, tokens>> /\ tickets' \subseteq Ticket
  BY DEF held, IInv, HeldOK
<1> QED
  BY <1>1, <1>2, <1>3, <1>4, <1>p, QuietStep DEF Started

\* The newest open request is one of them.
LEMMA ActiveType ==
  /\ OpenRequests \subseteq Requests
  /\ OpenRequests = {} => ActiveRequest = None
  /\ OpenRequests # {} => ActiveRequest \in OpenRequests
<1>1. OpenRequests \subseteq Requests
  BY DEF OpenRequests
<1>2. ASSUME OpenRequests # {}
      PROVE  \E i \in OpenRequests : \A j \in OpenRequests : j <= i
  <2> DEFINE T == {n \in Nat : \E i \in OpenRequests : n = MaxRequests - i}
  <2>1. PICK j \in OpenRequests : TRUE
    BY <1>2
  <2>2. MaxRequests - j \in T
    BY <1>1, <2>1 DEF Requests
  <2>3. PICK n \in T : \A m \in T : ~ (<<m, n>> \in OpToRel(<, Nat))
    BY <2>2, NatLessThanWellFounded, WFMin
  <2>4. \A m \in T : ~ (m < n)
    BY <2>3 DEF OpToRel
  <2>5. PICK i \in OpenRequests : n = MaxRequests - i
    OBVIOUS
  <2>6. ASSUME NEW k \in OpenRequests
        PROVE  k <= i
    <3>1. MaxRequests - k \in T
      BY <1>1, <2>6 DEF Requests
    <3>2. ~ (MaxRequests - k < n)
      BY <3>1, <2>4
    <3> QED
      BY <3>2, <2>5, <1>1, <2>6 DEF Requests
  <2> QED
    BY <2>6
<1>3. OpenRequests # {} => ActiveRequest \in OpenRequests
  BY <1>2 DEF ActiveRequest
<1> QED
  BY <1>1, <1>3 DEF ActiveRequest
-----------------------------------------------------------------------------
(* Logging in *)

\* The first reads of the login paths.
LEMMA LoginReads ==
  ASSUME IInv, NEW h \in Handlers,
         LoginRead(h) \/ InternalLoginRead(h) \/ ProfileRead(h) \/ RefreshRead(h)
  PROVE  IInv'
<1> UNCHANGED <<rows, masterKey, tokens>> /\ tickets' \subseteq Ticket
  BY DEF LoginRead, InternalLoginRead, ProfileRead, RefreshRead, held, IInv, HeldOK
<1>u. user.password \in Passwords /\ user.key \in Keys
  BY DEF IInv, RowsOK
<1>1. CASE LoginRead(h)
  <2> DEFINE c == Call("login", "prepare")
             r == [c EXCEPT !.after = "current", !.password = user.password,
                            !.key = user.key]
  <2>0. "login" \in OpKinds /\ "prepare" \in PCs
    BY DEF OpKinds, PCs
  <2>1. Started(c, "login", "prepare")
    BY <2>0, Called
  <2>2. task' = [task EXCEPT ![h] = r]
    BY <1>1, Moves DEF LoginRead
  <2> HIDE DEF c
  <2>3. /\ r \in Task /\ r.pc = "prepare" /\ r.op = "login" /\ r.after = "current"
        /\ r.password = user.password /\ r.key = user.key /\ r.todo = {}
    BY <1>u, <2>1 DEF Started, Task, PCs
  <2> HIDE DEF r
  <2>4. Good(r)
    BY <1>u, <2>3 DEF Good, Shaped, Bound, Informed, Knows, At, Returns
  <2> QED
    BY <2>2, <2>3, <2>4, QuietStep
<1>2. CASE InternalLoginRead(h)
  <2> DEFINE c == Call("internalLogin", "authenticate")
             r == [c EXCEPT !.password = user.password]
  <2>0. "internalLogin" \in OpKinds /\ "authenticate" \in PCs
    BY DEF OpKinds, PCs
  <2>1. Started(c, "internalLogin", "authenticate")
    BY <2>0, Called
  <2>2. task' = [task EXCEPT ![h] = Asserted(r)]
    BY <1>2, Moves DEF InternalLoginRead
  <2> HIDE DEF c
  <2>3. /\ r \in Task /\ r.pc = "authenticate" /\ r.op = "internalLogin"
        /\ r.after = "idle" /\ r.password = user.password /\ r.todo = {}
    BY <1>u, <2>1 DEF Started, Task, PCs
  <2> HIDE DEF r
  <2>4. Shaped(r) /\ Bound(r)
    BY <1>u, <2>3 DEF Shaped, Bound, At, Returns
  <2>5. Good(Asserted(r)) /\ Asserted(r).pc \notin {"reissue", "createCode"}
    BY <2>3, <2>4, AssertedGood DEF IInv
  <2> QED
    BY <2>2, <2>5, QuietStep
<1>3. CASE ProfileRead(h)
  <2> DEFINE r == Call("profile", "idle")
  <2>0. "profile" \in OpKinds /\ "idle" \in PCs
    BY DEF OpKinds, PCs
  <2>1. Started(r, "profile", "idle")
    BY <2>0, Called
  <2>2. task' = [task EXCEPT ![h] = Asserted(r)]
    BY <1>3, Moves DEF ProfileRead
  <2> HIDE DEF r
  <2>3. Shaped(r) /\ Bound(r)
    BY <2>1 DEF Started, Shaped, Bound, At, Returns
  <2>4. Good(Asserted(r)) /\ Asserted(r).pc \notin {"reissue", "createCode"}
    BY <2>1, <2>3, AssertedGood DEF IInv, Started
  <2> QED
    BY <2>2, <2>4, QuietStep
<1>4. CASE RefreshRead(h)
  <2>1. PICK t \in tokens :
          Begin(h, Asserted([Call("refreshToken", "exchange") EXCEPT
                               !.key = t.key, !.password = t.password]))
    BY <1>4 DEF RefreshRead
  <2> DEFINE c == Call("refreshToken", "exchange")
             r == [c EXCEPT !.key = t.key, !.password = t.password]
  <2>2. t.key \in Keys /\ t.password \in Passwords
    BY DEF IInv, HeldOK, Token
  <2>0. "refreshToken" \in OpKinds /\ "exchange" \in PCs
    BY DEF OpKinds, PCs
  <2>3. Started(c, "refreshToken", "exchange")
    BY <2>0, Called
  <2>4. task' = [task EXCEPT ![h] = Asserted(r)]
    BY <2>1, Moves
  <2> HIDE DEF c
  <2>5. /\ r \in Task /\ r.pc = "exchange" /\ r.op = "refreshToken"
        /\ r.after = "idle" /\ r.password = t.password /\ r.key = t.key
        /\ r.todo = {}
    BY <2>2, <2>3 DEF Started, Task, PCs
  <2> HIDE DEF r
  <2>6. Shaped(r) /\ Bound(r)
    BY <2>2, <2>5 DEF Shaped, Bound, At, Returns
  <2>7. Good(Asserted(r)) /\ Asserted(r).pc \notin {"reissue", "createCode"}
    BY <2>5, <2>6, AssertedGood DEF IInv
  <2> QED
    BY <2>4, <2>7, QuietStep
<1> QED
  BY <1>1, <1>2, <1>3, <1>4

\* The repairs a login begins with.
LEMMA RepairReads ==
  ASSUME IInv, NEW h \in Handlers, CheckBan(h) \/ Prepare(h) \/ FindRequest(h)
  PROVE  IInv'
<1>g. Good(task[h])
  BY DEF IInv, TasksOK
<1>1. CASE CheckBan(h)
  <2>1. UNCHANGED <<rows, masterKey, tokens>> /\ tickets' \subseteq Ticket
    BY <1>1 DEF CheckBan, held, IInv, HeldOK
  <2>2. CASE Finish(h)
    BY <2>1, <2>2, FinishStep
  <2>3. ASSUME NEW i \in DOMAIN open, Expired(open[i]), Goto(h, "reactivate")
        PROVE  IInv'
    <3>1. open[1] = open[i]
      BY <2>3 DEF IInv, StatusJustified, RowsOK
    <3>2. user.status = "BANNED" => ~Standing
      BY <2>3, <3>1 DEF Standing
    <3>3. task[h].pc = "checkBan"
      BY <1>1 DEF CheckBan
    <3>o. /\ "reactivate" \in Places
          /\ task[h].op # "processPendingDeletionRequests"
          /\ task[h].op # "processExpiredRestrictions"
      BY <1>g, <3>3 DEF Good, Shaped, Places, PCs, Returns
    <3>4. ~task[h].stale => Knows(task[h].op, "reactivate")
      BY <1>g, <3>2, <3>3 DEF Good, Informed, Knows, Shaped
    <3> QED
      BY <2>1, <2>3, <3>4, <3>o, GotoStep
  <2> QED
    BY <1>1, <2>2, <2>3 DEF CheckBan
<1>2. CASE Prepare(h)
  <2>1. UNCHANGED <<rows, masterKey, tokens>> /\ tickets' \subseteq Ticket
    BY <1>2 DEF Prepare, held, IInv, HeldOK
  <2>2. task[h].pc = "prepare"
    BY <1>2 DEF Prepare
  <2>3. CASE user.status # "PENDING"
    <3>1. task' = [task EXCEPT ![h] = Return(task[h])]
      BY <1>2, <2>3 DEF Prepare
    <3>2. Good(Return(task[h])) /\ Return(task[h]).pc \in Returns
      BY <1>g, <2>2, ReturnGood
    <3> QED
      BY <2>1, <3>1, <3>2, QuietStep DEF Returns
  <2>4. CASE user.status = "PENDING"
    <3>1. Goto(h, "find")
      BY <1>2, <2>4 DEF Prepare, Goto
    <3>o. /\ "find" \in Places
          /\ task[h].op # "processPendingDeletionRequests"
          /\ task[h].op # "processExpiredRestrictions"
      BY <1>g, <2>2 DEF Good, Shaped, Places, PCs, Returns
    <3>2. ~task[h].stale => Knows(task[h].op, "find")
      BY <1>g, <2>2, <2>4 DEF Good, Informed, Knows, Shaped
    <3> QED
      BY <2>1, <3>1, <3>2, <3>o, GotoStep
  <2> QED
    BY <2>3, <2>4
<1>3. CASE FindRequest(h)
  <2> DEFINE a == ActiveRequest
  <2>1. UNCHANGED <<rows, masterKey, tokens>> /\ task[h].pc = "find"
    BY <1>3 DEF FindRequest
  <2>2. CASE a = None /\ Goto(h, "reactivate") /\ UNCHANGED tickets
    <3>1. user.status # "PENDING"
      <4>1. None \notin Requests
        BY DEF Requests
      <4>2. OpenRequests = {}
        BY <2>2, <4>1, ActiveType
      <4> QED
        BY <4>2 DEF IInv, StatusJustified
    <3>2. tickets' \subseteq Ticket
      BY <2>2 DEF IInv, HeldOK
    <3>o. /\ "reactivate" \in Places
          /\ task[h].op # "processPendingDeletionRequests"
          /\ task[h].op # "processExpiredRestrictions"
      BY <1>g, <2>1 DEF Good, Shaped, Places, PCs, Returns
    <3>3. ~task[h].stale => Knows(task[h].op, "reactivate")
      BY <1>g, <2>1, <3>1 DEF Good, Informed, Knows, Shaped
    <3> QED
      BY <2>1, <2>2, <3>2, <3>3, <3>o, GotoStep
  <2>3. CASE /\ a # None
             /\ task' = [task EXCEPT ![h].pc = "finalize", ![h].after = "idle",
                                     ![h].row = a]
             /\ UNCHANGED tickets
    <3> DEFINE r == [task[h] EXCEPT !.pc = "finalize", !.after = "idle", !.row = a]
    <3>1. a \in Requests
      BY <2>3, ActiveType
    <3>2. task' = [task EXCEPT ![h] = r]
      BY <2>3
    <3> HIDE DEF a
    <3>3. /\ r \in Task /\ r.pc = "finalize" /\ r.after = "idle"
          /\ r.op = task[h].op /\ r.password = task[h].password
          /\ r.key = task[h].key /\ r.todo = task[h].todo
          /\ r.stale = task[h].stale
      BY <1>g, <3>1 DEF Good, Task, PCs
    <3> HIDE DEF r
    <3>4. Shaped(r)
      BY <1>g, <2>1, <3>3 DEF Good, Shaped, At, Returns
    <3>5. Bound(r)
      BY <1>g, <3>3 DEF Bound, At
    <3>6. Informed(r)
      BY <1>g, <2>1, <3>3 DEF Good, Informed, Knows
    <3> QED
      BY <2>1, <2>3, <3>2, <3>3, <3>4, <3>5, <3>6, QuietStep DEF Good, IInv, HeldOK
  <2>4. CASE /\ a # None /\ Finish(h)
             /\ tickets' = IF task[h].after = "current"
                           THEN tickets \cup {[key |-> task[h].key, row |-> a]}
                           ELSE tickets
    <3>1. a \in Requests
      BY <2>4, ActiveType
    <3>2. task[h].after = "current" => task[h].key \in Keys
      BY <1>g DEF Good, Shaped, At
    <3>3. tickets' \subseteq Ticket
      BY <2>4, <3>1, <3>2 DEF IInv, HeldOK, Ticket
    <3> QED
      BY <2>1, <2>4, <3>3, FinishStep
  <2> QED
    BY <1>3, <2>2, <2>3, <2>4 DEF FindRequest
<1> QED
  BY <1>1, <1>2, <1>3

\* The password is compared, the user read again, the tokens issued.
LEMMA LoginRest ==
  ASSUME IInv, NEW h \in Handlers,
         CurrentRead(h) \/ AuthenticatedRead(h) \/ Store(h)
  PROVE  IInv'
<1>g. Good(task[h])
  BY DEF IInv, TasksOK
<1>u. user.password \in Passwords /\ user.key \in Keys
  BY DEF IInv, RowsOK
<1>1. CASE CurrentRead(h)
  <2>1. UNCHANGED <<rows, masterKey, tokens>> /\ tickets' \subseteq Ticket
    BY <1>1 DEF CurrentRead, held, IInv, HeldOK
  <2> DEFINE r == [task[h] EXCEPT !.pc = "authenticate"]
  <2>2. task[h].pc = "current" /\ task' = [task EXCEPT ![h] = Asserted(r)]
    BY <1>1 DEF CurrentRead
  <2>3. /\ r \in Task /\ r.pc = "authenticate" /\ r.op = task[h].op
        /\ r.after = task[h].after /\ r.password = task[h].password
        /\ r.key = task[h].key /\ r.todo = task[h].todo /\ r.stale = task[h].stale
    <3>1. "authenticate" \in PCs
      BY DEF PCs
    <3> QED
      BY <1>g, <3>1, Moved DEF Good
  <2> HIDE DEF r
  <2>4. CASE Shaped(r) /\ Bound(r) /\ r.after = "idle" /\ r.todo = {}
    <3>1. Good(Asserted(r)) /\ Asserted(r).pc \notin {"reissue", "createCode"}
      BY <1>g, <2>2, <2>3, <2>4, AssertedGood DEF IInv, Good, Shaped
    <3> QED
      BY <2>1, <2>2, <3>1, QuietStep
  <2>5. Shaped(r) /\ Bound(r)
    BY <1>g, <2>2, <2>3 DEF Good, Shaped, Bound, At
  <2>6. r.after = "idle" /\ r.todo = {}
    BY <1>g, <2>2, <2>3 DEF Good, Shaped
  <2> QED
    BY <2>4, <2>5, <2>6
<1>2. CASE AuthenticatedRead(h)
  <2>1. UNCHANGED <<rows, masterKey, tokens>> /\ tickets' \subseteq Ticket
    BY <1>2 DEF AuthenticatedRead, held, IInv, HeldOK
  <2> DEFINE k == IF user.password = task[h].password THEN user.key ELSE None
             r == [task[h] EXCEPT !.pc = "store", !.key = k]
  <2>2. /\ task[h].pc = "authenticate"
        /\ task' = [task EXCEPT ![h] =
             IF r.op = "internalLogin" THEN Asserted(r) ELSE r]
    BY <1>2 DEF AuthenticatedRead
  <2>3. /\ k \in Keys \cup {None}
        /\ k = user.key => user.password = task[h].password
    BY <1>u
  <2> HIDE DEF k
  <2>4. /\ r \in Task /\ r.pc = "store" /\ r.op = task[h].op
        /\ r.after = task[h].after /\ r.password = task[h].password
        /\ r.key = k /\ r.todo = task[h].todo /\ r.stale = task[h].stale
    BY <1>g, <2>3 DEF Good, Task, PCs
  <2> HIDE DEF r
  <2>5. /\ r.op \notin {"processPendingDeletionRequests", "processExpiredRestrictions"}
        /\ r.after = "idle" /\ r.todo = {}
    BY <1>g, <2>2, <2>4 DEF Good, Shaped
  <2>6. Shaped(r)
    BY <1>g, <2>2, <2>4, <2>5 DEF Good, Shaped, At, Returns
  <2>7. Bound(r)
    BY <2>3, <2>4 DEF Bound
  <2>8. CASE r.op = "internalLogin"
    <3>1. Good(Asserted(r)) /\ Asserted(r).pc \notin {"reissue", "createCode"}
      BY <2>4, <2>5, <2>6, <2>7, AssertedGood DEF IInv
    <3> QED
      BY <2>1, <2>2, <2>8, <3>1, QuietStep
  <2>9. CASE r.op # "internalLogin"
    <3>1. Informed(r)
      BY <2>4, <2>5 DEF Informed, Knows
    <3>2. Good(r) /\ r.pc \notin {"reissue", "createCode"}
      BY <2>4, <2>6, <2>7, <3>1 DEF Good
    <3> QED
      BY <2>1, <2>2, <2>9, <3>2, QuietStep
  <2> QED
    BY <2>8, <2>9
<1>3. CASE Store(h)
  <2>1. CASE task[h].key = None
    <3>1. UNCHANGED <<rows, masterKey, tokens>> /\ tickets' \subseteq Ticket /\ Finish(h)
      BY <1>3, <2>1 DEF Store, IInv, HeldOK
    <3> QED
      BY <3>1, FinishStep
  <2>2. CASE task[h].key # None
    <3> DEFINE t == [key |-> task[h].key, by |-> "login", password |-> task[h].password]
    <3>1. /\ task[h].pc = "store" /\ masterKey' = TRUE /\ tokens' = tokens \cup {t}
          /\ Finish(h) /\ UNCHANGED <<rows, tickets>>
      BY <1>3, <2>2 DEF Store
    <3>2. task[h].key \in Keys /\ task[h].password \in Passwords
      BY <1>g, <2>2, <3>1 DEF Good, Shaped, At, Task
    <3>3. t \in Token /\ t.key = task[h].key /\ t.password = task[h].password
      BY <3>2 DEF Token
    <3> HIDE DEF t
    <3>4. HeldOK'
      BY <3>1, <3>3 DEF IInv, HeldOK
    <3>5. LoginBindsPassword'
      <4>1. task[h].key = user.key => task[h].password = user.password
        BY <1>g, <3>1 DEF Good, Bound, At
      <4> QED
        BY <3>1, <3>3, <4>1 DEF IInv, LoginBindsPassword, rows
    <3>6. task' = [task EXCEPT ![h] = Idle] /\ Good(Idle) /\ Idle.pc = "idle"
      BY <3>1, Moves, IdleGood
    <3> QED
      BY <3>1, <3>4, <3>5, <3>6, LocalStep
  <2> QED
    BY <2>1, <2>2
<1> QED
  BY <1>1, <1>2, <1>3

-----------------------------------------------------------------------------
(* Reactivating and deleting *)

\* A handler about to act on the status: reactivateUser and
\* finalizePendingDeletion.
LEMMA RepairRest ==
  ASSUME IInv, NEW h \in Handlers, Reactivate(h) \/ Finalize(h) \/ Drop(h)
  PROVE  IInv'
<1>g. Good(task[h])
  BY DEF IInv, TasksOK
<1>1. CASE Reactivate(h)
  <2>1. /\ UNCHANGED <<rows, masterKey, tokens>> /\ tickets' \subseteq Ticket
        /\ task[h].pc = "reactivate"
    BY <1>1 DEF Reactivate, held, IInv, HeldOK
  <2>2. CASE Finish(h)
    BY <2>1, <2>2, FinishStep
  <2>3. CASE Goto(h, "reactivateTxn")
    <3>o. /\ "reactivateTxn" \in Places
          /\ task[h].op # "processPendingDeletionRequests"
      BY <1>g, <2>1 DEF Good, Shaped, Places, PCs, Returns
    <3>1. ~task[h].stale => Knows(task[h].op, "reactivateTxn")
      BY <1>g, <2>1 DEF Good, Informed, Knows
    <3> QED
      BY <2>1, <2>3, <3>o, <3>1, GotoStep
  <2> QED
    BY <1>1, <2>2, <2>3 DEF Reactivate
<1>2. CASE Finalize(h)
  <2>1. /\ UNCHANGED <<rows, masterKey, tokens>> /\ tickets' \subseteq Ticket
        /\ task[h].pc = "finalize"
    BY <1>2 DEF Finalize, held, IInv, HeldOK
  <2>2. CASE user.status = "DELETED"
    <3>1. task' = [task EXCEPT ![h] = Return(task[h])]
      BY <1>2, <2>2 DEF Finalize
    <3>2. Good(Return(task[h])) /\ Return(task[h]).pc \in Returns
      BY <1>g, <2>1, ReturnGood
    <3> QED
      BY <2>1, <3>1, <3>2, QuietStep DEF Returns
  <2>3. CASE user.status # "DELETED"
    <3>1. Goto(h, "deleteTxn")
      BY <1>2, <2>3 DEF Finalize, Goto
    <3>o. /\ "deleteTxn" \in Places
          /\ task[h].op # "processExpiredRestrictions"
      BY <1>g, <2>1 DEF Good, Shaped, Places, PCs, Returns
    <3>2. ~task[h].stale => Knows(task[h].op, "deleteTxn")
      BY <1>g, <2>1, <2>3 DEF Good, Informed, Knows
    <3> QED
      BY <2>1, <3>o, <3>1, <3>2, GotoStep
  <2> QED
    BY <2>2, <2>3
<1>3. CASE Drop(h)
  <2>1. /\ task[h].pc = "drop" /\ masterKey' = FALSE /\ UNCHANGED <<rows, held>>
        /\ task' = [task EXCEPT ![h] = Return(task[h])]
    BY <1>3 DEF Drop
  <2>2. Good(Return(task[h])) /\ Return(task[h]).pc \notin {"reissue", "createCode"}
    BY <1>g, <2>1, ReturnGood DEF Returns
  <2>3. HeldOK' /\ LoginBindsPassword'
    BY <2>1 DEF IInv, HeldOK, LoginBindsPassword, rows, held
  <2>4. UNCHANGED rows
    BY <2>1
  <2> QED
    BY <2>1, <2>2, <2>3, <2>4, LocalStep
<1> QED
  BY <1>1, <1>2, <1>3

\* setInviteCodesValidity neither creates nor deletes a code.
LEMMA ValidityKeeps ==
  ASSUME RowsOK, CodesCounted, NEW valid \in BOOLEAN, SetValidity(valid),
         UNCHANGED issuedCodes
  PROVE  code' \in [Codes -> Code] /\ CodesCounted'
<1>1. \A c \in Codes : code'[c] \in Code /\ code'[c].exists = code[c].exists
  BY DEF SetValidity, RowsOK, Code
<1>2. code' \in [Codes -> Code]
  BY <1>1 DEF SetValidity
<1>3. {c \in Codes : code'[c].exists} = {c \in Codes : code[c].exists}
  BY <1>1
<1> QED
  BY <1>2, <1>3 DEF CodesCounted

\* cancelActiveDeletionRequests leaves no request open.
LEMMA CancelCloses ==
  ASSUME RowsOK, CancelActive
  PROVE  request' \in [Requests -> Request] /\ OpenRequests' = {}
<1>1. /\ Closed("cancelled") \in Request
      /\ Closed("cancelled").state = "cancelled"
  BY DEF Closed, Request
<1>2. \A i \in Requests : /\ request'[i] \in Request
                          /\ request'[i].state # "open"
  BY <1>1 DEF CancelActive, OpenRequests, RowsOK
<1>3. request' \in [Requests -> Request]
  BY <1>2 DEF CancelActive
<1> QED
  BY <1>2, <1>3 DEF OpenRequests

\* reactivateUser commits.
LEMMA Reactivated ==
  ASSUME IInv, NEW h \in Handlers, ReactivateCommit(h)
  PROVE  IInv'
<1>1. /\ task[h].pc = "reactivateTxn" /\ open' = <<>> /\ CancelActive
      /\ SetStatus(h, "ACTIVE") /\ SetValidity(TRUE)
      /\ UNCHANGED issuedCodes /\ UNCHANGED <<masterKey, held>>
  BY DEF ReactivateCommit
<1>2. RowsOK /\ CodesCounted /\ issuedCodes \in Nat
  BY DEF IInv, CountOK, RowsOK
<1>3. request' \in [Requests -> Request] /\ OpenRequests' = {}
  BY <1>1, <1>2, CancelCloses
<1>4. code' \in [Codes -> Code] /\ CodesCounted'
  BY <1>1, <1>2, ValidityKeeps
<1>5. user'.status = "ACTIVE"
  BY <1>1 DEF SetStatus, IInv, RowsOK
<1>6. open' \in Seq(Restriction) /\ Len(open') = 0
  BY <1>1
<1>7. StatusJustified'
  BY <1>1, <1>3, <1>5, <1>6 DEF StatusJustified
<1>8. task[h].op # "processPendingDeletionRequests"
  BY <1>1 DEF IInv, TasksOK, Good, Shaped
<1>9. "ACTIVE" \in Statuses /\ issuedCodes' \in Nat /\ issuedCodes' <= issuedCodes
  BY <1>1, <1>2 DEF Statuses
<1> QED
  BY <1>1, <1>3, <1>4, <1>6, <1>7, <1>8, <1>9, StatusStep

\* deleteUserDataAndMarkDeleted commits.
LEMMA Deleted ==
  ASSUME IInv, NEW h \in Handlers, DeleteCommit(h)
  PROVE  IInv'
<1>1. /\ task[h].pc = "deleteTxn" /\ open' = <<>>
      /\ SetStatus(h, "DELETED") /\ UNCHANGED <<masterKey, held>>
      /\ code' = [c \in Codes |-> NoCode] /\ issuedCodes' = 0
  BY DEF DeleteCommit
<1>2. RowsOK /\ issuedCodes \in Nat
  BY DEF IInv, RowsOK
<1>3. request' \in [Requests -> Request]
  <2>1. CASE CancelActive
    BY <1>2, <2>1, CancelCloses
  <2>2. CASE request' = [request EXCEPT ![task[h].row] = Closed("processed")]
    <3>1. Closed("processed") \in Request
      BY DEF Closed, Request
    <3> QED
      BY <1>2, <2>2, <3>1 DEF RowsOK
  <2> QED
    BY <2>1, <2>2 DEF DeleteCommit
<1>4. code' \in [Codes -> Code] /\ CodesCounted'
  <2>1. NoCode \in Code /\ NoCode.exists = FALSE
    BY DEF NoCode, Code
  <2>2. {c \in Codes : code'[c].exists} = {}
    BY <1>1, <2>1
  <2> QED
    BY <1>1, <2>1, <2>2, FS_EmptySet DEF CodesCounted
<1>5. user'.status = "DELETED"
  BY <1>1 DEF SetStatus, IInv, RowsOK
<1>6. open' \in Seq(Restriction) /\ Len(open') = 0
  BY <1>1
<1>7. StatusJustified'
  BY <1>5, <1>6 DEF StatusJustified
<1>8. task[h].op # "processExpiredRestrictions"
  BY <1>1 DEF IInv, TasksOK, Good, Shaped
<1>9. "DELETED" \in Statuses /\ issuedCodes' \in Nat /\ issuedCodes' <= issuedCodes
  BY <1>1, <1>2 DEF Statuses
<1> QED
  BY <1>1, <1>3, <1>4, <1>6, <1>7, <1>8, <1>9, StatusStep

\* requestAccountDeletion commits.
LEMMA Requested ==
  ASSUME IInv, NEW h \in Handlers, RequestCommit(h)
  PROVE  IInv'
<1>1. /\ task[h].pc = "requestTxn" /\ SetStatus(h, "PENDING")
      /\ UNCHANGED <<open, code, issuedCodes, masterKey, held>>
  BY DEF RequestCommit
<1>2. PICK i \in Requests :
        request' = [request EXCEPT ![i] = [state |-> "open", due |-> FALSE]]
  BY DEF RequestCommit
<1>3. /\ open \in Seq(Restriction) /\ request \in [Requests -> Request]
      /\ code \in [Codes -> Code] /\ issuedCodes \in Nat /\ CodesCounted
  BY DEF IInv, CountOK, RowsOK
<1>4. request' \in [Requests -> Request] /\ OpenRequests' # {}
  <2>1. [state |-> "open", due |-> FALSE] \in Request
    BY DEF Request
  <2>2. request'[i].state = "open"
    BY <1>2, <1>3
  <2> QED
    BY <1>2, <1>3, <2>1, <2>2 DEF OpenRequests
<1>5. user'.status = "PENDING"
  BY <1>1 DEF SetStatus, IInv, RowsOK
<1>6. StatusJustified'
  BY <1>1, <1>4, <1>5 DEF IInv, StatusJustified
<1>7. /\ task[h].op # "processPendingDeletionRequests"
      /\ task[h].op # "processExpiredRestrictions"
  BY <1>1 DEF IInv, TasksOK, Good, Shaped
<1>8. /\ "PENDING" \in Statuses /\ CodesCounted'
      /\ open' \in Seq(Restriction) /\ code' \in [Codes -> Code]
      /\ issuedCodes' \in Nat /\ issuedCodes' <= issuedCodes
  BY <1>1, <1>3 DEF Statuses, CodesCounted
<1>9. UNCHANGED <<masterKey, held>>
  BY <1>1
<1> QED
  BY <1>1, <1>4, <1>6, <1>7, <1>8, <1>9, StatusStep

\* updateUserStatus commits a lock or a ban.
LEMMA Restricted ==
  ASSUME IInv, NEW h \in Handlers, LockCommit(h) \/ BanCommit(h)
  PROVE  IInv'
<1>1. PICK status \in {"LOCKED", "BANNED"}, r \in Restriction :
        /\ RestrictUser(h, status, r)
        /\ r.type = IF status = "LOCKED" THEN "LOCK" ELSE "BAN"
  <2>1. CASE LockCommit(h)
    <3>1. /\ [type |-> "LOCK", permanent |-> FALSE, expired |-> FALSE] \in Restriction
          /\ [type |-> "LOCK", permanent |-> FALSE, expired |-> FALSE].type = "LOCK"
      BY DEF Restriction
    <3> QED
      BY <2>1, <3>1 DEF LockCommit
  <2>2. CASE BanCommit(h)
    <3>1. \A p \in BOOLEAN :
            /\ [type |-> "BAN", permanent |-> p, expired |-> FALSE] \in Restriction
            /\ [type |-> "BAN", permanent |-> p, expired |-> FALSE].type = "BAN"
      BY DEF Restriction
    <3>2. PICK p \in BOOLEAN :
            RestrictUser(h, "BANNED", [type |-> "BAN", permanent |-> p, expired |-> FALSE])
      BY <2>2 DEF BanCommit
    <3> QED
      BY <3>1, <3>2
  <2> QED
    BY <2>1, <2>2
<1>2. /\ CancelActive /\ open' = <<r>> /\ SetStatus(h, status) /\ SetValidity(FALSE)
      /\ UNCHANGED issuedCodes /\ UNCHANGED <<masterKey, held>>
      /\ task[h].pc \in {"lockTxn", "banTxn"}
  BY <1>1 DEF RestrictUser, LockCommit, BanCommit
<1>3. RowsOK /\ CodesCounted /\ issuedCodes \in Nat
  BY DEF IInv, CountOK, RowsOK
<1>4. request' \in [Requests -> Request] /\ OpenRequests' = {}
  BY <1>2, <1>3, CancelCloses
<1>5. code' \in [Codes -> Code] /\ CodesCounted'
  BY <1>2, <1>3, ValidityKeeps
<1>6. user'.status = status
  BY <1>2 DEF SetStatus, IInv, RowsOK
<1>7. open' \in Seq(Restriction) /\ Len(open') = 1 /\ open'[1] = r /\ open' # <<>>
  BY <1>2
<1>8. StatusJustified'
  BY <1>1, <1>4, <1>6, <1>7 DEF StatusJustified
<1>9. /\ task[h].op # "processPendingDeletionRequests"
      /\ task[h].op # "processExpiredRestrictions"
  BY <1>2 DEF IInv, TasksOK, Good, Shaped
<1>10. status \in Statuses /\ issuedCodes' \in Nat /\ issuedCodes' <= issuedCodes
  BY <1>2, <1>3 DEF Statuses
<1> QED
  BY <1>2, <1>4, <1>5, <1>7, <1>8, <1>9, <1>10, StatusStep

-----------------------------------------------------------------------------
(* Sessions *)

\* refreshToken, logout, changePassword and recoverPassword write a new
\* session key.
LEMMA NewKeys ==
  ASSUME IInv, NEW h \in Handlers,
         Exchange(h) \/ Rotate(h) \/ ReplacePassword(h) \/ ResetPassword(h)
  PROVE  IInv'
<1>g. Good(task[h]) /\ task[h] \in Task
  BY DEF IInv, TasksOK, Good
<1>u. user \in [status : Statuses, key : Keys, password : Passwords]
  BY DEF IInv, RowsOK
<1>1. CASE Exchange(h)
  <2>1. CASE user.key # task[h].key
    <3>1. Finish(h) /\ UNCHANGED <<rows, masterKey, tokens>> /\ tickets' \subseteq Ticket
      BY <1>1, <2>1 DEF Exchange, rows, held, IInv, HeldOK
    <3> QED
      BY <3>1, FinishStep
  <2>2. CASE user.key = task[h].key
    <3> DEFINE r == [task[h] EXCEPT !.pc = "reissue"]
    <3>1. PICK k \in Keys : Unused(k) /\ user' = [user EXCEPT !.key = k]
      BY <1>1, <2>2 DEF Exchange
    <3>2. /\ task[h].pc = "exchange" /\ task' = [task EXCEPT ![h] = r]
          /\ UNCHANGED <<open, request, code, issuedCodes, masterKey, held>>
      BY <1>1, <2>2, Moves DEF Exchange
    <3>3. /\ user' \in [status : Statuses, key : Keys, password : Passwords]
          /\ user'.status = user.status /\ user'.key = k
          /\ user'.password = user.password /\ user.password \in Passwords
      BY <1>u, <3>1
    <3>4. "reissue" \in PCs
      BY DEF PCs
    <3>5. /\ r \in Task /\ r.pc = "reissue" /\ r.op = task[h].op
          /\ r.after = task[h].after /\ r.password = task[h].password
          /\ r.key = task[h].key /\ r.todo = task[h].todo /\ r.stale = task[h].stale
      BY <1>g, <3>4, Moved
    <3> HIDE DEF r
    <3>6. Shaped(r) /\ Informed(r)
      BY <1>g, <3>2, <3>5 DEF Good, Shaped, Informed, Knows, At
    <3>7. r.key # k
      BY <3>1, <3>5 DEF Unused
    <3> QED
      BY <2>2, <3>1, <3>2, <3>3, <3>5, <3>6, <3>7, KeyStep
  <2> QED
    BY <2>1, <2>2
<1>2. CASE Rotate(h) \/ ReplacePassword(h)
  <2> DEFINE r == [task[h] EXCEPT !.pc = "drop"]
  <2>1. PICK k \in Keys, p \in Passwords :
          /\ Unused(k)
          /\ user' \in [status : Statuses, key : Keys, password : Passwords]
          /\ user'.status = user.status /\ user'.key = k /\ user'.password = p
    <3>1. CASE Rotate(h)
      <4>1. PICK k \in Keys : Unused(k) /\ user' = [user EXCEPT !.key = k]
        BY <3>1 DEF Rotate
      <4> QED
        BY <1>u, <4>1
    <3>2. CASE ReplacePassword(h)
      <4>1. PICK p \in Passwords, k \in Keys :
              Unused(k) /\ user' = [user EXCEPT !.password = p, !.key = k]
        BY <3>2 DEF ReplacePassword, NewPassword
      <4> QED
        BY <1>u, <4>1
    <3> QED
      BY <1>2, <3>1, <3>2
  <2>2. /\ task[h].pc \in {"rotate", "replace"} /\ task' = [task EXCEPT ![h] = r]
        /\ UNCHANGED <<open, request, code, issuedCodes, masterKey, held>>
    BY <1>2, Moves DEF Rotate, ReplacePassword
  <2>3. "drop" \in PCs
    BY DEF PCs
  <2>4. /\ r \in Task /\ r.pc = "drop" /\ r.op = task[h].op
        /\ r.after = task[h].after /\ r.password = task[h].password
        /\ r.key = task[h].key /\ r.todo = task[h].todo /\ r.stale = task[h].stale
    BY <1>g, <2>3, Moved
  <2> HIDE DEF r
  <2>5. Shaped(r) /\ Informed(r)
    BY <1>g, <2>2, <2>4 DEF Good, Shaped, Informed, Knows, At
  <2>6. r.key # k
    BY <2>1, <2>4 DEF Unused
  <2> QED
    BY <2>1, <2>2, <2>4, <2>5, <2>6, KeyStep
<1>3. CASE ResetPassword(h)
  <2>1. PICK p \in Passwords, k \in Keys :
          Unused(k) /\ user' = [user EXCEPT !.password = p, !.key = k]
    BY <1>3 DEF ResetPassword, NewPassword
  <2>2. /\ task' = [task EXCEPT ![h] = Idle]
        /\ UNCHANGED <<open, request, code, issuedCodes, masterKey, held>>
    BY <1>3, Moves DEF ResetPassword
  <2>3. /\ user' \in [status : Statuses, key : Keys, password : Passwords]
        /\ user'.status = user.status /\ user'.key = k /\ user'.password = p
    BY <1>u, <2>1
  <2>4. Idle \in Task /\ Shaped(Idle) /\ Informed(Idle) /\ Idle.pc = "idle"
    BY IdleGood DEF Good
  <2>5. Idle.key # k
    BY DEF Idle
  <2> QED
    BY <2>1, <2>2, <2>3, <2>4, <2>5, KeyStep
<1> QED
  BY <1>1, <1>2, <1>3

\* refreshToken hands out the new pair.
LEMMA Reissued ==
  ASSUME IInv, NEW h \in Handlers, Reissue(h)
  PROVE  IInv'
<1> DEFINE t == [key |-> user.key, by |-> "refresh", password |-> task[h].password]
<1>1. /\ task[h].pc = "reissue" /\ tokens' = tokens \cup {t} /\ Finish(h)
      /\ UNCHANGED <<rows, masterKey, tickets>>
  BY DEF Reissue
<1>2. Good(task[h]) /\ user.key \in Keys
  BY DEF IInv, TasksOK, RowsOK
<1>3. task[h].password \in Passwords
  BY <1>1, <1>2 DEF Good, Shaped, At
<1>4. t \in Token /\ t.by = "refresh"
  BY <1>2, <1>3 DEF Token
<1> HIDE DEF t
<1>5. HeldOK' /\ LoginBindsPassword'
  BY <1>1, <1>4 DEF IInv, HeldOK, LoginBindsPassword, rows
<1>6. task' = [task EXCEPT ![h] = Idle] /\ Good(Idle) /\ Idle.pc = "idle"
  BY <1>1, Moves, IdleGood
<1> QED
  BY <1>1, <1>5, <1>6, LocalStep

\* Calls that begin with what the caller showed: a password, a ticket, a code.
LEMMA HoldingStep ==
  ASSUME IInv, NEW h \in Handlers,
         NEW op \in OpKinds \ {"processPendingDeletionRequests",
                               "processExpiredRestrictions"},
         NEW pc \in Places, NEW r \in Task,
         r.op = op, r.pc = pc, r.after = "idle", r.todo = {},
         Begin(h, r), UNCHANGED <<rows, masterKey, held>>,
         Knows(op, pc)
  PROVE  IInv'
<1>1. pc \notin Returns \cup {"reissue", "createCode"}
  BY DEF Places
<1>2. task' = [task EXCEPT ![h] = r]
  BY Moves
<1>3. Good(r)
  BY <1>1 DEF Good, Shaped, Bound, Informed, At, Returns
<1>4. UNCHANGED <<rows, masterKey, tokens>> /\ tickets' \subseteq Ticket
  BY DEF held, IInv, HeldOK
<1> QED
  BY <1>1, <1>2, <1>3, <1>4, QuietStep

\* logout, forceLogoutUser, changeUsername, clearUserData, recoverPassword,
\* generateInviteCode and updateUserStatus start.
LEMMA Calls ==
  ASSUME IInv, NEW h \in Handlers,
         \/ LogoutCall(h) \/ AdminLogoutRead(h) \/ ClearRead(h) \/ RecoverCall(h)
         \/ AdminRead(h) \/ InviteCall(h)
  PROVE  IInv'
<1>1. PICK op \in {"logout", "forceLogoutUser", "changeUsername", "clearUserData",
                   "recoverPassword", "updateUserStatus", "generateInviteCode"},
           pc \in {"rotate", "drop", "reset", "reactivate", "lockTxn", "banTxn",
                   "deleteTxn", "countCodes"} :
        /\ Begin(h, Call(op, pc)) /\ UNCHANGED <<rows, masterKey, held>>
        /\ pc \in {"reactivate", "lockTxn", "banTxn"} =>
             op = "updateUserStatus" /\ user.status # "DELETED"
        /\ pc = "deleteTxn" => op = "updateUserStatus"
  <2>1. CASE LogoutCall(h)
    BY <2>1 DEF LogoutCall
  <2>2. CASE AdminLogoutRead(h)
    <3>1. PICK op \in {"forceLogoutUser", "changeUsername"} :
            Begin(h, Call(op, "rotate"))
      BY <2>2 DEF AdminLogoutRead
    <3> QED
      BY <2>2, <3>1 DEF AdminLogoutRead
  <2>3. CASE ClearRead(h)
    BY <2>3 DEF ClearRead
  <2>4. CASE RecoverCall(h)
    BY <2>4 DEF RecoverCall
  <2>5. CASE AdminRead(h)
    <3>1. CASE user.status # "DELETED" /\ \E pc \in {"reactivate", "lockTxn", "banTxn"} :
                 Begin(h, Call("updateUserStatus", pc))
      <4>1. PICK pc \in {"reactivate", "lockTxn", "banTxn"} :
              Begin(h, Call("updateUserStatus", pc))
        BY <3>1
      <4> QED
        BY <2>5, <3>1, <4>1 DEF AdminRead
    <3>2. CASE Begin(h, Call("updateUserStatus", "deleteTxn"))
      BY <2>5, <3>2 DEF AdminRead
    <3> QED
      BY <2>5, <3>1, <3>2 DEF AdminRead
  <2>6. CASE InviteCall(h)
    BY <2>6 DEF InviteCall
  <2> QED
    BY <2>1, <2>2, <2>3, <2>4, <2>5, <2>6
<1>2. /\ op \in OpKinds \ {"processPendingDeletionRequests",
                           "processExpiredRestrictions"}
      /\ pc \in Places
  BY DEF OpKinds, Places, PCs, Returns
<1>3. Knows(op, pc)
  BY <1>1 DEF Knows
<1> QED
  BY <1>1, <1>2, <1>3, CallStep

\* changePassword, requestAccountDeletion, reactivateAccount and register start.
LEMMA HoldingCalls ==
  ASSUME IInv, NEW h \in Handlers, PasswordCall(h) \/ TicketRead(h) \/ InviteRead(h)
  PROVE  IInv'
<1>1. CASE PasswordCall(h)
  <2>1. PICK op \in {"changePassword", "requestAccountDeletion"} :
          Begin(h, [Call(op, "verify") EXCEPT !.password = user.password])
    BY <1>1 DEF PasswordCall
  <2> DEFINE c == Call(op, "verify")
             r == [c EXCEPT !.password = user.password]
  <2>2. user.password \in Passwords /\ user.status = "ACTIVE"
    BY <1>1 DEF IInv, RowsOK, PasswordCall, Authorised
  <2>3. /\ op \in OpKinds \ {"processPendingDeletionRequests",
                             "processExpiredRestrictions"}
        /\ op \in OpKinds /\ "verify" \in PCs /\ "verify" \in Places
    BY DEF OpKinds, PCs, Places, Returns
  <2>4. Started(c, op, "verify")
    BY <2>3, Called
  <2>5. Begin(h, r) /\ UNCHANGED <<rows, masterKey, held>>
    BY <1>1, <2>1 DEF PasswordCall
  <2> HIDE DEF c
  <2>6. r \in Task /\ r.op = op /\ r.pc = "verify" /\ r.after = "idle" /\ r.todo = {}
    BY <2>2, <2>4 DEF Started, Task
  <2> HIDE DEF r
  <2>7. Knows(op, "verify")
    BY <2>2 DEF Knows
  <2> QED
    BY <2>3, <2>5, <2>6, <2>7, HoldingStep
<1>2. CASE TicketRead(h)
  <2>1. PICK t \in tickets :
          Begin(h, [Call("reactivateAccount", "cancelRead") EXCEPT
                      !.key = t.key, !.row = t.row])
    BY <1>2 DEF TicketRead
  <2> DEFINE c == Call("reactivateAccount", "cancelRead")
             r == [c EXCEPT !.key = t.key, !.row = t.row]
  <2>2. t.key \in Keys /\ t.row \in Requests
    BY DEF IInv, HeldOK, Ticket
  <2>3. /\ "reactivateAccount" \in OpKinds \ {"processPendingDeletionRequests",
                                              "processExpiredRestrictions"}
        /\ "reactivateAccount" \in OpKinds
        /\ "cancelRead" \in PCs /\ "cancelRead" \in Places
    BY DEF OpKinds, PCs, Places, Returns
  <2>4. Started(c, "reactivateAccount", "cancelRead")
    BY <2>3, Called
  <2>5. Begin(h, r) /\ UNCHANGED <<rows, masterKey, held>>
    BY <1>2, <2>1 DEF TicketRead
  <2> HIDE DEF c
  <2>6. /\ r \in Task /\ r.op = "reactivateAccount" /\ r.pc = "cancelRead"
        /\ r.after = "idle" /\ r.todo = {}
    BY <2>2, <2>4 DEF Started, Task
  <2> HIDE DEF r
  <2>7. Knows("reactivateAccount", "cancelRead")
    BY DEF Knows
  <2> QED
    BY <2>3, <2>5, <2>6, <2>7, HoldingStep
<1>3. CASE InviteRead(h)
  <2>1. PICK x \in Codes : Begin(h, [Call("register", "redeem") EXCEPT !.row = x])
    BY <1>3 DEF InviteRead
  <2> DEFINE c == Call("register", "redeem")
             r == [c EXCEPT !.row = x]
  <2>3. /\ "register" \in OpKinds \ {"processPendingDeletionRequests",
                                     "processExpiredRestrictions"}
        /\ "register" \in OpKinds /\ "redeem" \in PCs /\ "redeem" \in Places
    BY DEF OpKinds, PCs, Places, Returns
  <2>4. Started(c, "register", "redeem")
    BY <2>3, Called
  <2>5. Begin(h, r) /\ UNCHANGED <<rows, masterKey, held>>
    BY <1>3, <2>1 DEF InviteRead
  <2> HIDE DEF c
  <2>6. /\ r \in Task /\ r.op = "register" /\ r.pc = "redeem"
        /\ r.after = "idle" /\ r.todo = {}
    BY <2>4 DEF Started, Task
  <2> HIDE DEF r
  <2>7. Knows("register", "redeem")
    BY DEF Knows
  <2> QED
    BY <2>3, <2>5, <2>6, <2>7, HoldingStep
<1> QED
  BY <1>1, <1>2, <1>3

-----------------------------------------------------------------------------
(* Passwords, deletion requests and invite codes *)

\* The checks between a call and its transaction.
LEMMA Checks ==
  ASSUME IInv, NEW h \in Handlers,
         Verify(h) \/ CheckActive(h) \/ CancelRead(h) \/ CancelFind(h)
  PROVE  IInv'
<1>g. Good(task[h])
  BY DEF IInv, TasksOK
<1>q. /\ UNCHANGED <<rows, masterKey, tokens>> /\ tickets' \subseteq Ticket
      /\ task[h].pc \in {"verify", "checkActive", "cancelRead", "cancelFind"}
  BY DEF Verify, CheckActive, CancelRead, CancelFind, held, IInv, HeldOK
<1>o. /\ task[h].op # "processPendingDeletionRequests"
      /\ task[h].op # "processExpiredRestrictions"
  BY <1>g, <1>q DEF Good, Shaped
<1>1. CASE Finish(h)
  BY <1>q, <1>1, FinishStep
<1>2. ASSUME NEW pc \in Places, Goto(h, pc),
             ~task[h].stale => Knows(task[h].op, pc)
      PROVE  IInv'
  BY <1>q, <1>o, <1>2, GotoStep
<1>p. /\ "replace" \in Places /\ "checkActive" \in Places /\ "requestTxn" \in Places
      /\ "cancelFind" \in Places /\ "finalize" \in Places /\ "reactivate" \in Places
  BY DEF Places, PCs, Returns
<1>i. ~task[h].stale => Knows(task[h].op, task[h].pc)
  BY <1>g DEF Good, Informed
<1>3. CASE Verify(h)
  <2>1. CASE Goto(h, "replace")
    BY <1>2, <1>p, <2>1 DEF Knows
  <2>2. CASE Goto(h, "checkActive")
    <3>1. task[h].pc = "verify"
      BY <1>3 DEF Verify
    <3> QED
      BY <1>2, <1>i, <1>p, <2>2, <3>1 DEF Knows
  <2> QED
    BY <1>1, <1>3, <2>1, <2>2 DEF Verify
<1>4. CASE CheckActive(h)
  <2>1. task[h].pc = "checkActive"
    BY <1>4 DEF CheckActive
  <2>2. CASE Goto(h, "requestTxn")
    BY <1>2, <1>i, <1>p, <2>1, <2>2 DEF Knows
  <2> QED
    BY <1>1, <1>4, <2>2 DEF CheckActive
<1>5. CASE CancelRead(h)
  <2>1. CASE user.status = "PENDING" /\ Goto(h, "cancelFind")
    BY <1>2, <1>p, <2>1 DEF Knows
  <2> QED
    BY <1>1, <1>5, <2>1 DEF CancelRead
<1>6. CASE CancelFind(h)
  <2>1. task[h].pc = "cancelFind"
    BY <1>6 DEF CancelFind
  <2>2. CASE Goto(h, "finalize")
    BY <1>2, <1>i, <1>p, <2>1, <2>2 DEF Knows
  <2>3. CASE Goto(h, "reactivate")
    BY <1>2, <1>i, <1>p, <2>1, <2>3 DEF Knows, Standing
  <2> QED
    BY <1>1, <1>6, <2>2, <2>3 DEF CancelFind
<1> QED
  BY <1>3, <1>4, <1>5, <1>6

\* The sweeps list what is due and take the next of their list.
LEMMA Sweeps ==
  ASSUME IInv, NEW h \in Handlers, SweepDeletions(h) \/ SweepBans(h) \/ SweepNext(h)
  PROVE  IInv'
<1>q. UNCHANGED <<rows, masterKey, tokens>> /\ tickets' \subseteq Ticket
  BY DEF SweepDeletions, SweepBans, SweepNext, held, IInv, HeldOK
<1>1. CASE SweepDeletions(h)
  <2> DEFINE due == {i \in OpenRequests : request[i].due}
             c == Call("processPendingDeletionRequests", "next")
             r == [c EXCEPT !.todo = due]
  <2>1. due # {} /\ task' = [task EXCEPT ![h] = r]
    BY <1>1, Moves DEF SweepDeletions
  <2>2. due \subseteq Requests /\ due \subseteq Nat /\ OpenRequests # {}
    BY <2>1 DEF OpenRequests, Requests
  <2>3. user.status \in {"PENDING", "DELETED"}
    BY <2>2 DEF IInv, StatusJustified, RowsOK, Statuses
  <2>4. "processPendingDeletionRequests" \in OpKinds /\ "next" \in PCs
    BY DEF OpKinds, PCs
  <2>5. Started(c, "processPendingDeletionRequests", "next")
    BY <2>4, Called
  <2> HIDE DEF c, due
  <2>6. /\ r \in Task /\ r.op = "processPendingDeletionRequests" /\ r.pc = "next"
        /\ r.after = "idle" /\ r.todo = due /\ r.key = None
    BY <2>2, <2>5 DEF Started, Task
  <2> HIDE DEF r
  <2>7. Shaped(r) /\ Bound(r)
    BY <2>2, <2>6 DEF Shaped, Bound, At, Returns
  <2>8. Informed(r)
    BY <2>3, <2>6 DEF Informed, Knows
  <2> QED
    BY <1>q, <2>1, <2>6, <2>7, <2>8, QuietStep DEF Good
<1>2. CASE SweepBans(h)
  <2> DEFINE expired == {i \in DOMAIN open : Expired(open[i])}
             c == Call("processExpiredRestrictions", "next")
             r == [c EXCEPT !.todo = expired]
  <2>1. expired # {} /\ task' = [task EXCEPT ![h] = r]
    BY <1>2, Moves DEF SweepBans
  <2>2. open \in Seq(Restriction) /\ Len(open) <= 1
    BY DEF IInv, RowsOK, StatusJustified
  <2>3. expired \subseteq Nat /\ open # <<>> /\ Expired(open[1])
    BY <2>1, <2>2
  <2>4. ~Standing
    BY <2>3 DEF IInv, StatusJustified, Standing, Expired
  <2>5. "processExpiredRestrictions" \in OpKinds /\ "next" \in PCs
    BY DEF OpKinds, PCs
  <2>6. Started(c, "processExpiredRestrictions", "next")
    BY <2>5, Called
  <2> HIDE DEF c, expired
  <2>7. /\ r \in Task /\ r.op = "processExpiredRestrictions" /\ r.pc = "next"
        /\ r.after = "idle" /\ r.todo = expired /\ r.key = None
    BY <2>3, <2>6 DEF Started, Task
  <2> HIDE DEF r
  <2>8. Shaped(r) /\ Bound(r)
    BY <2>7 DEF Shaped, Bound, At, Returns
  <2>9. Informed(r)
    BY <2>4, <2>7 DEF Informed, Knows
  <2> QED
    BY <1>q, <2>1, <2>7, <2>8, <2>9, QuietStep DEF Good
<1>3. CASE SweepNext(h)
  <2>g. Good(task[h]) /\ task[h].pc = "next"
    BY <1>3 DEF IInv, TasksOK, SweepNext
  <2>1. CASE Finish(h)
    BY <1>q, <2>1, FinishStep
  <2>2. ASSUME NEW i \in task[h].todo, task[h].op = "processExpiredRestrictions",
               task' = [task EXCEPT ![h] = [task[h] EXCEPT
                 !.pc = "reactivate", !.after = "next", !.todo = @ \ {i}]]
        PROVE  IInv'
    <3> DEFINE r == [task[h] EXCEPT !.pc = "reactivate", !.after = "next",
                                    !.todo = @ \ {i}]
    <3>1. task' = [task EXCEPT ![h] = r]
      BY <2>2
    <3>2. /\ r \in Task /\ r.op = task[h].op /\ r.pc = "reactivate"
          /\ r.after = "next" /\ r.todo = task[h].todo \ {i}
          /\ r.stale = task[h].stale
      BY <2>g DEF Good, Task, PCs
    <3> HIDE DEF r
    <3>3. Shaped(r) /\ Bound(r)
      BY <2>g, <2>2, <3>2 DEF Good, Shaped, Bound, At, Returns
    <3>4. Informed(r)
      BY <2>g, <2>2, <3>2 DEF Good, Informed, Knows
    <3> QED
      BY <1>q, <3>1, <3>2, <3>3, <3>4, QuietStep DEF Good
  <2>3. ASSUME NEW i \in task[h].todo, task[h].op # "processExpiredRestrictions",
               task' = [task EXCEPT ![h] = [task[h] EXCEPT
                 !.pc = "finalize", !.after = "next", !.todo = @ \ {i}, !.row = i]]
        PROVE  IInv'
    <3> DEFINE r == [task[h] EXCEPT !.pc = "finalize", !.after = "next",
                                    !.todo = @ \ {i}, !.row = i]
    <3>1. task' = [task EXCEPT ![h] = r]
      BY <2>3
    <3>2. /\ task[h].op = "processPendingDeletionRequests"
          /\ task[h].todo \subseteq Requests /\ i \in Requests
      BY <2>g, <2>3 DEF Good, Shaped, At
    <3>3. /\ r \in Task /\ r.op = task[h].op /\ r.pc = "finalize"
          /\ r.after = "next" /\ r.todo = task[h].todo \ {i}
          /\ r.stale = task[h].stale
      BY <2>g, <3>2 DEF Good, Task, PCs
    <3> HIDE DEF r
    <3>4. Shaped(r) /\ Bound(r)
      BY <2>g, <3>2, <3>3 DEF Good, Shaped, Bound, At, Returns
    <3>5. Informed(r)
      BY <2>g, <2>3, <3>2, <3>3 DEF Good, Informed, Knows
    <3> QED
      BY <1>q, <3>1, <3>3, <3>4, <3>5, QuietStep DEF Good
  <2>4. CASE \E i \in task[h].todo : task' = [task EXCEPT ![h] =
          IF task[h].op = "processExpiredRestrictions"
          THEN [task[h] EXCEPT !.pc = "reactivate", !.after = "next", !.todo = @ \ {i}]
          ELSE [task[h] EXCEPT !.pc = "finalize", !.after = "next",
                               !.todo = @ \ {i}, !.row = i]]
    <3>1. PICK i \in task[h].todo : task' = [task EXCEPT ![h] =
            IF task[h].op = "processExpiredRestrictions"
            THEN [task[h] EXCEPT !.pc = "reactivate", !.after = "next", !.todo = @ \ {i}]
            ELSE [task[h] EXCEPT !.pc = "finalize", !.after = "next",
                                 !.todo = @ \ {i}, !.row = i]]
      BY <2>4
    <3> QED
      BY <2>2, <2>3, <3>1
  <2> QED
    BY <1>3, <2>1, <2>4 DEF SweepNext
<1> QED
  BY <1>1, <1>2, <1>3

\* Codes are counted, created and redeemed.
LEMMA InviteSteps ==
  ASSUME IInv, NEW h \in Handlers, CountCodes(h) \/ CreateCode(h) \/ Redeem(h)
  PROVE  IInv'
<1>g. Good(task[h]) /\ task[h] \in Task /\ task \in [Handlers -> Task]
  BY DEF IInv, TasksOK, Good
<1>r. code \in [Codes -> Code] /\ issuedCodes \in Nat /\ CodesCounted
  BY DEF IInv, RowsOK, CountOK
<1>c. /\ Counted \subseteq Handlers /\ IsFiniteSet(Counted)
      /\ Cardinality(Counted) \in Nat /\ Cardinality(Handlers) \in Nat
      /\ issuedCodes + Cardinality(Counted)
           <= INVITE_LIMIT + Cardinality(Handlers) - 1
  BY FS_Subset, FS_CardinalityType DEF Counted, IInv, CountOK
<1>1. CASE CountCodes(h)
  <2>1. task[h].pc = "countCodes" /\ UNCHANGED <<rows, masterKey, held>>
    BY <1>1 DEF CountCodes
  <2>2. CASE Finish(h)
    BY <2>1, <2>2, FinishStep DEF held, IInv, HeldOK
  <2>3. CASE issuedCodes < INVITE_LIMIT /\ Goto(h, "createCode")
    <3> DEFINE r == [task[h] EXCEPT !.pc = "createCode"]
    <3>1. task' = [task EXCEPT ![h] = r]
      BY <2>3, Moves
    <3>2. "createCode" \in PCs
      BY DEF PCs
    <3>3. /\ r \in Task /\ r.pc = "createCode" /\ r.op = task[h].op
          /\ r.after = task[h].after /\ r.password = task[h].password
          /\ r.key = task[h].key /\ r.todo = task[h].todo /\ r.stale = task[h].stale
      BY <1>g, <3>2, Moved
    <3> HIDE DEF r
    <3>4. Good(r)
      BY <1>g, <2>1, <3>3 DEF Good, Shaped, Bound, Informed, Knows, At
    <3>5. CountOK'
      <4>1. Counted' \subseteq Handlers
        BY DEF Counted
      <4>2. Cardinality(Counted') <= Cardinality(Handlers) /\ Cardinality(Counted') \in Nat
        BY <4>1, FS_Subset, FS_CardinalityType
      <4>3. CodesCounted'
        BY <1>r, <2>1 DEF CodesCounted, rows
      <4> QED
        BY <1>r, <1>c, <2>1, <2>3, <4>2, <4>3 DEF CountOK, INVITE_LIMIT, rows
    <3> QED
      BY <1>r, <2>1, <3>1, <3>3, <3>4, <3>5, CodeStep DEF rows
  <2> QED
    BY <1>1, <2>2, <2>3 DEF CountCodes
<1>2. ASSUME CreateCode(h) \/ Redeem(h)
      PROVE  /\ task' = [task EXCEPT ![h] = Idle] /\ Good(Idle) /\ Idle.pc = "idle"
             /\ UNCHANGED <<user, open, request, masterKey, held>>
             /\ Counted' = Counted \ {h}
  <2>1. task' = [task EXCEPT ![h] = Idle] /\ Good(Idle) /\ Idle.pc = "idle"
    BY <1>2, Moves, IdleGood DEF CreateCode, Redeem
  <2>2. Counted' = Counted \ {h}
    BY <1>g, <2>1 DEF Counted
  <2> QED
    BY <1>2, <2>1, <2>2 DEF CreateCode, Redeem
<1>3. CASE CreateCode(h)
  <2> DEFINE n == [exists |-> TRUE, valid |-> TRUE, usage |-> 1]
             there == {c \in Codes : code[c].exists}
  <2>1. PICK c \in Codes : ~code[c].exists /\ code' = [code EXCEPT ![c] = n]
    BY <1>3 DEF CreateCode
  <2>2. n \in Code /\ n.exists = TRUE
    BY DEF Code
  <2> HIDE DEF n
  <2>3. code' \in [Codes -> Code]
    BY <1>r, <2>1, <2>2
  <2>4. {d \in Codes : code'[d].exists} = there \cup {c} /\ c \notin there
    BY <1>r, <2>1, <2>2
  <2>5. IsFiniteSet(there) /\ Cardinality(there) = issuedCodes
    BY <1>r, FS_Subset DEF CodesCounted
  <2>6. issuedCodes' = issuedCodes + 1
    BY <1>3 DEF CreateCode
  <2> HIDE DEF there
  <2>7. CodesCounted'
    BY <2>4, <2>5, <2>6, FS_AddElement DEF CodesCounted
  <2>8. h \in Counted
    BY <1>3 DEF CreateCode, Counted
  <2>9. Cardinality(Counted \ {h}) = Cardinality(Counted) - 1
    BY <1>c, <2>8, FS_RemoveElement
  <2>10. CountOK'
    <3>1. Counted' = Counted \ {h}
      BY <1>2, <1>3
    <3>2. issuedCodes' + Cardinality(Counted') = issuedCodes + Cardinality(Counted)
      BY <1>c, <1>r, <2>6, <2>9, <3>1
    <3> QED
      BY <1>c, <2>7, <3>2 DEF CountOK, INVITE_LIMIT
  <2>11. issuedCodes' \in Nat
    BY <1>r, <2>6
  <2> QED
    BY <1>2, <1>3, <2>3, <2>10, <2>11, CodeStep
<1>4. CASE Redeem(h)
  <2>1. /\ task[h].pc = "redeem" /\ UNCHANGED issuedCodes
        /\ \/ code' = [code EXCEPT ![task[h].row].usage = @ - 1]
           \/ code' = code
    BY <1>4 DEF Redeem
  <2>2. \A c \in Codes : code'[c] \in Code /\ code'[c].exists = code[c].exists
    <3>1. CASE code' = code
      BY <1>r, <3>1
    <3>2. CASE code' = [code EXCEPT ![task[h].row].usage = @ - 1]
      <4> TAKE c \in Codes
      <4>1. code[c] \in Code
        BY <1>r
      <4>2. CASE c # task[h].row
        BY <1>r, <3>2, <4>1, <4>2
      <4>3. CASE c = task[h].row
        <5>1. code'[c] = [code[c] EXCEPT !.usage = @ - 1]
          BY <1>r, <3>2, <4>3
        <5> QED
          BY <4>1, <5>1 DEF Code
      <4> QED
        BY <4>2, <4>3
    <3> QED
      BY <2>1, <3>1, <3>2
  <2>3. code' \in [Codes -> Code]
    BY <1>r, <2>1, <2>2
  <2>4. {c \in Codes : code'[c].exists} = {c \in Codes : code[c].exists}
    BY <2>2
  <2>5. CodesCounted'
    BY <1>r, <2>1, <2>4 DEF CodesCounted
  <2>6. h \notin Counted
    BY <2>1 DEF Counted
  <2>7. Counted' = Counted
    BY <1>2, <1>4, <2>6
  <2>8. CountOK'
    BY <1>c, <2>1, <2>5, <2>7 DEF CountOK
  <2> QED
    BY <1>2, <1>4, <1>r, <2>1, <2>3, <2>8, CodeStep
<1> QED
  BY <1>1, <1>3, <1>4

-----------------------------------------------------------------------------
(* Failures and time *)

\* A handler that fails is as one that has finished.
LEMMA Failed ==
  ASSUME IInv, NEW h \in Handlers, Fail(h)
  PROVE  IInv'
  BY FinishStep DEF Fail, held, IInv, HeldOK

\* Time touches no handler, and neither the user nor what is counted.
LEMMA TimePasses ==
  ASSUME IInv, UNCHANGED <<user, code, issuedCodes, task>>,
         open' \in Seq(Restriction), request' \in [Requests -> Request],
         Len(open') = Len(open),
         \A i \in 1..Len(open) : open'[i].type = open[i].type,
         Standing' => Standing, OpenRequests' = OpenRequests,
         masterKey' \in BOOLEAN, tokens' \subseteq tokens, tickets' \subseteq tickets
  PROVE  IInv'
<1>1. RowsOK' /\ HeldOK' /\ LoginBindsPassword' /\ RefreshOnce'
  BY DEF IInv, RowsOK, HeldOK, LoginBindsPassword, RefreshOnce
<1>2. TasksOK'
  BY DEF IInv, TasksOK, Good, Shaped, Bound, Informed, Knows
<1>3. StatusJustified'
  BY DEF IInv, StatusJustified, RowsOK
<1>4. CountOK'
  <2>1. Counted' = Counted
    BY DEF Counted
  <2>2. CodesCounted'
    BY DEF IInv, CountOK, CodesCounted
  <2> QED
    BY <2>1, <2>2 DEF IInv, CountOK
<1> QED
  BY <1>1, <1>2, <1>3, <1>4 DEF IInv

LEMMA TimeSteps ==
  ASSUME IInv, Time
  PROVE  IInv'
<1>t. /\ user \in [status : Statuses, key : Keys, password : Passwords]
      /\ open \in Seq(Restriction) /\ request \in [Requests -> Request]
      /\ masterKey \in BOOLEAN
  BY DEF IInv, RowsOK, HeldOK
<1>1. CASE \E i \in Requests : RequestDue(i)
  <2>1. PICK i \in Requests : RequestDue(i)
    BY <1>1
  <2>2. \A j \in Requests : request'[j] \in Request /\ request'[j].state = request[j].state
    BY <1>t, <2>1 DEF RequestDue, Request
  <2>3. request' \in [Requests -> Request]
    BY <1>t, <2>1, <2>2 DEF RequestDue
  <2>4. OpenRequests' = OpenRequests
    BY <2>2 DEF OpenRequests
  <2>5. UNCHANGED <<user, open, code, issuedCodes, masterKey, held, task>>
    BY <2>1 DEF RequestDue
  <2>6. Standing' = Standing
    BY <2>5 DEF Standing
  <2> QED
    BY <1>t, <2>3, <2>4, <2>5, <2>6, TimePasses DEF held
<1>2. CASE \E i \in DOMAIN open : BanExpires(i)
  <2>1. PICK i \in DOMAIN open : BanExpires(i)
    BY <1>2
  <2>2. open' \in Seq(Restriction) /\ Len(open') = Len(open)
    <3>1. open' = [open EXCEPT ![i] = [open[i] EXCEPT !.expired = TRUE]]
      BY <2>1 DEF BanExpires
    <3>2. [open[i] EXCEPT !.expired = TRUE] \in Restriction
      <4>1. open[i] \in Restriction
        BY <1>t
      <4> QED
        BY <4>1 DEF Restriction
    <3> QED
      BY <1>t, <3>1, <3>2
  <2>3. \A j \in 1..Len(open) : /\ open'[j].type = open[j].type
                                /\ Expired(open[j]) => Expired(open'[j])
    <3> SUFFICES ASSUME NEW j \in 1..Len(open)
                 PROVE  /\ open'[j].type = open[j].type
                        /\ Expired(open[j]) => Expired(open'[j])
      OBVIOUS
    <3>1. open[j] \in Restriction /\ j \in DOMAIN open
      BY <1>t
    <3>2. CASE j = i
      <4>1. open'[j] = [open[j] EXCEPT !.expired = TRUE]
        BY <2>1, <3>1, <3>2 DEF BanExpires
      <4> QED
        BY <3>1, <4>1 DEF Restriction, Expired
    <3>3. CASE j # i
      BY <2>1, <3>1, <3>3 DEF BanExpires
    <3> QED
      BY <3>2, <3>3
  <2>4. UNCHANGED <<user, request, code, issuedCodes, masterKey, held, task>>
    BY <2>1 DEF BanExpires
  <2>5. Standing' => Standing
    <3>1. user.status = "BANNED" => open # <<>>
      BY DEF IInv, StatusJustified
    <3>2. user.status = "BANNED" => (Expired(open[1]) => Expired(open'[1]))
      BY <1>t, <2>3, <3>1
    <3> QED
      BY <2>4, <3>2 DEF Standing
  <2>6. OpenRequests' = OpenRequests
    BY <2>4 DEF OpenRequests
  <2> QED
    BY <1>t, <2>2, <2>3, <2>4, <2>5, <2>6, TimePasses DEF held
<1>3. CASE \/ \E t \in tokens : TokenExpires(t)
           \/ \E t \in tickets : TicketExpires(t)
           \/ MasterKeyExpires
  <2>1. /\ UNCHANGED <<rows, task>> /\ masterKey' \in BOOLEAN
        /\ tokens' \subseteq tokens /\ tickets' \subseteq tickets
    BY <1>3, <1>t DEF TokenExpires, TicketExpires, MasterKeyExpires, held
  <2>2. UNCHANGED <<user, open, request, code, issuedCodes, task>>
    BY <2>1 DEF rows
  <2>3. Standing' = Standing /\ OpenRequests' = OpenRequests
    BY <2>2 DEF Standing, OpenRequests
  <2> QED
    BY <1>t, <2>1, <2>2, <2>3, TimePasses
<1> QED
  BY <1>1, <1>2, <1>3 DEF Time

-----------------------------------------------------------------------------
(* The invariant *)

LEMMA InitHolds == Init => IInv
<1> SUFFICES ASSUME Init
             PROVE  IInv
  OBVIOUS
<1>1. RowsOK
  <2>1. Closed("none") \in Request /\ NoCode \in Code
    BY DEF Closed, Request, NoCode, Code
  <2>2. user \in [status : Statuses, key : Keys, password : Passwords]
    BY DEF Init, Registered, Statuses
  <2> QED
    BY <2>1, <2>2 DEF Init, Registered, RowsOK
<1>2. HeldOK /\ LoginBindsPassword
  BY DEF Init, Registered, HeldOK, Token, LoginBindsPassword
<1>3. \A h \in Handlers : task[h] = Idle
  BY DEF Init, Registered
<1>4. TasksOK
  <2>1. Good(Idle) /\ Idle \in Task
    BY IdleGood DEF Good
  <2> QED
    BY <1>3, <2>1 DEF Init, Registered, TasksOK
<1>5. StatusJustified
  <2>1. OpenRequests = {}
    BY DEF Init, Registered, OpenRequests, Closed
  <2> QED
    BY <2>1 DEF Init, Registered, StatusJustified
<1>6. RefreshOnce
  BY <1>3, IdleGood DEF RefreshOnce
<1>7. CountOK
  <2>1. Counted = {}
    BY <1>3, IdleGood DEF Counted
  <2>2. {c \in Codes : code[c].exists} = {}
    BY DEF Init, Registered, NoCode
  <2>3. Cardinality({}) = 0 /\ Cardinality(Handlers) \in Nat
    BY FS_EmptySet, FS_CardinalityType
  <2> QED
    <3>1. Cardinality(Counted) = 0 /\ issuedCodes = 0
      BY <2>1, <2>3 DEF Init, Registered
    <3>2. CodesCounted
      BY <2>2, <2>3, <3>1 DEF CodesCounted
    <3> QED
      BY <2>3, <3>1, <3>2 DEF CountOK, INVITE_LIMIT
<1> QED
  BY <1>1, <1>2, <1>4, <1>5, <1>6, <1>7 DEF IInv

LEMMA NextHolds == IInv /\ [Next]_vars => IInv'
<1> SUFFICES ASSUME IInv, [Next]_vars
             PROVE  IInv'
  OBVIOUS
<1>1. ASSUME NEW h \in Handlers, Arrive(h)
      PROVE  IInv'
  BY <1>1, LoginReads, Calls, HoldingCalls DEF Arrive
<1>2. ASSUME NEW h \in Handlers, Sweep(h)
      PROVE  IInv'
  BY <1>2, Sweeps DEF Sweep
<1>3. ASSUME NEW h \in Handlers, Proceed(h)
      PROVE  IInv'
  <2>1. CASE CheckBan(h) \/ Prepare(h) \/ FindRequest(h)
    BY <2>1, RepairReads
  <2>2. CASE Reactivate(h) \/ Finalize(h) \/ Drop(h)
    BY <2>2, RepairRest
  <2>3. CASE ReactivateCommit(h)
    BY <2>3, Reactivated
  <2>4. CASE DeleteCommit(h)
    BY <2>4, Deleted
  <2>5. CASE RequestCommit(h)
    BY <2>5, Requested
  <2>6. CASE LockCommit(h) \/ BanCommit(h)
    BY <2>6, Restricted
  <2>7. CASE CurrentRead(h) \/ AuthenticatedRead(h) \/ Store(h)
    BY <2>7, LoginRest
  <2>8. CASE Exchange(h) \/ Rotate(h) \/ ReplacePassword(h) \/ ResetPassword(h)
    BY <2>8, NewKeys
  <2>9. CASE Reissue(h)
    BY <2>9, Reissued
  <2>10. CASE Verify(h) \/ CheckActive(h) \/ CancelRead(h) \/ CancelFind(h)
    BY <2>10, Checks
  <2>11. CASE SweepNext(h)
    BY <2>11, Sweeps
  <2>12. CASE CountCodes(h) \/ CreateCode(h) \/ Redeem(h)
    BY <2>12, InviteSteps
  <2> QED
    BY <1>3, <2>1, <2>2, <2>3, <2>4, <2>5, <2>6, <2>7, <2>8, <2>9, <2>10,
       <2>11, <2>12 DEF Proceed
<1>4. ASSUME NEW h \in Handlers, Fail(h)
      PROVE  IInv'
  BY <1>4, Failed
<1>5. CASE Time
  BY <1>5, TimeSteps
<1>6. CASE UNCHANGED vars
  <2>1. UNCHANGED <<user, open, request, code, issuedCodes, task, masterKey,
                    tokens, tickets>>
    BY <1>6 DEF vars, rows, held
  <2>2. Standing' = Standing /\ OpenRequests' = OpenRequests
    BY <2>1 DEF Standing, OpenRequests
  <2> QED
    BY <2>1, <2>2, TimePasses DEF IInv, RowsOK, HeldOK
<1> QED
  BY <1>1, <1>2, <1>3, <1>4, <1>5, <1>6 DEF Next

\* However handlers, administrators and sweeps interleave, fail and time out,
\* the invariant holds.
THEOREM Invariance == Spec => []IInv
<1>1. Init => IInv
  BY InitHolds
<1>2. IInv /\ [Next]_vars => IInv'
  BY NextHolds
<1> QED
  BY <1>1, <1>2, PTL DEF Spec

-----------------------------------------------------------------------------
(* What it implies *)

\* The variables always hold rows, tokens and handlers of the declared
\* shapes: no read of auth.service.ts or users.service.ts finds a row that
\* another module has left half written.
THEOREM TypeCorrect == Spec => []TypeOK
<1>1. IInv => TypeOK
  BY DEF IInv, RowsOK, HeldOK, TasksOK, TypeOK
<1> QED
  BY <1>1, Invariance, PTL

\* Whatever order updateUserStatus, reactivateUser, requestAccountDeletion,
\* finalizePendingDeletion and the sweeps commit in, and wherever they fail,
\* the open restrictions and requests are those the status needs.
THEOREM StatusAlwaysJustified == Spec => []StatusJustified
<1>1. IInv => StatusJustified
  BY DEF IInv
<1> QED
  BY <1>1, Invariance, PTL

\* login and the internal login never hand out a session that a password
\* other than the account's has opened, a password change under them included.
THEOREM LoginBinds == Spec => []LoginBindsPassword
<1>1. IInv => LoginBindsPassword
  BY DEF IInv
<1> QED
  BY <1>1, Invariance, PTL

\* Of any number of refreshes with one token, at most one wins.
THEOREM RefreshWinsOnce == Spec => []RefreshOnce
<1>1. IInv => RefreshOnce
  BY DEF IInv
<1> QED
  BY <1>1, Invariance, PTL

\* generateInviteCode goes over its limit by one for each other handler at
\* most, for it counts before it creates; CountOK counts the handlers between
\* the two.
THEOREM InviteOverrunBounded == Spec => []InviteOverrun
<1>1. IInv => InviteOverrun
  <2> SUFFICES ASSUME IInv
               PROVE  InviteOverrun
    OBVIOUS
  <2>1. IsFiniteSet(Counted)
    BY FS_Subset DEF Counted
  <2>2. Cardinality(Counted) \in Nat /\ Cardinality(Handlers) \in Nat
    BY <2>1, FS_CardinalityType
  <2> QED
    BY <2>2 DEF IInv, RowsOK, CountOK, InviteOverrun, INVITE_LIMIT
<1> QED
  BY <1>1, Invariance, PTL

\* The counter of the user and the code rows agree, the deletion of the
\* account included: generateInviteCode and deleteUserDataAndMarkDeleted
\* write both.
THEOREM CodesAlwaysCounted == Spec => []CodesCounted
<1>1. IInv => CodesCounted
  BY DEF IInv, CountOK
<1> QED
  BY <1>1, Invariance, PTL

\* A lock or a ban yields to administrators alone and a deletion to nobody,
\* unless the status changed between a handler's check and its transaction.
THEOREM StandingKept == Spec => StandingHolds
<1> DEFINE Ended(h) ==
      /\ task[h].pc # "drop" /\ task'[h].pc = "drop"
      /\ \/ task[h].stale
         \/ task[h].op = "updateUserStatus" /\ user.status # "DELETED"
<1>1. ASSUME IInv, [Next]_vars, Standing, user'.status # user.status
      PROVE  \E h \in Handlers : Ended(h)
  <2>u. user \in [status : Statuses, key : Keys, password : Passwords]
    BY <1>1 DEF IInv, RowsOK
  <2>1. ASSUME NEW h \in Handlers, NEW status \in Statuses,
               SetStatus(h, status), task[h].pc # "drop",
               task[h].stale \/ (task[h].op = "updateUserStatus" /\ user.status # "DELETED")
        PROVE  \E g \in Handlers : Ended(g)
    <3>1. task[h] \in Task
      BY <1>1 DEF IInv, TasksOK
    <3>2. task'[h].pc = "drop"
      BY <2>1, <3>1 DEF SetStatus, Task
    <3> QED
      BY <2>1, <3>2
  <2>2. ASSUME NEW h \in Handlers, Arrive(h) \/ Sweep(h) \/ Fail(h)
        PROVE  UNCHANGED user
    BY <2>2 DEF Arrive, Sweep, Fail, rows, LoginRead, InternalLoginRead,
       ProfileRead, RefreshRead, LogoutCall, AdminLogoutRead, ClearRead,
       PasswordCall, RecoverCall, TicketRead, AdminRead, InviteCall, InviteRead,
       SweepDeletions, SweepBans
  <2>3. ASSUME Time \/ UNCHANGED vars
        PROVE  UNCHANGED user
    BY <2>3 DEF Time, vars, rows, RequestDue, BanExpires, TokenExpires,
       TicketExpires, MasterKeyExpires
  <2>4. ASSUME NEW h \in Handlers,
               \/ CheckBan(h) \/ Prepare(h) \/ FindRequest(h) \/ Reactivate(h)
               \/ Finalize(h) \/ Drop(h) \/ CurrentRead(h) \/ AuthenticatedRead(h)
               \/ Store(h) \/ Reissue(h) \/ Verify(h) \/ CheckActive(h)
               \/ CancelRead(h) \/ CancelFind(h) \/ SweepNext(h) \/ CountCodes(h)
               \/ CreateCode(h) \/ Redeem(h)
        PROVE  UNCHANGED user
    BY <2>4 DEF rows, CheckBan, Prepare, FindRequest, Reactivate, Finalize, Drop,
       CurrentRead, AuthenticatedRead, Store, Reissue, Verify, CheckActive,
       CancelRead, CancelFind, SweepNext, CountCodes, CreateCode, Redeem
  <2>5. ASSUME NEW h \in Handlers,
               Exchange(h) \/ Rotate(h) \/ ReplacePassword(h) \/ ResetPassword(h)
        PROVE  user'.status = user.status
    <3>1. CASE Exchange(h)
      BY <2>u, <3>1 DEF Exchange
    <3>2. CASE Rotate(h)
      BY <2>u, <3>2 DEF Rotate
    <3>3. CASE ReplacePassword(h) \/ ResetPassword(h)
      BY <2>u, <3>3 DEF ReplacePassword, ResetPassword, NewPassword
    <3> QED
      BY <2>5, <3>1, <3>2, <3>3
  <2>6. ASSUME NEW h \in Handlers
        PROVE  ~task[h].stale => Knows(task[h].op, task[h].pc)
    BY <1>1 DEF IInv, TasksOK, Good, Informed
  <2>7. ASSUME NEW h \in Handlers, ReactivateCommit(h)
        PROVE  \E g \in Handlers : Ended(g)
    <3>1. task[h].pc = "reactivateTxn" /\ SetStatus(h, "ACTIVE") /\ "ACTIVE" \in Statuses
      BY <2>7 DEF ReactivateCommit, Statuses
    <3>2. task[h].stale \/ (task[h].op = "updateUserStatus" /\ user.status # "DELETED")
      BY <1>1, <2>6, <3>1 DEF Knows
    <3> QED
      BY <2>1, <3>1, <3>2
  <2>8. ASSUME NEW h \in Handlers, DeleteCommit(h)
        PROVE  \E g \in Handlers : Ended(g)
    <3>1. task[h].pc = "deleteTxn" /\ SetStatus(h, "DELETED") /\ "DELETED" \in Statuses
      BY <2>8 DEF DeleteCommit, Statuses
    <3>2. user'.status = "DELETED"
      BY <2>u, <3>1 DEF SetStatus
    <3>3. task[h].stale \/ (task[h].op = "updateUserStatus" /\ user.status # "DELETED")
      BY <1>1, <2>6, <3>1, <3>2 DEF Knows, Standing
    <3> QED
      BY <2>1, <3>1, <3>3
  <2>9. ASSUME NEW h \in Handlers, RequestCommit(h)
        PROVE  \E g \in Handlers : Ended(g)
    <3>1. task[h].pc = "requestTxn" /\ SetStatus(h, "PENDING") /\ "PENDING" \in Statuses
      BY <2>9 DEF RequestCommit, Statuses
    <3>2. task[h].stale
      BY <1>1, <2>6, <3>1 DEF Knows, Standing
    <3> QED
      BY <2>1, <3>1, <3>2
  <2>10. ASSUME NEW h \in Handlers, LockCommit(h) \/ BanCommit(h)
         PROVE  \E g \in Handlers : Ended(g)
    <3>1. /\ task[h].pc \in {"lockTxn", "banTxn"}
          /\ SetStatus(h, "LOCKED") \/ SetStatus(h, "BANNED")
          /\ "LOCKED" \in Statuses /\ "BANNED" \in Statuses
      BY <2>10 DEF LockCommit, BanCommit, RestrictUser, Statuses
    <3>2. task[h].stale \/ (task[h].op = "updateUserStatus" /\ user.status # "DELETED")
      BY <2>6, <3>1 DEF Knows
    <3>3. task[h].pc # "drop"
      BY <3>1
    <3>4. CASE SetStatus(h, "LOCKED")
      BY <2>1, <3>1, <3>2, <3>3, <3>4
    <3>5. CASE SetStatus(h, "BANNED")
      BY <2>1, <3>1, <3>2, <3>3, <3>5
    <3> QED
      BY <3>1, <3>4, <3>5
  <2>11. ASSUME NEW h \in Handlers, Proceed(h)
         PROVE  \E g \in Handlers : Ended(g)
    <3> HIDE DEF Ended
    <3> QED
      BY <1>1, <2>11, <2>4, <2>5, <2>7, <2>8, <2>9, <2>10 DEF Proceed
  <2> HIDE DEF Ended
  <2> QED
    BY <1>1, <2>2, <2>3, <2>11 DEF Next
<1>2. IInv /\ [Next]_vars =>
        (Standing /\ user'.status # user.status => \E h \in Handlers : Ended(h))
  BY <1>1
<1>3. Spec => [][Standing /\ user'.status # user.status
                   => \E h \in Handlers : Ended(h)]_vars
  BY <1>2, Invariance, PTL DEF Spec
<1> QED
  BY <1>3 DEF StandingHolds
=============================================================================
