----------------------------- MODULE Accounts ------------------------------
(***************************************************************************)
(* The life of one account: its sessions (auth, auth/internal), its status *)
(* (users, admin/users) and the invite codes it hands out. Request         *)
(* handlers, administrators and the two hourly sweeps interleave at every  *)
(* await over                                                              *)
(*   MariaDB   the User row, its UserRestriction, UserDeletionRequest and  *)
(*             InviteCode rows;                                            *)
(*   Redis     masterkey:<userId>, the decrypted master key.               *)
(*                                                                         *)
(* A transaction of this code only writes. It locks the User row and the   *)
(* index ranges of the rows it closes until it commits, so that two of     *)
(* them are serialised or one is rolled back: each is one step here, and   *)
(* may fail. What was read before the transaction may be stale in it.      *)
(*                                                                         *)
(* A password stands for its bcrypt hash and for the master key wrapped    *)
(* with it, which are only ever written together. A JWT is the session key *)
(* it carries, and a token pair also remembers, for the properties alone,  *)
(* which password opened the session. Times are bits: expired, due.        *)
(***************************************************************************)
EXTENDS Integers, Sequences, FiniteSets

CONSTANTS
  Handlers,      \* handlers and sweeps that can run at the same time
  Keys,          \* session keys (randomUUID)
  Passwords,
  Codes,         \* invite codes of the user
  None,          \* no key, no password, no row
  FirstKey,      \* the session key the account was registered with
  FirstPassword, \* and its password
  MaxRequests,   \* bound on the deletion requests of the user
  Ops,           \* the operations the environment calls
  Faulty         \* whether a handler may fail or die at any await

OpKinds == {"login", "internalLogin", "profile", "refreshToken", "logout",
  "changePassword", "recoverPassword", "reactivateAccount",
  "requestAccountDeletion", "generateInviteCode", "register",
  "updateUserStatus", "forceLogoutUser", "changeUsername", "clearUserData",
  "processPendingDeletionRequests", "processExpiredRestrictions"}

ASSUME AccountAssumption ==
  /\ IsFiniteSet(Handlers) /\ IsFiniteSet(Codes)
  /\ FirstKey \in Keys
  /\ FirstPassword \in Passwords
  /\ MaxRequests \in Nat
  /\ Ops \subseteq OpKinds
  /\ Faulty \in BOOLEAN
  /\ None \notin Keys \cup Passwords \cup Codes \cup Nat
  /\ Codes \cap Nat = {}

VARIABLES
  user,         \* the User row
  open,         \* UserRestriction rows not resolved, oldest first
  request,      \* UserDeletionRequest rows
  code,         \* InviteCode rows of the user
  issuedCodes,
  masterKey,    \* masterkey:<userId> is in Redis
  tokens,       \* token pairs in the hands of clients
  tickets,      \* reactivation tokens in the hands of clients
  task          \* the handlers

rows == <<user, open, request, code, issuedCodes>>
held == <<tokens, tickets>>
vars == <<rows, masterKey, held, task>>

-----------------------------------------------------------------------------
(* Values *)

Statuses == {"ACTIVE", "LOCKED", "BANNED", "PENDING", "DELETED"}
Requests == 1..MaxRequests

Restriction == [type : {"LOCK", "BAN"}, permanent : BOOLEAN, expired : BOOLEAN]
Expired(r) == r.type = "BAN" /\ ~r.permanent /\ r.expired

\* Whether a request is due matters, and is kept, only while it is open.
Request == [state : {"none", "open", "cancelled", "processed"}, due : BOOLEAN]
Closed(state) == [state |-> state, due |-> FALSE]

Code == [exists : BOOLEAN, valid : BOOLEAN, usage : Int]
NoCode == [exists |-> FALSE, valid |-> FALSE, usage |-> 0]
Usable(c) == code[c].exists /\ code[c].valid /\ code[c].usage > 0

Token == [key : Keys, password : Passwords, by : {"login", "refresh"}]
Ticket == [key : Keys, row : Requests]

\* after: where a call of usersService returns to. stale: the status has
\* changed under the handler since it started (for the properties alone).
PCs == {"idle", "prepare", "find", "current", "checkBan", "authenticate",
  "store", "exchange", "reissue", "rotate", "verify", "replace", "reset",
  "cancelRead", "cancelFind", "reactivate", "reactivateTxn", "finalize",
  "deleteTxn", "checkActive", "requestTxn", "lockTxn", "banTxn", "drop",
  "next", "countCodes", "createCode", "redeem"}
Task == [op : OpKinds \cup {"none"}, pc : PCs, after : PCs,
         password : Passwords \cup {None}, key : Keys \cup {None},
         row : Requests \cup Codes \cup {None}, todo : SUBSET Nat,
         stale : BOOLEAN]
Idle == [op |-> "none", pc |-> "idle", after |-> "idle", password |-> None,
         key |-> None, row |-> None, todo |-> {}, stale |-> FALSE]

-----------------------------------------------------------------------------
(* Handlers *)

Call(op, pc) == [Idle EXCEPT !.op = op, !.pc = pc]

Begin(h, r) ==
  /\ task[h].pc = "idle" /\ r.op \in Ops
  /\ task' = [task EXCEPT ![h] = r]

Goto(h, pc) == task' = [task EXCEPT ![h].pc = pc]
Finish(h) == task' = [task EXCEPT ![h] = Idle]

\* A call of usersService returns to its caller.
Return(r) == IF r.after = "idle" THEN Idle
             ELSE [r EXCEPT !.pc = r.after, !.after = "idle"]

\* JwtStrategy.validate
Authorised == user.status = "ACTIVE" /\ \E t \in tokens : t.key = user.key

\* randomUUID: a key nobody has ever seen.
Unused(k) ==
  /\ k # user.key
  /\ \A t \in tokens \cup tickets : t.key # k
  /\ \A h \in Handlers : task[h].key # k

\* h commits a change of the status; it drops the master key next.
SetStatus(h, status) ==
  \E k \in Keys :
    /\ Unused(k)
    /\ user' = [user EXCEPT !.status = status, !.key = k]
    /\ task' = [g \in Handlers |->
         IF g = h THEN [task[g] EXCEPT !.pc = "drop"]
         ELSE IF task[g].pc = "idle" THEN task[g]
         ELSE [task[g] EXCEPT !.stale = TRUE]]

-----------------------------------------------------------------------------
(* Deletion requests, restrictions and invite codes *)

OpenRequests == {i \in Requests : request[i].state = "open"}

\* getActiveDeletionRequest: the newest that is open.
ActiveRequest ==
  IF OpenRequests = {} THEN None
  ELSE CHOOSE i \in OpenRequests : \A j \in OpenRequests : j <= i

\* cancelActiveDeletionRequests
CancelActive ==
  request' = [i \in Requests |-> IF i \in OpenRequests THEN Closed("cancelled")
                                 ELSE request[i]]

\* setInviteCodesValidity
SetValidity(valid) ==
  code' = [c \in Codes |-> IF code[c].exists /\ code[c].usage > 0
                           THEN [code[c] EXCEPT !.valid = valid] ELSE code[c]]

-----------------------------------------------------------------------------
(* usersService.assertUserCanLogin, with the status as it is read now: a   *)
(* handler that wants to go on at r.pc goes there at once, by way of a     *)
(* repair, or is refused.                                                  *)

Asserted(r) ==
  CASE user.status = "ACTIVE"  -> r
    [] user.status = "PENDING" -> [r EXCEPT !.pc = "prepare", !.after = r.pc]
    [] user.status = "BANNED"  -> [r EXCEPT !.pc = "checkBan", !.after = r.pc]
    [] user.status \in {"LOCKED", "DELETED"} -> Idle

\* Mutant of CheckBan: any ban is lifted at login.
CheckBanAnyTime(h) ==
  /\ task[h].pc = "checkBan"
  /\ Goto(h, "reactivate")
  /\ UNCHANGED <<rows, masterKey, held>>

\* An expired ban, the newest, is lifted by whoever tries to log in.
CheckBan(h) ==
  /\ task[h].pc = "checkBan"
  /\ IF \E i \in DOMAIN open :
          /\ Expired(open[i])
          /\ \A j \in DOMAIN open : j > i => open[j].type # "BAN"
     THEN Goto(h, "reactivate") ELSE Finish(h)
  /\ UNCHANGED <<rows, masterKey, held>>

\* preparePendingDeletionLogin
Prepare(h) ==
  /\ task[h].pc = "prepare"
  /\ task' = [task EXCEPT ![h] =
       IF user.status = "PENDING" THEN [@ EXCEPT !.pc = "find"] ELSE Return(@)]
  /\ UNCHANGED <<rows, masterKey, held>>

\* A due request is finalised and the login refused; login itself answers an
\* open one with a reactivation token, for the session key it read first.
FindRequest(h) ==
  LET a == ActiveRequest IN
  /\ task[h].pc = "find"
  /\ \/ /\ a = None
        /\ Goto(h, "reactivate")
        /\ UNCHANGED tickets
     \/ /\ a # None /\ request[a].due
        /\ task' = [task EXCEPT ![h].pc = "finalize", ![h].after = "idle",
                                ![h].row = a]
        /\ UNCHANGED tickets
     \/ /\ a # None /\ ~request[a].due
        /\ tickets' = IF task[h].after = "current"
                      THEN tickets \cup {[key |-> task[h].key, row |-> a]}
                      ELSE tickets
        /\ Finish(h)
  /\ UNCHANGED <<rows, masterKey, tokens>>

-----------------------------------------------------------------------------
(* reactivateUser and the deletion of an account *)

Reactivate(h) ==
  /\ task[h].pc = "reactivate"
  /\ IF user.status = "DELETED" THEN Finish(h) ELSE Goto(h, "reactivateTxn")
  /\ UNCHANGED <<rows, masterKey, held>>

\* Mutant of ReactivateCommit: it cancels the newest request, not all that
\* are open.
ReactivateCommitOne(h) ==
  /\ task[h].pc = "reactivateTxn"
  /\ open' = <<>>
  /\ request' = IF ActiveRequest = None THEN request
                ELSE [request EXCEPT ![ActiveRequest] = Closed("cancelled")]
  /\ SetStatus(h, "ACTIVE")
  /\ SetValidity(TRUE)
  /\ UNCHANGED <<issuedCodes, masterKey, held>>

ReactivateCommit(h) ==
  /\ task[h].pc = "reactivateTxn"
  /\ open' = <<>>
  /\ CancelActive
  /\ SetStatus(h, "ACTIVE")
  /\ SetValidity(TRUE)
  /\ UNCHANGED <<issuedCodes, masterKey, held>>

\* finalizePendingDeletion
Finalize(h) ==
  /\ task[h].pc = "finalize"
  /\ task' = [task EXCEPT ![h] =
       IF user.status = "DELETED" THEN Return(@)
       ELSE [@ EXCEPT !.pc = "deleteTxn"]]
  /\ UNCHANGED <<rows, masterKey, held>>

\* Mutant of DeleteCommit: the deletion forgets the counter.
DeleteCommitKeepingCount(h) ==
  /\ task[h].pc = "deleteTxn"
  /\ open' = <<>>
  /\ IF task[h].row = None THEN CancelActive
     ELSE request' = [request EXCEPT ![task[h].row] = Closed("processed")]
  /\ code' = [c \in Codes |-> NoCode]
  /\ SetStatus(h, "DELETED")
  /\ UNCHANGED <<issuedCodes, masterKey, held>>

\* deleteUserDataAndMarkDeleted: the sweep closes its request, whatever has
\* become of it; an administrator cancels the open ones.
DeleteCommit(h) ==
  /\ task[h].pc = "deleteTxn"
  /\ open' = <<>>
  /\ IF task[h].row = None THEN CancelActive
     ELSE request' = [request EXCEPT ![task[h].row] = Closed("processed")]
  /\ code' = [c \in Codes |-> NoCode]
  /\ issuedCodes' = 0
  /\ SetStatus(h, "DELETED")
  /\ UNCHANGED <<masterKey, held>>

\* redis.del of the master key, after the transaction.
Drop(h) ==
  /\ task[h].pc = "drop"
  /\ masterKey' = FALSE
  /\ task' = [task EXCEPT ![h] = Return(@)]
  /\ UNCHANGED <<rows, held>>

-----------------------------------------------------------------------------
(* Logging in *)

\* The password is right when it is compared.
LoginRead(h) ==
  /\ Begin(h, [Call("login", "prepare") EXCEPT
       !.after = "current", !.password = user.password, !.key = user.key])
  /\ UNCHANGED <<rows, masterKey, held>>

CurrentRead(h) ==
  /\ task[h].pc = "current"
  /\ task' = [task EXCEPT ![h] = Asserted([@ EXCEPT !.pc = "authenticate"])]
  /\ UNCHANGED <<rows, masterKey, held>>

InternalLoginRead(h) ==
  /\ Begin(h, Asserted([Call("internalLogin", "authenticate") EXCEPT
       !.password = user.password]))
  /\ UNCHANGED <<rows, masterKey, held>>

\* Mutant of AuthenticatedRead: the master key as the
\* first read saw it is unwrapped.
AuthenticatedReadStale(h) ==
  LET r == [task[h] EXCEPT !.pc = "store", !.key = user.key] IN
  /\ task[h].pc = "authenticate"
  /\ task' = [task EXCEPT ![h] =
       IF r.op = "internalLogin" THEN Asserted(r) ELSE r]
  /\ UNCHANGED <<rows, masterKey, held>>

\* The user as read now is the one the tokens are for, if the password that
\* was given still unwraps its master key; the internal login asserts again.
AuthenticatedRead(h) ==
  LET r == [task[h] EXCEPT !.pc = "store",
       !.key = IF user.password = task[h].password THEN user.key ELSE None] IN
  /\ task[h].pc = "authenticate"
  /\ task' = [task EXCEPT ![h] =
       IF r.op = "internalLogin" THEN Asserted(r) ELSE r]
  /\ UNCHANGED <<rows, masterKey, held>>

Store(h) ==
  /\ task[h].pc = "store"
  /\ IF task[h].key = None THEN UNCHANGED <<masterKey, tokens>>
     ELSE /\ masterKey' = TRUE
          /\ tokens' = tokens \cup {[key |-> task[h].key, by |-> "login",
                                     password |-> task[h].password]}
  /\ Finish(h)
  /\ UNCHANGED <<rows, tickets>>

\* The internal validate and profile only assert.
ProfileRead(h) ==
  /\ user.status # "ACTIVE"
  /\ Begin(h, Asserted(Call("profile", "idle")))
  /\ UNCHANGED <<rows, masterKey, held>>

-----------------------------------------------------------------------------
(* Sessions *)

RefreshRead(h) ==
  /\ \E t \in tokens :
       Begin(h, Asserted([Call("refreshToken", "exchange") EXCEPT
         !.key = t.key, !.password = t.password]))
  /\ UNCHANGED <<rows, masterKey, held>>

\* Mutant of Exchange: refresh rotates by user id alone.
ExchangeAnyKey(h) ==
  /\ task[h].pc = "exchange"
  /\ \E k \in Keys : Unused(k) /\ user' = [user EXCEPT !.key = k]
  /\ Goto(h, "reissue")
  /\ UNCHANGED <<open, request, code, issuedCodes, masterKey, held>>

\* updateMany on the session key of the token.
Exchange(h) ==
  /\ task[h].pc = "exchange"
  /\ \/ /\ user.key = task[h].key
        /\ \E k \in Keys : Unused(k) /\ user' = [user EXCEPT !.key = k]
        /\ Goto(h, "reissue")
     \/ /\ user.key # task[h].key
        /\ Finish(h)
        /\ UNCHANGED user
  /\ UNCHANGED <<open, request, code, issuedCodes, masterKey, held>>

\* The tokens are for the session key the user has by then.
Reissue(h) ==
  /\ task[h].pc = "reissue"
  /\ tokens' = tokens \cup {[key |-> user.key, by |-> "refresh",
                             password |-> task[h].password]}
  /\ Finish(h)
  /\ UNCHANGED <<rows, masterKey, tickets>>

\* logout, forceLogoutUser and changeUsername
LogoutCall(h) ==
  /\ Authorised
  /\ Begin(h, Call("logout", "rotate"))
  /\ UNCHANGED <<rows, masterKey, held>>

AdminLogoutRead(h) ==
  /\ \E op \in {"forceLogoutUser", "changeUsername"} : Begin(h, Call(op, "rotate"))
  /\ UNCHANGED <<rows, masterKey, held>>

\* clearUserData drops the master key with the rest of the user's Redis data.
ClearRead(h) ==
  /\ Begin(h, Call("clearUserData", "drop"))
  /\ UNCHANGED <<rows, masterKey, held>>

Rotate(h) ==
  /\ task[h].pc = "rotate"
  /\ \E k \in Keys : Unused(k) /\ user' = [user EXCEPT !.key = k]
  /\ Goto(h, "drop")
  /\ UNCHANGED <<open, request, code, issuedCodes, masterKey, held>>

\* Bound: a deletion is asked for only while rows are left for all that ask.
RoomToRequest ==
  Cardinality({g \in Handlers : task[g].op = "requestAccountDeletion"})
    < Cardinality({i \in Requests : request[i].state = "none"})

PasswordCall(h) ==
  /\ Authorised
  /\ \E op \in {"changePassword", "requestAccountDeletion"} :
       /\ op = "requestAccountDeletion" => RoomToRequest
       /\ Begin(h, [Call(op, "verify") EXCEPT !.password = user.password])
  /\ UNCHANGED <<rows, masterKey, held>>

Verify(h) ==
  /\ task[h].pc = "verify"
  /\ \/ user.password # task[h].password /\ Finish(h)
     \/ /\ user.password = task[h].password
        /\ task[h].op = "changePassword"
        /\ Goto(h, "replace")
     \/ /\ user.password = task[h].password
        /\ task[h].op = "requestAccountDeletion"
        /\ IF user.status = "DELETED" THEN Finish(h) ELSE Goto(h, "checkActive")
  /\ UNCHANGED <<rows, masterKey, held>>

NewPassword == \E p \in Passwords, k \in Keys :
  Unused(k) /\ user' = [user EXCEPT !.password = p, !.key = k]

ReplacePassword(h) ==
  /\ task[h].pc = "replace"
  /\ NewPassword
  /\ Goto(h, "drop")
  /\ UNCHANGED <<open, request, code, issuedCodes, masterKey, held>>

\* recoverPassword leaves the master key in Redis.
RecoverCall(h) ==
  /\ Begin(h, Call("recoverPassword", "reset"))
  /\ UNCHANGED <<rows, masterKey, held>>

ResetPassword(h) ==
  /\ task[h].pc = "reset"
  /\ NewPassword
  /\ Finish(h)
  /\ UNCHANGED <<open, request, code, issuedCodes, masterKey, held>>

-----------------------------------------------------------------------------
(* Asking for deletion, and taking it back *)

CheckActive(h) ==
  /\ task[h].pc = "checkActive"
  /\ IF ActiveRequest = None THEN Goto(h, "requestTxn") ELSE Finish(h)
  /\ UNCHANGED <<rows, masterKey, held>>

RequestCommit(h) ==
  /\ task[h].pc = "requestTxn"
  /\ \E i \in Requests :
       /\ request[i].state = "none"
       /\ \A j \in Requests : j < i => request[j].state # "none"
       /\ request' = [request EXCEPT ![i] = [state |-> "open", due |-> FALSE]]
  /\ SetStatus(h, "PENDING")
  /\ UNCHANGED <<open, code, issuedCodes, masterKey, held>>

\* reactivateAccount checks the session key and the status ...
TicketRead(h) ==
  /\ user.status = "PENDING"
  /\ \E t \in tickets :
       /\ t.key = user.key
       /\ Begin(h, [Call("reactivateAccount", "cancelRead") EXCEPT
            !.key = t.key, !.row = t.row])
  /\ UNCHANGED <<rows, masterKey, held>>

\* ... and reactivatePendingAccount the status again and the request.
CancelRead(h) ==
  /\ task[h].pc = "cancelRead"
  /\ IF user.status = "PENDING" THEN Goto(h, "cancelFind") ELSE Finish(h)
  /\ UNCHANGED <<rows, masterKey, held>>

CancelFind(h) ==
  LET a == ActiveRequest IN
  /\ task[h].pc = "cancelFind"
  /\ \/ a # task[h].row /\ Finish(h)
     \/ a = task[h].row /\ request[a].due /\ Goto(h, "finalize")
     \/ a = task[h].row /\ ~request[a].due /\ Goto(h, "reactivate")
  /\ UNCHANGED <<rows, masterKey, held>>

-----------------------------------------------------------------------------
(* updateUserStatus of the administrators, and the hourly sweeps *)

AdminRead(h) ==
  /\ \/ /\ user.status # "DELETED"
        /\ \E pc \in {"reactivate", "lockTxn", "banTxn"} :
             Begin(h, Call("updateUserStatus", pc))
     \/ Begin(h, Call("updateUserStatus", "deleteTxn"))
  /\ UNCHANGED <<rows, masterKey, held>>

\* The restriction replaces whatever was open.
RestrictUser(h, status, r) ==
  /\ CancelActive
  /\ open' = <<r>>
  /\ SetStatus(h, status)
  /\ SetValidity(FALSE)
  /\ UNCHANGED <<issuedCodes, masterKey, held>>

LockCommit(h) ==
  /\ task[h].pc = "lockTxn"
  /\ RestrictUser(h, "LOCKED", [type |-> "LOCK", permanent |-> FALSE, expired |-> FALSE])

BanCommit(h) ==
  /\ task[h].pc = "banTxn"
  /\ \E permanent \in BOOLEAN :
       RestrictUser(h, "BANNED",
                [type |-> "BAN", permanent |-> permanent, expired |-> FALSE])

\* Mutant of SweepDeletions: the sweep lists the requests of active users.
SweepDeletionsOfActive(h) ==
  LET due == {i \in OpenRequests : request[i].due} IN
  /\ due # {} /\ user.status = "ACTIVE"
  /\ Begin(h, [Call("processPendingDeletionRequests", "next") EXCEPT !.todo = due])
  /\ UNCHANGED <<rows, masterKey, held>>

\* The sweeps list what is due, then work through the list.
SweepDeletions(h) ==
  LET due == {i \in OpenRequests : request[i].due} IN
  /\ due # {}
  /\ Begin(h, [Call("processPendingDeletionRequests", "next") EXCEPT !.todo = due])
  /\ UNCHANGED <<rows, masterKey, held>>

\* Mutant of SweepBans: the sweep lists the permanent bans.
SweepBansPermanent(h) ==
  LET expired == {i \in DOMAIN open : open[i].type = "BAN" /\ open[i].permanent} IN
  /\ expired # {}
  /\ Begin(h, [Call("processExpiredRestrictions", "next") EXCEPT !.todo = expired])
  /\ UNCHANGED <<rows, masterKey, held>>

SweepBans(h) ==
  LET expired == {i \in DOMAIN open : Expired(open[i])} IN
  /\ expired # {}
  /\ Begin(h, [Call("processExpiredRestrictions", "next") EXCEPT !.todo = expired])
  /\ UNCHANGED <<rows, masterKey, held>>

SweepNext(h) ==
  LET r == task[h] IN
  /\ r.pc = "next"
  /\ \/ r.todo = {} /\ Finish(h)
     \/ \E i \in r.todo : task' = [task EXCEPT ![h] =
          IF r.op = "processExpiredRestrictions"
          THEN [r EXCEPT !.pc = "reactivate", !.after = "next", !.todo = @ \ {i}]
          ELSE [r EXCEPT !.pc = "finalize", !.after = "next", !.todo = @ \ {i},
                         !.row = i]]
  /\ UNCHANGED <<rows, masterKey, held>>

-----------------------------------------------------------------------------
(* Invite codes *)

INVITE_LIMIT == 2

InviteCall(h) ==
  /\ Authorised
  /\ Begin(h, Call("generateInviteCode", "countCodes"))
  /\ UNCHANGED <<rows, masterKey, held>>

CountCodes(h) ==
  /\ task[h].pc = "countCodes"
  /\ IF user.status = "ACTIVE" /\ issuedCodes < INVITE_LIMIT
     THEN Goto(h, "createCode") ELSE Finish(h)
  /\ UNCHANGED <<rows, masterKey, held>>

CreateCode(h) ==
  /\ task[h].pc = "createCode"
  /\ \E c \in Codes :
       /\ ~code[c].exists /\ \A g \in Handlers : task[g].row # c
       /\ code' = [code EXCEPT ![c] = [exists |-> TRUE, valid |-> TRUE, usage |-> 1]]
  /\ issuedCodes' = issuedCodes + 1
  /\ Finish(h)
  /\ UNCHANGED <<user, open, request, masterKey, held>>

\* Somebody registers with a code of the user; the account this makes is
\* another one.
InviteRead(h) ==
  /\ \E c \in Codes :
       Usable(c) /\ Begin(h, [Call("register", "redeem") EXCEPT !.row = c])
  /\ UNCHANGED <<rows, masterKey, held>>

Redeem(h) ==
  /\ task[h].pc = "redeem"
  /\ code' = IF code[task[h].row].exists
             THEN [code EXCEPT ![task[h].row].usage = @ - 1] ELSE code
  /\ Finish(h)
  /\ UNCHANGED <<user, open, request, issuedCodes, masterKey, held>>

-----------------------------------------------------------------------------
(* Failures and time *)

\* A call of a handler throws, its transaction is rolled back or the process
\* dies: whatever it has not done yet is not done.
Fail(h) ==
  /\ Faulty /\ task[h].pc # "idle"
  /\ Finish(h)
  /\ UNCHANGED <<rows, masterKey, held>>

RequestDue(i) ==
  /\ request[i].state = "open" /\ ~request[i].due
  /\ request' = [request EXCEPT ![i].due = TRUE]
  /\ UNCHANGED <<user, open, code, issuedCodes, masterKey, held, task>>

BanExpires(i) ==
  /\ open[i].type = "BAN" /\ ~open[i].permanent /\ ~open[i].expired
  /\ open' = [open EXCEPT ![i].expired = TRUE]
  /\ UNCHANGED <<user, request, code, issuedCodes, masterKey, held, task>>

TokenExpires(t) ==
  /\ tokens' = tokens \ {t}
  /\ UNCHANGED <<rows, masterKey, tickets, task>>

TicketExpires(t) ==
  /\ tickets' = tickets \ {t}
  /\ UNCHANGED <<rows, masterKey, tokens, task>>

MasterKeyExpires ==
  /\ masterKey /\ masterKey' = FALSE
  /\ UNCHANGED <<rows, held, task>>

-----------------------------------------------------------------------------
(* The specification *)

\* The account as register leaves it, its first session begun.
Registered(password) ==
  /\ user = [status |-> "ACTIVE", key |-> FirstKey, password |-> password]
  /\ open = <<>>
  /\ request = [i \in Requests |-> Closed("none")]
  /\ code = [c \in Codes |-> NoCode]
  /\ issuedCodes = 0
  /\ masterKey = TRUE
  /\ tokens = {[key |-> FirstKey, password |-> password, by |-> "login"]}
  /\ tickets = {}
  /\ task = [h \in Handlers |-> Idle]

Init == Registered(FirstPassword)

Arrive(h) ==
  \/ LoginRead(h) \/ InternalLoginRead(h) \/ ProfileRead(h) \/ RefreshRead(h)
  \/ LogoutCall(h) \/ AdminLogoutRead(h) \/ ClearRead(h)
  \/ PasswordCall(h) \/ RecoverCall(h)
  \/ TicketRead(h) \/ AdminRead(h) \/ InviteCall(h) \/ InviteRead(h)

Sweep(h) == SweepDeletions(h) \/ SweepBans(h)

Proceed(h) ==
  \/ CheckBan(h) \/ Prepare(h) \/ FindRequest(h) \/ Reactivate(h)
  \/ ReactivateCommit(h) \/ Finalize(h) \/ DeleteCommit(h) \/ Drop(h)
  \/ CurrentRead(h) \/ AuthenticatedRead(h) \/ Store(h) \/ Exchange(h)
  \/ Reissue(h) \/ Rotate(h) \/ Verify(h) \/ ReplacePassword(h)
  \/ ResetPassword(h) \/ CheckActive(h) \/ RequestCommit(h) \/ CancelRead(h)
  \/ CancelFind(h) \/ LockCommit(h) \/ BanCommit(h) \/ SweepNext(h)
  \/ CountCodes(h) \/ CreateCode(h) \/ Redeem(h)

Time ==
  \/ \E i \in Requests : RequestDue(i)
  \/ \E i \in DOMAIN open : BanExpires(i)
  \/ \E t \in tokens : TokenExpires(t)
  \/ \E t \in tickets : TicketExpires(t)
  \/ MasterKeyExpires

Next ==
  \/ \E h \in Handlers : Arrive(h) \/ Sweep(h) \/ Proceed(h) \/ Fail(h)
  \/ Time

Spec == Init /\ [][Next]_vars

\* Every await is answered and every cron hour comes. A slot the sweep can
\* run in comes free again and again, hence the strong fairness.
Fairness ==
  /\ \A h \in Handlers : WF_vars(Proceed(h))
  /\ SF_vars(\E h \in Handlers : SweepDeletions(h))
  /\ SF_vars(\E h \in Handlers : SweepBans(h))
  /\ \A t \in Token : WF_vars(t \in tokens /\ TokenExpires(t))
  /\ \A t \in Ticket : WF_vars(t \in tickets /\ TicketExpires(t))

LiveSpec == Spec /\ Fairness

-----------------------------------------------------------------------------
(* Properties *)

\* The variables hold rows, tokens and handlers of the declared shapes.
TypeOK ==
  /\ user \in [status : Statuses, key : Keys, password : Passwords]
  /\ open \in Seq(Restriction)
  /\ request \in [Requests -> Request]
  /\ code \in [Codes -> Code]
  /\ issuedCodes \in Nat
  /\ masterKey \in BOOLEAN
  /\ tokens \subseteq Token
  /\ tickets \subseteq Ticket
  /\ task \in [Handlers -> Task]

\* updateUserStatus, reactivateUser, requestAccountDeletion and the sweeps
\* each write the status and the rows that justify it from different modules:
\* whatever order they commit in, the open rows are those the status needs.
\* A lock or a ban has exactly its own restriction open (assertUserCanLogin
\* takes its reason and its end from there), a pending account has a request
\* the sweep will find, and an active one has nothing open that could still
\* lock, ban or delete it.
StatusJustified ==
  /\ Len(open) <= 1
  /\ user.status \in {"ACTIVE", "DELETED"} => open = <<>>
  /\ user.status = "LOCKED" => open # <<>> /\ open[1].type = "LOCK"
  /\ user.status = "BANNED" => open # <<>> /\ open[1].type = "BAN"
  /\ user.status \in {"ACTIVE", "LOCKED", "BANNED"} => OpenRequests = {}
  /\ user.status = "PENDING" => OpenRequests # {}

\* A login answers with a session key it read before a password change, or
\* one it read after: a token pair that came from a login and is accepted was
\* opened with the password the account has now.
LoginBindsPassword ==
  \A t \in tokens : t.by = "login" /\ t.key = user.key
                      => t.password = user.password

\* Two refreshes with the same token never both win, and the token they were
\* made with is dead before the new pair is written.
RefreshOnce ==
  \A h \in Handlers : task[h].pc = "reissue" =>
    /\ task[h].key # user.key
    /\ \A g \in Handlers \ {h} :
         task[g].pc = "reissue" => task[g].key # task[h].key

\* generateInviteCode counts before its transaction: handlers that have
\* counted the same codes overshoot the limit, by one each at most.
InviteOverrun == issuedCodes <= INVITE_LIMIT + Cardinality(Handlers) - 1

\* The counter and the rows are written together: no code is left uncounted,
\* the deletion of the account included.
CodesCounted == Cardinality({c \in Codes : code[c].exists}) = issuedCodes

\* Who may end which status, as long as nothing changed under the handler: a
\* lock or a ban that has not expired yields to administrators alone, and a
\* deleted account to nobody. (assertUserCanLogin, reactivatePendingAccount,
\* reactivateUser, finalizePendingDeletion and both sweeps look at the status
\* or at rows that follow it.)
Standing ==
  \/ user.status = "DELETED"
  \/ user.status = "LOCKED"
  \/ user.status = "BANNED" /\ ~Expired(open[1])

StandingHolds ==
  [][ Standing /\ user'.status # user.status =>
        \E h \in Handlers :
          /\ task[h].pc # "drop" /\ task'[h].pc = "drop"
          /\ \/ task[h].stale
             \/ task[h].op = "updateUserStatus" /\ user.status # "DELETED" ]_vars

\* A pending account is deleted or taken back: the sweep finds every due
\* request and finishes the deletion although the login path may be doing the
\* same. (processPendingDeletionRequests, finalizePendingDeletion)
DueDeletionHappens ==
  \A i \in Requests :
    (request[i].state = "open" /\ request[i].due)
      ~> (user.status = "DELETED" \/ request[i].state # "open")

\* A temporary ban ends. (processExpiredRestrictions)
ExpiredBanLifted ==
  (user.status = "BANNED" /\ Expired(open[1]))
    ~> ~(user.status = "BANNED" /\ Expired(open[1]))

-----------------------------------------------------------------------------
(* What the documentation says and the code does not do *)

\* "kick old sessions" (auth.service.ts:367, 403): once the password has been
\* changed, no session opened with the old one is accepted. Reissue hands out
\* the session key of the moment, not the one its exchange wrote.
OldPasswordShutOut ==
  \A t \in tokens : t.key = user.key => t.password = user.password

\* The master key is gone from Redis once an account is locked or banned, but
\* for the time the administrator's handler needs to drop it. A login that
\* was let in before stores it afterwards.
RestrictedHasNoMasterKey ==
  user.status \in {"LOCKED", "BANNED"} /\ masterKey
    => \E h \in Handlers : task[h].pc = "drop"

\* Whoever rotates the session key goes on to drop the master key.
\* refreshToken and recoverPassword do not.
RotationDropsMasterKey ==
  [][user'.key # user.key => \E h \in Handlers : task'[h].pc = "drop"]_vars

\* "Deleted users cannot be reactivated": reactivateUser reads the status
\* before its transaction, which then writes ACTIVE over DELETED.
DeletedForGood ==
  [][user.status = "DELETED" => user'.status = "DELETED"]_vars

\* A deletion request that was taken back in time is not processed. The sweep
\* has it in its list, and finalizePendingDeletion looks at the status alone.
CancelledStaysCancelled ==
  [][\A i \in Requests : request[i].state = "cancelled"
                            => request'[i].state = "cancelled"]_vars

\* A user's code lets one person in: register reads the code before its
\* transaction, which takes one use off without looking at it again.
CodeUsedOnce == \A c \in Codes : code[c].usage >= 0

\* A user generates two codes at most: generateInviteCode counts before its
\* transaction.
InviteLimit == issuedCodes <= INVITE_LIMIT

\* A locked or banned user has no usable code: one whose generateInviteCode
\* was let in before the lock commits after it.
RestrictedHasNoCodes ==
  user.status \in {"LOCKED", "BANNED"} => \A c \in Codes : ~Usable(c)
=============================================================================
