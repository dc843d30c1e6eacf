----------------------------- MODULE AdminAuth -----------------------------
(***************************************************************************)
(* The sessions of one administrator.  All of them share the session key   *)
(* of his row: a login signs tokens for it, a renewal, a logout or a new   *)
(* password draws another.  A request reads the row, in its guard and in   *)
(* its handler, and writes it later without looking again, but for the     *)
(* renewal, which takes only the key of its token.  Left out: how long a   *)
(* token lasts (its holder may as well not use it) and what the log says of*)
(* the address a login comes from.                                         *)
(***************************************************************************)
EXTENDS Naturals, Sequences

CONSTANTS AdminPasswords, Requests,
          MaxKeys,   \* bound: session keys drawn
          MaxLogins  \* bound: logins in the log

ASSUME AdminAssumption == MaxKeys \in Nat /\ MaxLogins \in Nat

VARIABLES account, \* AdminUser: sessionKey and, for passwordHash, the password
          keys,    \* keys drawn, all of them different
          tokens,  \* pairs of tokens signed
          job,     \* Requests -> the request under way
          log,     \* history: of each admin_login entry the password that was checked
          ended    \* history: logins made before the last logout or change of password

adminAuthVars == <<account, keys, tokens, job, log, ended>>

\* A pair is known by its key.  History: the login it goes back to, and whether
\* the key was changed again during a renewal it comes from.
Pair(key, login, late) == [key |-> key, login |-> login, late |-> late]
NoJob == [at |-> "idle", key |-> 0, login |-> 0, late |-> FALSE, old |-> "", new |-> ""]

InitAdminAuth ==
  /\ \E p \in AdminPasswords : account = [key |-> 1, password |-> p]
  /\ keys = 1 /\ tokens = {} /\ log = <<>> /\ ended = 0
  /\ job = [r \in Requests |-> NoJob]

Begin(r, j) == job[r].at = "idle" /\ job' = [job EXCEPT ![r] = j]
End(r) == job' = [job EXCEPT ![r] = NoJob]

\* The update of the row with a randomUUID.
NewKey(password) ==
  /\ keys < MaxKeys /\ keys' = keys + 1
  /\ account' = [key |-> keys + 1, password |-> password]

\* validate of the access token's strategy; a refresh token's asks no database.
Admitted(p) == p.key = account.key

-----------------------------------------------------------------------------
\* login: a wrong password is refused and changes nothing.
ReadForLogin(r, password) ==
  /\ password = account.password
  /\ Begin(r, [NoJob EXCEPT !.at = "log", !.key = account.key, !.old = password])
  /\ UNCHANGED <<account, keys, tokens, log, ended>>

\* Mutant of LogLogin: the tokens are for the key the row has now.
LogLoginNow(r) ==
  /\ job[r].at = "log" /\ Len(log) < MaxLogins
  /\ log' = Append(log, job[r].old)
  /\ tokens' = tokens \cup {Pair(account.key, Len(log) + 1, FALSE)}
  /\ End(r) /\ UNCHANGED <<account, keys, ended>>

\* The entry in the log, and getTokens for the row that was read before it.
LogLogin(r) ==
  /\ job[r].at = "log" /\ Len(log) < MaxLogins
  /\ log' = Append(log, job[r].old)
  /\ tokens' = tokens \cup {Pair(job[r].key, Len(log) + 1, FALSE)}
  /\ End(r) /\ UNCHANGED <<account, keys, ended>>

\* refreshToken: updateMany where the key is the token's; otherwise "Access Denied".
Exchange(r, p) ==
  /\ p.key = account.key
  /\ NewKey(account.password)
  /\ Begin(r, [at |-> "reread", key |-> keys + 1, login |-> p.login, late |-> p.late,
              old |-> "", new |-> ""])
  /\ UNCHANGED <<tokens, log, ended>>

\* Its findUnique: the pair is for whatever key the row has by now.
Reread(r) ==
  /\ job[r].at = "reread"
  /\ tokens' = tokens \cup {Pair(account.key, job[r].login,
                                 job[r].late \/ account.key /= job[r].key)}
  /\ End(r) /\ UNCHANGED <<account, keys, log, ended>>

\* logout and changePassword behind their guard.
AskLogout(r, p) ==
  /\ Admitted(p) /\ Begin(r, [NoJob EXCEPT !.at = "logout"])
  /\ UNCHANGED <<account, keys, tokens, log, ended>>
AskChange(r, p, old, new) ==
  /\ Admitted(p) /\ Begin(r, [NoJob EXCEPT !.at = "compare", !.old = old, !.new = new])
  /\ UNCHANGED <<account, keys, tokens, log, ended>>

\* A key that is drawn without looking at the one before.
EndSessions(r, password) ==
  /\ NewKey(password) /\ ended' = Len(log)
  /\ End(r) /\ UNCHANGED <<tokens, log>>

AdminLogout(r) == job[r].at = "logout" /\ EndSessions(r, account.password)

\* The old password is compared with the row as it is by now.
Compare(r) ==
  /\ job[r].at = "compare"
  /\ IF job[r].old = account.password THEN job' = [job EXCEPT ![r].at = "write"] ELSE End(r)
  /\ UNCHANGED <<account, keys, tokens, log, ended>>

ChangePassword(r) == job[r].at = "write" /\ EndSessions(r, job[r].new)

\* External: the database refuses a query, or the server is restarted.
RequestFails(r) ==
  /\ job[r].at /= "idle" /\ End(r)
  /\ UNCHANGED <<account, keys, tokens, log, ended>>

NextAdminAuth ==
  \E r \in Requests :
    \/ \E p \in AdminPasswords : ReadForLogin(r, p)
    \/ \E p \in tokens : \/ Exchange(r, p) \/ AskLogout(r, p)
                         \/ \E old, new \in AdminPasswords : AskChange(r, p, old, new)
    \/ LogLogin(r) \/ Reread(r) \/ AdminLogout(r) \/ Compare(r) \/ ChangePassword(r)
    \/ RequestFails(r)

SpecAdminAuth == InitAdminAuth /\ [][NextAdminAuth]_adminAuthVars

-----------------------------------------------------------------------------
\* A session that works goes back to a login in the log, made with the present
\* password and after the last logout or change of password; but a renewal
\* that one of these overtakes hands out the key it has set, because it reads
\* the row once more (admin-auth.service.ts, refreshToken).
AdminSessions ==
  \A p \in tokens :
    Admitted(p) /\ ~p.late => /\ p.login \in ended + 1 .. Len(log)
                              /\ log[p.login] = account.password
=============================================================================
