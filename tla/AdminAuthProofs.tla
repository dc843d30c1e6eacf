-------------------------- MODULE AdminAuthProofs --------------------------
(* The sessions of an administrator, for any number of requests side by    *)
(* side, of passwords, keys and logins.                                    *)
EXTENDS AdminAuth, TLAPS

PairType == [key : Nat, login : Nat, late : BOOLEAN]
Stages == {"idle", "log", "reread", "logout", "compare", "write"}
Texts == AdminPasswords \cup {""}
JobType == [at : Stages, key : Nat, login : Nat, late : BOOLEAN, old : Texts, new : Texts]

TypeOK ==
  /\ account \in [key : Nat, password : Texts]
  /\ keys \in Nat
  /\ tokens \in SUBSET PairType
  /\ job \in [Requests -> JobType]
  /\ log \in Seq(Texts)
  /\ ended \in Nat

\* A key that is drawn is nobody's yet: the next one is beyond all of these.
KeysDrawn ==
  /\ account.key <= keys
  /\ \A p \in tokens : p.key <= keys
  /\ \A r \in Requests : job[r].key <= keys

\* A login the present sessions may go back to.
Good(n, e, l, a) == n \in e + 1 .. Len(l) /\ l[n] = a.password

\* What a request has read still holds as long as nobody has changed the key.
LoginsHold ==
  \A r \in Requests : job[r].at = "log" /\ job[r].key = account.key => job[r].old = account.password
RenewalsHold ==
  \A r \in Requests :
    job[r].at = "reread" /\ job[r].key = account.key /\ ~job[r].late
      => Good(job[r].login, ended, log, account)

Inv == TypeOK /\ KeysDrawn /\ ended <= Len(log) /\ LoginsHold /\ RenewalsHold /\ AdminSessions

-----------------------------------------------------------------------------
LEMMA InitInv == InitAdminAuth => Inv
<1> SUFFICES ASSUME InitAdminAuth PROVE Inv
  OBVIOUS
<1> USE DEF InitAdminAuth
<1>1. NoJob \in JobType
  BY DEF NoJob, JobType, Stages, Texts
<1>2. PICK p \in AdminPasswords : account = [key |-> 1, password |-> p]
  OBVIOUS
<1>3. account \in [key : Nat, password : Texts] /\ account.key = 1
  BY <1>2 DEF Texts
<1>4. NoJob.key = 0 /\ NoJob.at = "idle"
  BY DEF NoJob
<1>5. TypeOK
  <2>1. log \in Seq(Texts)
    OBVIOUS
  <2>2. job \in [Requests -> JobType] /\ tokens \in SUBSET PairType
    BY <1>1
  <2> QED
    BY <1>3, <2>1, <2>2 DEF TypeOK
<1>6. KeysDrawn
  BY <1>3, <1>4 DEF KeysDrawn
<1>7. LoginsHold /\ RenewalsHold
  BY <1>4 DEF LoginsHold, RenewalsHold
<1> QED
  BY <1>5, <1>6, <1>7 DEF Inv, AdminSessions

\* A request that begins, goes on or ends without a change of the row, the
\* tokens and the log keeps what holds for the others.
LEMMA JobStep ==
  ASSUME Inv, NEW r \in Requests, NEW j \in JobType,
         job' = [job EXCEPT ![r] = j],
         UNCHANGED <<account, keys, tokens, log, ended>>,
         j.key <= keys,
         j.at = "log" /\ j.key = account.key => j.old = account.password,
         j.at /= "reread"
  PROVE  Inv'
<1>1. \A q \in Requests : job'[q] = IF q = r THEN j ELSE job[q]
  BY DEF Inv, TypeOK
<1>2. TypeOK'
  BY DEF Inv, TypeOK
<1>3. KeysDrawn'
  BY <1>1 DEF Inv, KeysDrawn
<1>4. LoginsHold'
  BY <1>1 DEF Inv, LoginsHold
<1>5. RenewalsHold'
  BY <1>1 DEF Inv, RenewalsHold, Good
<1>6. AdminSessions'
  BY DEF Inv, AdminSessions, Admitted
<1> QED
  BY <1>2, <1>3, <1>4, <1>5, <1>6 DEF Inv

\* A new key: no token is for it, and no request has read it.
LEMMA NewKeyStep ==
  ASSUME Inv, NEW r \in Requests, NEW j \in JobType, NEW password \in Texts,
         NewKey(password), job' = [job EXCEPT ![r] = j],
         UNCHANGED <<tokens, log>>,
         ended' \in Nat, ended' <= Len(log),
         j.key <= keys + 1, j.at /= "log",
         j.at = "reread" /\ ~j.late => Good(j.login, ended', log', account')
  PROVE  Inv'
<1> USE DEF NewKey
<1>1. \A q \in Requests : job'[q] = IF q = r THEN j ELSE job[q]
  BY DEF Inv, TypeOK
<1>2. account'.key = keys + 1 /\ keys' = keys + 1 /\ keys \in Nat
  BY DEF Inv, TypeOK
<1>3. /\ \A q \in Requests : job[q].key \in Nat /\ job[q].key <= keys
      /\ \A p \in tokens : p.key \in Nat /\ p.key <= keys
  BY DEF Inv, TypeOK, KeysDrawn, JobType, PairType
<1>4. TypeOK'
  BY <1>2 DEF Inv, TypeOK
<1>5. KeysDrawn'
  BY <1>1, <1>2, <1>3 DEF KeysDrawn, JobType
<1>6. \A q \in Requests : q /= r => job'[q].key /= account'.key
  BY <1>1, <1>2, <1>3
<1>7. LoginsHold'
  BY <1>1, <1>6 DEF LoginsHold
<1>8. RenewalsHold'
  BY <1>1, <1>6 DEF RenewalsHold
<1>9. AdminSessions'
  BY <1>2, <1>3 DEF AdminSessions, Admitted
<1> QED
  BY <1>4, <1>5, <1>7, <1>8, <1>9 DEF Inv

\* The entry is the last of the log, and the tokens are for the key that was read
\* with the password.
LEMMA LogLoginStep ==
  ASSUME Inv, NEW r \in Requests, LogLogin(r)
  PROVE  Inv'
<1> DEFINE n == Len(log) + 1
           p == Pair(job[r].key, n, FALSE)
<1>1. /\ TypeOK /\ job[r] \in JobType /\ ended <= Len(log)
      /\ job[r].at = "log" /\ log' = Append(log, job[r].old) /\ tokens' = tokens \cup {p}
      /\ job' = [job EXCEPT ![r] = NoJob] /\ UNCHANGED <<account, keys, ended>>
  BY DEF Inv, TypeOK, LogLogin, End
<1>2. Len(log) \in Nat /\ ended \in Nat /\ job[r].old \in Texts /\ log \in Seq(Texts)
  BY <1>1 DEF TypeOK, JobType
<1>3. Len(log') = n /\ log'[n] = job[r].old /\ \A i \in 1 .. Len(log) : log'[i] = log[i]
  BY <1>1, <1>2
<1>4. p \in PairType /\ p.key = job[r].key /\ p.login = n
  BY <1>1, <1>2 DEF Pair, PairType, JobType
<1> HIDE DEF p
<1>5. NoJob \in JobType /\ NoJob.key = 0 /\ NoJob.at = "idle"
  BY DEF NoJob, JobType, Stages, Texts
<1>6. \A q \in Requests : job'[q] = IF q = r THEN NoJob ELSE job[q]
  BY <1>1 DEF TypeOK
<1>7. TypeOK'
  BY <1>1, <1>2, <1>4, <1>5 DEF TypeOK
<1>8. KeysDrawn'
  BY <1>1, <1>4, <1>5, <1>6 DEF Inv, KeysDrawn, TypeOK
<1>9. LoginsHold'
  BY <1>1, <1>5, <1>6 DEF Inv, LoginsHold
<1>10. ASSUME NEW m, Good(m, ended, log, account) PROVE Good(m, ended', log', account')
  BY <1>1, <1>2, <1>3, <1>10 DEF Good
<1>11. RenewalsHold'
  BY <1>1, <1>5, <1>6, <1>10 DEF Inv, RenewalsHold
<1>12. job[r].key = account.key => Good(n, ended', log', account')
  <2>1. job[r].key = account.key => job[r].old = account.password
    BY <1>1 DEF Inv, LoginsHold
  <2>2. n \in ended + 1 .. n
    BY <1>1, <1>2
  <2> QED
    BY <1>1, <1>3, <2>1, <2>2 DEF Good
<1>13. ASSUME NEW q \in tokens', q.key = account.key, ~q.late PROVE Good(q.login, ended', log', account')
  <2>1. CASE q = p
    BY <1>4, <1>12, <1>13, <2>1
  <2>2. CASE q \in tokens
    BY <1>10, <1>13, <2>2 DEF Inv, AdminSessions, Admitted, Good
  <2> QED
    BY <1>1, <2>1, <2>2
<1>14. AdminSessions'
  BY <1>1, <1>13 DEF AdminSessions, Admitted, Good
<1> QED
  BY <1>1, <1>3, <1>2, <1>7, <1>8, <1>9, <1>11, <1>14 DEF Inv

\* The pair is as good as the renewal, unless the row shows another key by now.
LEMMA RereadStep ==
  ASSUME Inv, NEW r \in Requests, Reread(r)
  PROVE  Inv'
<1> DEFINE p == Pair(account.key, job[r].login, job[r].late \/ account.key /= job[r].key)
<1>1. /\ TypeOK /\ job[r] \in JobType /\ job[r].at = "reread" /\ tokens' = tokens \cup {p}
      /\ job' = [job EXCEPT ![r] = NoJob] /\ UNCHANGED <<account, keys, log, ended>>
  BY DEF Inv, TypeOK, Reread, End
<1>2. /\ p \in PairType /\ p.key = account.key /\ p.login = job[r].login
      /\ p.late = (job[r].late \/ account.key /= job[r].key)
  BY <1>1 DEF Pair, PairType, JobType, TypeOK
<1> HIDE DEF p
<1>3. NoJob \in JobType /\ NoJob.key = 0 /\ NoJob.at = "idle"
  BY DEF NoJob, JobType, Stages, Texts
<1>4. \A q \in Requests : job'[q] = IF q = r THEN NoJob ELSE job[q]
  BY <1>1 DEF TypeOK
<1>5. TypeOK'
  BY <1>1, <1>2, <1>3 DEF TypeOK
<1>6. KeysDrawn'
  BY <1>1, <1>2, <1>3, <1>4 DEF Inv, KeysDrawn, TypeOK
<1>7. LoginsHold'
  BY <1>1, <1>3, <1>4 DEF Inv, LoginsHold
<1>8. RenewalsHold'
  BY <1>1, <1>3, <1>4 DEF Inv, RenewalsHold, Good
<1>9. ~p.late => Good(p.login, ended, log, account)
  BY <1>1, <1>2 DEF Inv, RenewalsHold
<1>10. AdminSessions'
  BY <1>1, <1>2, <1>9 DEF Inv, AdminSessions, Admitted, Good
<1> QED
  BY <1>1, <1>5, <1>6, <1>7, <1>8, <1>10 DEF Inv

LEMMA NextInv == Inv /\ [NextAdminAuth]_adminAuthVars => Inv'
<1> SUFFICES ASSUME Inv, [NextAdminAuth]_adminAuthVars PROVE Inv'
  OBVIOUS
<1>0. /\ keys \in Nat /\ 0 <= keys /\ 0 <= keys + 1
      /\ \A r \in Requests : job[r] \in JobType
      /\ account.key \in Nat /\ account.key <= keys /\ account.password \in Texts
  BY DEF Inv, TypeOK, KeysDrawn
<1>1. NoJob \in JobType /\ NoJob.key = 0 /\ NoJob.at = "idle"
  BY DEF NoJob, JobType, Stages, Texts
<1>2. ASSUME NEW r \in Requests, NEW p \in AdminPasswords, ReadForLogin(r, p) PROVE Inv'
  <2> DEFINE j == [NoJob EXCEPT !.at = "log", !.key = account.key, !.old = p]
  <2>1. j \in JobType /\ j.key = account.key /\ j.at = "log" /\ j.old = p
    BY <1>0 DEF NoJob, JobType, Stages, Texts
  <2>2. p = account.password /\ job' = [job EXCEPT ![r] = j]
    BY <1>2 DEF ReadForLogin, Begin
  <2> QED
    BY <1>0, <1>2, <2>1, <2>2, JobStep DEF ReadForLogin
<1>3. ASSUME NEW r \in Requests, NEW p \in tokens, Exchange(r, p) PROVE Inv'
  <2> DEFINE j == [at |-> "reread", key |-> keys + 1, login |-> p.login, late |-> p.late,
                   old |-> "", new |-> ""]
  <2>1. p \in PairType
    BY DEF Inv, TypeOK
  <2>2. /\ j \in JobType /\ j.at = "reread" /\ j.key = keys + 1
        /\ j.login = p.login /\ j.late = p.late
    <3>1. keys + 1 \in Nat /\ p.login \in Nat /\ p.late \in BOOLEAN
      BY <1>0, <2>1 DEF PairType
    <3> QED
      BY <3>1 DEF JobType, Stages, Texts
  <2>3. /\ p.key = account.key /\ NewKey(account.password) /\ job' = [job EXCEPT ![r] = j]
        /\ UNCHANGED <<tokens, log, ended>>
    BY <1>3 DEF Exchange, Begin
  <2>4. account'.password = account.password
    BY <2>3 DEF NewKey
  <2>5. ~p.late => Good(p.login, ended, log, account)
    BY <2>3 DEF Inv, AdminSessions, Admitted, Good
  <2>6. ~j.late => Good(j.login, ended', log', account')
    BY <2>2, <2>3, <2>4, <2>5 DEF Good
  <2>7. ended' \in Nat /\ ended' <= Len(log)
    BY <2>3 DEF Inv, TypeOK
  <2>8. j.key <= keys + 1 /\ j.at /= "log"
    BY <1>0
  <2> HIDE DEF j
  <2> QED
    BY <1>0, <2>2, <2>3, <2>6, <2>7, <2>8, NewKeyStep
<1>4. ASSUME NEW r \in Requests, NEW p \in tokens, AskLogout(r, p) PROVE Inv'
  <2> DEFINE j == [NoJob EXCEPT !.at = "logout"]
  <2>1. j \in JobType /\ j.key = 0 /\ j.at = "logout"
    BY DEF NoJob, JobType, Stages, Texts
  <2>2. job' = [job EXCEPT ![r] = j] /\ UNCHANGED <<account, keys, tokens, log, ended>>
    BY <1>4 DEF AskLogout, Begin
  <2>3. j.key <= keys
    BY <1>0, <2>1
  <2> HIDE DEF j
  <2> QED
    BY <2>1, <2>2, <2>3, JobStep
<1>5. ASSUME NEW r \in Requests, NEW p \in tokens, NEW old \in AdminPasswords,
             NEW new \in AdminPasswords, AskChange(r, p, old, new)
      PROVE  Inv'
  <2> DEFINE j == [NoJob EXCEPT !.at = "compare", !.old = old, !.new = new]
  <2>1. j \in JobType /\ j.key = 0 /\ j.at = "compare"
    BY DEF NoJob, JobType, Stages, Texts
  <2>2. job' = [job EXCEPT ![r] = j] /\ UNCHANGED <<account, keys, tokens, log, ended>>
    BY <1>5 DEF AskChange, Begin
  <2>3. j.key <= keys
    BY <1>0, <2>1
  <2> HIDE DEF j
  <2> QED
    BY <2>1, <2>2, <2>3, JobStep
<1>6. ASSUME NEW r \in Requests, LogLogin(r) PROVE Inv'
  BY <1>6, LogLoginStep
<1>7. ASSUME NEW r \in Requests, Reread(r) PROVE Inv'
  BY <1>7, RereadStep
<1>8. ASSUME NEW r \in Requests, NEW password \in Texts, EndSessions(r, password) PROVE Inv'
  <2>1. NewKey(password) /\ job' = [job EXCEPT ![r] = NoJob] /\ ended' = Len(log)
        /\ UNCHANGED <<tokens, log>>
    BY <1>8 DEF EndSessions, End
  <2>2. ended' \in Nat /\ ended' <= Len(log)
    BY <2>1 DEF Inv, TypeOK
  <2> QED
    BY <1>0, <1>1, <2>1, <2>2, NewKeyStep
<1>9. ASSUME NEW r \in Requests, AdminLogout(r) PROVE Inv'
  BY <1>0, <1>8, <1>9 DEF AdminLogout
<1>10. ASSUME NEW r \in Requests, Compare(r) PROVE Inv'
  <2> DEFINE j == [job[r] EXCEPT !.at = "write"]
  <2>1. j \in JobType /\ j.key = job[r].key /\ j.at = "write"
    BY <1>0 DEF JobType, Stages
  <2>2. job[r].key <= keys
    BY DEF Inv, KeysDrawn
  <2>3. CASE job[r].old = account.password
    <3>1. job' = [job EXCEPT ![r] = j]
      BY <1>10, <2>3 DEF Compare
    <3> QED
      BY <1>10, <2>1, <2>2, <3>1, JobStep DEF Compare
  <2>4. CASE job[r].old /= account.password
    BY <1>0, <1>1, <1>10, <2>4, JobStep DEF Compare, End
  <2> QED
    BY <2>3, <2>4
<1>11. ASSUME NEW r \in Requests, ChangePassword(r) PROVE Inv'
  <2>1. job[r].new \in Texts
    BY <1>0 DEF JobType
  <2> QED
    BY <1>8, <1>11, <2>1 DEF ChangePassword
<1>12. ASSUME NEW r \in Requests, RequestFails(r) PROVE Inv'
  <2>1. job' = [job EXCEPT ![r] = NoJob] /\ UNCHANGED <<account, keys, tokens, log, ended>>
    BY <1>12 DEF RequestFails, End
  <2> QED
    BY <1>0, <1>1, <2>1, JobStep
<1>13. CASE UNCHANGED adminAuthVars
  BY <1>13 DEF adminAuthVars, Inv, TypeOK, KeysDrawn, LoginsHold, RenewalsHold, AdminSessions,
               Good, Admitted
<1> QED
  BY <1>2, <1>3, <1>4, <1>5, <1>6, <1>7, <1>9, <1>10, <1>11, <1>12, <1>13 DEF NextAdminAuth

\* For every number of requests, whatever they overtake: a session that works
\* goes back to a login with the present password, made after the last logout or
\* change of password, unless one of those came between a renewal's update and
\* its second look at the row (admin-auth.service.ts, login, refreshToken).
THEOREM AdminSessionsHold == SpecAdminAuth => []AdminSessions
<1>1. Inv => AdminSessions
  BY DEF Inv
<1> QED
  BY <1>1, InitInv, NextInv, PTL DEF SpecAdminAuth
=============================================================================
