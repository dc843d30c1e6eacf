---------------------------- MODULE Registration ----------------------------
(***************************************************************************)
(* How a visitor becomes a user: the invite codes admins give out          *)
(* (AdminInvitesService), the three steps of RegisterForm and the requests *)
(* of AuthService behind them.  All codes have one text, which may be      *)
(* given out again after its code was deleted.  Phrase 0 is the empty one  *)
(* of a page that never got any.                                           *)
(***************************************************************************)
EXTENDS Integers, FiniteSets, Sequences

CONSTANTS
  Visitors,    \* people with a page of the form
  Names,       \* user names
  MaxCodes,    \* bounds the invite codes
  Tasks,       \* requests of admins about codes
  MaxUses,     \* bounds the uses a code is created with
  MaxPhrases,  \* bounds the recovery phrases
  Reloads      \* bounds the pages that are left

ASSUME RegistrationAssumption ==
  MaxCodes \in Nat /\ MaxUses \in Nat \ {0} /\ MaxPhrases \in Nat \ {0} /\ Reloads \in Nat

VARIABLES
  code,      \* InviteCode rows as they were created: state, usage, and the uses they had at first
  codeLog,   \* what the last audit entry of a code says of it
  task,      \* what an admin's request has found
  page,      \* the form of a visitor
  made,      \* the recovery phrases generated so far
  noted,     \* the phrases a visitor has written down or saved
  requests,  \* registrations the server is at work on
  accounts,  \* what was committed
  reloads    \* pages left so far

visitorVars == <<page, made, noted, reloads>>
inviteVars == <<code, codeLog, task>>
registrationVars == <<inviteVars, visitorVars, requests, accounts>>

NewPage == [step |-> "credentials", busy |-> "no", name |-> "none", phrase |-> 0]

InitRegistration ==
  /\ code = <<>> /\ codeLog = <<>>
  /\ task = [t \in Tasks |-> 0]
  /\ page = [v \in Visitors |-> NewPage]
  /\ made = 0
  /\ noted = [v \in Visitors |-> {}]
  /\ requests = {} /\ accounts = {} /\ reloads = 0

-----------------------------------------------------------------------------
(* Admins *)

Codes == DOMAIN code
Exists(c) == code[c].state /= "deleted"

\* A row and its audit entry are written in one transaction, unless there is a
\* code with this text.
CreateCode(state, n) ==
  /\ Len(code) < MaxCodes /\ \A c \in Codes : ~Exists(c)
  /\ code' = Append(code, [state |-> state, uses |-> n, granted |-> n])
  /\ codeLog' = Append(codeLog, state)
  /\ UNCHANGED <<task, visitorVars, requests, accounts>>

FindCode(t, c) ==
  /\ task[t] = 0 /\ Exists(c)
  /\ task' = [task EXCEPT ![t] = c]
  /\ UNCHANGED <<code, codeLog, visitorVars, requests, accounts>>

\* Mutant of Logged: an entry is written outside the transaction.
LoggedAnyhow(c) == TRUE

\* Without the row the transaction is rolled back, and the entry with it.
Logged(c) == Exists(c)

SetCode(t, state) ==
  LET c == task[t] IN
  /\ c /= 0
  /\ code' = IF Exists(c) THEN [code EXCEPT ![c].state = state] ELSE code
  /\ codeLog' = IF Logged(c) THEN [codeLog EXCEPT ![c] = state] ELSE codeLog
  /\ task' = [task EXCEPT ![t] = 0]
  /\ UNCHANGED <<visitorVars, requests, accounts>>

DeleteCode(t) == SetCode(t, "deleted")
UpdateCode(t) == \E state \in {"on", "off"} : SetCode(t, state)
InviteStep(t) == (\E c \in Codes : FindCode(t, c)) \/ DeleteCode(t) \/ UpdateCode(t)

-----------------------------------------------------------------------------
(* Visitors *)

Usable(c) == code[c].state = "on" /\ code[c].uses > 0
Taken(name) == \E a \in accounts : a.name = name

SetPage(v, p) == page' = [page EXCEPT ![v] = p]
AtPage(v, step) == page[v].step = step /\ page[v].busy = "no"
VisitorsOnly == UNCHANGED <<inviteVars, requests, accounts>>

\* preValidate, asked by handleCredentialsNext
Validate(v, name) ==
  /\ AtPage(v, "credentials")
  /\ (\E c \in Codes : Usable(c)) /\ ~Taken(name)
  /\ SetPage(v, [page[v] EXCEPT !.name = name, !.busy = "fetching"])
  /\ UNCHANGED <<made, noted, reloads>> /\ VisitorsOnly

Regenerate(v) ==
  /\ AtPage(v, "phrase")
  /\ SetPage(v, [page[v] EXCEPT !.busy = "fetching"])
  /\ UNCHANGED <<made, noted, reloads>> /\ VisitorsOnly

\* fetchPhrase; the form goes on from the credentials whether it failed or not.
FetchPhrase(v, ok) ==
  /\ page[v].busy = "fetching"
  /\ ok => made < MaxPhrases
  /\ made' = IF ok THEN made + 1 ELSE made
  /\ SetPage(v, [page[v] EXCEPT !.step = "phrase", !.busy = "no",
                                !.phrase = IF ok THEN made + 1 ELSE @])
  /\ UNCHANGED <<noted, reloads>> /\ VisitorsOnly

\* Saving is possible while the next phrase is being fetched.
NotePhrase(v) ==
  /\ page[v].step = "phrase"
  /\ noted' = [noted EXCEPT ![v] = @ \cup {page[v].phrase}]
  /\ UNCHANGED <<page, made, reloads>> /\ VisitorsOnly

Continue(v) ==
  /\ AtPage(v, "phrase") /\ SetPage(v, [page[v] EXCEPT !.step = "verify"])
  /\ UNCHANGED <<made, noted, reloads>> /\ VisitorsOnly

Back(v) ==
  /\ AtPage(v, "verify") /\ SetPage(v, [page[v] EXCEPT !.step = "phrase"])
  /\ UNCHANGED <<made, noted, reloads>> /\ VisitorsOnly

\* Without words there is nothing to compare with, and the handler throws.
Matches(v, typed) == page[v].phrase /= 0 /\ typed = page[v].phrase

\* The visitor fills in words of what was noted.
Verify(v, typed) ==
  /\ AtPage(v, "verify") /\ typed \in noted[v] /\ Matches(v, typed)
  /\ SetPage(v, [page[v] EXCEPT !.busy = "registering"])
  /\ requests' = requests \cup {[by |-> v, name |-> page[v].name, phrase |-> page[v].phrase,
                                 pc |-> "sent", code |-> 0]}
  /\ UNCHANGED <<made, noted, reloads, inviteVars, accounts>>

\* The form is opened anew, whatever the page is waiting for.
Reload(v) ==
  /\ page[v] /= NewPage /\ reloads < Reloads
  /\ reloads' = reloads + 1
  /\ SetPage(v, NewPage)
  /\ UNCHANGED <<made, noted>> /\ VisitorsOnly

VisitorStep(v) ==
  \/ \E name \in Names : Validate(v, name)
  \/ Regenerate(v) \/ (\E ok \in BOOLEAN : FetchPhrase(v, ok)) \/ NotePhrase(v)
  \/ Continue(v) \/ Back(v) \/ (\E p \in noted[v] : Verify(v, p)) \/ Reload(v)

-----------------------------------------------------------------------------
(* register *)

Waits(r) == /\ page[r.by].busy = "registering"
            /\ page[r.by].name = r.name /\ page[r.by].phrase = r.phrase

\* The form shows the error, or the dashboard.
AnswerRegister(r, step) ==
  /\ requests' = requests \ {r}
  /\ IF Waits(r) THEN SetPage(r.by, [page[r.by] EXCEPT !.busy = "no", !.step = step])
                 ELSE UNCHANGED page
  /\ UNCHANGED <<made, noted, reloads, inviteVars>>

FindInvite(r, c) ==
  /\ r.pc = "sent" /\ Usable(c)
  /\ requests' = (requests \ {r}) \cup {[r EXCEPT !.pc = "found", !.code = c]}
  /\ UNCHANGED <<inviteVars, visitorVars, accounts>>

RefuseInvite(r) ==
  /\ r.pc = "sent" /\ \A c \in Codes : ~Usable(c)
  /\ AnswerRegister(r, "verify") /\ UNCHANGED accounts

\* One transaction: the user, and the use of the code by its id.
CommitUser(r) ==
  /\ r.pc = "found" /\ ~Taken(r.name) /\ Exists(r.code)
  /\ accounts' = accounts \cup {[by |-> r.by, name |-> r.name,
                                 phrase |-> r.phrase, code |-> r.code]}
  /\ code' = [code EXCEPT ![r.code].uses = @ - 1]
  /\ requests' = (requests \ {r}) \cup {[r EXCEPT !.pc = "committed"]}
  /\ UNCHANGED <<codeLog, task, visitorVars>>

\* Refused by the database: always, where the name or the code is gone.
CommitFails(r) ==
  /\ r.pc = "found" /\ AnswerRegister(r, "verify") /\ UNCHANGED accounts

\* The master key goes to Redis, the tokens to the page, which asks for the user.
Registered(r) ==
  /\ r.pc = "committed" /\ AnswerRegister(r, "in") /\ UNCHANGED accounts

\* Redis, the server or the network fails after the commit.
FailsLate(r) ==
  /\ r.pc = "committed" /\ AnswerRegister(r, "verify") /\ UNCHANGED accounts

RequestStep(r) ==
  \/ \E c \in Codes : FindInvite(r, c)
  \/ RefuseInvite(r) \/ CommitUser(r) \/ CommitFails(r) \/ Registered(r) \/ FailsLate(r)

NextRegistration ==
  \/ \E state \in {"on", "off"}, n \in 1..MaxUses : CreateCode(state, n)
  \/ \E t \in Tasks : InviteStep(t)
  \/ \E v \in Visitors : VisitorStep(v)
  \/ \E r \in requests : RequestStep(r)

SpecRegistration == InitRegistration /\ [][NextRegistration]_registrationVars

-----------------------------------------------------------------------------
(* Property *)

RegisteredWith(c) == {a \in accounts : a.code = c}

\* What the log says last of a code is what it is, although requests of admins
\* find a code that the next one deletes.  A code is used once for every account
\* registered with it, never for one of another code of the same text.  Every
\* account can be recovered with a phrase its visitor has noted, although the
\* text that is saved may be older than the one the page has when it comes.  And
\* who sees the dashboard has an account.
RegistrationsKept ==
  /\ \A c \in Codes :
       /\ codeLog[c] = code[c].state
       /\ code[c].uses = code[c].granted - Cardinality(RegisteredWith(c))
  /\ \A a \in accounts : a.phrase \in noted[a.by] /\ a.phrase /= 0
  /\ \A v \in Visitors : page[v].step = "in" => \E a \in accounts : a.by = v /\ a.name = page[v].name
=============================================================================
