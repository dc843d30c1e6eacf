------------------------------ MODULE MailPage ------------------------------
(***************************************************************************)
(* The mailbox as a browser shows it.  The server keeps for every mail its *)
(* folder and whether it is read, and publishes an event after each change;*)
(* the page loads the list of its folder when it is opened, when the       *)
(* folder changes and on every event, and corrects the list by itself when *)
(* a request of its user is answered.  Answers come in any order and none  *)
(* says what it is an answer to.  Left out: pages, search and sorting,     *)
(* which are further parameters of the folder, and the panel with a mail.  *)
(***************************************************************************)
EXTENDS Integers, FiniteSets

CONSTANTS Mails, Tasks, \* mails; requests of the user that may run side by side
          MaxChanges,   \* bound: changes made in the box
          MaxSwitches,  \* bound: changes of the folder
          Breaks        \* bound: events and answers lost, streams broken

ASSUME MailPageAssumption == MaxChanges \in Nat /\ MaxSwitches \in Nat /\ Breaks \in Nat

VARIABLES box,     \* Mails -> folder ("none" before it comes, "gone" at last), read
          news,    \* events on their way
          stream,  \* of events: "open", "down" or, without another try, "dead"
          loads,   \* lists asked for: number, folder and the answer, if there is one
          sent,    \* number of the last of them
          folder, list, total, \* what the page shows
          from,    \* the number of the list it shows
          task,    \* Tasks -> the request of the user under way
          missed,  \* history: after which list the page was last left in the dark
          changes, switches, breaks

pageVars == <<box, news, stream, loads, sent, folder, list, total, from, task, missed,
              changes, switches, breaks>>
bounds == <<changes, switches, breaks>>
view == <<folder, list, total, from>>

Places == {"inbox", "archive"}
Folders == Places \cup {"all"}
InBox(m) == box[m].at \in Places
In(f) == {m \in Mails : InBox(m) /\ f \in {box[m].at, "all"}}
Idle == [at |-> "idle", op |-> "none", of |-> {}, stale |-> FALSE]
Load(n, f) == [n |-> n, folder |-> f, list |-> {}, total |-> -1]

InitMailPage ==
  /\ box \in [Mails -> {[at |-> "none", read |-> FALSE], [at |-> "inbox", read |-> FALSE]}]
  /\ news = 0 /\ stream = "open"
  /\ loads = {Load(1, "inbox")} /\ sent = 1
  /\ folder = "inbox" /\ list = {} /\ total = 0 /\ from = 0
  /\ task = [t \in Tasks |-> Idle]
  /\ missed = 0 /\ changes = 0 /\ switches = 0 /\ breaks = 0

Loses == breaks < Breaks /\ breaks' = breaks + 1
Ask(f) == sent' = sent + 1 /\ loads' = loads \cup {Load(sent + 1, f)}

-----------------------------------------------------------------------------
(* The server                                                              *)

Without(b, S) == [m \in Mails |-> IF m \in S THEN [b[m] EXCEPT !.at = "gone"] ELSE b[m]]
Moved(b, S, f) == [m \in Mails |-> IF m \in S THEN [b[m] EXCEPT !.at = f] ELSE b[m]]
Marked(b, S, r) == [m \in Mails |-> IF m \in S THEN [b[m] EXCEPT !.read = r] ELSE b[m]]

\* What a request makes of the mails it names that are still there.
Done(op, S) == CASE op = "delete" -> Without(box, S)
                 [] op \in Places -> Moved(box, S, op)
                 [] op = "unread" -> Marked(box, S, FALSE)
                 [] OTHER -> Marked(box, S, TRUE)

\* emitToUser: nobody waits for it, and a refusal of Redis is only logged.
Emit(n) == \/ news' = news + n /\ UNCHANGED <<missed, breaks>>
           \/ n > 0 /\ Loses /\ missed' = sent /\ UNCHANGED news

\* A mail comes in, or another device of the user changes something.
Elsewhere(m, op) ==
  /\ changes < MaxChanges /\ changes' = changes + 1
  /\ \/ box[m].at = "none" /\ op = "come" /\ box' = Moved(box, {m}, "inbox")
     \/ InBox(m) /\ op \in {"read", "delete"} \cup Places /\ box' = Done(op, {m})
  /\ Emit(1)
  /\ UNCHANGED <<stream, loads, sent, view, task, switches>>

\* getUserMails; a change between its two queries brings another list anyway.
Answer(l) ==
  /\ l.total = -1
  /\ loads' = (loads \ {l}) \cup {[l EXCEPT !.list = {<<m, box[m].read>> : m \in In(l.folder)},
                                          !.total = Cardinality(In(l.folder))]}
  /\ UNCHANGED <<box, news, stream, sent, view, task, missed, bounds>>

\* One mail that is gone is an error; of several, those that are left are
\* changed.  getSingleMail publishes only what it has changed.
Commit(t) ==
  LET S == {m \in task[t].of : InBox(m)}
      silent == task[t].op = "open" /\ \A m \in S : box[m].read
      missing == S = {} /\ Cardinality(task[t].of) = 1
  IN /\ task[t].at \in {"sent", "confirm"}
     /\ IF missing THEN UNCHANGED box ELSE box' = Done(task[t].op, S)
     /\ Emit(IF missing \/ (silent /\ task[t].at = "sent") THEN 0 ELSE 1)
     /\ task' = [task EXCEPT ![t] = IF missing \/ @.at = "confirm" THEN Idle
                                    ELSE [@ EXCEPT !.at = "done"]]
     /\ UNCHANGED <<stream, loads, sent, view, changes, switches>>

-----------------------------------------------------------------------------
(* The page                                                                *)

\* Mutant of Refresh: the list of the folder the page was opened with.
RefreshFirst == Ask("inbox")

Refresh == Ask(folder)

\* useMailEvents, onmessage: the latest onRefresh is called.
Deliver ==
  /\ news > 0 /\ news' = news - 1
  /\ IF stream = "open" THEN Refresh /\ UNCHANGED missed
     ELSE missed' = sent /\ UNCHANGED <<loads, sent>>
  /\ UNCHANGED <<box, stream, view, task, bounds>>

\* onerror leaves the next try to the library; a refusal ends it for good.
Break == stream = "open" /\ Loses /\ stream' = "down"
         /\ UNCHANGED <<box, news, loads, sent, view, task, missed, changes, switches>>
Reconnect == /\ stream = "down" /\ stream' \in {"open", "dead"}
             /\ UNCHANGED <<box, news, loads, sent, view, task, missed, bounds>>

\* The rest of loadPage.
Receive(l) ==
  /\ l.total >= 0
  /\ loads' = loads \ {l}
  /\ list' = l.list /\ total' = l.total /\ from' = l.n
  /\ task' = [t \in Tasks |-> IF task[t].at = "done" THEN [task[t] EXCEPT !.stale = TRUE] ELSE task[t]]
  /\ UNCHANGED <<box, news, stream, sent, folder, missed, bounds>>

LoadFails(l) ==
  /\ Loses
  /\ loads' = loads \ {l} /\ missed' = sent
  /\ UNCHANGED <<box, news, stream, sent, view, task, changes, switches>>

\* handleFolderChange and the effect that follows.
Switch(f) ==
  /\ f /= folder /\ switches < MaxSwitches /\ switches' = switches + 1
  /\ folder' = f /\ list' = {} /\ Ask(f)
  /\ UNCHANGED <<box, news, stream, total, from, task, missed, changes, breaks>>

\* handleSelect, confirmDelete, handleMove, handleReadStatus and their bulk forms.
Act(t, op) ==
  /\ task[t].at = "idle" /\ changes < MaxChanges /\ changes' = changes + 1
  /\ \E S \in SUBSET {x[1] : x \in list} :
       /\ S /= {} /\ (op = "open" => Cardinality(S) = 1)
       /\ task' = [task EXCEPT ![t] = [Idle EXCEPT !.at = "sent", !.op = op, !.of = S]]
  /\ UNCHANGED <<box, news, stream, loads, sent, view, missed, switches, breaks>>

\* The answer: a list loaded meanwhile is corrected a second time.  A mail that
\* was opened unread is marked as read once more.
Reply(t) ==
  LET r == task[t]
      removes == r.op \in {"delete"} \cup Places
      confirms == r.op = "open" /\ \E m \in r.of : <<m, FALSE>> \in list
      less == total - Cardinality(r.of)
  IN /\ r.at = "done"
     /\ list' = IF removes THEN {x \in list : x[1] \notin r.of}
                ELSE {IF x[1] \in r.of THEN <<x[1], r.op /= "unread">> ELSE x : x \in list}
     /\ total' = IF ~removes THEN total ELSE IF r.op = "delete" /\ less < 0 THEN 0 ELSE less
     /\ missed' = IF r.stale THEN sent ELSE missed
     /\ task' = [task EXCEPT ![t] = IF confirms THEN [r EXCEPT !.at = "confirm"] ELSE Idle]
     /\ UNCHANGED <<box, news, stream, loads, sent, folder, from, bounds>>

\* A request, or its answer, is lost.
TaskFails(t) ==
  /\ task[t].at /= "idle" /\ Loses
  /\ task' = [task EXCEPT ![t] = Idle]
  /\ UNCHANGED <<box, news, stream, loads, sent, view, missed, changes, switches>>

NextMailPage ==
  \/ \E m \in Mails, op \in {"come", "read", "delete"} \cup Places : Elsewhere(m, op)
  \/ \E l \in loads : Answer(l) \/ Receive(l) \/ LoadFails(l)
  \/ \E t \in Tasks : \/ Commit(t) \/ Reply(t) \/ TaskFails(t)
                      \/ \E op \in {"open", "read", "unread", "delete"} \cup Places : Act(t, op)
  \/ Deliver \/ Break \/ Reconnect
  \/ \E f \in Folders : Switch(f)

-----------------------------------------------------------------------------
(* When nothing is under way, the page shows its folder as the server has  *)
(* it, mails, marks and number, unless answers overtook each other, or an  *)
(* event, an answer or the stream was lost after the last list was asked   *)
(* for, or the answer to a request of the user was applied to a list that  *)
(* was loaded after the request (MailPage.tsx, loadPage, confirmDelete).   *)
ListTrue ==
  news = 0 /\ loads = {} /\ stream = "open" /\ (\A t \in Tasks : task[t].at = "idle")
  /\ from = sent /\ missed < sent
  => /\ list = {<<m, box[m].read>> : m \in In(folder)}
     /\ total = Cardinality(In(folder))
=============================================================================
