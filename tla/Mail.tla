------------------------------- MODULE Mail --------------------------------
(***************************************************************************)
(* Mailboxes (mail) and internal mails of administrators (admin/mails):    *)
(* mails that arrive, are deleted by their owners one by one or in bulk,   *)
(* and vanish with the account (admin/users), and one internal mail, from  *)
(* the moment it is sent to some or all users until it is recalled and     *)
(* deleted. Handlers interleave at every await over                        *)
(*   S3        an object per mail body and attachment, and one for the     *)
(*             attachment all copies of an internal mail share;            *)
(*   MariaDB   Mail with MailAttachment rows, the InternalMail row with    *)
(*             its InternalMailAttachment and InternalMailDelivery rows.   *)
(*                                                                         *)
(* A mail is the randomUUIDs made for it, an external mail has one         *)
(* attachment, every size is one. Flags (read, archived, spam), blocked    *)
(* senders, encryption and the read-only queries are left out.             *)
(***************************************************************************)
EXTENDS Integers, FiniteSets

CONSTANTS
  Users,
  Mails,
  Handlers,
  None,       \* no user, no mail, no row
  Quota,      \* of a mailbox, in mails
  Ops,        \* the operations the environment calls
  Faults      \* what may fail, each once

OpKinds == {"send", "recall", "remove", "fetch", "delete", "bulk", "clear",
            "close", "inbound"}
FaultKinds == {"error", "crash"}
Row == [user : Users, kind : {"external", "internal"}]

ASSUME MailAssumption ==
  /\ IsFiniteSet(Handlers) /\ IsFiniteSet(Mails)
  /\ None \notin Users \cup Mails \cup Row
  /\ Quota \in Nat \ {0}
  /\ Ops \subseteq OpKinds
  /\ Faults \subseteq FaultKinds

VARIABLES
  objects,     \* the objects in S3
  rows,        \* the Mail rows
  message,     \* the InternalMail row, its attachment row and how it was sent
  deliveries,  \* its InternalMailDelivery rows
  gone,        \* users with status DELETED
  strays,      \* mails whose rows a purge removed without having listed them
  failed,      \* the faults that have happened
  task         \* the handlers

vars == <<objects, rows, message, deliveries, gone, strays, failed, task>>

-----------------------------------------------------------------------------
(* Values *)

Shared == <<None, "attachment">>
Parts(m) == {m} \X {"body", "attachment"}
Objects == {Shared} \cup (Mails \X {"body", "attachment"})

Stored(m) == rows[m] # None
MailsOf(u) == {m \in Mails : Stored(m) /\ rows[m].user = u}

\* state: "draft" while sendMail has not created the row, "dropped" when it
\* has deleted it. direct: target type USER, not BROADCAST. shared: the
\* attachment row has a storage key. For the properties alone: overlapped, a
\* recall began before sendMail had ended; abandoned, sendMail's outer catch
\* block was itself cut short.
Message == [state : {"none", "draft", "stored", "dropped"}, direct : BOOLEAN,
            attached : BOOLEAN, shared : BOOLEAN, recalled : BOOLEAN,
            deleted : BOOLEAN, overlapped : BOOLEAN, abandoned : BOOLEAN]
NoMessage == [state |-> "none", direct |-> FALSE, attached |-> FALSE,
              shared |-> FALSE, recalled |-> FALSE, deleted |-> FALSE,
              overlapped |-> FALSE, abandoned |-> FALSE]

Delivery == [user : Users, mail : Mails \cup {None}, recalled : BOOLEAN]

\* todo: recipients left. sent: deliveredMailIds. list: mails still to be
\* deleted, or the snapshot of a purge. phase: inside a catch of sendMail.
PCs == {"idle", "storeShared", "createMessage", "put", "putAttachment",
  "create", "record", "audit", "find", "erase", "drop", "dropMessage",
  "unstore", "list", "markRecalled", "markDeleted", "hide", "findShared", "fetch",
  "forget", "eraseAll", "dropAll", "usage"}
Task == [op : OpKinds \cup {"none"}, pc : PCs, user : Users \cup {None},
         mail : Mails \cup {None}, todo : SUBSET Users, sent : SUBSET Mails,
         list : SUBSET Mails, phase : {"try", "inner", "outer"}]
Idle == [op |-> "none", pc |-> "idle", user |-> None, mail |-> None,
         todo |-> {}, sent |-> {}, list |-> {}, phase |-> "try"]

-----------------------------------------------------------------------------
(* Handlers *)

Begin(h, r) ==
  /\ task[h].pc = "idle" /\ r.op \in Ops
  /\ task' = [task EXCEPT ![h] = r]

Goto(h, pc) == task' = [task EXCEPT ![h].pc = pc]
Finish(h) == task' = [task EXCEPT ![h] = Idle]

Sending == \E h \in Handlers : task[h].op = "send"

\* uuidv4: nothing refers to this mail.
Fresh(m) ==
  /\ ~Stored(m) /\ objects \cap Parts(m) = {}
  /\ \A d \in deliveries : d.mail # m
  /\ \A h \in Handlers :
       task[h].mail # m /\ m \notin task[h].sent \cup task[h].list

\* A loop over deleteMailRecordById, and where it leads.
AfterLoop(r) ==
  CASE r.op = "send" /\ r.phase = "inner" -> [r EXCEPT !.pc = "dropMessage"]
    [] r.op = "send" /\ r.phase = "outer" -> [r EXCEPT !.pc = "unstore"]
    [] r.op = "recall" -> [r EXCEPT !.pc = "markRecalled"]
    [] r.op = "remove" -> [r EXCEPT !.pc = "markDeleted"]
    [] r.op = "delete" -> Idle
\* Mutant of Loop: it ends after the first mail.
LoopOnce(r) ==
  IF r.list # {} /\ r.mail = None THEN [r EXCEPT !.pc = "find"]
  ELSE AfterLoop([r EXCEPT !.mail = None])
Loop(r) ==
  IF r.list # {} THEN [r EXCEPT !.pc = "find", !.mail = None]
  ELSE AfterLoop([r EXCEPT !.mail = None])

\* The catch blocks of sendMail; the other operations have none.
Catch(r, phase) ==
  Loop([r EXCEPT !.phase = phase, !.list = r.sent, !.user = None, !.todo = {}])
Thrown(r) ==
  IF r.op # "send" \/ r.phase = "outer" \/ r.pc = "storeShared" THEN Idle
  ELSE Catch(r, IF r.phase = "try" /\ r.pc \in {"put", "create", "record"}
                THEN "inner" ELSE "outer")

\* An exception at h.
Throw(h) ==
  /\ task' = [task EXCEPT ![h] = Thrown(@)]
  /\ message' = [message EXCEPT !.abandoned = @ \/ task[h].phase = "outer"]

\* onDelete: SetNull of InternalMailDelivery.mail
Detached(gonemails) ==
  {[d EXCEPT !.mail = IF @ \in gonemails THEN None ELSE @] : d \in deliveries}

-----------------------------------------------------------------------------
(* sendMail *)

\* resolveRecipientUsers
SendMail(h) ==
  /\ message.state = "none"
  /\ \E to \in {{u} : u \in Users \ gone} \cup {Users \ gone},
        direct, attached \in BOOLEAN :
       /\ to # {} /\ direct => Cardinality(to) = 1
       /\ ~direct => to = Users \ gone
       /\ Begin(h, [Idle EXCEPT !.op = "send", !.todo = to,
            !.pc = IF attached THEN "storeShared" ELSE "createMessage"])
       /\ message' = [message EXCEPT !.state = "draft", !.direct = direct,
                                     !.attached = attached]
  /\ UNCHANGED <<objects, rows, deliveries, gone, strays, failed>>

StoreShared(h) ==
  /\ task[h].pc = "storeShared"
  /\ objects' = objects \cup {Shared}
  /\ Goto(h, "createMessage")
  /\ UNCHANGED <<rows, message, deliveries, gone, strays, failed>>

CreateMessage(h) ==
  /\ task[h].pc = "createMessage"
  /\ message' = [message EXCEPT !.state = "stored", !.shared = message.attached]
  /\ Goto(h, "put")
  /\ UNCHANGED <<objects, rows, deliveries, gone, strays, failed>>

\* createInternalInboxMail and processIncomingMail: storeMailboxMailForUser
PutBody(h) ==
  /\ task[h].pc = "put"
  /\ \E m \in Mails, u \in task[h].todo :
       /\ Fresh(m)
       /\ objects' = objects \cup {<<m, "body">>}
       /\ task' = [task EXCEPT ![h].mail = m, ![h].user = u,
            ![h].pc = IF task[h].op = "inbound" THEN "putAttachment" ELSE "create"]
  /\ UNCHANGED <<rows, message, deliveries, gone, strays, failed>>

PutAttachment(h) ==
  /\ task[h].pc = "putAttachment"
  /\ objects' = objects \cup {<<task[h].mail, "attachment">>}
  /\ Goto(h, "create")
  /\ UNCHANGED <<rows, message, deliveries, gone, strays, failed>>

\* Mutant of CreateMail: the copy is remembered with its delivery only.
CreateMailForgotten(h) ==
  /\ task[h].pc = "create"
  /\ rows' = [rows EXCEPT ![task[h].mail] =
       [user |-> task[h].user,
        kind |-> IF task[h].op = "send" THEN "internal" ELSE "external"]]
  /\ IF task[h].op = "inbound" THEN Finish(h) ELSE Goto(h, "record")
  /\ UNCHANGED <<objects, message, deliveries, gone, strays, failed>>

CreateMail(h) ==
  /\ task[h].pc = "create"
  /\ rows' = [rows EXCEPT ![task[h].mail] =
       [user |-> task[h].user,
        kind |-> IF task[h].op = "send" THEN "internal" ELSE "external"]]
  /\ IF task[h].op = "inbound" THEN Finish(h)
     ELSE task' = [task EXCEPT ![h].pc = "record", ![h].sent = @ \cup {task[h].mail}]
  /\ UNCHANGED <<objects, message, deliveries, gone, strays, failed>>

\* internalMailDelivery.create fails when the recipient, who has seen his copy
\* arrive, has deleted it already.
RecordDelivery(h) ==
  LET left == task[h].todo \ {task[h].user} IN
  /\ task[h].pc = "record"
  /\ IF Stored(task[h].mail)
     THEN /\ deliveries' = deliveries \cup {[user |-> task[h].user,
               mail |-> task[h].mail, recalled |-> FALSE]}
          /\ task' = [task EXCEPT ![h].pc = IF left = {} THEN "audit" ELSE "put",
               ![h].todo = left, ![h].user = None, ![h].mail = None]
          /\ UNCHANGED message
     ELSE /\ Throw(h)
          /\ UNCHANGED deliveries
  /\ UNCHANGED <<objects, rows, gone, strays, failed>>

Audit(h) ==
  /\ task[h].pc = "audit"
  /\ Finish(h)
  /\ UNCHANGED <<objects, rows, message, deliveries, gone, strays, failed>>

\* Both catch blocks delete the InternalMail row, and ignore an error.
DropMessage(h, works) ==
  /\ task[h].pc = "dropMessage"
  /\ IF works /\ message.state = "stored"
     THEN /\ message' = [message EXCEPT !.state = "dropped", !.shared = FALSE]
          /\ deliveries' = {}
     ELSE UNCHANGED <<message, deliveries>>
  /\ task' = [task EXCEPT ![h] = IF @.phase = "inner" THEN Catch(@, "outer") ELSE Idle]
  /\ UNCHANGED <<objects, rows, gone, strays>>

\* deleteStoredAttachments and deleteSharedAttachmentObjects
Unstore(h, works) ==
  /\ task[h].pc = "unstore"
  /\ objects' = objects \ (IF works THEN {Shared} ELSE {})
  /\ IF task[h].op = "send" THEN Goto(h, "dropMessage") ELSE Finish(h)
  /\ UNCHANGED <<rows, message, deliveries, gone, strays>>

-----------------------------------------------------------------------------
(* deleteMailRecordById, of one mail or in a loop *)

FindMail(h) ==
  LET r == task[h] IN
  /\ r.pc = "find"
  /\ \E m \in r.list :
       task' = [task EXCEPT ![h] =
         IF Stored(m) THEN [r EXCEPT !.pc = "erase", !.mail = m]
         ELSE Loop([r EXCEPT !.mail = m, !.list = r.list \ {m}])]
  /\ UNCHANGED <<objects, rows, message, deliveries, gone, strays, failed>>

\* S3 errors are logged and the row is deleted all the same.
EraseMail(h, kept) ==
  /\ task[h].pc = "erase"
  /\ kept \subseteq Parts(task[h].mail)
  /\ objects' = objects \ (Parts(task[h].mail) \ kept)
  /\ Goto(h, "drop")
  /\ UNCHANGED <<rows, message, deliveries, gone, strays>>

\* mail.delete fails when somebody else has deleted the row since.
DropMail(h) ==
  LET r == task[h]
      m == r.mail IN
  /\ r.pc = "drop"
  /\ IF Stored(m)
     THEN /\ rows' = [rows EXCEPT ![m] = None]
          /\ deliveries' = Detached({m})
          /\ task' = [task EXCEPT ![h] = Loop([r EXCEPT !.list = r.list \ {m}])]
          /\ UNCHANGED message
     ELSE /\ Throw(h)
          /\ UNCHANGED <<rows, deliveries>>
  /\ UNCHANGED <<objects, gone, strays, failed>>

-----------------------------------------------------------------------------
(* recallMail, deleteMail and downloadAttachment of the administrators *)

Recall(h) ==
  /\ message.state = "stored" /\ ~message.deleted /\ ~message.recalled
  /\ Begin(h, [Idle EXCEPT !.op = "recall", !.pc = "list"])
  /\ message' = [message EXCEPT !.overlapped = @ \/ Sending]
  /\ UNCHANGED <<objects, rows, deliveries, gone, strays, failed>>

\* A mail that was recalled before is only marked.
RemoveMessage(h) ==
  /\ message.state = "stored" /\ ~message.deleted
  /\ Begin(h, [Idle EXCEPT !.op = "remove",
       !.pc = IF message.recalled THEN "hide" ELSE "list"])
  /\ message' = [message EXCEPT !.overlapped = @ \/ Sending]
  /\ UNCHANGED <<objects, rows, deliveries, gone, strays, failed>>

\* recallDeliveredInboxCopies
ListCopies(h) ==
  /\ task[h].pc = "list"
  /\ task' = [task EXCEPT ![h] =
       Loop([@ EXCEPT !.list = {d.mail : d \in deliveries} \ {None}])]
  /\ UNCHANGED <<objects, rows, message, deliveries, gone, strays, failed>>

\* A message its sender has dropped meanwhile cannot be updated. The
\* deliveries of a mail that was recalled before ("hide") keep their marks.
MarkMessage(h) ==
  /\ task[h].pc \in {"markRecalled", "markDeleted", "hide"}
  /\ IF message.state = "stored"
     THEN /\ message' = [message EXCEPT !.recalled = TRUE,
                            !.deleted = @ \/ task[h].op = "remove"]
          /\ deliveries' = {[d EXCEPT !.recalled = @ \/ task[h].pc # "hide"] :
                              d \in deliveries}
          /\ IF task[h].op = "remove" THEN Goto(h, "findShared") ELSE Finish(h)
     ELSE /\ Finish(h)
          /\ UNCHANGED <<message, deliveries>>
  /\ UNCHANGED <<objects, rows, gone, strays, failed>>

FindShared(h) ==
  /\ task[h].pc = "findShared"
  /\ IF message.shared THEN Goto(h, "unstore") ELSE Finish(h)
  /\ UNCHANGED <<objects, rows, message, deliveries, gone, strays, failed>>

FetchShared(h) ==
  /\ message.state = "stored" /\ message.shared /\ ~message.deleted
  /\ Begin(h, [Idle EXCEPT !.op = "fetch", !.pc = "fetch"])
  /\ UNCHANGED <<objects, rows, message, deliveries, gone, strays, failed>>

\* An attachment that is missing in S3 loses its key.
Fetch(h) ==
  /\ task[h].pc = "fetch"
  /\ IF Shared \in objects THEN Finish(h) ELSE Goto(h, "forget")
  /\ UNCHANGED <<objects, rows, message, deliveries, gone, strays, failed>>

Forget(h) ==
  /\ task[h].pc = "forget"
  /\ message' = [message EXCEPT !.shared = FALSE]
  /\ Finish(h)
  /\ UNCHANGED <<objects, rows, deliveries, gone, strays, failed>>

-----------------------------------------------------------------------------
(* The mailbox: deleteMail, bulkDeleteMails, the purge of an account *)

DeleteMail(h) ==
  /\ \E m \in Mails :
       /\ Stored(m)
       /\ Begin(h, [Idle EXCEPT !.op = "delete", !.pc = "find", !.list = {m}])
  /\ UNCHANGED <<objects, rows, message, deliveries, gone, strays, failed>>

BulkDelete(h) ==
  /\ \E u \in Users : \E some \in SUBSET MailsOf(u) :
       /\ some # {}
       /\ Begin(h, [Idle EXCEPT !.op = "bulk", !.pc = "eraseAll", !.user = u,
                                !.list = some])
  /\ UNCHANGED <<objects, rows, message, deliveries, gone, strays, failed>>

\* clearUserData and deleteUserDataAndMarkDeleted
Purge(h) ==
  /\ \E u \in Users \ gone, op \in {"clear", "close"} :
       Begin(h, [Idle EXCEPT !.op = op, !.pc = "eraseAll", !.user = u,
                             !.list = MailsOf(u)])
  /\ UNCHANGED <<objects, rows, message, deliveries, gone, strays, failed>>

\* Mutant of EraseAll: attachments are left behind.
EraseAllBodies(h, kept) ==
  LET all == task[h].list \X {"body"} IN
  /\ task[h].pc = "eraseAll"
  /\ kept \subseteq all
  /\ objects' = objects \ (all \ kept)
  /\ Goto(h, "dropAll")
  /\ UNCHANGED <<rows, message, deliveries, gone, strays>>

EraseAll(h, kept) ==
  LET all == UNION {Parts(m) : m \in task[h].list} IN
  /\ task[h].pc = "eraseAll"
  /\ kept \subseteq all
  /\ objects' = objects \ (all \ kept)
  /\ Goto(h, "dropAll")
  /\ UNCHANGED <<rows, message, deliveries, gone, strays>>

\* deleteMany: of the listed mails in bulk, of all the user's in a purge.
DropAll(h) ==
  LET out == IF task[h].op = "bulk" THEN task[h].list ELSE MailsOf(task[h].user) IN
  /\ task[h].pc = "dropAll"
  /\ rows' = [m \in Mails |-> IF m \in out THEN None ELSE rows[m]]
  /\ deliveries' = Detached(out)
  /\ strays' = strays \cup (out \ task[h].list)
  /\ gone' = gone \cup (IF task[h].op = "close" THEN {task[h].user} ELSE {})
  /\ Finish(h)
  /\ UNCHANGED <<objects, message, failed>>

-----------------------------------------------------------------------------
(* processIncomingMail *)

\* getUserMailStorageUsed: an attachment sent to this user alone counts too.
Used(u) ==
  Cardinality(MailsOf(u))
    + (IF /\ message.state = "stored" /\ message.direct /\ message.shared
          /\ \E d \in deliveries : d.user = u /\ d.mail # None /\ ~d.recalled
       THEN 1 ELSE 0)

IncomingMail(h) ==
  /\ \E u \in Users \ gone :
       Begin(h, [Idle EXCEPT !.op = "inbound", !.pc = "usage", !.todo = {u}])
  /\ UNCHANGED <<objects, rows, message, deliveries, gone, strays, failed>>

\* Mutant of CheckQuota: the mail itself is not counted in.
CheckQuotaWithout(h) ==
  /\ task[h].pc = "usage"
  /\ IF \E u \in task[h].todo : Used(u) <= Quota THEN Goto(h, "put") ELSE Finish(h)
  /\ UNCHANGED <<objects, rows, message, deliveries, gone, strays, failed>>

CheckQuota(h) ==
  /\ task[h].pc = "usage"
  /\ IF \E u \in task[h].todo : Used(u) + 1 <= Quota THEN Goto(h, "put") ELSE Finish(h)
  /\ UNCHANGED <<objects, rows, message, deliveries, gone, strays, failed>>

-----------------------------------------------------------------------------
(* Failures, and what comes of them *)

\* Places whose errors the code logs or ignores.
Tolerant == {"erase", "eraseAll", "unstore", "dropMessage"}

Happens(fault) ==
  /\ fault \in Faults \ failed
  /\ failed' = failed \cup {fault}

Fail(h) ==
  /\ Happens("error")
  /\ task[h].pc \notin Tolerant \cup {"idle"}
  /\ Throw(h)
  /\ UNCHANGED <<objects, rows, deliveries, gone, strays>>

FailTolerated(h) ==
  /\ Happens("error")
  /\ \/ DropMessage(h, FALSE)
     \/ Unstore(h, FALSE)
     \/ \E kept \in SUBSET Parts(task[h].mail) : kept # {} /\ EraseMail(h, kept)
     \/ \E kept \in SUBSET UNION {Parts(m) : m \in task[h].list} :
          kept # {} /\ EraseAll(h, kept)

\* The process of h dies.
Die(h) ==
  /\ task[h].pc # "idle"
  /\ Happens("crash")
  /\ Finish(h)
  /\ UNCHANGED <<objects, rows, message, deliveries, gone, strays>>

Succeed(h) ==
  /\ \/ DropMessage(h, TRUE) \/ Unstore(h, TRUE)
     \/ EraseMail(h, {}) \/ EraseAll(h, {})
  /\ UNCHANGED failed

-----------------------------------------------------------------------------
(* The specification *)

Init ==
  /\ objects = {}
  /\ rows = [m \in Mails |-> None]
  /\ message = NoMessage
  /\ deliveries = {}
  /\ gone = {} /\ strays = {} /\ failed = {}
  /\ task = [h \in Handlers |-> Idle]

Arrive(h) ==
  \/ SendMail(h) \/ Recall(h) \/ RemoveMessage(h) \/ FetchShared(h)
  \/ DeleteMail(h) \/ BulkDelete(h) \/ Purge(h) \/ IncomingMail(h)
Proceed(h) ==
  \/ StoreShared(h) \/ CreateMessage(h) \/ PutBody(h) \/ PutAttachment(h)
  \/ CreateMail(h) \/ RecordDelivery(h) \/ Audit(h) \/ FindMail(h)
  \/ DropMail(h) \/ ListCopies(h) \/ MarkMessage(h) \/ FindShared(h)
  \/ Fetch(h) \/ Forget(h) \/ DropAll(h) \/ CheckQuota(h) \/ Succeed(h)
Next == \E h \in Handlers : Arrive(h) \/ Proceed(h) \/ Fail(h)
                              \/ FailTolerated(h) \/ Die(h)

Spec == Init /\ [][Next]_vars

-----------------------------------------------------------------------------
(* Properties *)

TypeOK ==
  /\ objects \subseteq Objects
  /\ rows \in [Mails -> Row \cup {None}]
  /\ message \in Message
  /\ deliveries \subseteq Delivery
  /\ gone \subseteq Users /\ strays \subseteq Mails
  /\ failed \subseteq FaultKinds
  /\ task \in [Handlers -> Task]

\* recallDeliveredInboxCopies knows copies by their deliveries: whatever
\* fails or overlaps, sendMail leaves no copy in an inbox that a recall would
\* not find, except after a crash or when its outer catch block is cut short.
CopiesRecallable ==
  ~Sending /\ "crash" \notin failed /\ ~message.abandoned =>
    \A m \in Mails : Stored(m) /\ rows[m].kind = "internal" =>
      \E d \in deliveries : d.mail = m

\* A delivery marked as recalled has no copy left in the inbox, unless the
\* recall began before sendMail was done: concurrent deletions by the
\* recipients, errors and crashes leave the mail unrecalled or the copy gone.
RecallComplete ==
  ~message.overlapped =>
    \A d \in deliveries : d.recalled => d.mail = None

\* Without failures no object outlives its row, but for mails that arrive
\* between the two reads of a purge.
NoOrphanObject == failed = {} =>
  /\ \A m \in Mails : objects \cap Parts(m) # {} =>
       \/ Stored(m) \/ m \in strays
       \/ \E h \in Handlers :
            task[h].mail = m /\ task[h].pc \in {"putAttachment", "create"}
  /\ Shared \in objects =>
       \/ message.state = "stored" /\ ~message.deleted
       \/ \E h \in Handlers : task[h].op \in {"send", "remove"}

\* Without failures a mail in a mailbox can be opened, unless somebody is just
\* deleting it, and the shared attachment downloaded as long as the message
\* has not been deleted.
Readable == failed = {} =>
  /\ \A m \in Mails : Stored(m) =>
       \/ <<m, "body">> \in objects
          /\ (rows[m].kind = "external" => <<m, "attachment">> \in objects)
       \/ \E h \in Handlers :
            \/ task[h].mail = m /\ task[h].pc = "drop"
            \/ m \in task[h].list /\ task[h].pc = "dropAll"
  /\ message.state = "stored" /\ message.shared /\ ~message.deleted =>
       \/ Shared \in objects
       \/ \E h \in Handlers : task[h].phase = "outer" \/ task[h].op = "remove"

\* Rows and objects of mails belong together, in both directions.
MailsWhole == NoOrphanObject /\ Readable

\* The quota is counted before a mail is stored: mails that arrive together
\* exceed it, each handler by one mail at the most.
OverrunBounded ==
  \A u \in Users :
    Cardinality({m \in MailsOf(u) : rows[m].kind = "external"})
      <= Quota + Cardinality(Handlers) - 1

\* Refuted: "All files and mail objects from MinIO object storage" and the
\* mails go with the account (Privacy_Policy.md:115-133). A mail that arrives
\* during the purge, or a copy of an internal mail, is stored for the deleted
\* user.
DeletedHasNoMail == \A m \in Mails : Stored(m) => rows[m].user \notin gone

\* Refuted: recallMail, which answers 'Mail recalled successfully'
\* (admin-mails.service.ts:281), lists the copies sendMail has delivered so
\* far; the later ones stay, and a second recall is refused.
RecallReachesAll ==
  message.recalled /\ ~Sending =>
    \A m \in Mails : Stored(m) => rows[m].kind # "internal"
=============================================================================
