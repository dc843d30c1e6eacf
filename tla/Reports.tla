------------------------------- MODULE Reports ------------------------------
(***************************************************************************)
(* Reports of uploads and bins, what the admins make of them, and reports  *)
(* of bugs with attachments in S3.  A report points at a row of Shelves,   *)
(* which may go at any time; the database then clears the pointer.  Two    *)
(* admins may work on one report, on two reports of one file, or on a file *)
(* that one of them deletes without any report.                            *)
(***************************************************************************)
EXTENDS Shelves

CONSTANTS Reports,     \* reports of contents
          Admins,      \* requests of admins
          BugReports,  \* reports of bugs
          Attachments, \* how many attachments a report of a bug has
          Troubles      \* bound: how many steps fail or are cut off

ASSUME ReportsAssumption ==
  Attachments \in Nat /\ Troubles \in Nat /\ IsFiniteSet(Admins)

VARIABLES report,  \* Reports -> "none", "filing", "open" or "archived", and its target
          admin,   \* Admins -> the request under way
          entries, \* number of entries of the audit log by action and subject
          banned,  \* reports whose user was banned for it
          cut,     \* history: what a request did whose entry was cut off, as in entries
          direct,  \* history: how often deleteUserFiles deleted a file for no report
          bug,     \* BugReports -> where the request is, how many objects it has listed, and
                   \* the row: "unheard" if the request took its creation for a failure
          objects, \* objects of attachments in S3
          stray,   \* history: objects trouble left behind
          troubles

reportVars == <<report, admin, entries, banned, cut, direct, bug, objects, stray, troubles>>

Contents == Bins \cup Files
Actions == {"user_files_deleted", "report_content_deleted", "report_user_banned"}
Subjects == Items \cup Reports
Nobody == "none"
NoTask == [at |-> "idle", op |-> "none", report |-> "none", item |-> Nobody]

InitReports ==
  /\ report = [r \in Reports |-> [at |-> "none", target |-> Nobody]]
  /\ admin = [a \in Admins |-> NoTask]
  /\ entries = [x \in Actions \X Subjects |-> 0]
  /\ banned = {}
  /\ cut = [x \in Actions \X Subjects |-> 0]
  /\ direct = [f \in Files |-> 0]
  /\ bug = [x \in BugReports |-> [at |-> "idle", stored |-> 0, row |-> "none"]]
  /\ objects = {} /\ stray = {} /\ troubles = 0

\* What the database does to the reports of rows that go: onDelete SetNull.
ClearTargets ==
  report' = [r \in Reports |->
    IF report[r].at \in {"open", "archived"} /\ report[r].target /= Nobody
       /\ row'[report[r].target].at = "gone"
    THEN [report[r] EXCEPT !.target = Nobody] ELSE report[r]]

Proceeds(a, at) == admin' = [admin EXCEPT ![a].at = at]
Leaves(a) == admin' = [admin EXCEPT ![a] = NoTask]
Takes(a, at, op, r) ==
  /\ admin[a].at = "idle"
  /\ admin' = [admin EXCEPT ![a] = [at |-> at, op |-> op, report |-> r, item |-> report[r].target]]

-----------------------------------------------------------------------------
(* createContentReport                                                     *)

\* resolveContentTarget: the content is there and has not expired.
Resolve(r, i) ==
  /\ report[r].at = "none" /\ row[i].at = "kept"
  /\ report' = [report EXCEPT ![r] = [at |-> "filing", target |-> i]]
  /\ UNCHANGED <<shelfVars, admin, entries, banned, cut, direct, bug, objects, stray, troubles>>

\* The foreign key refuses a report of a row that has gone meanwhile.
File(r) ==
  /\ report[r].at = "filing"
  /\ report' = [report EXCEPT ![r] = IF Kept(@.target) THEN [@ EXCEPT !.at = "open"]
                                    ELSE [at |-> "none", target |-> Nobody]]
  /\ UNCHANGED <<shelfVars, admin, entries, banned, cut, direct, bug, objects, stray, troubles>>

-----------------------------------------------------------------------------
(* The admins                                                              *)

\* deleteReportedContent and banReportedUser: findOpenContentReportOrThrow.
Open(a, r) ==
  /\ report[r].at = "open"
  /\ \/ Takes(a, "ban", "report_user_banned", r)
     \/ /\ report[r].target /= Nobody
        /\ Takes(a, IF report[r].target \in Files THEN "files" ELSE "rows",
                 "report_content_deleted", r)
  /\ UNCHANGED <<shelfVars, report, entries, banned, cut, direct, bug, objects, stray, troubles>>

\* deleteUserFiles, asked for without a report.  A call that names several files
\* is one for each of them, which delete their rows together.
DeleteUserFiles(a, f) ==
  /\ admin[a].at = "idle"
  /\ admin' = [admin EXCEPT ![a] =
       [at |-> "files", op |-> "user_files_deleted", report |-> "none", item |-> f]]
  /\ UNCHANGED <<shelfVars, report, entries, banned, cut, direct, bug, objects, stray, troubles>>

\* deleteUserFiles looks the file up, and later deletes by what it found.
Snapshot(a) ==
  /\ admin[a].at = "files"
  /\ IF Kept(admin[a].item) THEN Proceeds(a, "rows") ELSE Leaves(a)
  /\ UNCHANGED <<shelfVars, report, entries, banned, cut, direct, bug, objects, stray, troubles>>

\* Mutant of Deleted: the bin may be gone.
DeletedAnyhow(i) == TRUE

\* deleteMany of a bin must have deleted one; of a file it need not.
Deleted(i) == i \in Bins => Kept(i)

\* The transaction that deletes the row; that of a file writes an entry, too.
DeleteRow(a) ==
  LET i == admin[a].item IN
  /\ admin[a].at = "rows"
  /\ Delete({i}, "admin") /\ ClearTargets
  /\ IF Deleted(i) /\ admin[a].op = "report_content_deleted"
     THEN Proceeds(a, "audit") ELSE Leaves(a)
  /\ direct' = IF admin[a].op = "user_files_deleted" THEN [direct EXCEPT ![i] = @ + 1] ELSE direct
  /\ entries' = IF i \in Files THEN [entries EXCEPT ![<<"user_files_deleted", i>>] = @ + 1] ELSE entries
  /\ UNCHANGED <<clerk, closed, late, banned, cut, bug, objects, stray, troubles>>

\* updateUserStatus, which Accounts describes.
Ban(a) ==
  /\ admin[a].at = "ban"
  /\ banned' = banned \cup {admin[a].report}
  /\ Proceeds(a, "audit")
  /\ UNCHANGED <<shelfVars, report, entries, cut, direct, bug, objects, stray, troubles>>

\* The entry of a request and what it is about.
Entry(a) == <<admin[a].op, IF admin[a].op = "report_user_banned" THEN admin[a].report ELSE admin[a].item>>

\* A user may be banned again and again; one entry stands for all of them.
Audit(a) ==
  /\ admin[a].at = "audit"
  /\ entries' = [entries EXCEPT ![Entry(a)] = IF admin[a].op = "report_user_banned" THEN 1 ELSE @ + 1]
  /\ Leaves(a)
  /\ UNCHANGED <<shelfVars, report, banned, cut, direct, bug, objects, stray, troubles>>

\* resolveReport, reopenReport: a look at the report, and a transaction that
\* writes it and its entry together, whatever it has become meanwhile.
Look(a, r) ==
  /\ \/ report[r].at = "open" /\ Takes(a, "decide", "archived", r)
     \/ report[r].at = "archived" /\ Takes(a, "decide", "open", r)
  /\ UNCHANGED <<shelfVars, report, entries, banned, cut, direct, bug, objects, stray, troubles>>

Decide(a) ==
  /\ admin[a].at = "decide"
  /\ report' = [report EXCEPT ![admin[a].report].at = admin[a].op]
  /\ Leaves(a)
  /\ UNCHANGED <<shelfVars, entries, banned, cut, direct, bug, objects, stray, troubles>>

\* The database refuses a step, or the server is killed.  Where the answer to a
\* step is lost that was performed, the request has got to the next one.
Trouble(a) ==
  /\ admin[a].at /= "idle" /\ troubles < Troubles
  /\ troubles' = troubles + 1
  /\ cut' = IF admin[a].at = "audit" THEN [cut EXCEPT ![Entry(a)] = @ + 1] ELSE cut
  /\ Leaves(a)
  /\ UNCHANGED <<shelfVars, report, entries, banned, direct, bug, objects, stray>>

-----------------------------------------------------------------------------
(* createBugReport                                                         *)

Uploaded(x) == {x} \X (1..bug[x].stored)

\* The object of the next attachment, which is listed once S3 has answered.
NextObject(x) == {x} \X ({bug[x].stored + 1} \cap (1..Attachments))

PutAttachment(x) ==
  /\ bug[x].at = "idle" /\ bug[x].stored < Attachments
  /\ bug' = [bug EXCEPT ![x].stored = @ + 1]
  /\ objects' = objects \cup NextObject(x)
  /\ UNCHANGED <<shelfVars, report, admin, entries, banned, cut, direct, stray, troubles>>

FileBug(x) ==
  /\ bug[x].at = "idle" /\ bug[x].stored = Attachments
  /\ bug' = [bug EXCEPT ![x].at = "ended", ![x].row = "filed"]
  /\ UNCHANGED <<shelfVars, report, admin, entries, banned, cut, direct, objects, stray, troubles>>

\* S3 or the database refuses, or it performs what it was asked and the answer
\* is lost; the catch takes over.
FailBug(x) ==
  /\ bug[x].at = "idle" /\ troubles < Troubles
  /\ troubles' = troubles + 1
  /\ \/ bug' = [bug EXCEPT ![x].at = "undo"]
     \/ /\ bug[x].stored = Attachments
        /\ bug' = [bug EXCEPT ![x].at = "undo", ![x].row = "unheard"]
  /\ \E put \in {{}, NextObject(x)} : objects' = objects \cup put /\ stray' = stray \cup put
  /\ UNCHANGED <<shelfVars, report, admin, entries, banned, cut, direct>>

\* The server is killed, perhaps while S3 stores an object.
KillBug(x) ==
  /\ bug[x].at = "idle" /\ troubles < Troubles
  /\ troubles' = troubles + 1
  /\ bug' = [bug EXCEPT ![x].at = "ended"]
  /\ \E put \in {{}, NextObject(x)} :
       objects' = objects \cup put /\ stray' = stray \cup Uploaded(x) \cup put
  /\ UNCHANGED <<shelfVars, report, admin, entries, banned, cut, direct>>

\* Mutant of Undone: the last object is forgotten.
UndoneButLast(x) == {x} \X (1..(bug[x].stored - 1))

\* deleteUploadedBugAttachments; what S3 refuses is only logged, and a server
\* that is killed leaves the rest.
Undone(x) == Uploaded(x)
UndoBug(x) ==
  /\ bug[x].at = "undo"
  /\ \E left \in SUBSET Uploaded(x) :
       /\ troubles' = IF left = {} THEN troubles ELSE troubles + 1
       /\ troubles' <= Troubles
       /\ objects' = objects \ (Undone(x) \ left)
       /\ stray' = stray \cup left
  /\ bug' = [bug EXCEPT ![x].at = "ended"]
  /\ UNCHANGED <<shelfVars, report, admin, entries, banned, cut, direct>>

BugStep(x) == PutAttachment(x) \/ FileBug(x) \/ FailBug(x) \/ KillBug(x) \/ UndoBug(x)

-----------------------------------------------------------------------------
AdminStep(a) ==
  \/ \E r \in Reports : Open(a, r) \/ Look(a, r)
  \/ \E f \in Files : DeleteUserFiles(a, f)
  \/ Snapshot(a) \/ DeleteRow(a) \/ Ban(a) \/ Audit(a) \/ Decide(a) \/ Trouble(a)

NextReports ==
  \/ \E r \in Reports : (\E i \in Contents : Resolve(r, i)) \/ File(r)
  \/ \E a \in Admins : AdminStep(a)
  \/ \E x \in BugReports : BugStep(x)
  \/ NextShelves /\ ClearTargets
       /\ UNCHANGED <<admin, entries, banned, cut, direct, bug, objects, stray, troubles>>

ReportsSpec == InitShelves(Files) /\ InitReports /\ [][NextReports]_<<shelfVars, reportVars>>

-----------------------------------------------------------------------------
\* How often something was or will be entered, or was not because of trouble.
Entered(x) == entries[x] + cut[x]
              + Cardinality({a \in Admins : admin[a].at = "audit" /\ Entry(a) = x})

(* The audit log tells who took content away: a bin is entered as deleted  *)
(* for a report exactly if an admin, and not its owner, the cleanup or a   *)
(* second admin, deleted it.  A file is entered at least once if an admin  *)
(* deleted it and never while it is there, and as often for its user as    *)
(* for reports and for no report together.  Nobody is banned for a report  *)
(* without an entry (admin-reports.service.ts deleteReportedContent,       *)
(* banReportedUser, admin-users.service.ts deleteUserFiles).               *)
DeletionsAudited ==
  /\ \A b \in Bins :
       Entered(<<"report_content_deleted", b>>) = IF by[b] = "admin" THEN 1 ELSE 0
  /\ \A f \in Files :
       /\ by[f] = "admin" => entries[<<"user_files_deleted", f>>] > 0
       /\ entries[<<"user_files_deleted", f>>] > 0 => ~Kept(f)
       /\ Entered(<<"report_content_deleted", f>>) + direct[f] = entries[<<"user_files_deleted", f>>]
  /\ \A r \in banned : Entered(<<"report_user_banned", r>>) > 0

(* A report of a bug that is filed has all its attachments, unless its     *)
(* request took it for refused; and no object is left behind that neither  *)
(* a request under way has listed nor a filed report, but those S3 stored  *)
(* unheard, those it refused to delete, and those of a server that was     *)
(* killed (reports.service.ts, createBugReport).                           *)
AttachmentsStored ==
  /\ \A x \in BugReports : bug[x].row = "filed" => Uploaded(x) \subseteq objects
  /\ \A o \in objects \ stray :
       /\ o \in Uploaded(o[1])
       /\ bug[o[1]].at /= "ended" \/ bug[o[1]].row = "filed"
=============================================================================
