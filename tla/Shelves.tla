------------------------------- MODULE Shelves ------------------------------
(***************************************************************************)
(* Bins and links: rows a user creates up to a limit, which is counted     *)
(* before the row is written.  Rows go because the owner removes them,     *)
(* because a visitor or the hourly cleanup finds them expired, or with the *)
(* rest of the user's data.  A deleted row is not created again; the short *)
(* code of a link is its row, and a taken code makes the server draw again.*)
(***************************************************************************)
EXTENDS Integers, FiniteSets

CONSTANTS Users, Clerks,  \* accounts; requests of users and visitors
          Bins, Links,    \* rows there can be; of a link: its short code
          Files,          \* uploads, which Uploads describes, here only rows
          BinLimit, LinkLimit, MaxAttempts

ASSUME ShelvesAssumption ==
  /\ BinLimit \in Nat /\ LinkLimit \in Nat /\ MaxAttempts \in Nat \ {0}
  /\ IsFiniteSet(Clerks) /\ Clerks /= {}
  /\ Bins \cap Links = {} /\ Bins \cap Files = {} /\ Links \cap Files = {}

Items == Bins \cup Links \cup Files

VARIABLES row,    \* Items -> "none", "kept", "expired" or "gone", and its owner
          clerk,  \* Clerks -> the request under way
          closed, \* accounts whose data has been deleted for good
          by,     \* history: Items -> who deleted the row
          late    \* history: rows a request wrote that began before the purge

shelfVars == <<row, clerk, closed, by, late>>

Kept(i) == row[i].at \in {"kept", "expired"}
Of(u, kind) == {i \in kind : Kept(i) /\ row[i].owner = u}
LimitOf(kind) == IF kind = Bins THEN BinLimit ELSE LinkLimit
Idle == [at |-> "idle", user |-> "none", kind |-> {}, item |-> "none", tries |-> 0]

\* Some rows are there from the start.
InitShelves(there) ==
  /\ \E u \in [there -> Users] :
       row = [i \in Items |-> IF i \in there THEN [at |-> "kept", owner |-> u[i]]
                              ELSE [at |-> "none", owner |-> "none"]]
  /\ clerk = [c \in Clerks |-> Idle]
  /\ closed = {}
  /\ by = [i \in Items |-> "nobody"]
  /\ late = {}

Delete(S, who) ==
  /\ row' = [i \in Items |-> IF i \in S /\ Kept(i) THEN [row[i] EXCEPT !.at = "gone"] ELSE row[i]]
  /\ by' = [i \in Items |-> IF i \in S /\ Kept(i) THEN who ELSE by[i]]

Done(c) == clerk' = [clerk EXCEPT ![c] = Idle]

-----------------------------------------------------------------------------
\* Mutant of Room: one more than the limit.
RoomForOne(u, kind) == Cardinality(Of(u, kind)) <= LimitOf(kind)

Room(u, kind) == Cardinality(Of(u, kind)) < LimitOf(kind)

\* createBin, create: a closed account has no session.
Count(c, u, kind) ==
  /\ clerk[c].at = "idle" /\ u \notin closed
  /\ Room(u, kind)
  /\ clerk' = [clerk EXCEPT ![c] = [Idle EXCEPT !.at = "create", !.user = u, !.kind = kind]]
  /\ UNCHANGED <<row, closed, by, late>>

\* bin.create, link.create: a row that gets no number of its own is refused.
Create(c, i) ==
  LET r == clerk[c] IN
  /\ r.at = "create" /\ i \in r.kind /\ row[i].at = "none"
  /\ row' = [row EXCEPT ![i] = [at |-> "kept", owner |-> r.user]]
  /\ late' = IF r.user \in closed THEN late \cup {i} ELSE late
  /\ Done(c)
  /\ UNCHANGED <<closed, by>>

\* isUniqueConflict: the next attempt, or the last one.
Conflict(c) ==
  /\ clerk[c].at = "create" /\ \E i \in clerk[c].kind \cap Links : Kept(i)
  /\ IF clerk[c].tries + 1 = MaxAttempts THEN Done(c)
     ELSE clerk' = [clerk EXCEPT ![c].tries = @ + 1]
  /\ UNCHANGED <<row, closed, by, late>>

\* deleteBin, delete, deleteFile and, for what has expired, getBinContent and the
\* sweep of the files: the row is read, and deleted by its number in a second step.
Find(c, u, i) ==
  /\ clerk[c].at = "idle" /\ Kept(i)
  /\ \/ row[i].owner = u /\ u \notin closed
     \/ row[i].at = "expired"
  /\ clerk' = [clerk EXCEPT ![c] = [Idle EXCEPT !.at = "delete", !.user = u, !.item = i]]
  /\ UNCHANGED <<row, closed, by, late>>

\* Throws if the row is gone.
DeleteFound(c) ==
  /\ clerk[c].at = "delete"
  /\ Delete({clerk[c].item}, "user")
  /\ Done(c)
  /\ UNCHANGED <<closed, late>>

\* Time passes for a file, or a bin that is not kept for ever.
Expires(i) ==
  /\ row[i].at = "kept"
  /\ row' = [row EXCEPT ![i].at = "expired"]
  /\ UNCHANGED <<clerk, closed, by, late>>

\* handleCleanup, every hour.
Cleanup ==
  LET expired == {i \in Bins : row[i].at = "expired"} IN
  /\ expired /= {}
  /\ Delete(expired, "cleanup")
  /\ UNCHANGED <<clerk, closed, late>>

\* Mutant of Cleared: the links stay.
ClearedButLinks(u) == Of(u, Bins \cup Files)

\* clearUserContentRecords in its transaction; it is the end of the account
\* when deleteUserDataAndMarkDeleted calls it.
Cleared(u) == Of(u, Items)
Purge(u, ends) ==
  /\ u \notin closed /\ (ends \/ Cleared(u) /= {})
  /\ Delete(Cleared(u), "purge")
  /\ closed' = IF ends THEN closed \cup {u} ELSE closed
  /\ UNCHANGED <<clerk, late>>

ShelfStep(c) ==
  \/ \E u \in Users : \/ \E kind \in {Bins, Links} : Count(c, u, kind)
                      \/ \E i \in Items : Find(c, u, i)
  \/ (\E i \in Items : Create(c, i)) \/ Conflict(c) \/ DeleteFound(c)

NextShelves ==
  \/ \E c \in Clerks : ShelfStep(c)
  \/ \E i \in Bins \cup Files : Expires(i)
  \/ Cleanup
  \/ \E u \in Users, ends \in BOOLEAN : Purge(u, ends)

ShelvesSpec == InitShelves(Files) /\ [][NextShelves]_shelfVars

-----------------------------------------------------------------------------
\* Requests of u that have counted a kind and not yet written their row.
Creating(u, kind) == {c \in Clerks : clerk[c].at = "create" /\ clerk[c].user = u /\ clerk[c].kind = kind}

(* The rows of a user and those he is about to get exceed the limit by no  *)
(* more than the requests that ran side by side; and an account that has   *)
(* been deleted keeps no row but those of requests that had been let in    *)
(* before it (bins.service.ts createBin, links.service.ts create).         *)
ShelvesKept == \A u \in Users :
  /\ \A kind \in {Bins, Links} :
       Cardinality(Of(u, kind)) + Cardinality(Creating(u, kind))
         <= LimitOf(kind) + Cardinality(Clerks) - 1
  /\ u \in closed => Of(u, Items) \subseteq late
=============================================================================
