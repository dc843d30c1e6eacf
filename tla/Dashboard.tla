------------------------------ MODULE Dashboard ----------------------------
(***************************************************************************)
(* What administrators are shown of accounts, reports and storage:         *)
(* AdminDashboardService, the statistics of AdminUsersService and the      *)
(* snapshots of RuntimeTracker.  An answer is put together from queries    *)
(* that are sent at once and answered one by one while rows come and go,   *)
(* and from histories that are computed with one cursor over rows in the   *)
(* order of their creation.  Time counts whole hours; nothing happens      *)
(* between two of them, so that 23:59:59.999 is the last hour of a day.    *)
(***************************************************************************)
EXTENDS Integers, Sequences, FiniteSets, SequencesExt

CONSTANTS
  MaxUsers,      \* bounds the accounts at a time
  MaxStored,     \* bounds the bytes of files, bins and mails
  Jumps,         \* the hours that may pass at a time
  Horizon,       \* the last hour
  MaxSnapshots,  \* bounds the storage snapshots
  MaxReports,    \* bounds the reports
  Meanwhile      \* bounds what happens while an answer is put together

ASSUME DashboardAssumption ==
  /\ Jumps \subseteq Nat \ {0} /\ Horizon \in Nat /\ MaxUsers \in Nat
  /\ MaxStored \in Nat /\ MaxSnapshots \in Nat /\ MaxReports \in Nat /\ Meanwhile \in Nat

VARIABLES
  now,        \* the hour
  person,     \* when the accounts that are not DELETED were registered, in this order
  stored,     \* the bytes of all files, bins and mails
  reports,    \* when reports were filed, in this order
  snapshots,  \* AdminStorageSnapshot, in the order of recordedAt
  capture,    \* what a running captureStorageSnapshot has measured
  answer      \* the dashboard that is being put together

dashboardVars == <<now, person, stored, reports, snapshots, capture, answer>>
rowVars == <<person, stored, reports>>

Day == 24
Never == -1

-----------------------------------------------------------------------------
(* Histories *)

Ranges == {"24h", "7d", "30d", "total"}

StartOfDay(at) == Day * (at \div Day)
EndOfDay(at) == StartOfDay(at) + Day - 1

\* Six points from the first record to the time of the request.
TotalBuckets(first, at) ==
  LET span == IF at > first THEN at - first ELSE 0 IN
  [i \in 1..6 |-> IF i = 6 THEN at ELSE first + (span * (i - 1)) \div 5]

Buckets(range, first, at) ==
  CASE range = "24h" -> [i \in 1..5 |-> StartOfDay(at) + 6 * (i - 1)]
    [] range = "7d" -> [i \in 1..7 |-> EndOfDay(at) - (7 - i) * Day]
    [] range = "30d" -> [i \in 1..7 |-> EndOfDay(at) - 5 * (7 - i) * Day]
    [] range = "total" -> TotalBuckets(first, at)

\* Mutant of Passed: records at the very time of a bucket come too late.
PassedBefore(times, time, from) ==
  Min({c \in from..Len(times) : c < Len(times) => times[c + 1] >= time})

\* The cursor goes on over the records up to the time of a bucket.
Passed(times, time, from) ==
  Min({c \in from..Len(times) : c < Len(times) => times[c + 1] > time})

\* No bucket is later than the request.
Capped(time, at) == IF time < at THEN time ELSE at

\* Where the cursor stands at each bucket.
Cursors(times, buckets, at) ==
  LET cursor[i \in 0..Len(buckets)] ==
        IF i = 0 THEN 0 ELSE Passed(times, Capped(buckets[i], at), cursor[i - 1])
  IN [i \in DOMAIN buckets |-> cursor[i]]

\* How many records there were.
CumulativeHistory(times, first, at) ==
  [r \in Ranges |-> Cursors(times, Buckets(r, first, at), at)]

\* The last snapshot by then; before the first one, what that one recorded,
\* and without any, what is used now.
StorageHistory(shots, used, at) ==
  LET times == [i \in DOMAIN shots |-> shots[i].at]
      first == IF shots = <<>> THEN at ELSE times[1]
      fallback == IF shots = <<>> THEN used ELSE shots[1].used
      Value(c) == IF c = 0 THEN fallback ELSE shots[c].used
  IN [r \in Ranges |->
        LET cursors == Cursors(times, Buckets(r, first, at), at)
        IN [i \in DOMAIN cursors |-> Value(cursors[i])]]

-----------------------------------------------------------------------------
(* Rows *)

Counted(since) == Cardinality({p \in DOMAIN person : person[p] >= since})

\* Rows may change only so often while an answer is put together.
Unhurried == answer.pc = "reading" => answer.changes < Meanwhile
Change(kept) == /\ Unhurried
                /\ answer' = IF answer.pc = "reading"
                             THEN [answer EXCEPT !.changes = @ + 1] ELSE answer
                /\ UNCHANGED kept

Pass(hours) ==
  /\ now + hours <= Horizon /\ now' = now + hours
  /\ Change(<<rowVars, snapshots, capture>>)

Register ==
  /\ Len(person) < MaxUsers
  /\ person' = Append(person, now)
  /\ Change(<<now, stored, reports, snapshots, capture>>)

DeleteAccount(p) ==
  /\ person' = RemoveAt(person, p)
  /\ Change(<<now, stored, reports, snapshots, capture>>)

Report ==
  /\ Len(reports) < MaxReports
  /\ reports' = Append(reports, now)
  /\ Change(<<now, person, stored, snapshots, capture>>)

Save ==
  /\ stored < MaxStored /\ stored' = stored + 1
  /\ Change(<<now, person, reports, snapshots, capture>>)

Erase ==
  /\ stored > 0 /\ stored' = stored - 1
  /\ Change(<<now, person, reports, snapshots, capture>>)

-----------------------------------------------------------------------------
(* captureStorageSnapshot, at the start of the server and every hour *)

Measure ==
  /\ capture = Never /\ Len(snapshots) < MaxSnapshots
  /\ capture' = stored
  /\ Change(<<now, rowVars, snapshots>>)

\* recordedAt is the time of the insertion.
Record ==
  /\ capture /= Never
  /\ snapshots' = Append(snapshots, [at |-> now, used |-> capture])
  /\ capture' = Never
  /\ Change(<<now, rowVars>>)

\* An error is logged, a killed server logs nothing.
RecordFails ==
  /\ capture /= Never /\ capture' = Never
  /\ Change(<<now, rowVars, snapshots>>)

-----------------------------------------------------------------------------
(* An answer *)

\* Three answers that have no rows in common: getUserStats with the growth of
\* the accounts, getStorageCount, and getReportsHistory.
Parts == {{"total", "day", "week", "joined"}, {"used"}, {"reports"}}

NoAnswer == [pc |-> "none", at |-> 0, changes |-> 0, part |-> {}, left |-> {}, total |-> 0,
             day |-> 0, week |-> 0, used |-> 0, growth |-> <<>>,
             reports |-> <<>>, storage |-> <<>>]

InitDashboard ==
  /\ now = 30 * Day + 6
  /\ stored = 0
  /\ person = <<>> /\ reports = <<>> /\ snapshots = <<>> /\ capture = Never
  /\ answer = NoAnswer

Ask(part) ==
  /\ answer.pc /= "reading"
  /\ answer' = [NoAnswer EXCEPT !.pc = "reading", !.at = now,
                                !.part = part, !.left = part]
  /\ UNCHANGED <<now, rowVars, snapshots, capture>>

Got(q, then) ==
  /\ answer.pc = "reading" /\ q \in answer.left
  /\ answer' = [then EXCEPT !.left = (@ \ {q}) \cup IF q = "used" THEN {"snapshots"} ELSE {}]
  /\ UNCHANGED <<now, rowVars, snapshots, capture>>

GetTotal == Got("total", [answer EXCEPT !.total = Counted(0)])
GetDay == Got("day", [answer EXCEPT !.day = Counted(answer.at - Day)])
GetWeek == Got("week", [answer EXCEPT !.week = Counted(answer.at - 7 * Day)])

FirstOf(times, otherwise) == IF times = <<>> THEN otherwise ELSE times[1]

GetGrowth ==
  Got("joined", [answer EXCEPT !.growth =
        CumulativeHistory(person, FirstOf(person, answer.at), answer.at)])

GetReports ==
  Got("reports", [answer EXCEPT !.reports =
        CumulativeHistory(reports, FirstOf(reports, answer.at - 30 * Day), answer.at)])

GetUsed == Got("used", [answer EXCEPT !.used = stored])

\* getStorageHistory follows getLogicalStorageMetrics, and asks the clock anew.
GetSnapshots ==
  Got("snapshots", [answer EXCEPT !.storage =
        StorageHistory(snapshots, answer.used, now)])

Complete ==
  /\ answer.pc = "reading" /\ answer.left = {}
  /\ answer' = [answer EXCEPT !.pc = "shown"]
  /\ UNCHANGED <<now, rowVars, snapshots, capture>>

NextDashboard ==
  \/ \E h \in Jumps : Pass(h)
  \/ Register \/ (\E p \in DOMAIN person : DeleteAccount(p))
  \/ Save \/ Erase
  \/ Report \/ Measure \/ Record \/ RecordFails
  \/ (\E part \in Parts : Ask(part))
  \/ GetTotal \/ GetDay \/ GetWeek \/ GetGrowth
  \/ GetReports \/ GetUsed \/ GetSnapshots \/ Complete

DashboardSpec == InitDashboard /\ [][NextDashboard]_dashboardVars

-----------------------------------------------------------------------------
(* Property *)

LastOf(points) == points[Len(points)]
Grows(points) == \A i \in 1..(Len(points) - 1) : points[i] <= points[i + 1]
Close(m, n) == m - n <= answer.changes /\ n - m <= answer.changes

\* The daily charts, from whole days instead of a cursor.
DaysBack(i, step) == answer.at \div Day - step * (7 - i)
AccountsBy(day) == Cardinality({p \in DOMAIN person : person[p] \div Day <= day})
UsedBy(day) ==
  LET by == {i \in DOMAIN snapshots : snapshots[i].at \div Day <= day} IN
  IF by /= {} THEN snapshots[Cardinality(by)].used
  ELSE IF snapshots = <<>> THEN stored ELSE snapshots[1].used

AccountsAgree ==
  /\ \A r \in Ranges : /\ Grows(answer.growth[r])
                       /\ Close(LastOf(answer.growth[r]), answer.total)
                       /\ LastOf(answer.growth[r]) = LastOf(answer.growth["total"])
  /\ answer.day - answer.week <= answer.changes
  /\ answer.week - answer.total <= answer.changes
  /\ answer.changes = 0 => \A i \in 1..7 :
       /\ answer.growth["7d"][i] = AccountsBy(DaysBack(i, 1))
       /\ answer.growth["30d"][i] = AccountsBy(DaysBack(i, 5))

StorageAgrees ==
  /\ \A r \in Ranges : LastOf(answer.storage[r]) = LastOf(answer.storage["total"])
  /\ answer.changes = 0 => \A i \in 1..7 :
       /\ answer.storage["7d"][i] = UsedBy(DaysBack(i, 1))
       /\ answer.storage["30d"][i] = UsedBy(DaysBack(i, 5))

ReportsAgree ==
  \A r \in Ranges : /\ Grows(answer.reports[r])
                    /\ Close(LastOf(answer.reports[r]), Len(reports))

\* Every history ends with the present, and grows where nothing is ever taken
\* out; what two queries say of the same rows differs by no more than happened
\* between them; and if nothing did, each point of the daily charts is what
\* there was at the end of its day.
AnswersAgree == answer.pc = "reading" /\ answer.left = {} =>
  /\ "joined" \in answer.part => AccountsAgree
  /\ "used" \in answer.part => StorageAgrees
  /\ "reports" \in answer.part => ReportsAgree
=============================================================================
