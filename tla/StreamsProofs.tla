---------------------------- MODULE StreamsProofs ----------------------------
(***************************************************************************)
(* What Limits and Notices promise, proved for any number of tabs,         *)
(* instances, notices, requests, guesses, streams, keys and restarts.      *)
(***************************************************************************)
EXTENDS MCStreams, FiniteSetTheorems, TLAPS

-----------------------------------------------------------------------------
(* Notices implement Board                                                 *)

NoticesType ==
  /\ rows \in [Notes -> {"none", "current", "expired"}]
  /\ stream \in [Tabs -> [at : {"off", "connecting", "open", "waiting", "noToken"},
                          of : Instances \cup {"none"}, snapshot : BOOLEAN]]
  /\ wire \in [Tabs -> SUBSET SUBSET Notes]
  /\ loading \in [Tabs -> BOOLEAN]
  /\ shown \in [Tabs -> SUBSET Notes]

\* Nothing is asked for, under way or shown for a tab that is signed out.
SignedOutQuiet ==
  \A t \in Tabs : ~On(t) => /\ wire[t] = {} /\ shown[t] = {}
                            /\ ~loading[t] /\ ~stream[t].snapshot

NoticesInv == NoticesType /\ SignedOutQuiet

LEMMA NoticesInitial == InitNotices => NoticesInv /\ Promise!BoardInit
BY DEF InitNotices, NoticesInv, NoticesType, SignedOutQuiet, On, Off, Promise!BoardInit,
       Current, Signed

\* Merge and filter: what a tab shows becomes what Show of Board says.
LEMMA MergeShows ==
  ASSUME NEW items \in SUBSET Notes, NEW m \in SUBSET Notes
  PROVE  /\ Merge(items, m) = ((items \cup (m \cap Current)) \cap Current) \ dismissed
         /\ Merge(items, m) \in SUBSET Notes
         /\ m \cap Current \in SUBSET Current
BY DEF Merge, Visible, Current

\* The steps that let a tab show something, or hand it the current list.
LEMMA ShownStep ==
  ASSUME NoticesInv, NEW t \in Tabs, On(t), NEW m \in SUBSET Notes,
         shown' = [shown EXCEPT ![t] = Merge(@, m)],
         UNCHANGED <<rows, dismissed>>, Signed' = Signed
  PROVE  Promise!BoardNext /\ shown' \in [Tabs -> SUBSET Notes]
<1>1. /\ shown[t] \in SUBSET Notes
      /\ t \in Signed
  BY DEF NoticesInv, NoticesType, Signed
<1>2. /\ Merge(shown[t], m) = ((shown[t] \cup (m \cap Current)) \cap Current) \ dismissed
      /\ Merge(shown[t], m) \in SUBSET Notes
      /\ m \cap Current \in SUBSET Current
  BY <1>1, MergeShows
<1>3. shown' = [shown EXCEPT ![t] = ((@ \cup (m \cap Current)) \cap Current) \ dismissed]
  BY <1>2
<1>4. UNCHANGED <<Current, dismissed, Signed>>
  BY DEF Current
<1>5. Promise!Show(t)
  BY <1>1, <1>2, <1>3, <1>4 DEF Promise!Show
<1>6. shown' \in [Tabs -> SUBSET Notes]
  BY <1>2 DEF NoticesInv, NoticesType
<1> QED
  BY <1>5, <1>6 DEF Promise!BoardNext

\* The list of the current notices goes to a tab that is signed in.
LEMMA SendListStep ==
  ASSUME NoticesInv, NEW t \in Tabs, On(t), SendList(t),
         UNCHANGED <<rows, dismissed>>, Signed' = Signed
  PROVE  /\ Promise!BoardNext \/ UNCHANGED Promise!boardVars
         /\ shown' \in [Tabs -> SUBSET Notes]
         /\ wire' \in [Tabs -> SUBSET SUBSET Notes]
         /\ \A u \in Tabs : u /= t => wire'[u] = wire[u] /\ shown'[u] = shown[u]
<1>1. CASE Current = {}
  <2>1. shown' = [shown EXCEPT ![t] = Merge(@, {})] /\ UNCHANGED wire
    BY <1>1 DEF SendList
  <2> QED
    BY <2>1, ShownStep, {} \in SUBSET Notes DEF NoticesInv, NoticesType
<1>2. CASE Current /= {}
  <2>1. wire' = [wire EXCEPT ![t] = @ \cup {Current}] /\ UNCHANGED shown
    BY <1>2 DEF SendList
  <2>2. Current \in SUBSET Notes /\ UNCHANGED Current
    BY DEF Current
  <2> QED
    BY <2>1, <2>2 DEF Promise!boardVars, NoticesInv, NoticesType
<1> QED
  BY <1>1, <1>2

\* A step of the server that reaches no tab.
LEMMA ServerStep ==
  ASSUME NoticesInv, NEW n \in Notes,
         \/ Create(n) \/ RunsOut(n)
         \/ \E i \in Instances : Emit(n, i) \/ NeverEmitted(n, i) \/ Deliver(n, i)
  PROVE  NoticesInv' /\ (Promise!BoardNext \/ UNCHANGED Promise!boardVars)
<1>1. CASE Create(n)
  <2>1. /\ rows' = [rows EXCEPT ![n] = "current"] /\ rows[n] = "none"
        /\ UNCHANGED <<stream, wire, loading, dismissed, shown>>
    BY <1>1 DEF Create
  <2>2. NoticesInv' /\ Signed' = Signed
    BY <2>1 DEF NoticesInv, NoticesType, SignedOutQuiet, On, Signed
  <2>3. Current' = Current \cup {n}
    BY <2>1 DEF Current, NoticesInv, NoticesType
  <2> QED
    BY <2>1, <2>2, <2>3 DEF Promise!BoardNext, Promise!Publish
<1>2. CASE RunsOut(n)
  <2>1. /\ rows' = [rows EXCEPT ![n] = "expired"] /\ rows[n] = "current"
        /\ UNCHANGED <<stream, wire, loading, dismissed, shown>>
    BY <1>2 DEF RunsOut
  <2>2. NoticesInv' /\ Signed' = Signed
    BY <2>1 DEF NoticesInv, NoticesType, SignedOutQuiet, On, Signed
  <2>3. n \in Current /\ Current' = Current \ {n}
    BY <2>1 DEF Current, NoticesInv, NoticesType
  <2> QED
    BY <2>1, <2>2, <2>3 DEF Promise!BoardNext, Promise!RunOut
<1>3. ASSUME NEW i \in Instances, Emit(n, i) \/ NeverEmitted(n, i) \/ Deliver(n, i)
      PROVE  NoticesInv' /\ UNCHANGED Promise!boardVars
  <2>1. /\ UNCHANGED <<rows, stream, loading, dismissed, shown>>
        /\ Delivered(n, i) \/ UNCHANGED wire
    BY <1>3 DEF Emit, NeverEmitted, Deliver
  <2>2. /\ wire' \in [Tabs -> SUBSET SUBSET Notes]
        /\ \A t \in Tabs : ~On(t) => wire'[t] = wire[t]
    BY <2>1, SMTT(30) DEF Delivered, On, NoticesInv, NoticesType
  <2>3. NoticesInv'
    BY <2>1, <2>2 DEF NoticesInv, NoticesType, SignedOutQuiet, On
  <2>4. UNCHANGED <<Current, Signed>>
    BY <2>1 DEF Current, Signed, On
  <2> QED
    BY <2>1, <2>3, <2>4 DEF Promise!boardVars
<1> QED
  BY <1>1, <1>2, <1>3

\* The list is sent, as a snapshot of a stream or as the answer to a load.
LEMMA ListStep ==
  ASSUME NoticesInv, NEW t \in Tabs, Snapshot(t) \/ Answer(t)
  PROVE  NoticesInv' /\ (Promise!BoardNext \/ UNCHANGED Promise!boardVars)
<1>1. /\ SendList(t) /\ UNCHANGED <<rows, dismissed>>
      /\ On(t)
  BY DEF Snapshot, Answer, server, NoticesInv, NoticesType, SignedOutQuiet
<1>2. /\ stream' \in [Tabs -> [at : {"off", "connecting", "open", "waiting", "noToken"},
                              of : Instances \cup {"none"}, snapshot : BOOLEAN]]
      /\ loading' \in [Tabs -> BOOLEAN]
      /\ \A u \in Tabs : /\ stream'[u].at = stream[u].at
                         /\ u /= t => stream'[u] = stream[u] /\ loading'[u] = loading[u]
  <2>1. \/ stream' = [stream EXCEPT ![t].snapshot = FALSE] /\ UNCHANGED loading
        \/ loading' = [loading EXCEPT ![t] = FALSE] /\ UNCHANGED stream
    BY DEF Snapshot, Answer
  <2>2. CASE stream' = [stream EXCEPT ![t].snapshot = FALSE] /\ UNCHANGED loading
    <3>1. \A u \in Tabs : stream'[u] = IF u = t THEN [stream[u] EXCEPT !.snapshot = FALSE]
                                      ELSE stream[u]
      BY <2>2 DEF NoticesInv, NoticesType
    <3>2. stream' \in [Tabs -> [at : {"off", "connecting", "open", "waiting", "noToken"},
                                of : Instances \cup {"none"}, snapshot : BOOLEAN]]
      <4> DEFINE r == stream[t]
      <4>1. r \in [at : {"off", "connecting", "open", "waiting", "noToken"},
                   of : Instances \cup {"none"}, snapshot : BOOLEAN]
        BY DEF NoticesInv, NoticesType
      <4>2. [r EXCEPT !.snapshot = FALSE]
              \in [at : {"off", "connecting", "open", "waiting", "noToken"},
                   of : Instances \cup {"none"}, snapshot : BOOLEAN]
        <5> HIDE DEF r
        <5> QED
          BY <4>1
      <4> QED
        BY <2>2, <4>2 DEF NoticesInv, NoticesType
    <3>3. \A u \in Tabs : stream'[u].at = stream[u].at
      BY <3>1 DEF NoticesInv, NoticesType
    <3> QED
      BY <2>2, <3>1, <3>2, <3>3 DEF NoticesInv, NoticesType
  <2>3. CASE loading' = [loading EXCEPT ![t] = FALSE] /\ UNCHANGED stream
    BY <2>3 DEF NoticesInv, NoticesType
  <2> QED
    BY <2>1, <2>2, <2>3
<1>3. \A u \in Tabs : On(u)' <=> On(u)
  BY <1>2 DEF On
<1>4. Signed' = Signed
  BY <1>3 DEF Signed
<1>5. /\ Promise!BoardNext \/ UNCHANGED Promise!boardVars
      /\ shown' \in [Tabs -> SUBSET Notes]
      /\ wire' \in [Tabs -> SUBSET SUBSET Notes]
      /\ \A u \in Tabs : u /= t => wire'[u] = wire[u] /\ shown'[u] = shown[u]
  BY <1>1, <1>4, SendListStep
<1>6. NoticesType'
  BY <1>1, <1>2, <1>5 DEF NoticesInv, NoticesType
<1>7. SignedOutQuiet'
  BY <1>1, <1>2, <1>3, <1>5 DEF NoticesInv, SignedOutQuiet
<1> QED
  BY <1>5, <1>6, <1>7 DEF NoticesInv

\* A tab signs in or out.
LEMMA SignStep ==
  ASSUME NoticesInv, NEW t \in Tabs, SignIn(t) \/ SignOut(t)
  PROVE  NoticesInv' /\ Promise!BoardNext
<1>1. CASE SignIn(t)
  <2>1. /\ stream' = [stream EXCEPT ![t].at = "connecting"]
        /\ loading' = [loading EXCEPT ![t] = TRUE]
        /\ UNCHANGED <<rows, wire, dismissed, shown>>
    BY <1>1 DEF SignIn, server
  <2>2. NoticesInv'
    BY <2>1, SMTT(30) DEF NoticesInv, NoticesType, SignedOutQuiet, On
  <2>3. Signed' = Signed \cup {t} /\ Current' = Current
    BY <2>1 DEF Signed, On, Current, NoticesInv, NoticesType
  <2>4. Promise!SignIn(t)
    BY <2>1, <2>3 DEF Promise!SignIn
  <2> QED
    BY <2>2, <2>4 DEF Promise!BoardNext
<1>2. CASE SignOut(t)
  <2>1. /\ stream' = [stream EXCEPT ![t] = Off]
        /\ loading' = [loading EXCEPT ![t] = FALSE]
        /\ wire' = [wire EXCEPT ![t] = {}]
        /\ shown' = [shown EXCEPT ![t] = {}]
        /\ UNCHANGED <<rows, dismissed>>
    BY <1>2 DEF SignOut, server
  <2>2. NoticesInv'
    BY <2>1 DEF NoticesInv, NoticesType, SignedOutQuiet, On, Off
  <2>3. Signed' = Signed \ {t} /\ Current' = Current
    BY <2>1 DEF Signed, On, Off, Current, NoticesInv, NoticesType
  <2>4. Promise!SignOut(t)
    BY <2>1, <2>3 DEF Promise!SignOut
  <2> QED
    BY <2>2, <2>4 DEF Promise!BoardNext
<1> QED
  BY <1>1, <1>2

\* A stream opens, breaks, is refused or waits; a load is sent or fails.
LEMMA StreamStep ==
  ASSUME NoticesInv, NEW t \in Tabs,
         \/ Open(t) \/ Refused(t) \/ Break(t) \/ Reconnect(t)
         \/ LoadFails(t) \/ FallbackSync(t)
  PROVE  NoticesInv' /\ UNCHANGED Promise!boardVars
<1>1. /\ On(t)
      /\ UNCHANGED <<rows, dismissed, shown>>
  BY DEF Open, Refused, Break, Fail, Reconnect, LoadFails, FallbackSync, server,
         NoticesInv, SignedOutQuiet, On
<1>2. /\ stream' \in [Tabs -> [at : {"off", "connecting", "open", "waiting", "noToken"},
                              of : Instances \cup {"none"}, snapshot : BOOLEAN]]
      /\ stream'[t].at /= "off"
      /\ \A u \in Tabs : u /= t => stream'[u] = stream[u]
  <2>1. CASE Open(t)
    BY <2>1 DEF Open, NoticesInv, NoticesType
  <2>2. CASE Refused(t) \/ Break(t)
    <3>1. stream' = [stream EXCEPT ![t] = [at |-> "waiting", of |-> "none", snapshot |-> FALSE]]
      BY <2>2 DEF Refused, Break, Fail
    <3> QED
      BY <3>1 DEF NoticesInv, NoticesType
  <2>3. CASE Reconnect(t)
    BY <2>3 DEF Reconnect, NoticesInv, NoticesType
  <2>4. CASE LoadFails(t) \/ FallbackSync(t)
    BY <1>1, <2>4 DEF LoadFails, FallbackSync, On, NoticesInv, NoticesType
  <2> QED
    BY <2>1, <2>2, <2>3, <2>4
<1>3. /\ loading' \in [Tabs -> BOOLEAN]
      /\ wire' \in [Tabs -> SUBSET SUBSET Notes]
      /\ \A u \in Tabs : u /= t => loading'[u] = loading[u] /\ wire'[u] = wire[u]
  <2>1. CASE Refused(t) \/ Break(t)
    <3>1. PICK rest \in SUBSET wire[t] : wire' = [wire EXCEPT ![t] = rest]
      BY <2>1 DEF Refused, Break, Fail
    <3>2. loading' = [loading EXCEPT ![t] = TRUE]
      BY <2>1 DEF Refused, Break, Fail
    <3> QED
      BY <3>1, <3>2 DEF NoticesInv, NoticesType
  <2>2. CASE Open(t) \/ Reconnect(t) \/ LoadFails(t) \/ FallbackSync(t)
    BY <2>2 DEF Open, Reconnect, LoadFails, FallbackSync, NoticesInv, NoticesType
  <2> QED
    BY <2>1, <2>2
<1>4. \A u \in Tabs : On(u)' <=> On(u)
  BY <1>1, <1>2 DEF On
<1>5. UNCHANGED <<Current, Signed>>
  BY <1>1, <1>4 DEF Current, Signed
<1>6. NoticesType'
  BY <1>1, <1>2, <1>3 DEF NoticesInv, NoticesType
<1>7. SignedOutQuiet'
  BY <1>1, <1>2, <1>3, <1>4 DEF NoticesInv, SignedOutQuiet
<1> QED
  BY <1>1, <1>5, <1>6, <1>7 DEF NoticesInv, Promise!boardVars

\* A tab shows what arrives, and lets go of what has run out or is put away.
LEMMA TabStep ==
  ASSUME NoticesInv, NEW t \in Tabs,
         \/ RemoveExpired(t)
         \/ \E m \in wire[t] : Receive(t, m)
         \/ \E n \in Notes : Dismiss(t, n)
  PROVE  NoticesInv' /\ Promise!BoardNext
<1>1. UNCHANGED <<rows, stream, loading>>
  BY DEF RemoveExpired, Receive, Dismiss, server
<1>2. UNCHANGED <<Current, Signed>> /\ \A u \in Tabs : On(u)' <=> On(u)
  BY <1>1 DEF Current, Signed, On
<1>3. On(t)
  BY DEF RemoveExpired, Receive, Dismiss, NoticesInv, SignedOutQuiet
<1> DEFINE Shows == /\ Promise!BoardNext
                    /\ shown' \in [Tabs -> SUBSET Notes]
                    /\ wire' \in [Tabs -> SUBSET SUBSET Notes]
                    /\ \A u \in Tabs : u /= t => wire'[u] = wire[u] /\ shown'[u] = shown[u]
<1>4. Shows
  <2>1. CASE RemoveExpired(t)
    <3>1. /\ shown' = [shown EXCEPT ![t] = @ \cap Current]
          /\ UNCHANGED <<wire, dismissed>>
      BY <2>1 DEF RemoveExpired
    <3>2. Promise!Tidy(t)
      BY <1>2, <3>1 DEF Promise!Tidy
    <3> QED
      BY <3>1, <3>2 DEF Promise!BoardNext, NoticesInv, NoticesType
  <2>2. ASSUME NEW m \in wire[t], Receive(t, m)
        PROVE  Shows
    <3>1. /\ shown' = [shown EXCEPT ![t] = Merge(@, m)]
          /\ wire' = [wire EXCEPT ![t] = @ \ {m}]
          /\ UNCHANGED dismissed
      BY <2>2 DEF Receive
    <3>2. m \in SUBSET Notes
      BY DEF NoticesInv, NoticesType
    <3>3. Promise!BoardNext /\ shown' \in [Tabs -> SUBSET Notes]
      BY <1>1, <1>2, <1>3, <3>1, <3>2, ShownStep
    <3> QED
      BY <3>1, <3>3 DEF NoticesInv, NoticesType
  <2>3. ASSUME NEW n \in Notes, Dismiss(t, n)
        PROVE  Shows
    <3>1. /\ n \in shown[t]
          /\ dismissed' = dismissed \cup {n}
          /\ shown' = [shown EXCEPT ![t] = @ \ {n}]
          /\ UNCHANGED wire
      BY <2>3 DEF Dismiss
    <3>2. Promise!PutAway(t)
      BY <1>2, <3>1 DEF Promise!PutAway
    <3> QED
      BY <3>1, <3>2 DEF Promise!BoardNext, NoticesInv, NoticesType
  <2> QED
    BY <2>1, <2>2, <2>3
<1>5. NoticesType'
  BY <1>1, <1>4 DEF NoticesInv, NoticesType
<1>6. SignedOutQuiet'
  BY <1>1, <1>2, <1>3, <1>4 DEF NoticesInv, SignedOutQuiet
<1> QED
  BY <1>4, <1>5, <1>6 DEF NoticesInv

\* Every step keeps the invariant and is a step of Board or none.
LEMMA NoticesStep ==
  ASSUME NoticesInv, [NextNotices]_noticeVars
  PROVE  NoticesInv' /\ [Promise!BoardNext]_Promise!boardVars
<1>1. CASE UNCHANGED noticeVars
  BY <1>1 DEF noticeVars, NoticesInv, NoticesType, SignedOutQuiet, On, Promise!boardVars,
              Current, Signed
<1>2. CASE NextNotices
  BY <1>2, ServerStep, ListStep, SignStep, StreamStep, TabStep DEF NextNotices
<1> QED
  BY <1>1, <1>2

(* What a tab shows is the board of its reader (merge and filter of          *)
(* useSystemNotifications.ts), however answers, events, tabs, broken         *)
(* streams and servers interleave, and for any number of each.               *)
THEOREM NoticesImplementBoard == NoticesSpec => BoardKept
<1>1. InitNotices => NoticesInv /\ Promise!BoardInit
  BY NoticesInitial
<1>2. NoticesInv /\ [NextNotices]_noticeVars
        => NoticesInv' /\ [Promise!BoardNext]_Promise!boardVars
  BY NoticesStep
<1> QED
  BY <1>1, <1>2, PTL DEF NoticesSpec, BoardKept, Promise!BoardSpec

-----------------------------------------------------------------------------
(* The counters                                                            *)

Counter(k) == INSTANCE Window WITH Max <- Limit[k],
                used <- past[k].used, deadlineLost <- past[k].noTtl

Places == {"idle", "absent", "dead", "compare", "clear", "incr", "expire",
           "admitted", "refused", "decr", "open", "release"}
Handlers == [at : Places, i : Nat, gone : BOOLEAN, todo : SUBSET Slots, zero : SUBSET Slots]
Histories == [used : Nat, noTtl : BOOLEAN, lost : Int, killed : Nat]

LimitsType ==
  /\ redis \in [Keys -> [n : Int, ttl : BOOLEAN]]
  /\ proc \in [Procs -> Handlers]
  /\ past \in [Keys -> Histories]
  /\ crashes \in Nat

\* Where a handler stands among its keys, and who can be where.
StreamsOnly == {"decr", "open", "release"}
OthersOnly == {"compare", "clear", "admitted", "refused"}
Placed ==
  \A p \in Procs :
    /\ proc[p].i \in 1 .. Len(KeysOf[p])
    /\ proc[p].at \in OthersOnly => p \notin Streams
    /\ proc[p].at \in StreamsOnly => p \in Streams
    /\ proc[p].at = "idle" => proc[p].i = 1
    /\ proc[p].at = "open" => Last(p)
    /\ proc[p].at /= "release" => proc[p].todo = {}

\* What the open window has let in, and what is left of a lost deadline: a counter
\* that counts, has no time to live, and will be given none.
WindowsCounted ==
  \A k \in Windows :
    /\ redis[k].n >= 0
    /\ past[k].used = IF redis[k].n <= Limit[k] THEN redis[k].n ELSE Limit[k]
    /\ past[k].noTtl => /\ redis[k].n > 0 /\ ~redis[k].ttl
                        /\ \A p \in Procs : ~(proc[p].at = "expire" /\ Key(p) = k)

LimitsInv == LimitsType /\ Placed /\ WindowsCounted /\ SlotsAccounted

\* What the assumptions say of a handler's keys.
LEMMA KeysFit ==
  ASSUME NEW p \in Procs
  PROVE  /\ Len(KeysOf[p]) \in Nat \ {0} /\ DOMAIN KeysOf[p] = 1 .. Len(KeysOf[p])
         /\ \A i \in 1 .. Len(KeysOf[p]) : KeysOf[p][i] \in Keys
         /\ p \in Streams => \A i \in 1 .. Len(KeysOf[p]) : KeysOf[p][i] \in Slots \ Windows
         /\ p \notin Streams => \A i \in 1 .. Len(KeysOf[p]) : KeysOf[p][i] \in Windows \ Slots
<1>1. CASE p \in Streams
  <2>1. KeysOf[p] \in Seq(Slots) /\ KeysOf[p] /= <<>> /\ Windows \cap Slots = {}
    BY <1>1, LimitsAssumption
  <2> QED
    BY <1>1, <2>1 DEF Keys
<1>2. CASE p \notin Streams
  <2>1. KeysOf[p] \in Seq(Windows) /\ KeysOf[p] /= <<>> /\ Windows \cap Slots = {}
    BY <1>2, LimitsAssumption DEF Procs
  <2> QED
    BY <1>2, <2>1 DEF Keys
<1> QED
  BY <1>1, <1>2

\* A handler that goes elsewhere.
LEMMA GotoEffect ==
  ASSUME LimitsType, NEW p \in Procs, NEW next \in Places, Goto(p, next)
  PROVE  /\ proc' \in [Procs -> Handlers]
         /\ \A x \in Procs : x /= p => proc'[x] = proc[x]
         /\ proc'[p].at = next /\ proc'[p].i = proc[p].i /\ proc'[p].todo = proc[p].todo
<1> DEFINE r == proc[p]
           q == [r EXCEPT !.at = next]
<1>1. r \in Handlers
  BY DEF LimitsType
<1>2. /\ q \in Handlers
      /\ q.at = next /\ q.i = r.i /\ q.todo = r.todo
  <2> HIDE DEF r
  <2> QED
    BY <1>1 DEF Handlers
<1>3. proc' = [proc EXCEPT ![p] = q]
  BY DEF Goto
<1> HIDE DEF q
<1> QED
  BY <1>2, <1>3 DEF LimitsType

\* What the counter of a key means for the handler that counted.
LEMMA JudgedEffect ==
  ASSUME LimitsType, Placed, NEW p \in Procs, NEW n \in Int
  PROVE  LET q == Judged(p, n) IN
         /\ q \in Handlers /\ q.i \in 1 .. Len(KeysOf[p]) /\ q.todo = proc[p].todo
         /\ q.at \in {"incr", "open", "admitted", "decr", "refused"}
         /\ q.at = "incr" => q.i = proc[p].i + 1
         /\ q.at /= "incr" => q.i = proc[p].i
         /\ q.at = "open" => q.i = Len(KeysOf[p])
         /\ q.at \in {"open", "decr"} => p \in Streams
         /\ q.at \in {"admitted", "refused"} => p \notin Streams
<1> DEFINE r == proc[p]
           L == Len(KeysOf[p])
           here == IF p \in Streams THEN "open" ELSE "admitted"
           no == IF p \in Streams THEN "decr" ELSE "refused"
           up == r.i + 1
           onward == [[r EXCEPT !.at = "incr"] EXCEPT !.i = up]
           through == [r EXCEPT !.at = here]
           back == [r EXCEPT !.at = no]
<1>1. r \in Handlers /\ r.i \in 1 .. L /\ L \in Nat
  BY KeysFit DEF LimitsType, Placed
<1>2. \/ r.i < L /\ Judged(p, n) = onward
      \/ r.i = L /\ Judged(p, n) = through
      \/ Judged(p, n) = back
  <2>1. CASE Within(Key(p), n) /\ ~Last(p)
    <3>1. r.i < L
      BY <1>1, <2>1 DEF Last
    <3> QED
      BY <2>1, <3>1 DEF Judged
  <2>2. CASE Within(Key(p), n) /\ Last(p)
    BY <2>2 DEF Judged, Last
  <2>3. CASE ~Within(Key(p), n)
    BY <2>3 DEF Judged
  <2> QED
    BY <2>1, <2>2, <2>3
<1>3. /\ here \in Places /\ no \in Places /\ up \in Nat
      /\ here = "open" \/ here = "admitted"
      /\ here = "open" => p \in Streams
      /\ here = "admitted" => p \notin Streams
      /\ no = "decr" \/ no = "refused"
      /\ no = "decr" => p \in Streams
      /\ no = "refused" => p \notin Streams
  BY <1>1 DEF Places
<1>4. onward \in Handlers /\ onward.at = "incr" /\ onward.i = up /\ onward.todo = r.todo
  <2> HIDE DEF r, up
  <2> QED
    BY <1>1, <1>3 DEF Handlers, Places
<1>5. through \in Handlers /\ through.at = here /\ through.i = r.i /\ through.todo = r.todo
  <2> HIDE DEF r, here
  <2> QED
    BY <1>1, <1>3 DEF Handlers
<1>6. back \in Handlers /\ back.at = no /\ back.i = r.i /\ back.todo = r.todo
  <2> HIDE DEF r, no
  <2> QED
    BY <1>1, <1>3 DEF Handlers
<1>7. CASE r.i < L /\ Judged(p, n) = onward
  <2>1. up \in 1 .. L
    BY <1>1, <1>7
  <2> HIDE DEF onward
  <2> QED
    BY <1>7, <1>4, <2>1
<1>8. CASE r.i = L /\ Judged(p, n) = through
  <2> HIDE DEF through, here
  <2> QED
    BY <1>8, <1>1, <1>3, <1>5
<1>9. CASE Judged(p, n) = back
  <2> HIDE DEF back, no
  <2> QED
    BY <1>9, <1>1, <1>3, <1>6
<1> QED
  BY <1>2, <1>7, <1>8, <1>9

-----------------------------------------------------------------------------
(* The streams that are counted in a slot                                  *)

LEMMA HoldersFinite ==
  ASSUME NEW k
  PROVE  IsFiniteSet(Holders(k)) /\ Cardinality(Holders(k)) \in Nat
<1>1. IsFiniteSet(Streams) /\ Holders(k) \subseteq Streams
  BY LimitsAssumption DEF Holders
<1> QED
  BY <1>1, FS_Subset, FS_CardinalityType

\* One stream steps; S is what it holds of the slots afterwards.
LEMMA HoldersSame ==
  ASSUME NEW p, \A x \in Streams : x /= p => proc'[x] = proc[x],
         p \in Streams => Holds(p)' = Holds(p),
         NEW k
  PROVE  Holders(k)' = Holders(k)
<1>1. \A x \in Streams : Holds(x)' = Holds(x)
  <2> TAKE x \in Streams
  <2>1. CASE x = p
    BY <2>1
  <2>2. CASE x /= p
    BY <2>2 DEF Holds
  <2> QED
    BY <2>1, <2>2
<1> QED
  BY <1>1 DEF Holders

LEMMA HoldersMore ==
  ASSUME NEW p \in Streams, \A x \in Streams : x /= p => proc'[x] = proc[x],
         NEW j, j \notin Holds(p), Holds(p)' = Holds(p) \cup {j}
  PROVE  /\ Cardinality(Holders(j)') = Cardinality(Holders(j)) + 1
         /\ \A k : k /= j => Holders(k)' = Holders(k)
<1>1. \A x \in Streams : x /= p => Holds(x)' = Holds(x)
  BY DEF Holds
<1>2. Holders(j)' = Holders(j) \cup {p} /\ p \notin Holders(j)
  BY <1>1 DEF Holders
<1>3. \A k : k /= j => Holders(k)' = Holders(k)
  BY <1>1 DEF Holders
<1>4. Cardinality(Holders(j) \cup {p}) = Cardinality(Holders(j)) + 1
  BY <1>2, HoldersFinite, FS_AddElement
<1> QED
  BY <1>2, <1>3, <1>4

LEMMA HoldersFewer ==
  ASSUME NEW p \in Streams, \A x \in Streams : x /= p => proc'[x] = proc[x],
         NEW j, j \in Holds(p), Holds(p)' = Holds(p) \ {j}
  PROVE  /\ Cardinality(Holders(j)') = Cardinality(Holders(j)) - 1
         /\ \A k : k /= j => Holders(k)' = Holders(k)
<1>1. \A x \in Streams : x /= p => Holds(x)' = Holds(x)
  BY DEF Holds
<1>2. Holders(j)' = Holders(j) \ {p} /\ p \in Holders(j)
  BY <1>1 DEF Holders
<1>3. \A k : k /= j => Holders(k)' = Holders(k)
  BY <1>1 DEF Holders
<1>4. Cardinality(Holders(j) \ {p}) = Cardinality(Holders(j)) - 1
  BY <1>2, HoldersFinite, FS_RemoveElement
<1> QED
  BY <1>2, <1>3, <1>4

-----------------------------------------------------------------------------
(* The parts of the invariant, one step of one handler                     *)

\* Where the handlers stand, when one of them has moved.
LEMMA PlacedStep ==
  ASSUME Placed, NEW p \in Procs,
         \A x \in Procs : x /= p => proc'[x] = proc[x],
         proc'[p].i \in 1 .. Len(KeysOf[p]),
         proc'[p].at \in OthersOnly => p \notin Streams,
         proc'[p].at \in StreamsOnly => p \in Streams,
         proc'[p].at /= "idle",
         proc'[p].at = "open" => proc'[p].i = Len(KeysOf[p]),
         proc'[p].at /= "release" => proc'[p].todo = {}
  PROVE  Placed'
<1>1. ASSUME NEW x \in Procs
      PROVE  /\ proc'[x].i \in 1 .. Len(KeysOf[x])
             /\ proc'[x].at \in OthersOnly => x \notin Streams
             /\ proc'[x].at \in StreamsOnly => x \in Streams
             /\ proc'[x].at = "idle" => proc'[x].i = 1
             /\ proc'[x].at = "open" => proc'[x].i = Len(KeysOf[x])
             /\ proc'[x].at /= "release" => proc'[x].todo = {}
  <2>1. CASE x = p
    BY <2>1
  <2>2. CASE x /= p
    <3>1. proc'[x] = proc[x]
      BY <2>2
    <3> QED
      BY <3>1 DEF Placed, Last
  <2> QED
    BY <2>1, <2>2
<1> QED
  BY <1>1 DEF Placed, Last, OthersOnly, StreamsOnly

\* A handler moves and no counter changes.
LEMMA QuietStep ==
  ASSUME LimitsInv, NEW p \in Procs, UNCHANGED <<redis, past>>,
         \A x \in Procs : x /= p => proc'[x] = proc[x],
         proc'[p].at /= "expire",
         p \in Streams => Holds(p)' = Holds(p)
  PROVE  WindowsCounted' /\ SlotsAccounted' /\ \A k \in Windows : UNCHANGED Counter(k)!windowVars
<1>1. WindowsCounted'
  <2>1. ASSUME NEW k \in Windows, past[k].noTtl, NEW x \in Procs
        PROVE  ~(proc'[x].at = "expire" /\ KeysOf[x][proc'[x].i] = k)
    <3>1. CASE x = p
      BY <3>1
    <3>2. CASE x /= p
      BY <2>1, <3>2 DEF LimitsInv, WindowsCounted, Key
    <3> QED
      BY <3>1, <3>2
  <2> QED
    BY <2>1 DEF LimitsInv, WindowsCounted, Key
<1>2. SlotsAccounted'
  <2>1. \A k \in Slots : Holders(k)' = Holders(k)
    BY HoldersSame DEF Procs
  <2> QED
    BY <2>1 DEF LimitsInv, SlotsAccounted
<1>3. \A k \in Windows : UNCHANGED Counter(k)!windowVars
  BY DEF Counter!windowVars
<1> QED
  BY <1>1, <1>2, <1>3

\* The slots of a stream at each place of its handler.
LEMMA HoldsAt ==
  ASSUME NEW p
  PROVE  /\ proc[p].at = "incr" => Holds(p) = {KeysOf[p][j] : j \in 1 .. proc[p].i - 1}
         /\ proc[p].at \in {"expire", "decr", "open"}
              => Holds(p) = {KeysOf[p][j] : j \in 1 .. proc[p].i}
         /\ proc[p].at = "release" => Holds(p) = proc[p].todo
         /\ proc[p].at \notin {"incr", "expire", "decr", "open", "release"} => Holds(p) = {}
BY DEF Holds

LEMMA HoldsNext ==
  ASSUME NEW p
  PROVE  /\ proc'[p].at = "incr" => Holds(p)' = {KeysOf[p][j] : j \in 1 .. proc'[p].i - 1}
         /\ proc'[p].at \in {"expire", "decr", "open"}
              => Holds(p)' = {KeysOf[p][j] : j \in 1 .. proc'[p].i}
         /\ proc'[p].at = "release" => Holds(p)' = proc'[p].todo
         /\ proc'[p].at \notin {"incr", "expire", "decr", "open", "release"} => Holds(p)' = {}
BY DEF Holds

WindowNext(k) == Counter(k)!Take \/ Counter(k)!Close \/ Counter(k)!LoseDeadline

\* DEL, or the end of a time to live.
LEMMA GoneEffect ==
  ASSUME LimitsType, NEW k \in Keys, Gone(k)
  PROVE  /\ redis' \in [Keys -> [n : Int, ttl : BOOLEAN]]
         /\ past' \in [Keys -> Histories]
         /\ redis'[k] = None
         /\ past'[k].used = 0 /\ past'[k].noTtl = FALSE /\ past'[k].killed = past[k].killed
         /\ k \in Slots => past'[k].lost = past[k].lost + redis[k].n
         /\ \A j \in Keys : j /= k => redis'[j] = redis[j] /\ past'[j] = past[j]
<1> DEFINE r == past[k]
           away == IF k \in Slots THEN past[k].lost + redis[k].n ELSE past[k].lost
           q == [r EXCEPT !.used = 0, !.noTtl = FALSE, !.lost = away]
<1>1. r \in Histories /\ away \in Int
  BY DEF LimitsType, Histories
<1>2. /\ q \in Histories
      /\ q.used = 0 /\ q.noTtl = FALSE /\ q.killed = r.killed /\ q.lost = away
  <2> HIDE DEF r, away
  <2> QED
    BY <1>1 DEF Histories
<1>3. past' = [past EXCEPT ![k] = q]
  BY DEF Gone
<1>4. redis' = [redis EXCEPT ![k] = None] /\ None \in [n : Int, ttl : BOOLEAN]
  BY DEF Gone, None
<1> HIDE DEF q
<1> QED
  BY <1>2, <1>3, <1>4 DEF LimitsType

\* A key ends while the handlers go on, none of them to set a deadline.
LEMMA GoneStep ==
  ASSUME LimitsInv, NEW k \in Keys, Gone(k),
         \A j \in Slots : Holders(j)' = Holders(j),
         \A x \in Procs : proc'[x].at = "expire" => proc[x].at = "expire" /\ proc'[x].i = proc[x].i
  PROVE  /\ redis' \in [Keys -> [n : Int, ttl : BOOLEAN]]
         /\ past' \in [Keys -> Histories]
         /\ WindowsCounted' /\ SlotsAccounted'
         /\ \A j \in Windows : WindowNext(j) \/ UNCHANGED Counter(j)!windowVars
<1>1. LimitsType
  BY DEF LimitsInv
<1>2. /\ redis' \in [Keys -> [n : Int, ttl : BOOLEAN]]
      /\ past' \in [Keys -> Histories]
      /\ redis'[k].n = 0 /\ ~redis'[k].ttl
      /\ past'[k].used = 0 /\ past'[k].noTtl = FALSE /\ past'[k].killed = past[k].killed
      /\ k \in Slots => past'[k].lost = past[k].lost + redis[k].n
      /\ \A j \in Keys : j /= k => redis'[j] = redis[j] /\ past'[j] = past[j]
  <2>1. redis'[k] = None
    BY <1>1, GoneEffect
  <2>2. redis'[k].n = 0 /\ ~redis'[k].ttl
    BY <2>1 DEF None
  <2> QED
    BY <1>1, <2>2, GoneEffect
<1>3. ASSUME NEW j \in Windows
      PROVE  /\ redis'[j].n >= 0
             /\ past'[j].used = IF redis'[j].n <= Limit[j] THEN redis'[j].n ELSE Limit[j]
             /\ past'[j].noTtl => /\ redis'[j].n > 0 /\ ~redis'[j].ttl
                                  /\ \A x \in Procs : ~(proc'[x].at = "expire"
                                                        /\ KeysOf[x][proc'[x].i] = j)
             /\ WindowNext(j) \/ UNCHANGED Counter(j)!windowVars
  <2>1. CASE j = k
    <3>1. Limit[j] \in Nat \ {0}
      BY LimitsAssumption DEF Keys
    <3>2. CASE past[j].used > 0
      <4>1. Counter(j)!Close
        BY <1>2, <2>1, <3>2 DEF Counter!Close
      <4> QED
        BY <1>2, <2>1, <3>1, <4>1 DEF WindowNext
    <3>3. CASE ~(past[j].used > 0)
      <4>1. past[j] \in Histories
        BY <1>1 DEF LimitsType, Keys
      <4>2. past[j].used = 0
        BY <3>3, <4>1 DEF Histories
      <4>3. past[j].noTtl = FALSE
        BY <3>1, <4>1, <4>2 DEF LimitsInv, WindowsCounted, Histories
      <4>4. UNCHANGED Counter(j)!windowVars
        BY <1>2, <2>1, <4>2, <4>3 DEF Counter!windowVars
      <4> QED
        BY <1>2, <2>1, <3>1, <4>4
    <3> QED
      BY <3>2, <3>3
  <2>2. CASE j /= k
    <3>1. redis'[j] = redis[j] /\ past'[j] = past[j]
      BY <1>2, <2>2 DEF Keys
    <3>2. UNCHANGED Counter(j)!windowVars
      BY <3>1 DEF Counter!windowVars
    <3>3. ASSUME past[j].noTtl, NEW x \in Procs
          PROVE  ~(proc'[x].at = "expire" /\ KeysOf[x][proc'[x].i] = j)
      BY <3>3 DEF LimitsInv, WindowsCounted, Key
    <3> QED
      BY <3>1, <3>2, <3>3 DEF LimitsInv, WindowsCounted
  <2> QED
    BY <2>1, <2>2
<1>4. WindowsCounted'
  BY <1>3 DEF WindowsCounted, Key
<1>5. SlotsAccounted'
  <2>1. ASSUME NEW j \in Slots
        PROVE  redis'[j].n + past'[j].lost = Cardinality(Holders(j)') + past'[j].killed
    <3>1. redis[j].n + past[j].lost = Cardinality(Holders(j)) + past[j].killed
      BY DEF LimitsInv, SlotsAccounted
    <3>2. Holders(j)' = Holders(j) /\ Cardinality(Holders(j)) \in Nat
      BY HoldersFinite
    <3>3. redis[j] \in [n : Int, ttl : BOOLEAN] /\ past[j] \in Histories
      BY <1>1 DEF LimitsType, Keys
    <3>4. CASE j = k
      BY <1>2, <3>1, <3>2, <3>3, <3>4 DEF Histories
    <3>5. CASE j /= k
      BY <1>2, <3>1, <3>2, <3>5 DEF Keys
    <3> QED
      BY <3>4, <3>5
  <2> QED
    BY <2>1 DEF SlotsAccounted
<1> QED
  BY <1>2, <1>3, <1>4, <1>5

-----------------------------------------------------------------------------
(* The steps                                                               *)

\* What a step keeps, and what it is to the windows.
Kept == LimitsInv' /\ \A k \in Windows : WindowNext(k) \/ UNCHANGED Counter(k)!windowVars

\* A handler starts, or a guess is compared.
LEMMA StartStep ==
  ASSUME LimitsInv, NEW p \in Procs,
         \/ p \notin Guesses /\ StartRequest(p)
         \/ p \in Guesses /\ StartGuess(p)
         \/ Compare(p)
  PROVE  Kept
<1>1. LimitsType /\ Placed
  BY DEF LimitsInv
<1>2. PICK next \in {"incr", "refused", "compare", "clear"} :
        /\ Goto(p, next) /\ UNCHANGED <<redis, crashes, past>>
        /\ proc[p].at \in {"idle", "compare"}
        /\ next = "incr" => proc[p].at = "idle" \/ p \notin Streams
        /\ next /= "incr" => p \notin Streams
  <2>1. CASE p \notin Guesses /\ StartRequest(p)
    BY <2>1 DEF StartRequest
  <2>2. CASE p \in Guesses /\ StartGuess(p)
    <3>1. p \notin Streams
      BY <2>2, LimitsAssumption
    <3> QED
      BY <2>2, <3>1 DEF StartGuess
  <2>3. CASE Compare(p)
    <3>1. p \notin Streams
      BY <1>1, <2>3 DEF Compare, Placed, OthersOnly
    <3> QED
      BY <2>3, <3>1 DEF Compare
  <2> QED
    BY <2>1, <2>2, <2>3
<1>3. /\ proc' \in [Procs -> Handlers]
      /\ \A x \in Procs : x /= p => proc'[x] = proc[x]
      /\ proc'[p].at = next /\ proc'[p].i = proc[p].i /\ proc'[p].todo = proc[p].todo
  BY <1>1, <1>2, GotoEffect DEF Places
<1>4. /\ proc[p].i \in 1 .. Len(KeysOf[p]) /\ proc[p].todo = {}
      /\ proc[p].at = "idle" => proc[p].i = 1
  BY <1>1, <1>2 DEF Placed
<1>5. Placed'
  BY <1>1, <1>2, <1>3, <1>4, PlacedStep DEF OthersOnly, StreamsOnly
<1>6. ASSUME p \in Streams
      PROVE  Holds(p)' = Holds(p)
  <2>1. proc[p].at = "idle" /\ next = "incr"
    BY <1>2, <1>6
  <2>2. Holds(p) = {}
    BY <2>1, HoldsAt
  <2>3. Holds(p)' = {KeysOf[p][j] : j \in 1 .. 1 - 1}
    BY <1>3, <1>4, <2>1, HoldsNext
  <2> QED
    BY <2>2, <2>3
<1>7. WindowsCounted' /\ SlotsAccounted' /\ \A k \in Windows : UNCHANGED Counter(k)!windowVars
  BY <1>2, <1>3, <1>6, QuietStep
<1>8. LimitsType'
  BY <1>1, <1>2, <1>3 DEF LimitsType
<1> QED
  BY <1>5, <1>7, <1>8 DEF Kept, LimitsInv

\* The counter of a guess is cleared.
LEMMA ClearStep ==
  ASSUME LimitsInv, NEW p \in Procs, ClearAttempts(p)
  PROVE  Kept
<1>1. LimitsType /\ Placed
  BY DEF LimitsInv
<1>2. /\ proc[p].at = "clear" /\ Gone(Key(p)) /\ Goto(p, "admitted") /\ UNCHANGED crashes
      /\ p \notin Streams
  BY <1>1 DEF ClearAttempts, Placed, OthersOnly
<1>3. /\ proc' \in [Procs -> Handlers]
      /\ \A x \in Procs : x /= p => proc'[x] = proc[x]
      /\ proc'[p].at = "admitted" /\ proc'[p].i = proc[p].i /\ proc'[p].todo = proc[p].todo
  BY <1>1, <1>2, GotoEffect DEF Places
<1>4. proc[p].i \in 1 .. Len(KeysOf[p]) /\ proc[p].todo = {}
  BY <1>1, <1>2 DEF Placed
<1>5. Key(p) \in Keys
  BY <1>4, KeysFit DEF Key
<1>6. Placed'
  BY <1>1, <1>2, <1>3, <1>4, PlacedStep DEF StreamsOnly
<1>7. /\ \A j \in Slots : Holders(j)' = Holders(j)
      /\ \A x \in Procs : proc'[x].at = "expire" => proc[x].at = "expire" /\ proc'[x].i = proc[x].i
  BY <1>2, <1>3, HoldersSame DEF Procs
<1>8. /\ redis' \in [Keys -> [n : Int, ttl : BOOLEAN]]
      /\ past' \in [Keys -> Histories]
      /\ WindowsCounted' /\ SlotsAccounted'
      /\ \A j \in Windows : WindowNext(j) \/ UNCHANGED Counter(j)!windowVars
  BY <1>2, <1>5, <1>7, GoneStep
<1>9. LimitsType'
  BY <1>1, <1>2, <1>3, <1>8 DEF LimitsType
<1> QED
  BY <1>6, <1>8, <1>9 DEF Kept, LimitsInv

\* A key runs out.
LEMMA ExpiryStep ==
  ASSUME LimitsInv, NEW k \in Keys, KeyExpires(k)
  PROVE  Kept
<1>1. LimitsType /\ Placed
  BY DEF LimitsInv
<1>2. Gone(k) /\ UNCHANGED <<proc, crashes>>
  BY DEF KeyExpires
<1>3. Placed' /\ \A j \in Slots : Holders(j)' = Holders(j)
  BY <1>1, <1>2 DEF Placed, Last, Holders, Holds
<1>4. /\ redis' \in [Keys -> [n : Int, ttl : BOOLEAN]]
      /\ past' \in [Keys -> Histories]
      /\ WindowsCounted' /\ SlotsAccounted'
      /\ \A j \in Windows : WindowNext(j) \/ UNCHANGED Counter(j)!windowVars
  BY <1>2, <1>3, GoneStep
<1>5. LimitsType'
  BY <1>1, <1>2, <1>4 DEF LimitsType
<1> QED
  BY <1>3, <1>4, <1>5 DEF Kept, LimitsInv

\* INCR: the counter, and what it tells the handler.
LEMMA IncrEffect ==
  ASSUME LimitsInv, NEW p \in Procs, Incr(p)
  PROVE  /\ Key(p) \in Keys /\ crashes' = crashes
         /\ redis' \in [Keys -> [n : Int, ttl : BOOLEAN]]
         /\ past' \in [Keys -> Histories]
         /\ redis'[Key(p)].n = redis[Key(p)].n + 1 /\ redis'[Key(p)].ttl = redis[Key(p)].ttl
         /\ past'[Key(p)].noTtl = past[Key(p)].noTtl /\ past'[Key(p)].lost = past[Key(p)].lost
         /\ past'[Key(p)].killed = past[Key(p)].killed
         /\ past'[Key(p)].used = IF Key(p) \in Windows /\ Within(Key(p), redis[Key(p)].n + 1)
                                 THEN past[Key(p)].used + 1 ELSE past[Key(p)].used
         /\ \A j \in Keys : j /= Key(p) => redis'[j] = redis[j] /\ past'[j] = past[j]
<1> DEFINE k == Key(p)
           r == redis[k]
           n == r.n + 1
           s == past[k]
           more == IF k \in Windows /\ Within(k, n) THEN s.used + 1 ELSE s.used
           r_ == [r EXCEPT !.n = n]
           s_ == [s EXCEPT !.used = more]
<1>1. LimitsType /\ Placed
  BY DEF LimitsInv
<1>2. k \in Keys
  BY <1>1, KeysFit DEF Placed, Key
<1>3. r \in [n : Int, ttl : BOOLEAN] /\ s \in Histories /\ n \in Int /\ more \in Nat
  BY <1>1, <1>2 DEF LimitsType, Histories
<1>4. r_ \in [n : Int, ttl : BOOLEAN] /\ r_.n = n /\ r_.ttl = r.ttl
  <2> HIDE DEF r, n
  <2> QED
    BY <1>3
<1>5. /\ s_ \in Histories
      /\ s_.used = more /\ s_.noTtl = s.noTtl /\ s_.lost = s.lost /\ s_.killed = s.killed
  <2> HIDE DEF s, more
  <2> QED
    BY <1>3 DEF Histories
<1>6. redis' = [redis EXCEPT ![k] = r_] /\ past' = [past EXCEPT ![k] = s_] /\ crashes' = crashes
  BY DEF Incr
<1>7. /\ redis' \in [Keys -> [n : Int, ttl : BOOLEAN]] /\ past' \in [Keys -> Histories]
      /\ redis'[k] = r_ /\ past'[k] = s_
      /\ \A j \in Keys : j /= k => redis'[j] = redis[j] /\ past'[j] = past[j]
  <2> HIDE DEF k, r_, s_
  <2> QED
    BY <1>1, <1>2, <1>4, <1>5, <1>6 DEF LimitsType
<1> HIDE DEF r_, s_
<1> QED
  BY <1>2, <1>4, <1>5, <1>6, <1>7

\* Where the handler goes after INCR or EXPIRE.
LEMMA CountedEffect ==
  ASSUME LimitsInv, NEW p \in Procs, proc[p].at \in {"incr", "expire"}, NEW n \in Int,
         \/ proc' = [proc EXCEPT ![p] = [@ EXCEPT !.at = "expire"]]
         \/ proc' = [proc EXCEPT ![p] = Judged(p, n)]
  PROVE  /\ proc' \in [Procs -> Handlers] /\ Placed'
         /\ \A x \in Procs : x /= p => proc'[x] = proc[x]
         /\ proc'[p].at \in {"expire", "incr", "open", "admitted", "decr", "refused"}
         /\ proc' = [proc EXCEPT ![p] = Judged(p, n)] => proc'[p].at /= "expire"
         /\ proc'[p].i = IF proc'[p].at = "incr" THEN proc[p].i + 1 ELSE proc[p].i
         /\ p \in Streams => Holds(p)' = {KeysOf[p][j] : j \in 1 .. proc[p].i}
<1>1. LimitsType /\ Placed
  BY DEF LimitsInv
<1>2. proc[p] \in Handlers /\ proc[p].i \in 1 .. Len(KeysOf[p]) /\ proc[p].todo = {}
  BY <1>1 DEF LimitsType, Placed
<1>3. PICK q \in Handlers :
        /\ proc' = [proc EXCEPT ![p] = q]
        /\ q.i \in 1 .. Len(KeysOf[p]) /\ q.todo = {}
        /\ q.at \in {"expire", "incr", "open", "admitted", "decr", "refused"}
        /\ proc' = [proc EXCEPT ![p] = Judged(p, n)] => q.at /= "expire"
        /\ q.i = IF q.at = "incr" THEN proc[p].i + 1 ELSE proc[p].i
        /\ q.at = "open" => q.i = Len(KeysOf[p])
        /\ q.at \in {"open", "decr"} => p \in Streams
        /\ q.at \in {"admitted", "refused"} => p \notin Streams
  <2>1. CASE proc' = [proc EXCEPT ![p] = Judged(p, n)]
    <3> DEFINE q == Judged(p, n)
    <3>1. /\ q \in Handlers /\ q.i \in 1 .. Len(KeysOf[p]) /\ q.todo = {}
          /\ q.at \in {"incr", "open", "admitted", "decr", "refused"}
          /\ q.i = IF q.at = "incr" THEN proc[p].i + 1 ELSE proc[p].i
          /\ q.at = "open" => q.i = Len(KeysOf[p])
          /\ q.at \in {"open", "decr"} => p \in Streams
          /\ q.at \in {"admitted", "refused"} => p \notin Streams
      BY <1>1, <1>2, JudgedEffect
    <3> HIDE DEF q
    <3>2. q.at /= "expire" /\ q.at \in {"expire", "incr", "open", "admitted", "decr", "refused"}
      BY <3>1
    <3>3. proc' = [proc EXCEPT ![p] = q]
      BY <2>1 DEF q
    <3> QED
      BY <3>1, <3>2, <3>3
  <2>2. CASE proc' /= [proc EXCEPT ![p] = Judged(p, n)]
    <3> DEFINE r == proc[p]
               q == [r EXCEPT !.at = "expire"]
    <3>1. q \in Handlers /\ q.at = "expire" /\ q.i = r.i /\ q.todo = r.todo
      <4> HIDE DEF r
      <4> QED
        BY <1>2 DEF Handlers, Places, r
    <3>2. proc' = [proc EXCEPT ![p] = q]
      BY <2>2
    <3> HIDE DEF q
    <3> QED
      BY <1>2, <2>2, <3>1, <3>2
  <2> QED
    BY <2>1, <2>2
<1>4. /\ proc' \in [Procs -> Handlers] /\ proc'[p] = q
      /\ \A x \in Procs : x /= p => proc'[x] = proc[x]
  BY <1>1, <1>3 DEF LimitsType
<1>5. Placed'
  BY <1>1, <1>3, <1>4, PlacedStep DEF OthersOnly, StreamsOnly
<1>6. ASSUME p \in Streams
      PROVE  Holds(p)' = {KeysOf[p][j] : j \in 1 .. proc[p].i}
  <2>1. CASE q.at = "incr"
    <3>1. proc'[p].i - 1 = proc[p].i
      BY <1>2, <1>3, <1>4, <2>1
    <3> QED
      BY <1>4, <2>1, <3>1, HoldsNext
  <2>2. CASE q.at \in {"expire", "open", "decr"}
    BY <1>3, <1>4, <2>2, HoldsNext
  <2> QED
    BY <1>3, <1>6, <2>1, <2>2
<1> QED
  BY <1>3, <1>4, <1>5, <1>6

\* The windows, when a handler has counted or set a deadline: what a lost deadline
\* leaves behind.
LEMMA StillLost ==
  ASSUME LimitsInv, NEW p \in Procs, NEW j \in Windows, past[j].noTtl,
         \A x \in Procs : x /= p => proc'[x] = proc[x],
         proc'[p].at = "expire" => KeysOf[p][proc'[p].i] /= j,
         NEW x \in Procs
  PROVE  ~(proc'[x].at = "expire" /\ KeysOf[x][proc'[x].i] = j)
<1>1. CASE x = p
  BY <1>1
<1>2. CASE x /= p
  BY <1>2 DEF LimitsInv, WindowsCounted, Key
<1> QED
  BY <1>1, <1>2

\* A stream counts itself in.
LEMMA SlotTaken ==
  ASSUME LimitsInv, NEW p \in Streams, proc[p].at = "incr",
         \A x \in Procs : x /= p => proc'[x] = proc[x],
         Holds(p)' = {KeysOf[p][j] : j \in 1 .. proc[p].i},
         NEW s, s = Key(p)
  PROVE  /\ Cardinality(Holders(s)') = Cardinality(Holders(s)) + 1
         /\ \A k : k /= s => Holders(k)' = Holders(k)
<1>1. /\ p \in Procs /\ proc[p].i \in 1 .. Len(KeysOf[p]) /\ Len(KeysOf[p]) \in Nat
      /\ DOMAIN KeysOf[p] = 1 .. Len(KeysOf[p])
  BY KeysFit DEF LimitsInv, Placed, Procs
<1>2. \A i, j \in DOMAIN KeysOf[p] : KeysOf[p][i] = KeysOf[p][j] => i = j
  BY LimitsAssumption
<1>3. Holds(p) = {KeysOf[p][j] : j \in 1 .. proc[p].i - 1}
  BY HoldsAt
<1>4. s \notin Holds(p)
  <2>1. \A j \in 1 .. proc[p].i - 1 : j \in DOMAIN KeysOf[p] /\ j /= proc[p].i
    BY <1>1
  <2>2. proc[p].i \in DOMAIN KeysOf[p]
    BY <1>1
  <2> QED
    BY <1>2, <1>3, <2>1, <2>2 DEF Key
<1>5. Holds(p)' = Holds(p) \cup {s}
  <2>1. 1 .. proc[p].i = (1 .. proc[p].i - 1) \cup {proc[p].i}
    BY <1>1
  <2> QED
    BY <1>3, <2>1 DEF Key
<1>6. \A x \in Streams : x /= p => proc'[x] = proc[x]
  BY DEF Procs
<1> QED
  BY <1>4, <1>5, <1>6, HoldersMore

LEMMA IncrStep ==
  ASSUME LimitsInv, NEW p \in Procs, Incr(p)
  PROVE  Kept
<1> DEFINE k == Key(p)
           n == redis[k].n + 1
<1>1. LimitsType /\ Placed
  BY DEF LimitsInv
<1>2. /\ k \in Keys /\ crashes' = crashes
      /\ redis' \in [Keys -> [n : Int, ttl : BOOLEAN]]
      /\ past' \in [Keys -> Histories]
      /\ redis'[k].n = n /\ redis'[k].ttl = redis[k].ttl
      /\ past'[k].noTtl = past[k].noTtl /\ past'[k].lost = past[k].lost
      /\ past'[k].killed = past[k].killed
      /\ past'[k].used = IF k \in Windows /\ Within(k, n) THEN past[k].used + 1 ELSE past[k].used
      /\ \A j \in Keys : j /= k => redis'[j] = redis[j] /\ past'[j] = past[j]
  BY IncrEffect
<1>3. /\ proc[p].at = "incr" /\ proc[p].i \in 1 .. Len(KeysOf[p])
      /\ redis[k] \in [n : Int, ttl : BOOLEAN] /\ past[k] \in Histories /\ n \in Int
      /\ Limit[k] \in Nat \ {0}
  BY <1>1, <1>2, LimitsAssumption DEF Incr, Placed, LimitsType
<1>4. /\ proc' \in [Procs -> Handlers] /\ Placed'
      /\ \A x \in Procs : x /= p => proc'[x] = proc[x]
      /\ n /= 1 => proc'[p].at /= "expire"
      /\ proc'[p].at = "expire" => KeysOf[p][proc'[p].i] = k
      /\ p \in Streams => Holds(p)' = {KeysOf[p][j] : j \in 1 .. proc[p].i}
  <2>1. \/ n = 1 /\ proc' = [proc EXCEPT ![p] = [@ EXCEPT !.at = "expire"]]
        \/ n /= 1 /\ proc' = [proc EXCEPT ![p] = Judged(p, n)]
    BY DEF Incr
  <2> HIDE DEF n
  <2> QED
    BY <1>3, <2>1, CountedEffect DEF Key
<1>5. LimitsType'
  BY <1>1, <1>2, <1>4 DEF LimitsType
<1>6. ASSUME NEW j \in Windows
      PROVE  /\ redis'[j].n >= 0
             /\ past'[j].used = IF redis'[j].n <= Limit[j] THEN redis'[j].n ELSE Limit[j]
             /\ past'[j].noTtl => /\ redis'[j].n > 0 /\ ~redis'[j].ttl
                                  /\ \A x \in Procs : ~(proc'[x].at = "expire"
                                                        /\ KeysOf[x][proc'[x].i] = j)
             /\ WindowNext(j) \/ UNCHANGED Counter(j)!windowVars
  <2>1. /\ redis[j].n >= 0
        /\ past[j].used = IF redis[j].n <= Limit[j] THEN redis[j].n ELSE Limit[j]
        /\ past[j].noTtl => redis[j].n > 0 /\ ~redis[j].ttl
    BY DEF LimitsInv, WindowsCounted
  <2>2. CASE j = k
    <3>1. ASSUME past[j].noTtl, NEW x \in Procs
          PROVE  ~(proc'[x].at = "expire" /\ KeysOf[x][proc'[x].i] = j)
      <4>1. n /= 1
        BY <1>3, <2>1, <2>2, <3>1
      <4> QED
        BY <1>4, <4>1, <3>1, StillLost
    <3>2. Within(k, n) <=> redis[k].n < Limit[k]
      BY <1>3 DEF Within
    <3>3. WindowNext(j) \/ UNCHANGED Counter(j)!windowVars
      <4>1. CASE Within(k, n)
        <5>1. Counter(j)!Take
          BY <1>2, <1>3, <2>1, <2>2, <3>2, <4>1 DEF Counter!Take
        <5> QED
          BY <5>1 DEF WindowNext
      <4>2. CASE ~Within(k, n)
        BY <1>2, <2>2, <4>2 DEF Counter!windowVars
      <4> QED
        BY <4>1, <4>2
    <3>4. past'[j].used = IF redis'[j].n <= Limit[j] THEN redis'[j].n ELSE Limit[j]
      BY <1>2, <1>3, <2>1, <2>2, <3>2
    <3>5. redis'[j].n >= 0 /\ (past'[j].noTtl => redis'[j].n > 0 /\ ~redis'[j].ttl)
      BY <1>2, <1>3, <2>1, <2>2
    <3> QED
      BY <1>2, <2>2, <3>1, <3>3, <3>4, <3>5
  <2>3. CASE j /= k
    <3>1. redis'[j] = redis[j] /\ past'[j] = past[j]
      BY <1>2, <2>3 DEF Keys
    <3>2. ASSUME past[j].noTtl, NEW x \in Procs
          PROVE  ~(proc'[x].at = "expire" /\ KeysOf[x][proc'[x].i] = j)
      BY <1>4, <2>3, <3>2, StillLost
    <3>3. UNCHANGED Counter(j)!windowVars
      BY <3>1 DEF Counter!windowVars
    <3> QED
      BY <2>1, <3>1, <3>2, <3>3
  <2> QED
    BY <2>2, <2>3
<1>7. WindowsCounted'
  BY <1>6 DEF WindowsCounted, Key
<1>8. SlotsAccounted'
  <2>1. ASSUME NEW j \in Slots
        PROVE  redis'[j].n + past'[j].lost = Cardinality(Holders(j)') + past'[j].killed
    <3>1. redis[j].n + past[j].lost = Cardinality(Holders(j)) + past[j].killed
      BY DEF LimitsInv, SlotsAccounted
    <3>2. CASE p \in Streams /\ j = k
      <4>1. Cardinality(Holders(j)') = Cardinality(Holders(j)) + 1
        BY <1>3, <1>4, <3>2, SlotTaken
      <4>2. Cardinality(Holders(j)) \in Nat
        BY HoldersFinite
      <4>3. redis[j].n \in Int /\ past[j].lost \in Int /\ past[j].killed \in Nat
        BY <1>3, <3>2 DEF Histories
      <4>4. redis'[j].n = redis[j].n + 1 /\ past'[j].lost = past[j].lost
            /\ past'[j].killed = past[j].killed
        BY <1>2, <3>2
      <4> QED
        BY <3>1, <4>1, <4>2, <4>3, <4>4
    <3>3. CASE p \in Streams /\ j /= k
      <4>1. Holders(j)' = Holders(j)
        BY <1>3, <1>4, <3>3, SlotTaken
      <4> QED
        BY <1>2, <3>1, <3>3, <4>1 DEF Keys
    <3>4. CASE p \notin Streams
      <4>1. Holders(j)' = Holders(j)
        BY <1>4, <3>4, HoldersSame DEF Procs
      <4>2. j /= k
        BY <1>3, <3>4, KeysFit DEF Key
      <4> QED
        BY <1>2, <3>1, <4>1, <4>2 DEF Keys
    <3> QED
      BY <3>2, <3>3, <3>4
  <2> QED
    BY <2>1 DEF SlotsAccounted
<1> QED
  BY <1>4, <1>5, <1>6, <1>7, <1>8 DEF Kept, LimitsInv

\* A key is given its time to live.
LEMMA ExpireStep ==
  ASSUME LimitsInv, NEW p \in Procs, Expire(p)
  PROVE  Kept
<1> DEFINE k == Key(p)
           there == redis[k] /= None
           r == redis[k]
           r_ == [r EXCEPT !.ttl = there]
<1>1. LimitsType /\ Placed
  BY DEF LimitsInv
<1>2. /\ proc[p].at = "expire" /\ proc[p].i \in 1 .. Len(KeysOf[p]) /\ k \in Keys
  BY <1>1, KeysFit DEF Expire, Placed, Key
<1>3. /\ proc' \in [Procs -> Handlers] /\ Placed'
      /\ \A x \in Procs : x /= p => proc'[x] = proc[x]
      /\ proc'[p].at /= "expire"
      /\ p \in Streams => Holds(p)' = {KeysOf[p][j] : j \in 1 .. proc[p].i}
  <2>1. proc' = [proc EXCEPT ![p] = Judged(p, 1)] /\ 1 \in Int
    BY DEF Expire
  <2> QED
    BY <1>2, <2>1, CountedEffect
<1>4. /\ redis' \in [Keys -> [n : Int, ttl : BOOLEAN]]
      /\ redis'[k].n = redis[k].n
      /\ \A j \in Keys : j /= k => redis'[j] = redis[j]
  <2>1. r \in [n : Int, ttl : BOOLEAN] /\ there \in BOOLEAN
    BY <1>1, <1>2 DEF LimitsType
  <2>2. r_ \in [n : Int, ttl : BOOLEAN] /\ r_.n = r.n
    <3> HIDE DEF r, there
    <3> QED
      BY <2>1
  <2>3. redis' = [redis EXCEPT ![k] = r_]
    BY DEF Expire
  <2> HIDE DEF r_, k
  <2> QED
    BY <1>1, <1>2, <2>2, <2>3 DEF LimitsType, r, k
<1>5. UNCHANGED <<crashes, past>>
  BY DEF Expire
<1>6. LimitsType'
  BY <1>1, <1>3, <1>4, <1>5 DEF LimitsType
<1>7. ASSUME NEW j \in Windows
      PROVE  /\ redis'[j].n >= 0
             /\ past'[j].used = IF redis'[j].n <= Limit[j] THEN redis'[j].n ELSE Limit[j]
             /\ past'[j].noTtl => /\ redis'[j].n > 0 /\ ~redis'[j].ttl
                                  /\ \A x \in Procs : ~(proc'[x].at = "expire"
                                                        /\ KeysOf[x][proc'[x].i] = j)
  <2>1. redis'[j].n = redis[j].n /\ past'[j] = past[j]
    BY <1>4, <1>5 DEF Keys
  <2>2. ASSUME past[j].noTtl
        PROVE  redis'[j] = redis[j]
    <3>1. j /= k
      BY <1>2, <2>2 DEF LimitsInv, WindowsCounted
    <3> QED
      BY <1>4, <3>1 DEF Keys
  <2>3. ASSUME past[j].noTtl, NEW x \in Procs
        PROVE  ~(proc'[x].at = "expire" /\ KeysOf[x][proc'[x].i] = j)
    BY <1>3, <2>3, StillLost
  <2> QED
    BY <2>1, <2>2, <2>3 DEF LimitsInv, WindowsCounted
<1>8. WindowsCounted' /\ \A j \in Windows : UNCHANGED Counter(j)!windowVars
  BY <1>5, <1>7 DEF WindowsCounted, Key, Counter!windowVars
<1>9. SlotsAccounted'
  <2>1. p \in Streams => Holds(p)' = Holds(p)
    BY <1>2, <1>3, HoldsAt
  <2>2. \A j \in Slots : Holders(j)' = Holders(j)
    BY <1>3, <2>1, HoldersSame DEF Procs
  <2>3. \A j \in Slots : redis'[j].n = redis[j].n
    BY <1>4 DEF Keys
  <2> QED
    BY <1>5, <2>2, <2>3 DEF LimitsInv, SlotsAccounted
<1> QED
  BY <1>3, <1>6, <1>8, <1>9 DEF Kept, LimitsInv

\* A stream begins to give back keys.
LEMMA ReleasingEffect ==
  ASSUME LimitsType, NEW p \in Procs, NEW keys \in SUBSET Slots, Releasing(p, keys)
  PROVE  /\ proc' \in [Procs -> Handlers]
         /\ \A x \in Procs : x /= p => proc'[x] = proc[x]
         /\ proc'[p].at = "release" /\ proc'[p].i = proc[p].i /\ proc'[p].todo = keys
<1> DEFINE r == proc[p]
           q == [r EXCEPT !.at = "release", !.todo = keys]
<1>1. r \in Handlers
  BY DEF LimitsType
<1>2. q \in Handlers /\ q.at = "release" /\ q.i = r.i /\ q.todo = keys
  <2> HIDE DEF r
  <2> QED
    BY <1>1 DEF Handlers, Places
<1>3. proc' = [proc EXCEPT ![p] = q]
  BY DEF Releasing
<1> HIDE DEF q
<1> QED
  BY <1>2, <1>3 DEF LimitsType

\* One slot is counted down by a stream that holds it.
LEMMA SlotReturned ==
  ASSUME LimitsInv, NEW p \in Streams, NEW k \in Slots,
         proc' \in [Procs -> Handlers],
         \A x \in Procs : x /= p => proc'[x] = proc[x],
         proc'[p].at = "release", proc'[p].i = proc[p].i,
         k \in Holds(p), Holds(p)' = Holds(p) \ {k},
         redis' = [redis EXCEPT ![k].n = @ - 1], UNCHANGED <<crashes, past>>
  PROVE  Kept
<1>1. LimitsType /\ Placed /\ p \in Procs /\ k \in Keys /\ k \notin Windows
  BY LimitsAssumption DEF LimitsInv, Procs, Keys
<1>2. Placed'
  BY <1>1, PlacedStep DEF Placed, OthersOnly
<1>3. /\ redis' \in [Keys -> [n : Int, ttl : BOOLEAN]]
      /\ redis'[k].n = redis[k].n - 1
      /\ \A j \in Keys : j /= k => redis'[j] = redis[j]
  <2> DEFINE r == redis[k]
             less == r.n - 1
             r_ == [r EXCEPT !.n = less]
  <2>1. r \in [n : Int, ttl : BOOLEAN] /\ less \in Int
    BY <1>1 DEF LimitsType
  <2>2. r_ \in [n : Int, ttl : BOOLEAN] /\ r_.n = less
    <3> HIDE DEF r, less
    <3> QED
      BY <2>1
  <2>3. redis' = [redis EXCEPT ![k] = r_]
    OBVIOUS
  <2> HIDE DEF r_
  <2> QED
    BY <1>1, <2>2, <2>3 DEF LimitsType
<1>4. LimitsType'
  BY <1>1, <1>3 DEF LimitsType
<1>5. \A j \in Windows : redis'[j] = redis[j] /\ UNCHANGED Counter(j)!windowVars
  BY <1>1, <1>3 DEF Keys, Counter!windowVars
<1>6. WindowsCounted'
  <2>1. ASSUME NEW j \in Windows, past[j].noTtl, NEW x \in Procs
        PROVE  ~(proc'[x].at = "expire" /\ KeysOf[x][proc'[x].i] = j)
    BY <1>1, <2>1, StillLost
  <2> QED
    BY <1>5, <2>1 DEF LimitsInv, WindowsCounted, Key
<1>7. SlotsAccounted'
  <2>1. \A x \in Streams : x /= p => proc'[x] = proc[x]
    BY DEF Procs
  <2>2. /\ Cardinality(Holders(k)') = Cardinality(Holders(k)) - 1
        /\ \A j : j /= k => Holders(j)' = Holders(j)
    BY <2>1, HoldersFewer
  <2>3. ASSUME NEW j \in Slots
        PROVE  redis'[j].n + past[j].lost = Cardinality(Holders(j)') + past[j].killed
    <3>1. /\ redis[j].n + past[j].lost = Cardinality(Holders(j)) + past[j].killed
          /\ Cardinality(Holders(j)) \in Nat
      BY HoldersFinite DEF LimitsInv, SlotsAccounted
    <3>2. redis[j].n \in Int /\ past[j].lost \in Int /\ past[j].killed \in Nat
      BY <1>1 DEF LimitsType, Histories, Keys
    <3>3. CASE j = k
      BY <1>3, <2>2, <3>1, <3>2, <3>3
    <3>4. CASE j /= k
      BY <1>3, <2>2, <3>1, <3>4 DEF Keys
    <3> QED
      BY <3>3, <3>4
  <2> QED
    BY <2>3 DEF SlotsAccounted
<1> QED
  BY <1>2, <1>4, <1>5, <1>6, <1>7 DEF Kept, LimitsInv

LEMMA DecrStep ==
  ASSUME LimitsInv, NEW p \in Procs, Decr(p)
  PROVE  Kept
<1> DEFINE i == proc[p].i
           keys == {KeysOf[p][j] : j \in 1 .. i - 1}
<1>1. LimitsType /\ Placed
  BY DEF LimitsInv
<1>2. /\ proc[p].at = "decr" /\ p \in Streams
      /\ redis' = [redis EXCEPT ![Key(p)].n = @ - 1]
      /\ Releasing(p, keys) /\ UNCHANGED <<crashes, past>>
  BY <1>1 DEF Decr, Placed, StreamsOnly
<1>3. /\ i \in 1 .. Len(KeysOf[p]) /\ Len(KeysOf[p]) \in Nat
      /\ DOMAIN KeysOf[p] = 1 .. Len(KeysOf[p])
      /\ \A j \in 1 .. Len(KeysOf[p]) : KeysOf[p][j] \in Slots
  BY <1>1, <1>2, KeysFit DEF Placed
<1>4. keys \in SUBSET Slots
  BY <1>3
<1>5. /\ proc' \in [Procs -> Handlers]
      /\ \A x \in Procs : x /= p => proc'[x] = proc[x]
      /\ proc'[p].at = "release" /\ proc'[p].i = i /\ proc'[p].todo = keys
  BY <1>1, <1>2, <1>4, ReleasingEffect
<1>6. PICK k \in Slots : k = Key(p)
  BY <1>3 DEF Key
<1>7. Holds(p) = {KeysOf[p][j] : j \in 1 .. i} /\ Holds(p)' = keys
  BY <1>2, <1>5, HoldsAt, HoldsNext
<1>8. k \in Holds(p) /\ Holds(p)' = Holds(p) \ {k}
  <2>1. \A m, j \in DOMAIN KeysOf[p] : KeysOf[p][m] = KeysOf[p][j] => m = j
    BY <1>2, LimitsAssumption
  <2>2. i \in 1 .. i /\ i \in DOMAIN KeysOf[p]
    BY <1>3
  <2>3. \A j \in 1 .. i : j \in DOMAIN KeysOf[p] /\ (j = i \/ j \in 1 .. i - 1)
    BY <1>3
  <2>4. \A j \in 1 .. i - 1 : j \in 1 .. i /\ j \in DOMAIN KeysOf[p] /\ j /= i
    BY <1>3
  <2> QED
    BY <1>6, <1>7, <2>1, <2>2, <2>3, <2>4 DEF Key
<1>9. redis' = [redis EXCEPT ![k].n = @ - 1]
  BY <1>2, <1>6
<1> QED
  BY <1>2, <1>5, <1>8, <1>9, SlotReturned

LEMMA ReleaseStep ==
  ASSUME LimitsInv, NEW p \in Procs, NEW k \in Slots, ReleaseKey(p, k)
  PROVE  Kept
<1> DEFINE r == proc[p]
           rest == r.todo \ {k}
           none == IF redis[k].n - 1 <= 0 THEN r.zero \cup {k} ELSE r.zero
           q == [r EXCEPT !.todo = rest, !.zero = none]
<1>1. LimitsType /\ Placed
  BY DEF LimitsInv
<1>2. k \in r.todo /\ r.at = "release" /\ p \in Streams
  BY <1>1 DEF ReleaseKey, Placed, StreamsOnly
<1>3. r \in Handlers /\ rest \in SUBSET Slots /\ none \in SUBSET Slots
  BY <1>1 DEF LimitsType, Handlers
<1>4. q \in Handlers /\ q.at = r.at /\ q.i = r.i /\ q.todo = rest
  <2> HIDE DEF r, rest, none
  <2> QED
    BY <1>3 DEF Handlers
<1>5. /\ redis' = [redis EXCEPT ![k].n = @ - 1]
      /\ proc' = [proc EXCEPT ![p] = q]
      /\ UNCHANGED <<crashes, past>>
  BY DEF ReleaseKey
<1>6. /\ proc' \in [Procs -> Handlers] /\ proc'[p] = q
      /\ \A x \in Procs : x /= p => proc'[x] = proc[x]
  <2> HIDE DEF q
  <2> QED
    BY <1>1, <1>4, <1>5 DEF LimitsType
<1> HIDE DEF q
<1>7. Holds(p) = r.todo /\ Holds(p)' = rest
  BY <1>2, <1>4, <1>6, HoldsAt, HoldsNext
<1> QED
  BY <1>2, <1>4, <1>5, <1>6, <1>7, SlotReturned

\* Who leaves keeps what he holds: it is to be released, or never will be.
LEMMA LeaveStep ==
  ASSUME LimitsInv, NEW p \in Streams, Leave(p)
  PROVE  Kept
<1>1. LimitsType /\ Placed /\ p \in Procs
  BY DEF LimitsInv, Procs
<1>2. UNCHANGED <<redis, crashes, past>>
  BY DEF Leave
<1>3. CASE proc[p].at = "open" /\ Releasing(p, {KeysOf[p][j] : j \in DOMAIN KeysOf[p]})
  <2> DEFINE keys == {KeysOf[p][j] : j \in DOMAIN KeysOf[p]}
  <2>1. /\ proc[p].i = Len(KeysOf[p]) /\ DOMAIN KeysOf[p] = 1 .. Len(KeysOf[p])
        /\ keys \in SUBSET Slots /\ proc[p].i \in 1 .. Len(KeysOf[p])
    BY <1>1, <1>3, KeysFit DEF Placed, Last
  <2>2. /\ proc' \in [Procs -> Handlers]
        /\ \A x \in Procs : x /= p => proc'[x] = proc[x]
        /\ proc'[p].at = "release" /\ proc'[p].i = proc[p].i /\ proc'[p].todo = keys
    BY <1>1, <1>3, <2>1, ReleasingEffect
  <2>3. Holds(p)' = Holds(p)
    BY <1>3, <2>1, <2>2, HoldsAt, HoldsNext, ZenonT(60)
  <2>4. Placed'
    BY <1>1, <2>1, <2>2, PlacedStep DEF OthersOnly
  <2>5. WindowsCounted' /\ SlotsAccounted' /\ \A k \in Windows : UNCHANGED Counter(k)!windowVars
    BY <1>1, <1>2, <2>2, <2>3, QuietStep
  <2>6. LimitsType'
    BY <1>1, <1>2, <2>2 DEF LimitsType
  <2> QED
    BY <2>4, <2>5, <2>6 DEF Kept, LimitsInv
<1>4. CASE proc[p].at \in {"incr", "expire"} /\ proc' = [proc EXCEPT ![p].gone = TRUE]
  <2> DEFINE r == proc[p]
             q == [r EXCEPT !.gone = TRUE]
  <2>1. r \in Handlers
    BY <1>1 DEF LimitsType
  <2>2. q \in Handlers /\ q.at = r.at /\ q.i = r.i /\ q.todo = r.todo
    <3> HIDE DEF r
    <3> QED
      BY <2>1 DEF Handlers
  <2>3. proc' = [proc EXCEPT ![p] = q]
    BY <1>4
  <2>4. /\ proc' \in [Procs -> Handlers] /\ proc'[p] = q
        /\ \A x \in Procs : x /= p => proc'[x] = proc[x]
    <3> HIDE DEF q
    <3> QED
      BY <1>1, <2>2, <2>3 DEF LimitsType
  <2> HIDE DEF q
  <2>5. \A x \in Procs : /\ proc'[x].at = proc[x].at /\ proc'[x].i = proc[x].i
                         /\ proc'[x].todo = proc[x].todo
    BY <2>2, <2>4
  <2>6. Placed'
    BY <1>1, <2>5 DEF Placed, Last
  <2>7. LimitsType'
    BY <1>1, <1>2, <2>4 DEF LimitsType
  <2>8. Holds(p)' = Holds(p)
    BY <1>1, <1>4, <2>5, HoldsAt, HoldsNext, ZenonT(60)
  <2>9. \A j \in Slots : Holders(j)' = Holders(j)
    BY <2>4, <2>8, HoldersSame DEF Procs
  <2>10. WindowsCounted'
    BY <1>2, <2>5 DEF LimitsInv, WindowsCounted, Key
  <2>11. SlotsAccounted' /\ \A k \in Windows : UNCHANGED Counter(k)!windowVars
    BY <1>2, <2>9 DEF LimitsInv, SlotsAccounted, Counter!windowVars
  <2> QED
    BY <2>6, <2>7, <2>10, <2>11 DEF Kept, LimitsInv
<1> QED
  BY <1>3, <1>4 DEF Leave

LEMMA DeleteStep ==
  ASSUME LimitsInv, NEW p \in Procs, NEW k \in Slots, DeleteKey(p, k)
  PROVE  Kept
<1> DEFINE r == proc[p]
           rest == r.zero \ {k}
           q == [r EXCEPT !.zero = rest]
<1>1. LimitsType /\ Placed /\ k \in Keys
  BY DEF LimitsInv, Keys
<1>2. r \in Handlers /\ rest \in SUBSET Slots
  BY <1>1 DEF LimitsType, Handlers
<1>3. q \in Handlers /\ q.at = r.at /\ q.i = r.i /\ q.todo = r.todo
  <2> HIDE DEF r, rest
  <2> QED
    BY <1>2 DEF Handlers
<1>4. Gone(k) /\ proc' = [proc EXCEPT ![p] = q] /\ UNCHANGED crashes
  BY DEF DeleteKey
<1>5. /\ proc' \in [Procs -> Handlers] /\ proc'[p] = q
      /\ \A x \in Procs : x /= p => proc'[x] = proc[x]
  <2> HIDE DEF q
  <2> QED
    BY <1>1, <1>3, <1>4 DEF LimitsType
<1> HIDE DEF q
<1>6. \A x \in Procs : /\ proc'[x].at = proc[x].at /\ proc'[x].i = proc[x].i
                       /\ proc'[x].todo = proc[x].todo
  BY <1>3, <1>5
<1>7. Placed'
  BY <1>1, <1>6 DEF Placed, Last
<1>8. Holds(p)' = Holds(p)
  BY <1>6, HoldsAt, HoldsNext, ZenonT(60)
<1>9. \A j \in Slots : Holders(j)' = Holders(j)
  BY <1>5, <1>8, HoldersSame DEF Procs
<1>10. /\ redis' \in [Keys -> [n : Int, ttl : BOOLEAN]]
       /\ past' \in [Keys -> Histories]
       /\ WindowsCounted' /\ SlotsAccounted'
       /\ \A j \in Windows : WindowNext(j) \/ UNCHANGED Counter(j)!windowVars
  BY <1>1, <1>4, <1>6, <1>9, GoneStep
<1>11. LimitsType'
  BY <1>1, <1>4, <1>5, <1>10 DEF LimitsType
<1> QED
  BY <1>7, <1>10, <1>11 DEF Kept, LimitsInv

\* The server is killed: the streams that were counted are counted among the killed.
LEMMA KillStep ==
  ASSUME LimitsInv, Kill
  PROVE  Kept
<1> DEFINE dead(p) == [proc[p] EXCEPT !.at = "dead", !.todo = {}, !.zero = {}]
           after(k) == [past[k] EXCEPT !.killed = @ + Cardinality(Holders(k)),
                                       !.noTtl = redis[k].n > 0 /\ ~redis[k].ttl]
<1>1. LimitsType /\ Placed /\ UNCHANGED redis
  BY DEF LimitsInv, Kill
<1>2. ASSUME NEW p \in Procs
      PROVE  /\ proc'[p] \in Handlers /\ proc'[p].i = proc[p].i /\ proc'[p].todo = {}
             /\ proc'[p].at \in {"idle", "absent", "dead"}
             /\ proc'[p].at = "idle" => proc[p].at = "idle"
  <2>1. proc'[p] = IF proc[p].at \in {"idle", "absent"} THEN proc[p] ELSE dead(p)
    BY DEF Kill
  <2>2. proc[p] \in Handlers
    BY <1>1 DEF LimitsType
  <2>3. dead(p) \in Handlers /\ dead(p).at = "dead" /\ dead(p).i = proc[p].i /\ dead(p).todo = {}
    <3> DEFINE r == proc[p]
    <3>1. r \in Handlers
      BY <2>2
    <3> HIDE DEF r
    <3>2. LET d == [r EXCEPT !.at = "dead", !.todo = {}, !.zero = {}] IN
          d \in Handlers /\ d.at = "dead" /\ d.i = r.i /\ d.todo = {}
      BY <3>1 DEF Handlers, Places
    <3> QED
      BY <3>2 DEF r
  <2>4. proc[p].at \in {"idle", "absent"} => proc[p].todo = {}
    BY <1>1 DEF Placed
  <2> HIDE DEF dead
  <2> QED
    BY <2>1, <2>2, <2>3, <2>4
<1>3. ASSUME NEW k \in Keys
      PROVE  /\ past'[k] \in Histories
             /\ past'[k].used = past[k].used /\ past'[k].lost = past[k].lost
             /\ past'[k].noTtl = (redis[k].n > 0 /\ ~redis[k].ttl)
             /\ past'[k].killed = past[k].killed + Cardinality(Holders(k))
  <2> DEFINE r == past[k]
             c == r.killed + Cardinality(Holders(k))
             b == redis[k].n > 0 /\ ~redis[k].ttl
             q == [r EXCEPT !.killed = c, !.noTtl = b]
  <2>1. r \in Histories
    BY <1>1 DEF LimitsType
  <2>2. c \in Nat
    BY <2>1, HoldersFinite DEF Histories
  <2>3. b \in BOOLEAN
    OBVIOUS
  <2>4. /\ q \in Histories /\ q.used = r.used /\ q.lost = r.lost
        /\ q.noTtl = b /\ q.killed = c
    <3> HIDE DEF r, c, b
    <3> QED
      BY <2>1, <2>2, <2>3 DEF Histories
  <2>5. past'[k] = q
    BY DEF Kill
  <2> HIDE DEF q
  <2> QED
    BY <2>4, <2>5
<1>4. proc' \in [Procs -> Handlers] /\ past' \in [Keys -> Histories] /\ crashes' \in Nat
  <2>1. /\ proc' = [p \in Procs |-> proc'[p]] /\ past' = [k \in Keys |-> past'[k]]
        /\ crashes' = crashes + 1
    BY DEF Kill
  <2> QED
    BY <1>1, <1>2, <1>3, <2>1 DEF LimitsType
<1>5. LimitsType'
  BY <1>1, <1>4 DEF LimitsType
<1>6. Placed'
  <2>1. ASSUME NEW x \in Procs
        PROVE  /\ proc'[x].i \in 1 .. Len(KeysOf[x])
               /\ proc'[x].at \notin OthersOnly /\ proc'[x].at \notin StreamsOnly
               /\ proc'[x].at = "idle" => proc'[x].i = 1
               /\ proc'[x].at /= "open" /\ proc'[x].todo = {}
    BY <1>1, <1>2 DEF Placed, OthersOnly, StreamsOnly
  <2> QED
    BY <2>1 DEF Placed
<1>7. ASSUME NEW j \in Windows
      PROVE  /\ redis'[j].n >= 0
             /\ past'[j].used = IF redis'[j].n <= Limit[j] THEN redis'[j].n ELSE Limit[j]
             /\ past'[j].noTtl => /\ redis'[j].n > 0 /\ ~redis'[j].ttl
                                  /\ \A x \in Procs : ~(proc'[x].at = "expire"
                                                        /\ KeysOf[x][proc'[x].i] = j)
             /\ WindowNext(j) \/ UNCHANGED Counter(j)!windowVars
  <2>1. /\ j \in Keys /\ redis[j].n >= 0 /\ Limit[j] \in Nat \ {0}
        /\ past[j].used = IF redis[j].n <= Limit[j] THEN redis[j].n ELSE Limit[j]
        /\ past[j].noTtl => redis[j].n > 0 /\ ~redis[j].ttl
        /\ redis[j].n \in Int /\ past[j].noTtl \in BOOLEAN
    BY <1>1, LimitsAssumption DEF Keys, LimitsInv, WindowsCounted, LimitsType, Histories
  <2>2. /\ past'[j].used = past[j].used
        /\ past'[j].noTtl = (redis[j].n > 0 /\ ~redis[j].ttl)
    BY <1>3, <2>1
  <2>3. \A x \in Procs : proc'[x].at /= "expire"
    BY <1>2
  <2>4. WindowNext(j) \/ UNCHANGED Counter(j)!windowVars
    <3>1. CASE redis[j].n > 0 /\ ~redis[j].ttl
      <4>1. past[j].used > 0
        BY <2>1, <3>1
      <4>2. past'[j].noTtl = TRUE
        BY <2>2, <3>1
      <4>3. Counter(j)!LoseDeadline
        BY <2>2, <4>1, <4>2 DEF Counter!LoseDeadline
      <4> QED
        BY <4>3 DEF WindowNext
    <3>2. CASE ~(redis[j].n > 0 /\ ~redis[j].ttl)
      <4>1. past[j].noTtl = FALSE /\ past'[j].noTtl = FALSE
        BY <2>1, <2>2, <3>2
      <4> QED
        BY <2>2, <4>1 DEF Counter!windowVars
    <3> QED
      BY <3>1, <3>2
  <2> QED
    BY <1>1, <2>1, <2>2, <2>3, <2>4
<1>8. WindowsCounted'
  BY <1>7 DEF WindowsCounted, Key
<1>9. SlotsAccounted'
  <2>1. ASSUME NEW j \in Slots
        PROVE  redis'[j].n + past'[j].lost = Cardinality(Holders(j)') + past'[j].killed
    <3>1. /\ redis[j].n + past[j].lost = Cardinality(Holders(j)) + past[j].killed
          /\ Cardinality(Holders(j)) \in Nat /\ j \in Keys
      BY HoldersFinite DEF LimitsInv, SlotsAccounted, Keys
    <3>2. redis[j].n \in Int /\ past[j].lost \in Int /\ past[j].killed \in Nat
      BY <1>1, <3>1 DEF LimitsType, Histories
    <3>3. \A x \in Streams : Holds(x)' = {}
      BY <1>2, HoldsNext DEF Procs
    <3>4. Holders(j)' = {}
      BY <3>3 DEF Holders
    <3>5. Cardinality(Holders(j)') = 0
      BY <3>4, FS_EmptySet
    <3> QED
      BY <1>1, <1>3, <3>1, <3>2, <3>5
  <2> QED
    BY <2>1 DEF SlotsAccounted
<1> QED
  BY <1>5, <1>6, <1>7, <1>8, <1>9 DEF Kept, LimitsInv

-----------------------------------------------------------------------------

LEMMA LimitsInitial ==
  InitLimits => LimitsInv /\ \A k \in Windows : Counter(k)!WindowInit
<1> SUFFICES ASSUME InitLimits
             PROVE  LimitsInv /\ \A k \in Windows : Counter(k)!WindowInit
  OBVIOUS
<1>1. /\ redis = [k \in Keys |-> None] /\ crashes = 0
      /\ past = [k \in Keys |-> [used |-> 0, noTtl |-> FALSE, lost |-> 0, killed |-> 0]]
  BY DEF InitLimits
<1>2. PICK load \in Loads :
        proc = [p \in Procs |-> [at |-> IF p \in load THEN "idle" ELSE "absent", i |-> 1,
                                 gone |-> FALSE, todo |-> {}, zero |-> {}]]
  BY DEF InitLimits
<1>3. \A p \in Procs : /\ proc[p].at \in {"idle", "absent"} /\ proc[p].i = 1
                       /\ proc[p].todo = {} /\ proc[p] \in Handlers
  BY <1>2 DEF Handlers, Places
<1>4. proc \in [Procs -> Handlers]
  BY <1>2, <1>3
<1>5. LimitsType
  BY <1>1, <1>4 DEF LimitsType, None, Histories
<1>6. Placed
  <2>1. \A p \in Procs : 1 \in 1 .. Len(KeysOf[p])
    BY KeysFit
  <2> QED
    BY <1>3, <2>1 DEF Placed, OthersOnly, StreamsOnly
<1>7. WindowsCounted
  BY <1>1, LimitsAssumption DEF WindowsCounted, None, Keys
<1>8. SlotsAccounted
  <2>1. \A x \in Streams : Holds(x) = {}
    BY <1>3, HoldsAt DEF Procs
  <2>2. \A k : Cardinality(Holders(k)) = 0
    BY <2>1, FS_EmptySet DEF Holders
  <2> QED
    BY <1>1, <2>2 DEF SlotsAccounted, None, Keys
<1>9. \A k \in Windows : Counter(k)!WindowInit
  BY <1>1 DEF Counter!WindowInit, Keys
<1> QED
  BY <1>5, <1>6, <1>7, <1>8, <1>9 DEF LimitsInv

\* Every step keeps the invariant and is, for each window, a step of Window or none.
LEMMA LimitsStep ==
  ASSUME LimitsInv, [NextLimits]_limitVars
  PROVE  Kept
<1>1. CASE UNCHANGED limitVars
  BY <1>1 DEF limitVars, Kept, LimitsInv, LimitsType, Placed, Last, WindowsCounted, Key,
              SlotsAccounted, Holders, Holds, Counter!windowVars
<1>2. ASSUME NEW p \in Procs, Step(p)
      PROVE  Kept
  <2>1. \/ p \notin Guesses /\ StartRequest(p)
        \/ p \in Guesses /\ StartGuess(p)
        \/ Compare(p) \/ ClearAttempts(p) \/ Incr(p) \/ Expire(p) \/ Decr(p)
        \/ \E k \in Slots : ReleaseKey(p, k) \/ DeleteKey(p, k)
    BY <1>2 DEF Step
  <2> QED
    BY <2>1, StartStep, ClearStep, IncrStep, ExpireStep, DecrStep, ReleaseStep, DeleteStep
<1> QED
  BY <1>1, <1>2, LeaveStep, ExpiryStep, KillStep DEF NextLimits

(* The counter of open streams differs from their number by what is          *)
(* accounted for, however streams are admitted, refused, closed, left        *)
(* before they are admitted, expired or killed (acquireConcurrentKeys,       *)
(* releaseConcurrentKeys), for any number of streams, keys and restarts.     *)
THEOREM SlotsHold == LimitsSpec => []SlotsAccounted
<1>1. InitLimits => LimitsInv
  BY LimitsInitial
<1>2. LimitsInv /\ [NextLimits]_limitVars => LimitsInv'
  BY LimitsStep DEF Kept
<1>3. LimitsInv => SlotsAccounted
  BY DEF LimitsInv
<1> QED
  BY <1>1, <1>2, <1>3, PTL DEF LimitsSpec

(* Of every window no more than the limit is let through between its first   *)
(* request and its end, and it ends or loses its deadline as Window says     *)
(* (consume): the safety of a fixed window, for any number of requests,      *)
(* guesses, rules and restarts.                                              *)
THEOREM WindowsHold ==
  ASSUME NEW k \in Windows
  PROVE  LimitsSpec => Counter(k)!WindowSafety
<1>1. InitLimits => LimitsInv /\ Counter(k)!WindowInit
  BY LimitsInitial
<1>2. LimitsInv /\ [NextLimits]_limitVars
        => LimitsInv' /\ (WindowNext(k) \/ UNCHANGED Counter(k)!windowVars)
  BY LimitsStep DEF Kept
<1>3. LimitsInv /\ [NextLimits]_limitVars
        => /\ LimitsInv'
           /\ [Counter(k)!Take \/ Counter(k)!Close \/ Counter(k)!LoseDeadline]_(Counter(k)!windowVars)
  BY <1>2 DEF WindowNext
<1> QED
  BY <1>1, <1>3, PTL DEF LimitsSpec, Counter!WindowSafety
=============================================================================
