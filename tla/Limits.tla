------------------------------- MODULE Limits -------------------------------
(***************************************************************************)
(* The rate limits: counters in Redis, one command at a time.              *)
(*                                                                         *)
(* A request passes the guard of its route, which counts it against each   *)
(* of its rules (INCR, EXPIRE after the first, TTL).  A guess of a         *)
(* password looks at its counter, compares, and counts a failure or clears *)
(* the counter.  An event stream takes a slot of its user and one of its   *)
(* address, and gives them back when the client leaves.  The server may be *)
(* killed between any two commands; Redis keeps its keys.                  *)
(***************************************************************************)
EXTENDS Integers, FiniteSets, Sequences

CONSTANTS Requests, \* requests of routes with rules
          Guesses,  \* requests that bring a password
          Streams,  \* event streams
          Windows,  \* keys rl:..
          Slots,    \* keys rlcon:..
          KeysOf,   \* the keys each of them uses, in order
          Limit,    \* the limit of a key
          Loads,    \* the sets of them that run together
          Crashes   \* bound: how often the server is killed

Procs == Requests \cup Guesses \cup Streams
Keys == Windows \cup Slots

ASSUME LimitsAssumption ==
  /\ \A p \in Requests \cup Guesses : KeysOf[p] \in Seq(Windows) /\ KeysOf[p] /= <<>>
  /\ \A s \in Streams : /\ KeysOf[s] \in Seq(Slots) /\ KeysOf[s] /= <<>>
                         /\ \A i, j \in DOMAIN KeysOf[s] : KeysOf[s][i] = KeysOf[s][j] => i = j
  /\ IsFiniteSet(Streams)
  /\ Streams \cap (Requests \cup Guesses) = {} /\ Windows \cap Slots = {}
  /\ \A k \in Keys : Limit[k] \in Nat \ {0}
  /\ Loads \subseteq SUBSET Procs
  /\ Crashes \in Nat

VARIABLES redis,   \* the counter of a key and whether it has a time to live
          proc,    \* where a request, guess or stream is in its handler
          crashes, \* how often the server was killed
          past     \* history: what was counted in the open window, whether its
                   \* deadline was lost, slots that were forgotten or killed

limitVars == <<redis, proc, crashes, past>>

None == [n |-> 0, ttl |-> FALSE]

InitLimits ==
  /\ redis = [k \in Keys |-> None]
  /\ \E load \in Loads :
       proc = [p \in Procs |-> [at |-> IF p \in load THEN "idle" ELSE "absent", i |-> 1,
                                gone |-> FALSE, todo |-> {}, zero |-> {}]]
  /\ crashes = 0
  /\ past = [k \in Keys |-> [used |-> 0, noTtl |-> FALSE, lost |-> 0, killed |-> 0]]

Key(p) == KeysOf[p][proc[p].i]
Last(p) == proc[p].i = Len(KeysOf[p])
Goto(p, at) == proc' = [proc EXCEPT ![p].at = at]
\* Mutant of Within: a request that finds the window full is let through.
WithinToo(k, n) == Limit[k] - n + 1 >= 0

Within(k, n) == Limit[k] - n >= 0

\* DEL, or the end of the time to live.
Gone(k) ==
  /\ redis' = [redis EXCEPT ![k] = None]
  /\ past' = [past EXCEPT ![k].used = 0, ![k].noTtl = FALSE,
                          ![k].lost = IF k \in Slots THEN @ + redis[k].n ELSE @]

-----------------------------------------------------------------------------
(* canActivate, consumeAttempt                                             *)

StartRequest(p) ==
  /\ proc[p].at = "idle"
  /\ Goto(p, "incr")
  /\ UNCHANGED <<redis, crashes, past>>

\* assertAvailable: a full counter refuses before the password is compared.
StartGuess(p) ==
  /\ proc[p].at = "idle"
  /\ Goto(p, IF redis[Key(p)].n >= Limit[Key(p)] THEN "refused" ELSE "compare")
  /\ UNCHANGED <<redis, crashes, past>>

Compare(p) ==
  /\ proc[p].at = "compare"
  /\ \E next \in {"clear", "incr"} : Goto(p, next)
  /\ UNCHANGED <<redis, crashes, past>>

ClearAttempts(p) ==
  /\ proc[p].at = "clear"
  /\ Gone(Key(p))
  /\ Goto(p, "admitted")
  /\ UNCHANGED crashes

\* What the counter n of its current key means for p: the next rule or slot, the
\* end of the list, or a refusal.  A stream that is refused gives back what it has.
Judged(p, n) ==
  LET q == proc[p] IN
  CASE Within(Key(p), n) /\ ~Last(p) -> [q EXCEPT !.at = "incr", !.i = @ + 1]
    [] Within(Key(p), n) /\ Last(p) -> [q EXCEPT !.at = IF p \in Streams THEN "open" ELSE "admitted"]
    [] OTHER -> [q EXCEPT !.at = IF p \in Streams THEN "decr" ELSE "refused"]

\* Mutant of Expire: no deadline is set.
ExpireNever(p) ==
  /\ proc[p].at = "expire"
  /\ proc' = [proc EXCEPT ![p] = Judged(p, 1)]
  /\ UNCHANGED <<redis, crashes, past>>

Incr(p) ==
  LET k == Key(p)
      n == redis[k].n + 1 IN
  /\ proc[p].at = "incr"
  /\ redis' = [redis EXCEPT ![k].n = n]
  /\ past' = [past EXCEPT ![k].used = IF k \in Windows /\ Within(k, n) THEN @ + 1 ELSE @]
  /\ proc' = [proc EXCEPT ![p] = IF n = 1 THEN [@ EXCEPT !.at = "expire"] ELSE Judged(p, n)]
  /\ UNCHANGED crashes

Expire(p) ==
  /\ proc[p].at = "expire"
  /\ redis' = [redis EXCEPT ![Key(p)].ttl = redis[Key(p)] /= None]
  /\ proc' = [proc EXCEPT ![p] = Judged(p, 1)]
  /\ UNCHANGED <<crashes, past>>

-----------------------------------------------------------------------------
(* trackConcurrentSse                                                      *)

Releasing(p, keys) ==
  proc' = [proc EXCEPT ![p].at = "release", ![p].todo = keys]

\* Mutant of Decr: a refused stream forgets the slots it took before.
DecrOnly(p) ==
  /\ proc[p].at = "decr"
  /\ redis' = [redis EXCEPT ![Key(p)].n = @ - 1]
  /\ Releasing(p, {})
  /\ UNCHANGED <<crashes, past>>

\* The slot beyond the limit is given back, then those taken before it.
Decr(p) ==
  /\ proc[p].at = "decr"
  /\ redis' = [redis EXCEPT ![Key(p)].n = @ - 1]
  /\ Releasing(p, {KeysOf[p][j] : j \in 1 .. proc[p].i - 1})
  /\ UNCHANGED <<crashes, past>>

\* The client leaves: an open stream is released; one whose slots are still being
\* taken is not (acquired is false), and is subscribed afterwards all the same.
Leave(p) ==
  /\ ~proc[p].gone
  /\ \/ /\ proc[p].at = "open"
        /\ Releasing(p, {KeysOf[p][j] : j \in DOMAIN KeysOf[p]})
     \/ /\ proc[p].at \in {"incr", "expire"}
        /\ proc' = [proc EXCEPT ![p].gone = TRUE]
  /\ UNCHANGED <<redis, crashes, past>>

ReleaseKey(p, k) ==
  /\ k \in proc[p].todo
  /\ redis' = [redis EXCEPT ![k].n = @ - 1]
  /\ proc' = [proc EXCEPT ![p].todo = @ \ {k},
                          ![p].zero = IF redis[k].n - 1 <= 0 THEN @ \cup {k} ELSE @]
  /\ UNCHANGED <<crashes, past>>

DeleteKey(p, k) ==
  /\ k \in proc[p].zero
  /\ Gone(k)
  /\ proc' = [proc EXCEPT ![p].zero = @ \ {k}]
  /\ UNCHANGED crashes

-----------------------------------------------------------------------------

KeyExpires(k) ==
  /\ redis[k].ttl
  /\ Gone(k)
  /\ UNCHANGED <<proc, crashes>>

\* The keys of the slots a stream has counted itself in and not yet out.
Holds(p) ==
  LET before(i) == {KeysOf[p][j] : j \in 1 .. i} IN
  CASE proc[p].at = "incr" -> before(proc[p].i - 1)
    [] proc[p].at \in {"expire", "decr", "open"} -> before(proc[p].i)
    [] proc[p].at = "release" -> proc[p].todo
    [] OTHER -> {}

Holders(k) == {p \in Streams : k \in Holds(p)}

\* Whoever has been admitted or refused, or was on the way, is gone; others come later.
Kill ==
  /\ crashes < Crashes
  /\ crashes' = crashes + 1
  /\ proc' = [p \in Procs |-> IF proc[p].at \in {"idle", "absent"} THEN proc[p]
                              ELSE [proc[p] EXCEPT !.at = "dead", !.todo = {}, !.zero = {}]]
  /\ past' = [k \in Keys |-> [past[k] EXCEPT
                !.killed = @ + Cardinality(Holders(k)),
                !.noTtl = redis[k].n > 0 /\ ~redis[k].ttl]]
  /\ UNCHANGED redis

Step(p) ==
  \/ p \notin Guesses /\ StartRequest(p)
  \/ p \in Guesses /\ StartGuess(p)
  \/ Compare(p)
  \/ ClearAttempts(p)
  \/ Incr(p)
  \/ Expire(p)
  \/ Decr(p)
  \/ \E k \in Slots : ReleaseKey(p, k) \/ DeleteKey(p, k)

NextLimits ==
  \/ \E p \in Procs : Step(p)
  \/ \E p \in Streams : Leave(p)
  \/ \E k \in Keys : KeyExpires(k)
  \/ Kill

\* The server goes on with what it has begun (every handler ends, so that none is
\* passed over for ever), and time passes.
LimitsSpec ==
  /\ InitLimits /\ [][NextLimits]_limitVars
  /\ WF_limitVars(\E p \in Procs : Step(p))
  /\ \A k \in Keys : WF_limitVars(KeyExpires(k))

-----------------------------------------------------------------------------
(* The counter of open streams differs from their number by what is        *)
(* accounted for: slots forgotten when a key expired or was deleted while  *)
(* another stream was counted in it, and slots of streams that were killed.*)
(* A refused stream, and one that closes, gives back each slot it took     *)
(* exactly once (acquireConcurrentKeys, releaseConcurrentKeys).            *)
SlotsAccounted ==
  \A k \in Slots : redis[k].n + past[k].lost = Cardinality(Holders(k)) + past[k].killed

(* A user or an address that is refused a stream is not refused for ever,  *)
(* not even when clients left before they were admitted and hold their     *)
(* slots: the counter falls below the limit again.                         *)
SlotsReturn ==
  \A k \in Slots : redis[k].n >= Limit[k] ~> redis[k].n < Limit[k] \/ past[k].noTtl
=============================================================================
