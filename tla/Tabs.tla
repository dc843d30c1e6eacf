-------------------------------- MODULE Tabs --------------------------------
(***************************************************************************)
(* One session in several tabs of a browser.  The tabs share the pair of   *)
(* tokens in localStorage; the requests of a tab share one renewal.  The   *)
(* server keeps one key per user: a token is good while its key is the     *)
(* user's and, for access, while it is young; a renewal changes the key,   *)
(* so that the pair it was asked with is spent.  Left out: the day after   *)
(* which a refresh token ends, and accounts that may not log in, both of   *)
(* which refuse a renewal as EndElsewhere does.                               *)
(***************************************************************************)
EXTENDS Integers, Sequences

CONSTANTS Browser, Slots, \* tabs; requests a tab may have under way
          MaxPairs,       \* bound: pairs of tokens issued
          MaxEnds,        \* bound: sessions ended by a logout or elsewhere
          Outages         \* bound: answers that fail or are lost

ASSUME TabsAssumption == {MaxPairs, MaxEnds, Outages} \subseteq Nat

VARIABLES key,     \* sessionKey of the user
          issued,  \* the key of every pair of tokens issued
          expired, \* access tokens up to this one have expired
          store,   \* localStorage: numbers of the tokens, 0 for none
          page,    \* Browser -> what the tab shows
          call,    \* Browser -> Slots -> request
          renewal, \* Browser -> refreshPromise
          ours,    \* history: this browser is logged in, as the user knows it
          excuse,  \* history: something that may cost the session has happened
          ends, outages

tabVars == <<key, issued, expired, store, page, call, renewal, ours, excuse, ends, outages>>

NoCall == [kind |-> "none", at |-> "none", token |-> 0, pair |-> 0, retried |-> FALSE]
Call(kind, token) == [NoCall EXCEPT !.kind = kind, !.at = "sent", !.token = token]
First == CHOOSE s \in Slots : TRUE
NoRenewal == [at |-> "none", token |-> 0, pair |-> 0]
NoTokens == [access |-> 0, refresh |-> 0]
Pair(n) == [access |-> n, refresh |-> n]
Newest == Len(issued)
Alive(n) == n > 0 /\ issued[n] = key
Young(n) == n > expired
Quiet(t) == renewal[t] = NoRenewal /\ \A s \in Slots : call[t][s] = NoCall

InitTabs ==
  /\ key = 1 /\ issued = <<1>> /\ expired = 0 /\ store = Pair(1)
  /\ page = [t \in Browser |-> "user"]
  /\ call = [t \in Browser |-> [s \in Slots |-> NoCall]]
  /\ renewal = [t \in Browser |-> NoRenewal]
  /\ ours = TRUE /\ excuse = FALSE /\ ends = 0 /\ outages = 0

Outage == outages < Outages /\ outages' = outages + 1 /\ excuse' = TRUE
\* Another tab has something under way while this one changes the key or the store.
Crossing(t) == excuse' = (excuse \/ \E u \in Browser \ {t} : ~Quiet(u))
NewKey == key' = Len(issued) + ends + 1

-----------------------------------------------------------------------------
(* The server                                                              *)

Expire ==
  /\ expired < Newest /\ expired' = expired + 1
  \* They live for minutes: a request sent with a new one is answered before.
  /\ \A t \in Browser : /\ renewal[t].pair /= expired + 1
                        /\ \A s \in Slots : /\ call[t][s].retried => call[t][s].token /= expired + 1
                                            /\ call[t][s].pair /= expired + 1
  /\ UNCHANGED <<key, issued, store, page, call, renewal, ours, excuse, ends, outages>>

\* A logout or another password on another device, or its renewal.
EndElsewhere ==
  /\ ends < MaxEnds /\ ends' = ends + 1
  /\ key' = Len(issued) + ends + 1 /\ ours' = FALSE
  /\ UNCHANGED <<issued, expired, store, page, call, renewal, excuse, outages>>

Serve(t, s) ==
  LET c == call[t][s]
      good == Alive(c.token) /\ Young(c.token)
      answer(a, n) == call' = [call EXCEPT ![t][s].at = a, ![t][s].pair = n]
  IN /\ c.at = "sent"
     /\ \/ /\ c.kind \in {"page", "me"}
           /\ answer(IF good THEN "ok" ELSE "refused", c.pair)
           /\ UNCHANGED <<key, issued, ours, ends, excuse>>
        \/ /\ c.kind = "logout"
           /\ answer(IF good THEN "ok" ELSE "refused", 0)
           /\ IF good THEN ends < MaxEnds /\ ends' = ends + 1 /\ NewKey /\ Crossing(t)
              ELSE UNCHANGED <<key, ends, excuse>>
           /\ UNCHANGED <<issued, ours>>
        \* A login leaves the key as it is.
        \/ /\ c.kind = "login"
           /\ \/ answer("refused", 0) /\ UNCHANGED issued
              \/ Newest < MaxPairs /\ issued' = Append(issued, key) /\ answer("ok", Newest + 1)
           /\ UNCHANGED <<key, ours, ends, excuse>>
     /\ UNCHANGED <<expired, store, page, renewal, outages>>

ServeRenewal(t) ==
  LET r == renewal[t] IN
  /\ r.at = "sent"
  /\ IF Alive(r.token)
     THEN /\ Newest < MaxPairs
          /\ NewKey /\ issued' = Append(issued, key') /\ Crossing(t)
          /\ renewal' = [renewal EXCEPT ![t].at = "ok", ![t].pair = Newest + 1]
     ELSE renewal' = [renewal EXCEPT ![t].at = "refused"] /\ UNCHANGED <<key, issued, excuse>>
  /\ UNCHANGED <<expired, store, page, call, ours, ends, outages>>

\* Too many requests, a server or a network that fails, before or after the work.
Fail(t, s) ==
  /\ call[t][s].at \in {"sent", "ok"} /\ Outage
  /\ call' = [call EXCEPT ![t][s].at = "failed"]
  /\ UNCHANGED <<key, issued, expired, store, page, renewal, ours, ends>>
FailRenewal(t) ==
  /\ renewal[t].at \in {"sent", "ok"} /\ Outage
  /\ renewal' = [renewal EXCEPT ![t].at = "refused"]
  /\ UNCHANGED <<key, issued, expired, store, page, call, ours, ends>>

-----------------------------------------------------------------------------
(* A tab                                                                   *)

\* A page that is loaded drops what the one before it had under way.
LoadPage(t, tokens) ==
  LET me == tokens.access /= 0 IN
  /\ page' = [page EXCEPT ![t] = IF me THEN "loading" ELSE "login"]
  /\ call' = [call EXCEPT ![t] = [s \in Slots |-> IF me /\ s = First
                                    THEN Call("me", tokens.access) ELSE NoCall]]
  /\ renewal' = [renewal EXCEPT ![t] = NoRenewal]

Reload(t) ==
  /\ LoadPage(t, store)
  /\ excuse' = (excuse \/ renewal[t].at /= "none")
  /\ UNCHANGED <<key, issued, expired, store, ours, ends, outages>>

Send(t, s, kind) ==
  /\ call[t][s] = NoCall
  /\ \/ kind \in {"page", "logout"} /\ page[t] = "user"
     \/ kind = "login" /\ page[t] = "login" /\ Quiet(t)
  /\ call' = [call EXCEPT ![t][s] = Call(kind, store.access)]
  /\ ours' = (ours /\ kind /= "logout")
  /\ UNCHANGED <<key, issued, expired, store, page, renewal, excuse, ends, outages>>

\* The request of a tab that is refused for the first time waits for the
\* renewal of its tab, which starts with the refresh token of the store.
Refused(t, s) == call[t][s].at = "refused" /\ ~call[t][s].retried /\ store.refresh /= 0

JoinedRenewal(t) == IF renewal[t].at /= "none" THEN renewal[t]
                    ELSE [NoRenewal EXCEPT !.at = "sent", !.token = store.refresh]

Renew(t, s) ==
  /\ Refused(t, s)
  /\ call' = [call EXCEPT ![t][s].at = "waiting", ![t][s].retried = TRUE]
  /\ renewal' = [renewal EXCEPT ![t] = JoinedRenewal(t)]
  /\ UNCHANGED <<key, issued, expired, store, page, ours, excuse, ends, outages>>

\* Mutant of Kept: the refresh token of the answer is forgotten.
KeptHalf(n) == [store EXCEPT !.access = n]

Kept(n) == Pair(n)

\* The pair is stored and the waiting requests are sent again with it.
Renewed(t) ==
  LET n == renewal[t].pair IN
  /\ renewal[t].at = "ok"
  /\ store' = Kept(n)
  /\ call' = [call EXCEPT ![t] = [s \in Slots |->
       IF call[t][s].at = "waiting" THEN [call[t][s] EXCEPT !.at = "sent", !.token = n]
       ELSE call[t][s]]]
  /\ renewal' = [renewal EXCEPT ![t] = NoRenewal]
  /\ Crossing(t)
  /\ UNCHANGED <<key, issued, expired, page, ours, ends, outages>>

\* The catch of a renewal: both tokens go, and the tab to /login.
RenewalFails(t) ==
  /\ renewal[t].at = "refused"
  /\ store' = NoTokens /\ LoadPage(t, NoTokens)
  /\ UNCHANGED <<key, issued, expired, ours, excuse, ends, outages>>

\* What is done with an answer that is neither renewed nor lost.
Settle(t, s) ==
  LET c == call[t][s]
      ok == c.at = "ok"
      over == [call EXCEPT ![t][s] = NoCall]
  IN /\ ok \/ c.at = "failed" \/ (c.at = "refused" /\ ~Refused(t, s))
     /\ \/ c.kind = "page" /\ call' = over /\ UNCHANGED <<store, page, renewal, ours, excuse>>
        \* logout, finally.
        \/ /\ c.kind = "logout" /\ store' = NoTokens /\ LoadPage(t, NoTokens)
           /\ ours' = FALSE /\ Crossing(t)
        \* initializeAuth: whatever goes wrong, the tokens are removed.
        \/ /\ c.kind = "me" /\ c.pair = 0
           /\ store' = IF ok THEN store ELSE NoTokens
           /\ page' = [page EXCEPT ![t] = IF ok THEN "user" ELSE "login"]
           /\ call' = over /\ UNCHANGED <<renewal, ours, excuse>>
        \* handleSubmit: the access token is stored before the profile is
        \* asked for, and both tokens after it.
        \/ /\ c.kind = "login" /\ ok
           /\ store' = [store EXCEPT !.access = c.pair]
           /\ call' = [call EXCEPT ![t][s] = [Call("me", c.pair) EXCEPT !.pair = c.pair]]
           /\ UNCHANGED <<page, renewal, ours, excuse>>
        \/ /\ c.kind = "me" /\ c.pair > 0 /\ ok
           /\ store' = Pair(c.pair) /\ page' = [page EXCEPT ![t] = "user"]
           /\ ours' = Alive(c.pair) /\ Crossing(t)
           /\ call' = over /\ UNCHANGED renewal
        \/ /\ c.kind = "login" \/ (c.kind = "me" /\ c.pair > 0)
           /\ ~ok /\ store' = [store EXCEPT !.access = 0]
           /\ call' = over /\ UNCHANGED <<page, renewal, ours, excuse>>
     /\ UNCHANGED <<key, issued, expired, ends, outages>>

NextTabs ==
  \/ Expire \/ EndElsewhere
  \/ \E t \in Browser :
       \/ Reload(t) \/ Renewed(t) \/ RenewalFails(t) \/ ServeRenewal(t) \/ FailRenewal(t)
       \/ \E s \in Slots : \/ Serve(t, s) \/ Fail(t, s) \/ Renew(t, s) \/ Settle(t, s)
                           \/ \E kind \in {"page", "logout", "login"} : Send(t, s, kind)

-----------------------------------------------------------------------------
\* Hazard: a renewal spends the refresh token it is asked with, and several
\* requests of several tabs hold it.  A browser that is logged in keeps a
\* token it can go on with, unless an answer failed, a page was left during a
\* renewal, or two tabs were busy when one of them renewed or logged in.
SessionKept ==
  (ours /\ ~excuse /\ \A t \in Browser : Quiet(t)) => Alive(store.refresh)
=============================================================================
