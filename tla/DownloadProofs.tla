--------------------------- MODULE DownloadProofs ---------------------------
(***************************************************************************)
(* Theorems about Download, for any number of downloads and requests, any  *)
(* length of the files and any limits.                                     *)
(*                                                                         *)
(* Nearly every step concerns one download, and what has to be known of it *)
(* (Good) mentions no other: where its messages and timers leave session,  *)
(* slot and lifetime (Holding), what its messages say of the page          *)
(* (Telling), and what its responses have read (Serving). Frame reduces    *)
(* such a step to the download it is about. The limits of the worker count *)
(* downloads: there, Growth bounds what an offer and a request may add.    *)
(***************************************************************************)
EXTENDS Download, FiniteSetTheorems, TLAPS

-----------------------------------------------------------------------------
(* The invariant *)

Inside(q) == {q[k] : k \in 1..Len(q)}
Late(q) == {q[k] : k \in 2..Len(q)}
Served == {"streaming", "saved", "broken"}

\* A stream is offered once and first; a page cancels when it has failed and
\* reports completion when it is complete.
Telling(d) ==
  /\ "offer" \notin Late(posted[d])
  /\ "offer" \in Inside(posted[d]) => session[d] = "none"
  /\ "cancel" \in Inside(posted[d]) => page[d].stage = "failed"
  /\ "complete" \in Inside(posted[d]) => page[d].stage = "complete"
  /\ page[d].stage = "idle" => posted[d] = <<>> /\ session[d] = "none"
  /\ page[d].stage = "streaming" => page[d].beat
  /\ page[d].stage = "idle" => ~page[d].beat

\* A session that has not been taken has no slot and no response, and the
\* worker holds its lifetime while it holds the session or the slot.
Holding(d) ==
  /\ session[d] # "taken" =>
       active[d] = "no" /\ \A i \in 1..Tries : fetch[d][i] \notin Served
  /\ lifetime[d] = "held" <=> session[d] = "waiting" \/ active[d] # "no"
  /\ (\E i \in 1..Tries : fetch[d][i] = "streaming") /\ page[d].stage \in Running =>
       lifetime[d] = "held"
  /\ active[d] = "grace" => page[d].stage = "complete"

\* The stream has one response at most, and one that is saved has read it all.
Serving(d) ==
  /\ stream[d].read <= stream[d].written
  /\ stream[d].state = "closed" => stream[d].written = Chunks
  /\ \A i \in 1..Tries :
       fetch[d][i] = "saved" =>
         stream[d].state = "closed" /\ stream[d].read = Chunks
  /\ \A i, j \in 1..Tries : fetch[d][i] \in Served /\ fetch[d][j] \in Served => i = j

Good(d) == Telling(d) /\ Holding(d) /\ Serving(d)
IInv == TypeOK /\ \A d \in Downloads : Good(d)

-----------------------------------------------------------------------------
(* Sequences of messages *)

\* What is posted comes after what is there.
LEMMA Posting ==
  ASSUME NEW q \in Seq(Messages), NEW s \in Seq(Messages)
  PROVE  /\ q \o s \in Seq(Messages)
         /\ Inside(q \o s) = Inside(q) \cup Inside(s)
         /\ Late(q \o s) \subseteq Late(q) \cup Inside(s)
<1>1. q \o s \in Seq(Messages) /\ Len(q \o s) = Len(q) + Len(s)
  OBVIOUS
<1>2. \A k \in 1..Len(q) : (q \o s)[k] = q[k]
  OBVIOUS
<1>3. \A k \in 1..Len(s) : (q \o s)[Len(q) + k] = s[k]
  OBVIOUS
<1>4. \A k \in 1..Len(q \o s) : k \in 1..Len(q) \/ k - Len(q) \in 1..Len(s)
  BY <1>1
<1>5. Inside(q \o s) \subseteq Inside(q) \cup Inside(s)
  <2> SUFFICES ASSUME NEW k \in 1..Len(q \o s)
               PROVE  (q \o s)[k] \in Inside(q) \cup Inside(s)
    BY DEF Inside
  <2>1. CASE k \in 1..Len(q) BY <2>1, <1>2 DEF Inside
  <2>2. CASE k - Len(q) \in 1..Len(s)
    <3>1. (q \o s)[k] = s[k - Len(q)] BY <2>2, <1>1, <1>3
    <3> QED BY <3>1, <2>2 DEF Inside
  <2> QED BY <2>1, <2>2, <1>4
<1>6. Inside(q) \subseteq Inside(q \o s)
  BY <1>1, <1>2 DEF Inside
<1>7. Inside(s) \subseteq Inside(q \o s)
  <2> SUFFICES ASSUME NEW k \in 1..Len(s) PROVE s[k] \in Inside(q \o s)
    BY DEF Inside
  <2>1. Len(q) + k \in 1..Len(q \o s) /\ (q \o s)[Len(q) + k] = s[k]
    BY <1>1, <1>3
  <2> QED BY <2>1 DEF Inside
<1>8. Late(q \o s) \subseteq Late(q) \cup Inside(s)
  <2> SUFFICES ASSUME NEW k \in 2..Len(q \o s)
               PROVE  (q \o s)[k] \in Late(q) \cup Inside(s)
    BY DEF Late
  <2>1. CASE k \in 1..Len(q)
    <3>1. k \in 2..Len(q) /\ (q \o s)[k] = q[k] BY <2>1, <1>2
    <3> QED BY <3>1 DEF Late
  <2>2. CASE k - Len(q) \in 1..Len(s)
    <3>1. (q \o s)[k] = s[k - Len(q)] BY <2>2, <1>1, <1>3
    <3> QED BY <3>1, <2>2 DEF Inside
  <2> QED BY <2>1, <2>2, <1>1, <1>4
<1> QED BY <1>1, <1>5, <1>6, <1>7, <1>8

\* The messages a page posts.
LEMMA Posts ==
  /\ <<"offer">> \in Seq(Messages) /\ Inside(<<"offer">>) = {"offer"}
  /\ Late(<<"offer">>) = {} /\ Late(<<>>) = {} /\ Inside(<<>>) = {}
  /\ <<"cancel">> \in Seq(Messages) /\ Inside(<<"cancel">>) = {"cancel"}
  /\ <<"cancel", "cancel">> \in Seq(Messages)
  /\ Inside(<<"cancel", "cancel">>) = {"cancel"}
  /\ <<"heartbeat">> \in Seq(Messages) /\ Inside(<<"heartbeat">>) = {"heartbeat"}
  /\ <<"complete">> \in Seq(Messages) /\ Inside(<<"complete">>) = {"complete"}
  BY DEF Messages, Inside, Late

\* What is left when a message has arrived.
LEMMA Receiving ==
  ASSUME NEW q \in Seq(Messages), q # <<>>
  PROVE  /\ Tail(q) \in Seq(Messages)
         /\ Head(q) \in Inside(q)
         /\ Inside(Tail(q)) \subseteq Late(q)
         /\ Late(Tail(q)) \subseteq Late(q)
         /\ Late(q) \subseteq Inside(q)
<1>1. Tail(q) \in Seq(Messages) /\ Len(Tail(q)) = Len(q) - 1 /\ Len(q) \in Nat \ {0}
  OBVIOUS
<1>2. \A k \in 1..Len(Tail(q)) : k + 1 \in 2..Len(q) /\ Tail(q)[k] = q[k + 1]
  BY <1>1
<1>3. Head(q) = q[1] OBVIOUS
<1>4. Inside(Tail(q)) \subseteq Late(q) BY <1>2 DEF Inside, Late
<1>5. Late(Tail(q)) \subseteq Inside(Tail(q)) BY <1>1 DEF Inside, Late
<1>6. Late(q) \subseteq Inside(q) BY <1>1 DEF Inside, Late
<1>7. Head(q) \in Inside(q) BY <1>1, <1>3 DEF Inside
<1> QED BY <1>1, <1>4, <1>5, <1>6, <1>7

-----------------------------------------------------------------------------
(* Steps of one download *)

Only(d) ==
  \A e \in Downloads \ {d} :
    /\ page'[e] = page[e] /\ stream'[e] = stream[e] /\ posted'[e] = posted[e]
    /\ reply'[e] = reply[e] /\ session'[e] = session[e] /\ active'[e] = active[e]
    /\ lifetime'[e] = lifetime[e] /\ fetch'[e] = fetch[e]

\* A step of one download has to be looked at for that download only.
LEMMA Frame ==
  ASSUME IInv, NEW d \in Downloads, TypeOK', Only(d),
         Telling(d)', Holding(d)', Serving(d)'
  PROVE  IInv'
<1> SUFFICES ASSUME NEW e \in Downloads PROVE Good(e)'
  BY DEF IInv
<1>1. CASE e = d BY <1>1 DEF Good
<1>2. CASE e # d
  <2>1. Good(e) BY DEF IInv
  <2>2. /\ page'[e] = page[e] /\ stream'[e] = stream[e] /\ posted'[e] = posted[e]
        /\ session'[e] = session[e] /\ active'[e] = active[e]
        /\ lifetime'[e] = lifetime[e] /\ fetch'[e] = fetch[e]
    BY <1>2 DEF Only
  <2> QED BY <2>1, <2>2 DEF Good, Telling, Holding, Serving
<1> QED BY <1>1, <1>2

\* What IInv says of one download.
LEMMA Here ==
  ASSUME IInv, NEW d \in Downloads
  PROVE  TypeOK /\ Telling(d) /\ Holding(d) /\ Serving(d)
  BY DEF IInv, Good

USE DownloadAssumption

\* What becomes of the page that settles ready, and of a stream that is ended.
LEMMA SettledOK ==
  ASSUME TypeOK, NEW d \in Downloads, NEW ready \in {"resolved", "rejected"},
         NEW stage \in {"streaming", "failed"}, NEW beat \in BOOLEAN,
         Settled(d, ready, stage, beat)
  PROVE  /\ page'[d].stage = stage /\ page'[d].beat = beat
         /\ page' \in [Downloads -> Page]
         /\ \A e \in Downloads \ {d} : page'[e] = page[e]
<1>1. page \in [Downloads -> Page] /\ page[d] \in Page BY DEF TypeOK
<1>2. PICK r \in {"pending", "resolved", "rejected"} :
        page' = [page EXCEPT ![d] = [stage |-> stage, ready |-> r, beat |-> beat]]
  <2>1. CASE page[d].ready = "pending" BY <2>1 DEF Settled
  <2>2. CASE page[d].ready # "pending"
    <3>1. page[d].ready \in {"pending", "resolved", "rejected"} BY <1>1 DEF Page
    <3> QED BY <2>2, <3>1 DEF Settled
  <2> QED BY <2>1, <2>2
<1>3. [stage |-> stage, ready |-> r, beat |-> beat] \in Page BY <1>2 DEF Page
<1>4. page'[d] = [stage |-> stage, ready |-> r, beat |-> beat] BY <1>1, <1>2
<1> QED BY <1>1, <1>2, <1>3, <1>4

LEMMA EndOK ==
  ASSUME TypeOK, NEW d \in Downloads, NEW state \in {"aborted", "cancelled"},
         End(d, state)
  PROVE  /\ stream' \in [Downloads -> Stream]
         /\ \A e \in Downloads \ {d} : stream'[e] = stream[e]
         /\ stream'[d].read = stream[d].read
         /\ stream'[d].written = stream[d].written
         /\ stream'[d].state = "closed" <=> stream[d].state = "closed"
<1>1. stream \in [Downloads -> Stream] /\ stream[d] \in Stream BY DEF TypeOK
<1>2. PICK t \in {"open", "closed", "aborted", "cancelled"} :
        /\ stream' = [stream EXCEPT ![d].state = t]
        /\ t = "closed" <=> stream[d].state = "closed"
  <2>1. CASE stream[d].state = "open" BY <2>1 DEF End
  <2>2. CASE stream[d].state # "open"
    <3>1. stream[d].state \in {"open", "closed", "aborted", "cancelled"}
      BY <1>1 DEF Stream
    <3> QED BY <2>2, <3>1 DEF End
  <2> QED BY <2>1, <2>2
<1>3. stream'[d] = [stream[d] EXCEPT !.state = t] BY <1>1, <1>2
<1>4. [stream[d] EXCEPT !.state = t] \in Stream BY <1>1, <1>2 DEF Stream
<1>5. stream'[d].state = t /\ stream'[d].read = stream[d].read
      /\ stream'[d].written = stream[d].written
  BY <1>1, <1>3 DEF Stream
<1> QED BY <1>1, <1>2, <1>3, <1>4, <1>5

\* What a page posts, other than an offer, leaves the messages in order.
LEMMA PostOK ==
  ASSUME IInv, NEW d \in Downloads, NEW s \in Seq(Messages), Post(d, s)
  PROVE  /\ posted' \in [Downloads -> Seq(Messages)]
         /\ \A e \in Downloads \ {d} : posted'[e] = posted[e]
         /\ Inside(posted'[d]) = Inside(posted[d]) \cup Inside(s)
         /\ Late(posted'[d]) \subseteq Late(posted[d]) \cup Inside(s)
         /\ posted[d] \in Seq(Messages) /\ posted'[d] = posted[d] \o s
<1>1. posted \in [Downloads -> Seq(Messages)] BY DEF IInv, TypeOK
<1>2. posted[d] \in Seq(Messages) BY <1>1
<1>3. posted' = [posted EXCEPT ![d] = posted[d] \o s] BY DEF Post
<1>4. posted'[d] = posted[d] \o s BY <1>1, <1>3
<1> QED BY <1>1, <1>2, <1>3, <1>4, Posting

\* REDBOX_DOWNLOAD_STARTED
LEMMA StartedStep == ASSUME IInv, NEW d \in Downloads, Started(d) PROVE IInv'
<1>0. TypeOK /\ Telling(d) /\ Holding(d) /\ Serving(d) BY Here
<1>1. /\ page'[d].stage = "streaming" /\ page'[d].beat
      /\ page' \in [Downloads -> Page]
      /\ \A e \in Downloads \ {d} : page'[e] = page[e]
  BY <1>0, SettledOK DEF Started
<1>2. /\ posted' \in [Downloads -> Seq(Messages)]
      /\ \A e \in Downloads \ {d} : posted'[e] = posted[e]
      /\ Inside(posted'[d]) = Inside(posted[d]) \cup {"heartbeat"}
      /\ Late(posted'[d]) \subseteq Late(posted[d]) \cup {"heartbeat"}
  BY PostOK, Posts DEF Started
<1>3. TypeOK' BY <1>0, <1>1, <1>2 DEF Started, TypeOK, worker
<1>4. Only(d) BY <1>1, <1>2 DEF Started, Only, worker
<1>5. Telling(d)' BY <1>0, <1>1, <1>2 DEF Started, Telling, worker
<1>6. Holding(d)' BY <1>0, <1>1 DEF Started, Holding, worker, Running
<1>7. Serving(d)' BY <1>0, <1>1 DEF Started, Serving, worker
<1> QED BY <1>3, <1>4, <1>5, <1>6, <1>7, Frame

\* createDestination
LEMMA CreateStep == ASSUME IInv, NEW d \in Downloads, Create(d) PROVE IInv'
<1>0. TypeOK /\ Telling(d) /\ Holding(d) /\ Serving(d) BY Here
<1>1. /\ page'[d].stage = "starting" /\ page' \in [Downloads -> Page]
      /\ \A e \in Downloads \ {d} : page'[e] = page[e]
  BY <1>0, ZenonT(60) DEF Create, TypeOK, Page
<1>2. /\ posted' \in [Downloads -> Seq(Messages)]
      /\ \A e \in Downloads \ {d} : posted'[e] = posted[e]
      /\ posted'[d] = <<>> \o <<"offer">>
  BY <1>0, PostOK, Posts DEF Create, Telling
<1>3. posted'[d] = <<"offer">> BY <1>2
<1>4. Inside(posted'[d]) = {"offer"} /\ Late(posted'[d]) = {} BY <1>3, Posts
<1>5. /\ fetch' \in [Downloads -> [1..Tries -> FetchState]]
      /\ \A e \in Downloads \ {d} : fetch'[e] = fetch[e]
      /\ \A i \in 1..Tries : fetch'[d][i] = fetch[d][i] \/ fetch'[d][i] = "sent"
  BY <1>0 DEF Create, TypeOK, FetchState
<1>6. TypeOK' BY <1>0, <1>1, <1>2, <1>5 DEF Create, TypeOK, worker
<1>7. Only(d) BY <1>1, <1>2, <1>5 DEF Create, Only, worker
<1>8. Telling(d)' BY <1>0, <1>1, <1>4 DEF Create, Telling, worker
<1>9. Holding(d)' BY <1>0, <1>1, <1>5 DEF Create, Telling, Holding, worker, Served
<1>10. Serving(d)' BY <1>0, <1>5 DEF Create, Serving, worker, Served
<1> QED BY <1>6, <1>7, <1>8, <1>9, <1>10, Frame

\* The interval of startHeartbeat.
LEMMA HeartbeatStep == ASSUME IInv, NEW d \in Downloads, Heartbeat(d) PROVE IInv'
<1>0. TypeOK /\ Telling(d) /\ Holding(d) /\ Serving(d) BY Here
<1>1. /\ posted' \in [Downloads -> Seq(Messages)]
      /\ \A e \in Downloads \ {d} : posted'[e] = posted[e]
      /\ Inside(posted'[d]) = Inside(posted[d]) \cup {"heartbeat"}
      /\ Late(posted'[d]) \subseteq Late(posted[d]) \cup {"heartbeat"}
  BY PostOK, Posts, ZenonT(60) DEF Heartbeat
<1>2. page[d].stage # "idle" BY <1>0 DEF Heartbeat, Telling
<1>3. TypeOK' BY <1>0, <1>1 DEF Heartbeat, TypeOK, worker
<1>4. Only(d) BY <1>1 DEF Heartbeat, Only, worker
<1>5. Telling(d)' BY <1>0, <1>1, <1>2 DEF Heartbeat, Telling, worker
<1>6. Holding(d)' BY <1>0 DEF Heartbeat, Holding, worker
<1>7. Serving(d)' BY <1>0 DEF Heartbeat, Serving, worker
<1> QED BY <1>3, <1>4, <1>5, <1>6, <1>7, Frame

\* A page that gives up, in any of the ways it may.
LEMMA AbandonStep ==
  ASSUME IInv, NEW d \in Downloads, page[d].stage \in Running,
         Abandon(d, <<"cancel">>) \/ Abandon(d, <<"cancel", "cancel">>)
  PROVE  IInv'
<1>0. TypeOK /\ Telling(d) /\ Holding(d) /\ Serving(d) BY Here
<1>1. /\ page'[d].stage = "failed" /\ page' \in [Downloads -> Page]
      /\ \A e \in Downloads \ {d} : page'[e] = page[e]
  BY <1>0, SettledOK DEF Abandon
<1>2. /\ posted' \in [Downloads -> Seq(Messages)]
      /\ \A e \in Downloads \ {d} : posted'[e] = posted[e]
      /\ Inside(posted'[d]) = Inside(posted[d]) \cup {"cancel"}
      /\ Late(posted'[d]) \subseteq Late(posted[d]) \cup {"cancel"}
  BY PostOK, Posts DEF Abandon
<1>3. /\ stream' \in [Downloads -> Stream]
      /\ \A e \in Downloads \ {d} : stream'[e] = stream[e]
      /\ stream'[d].read = stream[d].read /\ stream'[d].written = stream[d].written
      /\ stream'[d].state = "closed" <=> stream[d].state = "closed"
  BY <1>0, EndOK DEF Abandon
<1>9. UNCHANGED <<reply, session, active, lifetime, fetch>> BY DEF Abandon, worker
<1>4. TypeOK' BY <1>0, <1>1, <1>2, <1>3, <1>9 DEF TypeOK
<1>5. Only(d) BY <1>1, <1>2, <1>3 DEF Abandon, Only, worker
<1>6. Telling(d)' BY <1>0, <1>1, <1>2 DEF Abandon, Telling, Running, worker
<1>7. Holding(d)' BY <1>0, <1>1 DEF Abandon, Holding, Running, worker
<1>8. Serving(d)' BY <1>0, <1>3 DEF Abandon, Serving, worker
<1> QED BY <1>4, <1>5, <1>6, <1>7, <1>8, Frame

\* writable.write
LEMMA WriteStep == ASSUME IInv, NEW d \in Downloads, Write(d) PROVE IInv'
<1>0. TypeOK /\ Telling(d) /\ Holding(d) /\ Serving(d) BY Here
<1>1. /\ stream' \in [Downloads -> Stream]
      /\ \A e \in Downloads \ {d} : stream'[e] = stream[e]
      /\ stream'[d].read = stream[d].read /\ stream'[d].written = stream[d].written + 1
      /\ stream'[d].state = "open" /\ stream[d].state = "open"
      /\ stream[d].read \in Nat /\ stream[d].written \in Nat
  BY <1>0 DEF Write, TypeOK, Stream
<1>2. TypeOK' BY <1>0, <1>1 DEF Write, TypeOK, worker
<1>3. Only(d) BY <1>1 DEF Write, Only, worker
<1>4. Telling(d)' BY <1>0 DEF Write, Telling, worker
<1>5. Holding(d)' BY <1>0 DEF Write, Holding, worker
<1>6. Serving(d)' BY <1>0, <1>1 DEF Write, Serving, worker
<1> QED BY <1>2, <1>3, <1>4, <1>5, <1>6, Frame

\* destination.close
LEMMA CloseStep == ASSUME IInv, NEW d \in Downloads, Close(d) PROVE IInv'
<1>0. TypeOK /\ Telling(d) /\ Holding(d) /\ Serving(d) BY Here
<1>1. /\ page'[d].stage = "complete" /\ page' \in [Downloads -> Page]
      /\ \A e \in Downloads \ {d} : page'[e] = page[e]
  BY <1>0, ZenonT(60) DEF Close, TypeOK, Page
<1>2. /\ posted' \in [Downloads -> Seq(Messages)]
      /\ \A e \in Downloads \ {d} : posted'[e] = posted[e]
      /\ Inside(posted'[d]) = Inside(posted[d]) \cup {"complete"}
      /\ Late(posted'[d]) \subseteq Late(posted[d]) \cup {"complete"}
  BY PostOK, Posts, ZenonT(60) DEF Close
<1>3. /\ stream' \in [Downloads -> Stream]
      /\ \A e \in Downloads \ {d} : stream'[e] = stream[e]
      /\ stream'[d].read = stream[d].read /\ stream'[d].written = Chunks
      /\ stream'[d].state = "closed"
  BY <1>0, ZenonT(60) DEF Close, TypeOK, Stream
<1>4. TypeOK' BY <1>0, <1>1, <1>2, <1>3 DEF Close, TypeOK, worker
<1>5. Only(d) BY <1>1, <1>2, <1>3 DEF Close, Only, worker
<1>6. Telling(d)' BY <1>0, <1>1, <1>2 DEF Close, Telling, worker
<1>7. Holding(d)' BY <1>0, <1>1 DEF Close, Holding, Running, worker
<1>8. Serving(d)' BY <1>0, <1>3 DEF Close, Serving, worker
<1> QED BY <1>4, <1>5, <1>6, <1>7, <1>8, Frame

\* A tab that dies.
LEMMA VanishStep == ASSUME IInv, NEW d \in Downloads, Vanish(d) PROVE IInv'
<1>0. TypeOK /\ Telling(d) /\ Holding(d) /\ Serving(d) BY Here
<1>1. /\ page'[d].stage = "closed" /\ page' \in [Downloads -> Page]
      /\ \A e \in Downloads \ {d} : page'[e] = page[e]
  <2>1. page' = [page EXCEPT ![d].stage = "closed", ![d].beat = FALSE]
    BY DEF Vanish
  <2>2. page \in [Downloads -> Page] BY <1>0 DEF TypeOK
  <2> QED BY <2>1, <2>2 DEF Page
<1>2. /\ stream' \in [Downloads -> Stream]
      /\ \A e \in Downloads \ {d} : stream'[e] = stream[e]
      /\ stream'[d].read = stream[d].read /\ stream'[d].written = stream[d].written
      /\ stream'[d].state = "closed" <=> stream[d].state = "closed"
  BY <1>0, EndOK DEF Vanish, TypeOK
<1>3. TypeOK' BY <1>0, <1>1, <1>2 DEF Vanish, TypeOK, worker
<1>4. Only(d) BY <1>1, <1>2 DEF Vanish, Only, worker
<1>5. Telling(d)' BY <1>0, <1>1 DEF Vanish, Telling, Running, worker
<1>6. Holding(d)' BY <1>0, <1>1 DEF Vanish, Holding, Running, worker
<1>7. Serving(d)' BY <1>0, <1>2 DEF Vanish, Serving, worker
<1> QED BY <1>3, <1>4, <1>5, <1>6, <1>7, Frame

-----------------------------------------------------------------------------
(* Steps of the worker *)

\* What is known of the messages when the first of them has been taken, or
\* when there is nothing to take: no offer is left.
Fewer(d) ==
  /\ posted' \in [Downloads -> Seq(Messages)]
  /\ \A e \in Downloads \ {d} : posted'[e] = posted[e]
  /\ Inside(posted'[d]) \subseteq Inside(posted[d])
  /\ "offer" \notin Inside(posted'[d]) /\ "offer" \notin Late(posted'[d])
  /\ page[d].stage # "idle"
  /\ page' = page

LEMMA ReceiveOK ==
  ASSUME IInv, NEW d \in Downloads, NEW m \in Messages, Receive(d, m)
  PROVE  Fewer(d) /\ m \in Inside(posted[d])
<1>0. TypeOK /\ Telling(d) BY Here
<1>1. posted[d] \in Seq(Messages) /\ posted[d] # <<>> BY <1>0 DEF TypeOK, Receive
<1>2. posted'[d] = Tail(posted[d]) BY <1>0 DEF TypeOK, Receive
<1>3. /\ Tail(posted[d]) \in Seq(Messages)
      /\ Head(posted[d]) \in Inside(posted[d])
      /\ Inside(Tail(posted[d])) \subseteq Late(posted[d])
      /\ Late(Tail(posted[d])) \subseteq Late(posted[d])
      /\ Late(posted[d]) \subseteq Inside(posted[d])
  BY <1>1, Receiving
<1>4. posted' \in [Downloads -> Seq(Messages)]
      /\ \A e \in Downloads \ {d} : posted'[e] = posted[e]
  BY <1>0, <1>3 DEF TypeOK, Receive
<1>5. page' = page /\ m = Head(posted[d]) BY DEF Receive
<1> QED BY <1>0, <1>1, <1>2, <1>3, <1>4, <1>5 DEF Fewer, Telling

LEMMA NothingReceived ==
  ASSUME IInv, NEW d \in Downloads, session[d] = "waiting",
         UNCHANGED <<page, posted>>
  PROVE  Fewer(d)
<1>0. TypeOK /\ Telling(d) BY Here
<1>1. "offer" \notin Inside(posted[d]) /\ page[d].stage # "idle"
  BY <1>0 DEF Telling
<1> QED BY <1>0, <1>1 DEF Fewer, Telling, TypeOK

\* claimSession, of a session nobody has taken.
LEMMA ClaimStep ==
  ASSUME IInv, NEW d \in Downloads, NEW i \in 1..Tries, session[d] # "taken",
         Fewer(d), Claim(d, i), session' = [session EXCEPT ![d] = "taken"]
  PROVE  IInv'
<1>0. TypeOK /\ Telling(d) /\ Holding(d) /\ Serving(d) BY Here
<1>1. /\ session' \in [Downloads -> {"none", "waiting", "taken"}]
      /\ active' \in [Downloads -> {"no", "yes", "grace"}]
      /\ lifetime' \in [Downloads -> {"none", "held", "released"}]
      /\ reply' \in [Downloads -> {"none", "started", "error"}]
  BY <1>0 DEF Claim, TypeOK
<1>2. session'[d] = "taken" /\ active'[d] = "yes" /\ lifetime'[d] = "held"
  BY <1>0 DEF Claim, TypeOK
<1>3. fetch \in [Downloads -> [1..Tries -> FetchState]] BY <1>0 DEF TypeOK
<1>4. fetch' = [fetch EXCEPT ![d] = [fetch[d] EXCEPT ![i] = "streaming"]]
  BY <1>3 DEF Claim
<1>5. fetch'[d] = [fetch[d] EXCEPT ![i] = "streaming"] BY <1>3, <1>4
<1>6. fetch' \in [Downloads -> [1..Tries -> FetchState]]
  BY <1>3, <1>4 DEF FetchState
<1>7. fetch'[d][i] = "streaming"
      /\ \A j \in 1..Tries : j # i => fetch'[d][j] = fetch[d][j] /\ fetch[d][j] \notin Served
  BY <1>0, <1>3, <1>5 DEF Holding
<1>8. TypeOK' BY <1>0, <1>1, <1>6 DEF TypeOK, Fewer, Claim
<1>9. Only(d) BY <1>0, <1>4 DEF Claim, Only, Fewer, TypeOK
<1>10. Telling(d)' BY <1>0, <1>2 DEF Telling, Fewer
<1>11. Holding(d)' BY <1>2 DEF Holding, Fewer
<1>12. Serving(d)'
  <2>1. stream' = stream BY DEF Claim
  <2>2. \A j, k \in 1..Tries :
          fetch'[d][j] \in Served /\ fetch'[d][k] \in Served => j = k
    BY <1>7
  <2>3. \A j \in 1..Tries : fetch'[d][j] # "saved" BY <1>7 DEF Served
  <2> QED BY <1>0, <2>1, <2>2, <2>3 DEF Serving
<1> QED BY <1>8, <1>9, <1>10, <1>11, <1>12, Frame

\* Requests of d may be answered, with nothing.
Dismissed(d) ==
  /\ fetch' \in [Downloads -> [1..Tries -> FetchState]]
  /\ \A e \in Downloads \ {d} : fetch'[e] = fetch[e]
  /\ \A i \in 1..Tries : fetch'[d][i] = fetch[d][i] \/ fetch'[d][i] \in {"sent", "waiting", "gone"}

\* expireSession, of a session nobody has taken.
LEMMA ExpireStep ==
  ASSUME IInv, NEW d \in Downloads, session[d] # "taken", Fewer(d), Expire(d),
         Dismissed(d)
  PROVE  IInv'
<1>0. TypeOK /\ Telling(d) /\ Holding(d) /\ Serving(d) BY Here
<1>1. /\ session' \in [Downloads -> {"none", "waiting", "taken"}]
      /\ active' = active
      /\ lifetime' \in [Downloads -> {"none", "held", "released"}]
      /\ reply' \in [Downloads -> {"none", "started", "error"}]
      /\ session'[d] = "taken" /\ lifetime'[d] = "released" /\ active[d] = "no"
  BY <1>0 DEF Expire, TypeOK, Holding
<1>2. /\ stream' \in [Downloads -> Stream]
      /\ \A e \in Downloads \ {d} : stream'[e] = stream[e]
      /\ stream'[d].read = stream[d].read /\ stream'[d].written = stream[d].written
      /\ stream'[d].state = "closed" <=> stream[d].state = "closed"
  BY <1>0, EndOK DEF Expire
<1>3. \A i \in 1..Tries : fetch'[d][i] \notin Served
  BY <1>0 DEF Dismissed, Holding, Served
<1>4. TypeOK' BY <1>0, <1>1, <1>2 DEF TypeOK, Fewer, Dismissed
<1>5. Only(d) BY <1>0, <1>2 DEF Expire, Only, Fewer, Dismissed, TypeOK
<1>6. Telling(d)' BY <1>0, <1>1 DEF Telling, Fewer
<1>7. Holding(d)' BY <1>0, <1>1, <1>3 DEF Holding, Served
<1>8. Serving(d)' BY <1>0, <1>2, <1>3 DEF Serving, Served
<1> QED BY <1>4, <1>5, <1>6, <1>7, <1>8, Frame

\* offerSession
LEMMA OfferStep == ASSUME IInv, NEW d \in Downloads, Offer(d) PROVE IInv'
<1>0. TypeOK /\ Telling(d) /\ Holding(d) /\ Serving(d) BY Here
<1>1. Fewer(d) /\ session[d] = "none"
  <2>1. "offer" \in Messages /\ Receive(d, "offer") BY DEF Offer, Messages
  <2>2. Fewer(d) /\ "offer" \in Inside(posted[d]) BY <2>1, ReceiveOK
  <2> QED BY <1>0, <2>2 DEF Telling
<1>2. CASE \E i \in 1..Tries : fetch[d][i] = "waiting" /\ Claim(d, i)
  <2>1. PICK i \in 1..Tries : Claim(d, i) BY <1>2
  <2>2. session' = [session EXCEPT ![d] = "taken"] BY <2>1 DEF Claim
  <2> QED BY <1>1, <2>1, <2>2, ClaimStep
<1>3. CASE /\ session' = [session EXCEPT ![d] = "waiting"]
           /\ lifetime' = [lifetime EXCEPT ![d] = "held"]
           /\ UNCHANGED <<stream, reply, active, fetch>>
  <2>1. /\ session' \in [Downloads -> {"none", "waiting", "taken"}]
        /\ lifetime' \in [Downloads -> {"none", "held", "released"}]
        /\ session'[d] = "waiting" /\ lifetime'[d] = "held"
    BY <1>0, <1>3 DEF TypeOK
  <2>2. TypeOK' BY <1>0, <1>1, <1>3, <2>1 DEF TypeOK, Fewer
  <2>3. Only(d) BY <1>0, <1>1, <1>3 DEF Only, Fewer, TypeOK
  <2>4. Telling(d)' BY <1>0, <1>1, <2>1 DEF Telling, Fewer
  <2>5. Holding(d)' BY <1>0, <1>1, <1>3, <2>1 DEF Holding, Fewer
  <2>6. Serving(d)' BY <1>0, <1>3 DEF Serving
  <2> QED BY <2>2, <2>3, <2>4, <2>5, <2>6, Frame
<1>4. CASE Expire(d) /\ UNCHANGED fetch
  <2>1. Dismissed(d) BY <1>0, <1>4 DEF Dismissed, TypeOK
  <2> QED BY <1>1, <1>4, <2>1, ExpireStep
<1> QED BY <1>2, <1>3, <1>4 DEF Offer

\* Heartbeat and completion of an active download.
LEMMA RefreshStep == ASSUME IInv, NEW d \in Downloads, Refresh(d) PROVE IInv'
<1>0. TypeOK /\ Telling(d) /\ Holding(d) /\ Serving(d) BY Here
<1>1. PICK m \in {"heartbeat", "complete"} :
        /\ Receive(d, m)
        /\ active' = [active EXCEPT ![d] =
             IF @ = "no" THEN @ ELSE IF m = "heartbeat" THEN "yes" ELSE "grace"]
  BY DEF Refresh
<1>2. Fewer(d) /\ m \in Inside(posted[d])
  BY <1>1, ReceiveOK DEF Messages
<1>3. active[d] \in {"no", "yes", "grace"} BY <1>0 DEF TypeOK
<1>4. /\ active' \in [Downloads -> {"no", "yes", "grace"}]
      /\ \A e \in Downloads \ {d} : active'[e] = active[e]
      /\ active'[d] = "no" <=> active[d] = "no"
      /\ active'[d] = "grace" => m = "complete"
  BY <1>0, <1>1, <1>3 DEF TypeOK
<1>5. UNCHANGED <<stream, reply, session, lifetime, fetch>> BY DEF Refresh
<1>6. TypeOK' BY <1>0, <1>2, <1>4, <1>5 DEF TypeOK, Fewer
<1>7. Only(d) BY <1>2, <1>4, <1>5 DEF Only, Fewer
<1>8. Telling(d)' BY <1>0, <1>2, <1>5 DEF Telling, Fewer
<1>9. Holding(d)' BY <1>0, <1>2, <1>4, <1>5 DEF Holding, Telling, Fewer
<1>10. Serving(d)' BY <1>0, <1>5 DEF Serving
<1> QED BY <1>6, <1>7, <1>8, <1>9, <1>10, Frame

\* releaseActiveDownload, when the page is no longer writing.
LEMMA ReleaseStep ==
  ASSUME IInv, NEW d \in Downloads, Release(d), active[d] # "no",
         page[d].stage \notin Running,
         UNCHANGED <<page, stream, reply, session, fetch>>,
         posted' \in [Downloads -> Seq(Messages)],
         \A e \in Downloads \ {d} : posted'[e] = posted[e],
         Telling(d)'
  PROVE  IInv'
<1>0. TypeOK /\ Telling(d) /\ Holding(d) /\ Serving(d) BY Here
<1>1. /\ active' \in [Downloads -> {"no", "yes", "grace"}]
      /\ lifetime' \in [Downloads -> {"none", "held", "released"}]
      /\ active'[d] = "no" /\ lifetime'[d] = "released"
  BY <1>0 DEF Release, TypeOK
<1>2. TypeOK' BY <1>0, <1>1 DEF TypeOK
<1>3. Only(d) BY <1>0 DEF Only, Release, TypeOK
<1>4. Holding(d)' BY <1>0, <1>1 DEF Holding
<1>5. Serving(d)' BY <1>0 DEF Serving
<1> QED BY <1>2, <1>3, <1>4, <1>5, Frame

\* Requests are dismissed or sent, and nothing else changes but messages.
LEMMA DismissStep ==
  ASSUME IInv, NEW d \in Downloads, Dismissed(d),
         UNCHANGED <<page, stream, reply, session, active, lifetime>>,
         posted' \in [Downloads -> Seq(Messages)],
         \A e \in Downloads \ {d} : posted'[e] = posted[e],
         Telling(d)'
  PROVE  IInv'
<1>0. TypeOK /\ Telling(d) /\ Holding(d) /\ Serving(d) BY Here
<1>1. \A i \in 1..Tries : fetch'[d][i] \in Served => fetch'[d][i] = fetch[d][i]
  BY DEF Dismissed, Served
<1>2. TypeOK' BY <1>0 DEF TypeOK, Dismissed
<1>3. Only(d) BY <1>0 DEF Only, Dismissed
<1>4. Holding(d)' BY <1>0, <1>1 DEF Holding, Served
<1>5. Serving(d)' BY <1>0, <1>1 DEF Serving, Served
<1> QED BY <1>2, <1>3, <1>4, <1>5, Frame

\* A message that cancels.
LEMMA CancelStep == ASSUME IInv, NEW d \in Downloads, Cancel(d) PROVE IInv'
<1>0. TypeOK /\ Telling(d) /\ Holding(d) /\ Serving(d) BY Here
<1>1. Fewer(d) /\ page[d].stage = "failed"
  <2>1. "cancel" \in Messages /\ Receive(d, "cancel") BY DEF Cancel, Messages
  <2>2. Fewer(d) /\ "cancel" \in Inside(posted[d]) BY <2>1, ReceiveOK
  <2> QED BY <1>0, <2>2 DEF Telling
<1>2. ASSUME session' = session PROVE Telling(d)'
  BY <1>0, <1>1, <1>2 DEF Telling, Fewer
<1>3. CASE d \in Active /\ Release(d) /\ UNCHANGED <<stream, reply, session, fetch>>
  <2>1. active[d] # "no" BY <1>3 DEF Active
  <2>2. page[d].stage \notin Running BY <1>1 DEF Running
  <2>3. Telling(d)' BY <1>2, <1>3
  <2> QED BY <1>1, <1>3, <2>1, <2>2, <2>3, ReleaseStep DEF Fewer
<1>4. CASE d \in Pending /\ Expire(d) /\ UNCHANGED fetch
  <2>1. Dismissed(d) BY <1>0, <1>4 DEF Dismissed, TypeOK
  <2>2. session[d] # "taken" BY <1>4 DEF Pending
  <2> QED BY <1>1, <1>4, <2>1, <2>2, ExpireStep
<1>5. CASE /\ fetch' = [fetch EXCEPT ![d] =
                [i \in 1..Tries |-> IF @[i] = "waiting" THEN "gone" ELSE @[i]]]
           /\ UNCHANGED <<stream, reply, worker>>
  <2>1. fetch \in [Downloads -> [1..Tries -> FetchState]] BY <1>0 DEF TypeOK
  <2>2. fetch'[d] = [i \in 1..Tries |->
                       IF fetch[d][i] = "waiting" THEN "gone" ELSE fetch[d][i]]
    BY <1>5, <2>1
  <2>3. fetch'[d] \in [1..Tries -> FetchState] BY <2>1, <2>2 DEF FetchState
  <2>4. Dismissed(d) BY <1>5, <2>1, <2>2, <2>3 DEF Dismissed
  <2>5. Telling(d)' BY <1>2, <1>5 DEF worker
  <2> QED BY <1>1, <1>5, <2>4, <2>5, DismissStep DEF Fewer, worker
<1> QED BY <1>3, <1>4, <1>5 DEF Cancel

\* The fetch handler.
LEMMA FetchStep ==
  ASSUME IInv, NEW d \in Downloads, NEW i \in 1..Tries, Fetch(d, i)
  PROVE  IInv'
<1>0. TypeOK /\ Telling(d) /\ Holding(d) /\ Serving(d) BY Here
<1>1. fetch \in [Downloads -> [1..Tries -> FetchState]] BY <1>0 DEF TypeOK
<1>2. ASSUME NEW t \in {"gone", "waiting"}, fetch' = [fetch EXCEPT ![d][i] = t]
      PROVE  Dismissed(d)
  <2>1. fetch' = [fetch EXCEPT ![d] = [fetch[d] EXCEPT ![i] = t]] BY <1>1, <1>2
  <2>2. [fetch[d] EXCEPT ![i] = t] \in [1..Tries -> FetchState]
    BY <1>1 DEF FetchState
  <2> QED BY <1>1, <2>1, <2>2 DEF Dismissed
<1>3. UNCHANGED <<page, posted>> BY DEF Fetch
<1>4. CASE d \in Pending /\ Claim(d, i)
  <2>1. session[d] = "waiting" BY <1>4 DEF Pending
  <2>2. session' = [session EXCEPT ![d] = "taken"] BY <1>4 DEF Claim
  <2>3. Fewer(d) BY <1>3, <2>1, NothingReceived
  <2> QED BY <1>4, <2>1, <2>2, <2>3, ClaimStep
<1>5. CASE d \in Pending /\ Expire(d) /\ fetch' = [fetch EXCEPT ![d][i] = "gone"]
  <2>1. session[d] = "waiting" BY <1>5 DEF Pending
  <2>2. Fewer(d) BY <1>3, <2>1, NothingReceived
  <2>3. Dismissed(d) BY <1>2, <1>5
  <2> QED BY <1>5, <2>1, <2>2, <2>3, ExpireStep
<1>6. CASE /\ fetch' = [fetch EXCEPT ![d][i] =
                IF \/ Cardinality(Waiters) >= MAX_PENDING_FETCHES
                   \/ \E j \in 1..Tries : fetch[d][j] = "waiting"
                THEN "gone" ELSE "waiting"]
           /\ UNCHANGED <<stream, reply, worker>>
  <2>1. PICK t \in {"gone", "waiting"} : fetch' = [fetch EXCEPT ![d][i] = t] BY <1>6
  <2>2. Dismissed(d) BY <1>2, <2>1
  <2>3. Telling(d)' BY <1>0, <1>3, <1>6 DEF Telling, worker
  <2> QED BY <1>0, <1>3, <1>6, <2>2, <2>3, DismissStep DEF worker, TypeOK
<1> QED BY <1>4, <1>5, <1>6 DEF Fetch

\* The timers of the worker.
LEMMA TimerSteps ==
  ASSUME IInv, NEW d \in Downloads,
         \/ SessionTimeout(d) \/ ActiveTimeout(d)
         \/ \E i \in 1..Tries : FetchTimeout(d, i)
  PROVE  IInv'
<1>0. TypeOK /\ Telling(d) /\ Holding(d) /\ Serving(d) BY Here
<1>1. fetch \in [Downloads -> [1..Tries -> FetchState]] BY <1>0 DEF TypeOK
<1>2. CASE SessionTimeout(d)
  <2>1. session[d] = "waiting" BY <1>2 DEF SessionTimeout, Pending
  <2>2. Fewer(d) BY <1>2, <2>1, NothingReceived DEF SessionTimeout
  <2>3. Dismissed(d) BY <1>1, <1>2 DEF Dismissed, SessionTimeout
  <2> QED BY <1>2, <2>1, <2>2, <2>3, ExpireStep DEF SessionTimeout
<1>3. CASE ActiveTimeout(d)
  <2>1. active[d] # "no" BY <1>3 DEF ActiveTimeout
  <2>2. page[d].stage \notin Running
    BY <1>0, <1>3 DEF ActiveTimeout, Telling, Holding, Running
  <2>3. Telling(d)' BY <1>0, <1>3 DEF ActiveTimeout, Telling
  <2> QED BY <1>0, <1>3, <2>1, <2>2, <2>3, ReleaseStep DEF ActiveTimeout, TypeOK
<1>4. CASE \E i \in 1..Tries : FetchTimeout(d, i)
  <2>1. PICK i \in 1..Tries : FetchTimeout(d, i) BY <1>4
  <2>2. fetch' = [fetch EXCEPT ![d] = [fetch[d] EXCEPT ![i] = "gone"]]
    BY <1>1, <2>1 DEF FetchTimeout
  <2>3. [fetch[d] EXCEPT ![i] = "gone"] \in [1..Tries -> FetchState]
    BY <1>1 DEF FetchState
  <2>4. Dismissed(d) BY <1>1, <2>2, <2>3 DEF Dismissed
  <2>5. Telling(d)' BY <1>0, <2>1 DEF FetchTimeout, Telling, worker
  <2> QED BY <1>0, <2>1, <2>4, <2>5, DismissStep DEF FetchTimeout, worker, TypeOK
<1> QED BY <1>2, <1>3, <1>4

\* The browser stops the worker: nobody streams and nothing is held.
LEMMA StopStep == ASSUME IInv, WorkerStops PROVE IInv'
<1>0. TypeOK BY DEF IInv
<1>1. session' = [d \in Downloads |-> IF d \in Pending THEN "taken" ELSE session[d]]
  BY DEF WorkerStops
<1>2. active' = [d \in Downloads |-> "no"] BY DEF WorkerStops
<1>3. lifetime' = [d \in Downloads |->
                    IF lifetime[d] = "held" THEN "released" ELSE lifetime[d]]
  BY DEF WorkerStops
<1>4. fetch' = [d \in Downloads |-> [i \in 1..Tries |->
                 CASE fetch[d][i] = "waiting" -> "gone"
                   [] fetch[d][i] = "streaming" -> "broken"
                   [] OTHER -> fetch[d][i]]]
  BY DEF WorkerStops
<1>5. PICK told \in SUBSET Downloads :
        stream' = [d \in Downloads |->
          IF d \in told /\ lifetime[d] = "held" /\ stream[d].state = "open"
          THEN [stream[d] EXCEPT !.state = "cancelled"] ELSE stream[d]]
  BY DEF WorkerStops
<1>6. UNCHANGED <<page, posted, reply>> BY DEF WorkerStops
<1>7. ASSUME NEW d \in Downloads
      PROVE  /\ stream'[d] \in Stream
             /\ stream'[d].read = stream[d].read /\ stream'[d].written = stream[d].written
             /\ stream'[d].state = "closed" <=> stream[d].state = "closed"
  <2>1. stream[d] \in Stream BY <1>0 DEF TypeOK
  <2>2. CASE stream'[d] = stream[d] BY <2>1, <2>2
  <2>3. CASE stream[d].state = "open" /\ stream'[d] = [stream[d] EXCEPT !.state = "cancelled"]
    BY <2>1, <2>3 DEF Stream
  <2> QED BY <1>5, <2>2, <2>3
<1>8. ASSUME NEW d \in Downloads, NEW i \in 1..Tries
      PROVE  /\ fetch'[d][i] \in FetchState /\ fetch'[d][i] # "streaming"
             /\ fetch'[d][i] \in Served => fetch[d][i] \in Served
             /\ fetch'[d][i] = "saved" => fetch[d][i] = "saved"
  BY <1>0, <1>4 DEF TypeOK, FetchState, Served
<1>9. TypeOK'
  <2>1. stream' \in [Downloads -> Stream] BY <1>5, <1>7
  <2>2. fetch' \in [Downloads -> [1..Tries -> FetchState]]
    <3> SUFFICES ASSUME NEW d \in Downloads
                 PROVE  fetch'[d] \in [1..Tries -> FetchState]
      BY <1>4
    <3> QED BY <1>4, <1>8
  <2> QED BY <1>0, <1>1, <1>2, <1>3, <1>6, <2>1, <2>2 DEF TypeOK
<1>10. ASSUME NEW d \in Downloads PROVE Good(d)'
  <2>0. Telling(d) /\ Holding(d) /\ Serving(d) BY DEF IInv, Good
  <2>1. /\ session'[d] = IF session[d] = "waiting" THEN "taken" ELSE session[d]
        /\ active'[d] = "no" /\ lifetime'[d] # "held"
    BY <1>1, <1>2, <1>3 DEF Pending
  <2>2. Telling(d)' BY <1>6, <2>0, <2>1 DEF Telling
  <2>3. session'[d] # "taken" => \A i \in 1..Tries : fetch'[d][i] \notin Served
    BY <1>8, <2>0, <2>1 DEF Holding
  <2>4. session'[d] # "waiting" BY <2>1
  <2>5. Holding(d)' BY <1>8, <2>1, <2>3, <2>4 DEF Holding
  <2>6. Serving(d)' BY <1>7, <1>8, <2>0 DEF Serving
  <2> QED BY <2>2, <2>5, <2>6 DEF Good
<1> QED BY <1>9, <1>10 DEF IInv

-----------------------------------------------------------------------------
(* Steps of the browser *)

\* A request is repeated.
LEMMA RetryStep ==
  ASSUME IInv, NEW d \in Downloads, NEW i \in 1..Tries, Retry(d, i)
  PROVE  IInv'
<1>0. TypeOK /\ Telling(d) BY Here
<1>1. fetch \in [Downloads -> [1..Tries -> FetchState]] BY <1>0 DEF TypeOK
<1>2. fetch' = [fetch EXCEPT ![d] = [fetch[d] EXCEPT ![i] = "sent"]]
  BY <1>1 DEF Retry
<1>3. [fetch[d] EXCEPT ![i] = "sent"] \in [1..Tries -> FetchState]
  BY <1>1 DEF FetchState
<1>4. Dismissed(d) BY <1>1, <1>2, <1>3 DEF Dismissed
<1>5. Telling(d)' BY <1>0 DEF Retry, Telling, worker
<1> QED BY <1>0, <1>4, <1>5, DismissStep DEF Retry, worker, TypeOK

\* A chunk is read.
LEMMA ReadStep ==
  ASSUME IInv, NEW d \in Downloads, NEW i \in 1..Tries, Read(d, i)
  PROVE  IInv'
<1>0. TypeOK /\ Telling(d) /\ Holding(d) /\ Serving(d) BY Here
<1>1. stream \in [Downloads -> Stream] /\ stream[d] \in Stream BY <1>0 DEF TypeOK
<1>2. stream' = [stream EXCEPT ![d] = [stream[d] EXCEPT !.read = stream[d].read + 1]]
  BY <1>1 DEF Read
<1>3. /\ stream[d].read < stream[d].written /\ stream[d].written \in 0..Chunks
      /\ stream[d].read \in 0..Chunks
  BY <1>1 DEF Read, Stream
<1>4. /\ stream'[d].read = stream[d].read + 1
      /\ stream'[d].written = stream[d].written /\ stream'[d].state = stream[d].state
  BY <1>1, <1>2 DEF Stream
<1>5. stream'[d] \in Stream BY <1>1, <1>2, <1>3 DEF Stream
<1>6. TypeOK' BY <1>0, <1>2, <1>5 DEF Read, TypeOK, worker
<1>7. Only(d) BY <1>1, <1>2 DEF Read, Only, worker
<1>8. Telling(d)' BY <1>0 DEF Read, Telling, worker
<1>9. Holding(d)' BY <1>0 DEF Read, Holding, worker
<1>10. Serving(d)'
  <2>1. \A j \in 1..Tries : fetch[d][j] # "saved"
    BY <1>0, <1>3 DEF Serving
  <2>2. fetch' = fetch BY DEF Read
  <2> QED BY <1>0, <1>3, <1>4, <2>1, <2>2 DEF Serving
<1> QED BY <1>6, <1>7, <1>8, <1>9, <1>10, Frame

\* A response ends, by itself or by the user.
LEMMA EndSteps ==
  ASSUME IInv, NEW d \in Downloads, NEW i \in 1..Tries,
         Finish(d, i) \/ Stop(d, i)
  PROVE  IInv'
<1>0. TypeOK /\ Telling(d) /\ Holding(d) /\ Serving(d) BY Here
<1>1. fetch \in [Downloads -> [1..Tries -> FetchState]] BY <1>0 DEF TypeOK
<1>2. PICK t \in {"saved", "broken"} :
        /\ fetch' = [fetch EXCEPT ![d][i] = t]
        /\ t = "saved" => /\ stream[d].state = "closed"
                          /\ stream[d].read = stream[d].written
  BY DEF Finish, Stop
<1>3. fetch' = [fetch EXCEPT ![d] = [fetch[d] EXCEPT ![i] = t]] BY <1>1, <1>2
<1>4. [fetch[d] EXCEPT ![i] = t] \in [1..Tries -> FetchState]
  BY <1>1 DEF FetchState
<1>5. /\ fetch[d][i] = "streaming"
      /\ UNCHANGED <<page, posted, reply, session, active, lifetime>>
  BY DEF Finish, Stop, worker
<1>6. /\ fetch'[d][i] = t
      /\ \A j \in 1..Tries : j # i => fetch'[d][j] = fetch[d][j]
      /\ \A e \in Downloads \ {d} : fetch'[e] = fetch[e]
  BY <1>1, <1>3
<1>7. /\ stream' \in [Downloads -> Stream]
      /\ \A e \in Downloads \ {d} : stream'[e] = stream[e]
      /\ stream'[d].read = stream[d].read /\ stream'[d].written = stream[d].written
      /\ stream'[d].state = "closed" <=> stream[d].state = "closed"
  <2>1. CASE Finish(d, i) BY <1>0, <2>1 DEF Finish, TypeOK
  <2>2. CASE Stop(d, i) BY <1>0, <2>2, EndOK DEF Stop
  <2> QED BY <2>1, <2>2
<1>8. TypeOK' BY <1>0, <1>1, <1>3, <1>4, <1>5, <1>7 DEF TypeOK
<1>9. Only(d) BY <1>5, <1>6, <1>7 DEF Only
<1>10. Telling(d)' BY <1>0, <1>5 DEF Telling
<1>11. Holding(d)'
  <2>1. session[d] = "taken" BY <1>0, <1>5 DEF Holding, Served
  <2> QED BY <1>0, <1>5, <1>6, <2>1 DEF Holding
<1>12. Serving(d)'
  <2>1. \A j \in 1..Tries : fetch'[d][j] \in Served => fetch[d][j] \in Served
    BY <1>5, <1>6 DEF Served
  <2>2. \A j \in 1..Tries : fetch'[d][j] = "saved" =>
          stream[d].state = "closed" /\ stream[d].read = Chunks
    BY <1>0, <1>2, <1>6 DEF Serving
  <2> QED BY <1>0, <1>7, <2>1, <2>2 DEF Serving
<1> QED BY <1>8, <1>9, <1>10, <1>11, <1>12, Frame

-----------------------------------------------------------------------------
(* The limits of the worker *)

LimitsInv ==
  /\ IsFiniteSet(Active) /\ IsFiniteSet(Pending) /\ IsFiniteSet(Waiters)
  /\ LimitsKept

\* A set that grows by one element at most, and only below its limit, stays
\* within it.
LEMMA Growth ==
  ASSUME NEW S, NEW T, NEW x, NEW limit \in Nat, IsFiniteSet(S),
         Cardinality(S) <= limit,
         T \subseteq S \/ (T \subseteq S \cup {x} /\ Cardinality(S) < limit)
  PROVE  IsFiniteSet(T) /\ Cardinality(T) <= limit
<1>1. CASE T \subseteq S
  <2>1. IsFiniteSet(T) /\ Cardinality(T) <= Cardinality(S) BY <1>1, FS_Subset
  <2>2. Cardinality(S) \in Nat /\ Cardinality(T) \in Nat
    BY <2>1, FS_CardinalityType
  <2> QED BY <2>1, <2>2
<1>2. CASE T \subseteq S \cup {x} /\ Cardinality(S) < limit
  <2>1. /\ IsFiniteSet(S \cup {x})
        /\ Cardinality(S \cup {x}) <= Cardinality(S) + 1
    <3>1. /\ IsFiniteSet(S \cup {x})
          /\ Cardinality(S \cup {x}) =
               IF x \in S THEN Cardinality(S) ELSE Cardinality(S) + 1
      BY FS_AddElement
    <3>2. Cardinality(S) \in Nat BY FS_CardinalityType
    <3> QED BY <3>1, <3>2
  <2>2. IsFiniteSet(T) /\ Cardinality(T) <= Cardinality(S \cup {x})
    BY <1>2, <2>1, FS_Subset
  <2>3. /\ Cardinality(S) \in Nat /\ Cardinality(T) \in Nat
        /\ Cardinality(S \cup {x}) \in Nat
    BY <2>1, <2>2, FS_CardinalityType
  <2> QED BY <1>2, <2>1, <2>2, <2>3
<1> QED BY <1>1, <1>2

\* What a step may do to the three maps of the worker.
Grows(d, i) ==
  /\ \/ Active' \subseteq Active
     \/ /\ Active' \subseteq Active \cup {d}
        /\ Cardinality(Active) < MAX_ACTIVE_DOWNLOADS
  /\ \/ Pending' \subseteq Pending
     \/ /\ Pending' \subseteq Pending \cup {d}
        /\ Cardinality(Pending) < MAX_PENDING_SESSIONS
  /\ \/ Waiters' \subseteq Waiters
     \/ /\ Waiters' \subseteq Waiters \cup {<<d, i>>}
        /\ Cardinality(Waiters) < MAX_PENDING_FETCHES

LEMMA GrowsInv ==
  ASSUME LimitsInv, NEW d, NEW i, Grows(d, i) PROVE LimitsInv'
<1>1. IsFiniteSet(Active') /\ Cardinality(Active') <= MAX_ACTIVE_DOWNLOADS
  BY Growth DEF LimitsInv, LimitsKept, Grows
<1>2. IsFiniteSet(Pending') /\ Cardinality(Pending') <= MAX_PENDING_SESSIONS
  BY Growth DEF LimitsInv, LimitsKept, Grows
<1>3. IsFiniteSet(Waiters') /\ Cardinality(Waiters') <= MAX_PENDING_FETCHES
  BY Growth DEF LimitsInv, LimitsKept, Grows
<1> QED BY <1>1, <1>2, <1>3 DEF LimitsInv, LimitsKept

\* Nobody waits who did not: what the requests of d become is not "waiting",
\* unless they were.
LEMMA NoWaiter ==
  ASSUME NEW d \in Downloads,
         \A e \in Downloads \ {d} : fetch'[e] = fetch[e],
         \A i \in 1..Tries : fetch'[d][i] = fetch[d][i] \/ fetch'[d][i] # "waiting"
  PROVE  Waiters' \subseteq Waiters
  BY DEF Waiters

\* Neither a claim nor an expiry adds to the sessions.
LEMMA TakenShrinks ==
  ASSUME TypeOK, NEW d \in Downloads, session' = [session EXCEPT ![d] = "taken"]
  PROVE  Pending' \subseteq Pending
  BY DEF Pending, TypeOK

\* Sessions and slots are given in Offer and Fetch only, and a request waits in
\* Fetch only.
LEMMA OfferGrows ==
  ASSUME TypeOK, NEW d \in Downloads, Offer(d) PROVE \E i \in 1..Tries : Grows(d, i)
<1>0. fetch \in [Downloads -> [1..Tries -> FetchState]] BY DEF TypeOK
<1>1. CASE /\ Cardinality(Active) < MAX_ACTIVE_DOWNLOADS
           /\ \E i \in 1..Tries : fetch[d][i] = "waiting" /\ Claim(d, i)
  <2>1. PICK i \in 1..Tries : Claim(d, i) BY <1>1
  <2>2. Active' \subseteq Active \cup {d} BY <2>1 DEF Claim, Active, TypeOK
  <2>3. Pending' \subseteq Pending BY <2>1, TakenShrinks DEF Claim
  <2>4. fetch' = [fetch EXCEPT ![d] = [fetch[d] EXCEPT ![i] = "streaming"]]
    BY <1>0, <2>1 DEF Claim
  <2>5. Waiters' \subseteq Waiters BY <1>0, <2>4, NoWaiter
  <2> QED BY <1>1, <2>2, <2>3, <2>5 DEF Grows
<1>2. CASE /\ Cardinality(Pending) < MAX_PENDING_SESSIONS
           /\ session' = [session EXCEPT ![d] = "waiting"]
           /\ UNCHANGED <<active, fetch>>
  <2>1. Pending' \subseteq Pending \cup {d} BY <1>2 DEF Pending, TypeOK
  <2>2. Active' = Active /\ Waiters' = Waiters BY <1>2 DEF Active, Waiters
  <2>3. 1 \in 1..Tries OBVIOUS
  <2> QED BY <1>2, <2>1, <2>2, <2>3 DEF Grows
<1>3. CASE Expire(d) /\ UNCHANGED fetch
  <2>1. Pending' \subseteq Pending BY <1>3, TakenShrinks DEF Expire
  <2>2. Active' = Active /\ Waiters' = Waiters BY <1>3 DEF Active, Waiters, Expire
  <2>3. 1 \in 1..Tries OBVIOUS
  <2> QED BY <2>1, <2>2, <2>3 DEF Grows
<1> QED BY <1>1, <1>2, <1>3 DEF Offer

LEMMA FetchGrows ==
  ASSUME TypeOK, LimitsInv, NEW d \in Downloads, NEW i \in 1..Tries, Fetch(d, i)
  PROVE  Grows(d, i)
<1>0. fetch \in [Downloads -> [1..Tries -> FetchState]] BY DEF TypeOK
<1>1. CASE Cardinality(Active) < MAX_ACTIVE_DOWNLOADS /\ Claim(d, i)
  <2>1. Active' \subseteq Active \cup {d} BY <1>1 DEF Claim, Active, TypeOK
  <2>2. Pending' \subseteq Pending BY <1>1, TakenShrinks DEF Claim
  <2>3. fetch' = [fetch EXCEPT ![d] = [fetch[d] EXCEPT ![i] = "streaming"]]
    BY <1>0, <1>1 DEF Claim
  <2>4. Waiters' \subseteq Waiters BY <1>0, <2>3, NoWaiter
  <2> QED BY <1>1, <2>1, <2>2, <2>4 DEF Grows
<1>2. CASE Expire(d) /\ fetch' = [fetch EXCEPT ![d][i] = "gone"]
  <2>1. Pending' \subseteq Pending BY <1>2, TakenShrinks DEF Expire
  <2>2. Active' = Active BY <1>2 DEF Active, Expire
  <2>3. fetch' = [fetch EXCEPT ![d] = [fetch[d] EXCEPT ![i] = "gone"]]
    BY <1>0, <1>2
  <2>4. Waiters' \subseteq Waiters BY <1>0, <2>3, NoWaiter
  <2> QED BY <2>1, <2>2, <2>4 DEF Grows
<1>3. CASE /\ fetch' = [fetch EXCEPT ![d][i] =
                IF \/ Cardinality(Waiters) >= MAX_PENDING_FETCHES
                   \/ \E j \in 1..Tries : fetch[d][j] = "waiting"
                THEN "gone" ELSE "waiting"]
           /\ UNCHANGED <<stream, reply, worker>>
  <2>1. Active' = Active /\ Pending' = Pending BY <1>3 DEF Active, Pending, worker
  <2>2. CASE fetch' = [fetch EXCEPT ![d] = [fetch[d] EXCEPT ![i] = "gone"]]
    <3>1. Waiters' \subseteq Waiters BY <1>0, <2>2, NoWaiter
    <3> QED BY <2>1, <3>1 DEF Grows
  <2>3. CASE /\ ~(Cardinality(Waiters) >= MAX_PENDING_FETCHES)
             /\ fetch' = [fetch EXCEPT ![d] = [fetch[d] EXCEPT ![i] = "waiting"]]
    <3>1. Waiters' \subseteq Waiters \cup {<<d, i>>} BY <1>0, <2>3 DEF Waiters
    <3>2. Cardinality(Waiters) \in Nat BY FS_CardinalityType DEF LimitsInv
    <3>3. Cardinality(Waiters) < MAX_PENDING_FETCHES
      BY <2>3, <3>2, DownloadAssumption
    <3> QED BY <2>1, <3>1, <3>3 DEF Grows
  <2> QED BY <1>0, <1>3, <2>2, <2>3
<1> QED BY <1>1, <1>2, <1>3 DEF Fetch

\* Every other step takes from the three maps, or leaves them alone.
Shrinks ==
  Active' \subseteq Active /\ Pending' \subseteq Pending /\ Waiters' \subseteq Waiters

LEMMA ShrinksInv == ASSUME LimitsInv, Shrinks PROVE LimitsInv'
<1>1. IsFiniteSet(Active') /\ Cardinality(Active') <= MAX_ACTIVE_DOWNLOADS
  BY Growth, DownloadAssumption DEF LimitsInv, LimitsKept, Shrinks
<1>2. IsFiniteSet(Pending') /\ Cardinality(Pending') <= MAX_PENDING_SESSIONS
  BY Growth, DownloadAssumption DEF LimitsInv, LimitsKept, Shrinks
<1>3. IsFiniteSet(Waiters') /\ Cardinality(Waiters') <= MAX_PENDING_FETCHES
  BY Growth, DownloadAssumption DEF LimitsInv, LimitsKept, Shrinks
<1> QED BY <1>1, <1>2, <1>3 DEF LimitsInv, LimitsKept

LEMMA UnheldShrinks ==
  ASSUME UNCHANGED <<session, active>>, Waiters' \subseteq Waiters
  PROVE  Shrinks
  BY DEF Shrinks, Active, Pending

LEMMA PageShrinks ==
  ASSUME TypeOK, NEW d \in Downloads,
         \/ PageStep(d) \/ Abort(d) \/ Create(d) \/ Heartbeat(d) \/ Write(d)
         \/ Close(d) \/ Vanish(d)
  PROVE  Shrinks
<1>0. fetch \in [Downloads -> [1..Tries -> FetchState]] BY DEF TypeOK
<1>1. CASE Create(d)
  <2>1. fetch' = [fetch EXCEPT ![d] = [fetch[d] EXCEPT ![1] = "sent"]]
    BY <1>0, <1>1 DEF Create
  <2>2. Waiters' \subseteq Waiters BY <1>0, <2>1, NoWaiter
  <2> QED BY <1>1, <2>2, UnheldShrinks DEF Create, worker
<1>2. CASE \/ PageStep(d) \/ Abort(d) \/ Heartbeat(d) \/ Write(d) \/ Close(d)
           \/ Vanish(d)
  <2>1. UNCHANGED <<session, active, fetch>>
    BY <1>2 DEF PageStep, Started, Refused, StartTimeout, StreamLost, Abandon,
                Abort, Heartbeat, Write, Close, Vanish, worker
  <2>2. Waiters' \subseteq Waiters BY <2>1 DEF Waiters
  <2> QED BY <2>1, <2>2, UnheldShrinks
<1> QED BY <1>1, <1>2

LEMMA BrowserShrinks ==
  ASSUME TypeOK, NEW d \in Downloads, NEW i \in 1..Tries,
         Retry(d, i) \/ Read(d, i) \/ Stop(d, i) \/ Finish(d, i) \/ FetchTimeout(d, i)
  PROVE  Shrinks
<1>0. fetch \in [Downloads -> [1..Tries -> FetchState]] BY DEF TypeOK
<1>1. UNCHANGED <<session, active>>
  BY DEF Retry, Read, Stop, Finish, FetchTimeout, worker
<1>2. CASE Read(d, i)
  <2>1. Waiters' \subseteq Waiters BY <1>2 DEF Read, Waiters
  <2> QED BY <1>1, <2>1, UnheldShrinks
<1>3. CASE Retry(d, i) \/ Stop(d, i) \/ Finish(d, i) \/ FetchTimeout(d, i)
  <2>1. PICK t \in {"sent", "broken", "saved", "gone"} :
          fetch' = [fetch EXCEPT ![d][i] = t]
    BY <1>3 DEF Retry, Stop, Finish, FetchTimeout
  <2>2. fetch' = [fetch EXCEPT ![d] = [fetch[d] EXCEPT ![i] = t]] BY <1>0, <2>1
  <2>3. Waiters' \subseteq Waiters BY <1>0, <2>2, NoWaiter
  <2> QED BY <1>1, <2>3, UnheldShrinks
<1> QED BY <1>2, <1>3

LEMMA WorkerShrinks ==
  ASSUME TypeOK, NEW d \in Downloads,
         Refresh(d) \/ Cancel(d) \/ SessionTimeout(d) \/ ActiveTimeout(d)
  PROVE  Shrinks
<1>0. fetch \in [Downloads -> [1..Tries -> FetchState]] BY DEF TypeOK
<1>1. CASE Refresh(d)
  <2>1. Active' \subseteq Active BY <1>1 DEF Refresh, Active, TypeOK
  <2>2. Pending' = Pending /\ Waiters' = Waiters
    BY <1>1 DEF Refresh, Pending, Waiters
  <2> QED BY <2>1, <2>2 DEF Shrinks
<1>2. CASE Cancel(d) /\ d \notin Active \cup Pending
  <2>1. /\ fetch' = [fetch EXCEPT ![d] = [i \in 1..Tries |->
                       IF fetch[d][i] = "waiting" THEN "gone" ELSE fetch[d][i]]]
        /\ UNCHANGED <<session, active>>
    BY <1>0, <1>2 DEF Cancel, worker
  <2>2. Waiters' \subseteq Waiters BY <1>0, <2>1, NoWaiter
  <2> QED BY <2>1, <2>2, UnheldShrinks
<1>3. CASE Release(d) /\ UNCHANGED <<session, fetch>>
  <2>1. Active' \subseteq Active BY <1>3 DEF Release, Active, TypeOK
  <2>2. Pending' = Pending /\ Waiters' = Waiters BY <1>3 DEF Pending, Waiters
  <2> QED BY <2>1, <2>2 DEF Shrinks
<1>4. CASE Expire(d) /\ UNCHANGED fetch
  <2>1. Pending' \subseteq Pending BY <1>4, TakenShrinks DEF Expire
  <2>2. Active' = Active /\ Waiters' = Waiters BY <1>4 DEF Expire, Active, Waiters
  <2> QED BY <2>1, <2>2 DEF Shrinks
<1> QED BY <1>1, <1>2, <1>3, <1>4 DEF Cancel, SessionTimeout, ActiveTimeout

LEMMA StopShrinks == ASSUME WorkerStops PROVE Shrinks
<1>1. Active' \subseteq Active BY DEF WorkerStops, Active
<1>2. Pending' \subseteq Pending BY DEF WorkerStops, Pending
<1>3. Waiters' \subseteq Waiters BY DEF WorkerStops, Waiters
<1> QED BY <1>1, <1>2, <1>3 DEF Shrinks

LEMMA LimitsNext == TypeOK /\ LimitsInv /\ [Next]_vars => LimitsInv'
<1> SUFFICES ASSUME TypeOK, LimitsInv, [Next]_vars PROVE LimitsInv' OBVIOUS
<1>1. ASSUME NEW d \in Downloads, Offer(d) PROVE LimitsInv'
  BY <1>1, OfferGrows, GrowsInv
<1>2. ASSUME NEW d \in Downloads, NEW i \in 1..Tries, Fetch(d, i) PROVE LimitsInv'
  BY <1>2, FetchGrows, GrowsInv
<1>3. ASSUME NEW d \in Downloads, PageStep(d) \/ WorkerStep(d) \/ Choice(d)
      PROVE  LimitsInv'
  BY <1>1, <1>2, <1>3, PageShrinks, BrowserShrinks, WorkerShrinks, ShrinksInv
     DEF WorkerStep, Choice
<1>4. ASSUME NEW d \in Downloads, NEW i \in 1..Tries, Finish(d, i) PROVE LimitsInv'
  BY <1>4, BrowserShrinks, ShrinksInv
<1>5. CASE UNCHANGED vars
  <2>1. Shrinks BY <1>5 DEF vars, worker, Shrinks, Active, Pending, Waiters
  <2> QED BY <2>1, ShrinksInv
<1> QED BY <1>3, <1>4, <1>5, StopShrinks, ShrinksInv DEF Next

LEMMA LimitsInit == Init => LimitsInv
<1> SUFFICES ASSUME Init PROVE LimitsInv OBVIOUS
<1>1. Active = {} /\ Pending = {} /\ Waiters = {}
  BY DEF Init, Active, Pending, Waiters
<1>2. IsFiniteSet({}) /\ Cardinality({}) = 0 BY FS_EmptySet
<1> QED BY <1>1, <1>2, DownloadAssumption DEF LimitsInv, LimitsKept

-----------------------------------------------------------------------------
(* The theorems *)

LEMMA InitInv == Init => IInv
<1> SUFFICES ASSUME Init PROVE IInv OBVIOUS
<1>1. TypeOK
  BY DEF Init, TypeOK, Page, Stream, FetchState
<1>2. ASSUME NEW d \in Downloads PROVE Good(d)
  <2>1. posted[d] = <<>> BY DEF Init
  <2>2. Telling(d) BY <2>1, Posts DEF Init, Telling
  <2>3. Holding(d) BY DEF Init, Holding, Served
  <2>4. Serving(d) BY DEF Init, Serving, Served
  <2> QED BY <2>2, <2>3, <2>4 DEF Good
<1> QED BY <1>1, <1>2 DEF IInv

LEMMA NextInv == IInv /\ [Next]_vars => IInv'
<1> SUFFICES ASSUME IInv, [Next]_vars PROVE IInv' OBVIOUS
<1>1. ASSUME NEW d \in Downloads, PageStep(d) PROVE IInv'
  <2>1. CASE Started(d) BY <2>1, StartedStep
  <2>2. CASE Refused(d) \/ StartTimeout(d) \/ StreamLost(d)
    <3>1. page[d].stage \in Running BY <2>2 DEF Refused, StartTimeout, StreamLost, Running
    <3>2. Abandon(d, <<"cancel">>) \/ Abandon(d, <<"cancel", "cancel">>)
      BY <2>2 DEF Refused, StartTimeout, StreamLost
    <3> QED BY <3>1, <3>2, AbandonStep
  <2> QED BY <1>1, <2>1, <2>2 DEF PageStep
<1>2. ASSUME NEW d \in Downloads, WorkerStep(d) PROVE IInv'
  BY <1>2, OfferStep, RefreshStep, CancelStep, FetchStep, TimerSteps DEF WorkerStep
<1>3. ASSUME NEW d \in Downloads, Choice(d) PROVE IInv'
  <2>1. CASE Abort(d)
    <3>1. page[d].stage \in Running /\ Abandon(d, <<"cancel">>) BY <2>1 DEF Abort
    <3> QED BY <3>1, AbandonStep
  <2>2. CASE ~Abort(d)
    BY <1>3, <2>2, CreateStep, HeartbeatStep, WriteStep, CloseStep, VanishStep,
       RetryStep, ReadStep, EndSteps DEF Choice
  <2> QED BY <2>1, <2>2
<1>4. ASSUME NEW d \in Downloads, NEW i \in 1..Tries, Finish(d, i) PROVE IInv'
  BY <1>4, EndSteps
<1>5. CASE UNCHANGED vars
  BY <1>5 DEF vars, worker, IInv, Good, TypeOK, Telling, Holding, Serving
<1> QED BY <1>1, <1>2, <1>3, <1>4, <1>5, StopStep DEF Next

THEOREM Invariance == Spec => []IInv
  BY InitInv, NextInv, PTL DEF Spec

\* Every variable keeps its type: nothing is read that was not written, and
\* nothing written beyond the size that was announced.
THEOREM TypeCorrect == Spec => []TypeOK
<1>1. IInv => TypeOK BY DEF IInv
<1> QED BY <1>1, Invariance, PTL

\* A stream is the body of one response, however request and offer overtake
\* each other and however often the request is repeated.
THEOREM OneResponseOnly == Spec => []OneResponse
<1>1. IInv => OneResponse
  BY DEF IInv, Good, Serving, OneResponse, Served
<1> QED BY <1>1, Invariance, PTL

\* A file that is saved as complete is complete.
THEOREM SavedIsWhole == Spec => []NoTruncatedFile
<1>1. IInv => NoTruncatedFile
  BY DEF IInv, Good, Serving, NoTruncatedFile
<1> QED BY <1>1, Invariance, PTL

\* A worker that streams is kept alive while the page writes, and is not held
\* by a download that has neither session nor slot.
THEOREM WorkerKeptAlive == Spec => []KeptAlive
<1>1. IInv => KeptAlive
  BY DEF IInv, Good, Holding, KeptAlive, Pending, Active, Running
<1> QED BY <1>1, Invariance, PTL

\* The worker's three maps stay within their limits, for however many pages:
\* a claim looks again at the limit that the offer had looked at.
THEOREM LimitsHold == Spec => []LimitsKept
<1>1. Init => LimitsInv BY LimitsInit
<1>2. TypeOK /\ LimitsInv /\ [Next]_vars => LimitsInv' BY LimitsNext
<1>3. LimitsInv => LimitsKept BY DEF LimitsInv
<1> QED BY <1>1, <1>2, <1>3, TypeCorrect, PTL DEF Spec
=============================================================================
