----------------------------- MODULE Download ------------------------------
(***************************************************************************)
(* Downloads that the browser saves while the page decrypts: the service   *)
(* worker (public/__redbox_download/sw.js), ServiceWorkerDownloadService   *)
(* and DownloadCard. A page transfers a stream to the worker and clicks a  *)
(* link; the worker answers the request for the link with the stream. The  *)
(* page's messages, the request and the worker's reply travel on channels  *)
(* of their own, in no order between them.                                 *)
(*                                                                         *)
(* Each download has a page of its own. A chunk of the stream is one unit  *)
(* and is written when the browser has read the one before (TransformStream*)
(* queues nothing more). Probing and registering the worker, the native    *)
(* save dialog and the decryption itself are not part of this module.      *)
(***************************************************************************)
EXTENDS Integers, Sequences, FiniteSets

CONSTANTS
  Downloads,
  Tries,                \* requests for one link: the first, and retries
  Chunks,               \* length of the file
  MAX_PENDING_SESSIONS,
  MAX_PENDING_FETCHES,
  MAX_ACTIVE_DOWNLOADS

ASSUME DownloadAssumption ==
  /\ Chunks \in Nat \ {0}
  /\ Tries \in Nat \ {0}
  /\ MAX_PENDING_SESSIONS \in Nat \ {0}
  /\ MAX_PENDING_FETCHES \in Nat \ {0}
  /\ MAX_ACTIVE_DOWNLOADS \in Nat \ {0}

VARIABLES
  page,      \* the pages: createDestination and startDownload
  stream,    \* the TransformStreams
  posted,    \* messages on their way from a page to the worker
  reply,     \* what the worker has posted on the page's port
  session,   \* the worker's sessions: "waiting" when in the map
  active,    \* the worker's activeDownloads, with the kind of their timer
  lifetime,  \* the promises the worker has passed to waitUntil
  fetch      \* the requests of the browser

worker == <<session, active, lifetime>>
vars == <<page, stream, posted, reply, worker, fetch>>

-----------------------------------------------------------------------------
(* Values *)

Messages == {"offer", "heartbeat", "complete", "cancel"}
Page == [stage : {"idle", "starting", "streaming", "complete", "failed", "closed"},
         ready : {"pending", "resolved", "rejected"}, beat : BOOLEAN]
Stream == [written : 0..Chunks, read : 0..Chunks,
           state : {"open", "closed", "aborted", "cancelled"}]
FetchState == {"none", "sent", "waiting", "streaming", "gone", "saved", "broken"}

Running == {"starting", "streaming"}
Waiters == {w \in Downloads \X (1..Tries) : fetch[w[1]][w[2]] = "waiting"}
Pending == {d \in Downloads : session[d] = "waiting"}
Active == {d \in Downloads : active[d] # "no"}

-----------------------------------------------------------------------------
(* The page *)

Post(d, messages) == posted' = [posted EXCEPT ![d] = @ \o messages]

\* writer.abort and readable.cancel end a stream that is still open.
End(d, state) ==
  stream' = [stream EXCEPT ![d].state = IF @ = "open" THEN state ELSE @]

\* createDestination: the stream is posted and the link clicked at once.
Create(d) ==
  /\ page[d].stage = "idle"
  /\ page' = [page EXCEPT ![d].stage = "starting"]
  /\ Post(d, <<"offer">>)
  /\ fetch' = [fetch EXCEPT ![d][1] = "sent"]
  /\ UNCHANGED <<stream, reply, worker>>

Settled(d, ready, stage, beat) ==
  page' = [page EXCEPT ![d] =
    [stage |-> stage, ready |-> IF @.ready = "pending" THEN ready ELSE @.ready,
     beat |-> beat]]

\* settleReady() on REDBOX_DOWNLOAD_STARTED
Started(d) ==
  /\ page[d].stage = "starting" /\ reply[d] = "started"
  /\ Settled(d, "resolved", "streaming", TRUE)
  /\ Post(d, <<"heartbeat">>)
  /\ UNCHANGED <<stream, reply, worker, fetch>>

Heartbeat(d) ==
  /\ page[d].beat /\ posted[d] = <<>>
  /\ Post(d, <<"heartbeat">>)
  /\ UNCHANGED <<page, stream, reply, worker, fetch>>

\* destination.abort, onAbort
Abandon(d, messages) ==
  /\ Settled(d, "rejected", "failed", FALSE)
  /\ Post(d, messages)
  /\ End(d, "aborted")
  /\ UNCHANGED <<reply, worker, fetch>>

\* REDBOX_DOWNLOAD_ERROR rejects ready, and startDownload aborts.
Refused(d) ==
  /\ page[d].stage = "starting" /\ reply[d] = "error"
  /\ Abandon(d, <<"cancel">>)

\* WORKER_MESSAGE_TIMEOUT_MS. writer.closed then rejects, which aborts the
\* controller: onAbort cancels once more.
StartTimeout(d) ==
  /\ page[d].stage = "starting"
  /\ Abandon(d, <<"cancel", "cancel">>)

\* The user cancels or leaves the page; the server, the network or the
\* decryption fails.
Abort(d) ==
  /\ page[d].stage \in Running
  /\ Abandon(d, <<"cancel">>)

\* Mutant of StreamLost: nobody looks at writer.closed.
StreamLostUnseen(d) == FALSE /\ UNCHANGED vars

\* writer.closed rejects when the worker or the browser has cancelled.
StreamLost(d) ==
  /\ page[d].stage \in Running /\ stream[d].state = "cancelled"
  /\ Abandon(d, <<"cancel">>)

Write(d) ==
  /\ page[d].stage = "streaming" /\ stream[d].state = "open"
  /\ stream[d].written < Chunks /\ stream[d].read = stream[d].written
  /\ stream' = [stream EXCEPT ![d].written = @ + 1]
  /\ UNCHANGED <<page, posted, reply, worker, fetch>>

\* Mutant of Close: before all chunks are written.
CloseEarly(d) ==
  /\ page[d].stage = "streaming" /\ stream[d].state = "open"
  /\ stream[d].written > 0
  /\ page' = [page EXCEPT ![d].stage = "complete", ![d].beat = FALSE]
  /\ stream' = [stream EXCEPT ![d].state = "closed"]
  /\ Post(d, <<"complete">>)
  /\ UNCHANGED <<reply, worker, fetch>>

\* streamDecryptToFile has returned: destination.close, in one task, since
\* closing the writer does not wait for the reader.
Close(d) ==
  /\ page[d].stage = "streaming" /\ stream[d].state = "open"
  /\ stream[d].written = Chunks
  /\ page' = [page EXCEPT ![d].stage = "complete", ![d].beat = FALSE]
  /\ stream' = [stream EXCEPT ![d].state = "closed"]
  /\ Post(d, <<"complete">>)
  /\ UNCHANGED <<reply, worker, fetch>>

\* The tab dies without a word: nobody writes to the stream any more, and
\* whether the other side learns of it is the browser's business.
Vanish(d) ==
  /\ page[d].stage \in Running
  /\ page' = [page EXCEPT ![d].stage = "closed", ![d].beat = FALSE]
  /\ \/ End(d, "aborted") \/ UNCHANGED stream
  /\ UNCHANGED <<posted, reply, worker, fetch>>

-----------------------------------------------------------------------------
(* The worker *)

Release(d) ==
  /\ active' = [active EXCEPT ![d] = "no"]
  /\ lifetime' = [lifetime EXCEPT ![d] = "released"]

\* expireSession, of a waiting session or one that was never admitted
Expire(d) ==
  /\ session' = [session EXCEPT ![d] = "taken"]
  /\ reply' = [reply EXCEPT ![d] = "error"]
  /\ lifetime' = [lifetime EXCEPT ![d] = "released"]
  /\ End(d, "cancelled")
  /\ UNCHANGED active

\* Mutant of Claim: the session stays in the map.
ClaimKeeping(d, i) ==
  /\ active' = [active EXCEPT ![d] = "yes"]
  /\ lifetime' = [lifetime EXCEPT ![d] = "held"]
  /\ reply' = [reply EXCEPT ![d] = "started"]
  /\ fetch' = [fetch EXCEPT ![d][i] = "streaming"]
  /\ UNCHANGED <<session, stream>>

\* claimSession, below the limit
Claim(d, i) ==
  /\ session' = [session EXCEPT ![d] = "taken"]
  /\ active' = [active EXCEPT ![d] = "yes"]
  /\ lifetime' = [lifetime EXCEPT ![d] = "held"]
  /\ reply' = [reply EXCEPT ![d] = "started"]
  /\ fetch' = [fetch EXCEPT ![d][i] = "streaming"]
  /\ UNCHANGED stream

Receive(d, message) ==
  /\ posted[d] # <<>> /\ Head(posted[d]) = message
  /\ posted' = [posted EXCEPT ![d] = Tail(@)]
  /\ UNCHANGED page

\* offerSession
Offer(d) ==
  /\ Receive(d, "offer")
  /\ \/ /\ Cardinality(Active) < MAX_ACTIVE_DOWNLOADS
        /\ \E i \in 1..Tries : fetch[d][i] = "waiting" /\ Claim(d, i)
     \/ /\ Cardinality(Active) < MAX_ACTIVE_DOWNLOADS
        /\ \A i \in 1..Tries : fetch[d][i] # "waiting"
        /\ Cardinality(Pending) < MAX_PENDING_SESSIONS
        /\ session' = [session EXCEPT ![d] = "waiting"]
        /\ lifetime' = [lifetime EXCEPT ![d] = "held"]
        /\ UNCHANGED <<stream, reply, active, fetch>>
     \/ /\ \/ Cardinality(Active) >= MAX_ACTIVE_DOWNLOADS
           \/ /\ \A i \in 1..Tries : fetch[d][i] # "waiting"
              /\ Cardinality(Pending) >= MAX_PENDING_SESSIONS
        /\ Expire(d)
        /\ UNCHANGED fetch

\* A heartbeat starts the timer of an active download anew, the completion
\* leaves it a short one.
Refresh(d) ==
  /\ \/ Receive(d, "heartbeat")
        /\ active' = [active EXCEPT ![d] = IF @ = "no" THEN @ ELSE "yes"]
     \/ Receive(d, "complete")
        /\ active' = [active EXCEPT ![d] = IF @ = "no" THEN @ ELSE "grace"]
  /\ UNCHANGED <<stream, reply, session, lifetime, fetch>>

Cancel(d) ==
  /\ Receive(d, "cancel")
  /\ \/ /\ d \in Active
        /\ Release(d)
        /\ UNCHANGED <<stream, reply, session, fetch>>
     \/ /\ d \notin Active /\ d \in Pending
        /\ Expire(d)
        /\ UNCHANGED fetch
     \/ /\ d \notin Active \cup Pending
        /\ fetch' = [fetch EXCEPT ![d] =
             [i \in 1..Tries |-> IF @[i] = "waiting" THEN "gone" ELSE @[i]]]
        /\ UNCHANGED <<stream, reply, worker>>

\* The fetch handler. One request may wait for the session to be offered.
Fetch(d, i) ==
  /\ fetch[d][i] = "sent"
  /\ \/ /\ d \in Pending /\ Cardinality(Active) < MAX_ACTIVE_DOWNLOADS
        /\ Claim(d, i)
     \/ /\ d \in Pending /\ Cardinality(Active) >= MAX_ACTIVE_DOWNLOADS
        /\ Expire(d)
        /\ fetch' = [fetch EXCEPT ![d][i] = "gone"]
     \/ /\ d \notin Pending
        /\ fetch' = [fetch EXCEPT ![d][i] =
             IF \/ Cardinality(Waiters) >= MAX_PENDING_FETCHES
                \/ \E j \in 1..Tries : fetch[d][j] = "waiting"
             THEN "gone" ELSE "waiting"]
        /\ UNCHANGED <<stream, reply, worker>>
  /\ UNCHANGED <<page, posted>>

\* Mutant of FetchTimeout: the request is never answered.
FetchTimeoutNever(d, i) == FALSE /\ UNCHANGED vars

\* FETCH_WAIT_MS
FetchTimeout(d, i) ==
  /\ fetch[d][i] = "waiting"
  /\ fetch' = [fetch EXCEPT ![d][i] = "gone"]
  /\ UNCHANGED <<page, stream, posted, reply, worker>>

\* SESSION_TTL_MS
SessionTimeout(d) ==
  /\ d \in Pending
  /\ Expire(d)
  /\ UNCHANGED <<page, posted, fetch>>

\* Mutant of ActiveTimeout: the timer of a page that has gone does not fire.
ActiveTimeoutGrace(d) ==
  /\ active[d] = "grace"
  /\ Release(d)
  /\ UNCHANGED <<page, stream, posted, reply, session, fetch>>

\* COMPLETE_GRACE_MS, or ACTIVE_SESSION_TTL_MS: five minutes without one of
\* the heartbeats a page sends every 15 seconds, in which messages arrive.
ActiveTimeout(d) ==
  /\ \/ active[d] = "grace"
     \/ active[d] = "yes" /\ ~page[d].beat /\ page[d].stage # "starting"
        /\ posted[d] = <<>>
  /\ Release(d)
  /\ UNCHANGED <<page, stream, posted, reply, session, fetch>>

\* The browser stops the worker, which it may at any time: its maps are gone,
\* its requests fail, and the pages may or may not learn that nobody reads.
WorkerStops ==
  /\ \E d \in Downloads : lifetime[d] = "held" \/ \E i \in 1..Tries : <<d, i>> \in Waiters
  /\ session' = [d \in Downloads |-> IF d \in Pending THEN "taken" ELSE session[d]]
  /\ active' = [d \in Downloads |-> "no"]
  /\ lifetime' = [d \in Downloads |->
                    IF lifetime[d] = "held" THEN "released" ELSE lifetime[d]]
  /\ fetch' = [d \in Downloads |-> [i \in 1..Tries |->
                 CASE fetch[d][i] = "waiting" -> "gone"
                   [] fetch[d][i] = "streaming" -> "broken"
                   [] OTHER -> fetch[d][i]]]
  /\ \E told \in SUBSET Downloads :
       stream' = [d \in Downloads |->
         IF d \in told /\ lifetime[d] = "held" /\ stream[d].state = "open"
         THEN [stream[d] EXCEPT !.state = "cancelled"] ELSE stream[d]]
  /\ UNCHANGED <<page, posted, reply>>

-----------------------------------------------------------------------------
(* The browser *)

Retry(d, i) ==
  /\ i > 1 /\ fetch[d][i] = "none" /\ fetch[d][i - 1] # "none"
  /\ fetch' = [fetch EXCEPT ![d][i] = "sent"]
  /\ UNCHANGED <<page, stream, posted, reply, worker>>

Read(d, i) ==
  /\ fetch[d][i] = "streaming" /\ stream[d].state \in {"open", "closed"}
  /\ stream[d].read < stream[d].written
  /\ stream' = [stream EXCEPT ![d].read = @ + 1]
  /\ UNCHANGED <<page, posted, reply, worker, fetch>>

\* The response ends, with the stream or with an error.
Finish(d, i) ==
  /\ fetch[d][i] = "streaming"
  /\ \/ /\ stream[d].state = "closed" /\ stream[d].read = stream[d].written
        /\ fetch' = [fetch EXCEPT ![d][i] = "saved"]
     \/ /\ stream[d].state \in {"aborted", "cancelled"}
        /\ fetch' = [fetch EXCEPT ![d][i] = "broken"]
  /\ UNCHANGED <<page, stream, posted, reply, worker>>

\* The user cancels it in the browser, or the disk is full.
Stop(d, i) ==
  /\ fetch[d][i] = "streaming"
  /\ fetch' = [fetch EXCEPT ![d][i] = "broken"]
  /\ End(d, "cancelled")
  /\ UNCHANGED <<page, posted, reply, worker>>

-----------------------------------------------------------------------------
(* The specification *)

Init ==
  /\ page = [d \in Downloads |->
               [stage |-> "idle", ready |-> "pending", beat |-> FALSE]]
  /\ stream = [d \in Downloads |-> [written |-> 0, read |-> 0, state |-> "open"]]
  /\ posted = [d \in Downloads |-> <<>>]
  /\ reply = [d \in Downloads |-> "none"]
  /\ session = [d \in Downloads |-> "none"]
  /\ active = [d \in Downloads |-> "no"]
  /\ lifetime = [d \in Downloads |-> "none"]
  /\ fetch = [d \in Downloads |-> [i \in 1..Tries |-> "none"]]

PageStep(d) ==
  \/ Started(d) \/ Refused(d) \/ StartTimeout(d) \/ StreamLost(d)
WorkerStep(d) ==
  \/ Offer(d) \/ Refresh(d) \/ Cancel(d) \/ SessionTimeout(d) \/ ActiveTimeout(d)
  \/ \E i \in 1..Tries : Fetch(d, i) \/ FetchTimeout(d, i)
Choice(d) ==
  \/ Create(d) \/ Heartbeat(d) \/ Abort(d) \/ Write(d) \/ Close(d) \/ Vanish(d)
  \/ \E i \in 1..Tries : Retry(d, i) \/ Read(d, i) \/ Stop(d, i)
Next ==
  \/ \E d \in Downloads :
       \/ PageStep(d) \/ WorkerStep(d) \/ Choice(d)
       \/ \E i \in 1..Tries : Finish(d, i)
  \/ WorkerStops

Spec == Init /\ [][Next]_vars

\* Messages, requests and replies arrive, timers fire, and a response that
\* has ended is noticed. Neither page nor browser has to read or write on.
LiveSpec ==
  /\ Spec
  /\ \A d \in Downloads :
       /\ WF_vars(PageStep(d))
       /\ WF_vars(Offer(d) \/ Refresh(d) \/ Cancel(d))
       /\ WF_vars(SessionTimeout(d)) /\ WF_vars(ActiveTimeout(d))
       /\ \A i \in 1..Tries :
            WF_vars(Fetch(d, i)) /\ WF_vars(FetchTimeout(d, i)) /\ WF_vars(Finish(d, i))

-----------------------------------------------------------------------------
(* Properties *)

TypeOK ==
  /\ page \in [Downloads -> Page]
  /\ stream \in [Downloads -> Stream]
  /\ posted \in [Downloads -> Seq(Messages)]
  /\ reply \in [Downloads -> {"none", "started", "error"}]
  /\ session \in [Downloads -> {"none", "waiting", "taken"}]
  /\ active \in [Downloads -> {"no", "yes", "grace"}]
  /\ lifetime \in [Downloads -> {"none", "held", "released"}]
  /\ fetch \in [Downloads -> [1..Tries -> FetchState]]

\* A stream is the body of one response: whichever of request and offer comes
\* first, and however often the browser asks.
OneResponse ==
  \A d \in Downloads : \A i, j \in 1..Tries :
    {fetch[d][i], fetch[d][j]} \subseteq {"streaming", "saved", "broken"} => i = j

\* A file the browser regards as complete is complete, whenever the page, the
\* worker or the user gives up.
NoTruncatedFile ==
  \A d \in Downloads :
    (\E i \in 1..Tries : fetch[d][i] = "saved") => stream[d].read = Chunks

\* The browser may stop a worker that waits for nothing: while a page writes
\* to a response the worker has an unresolved waitUntil, and it has none when
\* it keeps neither a session nor a slot.
KeptAlive ==
  \A d \in Downloads :
    /\ (\E i \in 1..Tries : fetch[d][i] = "streaming")
         /\ page[d].stage = "streaming" => lifetime[d] = "held"
    /\ lifetime[d] = "held" <=> d \in Pending \cup Active

\* At most so many downloads at a time, each of which a page knows to be under
\* way, or will.
LimitsKept ==
  /\ Cardinality(Active) <= MAX_ACTIVE_DOWNLOADS
  /\ Cardinality(Pending) <= MAX_PENDING_SESSIONS
  /\ Cardinality(Waiters) <= MAX_PENDING_FETCHES

\* However a page ends, its slot and its session are free again.
SlotReturned ==
  \A d \in Downloads :
    page[d].stage \in {"complete", "failed", "closed"} ~>
      d \notin Active \cup Pending

\* Every request is answered.
RequestAnswered ==
  \A d \in Downloads : \A i \in 1..Tries :
    fetch[d][i] = "sent" ~> fetch[d][i] \notin {"sent", "waiting"}

\* When a page gives up, the browser's download does not hang.
FailureReachesBrowser ==
  \A d \in Downloads :
    page[d].stage = "failed" ~> \A i \in 1..Tries : fetch[d][i] # "streaming"

\* When worker or browser no longer reads the stream, the page stops fetching
\* and decrypting.
CancelReachesPage ==
  \A d \in Downloads : stream[d].state = "cancelled" ~> page[d].stage \notin Running

\* Whichever side of a download gives up, the other one stops too.
EndReachesOther == FailureReachesBrowser /\ CancelReachesPage
=============================================================================
