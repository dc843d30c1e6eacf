------------------------------ MODULE Notices -------------------------------
(***************************************************************************)
(* System notifications, from the admin who writes one to the browser tabs *)
(* that show it: the row is committed, then an event is handed to the      *)
(* streams of the instance that wrote it and published in Redis for those  *)
(* of the others; a stream begins with a snapshot; a tab also loads the    *)
(* list when it starts, when its stream opens or fails, and periodically.  *)
(* Messages are sets of notices; they arrive in any order.                 *)
(***************************************************************************)
EXTENDS Integers, FiniteSets

CONSTANTS Tabs,      \* tabs of one browser
          Instances, \* server processes
          Writers,   \* those of them that serve the admins
          Notes,     \* notices
          Breaks     \* bound: how often a stream breaks or a load fails

ASSUME NoticesAssumption == Breaks \in Nat /\ Writers \subseteq Instances

VARIABLES rows,      \* Notes -> "none", "current" or "expired"
          emitting,  \* notices whose commit is done and whose event is not
          bus,       \* events in Redis, with the instance that will receive each
          stream,    \* Tabs -> the state of the event stream and its instance
          wire,      \* Tabs -> messages on their way to the tab
          loading,   \* Tabs -> whether a load has been sent and not been answered
          dismissed, \* localStorage of the browser
          shown,     \* Tabs -> the notices a tab shows
          breaks     \* how often a stream broke or a load failed

noticeVars == <<rows, emitting, bus, stream, wire, loading, dismissed, shown, breaks>>
server == <<rows, emitting, bus>>

Current == {n \in Notes : rows[n] = "current"}
Off == [at |-> "off", of |-> "none", snapshot |-> FALSE]
On(t) == stream[t].at /= "off"

InitNotices ==
  /\ rows = [n \in Notes |-> "none"]
  /\ emitting = {} /\ bus = {}
  /\ stream = [t \in Tabs |-> Off]
  /\ wire = [t \in Tabs |-> {}]
  /\ loading = [t \in Tabs |-> FALSE]
  /\ dismissed = {}
  /\ shown = [t \in Tabs |-> {}]
  /\ breaks = 0

-----------------------------------------------------------------------------
(* The server                                                              *)

\* createNotification: the transaction that writes row and audit log.
Create(n) ==
  /\ rows[n] = "none"
  /\ rows' = [rows EXCEPT ![n] = "current"]
  /\ \E i \in Writers : emitting' = emitting \cup {<<n, i>>}
  /\ UNCHANGED <<bus, stream, wire, loading, dismissed, shown, breaks>>

Delivered(n, i) ==
  wire' = [t \in Tabs |-> IF stream[t].at = "open" /\ stream[t].of = i
                          THEN wire[t] \cup {{n}} ELSE wire[t]]

\* emitNotificationCreated: its own streams first; then Redis, which may refuse.
Emit(n, i) ==
  /\ <<n, i>> \in emitting
  /\ emitting' = emitting \ {<<n, i>>}
  /\ Delivered(n, i)
  /\ bus' \in {bus, bus \cup ({n} \X Instances)}
  /\ UNCHANGED <<rows, stream, loading, dismissed, shown, breaks>>

\* A server that is killed after the commit emits nothing.
NeverEmitted(n, i) ==
  /\ <<n, i>> \in emitting
  /\ emitting' = emitting \ {<<n, i>>}
  /\ UNCHANGED <<rows, bus, stream, wire, loading, dismissed, shown, breaks>>

\* Redis delivers to an instance, or to nobody while that has lost its connection.
Deliver(n, i) ==
  /\ <<n, i>> \in bus
  /\ bus' = bus \ {<<n, i>>}
  /\ Delivered(n, i) \/ UNCHANGED wire
  /\ UNCHANGED <<rows, emitting, stream, loading, dismissed, shown, breaks>>

RunsOut(n) ==
  /\ rows[n] = "current"
  /\ rows' = [rows EXCEPT ![n] = "expired"]
  /\ UNCHANGED <<emitting, bus, stream, wire, loading, dismissed, shown, breaks>>

\* Mutant of Visible: what was put away is not looked up.
VisibleAll(items) == {n \in items : rows[n] = "current"}

Visible(items) == {n \in items : rows[n] = "current" /\ n \notin dismissed}
Merge(current, incoming) == Visible(current) \cup Visible(incoming)

\* The current notices go to a tab; a list without any arrives at once, which is as
\* good as later, since it is sent again and again.
SendList(t) ==
  IF Current = {}
  THEN shown' = [shown EXCEPT ![t] = Merge(@, {})] /\ UNCHANGED wire
  ELSE wire' = [wire EXCEPT ![t] = @ \cup {Current}] /\ UNCHANGED shown

\* stream: the rows for the snapshot are read some time after the stream has opened.
Snapshot(t) ==
  /\ stream[t].snapshot
  /\ stream' = [stream EXCEPT ![t].snapshot = FALSE]
  /\ SendList(t)
  /\ UNCHANGED <<server, loading, dismissed, breaks>>

\* getActiveNotifications
Answer(t) ==
  /\ loading[t]
  /\ loading' = [loading EXCEPT ![t] = FALSE]
  /\ SendList(t)
  /\ UNCHANGED <<server, stream, dismissed, breaks>>

-----------------------------------------------------------------------------
(* useSystemNotifications in a tab                                         *)

\* The effect runs when the tab is signed in: it connects and loads.
SignIn(t) ==
  /\ ~On(t)
  /\ stream' = [stream EXCEPT ![t].at = "connecting"]
  /\ loading' = [loading EXCEPT ![t] = TRUE]
  /\ UNCHANGED <<server, wire, dismissed, shown, breaks>>

\* Its cleanup aborts the stream; answers that come later find it closed.
SignOut(t) ==
  /\ On(t)
  /\ stream' = [stream EXCEPT ![t] = Off]
  /\ loading' = [loading EXCEPT ![t] = FALSE]
  /\ wire' = [wire EXCEPT ![t] = {}]
  /\ shown' = [shown EXCEPT ![t] = {}]
  /\ UNCHANGED <<server, dismissed, breaks>>

Open(t) ==
  /\ stream[t].at = "connecting"
  /\ \E i \in Instances : stream' = [stream EXCEPT ![t] = [at |-> "open", of |-> i, snapshot |-> TRUE]]
  /\ loading' = [loading EXCEPT ![t] = TRUE]
  /\ UNCHANGED <<server, wire, dismissed, shown, breaks>>

\* Load once, then wait to reconnect; what was on its way may be lost with the stream.
Fail(t) ==
  /\ breaks < Breaks
  /\ breaks' = breaks + 1
  /\ stream' = [stream EXCEPT ![t] = [at |-> "waiting", of |-> "none", snapshot |-> FALSE]]
  /\ loading' = [loading EXCEPT ![t] = TRUE]
  /\ \E rest \in SUBSET wire[t] : wire' = [wire EXCEPT ![t] = rest]
  /\ UNCHANGED <<server, dismissed, shown>>

\* The guard of the route (token, session, status) or the limit refuses the stream.
Refused(t) == stream[t].at = "connecting" /\ Fail(t)

Break(t) == stream[t].at = "open" /\ Fail(t)

\* scheduleReconnect; without a token in the storage there is no further attempt.
Reconnect(t) ==
  /\ stream[t].at = "waiting" /\ ~loading[t]
  /\ \E at \in {"connecting", "noToken"} : stream' = [stream EXCEPT ![t].at = at]
  /\ UNCHANGED <<server, wire, loading, dismissed, shown, breaks>>

LoadFails(t) ==
  /\ loading[t]
  /\ breaks < Breaks
  /\ breaks' = breaks + 1
  /\ loading' = [loading EXCEPT ![t] = FALSE]
  /\ UNCHANGED <<server, stream, wire, dismissed, shown>>

\* Mutant of FallbackSync: only while there is a stream.
FallbackStreaming(t) ==
  /\ stream[t].at = "open" /\ ~loading[t]
  /\ loading' = [loading EXCEPT ![t] = TRUE]
  /\ UNCHANGED <<server, stream, wire, dismissed, shown, breaks>>

FallbackSync(t) ==
  /\ On(t) /\ ~loading[t]
  /\ loading' = [loading EXCEPT ![t] = TRUE]
  /\ UNCHANGED <<server, stream, wire, dismissed, shown, breaks>>

Receive(t, m) ==
  /\ m \in wire[t]
  /\ wire' = [wire EXCEPT ![t] = @ \ {m}]
  /\ shown' = [shown EXCEPT ![t] = Merge(@, m)]
  /\ UNCHANGED <<server, stream, loading, dismissed, breaks>>

Dismiss(t, n) ==
  /\ n \in shown[t]
  /\ dismissed' = dismissed \cup {n}
  /\ shown' = [shown EXCEPT ![t] = @ \ {n}]
  /\ UNCHANGED <<server, stream, wire, loading, breaks>>

\* The timer of the notice that runs out first.
RemoveExpired(t) ==
  /\ \E n \in shown[t] : rows[n] = "expired"
  /\ shown' = [shown EXCEPT ![t] = @ \cap Current]
  /\ UNCHANGED <<server, stream, wire, loading, dismissed, breaks>>

-----------------------------------------------------------------------------

NextNotices ==
  \/ \E n \in Notes : Create(n) \/ RunsOut(n)
  \/ \E n \in Notes, i \in Instances : Emit(n, i) \/ NeverEmitted(n, i) \/ Deliver(n, i)
  \/ \E t \in Tabs :
       \/ Snapshot(t) \/ Answer(t) \/ SignIn(t) \/ SignOut(t) \/ Open(t) \/ Refused(t) \/ Break(t)
       \/ Reconnect(t) \/ LoadFails(t) \/ FallbackSync(t) \/ RemoveExpired(t)
       \/ \E m \in wire[t] : Receive(t, m)
       \/ \E n \in Notes : Dismiss(t, n)

\* The interval of the fallback fires, a load that does not fail is answered, what
\* has been sent arrives, timers fire.
NoticesSpec ==
  /\ InitNotices /\ [][NextNotices]_noticeVars
  /\ \A t \in Tabs :
       /\ WF_noticeVars(FallbackSync(t))
       /\ WF_noticeVars(Answer(t))
       /\ \A m \in SUBSET Notes : WF_noticeVars(Receive(t, m))
       /\ WF_noticeVars(RemoveExpired(t))

-----------------------------------------------------------------------------
Signed == {t \in Tabs : On(t)}
Promise == INSTANCE Board WITH Readers <- Tabs, Items <- Notes, current <- Current,
                               away <- dismissed, signed <- Signed

(* What a tab shows is the board of its reader: no answer that was read    *)
(* earlier, no repeated or lost event and no other tab brings back what    *)
(* was put away or has run out, or takes away what is current (merge and   *)
(* filter of useSystemNotifications.ts).                                   *)
BoardKept == Promise!BoardSpec

(* A notice that stays current is shown in every tab that stays signed in, *)
(* although its event may never be sent, be lost in Redis, or find no      *)
(* stream: the periodic load is what makes it so.                          *)
NoticeArrives == Promise!Reaches
=============================================================================
