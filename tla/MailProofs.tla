----------------------------- MODULE MailProofs -----------------------------
(***************************************************************************)
(* What Mail promises, proved for any number of users, mails, handlers,    *)
(* errors and crashes.                                                     *)
(***************************************************************************)
EXTENDS Mail, FiniteSetTheorems, TLAPS

-----------------------------------------------------------------------------
(* The inductive invariant                                                 *)

\* The places of the operations, and of a sendMail that has not failed.
Trying == {"storeShared", "createMessage", "put", "create", "record", "audit"}
Looping == {"find", "erase", "drop"}
PlacesOf(op) ==
  CASE op = "none" -> {"idle"}
    [] op = "send" -> Trying \cup Looping \cup {"dropMessage", "unstore"}
    [] op = "recall" -> Looping \cup {"list", "markRecalled"}
    [] op = "remove" -> Looping \cup {"list", "markDeleted", "hide", "findShared", "unstore"}
    [] op = "fetch" -> {"fetch", "forget"}
    [] op = "delete" -> Looping
    [] op = "inbound" -> {"usage", "put", "putAttachment", "create"}
    [] OTHER -> {"eraseAll", "dropAll"}

\* What a handler's place says of what it remembers.
Placed(r) ==
  /\ r \in Task /\ r.pc \in PlacesOf(r.op)
  /\ r.op = "none" => r = Idle
  /\ r.op = "send" => (r.phase = "try" <=> r.pc \in Trying)
  /\ r.op /= "send" => r.phase = "try" /\ r.sent = {}
  /\ r.op = "inbound" => \E u \in Users : r.todo = {u} /\ r.user \in {u, None}
  /\ r.pc \in {"putAttachment", "create", "record"} => r.mail \in Mails /\ r.user \in Users
  /\ r.pc = "record" => r.mail \in r.sent
  /\ r.pc \in {"erase", "drop"} => r.mail \in r.list
  /\ r.pc \in {"eraseAll", "dropAll"} => r.user \in Users
  /\ r.pc = "unstore" /\ r.op = "send" => r.phase = "outer"
  /\ r.op = "send" /\ r.pc \in {"dropMessage", "unstore"} => r.list = {}

MailType ==
  /\ objects \subseteq Objects
  /\ rows \in [Mails -> Row \cup {None}]
  /\ message \in Message
  /\ deliveries \subseteq Delivery
  /\ gone \subseteq Users /\ strays \subseteq Mails
  /\ failed \subseteq FaultKinds
  /\ task \in [Handlers -> Task] /\ \A h \in Handlers : Placed(task[h])

Internal(m) == Stored(m) /\ rows[m].kind = "internal"
Sends(h) == task[h].op = "send"
Recalls(h) == task[h].op \in {"recall", "remove"}

\* One sendMail at a time, and nothing of its mail before it.
OneMessage ==
  /\ \A h \in Handlers : Sends(h) \/ Recalls(h) => message.state /= "none"
  /\ \A g, h \in Handlers : Sends(g) /\ Sends(h) => g = h
  /\ \A m \in Mails : Internal(m) => message.state /= "none"

DeliveredStored == \A d \in deliveries : d.mail /= None => Stored(d.mail)

Delivered(m) == \E d \in deliveries : d.mail = m
\* A copy whose sendMail r will still give it a delivery, or delete it.
AtHand(r, m) == r.op = "send" /\ (r.phase /= "try" \/ (r.pc = "record" /\ r.mail = m))
Remembered(r, m) == m \in r.sent /\ (r.phase /= "try" => m \in r.list)

\* sendMail remembers every copy it has made and, once it has failed, has all that
\* are left on its list; until then each has its delivery but the one just made.
CopiesFound ==
  "crash" \notin failed /\ ~message.abandoned =>
    \A m \in Mails : Internal(m) =>
      /\ \A h \in Handlers : Sends(h) => Remembered(task[h], m)
      /\ Delivered(m) \/ \E h \in Handlers : AtHand(task[h], m)

\* A recall that began after sendMail was done has every copy that is left on its
\* list, and none is left when it marks them.
RecallKnows ==
  ~message.overlapped =>
    \A h \in Handlers : Recalls(h) =>
      /\ \A g \in Handlers : ~Sends(g)
      /\ task[h].pc \in Looping => \A d \in deliveries : d.mail \in task[h].list \cup {None}
      /\ task[h].pc \in {"markRecalled", "markDeleted"} => \A d \in deliveries : d.mail = None

\* The mails that have arrived for a user and those that have passed the quota and
\* are about to be stored.
External(u) == {m \in MailsOf(u) : rows[m].kind = "external"}
Arriving(r, u) == r.op = "inbound" /\ r.pc /= "usage" /\ r.todo = {u}
Pending(u) == {h \in Handlers : Arriving(task[h], u)}
RoomCounted ==
  \A u \in Users : Cardinality(External(u)) + Cardinality(Pending(u))
                     <= Quota + Cardinality(Handlers) - 1

MailInv == /\ MailType /\ OneMessage /\ DeliveredStored /\ CopiesFound
           /\ RecallKnows /\ RecallComplete /\ RoomCounted

-----------------------------------------------------------------------------
(* What the helpers make of a handler                                      *)

\* A record that differs in its place, and one that goes on without its mail.
LEMMA PlaceSet ==
  ASSUME NEW r \in Task, NEW pc \in PCs,
         NEW q, q = [r EXCEPT !.pc = pc]
  PROVE  /\ q \in Task /\ q.pc = pc /\ q.op = r.op /\ q.user = r.user /\ q.mail = r.mail
         /\ q.todo = r.todo /\ q.sent = r.sent /\ q.list = r.list /\ q.phase = r.phase
BY DEF Task

LEMMA MailSet ==
  ASSUME NEW r \in Task, NEW pc \in PCs, NEW m \in Mails \cup {None},
         NEW q, q = [r EXCEPT !.pc = pc, !.mail = m]
  PROVE  /\ q \in Task /\ q.pc = pc /\ q.op = r.op /\ q.user = r.user /\ q.mail = m
         /\ q.todo = r.todo /\ q.sent = r.sent /\ q.list = r.list /\ q.phase = r.phase
BY DEF Task

LEMMA ListSet ==
  ASSUME NEW r \in Task, NEW list \in SUBSET Mails,
         NEW q, q = [r EXCEPT !.list = list]
  PROVE  /\ q \in Task /\ q.pc = r.pc /\ q.op = r.op /\ q.user = r.user /\ q.mail = r.mail
         /\ q.todo = r.todo /\ q.sent = r.sent /\ q.list = list /\ q.phase = r.phase
BY DEF Task

LEMMA MailListSet ==
  ASSUME NEW r \in Task, NEW m \in Mails, NEW list \in SUBSET Mails,
         NEW q, q = [r EXCEPT !.mail = m, !.list = list]
  PROVE  /\ q \in Task /\ q.pc = r.pc /\ q.op = r.op /\ q.user = r.user /\ q.mail = m
         /\ q.todo = r.todo /\ q.sent = r.sent /\ q.list = list /\ q.phase = r.phase
BY DEF Task

LEMMA CatchSet ==
  ASSUME NEW r \in Task, NEW phase \in {"inner", "outer"},
         NEW q, q = [r EXCEPT !.phase = phase, !.list = r.sent, !.user = None, !.todo = {}]
  PROVE  /\ q \in Task /\ q.pc = r.pc /\ q.op = r.op /\ q.user = None /\ q.mail = r.mail
         /\ q.todo = {} /\ q.sent = r.sent /\ q.list = r.sent /\ q.phase = phase
BY DEF Task

LEMMA IdlePlaced == Placed(Idle) /\ Idle \in Task /\ Idle.op = "none" /\ Idle.pc = "idle"
BY DEF Placed, Idle, Task, PCs, PlacesOf

\* A loop over a list of mails goes on, or ends.
LEMMA LoopEffect ==
  ASSUME NEW r \in Task, r.op \in {"send", "recall", "remove", "delete"},
         r.op = "send" <=> r.phase \in {"inner", "outer"}, r.op /= "send" => r.sent = {}
  PROVE  LET q == Loop(r) IN
         /\ Placed(q)
         /\ \/ q = Idle /\ r.op = "delete"
            \/ /\ q.op = r.op /\ q.sent = r.sent /\ q.list = r.list /\ q.phase = r.phase
               /\ q.mail = None
               /\ IF r.list /= {} THEN q.pc = "find"
                  ELSE q.pc = CASE r.op = "send" /\ r.phase = "inner" -> "dropMessage"
                                [] r.op = "send" /\ r.phase = "outer" -> "unstore"
                                [] r.op = "recall" -> "markRecalled"
                                [] OTHER -> "markDeleted"
<1> DEFINE q == Loop(r)
           s == [r EXCEPT !.mail = None]
<1>0. (r.op /= "send" => r.phase = "try") /\ (r.op = "send" => r.phase /= "try")
  BY DEF Task
<1>1. CASE r.list /= {}
  <2>1. q = [r EXCEPT !.pc = "find", !.mail = None]
    BY <1>1 DEF Loop
  <2>2. "find" \in PCs /\ None \in Mails \cup {None}
    BY DEF PCs
  <2>3. /\ q \in Task /\ q.pc = "find" /\ q.op = r.op /\ q.mail = None
        /\ q.sent = r.sent /\ q.list = r.list /\ q.phase = r.phase
    <3> HIDE DEF q
    <3> QED
      BY <2>1, <2>2 DEF Task
  <2> HIDE DEF q
  <2>4. q.pc \in PlacesOf(q.op) /\ q.pc \notin Trying
    BY <2>3 DEF PlacesOf, Looping, Trying
  <2>5. Placed(q)
    BY <1>0, <2>3, <2>4 DEF Placed
  <2> QED
    BY <1>1, <2>3, <2>5 DEF q
<1>2. CASE r.list = {} /\ r.op = "delete"
  <2>1. q = Idle
    BY <1>2 DEF Loop, AfterLoop, Task
  <2> QED
    BY <1>2, <2>1, IdlePlaced
<1>3. CASE r.list = {} /\ r.op /= "delete"
  <2> DEFINE pc == CASE r.op = "send" /\ r.phase = "inner" -> "dropMessage"
                     [] r.op = "send" /\ r.phase = "outer" -> "unstore"
                     [] r.op = "recall" -> "markRecalled"
                     [] OTHER -> "markDeleted"
  <2>1. pc \in PCs
    BY <1>3 DEF PCs
  <2>2. s \in Task /\ s.op = r.op /\ s.phase = r.phase /\ s.sent = r.sent /\ s.list = r.list
        /\ s.mail = None
    BY DEF Task
  <2>3. q = [s EXCEPT !.pc = pc]
    <3> HIDE DEF s
    <3>1. q = AfterLoop(s)
      BY <1>3 DEF Loop, s
    <3> QED
      BY <1>3, <2>2, <3>1 DEF AfterLoop
  <2> HIDE DEF s
  <2>4. /\ q \in Task /\ q.pc = pc /\ q.op = r.op /\ q.mail = None
        /\ q.sent = r.sent /\ q.list = r.list /\ q.phase = r.phase
    BY <2>1, <2>2, <2>3, PlaceSet
  <2> HIDE DEF q
  <2>5. q.pc \in PlacesOf(q.op) /\ q.pc \notin Trying
    BY <1>3, <2>4 DEF PlacesOf, Looping, Trying
  <2>6. /\ q.op /= "none" /\ q.op /= "inbound"
        /\ q.pc \notin {"putAttachment", "create", "record", "erase", "drop", "eraseAll", "dropAll"}
        /\ q.pc = "unstore" => q.op = "send" /\ q.phase = "outer"
    BY <1>3, <2>4
  <2>7. Placed(q)
    BY <1>0, <1>3, <2>4, <2>5, <2>6 DEF Placed
  <2> QED
    BY <1>3, <2>4, <2>7 DEF q
<1> QED
  BY <1>1, <1>2, <1>3

\* What a catch block of sendMail begins with, and where an exception leads.
LEMMA CatchEffect ==
  ASSUME NEW r \in Task, r.op = "send", NEW phase \in {"inner", "outer"}
  PROVE  LET q == Catch(r, phase) IN
         /\ Placed(q) /\ q.op = "send" /\ q.sent = r.sent /\ q.list = r.sent
         /\ q.phase = phase /\ q.pc \in {"find", "dropMessage", "unstore"}
<1>0. PICK s : s = [r EXCEPT !.phase = phase, !.list = r.sent, !.user = None, !.todo = {}]
  OBVIOUS
<1>1. /\ s \in Task /\ s.op = r.op /\ s.sent = r.sent /\ s.list = r.sent /\ s.phase = phase
  BY <1>0, CatchSet, ZenonT(60)
<1>2. Catch(r, phase) = Loop(s)
  BY <1>0 DEF Catch
<1>3. LET q == Loop(s) IN
      /\ Placed(q) /\ q.op = "send" /\ q.sent = s.sent /\ q.list = s.list
      /\ q.phase = s.phase /\ q.pc \in {"find", "dropMessage", "unstore"}
  <2>1. s.op = "send" <=> s.phase \in {"inner", "outer"}
    BY <1>1
  <2>2. s.op \in {"send", "recall", "remove", "delete"} /\ s.op /= "delete"
    BY <1>1
  <2> QED
    BY <1>1, <2>1, <2>2, LoopEffect
<1> QED
  BY <1>1, <1>2, <1>3

LEMMA ThrownEffect ==
  ASSUME NEW r, Placed(r), r.pc \notin Tolerant \cup {"idle"}
  PROVE  LET q == Thrown(r) IN
         /\ Placed(q)
         /\ \/ q = Idle /\ (r.op /= "send" \/ r.phase = "outer" \/ r.pc = "storeShared")
            \/ /\ r.op = "send" /\ q.op = "send" /\ q.sent = r.sent /\ q.list = r.sent
               /\ q.phase \in {"inner", "outer"} /\ q.pc \in {"find", "dropMessage", "unstore"}
<1> DEFINE q == Thrown(r)
<1>1. r \in Task /\ r.phase \in {"try", "inner", "outer"}
  BY DEF Placed, Task
<1>2. CASE r.op /= "send" \/ r.phase = "outer" \/ r.pc = "storeShared"
  <2>1. q = Idle
    BY <1>2 DEF Thrown
  <2> QED
    BY <1>2, <2>1, IdlePlaced
<1>3. CASE ~(r.op /= "send" \/ r.phase = "outer" \/ r.pc = "storeShared")
  <2>1. PICK phase \in {"inner", "outer"} : q = Catch(r, phase)
    <3>1. q = Catch(r, IF r.phase = "try" /\ r.pc \in {"put", "create", "record"}
                       THEN "inner" ELSE "outer")
      BY <1>3 DEF Thrown
    <3> QED
      BY <3>1
  <2>2. LET c == Catch(r, phase) IN
        /\ Placed(c) /\ c.op = "send" /\ c.sent = r.sent /\ c.list = r.sent
        /\ c.phase = phase /\ c.pc \in {"find", "dropMessage", "unstore"}
    BY <1>1, <1>3, CatchEffect
  <2> HIDE DEF q
  <2> QED
    BY <1>3, <2>1, <2>2 DEF q
<1> QED
  BY <1>2, <1>3

-----------------------------------------------------------------------------
(* The parts of the invariant, one step of one handler                     *)

LEMMA TypeStep ==
  ASSUME MailType, NEW h \in Handlers, NEW q, Placed(q), task' = [task EXCEPT ![h] = q],
         objects' \subseteq Objects, rows' \in [Mails -> Row \cup {None}],
         message' \in Message, deliveries' \subseteq Delivery,
         gone' \subseteq Users, strays' \subseteq Mails, failed' \subseteq FaultKinds
  PROVE  /\ MailType' /\ task'[h] = q
         /\ \A g \in Handlers : g /= h => task'[g] = task[g]
<1>1. /\ task' \in [Handlers -> Task] /\ task'[h] = q
      /\ \A g \in Handlers : g /= h => task'[g] = task[g]
  <2>1. task \in [Handlers -> Task] /\ q \in Task
    BY DEF MailType, Placed
  <2> QED
    BY <2>1
<1>2. \A g \in Handlers : Placed(task'[g])
  BY <1>1 DEF MailType
<1>3. \A g \in Handlers : Placed(task[g])' <=> Placed(task'[g])
  BY DEF Placed
<1>4. \A g \in Handlers : Placed(task[g])'
  BY <1>2, <1>3
<1> QED
  BY <1>1, <1>4 DEF MailType

LEMMA OneMessageStep ==
  ASSUME MailInv, NEW h \in Handlers,
         \A g \in Handlers : g /= h => task'[g] = task[g],
         \/ task'[h].op \in {task[h].op, "none"}
         \/ task'[h].op \notin {"send", "recall", "remove"}
         \/ task'[h].op \in {"recall", "remove"} /\ message.state /= "none",
         message.state /= "none" => message'.state /= "none",
         \A m \in Mails : Internal(m)' => Internal(m) \/ Sends(h)
  PROVE  OneMessage'
<1>1. \A g \in Handlers : /\ task'[g].op = "send" => Sends(g)
                          /\ task'[g].op \in {"recall", "remove"}
                               => Recalls(g) \/ message.state /= "none"
  BY DEF Sends, Recalls
<1> QED
  BY <1>1 DEF MailInv, OneMessage, Sends, Recalls

LEMMA CopiesStep ==
  ASSUME MailInv, NEW h \in Handlers,
         \A g \in Handlers : g /= h => task'[g] = task[g],
         task'[h].op = "send" => Sends(h),
         failed \subseteq failed', message.abandoned => message'.abandoned,
         \A m \in Mails : Internal(m)' => Internal(m),
         \A m \in Mails : Internal(m)' /\ Delivered(m) => Delivered(m)',
         "crash" \notin failed' /\ ~message'.abandoned /\ Sends(h) =>
           \A m \in Mails :
             Internal(m)' /\ Remembered(task[h], m) /\ (Delivered(m) \/ AtHand(task[h], m))
               => /\ task'[h].op = "send" => Remembered(task'[h], m)
                  /\ Delivered(m)' \/ AtHand(task'[h], m)
  PROVE  CopiesFound'
<1> SUFFICES ASSUME "crash" \notin failed', ~message'.abandoned, NEW m \in Mails, Internal(m)'
             PROVE  /\ \A g \in Handlers : task'[g].op = "send" => Remembered(task'[g], m)
                    /\ Delivered(m)' \/ \E g \in Handlers : AtHand(task'[g], m)
  BY DEF CopiesFound, Sends, Remembered, AtHand
<1>1. /\ \A g \in Handlers : Sends(g) => Remembered(task[g], m)
      /\ Delivered(m) \/ \E g \in Handlers : AtHand(task[g], m)
  BY DEF MailInv, CopiesFound
<1>2. \A g \in Handlers : AtHand(task[g], m) => Sends(g)
  BY DEF AtHand, Sends
<1>3. ASSUME NEW g \in Handlers, g /= h
      PROVE  /\ task'[g].op = "send" => Remembered(task'[g], m)
             /\ AtHand(task[g], m) => AtHand(task'[g], m)
  BY <1>1, <1>3 DEF Sends
<1>4. CASE Sends(h)
  <2>1. \A g \in Handlers : Sends(g) => g = h
    BY <1>4 DEF MailInv, OneMessage
  <2>2. Remembered(task[h], m) /\ (Delivered(m) \/ AtHand(task[h], m))
    BY <1>1, <1>2, <1>4, <2>1
  <2>3. /\ task'[h].op = "send" => Remembered(task'[h], m)
        /\ Delivered(m)' \/ AtHand(task'[h], m)
    BY <1>4, <2>2
  <2> QED
    BY <1>3, <2>3
<1>5. CASE ~Sends(h)
  <2>1. task'[h].op /= "send"
    BY <1>5
  <2>2. Delivered(m) => Delivered(m)'
    OBVIOUS
  <2>3. Delivered(m)' \/ \E g \in Handlers : AtHand(task'[g], m)
    BY <1>1, <1>2, <1>3, <1>5, <2>2
  <2> QED
    BY <1>3, <2>1, <2>3
<1> QED
  BY <1>4, <1>5

LEMMA RecallStep ==
  ASSUME MailInv, NEW h \in Handlers,
         \A g \in Handlers : g /= h => task'[g] = task[g],
         task'[h].op = "send" => Sends(h),
         message.overlapped => message'.overlapped,
         ~message'.overlapped /\ task'[h].op \in {"recall", "remove"} =>
           /\ \A g \in Handlers : ~Sends(g)
           /\ task'[h].pc \in Looping =>
                \A d \in deliveries' : d.mail \in task'[h].list \cup {None}
           /\ task'[h].pc \in {"markRecalled", "markDeleted"} =>
                \A d \in deliveries' : d.mail = None,
         Sends(h) \/ \A d \in deliveries' : d.mail = None \/ Delivered(d.mail)
  PROVE  RecallKnows'
<1> SUFFICES ASSUME ~message'.overlapped, NEW g \in Handlers,
                    task'[g].op \in {"recall", "remove"}
             PROVE  /\ \A f \in Handlers : task'[f].op /= "send"
                    /\ task'[g].pc \in Looping =>
                         \A d \in deliveries' : d.mail \in task'[g].list \cup {None}
                    /\ task'[g].pc \in {"markRecalled", "markDeleted"} =>
                         \A d \in deliveries' : d.mail = None
  BY DEF RecallKnows, Recalls, Sends
<1>1. \A f \in Handlers : ~Sends(f)
  <2>1. CASE g = h
    BY <2>1
  <2>2. CASE g /= h
    BY <2>2 DEF MailInv, RecallKnows, Recalls
  <2> QED
    BY <2>1, <2>2
<1>2. \A f \in Handlers : task'[f].op /= "send"
  BY <1>1 DEF Sends
<1>3. CASE g = h
  BY <1>2, <1>3
<1>4. CASE g /= h
  <2>1. /\ task[g].pc \in Looping => \A d \in deliveries : d.mail \in task[g].list \cup {None}
        /\ task[g].pc \in {"markRecalled", "markDeleted"} => \A d \in deliveries : d.mail = None
        /\ task'[g] = task[g]
    BY <1>4 DEF MailInv, RecallKnows, Recalls
  <2>2. \A d \in deliveries' : d.mail = None \/ \E c \in deliveries : c.mail = d.mail
    BY <1>1 DEF Delivered
  <2> QED
    BY <1>2, <2>1, <2>2
<1> QED
  BY <1>3, <1>4

\* Sets of mails and of handlers are finite, so that they can be counted.
LEMMA Counts ==
  ASSUME NEW u
  PROVE  /\ IsFiniteSet(External(u)) /\ Cardinality(External(u)) \in Nat
         /\ IsFiniteSet(Pending(u)) /\ Cardinality(Pending(u)) \in Nat
         /\ Cardinality(Handlers) \in Nat /\ Cardinality(Pending(u)) <= Cardinality(Handlers)
<1>1. IsFiniteSet(Handlers) /\ IsFiniteSet(Mails)
  BY MailAssumption
<1>2. External(u) \subseteq Mails /\ Pending(u) \subseteq Handlers
  BY DEF External, MailsOf, Pending
<1> QED
  BY <1>1, <1>2, FS_Subset, FS_CardinalityType

LEMMA CountsNext ==
  ASSUME NEW u
  PROVE  /\ IsFiniteSet(External(u)') /\ Cardinality(External(u)') \in Nat
         /\ IsFiniteSet(Pending(u)') /\ Cardinality(Pending(u)') \in Nat
         /\ Cardinality(Pending(u)') <= Cardinality(Handlers)
<1>1. IsFiniteSet(Handlers) /\ IsFiniteSet(Mails)
  BY MailAssumption
<1>2. External(u)' \subseteq Mails /\ Pending(u)' \subseteq Handlers
  BY DEF External, MailsOf, Pending
<1> QED
  BY <1>1, <1>2, FS_Subset, FS_CardinalityType

LEMMA RoomStep ==
  ASSUME MailInv, NEW h \in Handlers,
         \A g \in Handlers : g /= h => task'[g] = task[g],
         \A u \in Users : Arriving(task'[h], u) => Arriving(task[h], u),
         \A u \in Users : External(u)' \subseteq External(u)
  PROVE  RoomCounted'
<1> SUFFICES ASSUME NEW u \in Users
             PROVE  Cardinality(External(u)') + Cardinality(Pending(u)')
                      <= Quota + Cardinality(Handlers) - 1
  BY DEF RoomCounted
<1>1. Pending(u)' \subseteq Pending(u)
  <2>1. \A g \in Handlers : Arriving(task'[g], u) => Arriving(task[g], u)
    OBVIOUS
  <2>2. Pending(u)' = {g \in Handlers : Arriving(task'[g], u)}
    BY DEF Pending, Arriving
  <2> QED
    BY <2>1, <2>2 DEF Pending
<1>2. /\ Cardinality(Pending(u)') <= Cardinality(Pending(u))
      /\ Cardinality(External(u)') <= Cardinality(External(u))
  BY <1>1, Counts, FS_Subset
<1>3. Cardinality(External(u)) + Cardinality(Pending(u)) <= Quota + Cardinality(Handlers) - 1
  BY DEF MailInv, RoomCounted
<1>4. Quota \in Nat
  BY MailAssumption
<1> QED
  BY <1>2, <1>3, <1>4, Counts, CountsNext

\* A step that leaves rows and deliveries alone.
LEMMA QuietStep ==
  ASSUME MailInv, NEW h \in Handlers, NEW q, Placed(q), task' = [task EXCEPT ![h] = q],
         objects' \subseteq Objects, message' \in Message, failed' \subseteq FaultKinds,
         UNCHANGED <<rows, deliveries, gone, strays>>,
         failed \subseteq failed', message.abandoned => message'.abandoned,
         message.overlapped => message'.overlapped,
         message.state /= "none" => message'.state /= "none",
         \/ q.op \in {task[h].op, "none"}
         \/ q.op \notin {"send", "recall", "remove"}
         \/ q.op \in {"recall", "remove"} /\ message.state /= "none",
         "crash" \notin failed' /\ ~message'.abandoned /\ Sends(h) =>
           \A m \in Mails :
             Internal(m) /\ Remembered(task[h], m) /\ (Delivered(m) \/ AtHand(task[h], m))
               => /\ q.op = "send" => Remembered(q, m)
                  /\ Delivered(m) \/ AtHand(q, m),
         ~message'.overlapped /\ q.op \in {"recall", "remove"} =>
           /\ \A g \in Handlers : ~Sends(g)
           /\ q.pc \in Looping => \A d \in deliveries : d.mail \in q.list \cup {None}
           /\ q.pc \in {"markRecalled", "markDeleted"} => \A d \in deliveries : d.mail = None,
         (\A u \in Users : Arriving(q, u) => Arriving(task[h], u)) \/ RoomCounted'
  PROVE  MailInv'
<1>1. /\ MailType' /\ task'[h] = q
      /\ \A g \in Handlers : g /= h => task'[g] = task[g]
  <2>1. /\ MailType /\ rows \in [Mails -> Row \cup {None}] /\ deliveries \subseteq Delivery
        /\ gone \subseteq Users /\ strays \subseteq Mails
    BY DEF MailInv, MailType
  <2>2. /\ rows' \in [Mails -> Row \cup {None}] /\ deliveries' \subseteq Delivery
        /\ gone' \subseteq Users /\ strays' \subseteq Mails
    BY <2>1
  <2> QED
    BY <2>1, <2>2, TypeStep
<1>2. \A m \in Mails : /\ Internal(m)' <=> Internal(m)
                       /\ Stored(m)' <=> Stored(m)
                       /\ Delivered(m)' <=> Delivered(m)
  BY DEF Internal, Stored, Delivered
<1>3. OneMessage'
  BY <1>1, <1>2, OneMessageStep
<1>4. DeliveredStored'
  BY DEF MailInv, DeliveredStored, Stored
<1>5. q.op = "send" => Sends(h)
  BY DEF Sends
<1>6. CopiesFound'
  BY <1>1, <1>2, <1>5, CopiesStep
<1>7. \A d \in deliveries' : d.mail = None \/ Delivered(d.mail)
  BY DEF Delivered
<1>8. RecallKnows'
  BY <1>1, <1>5, <1>7, RecallStep
<1>9. RecallComplete'
  BY DEF MailInv, RecallComplete
<1>10. \A u \in Users : External(u)' = External(u)
  BY DEF External, MailsOf, Stored
<1>11. RoomCounted'
  BY <1>1, <1>10, RoomStep
<1> QED
  BY <1>1, <1>3, <1>4, <1>6, <1>8, <1>9, <1>11 DEF MailInv

-----------------------------------------------------------------------------
(* The steps that leave rows and deliveries alone                          *)

Rest == <<rows, deliveries, gone, strays>>

LEMMA GotoPlaced ==
  ASSUME NEW r, Placed(r), NEW next \in PCs \ {"idle", "record"},
         NEW q, q = [r EXCEPT !.pc = next],
         next \in PlacesOf(r.op), r.op /= "none",
         r.op = "send" => (r.pc \in Trying <=> next \in Trying),
         next \in {"putAttachment", "create"} => r.mail \in Mails /\ r.user \in Users,
         next \in {"erase", "drop"} => r.mail \in r.list,
         next \in {"eraseAll", "dropAll"} => r.user \in Users,
         r.op = "send" /\ next = "unstore" => r.phase = "outer",
         r.op = "send" /\ next \in {"dropMessage", "unstore"} => r.list = {}
  PROVE  /\ Placed(q) /\ q.pc = next /\ q.op = r.op /\ q.user = r.user /\ q.mail = r.mail
         /\ q.todo = r.todo /\ q.sent = r.sent /\ q.list = r.list /\ q.phase = r.phase
<1>1. r \in Task
  BY DEF Placed
<1>2. /\ q \in Task /\ q.pc = next /\ q.op = r.op /\ q.user = r.user /\ q.mail = r.mail
      /\ q.todo = r.todo /\ q.sent = r.sent /\ q.list = r.list /\ q.phase = r.phase
  BY <1>1, PlaceSet
<1>3. Placed(q)
  BY <1>2 DEF Placed
<1> QED
  BY <1>2, <1>3

\* A handler goes on to the next place.
LEMMA GotoStep ==
  ASSUME MailInv, NEW h \in Handlers, NEW next \in PCs \ {"idle", "record", "list"},
         Goto(h, next),
         LET r == task[h] IN
         /\ next \in PlacesOf(r.op) /\ r.op /= "none"
         /\ r.op = "send" => (r.pc \in Trying <=> next \in Trying) /\ r.pc /= "record"
         /\ next \in {"putAttachment", "create"} => r.mail \in Mails /\ r.user \in Users
         /\ next \in {"erase", "drop"} => r.mail \in r.list
         /\ next \in {"eraseAll", "dropAll"} => r.user \in Users
         /\ r.op = "send" /\ next = "unstore" => r.phase = "outer"
         /\ r.op = "send" /\ next \in {"dropMessage", "unstore"} => r.list = {}
         /\ r.op \in {"recall", "remove"} =>
              /\ next \in Looping => r.pc \in Looping
              /\ next \notin {"markRecalled", "markDeleted"}
         /\ r.pc /= "usage" \/ RoomCounted',
         objects' \subseteq Objects, message' \in Message, failed' \subseteq FaultKinds,
         UNCHANGED Rest, failed \subseteq failed',
         UNCHANGED <<message.abandoned, message.overlapped>>,
         message.state /= "none" => message'.state /= "none"
  PROVE  MailInv'
<1> DEFINE r == task[h]
           q == [r EXCEPT !.pc = next]
<1>1. Placed(r) /\ task' = [task EXCEPT ![h] = q]
  BY DEF MailInv, MailType, Goto
<1>2. /\ Placed(q) /\ q.pc = next /\ q.op = r.op /\ q.user = r.user /\ q.mail = r.mail
      /\ q.todo = r.todo /\ q.sent = r.sent /\ q.list = r.list /\ q.phase = r.phase
  BY <1>1, GotoPlaced
<1> HIDE DEF q
<1>3. \A m \in Mails : /\ Remembered(r, m) => Remembered(q, m)
                       /\ r.op = "send" /\ AtHand(r, m) => AtHand(q, m)
  BY <1>2 DEF Remembered, AtHand
<1>4. ASSUME ~message'.overlapped, q.op \in {"recall", "remove"}
      PROVE  /\ \A g \in Handlers : ~Sends(g)
             /\ q.pc \in Looping => \A d \in deliveries : d.mail \in q.list \cup {None}
             /\ q.pc \in {"markRecalled", "markDeleted"} => \A d \in deliveries : d.mail = None
  BY <1>2, <1>4 DEF MailInv, RecallKnows, Recalls
<1>5. (\A u \in Users : Arriving(q, u) => Arriving(r, u)) \/ RoomCounted'
  BY <1>2 DEF Arriving
<1>6. UNCHANGED <<rows, deliveries, gone, strays>>
  BY DEF Rest
<1>7. q.op \in {task[h].op, "none"}
  BY <1>2
<1>8. "crash" \notin failed' /\ ~message'.abandoned /\ Sends(h) =>
           \A m \in Mails :
             Internal(m) /\ Remembered(task[h], m) /\ (Delivered(m) \/ AtHand(task[h], m))
               => /\ q.op = "send" => Remembered(q, m)
                  /\ Delivered(m) \/ AtHand(q, m)
  BY <1>3 DEF Sends
<1> QED
  BY <1>1, <1>2, <1>4, <1>5, <1>6, <1>7, <1>8, QuietStep

\* A handler is done.
LEMMA FinishStep ==
  ASSUME MailInv, NEW h \in Handlers, Finish(h),
         \/ "crash" \in failed' \/ message'.abandoned \/ ~Sends(h)
         \/ \A m \in Mails : Remembered(task[h], m) => ~AtHand(task[h], m),
         objects' \subseteq Objects, message' \in Message, failed' \subseteq FaultKinds,
         UNCHANGED Rest, failed \subseteq failed', message.abandoned => message'.abandoned,
         message.overlapped => message'.overlapped,
         message.state /= "none" => message'.state /= "none"
  PROVE  MailInv'
<1>1. Placed(Idle) /\ Idle.op = "none" /\ task' = [task EXCEPT ![h] = Idle]
  BY IdlePlaced DEF Finish
<1>2. \A u \in Users : Arriving(Idle, u) => Arriving(task[h], u)
  BY <1>1 DEF Arriving
<1>3. UNCHANGED <<rows, deliveries, gone, strays>>
  BY DEF Rest
<1>4. "crash" \notin failed' /\ ~message'.abandoned /\ Sends(h) =>
           \A m \in Mails :
             Internal(m) /\ Remembered(task[h], m) /\ (Delivered(m) \/ AtHand(task[h], m))
               => /\ Idle.op = "send" => Remembered(Idle, m)
                  /\ Delivered(m) \/ AtHand(Idle, m)
  BY <1>1
<1> QED
  BY <1>1, <1>2, <1>3, <1>4, QuietStep

\* An exception: sendMail goes into a catch block, anything else ends.
LEMMA ThrowStep ==
  ASSUME MailInv, NEW h \in Handlers, Throw(h), task[h].pc \notin Tolerant \cup {"idle"},
         objects' \subseteq Objects, failed' \subseteq FaultKinds,
         UNCHANGED Rest, failed \subseteq failed'
  PROVE  MailInv'
<1> DEFINE r == task[h]
           q == Thrown(r)
           left == message.abandoned \/ r.phase = "outer"
           s == [message EXCEPT !.abandoned = left]
<1>1. Placed(r) /\ task' = [task EXCEPT ![h] = q] /\ message' = s /\ message \in Message
  BY DEF MailInv, MailType, Throw
<1>2. /\ message' \in Message /\ message'.abandoned = left
      /\ UNCHANGED <<message.overlapped, message.state>>
  <2>1. left \in BOOLEAN
    OBVIOUS
  <2>2. s \in Message /\ s.abandoned = left /\ s.overlapped = message.overlapped
        /\ s.state = message.state
    <3> HIDE DEF left
    <3> QED
      BY <1>1, <2>1 DEF Message
  <2> HIDE DEF s
  <2> QED
    BY <1>1, <2>2
<1>3. /\ Placed(q)
      /\ \/ q = Idle /\ (r.op /= "send" \/ r.phase = "outer" \/ r.pc = "storeShared")
         \/ /\ r.op = "send" /\ q.op = "send" /\ q.sent = r.sent /\ q.list = r.sent
            /\ q.phase \in {"inner", "outer"} /\ q.pc \in {"find", "dropMessage", "unstore"}
  BY <1>1, ThrownEffect
<1> HIDE DEF q, left, s
<1>4. q.op \in {r.op, "none"} /\ q.op \notin {"recall", "remove", "inbound"}
  BY <1>3, IdlePlaced
<1>5. "crash" \notin failed' /\ ~message'.abandoned /\ Sends(h) =>
           \A m \in Mails :
             Internal(m) /\ Remembered(task[h], m) /\ (Delivered(m) \/ AtHand(task[h], m))
               => /\ q.op = "send" => Remembered(q, m)
                  /\ Delivered(m) \/ AtHand(q, m)
  <2> SUFFICES ASSUME ~left, r.op = "send", NEW m \in Mails,
                      Remembered(r, m), Delivered(m) \/ AtHand(r, m)
               PROVE  /\ q.op = "send" => Remembered(q, m)
                      /\ Delivered(m) \/ AtHand(q, m)
    BY <1>2 DEF Sends
  <2>1. CASE q = Idle
    <3>1. r.phase /= "outer"
      BY DEF left
    <3>2. r.pc = "storeShared"
      BY <1>3, <2>1, <3>1, IdlePlaced
    <3>3. r.phase = "try"
      BY <1>1, <3>2 DEF Placed, Trying
    <3> QED
      BY <2>1, <3>2, <3>3, IdlePlaced DEF AtHand
  <2>2. CASE q /= Idle
    <3>1. /\ q.op = "send" /\ q.sent = r.sent /\ q.list = r.sent
          /\ q.phase \in {"inner", "outer"}
      BY <1>3, <2>2
    <3>2. m \in r.sent
      BY DEF Remembered
    <3>3. Remembered(q, m)
      BY <3>1, <3>2 DEF Remembered
    <3>4. AtHand(q, m)
      BY <3>1 DEF AtHand
    <3> QED
      BY <3>3, <3>4
  <2> QED
    BY <2>1, <2>2
<1>6. UNCHANGED <<rows, deliveries, gone, strays>>
  BY DEF Rest
<1>7. message.abandoned => message'.abandoned
  BY <1>2 DEF left
<1>8. \A u \in Users : Arriving(q, u) => Arriving(task[h], u)
  BY <1>4 DEF Arriving
<1> QED
  BY <1>1, <1>2, <1>3, <1>4, <1>5, <1>6, <1>7, <1>8, QuietStep

-----------------------------------------------------------------------------
(* The actions of sendMail and of an incoming mail                         *)

\* Whose place a place is.
LEMMA OpOf ==
  ASSUME NEW r, Placed(r)
  PROVE  /\ r.pc \in {"storeShared", "createMessage", "record", "audit", "dropMessage"}
              => r.op = "send"
         /\ r.pc \in {"put", "create"} => r.op \in {"send", "inbound"}
         /\ r.pc \in {"usage", "putAttachment"} => r.op = "inbound"
         /\ r.pc = "unstore" => r.op \in {"send", "remove"}
         /\ r.pc \in Looping => r.op \in {"send", "recall", "remove", "delete"}
         /\ r.pc = "list" => r.op \in {"recall", "remove"}
         /\ r.pc = "markRecalled" => r.op = "recall"
         /\ r.pc \in {"markDeleted", "hide", "findShared"} => r.op = "remove"
         /\ r.pc \in {"fetch", "forget"} => r.op = "fetch"
         /\ r.pc \in {"eraseAll", "dropAll"} => r.op \in {"bulk", "clear", "close"}
         /\ r.pc = "idle" <=> r.op = "none"
<1>1. r.op \in OpKinds \cup {"none"} /\ r.pc \in PlacesOf(r.op)
  BY DEF Placed, Task
<1> QED
  BY <1>1 DEF OpKinds, PlacesOf, Trying, Looping

\* What an action that leaves the rest of the state alone keeps of its types.
LEMMA Kept ==
  ASSUME MailInv
  PROVE  /\ objects \subseteq Objects /\ message \in Message /\ failed \subseteq FaultKinds
         /\ rows \in [Mails -> Row \cup {None}] /\ deliveries \subseteq Delivery
         /\ gone \subseteq Users /\ strays \subseteq Mails
         /\ \A h \in Handlers : Placed(task[h])
BY DEF MailInv, MailType

LEMMA StoreSharedStep ==
  ASSUME MailInv, NEW h \in Handlers, StoreShared(h)
  PROVE  MailInv'
<1> DEFINE r == task[h]
<1>1. Placed(r) /\ r.op = "send" /\ r.pc = "storeShared"
  BY Kept, OpOf DEF StoreShared
<1>2. Goto(h, "createMessage") /\ objects' \subseteq Objects /\ UNCHANGED Rest
  BY Kept DEF StoreShared, Rest, Objects
<1>3. "createMessage" \in PCs \ {"idle", "record", "list"}
  BY DEF PCs
<1>4. "createMessage" \in PlacesOf(r.op) /\ (r.pc \in Trying <=> "createMessage" \in Trying)
  BY <1>1 DEF PlacesOf, Trying
<1>5. message' = message /\ failed' = failed
  BY DEF StoreShared
<1>6. message' \in Message /\ failed' \subseteq FaultKinds
  BY <1>5, Kept
<1> QED
  BY <1>1, <1>2, <1>3, <1>4, <1>5, <1>6, GotoStep

LEMMA CreateMessageStep ==
  ASSUME MailInv, NEW h \in Handlers, CreateMessage(h)
  PROVE  MailInv'
<1> DEFINE r == task[h]
<1>1. Placed(r) /\ r.op = "send" /\ r.pc = "createMessage"
  BY Kept, OpOf DEF CreateMessage
<1>2. Goto(h, "put") /\ UNCHANGED Rest /\ UNCHANGED <<objects, failed>>
  BY DEF CreateMessage, Rest
<1>3. "put" \in PCs \ {"idle", "record", "list"}
  BY DEF PCs
<1>4. "put" \in PlacesOf(r.op) /\ (r.pc \in Trying <=> "put" \in Trying)
  BY <1>1 DEF PlacesOf, Trying
<1>5. /\ message' \in Message /\ message'.state = "stored"
      /\ UNCHANGED <<message.abandoned, message.overlapped>>
  BY Kept DEF CreateMessage, Message
<1>6. objects' \subseteq Objects /\ failed' \subseteq FaultKinds
  BY <1>2, Kept
<1> QED
  BY <1>1, <1>2, <1>3, <1>4, <1>5, <1>6, GotoStep

LEMMA PutBodyStep ==
  ASSUME MailInv, NEW h \in Handlers, PutBody(h)
  PROVE  MailInv'
<1> DEFINE r == task[h]
<1>1. Placed(r) /\ r \in Task /\ r.op \in {"send", "inbound"} /\ r.pc = "put"
  BY Kept, OpOf DEF PutBody, Placed
<1>2. PICK m \in Mails, u \in r.todo :
        /\ objects' = objects \cup {<<m, "body">>}
        /\ task' = [task EXCEPT ![h].mail = m, ![h].user = u,
             ![h].pc = IF r.op = "inbound" THEN "putAttachment" ELSE "create"]
  BY DEF PutBody
<1>3. u \in Users
  BY <1>1 DEF Task
<1> DEFINE pc == IF r.op = "inbound" THEN "putAttachment" ELSE "create"
           q == [r EXCEPT !.mail = m, !.user = u, !.pc = pc]
<1>4. task' = [task EXCEPT ![h] = q]
  BY <1>2
<1>5. /\ q \in Task /\ q.pc = pc /\ q.op = r.op /\ q.user = u /\ q.mail = m
      /\ q.todo = r.todo /\ q.sent = r.sent /\ q.list = r.list /\ q.phase = r.phase
  <2>1. pc \in PCs
    BY DEF PCs
  <2> HIDE DEF pc
  <2> QED
    BY <1>1, <1>3, <2>1 DEF Task
<1> HIDE DEF q
<1>6. Placed(q)
  <2>1. q.pc \in PlacesOf(q.op) /\ (q.op = "send" => q.pc \in Trying)
    BY <1>1, <1>5 DEF PlacesOf, Trying
  <2>2. r.op = "send" => r.phase = "try"
    BY <1>1 DEF Placed, Trying
  <2>3. q.op = "inbound" => \E v \in Users : q.todo = {v} /\ q.user \in {v, None}
    BY <1>1, <1>5 DEF Placed
  <2>4. r.op /= "send" => r.phase = "try" /\ r.sent = {}
    BY <1>1 DEF Placed
  <2> QED
    BY <1>1, <1>3, <1>5, <2>1, <2>2, <2>3, <2>4 DEF Placed
<1>7. objects' \subseteq Objects
  BY <1>2, Kept DEF Objects
<1>8. UNCHANGED <<rows, message, deliveries, gone, strays, failed>>
  BY DEF PutBody
<1>9. message' \in Message /\ failed' \subseteq FaultKinds
  BY <1>8, Kept
<1>10. Sends(h) =>
           \A n \in Mails :
             Internal(n) /\ Remembered(r, n) /\ (Delivered(n) \/ AtHand(r, n))
               => /\ q.op = "send" => Remembered(q, n)
                  /\ Delivered(n) \/ AtHand(q, n)
  BY <1>1, <1>5 DEF Sends, Remembered, AtHand
<1>11. \A v \in Users : Arriving(q, v) => Arriving(task[h], v)
  BY <1>1, <1>5 DEF Arriving
<1>12. q.op \in {task[h].op, "none"} /\ q.op \notin {"recall", "remove"}
  BY <1>1, <1>5
<1> QED
  BY <1>4, <1>6, <1>7, <1>8, <1>9, <1>10, <1>11, <1>12, QuietStep

LEMMA PutAttachmentStep ==
  ASSUME MailInv, NEW h \in Handlers, PutAttachment(h)
  PROVE  MailInv'
<1> DEFINE r == task[h]
<1>1. Placed(r) /\ r.op = "inbound" /\ r.pc = "putAttachment"
  BY Kept, OpOf DEF PutAttachment
<1>2. r.mail \in Mails /\ r.user \in Users
  BY <1>1 DEF Placed
<1>3. Goto(h, "create") /\ UNCHANGED Rest /\ objects' \subseteq Objects
  BY <1>2, Kept DEF PutAttachment, Rest, Objects
<1>4. "create" \in PCs \ {"idle", "record", "list"} /\ "create" \in PlacesOf(r.op)
  BY <1>1 DEF PCs, PlacesOf
<1>5. message' = message /\ failed' = failed
  BY DEF PutAttachment
<1>6. message' \in Message /\ failed' \subseteq FaultKinds
  BY <1>5, Kept
<1> QED
  BY <1>1, <1>2, <1>3, <1>4, <1>5, <1>6, GotoStep

LEMMA AuditStep ==
  ASSUME MailInv, NEW h \in Handlers, Audit(h)
  PROVE  MailInv'
<1> DEFINE r == task[h]
<1>1. Placed(r) /\ r.op = "send" /\ r.pc = "audit"
  BY Kept, OpOf DEF Audit
<1>2. \A m \in Mails : ~AtHand(r, m)
  BY <1>1 DEF AtHand, Placed, Trying
<1>3. Finish(h) /\ UNCHANGED <<objects, message, failed>> /\ UNCHANGED Rest
  BY DEF Audit, Rest
<1>4. objects' \subseteq Objects /\ message' \in Message /\ failed' \subseteq FaultKinds
  BY <1>3, Kept
<1> QED
  BY <1>2, <1>3, <1>4, FinishStep

LEMMA CheckQuotaStep ==
  ASSUME MailInv, NEW h \in Handlers, CheckQuota(h)
  PROVE  MailInv'
<1> DEFINE r == task[h]
           q == [r EXCEPT !.pc = "put"]
<1>1. Placed(r) /\ r \in Task /\ r.op = "inbound" /\ r.pc = "usage"
  BY Kept, OpOf DEF CheckQuota, Placed
<1>2. UNCHANGED <<objects, message, failed, rows, deliveries>> /\ UNCHANGED Rest
  BY DEF CheckQuota, Rest
<1>3. objects' \subseteq Objects /\ message' \in Message /\ failed' \subseteq FaultKinds
  BY <1>2, Kept
<1>4. CASE Finish(h)
  <2>1. ~Sends(h)
    BY <1>1 DEF Sends
  <2> QED
    BY <1>2, <1>3, <1>4, <2>1, FinishStep
<1>5. CASE ~Finish(h)
  <2>1. Goto(h, "put") /\ \E u \in r.todo : Used(u) + 1 <= Quota
    BY <1>5 DEF CheckQuota
  <2>2. PICK u \in Users : r.todo = {u} /\ Used(u) + 1 <= Quota
    BY <1>1, <2>1 DEF Placed
  <2>3. "put" \in PCs \ {"idle", "record", "list"} /\ "put" \in PlacesOf(r.op)
    BY <1>1 DEF PCs, PlacesOf
  <2>4. /\ task'[h] = q /\ q.op = "inbound" /\ q.pc = "put" /\ q.todo = r.todo
        /\ \A g \in Handlers : g /= h => task'[g] = task[g]
    <3>1. q.op = "inbound" /\ q.pc = "put" /\ q.todo = r.todo
      BY <1>1, <2>3, PlaceSet
    <3>2. DOMAIN task = Handlers
      BY DEF MailInv, MailType
    <3> QED
      BY <2>1, <3>1, <3>2 DEF Goto
  <2> HIDE DEF q
  <2>5. ASSUME NEW v \in Users, v /= u
        PROVE  Pending(v)' = Pending(v)
    <3>1. \A g \in Handlers : Arriving(task'[g], v) <=> Arriving(task[g], v)
      BY <2>2, <2>4, <2>5 DEF Arriving
    <3>2. Pending(v)' = {g \in Handlers : Arriving(task'[g], v)}
      BY DEF Pending, Arriving
    <3> QED
      BY <3>1, <3>2 DEF Pending
  <2>6. \A v \in Users : External(v)' = External(v)
    BY <1>2 DEF External, MailsOf, Stored
  <2>7. Cardinality(External(u)) + 1 <= Quota
    <3>1. External(u) \subseteq MailsOf(u) /\ MailsOf(u) \subseteq Mails
      BY DEF External, MailsOf
    <3>2. IsFiniteSet(MailsOf(u)) /\ Cardinality(MailsOf(u)) \in Nat
      BY <3>1, MailAssumption, FS_Subset, FS_CardinalityType
    <3>3. Cardinality(External(u)) <= Cardinality(MailsOf(u))
      BY <3>1, <3>2, FS_Subset
    <3>4. Used(u) \in Nat /\ Cardinality(MailsOf(u)) <= Used(u)
      BY <3>2 DEF Used
    <3>5. Cardinality(External(u)) \in Nat /\ Quota \in Nat
      BY Counts, MailAssumption
    <3> QED
      BY <2>2, <3>2, <3>3, <3>4, <3>5
  <2>8. RoomCounted'
    <3>1. ASSUME NEW v \in Users
          PROVE  Cardinality(External(v)') + Cardinality(Pending(v)')
                   <= Quota + Cardinality(Handlers) - 1
      <4>1. CASE v = u
        <5>1. Cardinality(External(v)') + 1 <= Quota
          BY <2>6, <2>7, <4>1
        <5>2. Cardinality(Pending(v)') <= Cardinality(Handlers)
          BY CountsNext
        <5>3. Quota \in Nat /\ Cardinality(Handlers) \in Nat
          BY Counts, MailAssumption
        <5>4. Cardinality(External(v)') \in Nat /\ Cardinality(Pending(v)') \in Nat
          BY CountsNext
        <5> QED
          BY <5>1, <5>2, <5>3, <5>4
      <4>2. CASE v /= u
        BY <2>5, <2>6, <4>2 DEF MailInv, RoomCounted
      <4> QED
        BY <4>1, <4>2
    <3> QED
      BY <3>1 DEF RoomCounted
  <2> QED
    BY <1>1, <1>2, <1>3, <2>1, <2>3, <2>8, GotoStep
<1> QED
  BY <1>4, <1>5

-----------------------------------------------------------------------------
(* The other actions that leave rows and deliveries alone                  *)

LEMMA UnstoreStep ==
  ASSUME MailInv, NEW h \in Handlers, NEW works \in BOOLEAN, Unstore(h, works),
         failed \subseteq failed', failed' \subseteq FaultKinds
  PROVE  MailInv'
<1> DEFINE r == task[h]
<1>1. Placed(r) /\ r.op \in {"send", "remove"} /\ r.pc = "unstore"
  BY Kept, OpOf DEF Unstore
<1>2. UNCHANGED message /\ UNCHANGED Rest
  BY DEF Unstore, Rest
<1>3. objects' \subseteq Objects /\ message' \in Message
  BY <1>2, Kept DEF Unstore
<1>4. CASE r.op = "send"
  <2>1. Goto(h, "dropMessage")
    BY <1>4 DEF Unstore
  <2>2. "dropMessage" \in PCs \ {"idle", "record", "list"} /\ "dropMessage" \in PlacesOf(r.op)
    BY <1>4 DEF PCs, PlacesOf
  <2>3. r.pc \notin Trying /\ "dropMessage" \notin Trying /\ r.list = {}
    BY <1>1, <1>4 DEF Trying, Placed
  <2> QED
    BY <1>1, <1>2, <1>3, <1>4, <2>1, <2>2, <2>3, GotoStep
<1>5. CASE r.op /= "send"
  <2>1. Finish(h) /\ ~Sends(h)
    BY <1>5 DEF Unstore, Sends
  <2> QED
    BY <1>2, <1>3, <2>1, FinishStep
<1> QED
  BY <1>4, <1>5

LEMMA EraseMailStep ==
  ASSUME MailInv, NEW h \in Handlers, NEW kept, EraseMail(h, kept),
         failed \subseteq failed', failed' \subseteq FaultKinds
  PROVE  MailInv'
<1> DEFINE r == task[h]
<1>1. Placed(r) /\ r.op \in {"send", "recall", "remove", "delete"} /\ r.pc = "erase"
  BY Kept, OpOf DEF EraseMail, Looping
<1>2. Goto(h, "drop") /\ UNCHANGED message /\ UNCHANGED Rest
  BY DEF EraseMail, Rest
<1>3. objects' \subseteq Objects /\ message' \in Message
  BY <1>2, Kept DEF EraseMail
<1>4. "drop" \in PCs \ {"idle", "record", "list"} /\ "drop" \in PlacesOf(r.op)
  BY <1>1 DEF PCs, PlacesOf, Looping
<1>5. r.pc \notin Trying /\ "drop" \notin Trying /\ r.pc \in Looping /\ r.mail \in r.list
  BY <1>1 DEF Trying, Looping, Placed
<1> QED
  BY <1>1, <1>2, <1>3, <1>4, <1>5, GotoStep

LEMMA EraseAllStep ==
  ASSUME MailInv, NEW h \in Handlers, NEW kept, EraseAll(h, kept),
         failed \subseteq failed', failed' \subseteq FaultKinds
  PROVE  MailInv'
<1> DEFINE r == task[h]
<1>1. Placed(r) /\ r.op \in {"bulk", "clear", "close"} /\ r.pc = "eraseAll"
  BY Kept, OpOf DEF EraseAll
<1>2. Goto(h, "dropAll") /\ UNCHANGED message /\ UNCHANGED Rest
  BY DEF EraseAll, Rest
<1>3. objects' \subseteq Objects /\ message' \in Message
  BY <1>2, Kept DEF EraseAll
<1>4. "dropAll" \in PCs \ {"idle", "record", "list"} /\ "dropAll" \in PlacesOf(r.op)
  BY <1>1 DEF PCs, PlacesOf
<1>5. r.user \in Users
  BY <1>1 DEF Placed
<1> QED
  BY <1>1, <1>2, <1>3, <1>4, <1>5, GotoStep

LEMMA FindSharedStep ==
  ASSUME MailInv, NEW h \in Handlers, FindShared(h)
  PROVE  MailInv'
<1> DEFINE r == task[h]
<1>1. Placed(r) /\ r.op = "remove" /\ r.pc = "findShared"
  BY Kept, OpOf DEF FindShared
<1>2. UNCHANGED <<objects, message, failed>> /\ UNCHANGED Rest
  BY DEF FindShared, Rest
<1>3. objects' \subseteq Objects /\ message' \in Message /\ failed' \subseteq FaultKinds
  BY <1>2, Kept
<1>4. CASE Goto(h, "unstore")
  <2>1. "unstore" \in PCs \ {"idle", "record", "list"} /\ "unstore" \in PlacesOf(r.op)
        /\ "unstore" \notin Looping
    BY <1>1 DEF PCs, PlacesOf, Looping
  <2> QED
    BY <1>1, <1>2, <1>3, <1>4, <2>1, GotoStep
<1>5. CASE Finish(h)
  BY <1>1, <1>2, <1>3, <1>5, FinishStep DEF Sends
<1> QED
  BY <1>4, <1>5 DEF FindShared

LEMMA FetchStep ==
  ASSUME MailInv, NEW h \in Handlers, Fetch(h)
  PROVE  MailInv'
<1> DEFINE r == task[h]
<1>1. Placed(r) /\ r.op = "fetch" /\ r.pc = "fetch"
  BY Kept, OpOf DEF Fetch
<1>2. UNCHANGED <<objects, message, failed>> /\ UNCHANGED Rest
  BY DEF Fetch, Rest
<1>3. objects' \subseteq Objects /\ message' \in Message /\ failed' \subseteq FaultKinds
  BY <1>2, Kept
<1>4. CASE Goto(h, "forget")
  <2>1. "forget" \in PCs \ {"idle", "record", "list"} /\ "forget" \in PlacesOf(r.op)
    BY <1>1 DEF PCs, PlacesOf
  <2> QED
    BY <1>1, <1>2, <1>3, <1>4, <2>1, GotoStep
<1>5. CASE Finish(h)
  BY <1>1, <1>2, <1>3, <1>5, FinishStep DEF Sends
<1> QED
  BY <1>4, <1>5 DEF Fetch

LEMMA ForgetStep ==
  ASSUME MailInv, NEW h \in Handlers, Forget(h)
  PROVE  MailInv'
<1> DEFINE r == task[h]
<1>1. Placed(r) /\ r.op = "fetch" /\ r.pc = "forget"
  BY Kept, OpOf DEF Forget
<1>2. Finish(h) /\ UNCHANGED <<objects, failed>> /\ UNCHANGED Rest /\ ~Sends(h)
  BY <1>1 DEF Forget, Rest, Sends
<1>3. /\ message' \in Message
      /\ UNCHANGED <<message.abandoned, message.overlapped, message.state>>
  BY Kept DEF Forget, Message
<1>4. objects' \subseteq Objects /\ failed' \subseteq FaultKinds
  BY <1>2, Kept
<1> QED
  BY <1>2, <1>3, <1>4, FinishStep

LEMMA DieStep ==
  ASSUME MailInv, NEW h \in Handlers, Die(h)
  PROVE  MailInv'
<1>1. Finish(h) /\ UNCHANGED <<objects, message>> /\ UNCHANGED Rest
  BY DEF Die, Rest
<1>2. failed \subseteq failed' /\ "crash" \in failed' /\ failed' \subseteq FaultKinds
  BY Kept DEF Die, Happens, FaultKinds
<1>3. objects' \subseteq Objects /\ message' \in Message
  BY <1>1, Kept
<1> QED
  BY <1>1, <1>2, <1>3, FinishStep

LEMMA FailStep ==
  ASSUME MailInv, NEW h \in Handlers, Fail(h)
  PROVE  MailInv'
<1>1. Throw(h) /\ task[h].pc \notin Tolerant \cup {"idle"} /\ UNCHANGED objects /\ UNCHANGED Rest
  BY DEF Fail, Rest
<1>2. failed \subseteq failed' /\ failed' \subseteq FaultKinds
  BY Kept DEF Fail, Happens, FaultKinds
<1>3. objects' \subseteq Objects
  BY <1>1, Kept
<1> QED
  BY <1>1, <1>2, <1>3, ThrowStep

LEMMA FindMailStep ==
  ASSUME MailInv, NEW h \in Handlers, FindMail(h)
  PROVE  MailInv'
<1> DEFINE r == task[h]
<1>1. /\ Placed(r) /\ r \in Task /\ r.op \in {"send", "recall", "remove", "delete"}
      /\ r.pc = "find" /\ r.pc \in Looping
  BY Kept, OpOf DEF FindMail, Looping, Placed
<1>2. /\ r.phase \in {"try", "inner", "outer"}
      /\ r.op = "send" <=> r.phase \in {"inner", "outer"}
      /\ r.op /= "send" => r.phase = "try" /\ r.sent = {}
  BY <1>1 DEF Placed, Task, Trying
<1>3. PICK m \in r.list :
        task' = [task EXCEPT ![h] =
          IF Stored(m) THEN [r EXCEPT !.pc = "erase", !.mail = m]
          ELSE Loop([r EXCEPT !.mail = m, !.list = r.list \ {m}])]
  BY DEF FindMail
<1>4. m \in Mails /\ r.list \subseteq Mails
  BY <1>1 DEF Task
<1>5. UNCHANGED <<objects, rows, message, deliveries, gone, strays, failed>>
  BY DEF FindMail
<1>6. objects' \subseteq Objects /\ message' \in Message /\ failed' \subseteq FaultKinds
  BY <1>5, Kept
<1>7. ~message.overlapped /\ r.op \in {"recall", "remove"} =>
        /\ \A g \in Handlers : ~Sends(g)
        /\ \A d \in deliveries : d.mail \in r.list \cup {None}
  BY <1>1 DEF MailInv, RecallKnows, Recalls
<1>8. CASE Stored(m)
  <2> DEFINE q == [r EXCEPT !.pc = "erase", !.mail = m]
  <2>1. task' = [task EXCEPT ![h] = q]
    BY <1>3, <1>8
  <2>2. /\ q \in Task /\ q.pc = "erase" /\ q.op = r.op /\ q.user = r.user /\ q.mail = m
        /\ q.todo = r.todo /\ q.sent = r.sent /\ q.list = r.list /\ q.phase = r.phase
    <3>1. "erase" \in PCs
      BY DEF PCs
    <3> HIDE DEF r
    <3>2. r \in Task
      BY <1>1
    <3> QED
      BY <1>4, <3>1, <3>2 DEF Task
  <2> HIDE DEF q
  <2>3. q.pc \in PlacesOf(q.op) /\ q.pc \notin Trying /\ q.pc \in Looping
    BY <1>1, <2>2 DEF PlacesOf, Looping, Trying
  <2>4. Placed(q)
    BY <1>1, <1>2, <2>2, <2>3 DEF Placed
  <2>5. \A n \in Mails : /\ Remembered(r, n) => Remembered(q, n)
                         /\ r.op = "send" => AtHand(q, n)
    BY <1>2, <2>2 DEF Remembered, AtHand
  <2>6. Sends(h) =>
           \A n \in Mails :
             Internal(n) /\ Remembered(r, n) /\ (Delivered(n) \/ AtHand(r, n))
               => /\ q.op = "send" => Remembered(q, n)
                  /\ Delivered(n) \/ AtHand(q, n)
    BY <2>5 DEF Sends
  <2>7. \A v \in Users : Arriving(q, v) => Arriving(r, v)
    BY <1>1, <2>2 DEF Arriving
  <2>8. q.op \in {task[h].op, "none"}
    BY <2>2
  <2>9. ~message'.overlapped /\ q.op \in {"recall", "remove"} =>
           /\ \A g \in Handlers : ~Sends(g)
           /\ q.pc \in Looping => \A d \in deliveries : d.mail \in q.list \cup {None}
           /\ q.pc \in {"markRecalled", "markDeleted"} => \A d \in deliveries : d.mail = None
    BY <1>5, <1>7, <2>2
  <2> QED
    BY <1>5, <1>6, <2>1, <2>4, <2>6, <2>7, <2>8, <2>9, QuietStep
<1>9. CASE ~Stored(m)
  <2> DEFINE s == [r EXCEPT !.mail = m, !.list = r.list \ {m}]
             q == Loop(s)
  <2>1. task' = [task EXCEPT ![h] = q]
    BY <1>3, <1>9
  <2>2. /\ s \in Task /\ s.pc = r.pc /\ s.op = r.op /\ s.user = r.user /\ s.mail = m
        /\ s.todo = r.todo /\ s.sent = r.sent /\ s.list = r.list \ {m} /\ s.phase = r.phase
    <3> HIDE DEF r
    <3>1. r \in Task
      BY <1>1
    <3> QED
      BY <1>4, <3>1 DEF Task
  <2> HIDE DEF s
  <2>3. /\ Placed(q)
        /\ \/ q = Idle /\ r.op = "delete"
           \/ /\ q.op = r.op /\ q.sent = r.sent /\ q.list = r.list \ {m} /\ q.phase = r.phase
              /\ q.mail = None
              /\ IF q.list /= {} THEN q.pc = "find"
                 ELSE q.pc = CASE r.op = "send" /\ r.phase = "inner" -> "dropMessage"
                               [] r.op = "send" /\ r.phase = "outer" -> "unstore"
                               [] r.op = "recall" -> "markRecalled"
                               [] OTHER -> "markDeleted"
    <3>1. /\ s.op \in {"send", "recall", "remove", "delete"}
          /\ s.op = "send" <=> s.phase \in {"inner", "outer"}
          /\ s.op /= "send" => s.sent = {}
      BY <1>1, <1>2, <2>2
    <3> QED
      BY <2>2, <3>1, LoopEffect
  <2> HIDE DEF q
  <2>4. q.op \in {r.op, "none"}
    BY <2>3, IdlePlaced
  <2>5. ASSUME r.op = "send", NEW n \in Mails, Internal(n), Remembered(r, n)
        PROVE  Remembered(q, n) /\ AtHand(q, n)
    <3>1. /\ q.op = "send" /\ q.sent = r.sent /\ q.list = r.list \ {m} /\ q.phase = r.phase
          /\ q.phase /= "try"
      BY <1>2, <2>3, <2>5
    <3>2. n /= m /\ n \in r.sent /\ n \in r.list
      BY <1>2, <1>9, <2>5, <3>1 DEF Remembered, Internal
    <3> QED
      BY <3>1, <3>2 DEF Remembered, AtHand
  <2>6. Sends(h) =>
           \A n \in Mails :
             Internal(n) /\ Remembered(r, n) /\ (Delivered(n) \/ AtHand(r, n))
               => /\ q.op = "send" => Remembered(q, n)
                  /\ Delivered(n) \/ AtHand(q, n)
    BY <2>5 DEF Sends
  <2>7. \A v \in Users : Arriving(q, v) => Arriving(r, v)
    BY <1>1, <2>4 DEF Arriving
  <2>8. ASSUME ~message'.overlapped, q.op \in {"recall", "remove"}
        PROVE  /\ \A g \in Handlers : ~Sends(g)
               /\ q.pc \in Looping => \A d \in deliveries : d.mail \in q.list \cup {None}
               /\ q.pc \in {"markRecalled", "markDeleted"} => \A d \in deliveries : d.mail = None
    <3>1. q /= Idle /\ r.op \in {"recall", "remove"}
      BY <2>3, <2>4, <2>8, IdlePlaced
    <3>2. q.list = r.list \ {m} /\ (q.list /= {} => q.pc = "find")
      BY <2>3, <3>1
    <3>3. /\ \A g \in Handlers : ~Sends(g)
          /\ \A d \in deliveries : d.mail \in r.list \cup {None}
      BY <1>5, <1>7, <2>8, <3>1
    <3>4. \A d \in deliveries : d.mail \in q.list \cup {None}
      BY <1>9, <3>2, <3>3 DEF MailInv, DeliveredStored
    <3> QED
      BY <3>2, <3>3, <3>4
  <2> QED
    BY <1>5, <1>6, <2>1, <2>3, <2>4, <2>6, <2>7, <2>8, QuietStep
<1> QED
  BY <1>8, <1>9

LEMMA ListCopiesStep ==
  ASSUME MailInv, NEW h \in Handlers, ListCopies(h)
  PROVE  MailInv'
<1> DEFINE r == task[h]
           copies == {d.mail : d \in deliveries} \ {None}
           s == [r EXCEPT !.list = copies]
           q == Loop(s)
<1>1. Placed(r) /\ r \in Task /\ r.op \in {"recall", "remove"} /\ r.pc = "list"
  BY Kept, OpOf DEF ListCopies, Placed
<1>2. r.phase = "try" /\ r.sent = {}
  BY <1>1 DEF Placed
<1>3. task' = [task EXCEPT ![h] = q]
  BY DEF ListCopies
<1>4. UNCHANGED <<objects, rows, message, deliveries, gone, strays, failed>>
  BY DEF ListCopies
<1>5. objects' \subseteq Objects /\ message' \in Message /\ failed' \subseteq FaultKinds
  BY <1>4, Kept
<1>6. copies \in SUBSET Mails /\ \A d \in deliveries : d.mail \in copies \cup {None}
  BY Kept DEF Delivery
<1> HIDE DEF copies
<1>7. /\ s \in Task /\ s.pc = r.pc /\ s.op = r.op /\ s.user = r.user /\ s.mail = r.mail
      /\ s.todo = r.todo /\ s.sent = r.sent /\ s.list = copies /\ s.phase = r.phase
  <2>1. s = [r EXCEPT !.list = copies]
    OBVIOUS
  <2> HIDE DEF s, r
  <2> QED
    BY <1>1, <1>6, <2>1, ListSet
<1> HIDE DEF s
<1>8. /\ Placed(q) /\ q.op = r.op /\ q.list = copies
      /\ q.list /= {} => q.pc = "find"
  <2>1. /\ s.op \in {"send", "recall", "remove", "delete"} /\ s.op /= "delete"
        /\ s.op = "send" <=> s.phase \in {"inner", "outer"}
        /\ s.op /= "send" => s.sent = {}
    BY <1>1, <1>2, <1>7
  <2> QED
    BY <1>7, <2>1, LoopEffect
<1> HIDE DEF q
<1>9. ~Sends(h) /\ q.op \in {task[h].op, "none"}
  BY <1>1, <1>8 DEF Sends
<1>10. \A v \in Users : Arriving(q, v) => Arriving(r, v)
  BY <1>1, <1>8 DEF Arriving
<1>11. ASSUME ~message'.overlapped, q.op \in {"recall", "remove"}
       PROVE  /\ \A g \in Handlers : ~Sends(g)
              /\ q.pc \in Looping => \A d \in deliveries : d.mail \in q.list \cup {None}
              /\ q.pc \in {"markRecalled", "markDeleted"} => \A d \in deliveries : d.mail = None
  <2>1. \A g \in Handlers : ~Sends(g)
    BY <1>1, <1>4, <1>11 DEF MailInv, RecallKnows, Recalls
  <2> QED
    BY <1>6, <1>8, <2>1
<1> QED
  BY <1>3, <1>4, <1>5, <1>8, <1>9, <1>10, <1>11, QuietStep

-----------------------------------------------------------------------------
(* The calls                                                               *)

\* A handler at rest takes a call that changes nothing but message.overlapped.
LEMMA BeginStep ==
  ASSUME MailInv, NEW h \in Handlers, NEW q, Placed(q), Begin(h, q),
         q.op \notin {"none", "send"}, q.op \in {"recall", "remove"} =>
           /\ message.state /= "none"
           /\ q.pc \in {"list", "hide"}
           /\ message'.overlapped \/ ~Sending,
         q.op = "inbound" => q.pc = "usage",
         UNCHANGED <<objects, rows, deliveries, gone, strays, failed>>,
         message' \in Message, UNCHANGED <<message.abandoned, message.state>>,
         message.overlapped => message'.overlapped
  PROVE  MailInv'
<1>1. task' = [task EXCEPT ![h] = q] /\ task[h].pc = "idle"
  BY DEF Begin
<1>2. task[h].op = "none" /\ ~Sends(h)
  BY <1>1, Kept, OpOf DEF Sends
<1>3. objects' \subseteq Objects /\ failed' \subseteq FaultKinds
  BY Kept
<1>4. \A v \in Users : Arriving(q, v) => Arriving(task[h], v)
  BY DEF Arriving
<1>5. q.pc \in {"list", "hide"} => q.pc \notin Looping \cup {"markRecalled", "markDeleted"}
  BY DEF Looping
<1>6. ASSUME ~message'.overlapped, q.op \in {"recall", "remove"}
      PROVE  /\ \A g \in Handlers : ~Sends(g)
             /\ q.pc \in Looping => \A d \in deliveries : d.mail \in q.list \cup {None}
             /\ q.pc \in {"markRecalled", "markDeleted"} => \A d \in deliveries : d.mail = None
  <2>1. \A g \in Handlers : ~Sends(g)
    BY <1>6 DEF Sending, Sends
  <2> QED
    BY <1>5, <1>6, <2>1
<1>7. \/ q.op \in {task[h].op, "none"}
      \/ q.op \notin {"send", "recall", "remove"}
      \/ q.op \in {"recall", "remove"} /\ message.state /= "none"
  OBVIOUS
<1> QED
  BY <1>1, <1>2, <1>3, <1>4, <1>6, <1>7, QuietStep

LEMMA RecallCallStep ==
  ASSUME MailInv, NEW h \in Handlers, Recall(h)
  PROVE  MailInv'
<1> DEFINE q == [Idle EXCEPT !.op = "recall", !.pc = "list"]
<1>1. Begin(h, q) /\ UNCHANGED <<objects, rows, deliveries, gone, strays, failed>>
  BY DEF Recall
<1>2. /\ message' \in Message /\ message'.overlapped = (message.overlapped \/ Sending)
      /\ UNCHANGED <<message.abandoned, message.state>> /\ message.state = "stored"
  BY Kept DEF Recall, Message, Sending
<1>3. Placed(q) /\ q.op = "recall" /\ q.pc = "list"
  BY DEF Placed, Idle, Task, PCs, OpKinds, PlacesOf, Looping, Trying
<1> HIDE DEF q
<1> QED
  BY <1>1, <1>2, <1>3, BeginStep

LEMMA RemoveMessageStep ==
  ASSUME MailInv, NEW h \in Handlers, RemoveMessage(h)
  PROVE  MailInv'
<1> DEFINE pc == IF message.recalled THEN "hide" ELSE "list"
           q == [Idle EXCEPT !.op = "remove", !.pc = pc]
<1>1. Begin(h, q) /\ UNCHANGED <<objects, rows, deliveries, gone, strays, failed>>
  BY DEF RemoveMessage
<1>2. /\ message' \in Message /\ message'.overlapped = (message.overlapped \/ Sending)
      /\ UNCHANGED <<message.abandoned, message.state>> /\ message.state = "stored"
  BY Kept DEF RemoveMessage, Message, Sending
<1>3. pc \in {"hide", "list"}
  OBVIOUS
<1> HIDE DEF pc
<1>4. Placed(q) /\ q.op = "remove" /\ q.pc \in {"hide", "list"}
  BY <1>3 DEF Placed, Idle, Task, PCs, OpKinds, PlacesOf, Looping, Trying
<1> HIDE DEF q
<1> QED
  BY <1>1, <1>2, <1>4, BeginStep

LEMMA FetchSharedStep ==
  ASSUME MailInv, NEW h \in Handlers, FetchShared(h)
  PROVE  MailInv'
<1> DEFINE q == [Idle EXCEPT !.op = "fetch", !.pc = "fetch"]
<1>1. Begin(h, q) /\ UNCHANGED <<objects, rows, message, deliveries, gone, strays, failed>>
  BY DEF FetchShared
<1>2. message' \in Message /\ UNCHANGED message
  BY <1>1, Kept
<1>3. Placed(q) /\ q.op = "fetch"
  BY DEF Placed, Idle, Task, PCs, OpKinds, PlacesOf, Looping, Trying
<1> HIDE DEF q
<1> QED
  BY <1>1, <1>2, <1>3, BeginStep

LEMMA DeleteMailStep ==
  ASSUME MailInv, NEW h \in Handlers, DeleteMail(h)
  PROVE  MailInv'
<1>1. PICK m \in Mails :
        Begin(h, [Idle EXCEPT !.op = "delete", !.pc = "find", !.list = {m}])
  BY DEF DeleteMail
<1> DEFINE q == [Idle EXCEPT !.op = "delete", !.pc = "find", !.list = {m}]
<1>2. Begin(h, q) /\ UNCHANGED <<objects, rows, message, deliveries, gone, strays, failed>>
  BY <1>1 DEF DeleteMail
<1>3. message' \in Message /\ UNCHANGED message
  BY <1>2, Kept
<1>4. Placed(q) /\ q.op = "delete"
  BY DEF Placed, Idle, Task, PCs, OpKinds, PlacesOf, Looping, Trying
<1> HIDE DEF q
<1> QED
  BY <1>2, <1>3, <1>4, BeginStep

LEMMA BulkDeleteStep ==
  ASSUME MailInv, NEW h \in Handlers, BulkDelete(h)
  PROVE  MailInv'
<1>1. PICK u \in Users, some \in SUBSET Mails :
        Begin(h, [Idle EXCEPT !.op = "bulk", !.pc = "eraseAll", !.user = u, !.list = some])
  BY DEF BulkDelete, MailsOf
<1> DEFINE q == [Idle EXCEPT !.op = "bulk", !.pc = "eraseAll", !.user = u, !.list = some]
<1>2. Begin(h, q) /\ UNCHANGED <<objects, rows, message, deliveries, gone, strays, failed>>
  BY <1>1 DEF BulkDelete
<1>3. message' \in Message /\ UNCHANGED message
  BY <1>2, Kept
<1>4. Placed(q) /\ q.op = "bulk"
  BY DEF Placed, Idle, Task, PCs, OpKinds, PlacesOf, Looping, Trying
<1> HIDE DEF q
<1> QED
  BY <1>2, <1>3, <1>4, BeginStep

LEMMA PurgeStep ==
  ASSUME MailInv, NEW h \in Handlers, Purge(h)
  PROVE  MailInv'
<1>1. PICK u \in Users, op \in {"clear", "close"} :
        Begin(h, [Idle EXCEPT !.op = op, !.pc = "eraseAll", !.user = u, !.list = MailsOf(u)])
  BY DEF Purge
<1> DEFINE all == MailsOf(u)
           q == [Idle EXCEPT !.op = op, !.pc = "eraseAll", !.user = u, !.list = all]
<1>2. Begin(h, q) /\ UNCHANGED <<objects, rows, message, deliveries, gone, strays, failed>>
  BY <1>1 DEF Purge
<1>3. message' \in Message /\ UNCHANGED message
  BY <1>2, Kept
<1>4. all \in SUBSET Mails
  BY DEF MailsOf
<1> HIDE DEF all
<1>5. Placed(q) /\ q.op \in {"clear", "close"}
  BY <1>4 DEF Placed, Idle, Task, PCs, OpKinds, PlacesOf, Looping, Trying
<1> HIDE DEF q
<1> QED
  BY <1>2, <1>3, <1>5, BeginStep

LEMMA IncomingMailStep ==
  ASSUME MailInv, NEW h \in Handlers, IncomingMail(h)
  PROVE  MailInv'
<1>1. PICK u \in Users :
        Begin(h, [Idle EXCEPT !.op = "inbound", !.pc = "usage", !.todo = {u}])
  BY DEF IncomingMail
<1> DEFINE q == [Idle EXCEPT !.op = "inbound", !.pc = "usage", !.todo = {u}]
<1>2. Begin(h, q) /\ UNCHANGED <<objects, rows, message, deliveries, gone, strays, failed>>
  BY <1>1 DEF IncomingMail
<1>3. message' \in Message /\ UNCHANGED message
  BY <1>2, Kept
<1>4. Placed(q) /\ q.op = "inbound" /\ q.pc = "usage"
  BY DEF Placed, Idle, Task, PCs, OpKinds, PlacesOf, Looping, Trying
<1> HIDE DEF q
<1> QED
  BY <1>2, <1>3, <1>4, BeginStep

\* Before sendMail there is no copy of its mail, and nobody sends or recalls it.
LEMMA SendMailStep ==
  ASSUME MailInv, NEW h \in Handlers, SendMail(h)
  PROVE  MailInv'
<1>1. PICK to \in SUBSET Users, direct \in BOOLEAN, attached \in BOOLEAN :
        /\ Begin(h, [Idle EXCEPT !.op = "send", !.todo = to,
             !.pc = IF attached THEN "storeShared" ELSE "createMessage"])
        /\ message' = [message EXCEPT !.state = "draft", !.direct = direct,
                                      !.attached = attached]
  BY ZenonT(60) DEF SendMail
<1> DEFINE pc == IF attached THEN "storeShared" ELSE "createMessage"
           q == [Idle EXCEPT !.op = "send", !.todo = to, !.pc = pc]
<1>2. task' = [task EXCEPT ![h] = q]
  BY <1>1 DEF Begin
<1>3. message.state = "none" /\ UNCHANGED <<objects, rows, deliveries, gone, strays, failed>>
  BY DEF SendMail
<1>4. message' \in Message /\ message'.state = "draft"
  BY <1>1, Kept DEF Message
<1>5. pc \in {"storeShared", "createMessage"}
  OBVIOUS
<1> HIDE DEF pc
<1>6. Placed(q) /\ q.op = "send"
  BY <1>5 DEF Placed, Idle, Task, PCs, OpKinds, PlacesOf, Looping, Trying
<1> HIDE DEF q
<1>7. /\ MailType' /\ task'[h] = q
      /\ \A g \in Handlers : g /= h => task'[g] = task[g]
  <2>1. /\ rows' \in [Mails -> Row \cup {None}] /\ deliveries' \subseteq Delivery
        /\ gone' \subseteq Users /\ strays' \subseteq Mails
        /\ objects' \subseteq Objects /\ failed' \subseteq FaultKinds
    BY <1>3, Kept
  <2>2. MailType
    BY DEF MailInv
  <2> QED
    BY <1>2, <1>4, <1>6, <2>1, <2>2, TypeStep
<1>8. /\ \A g \in Handlers : ~Sends(g) /\ ~Recalls(g)
      /\ \A m \in Mails : ~Internal(m)
  BY <1>3 DEF MailInv, OneMessage
<1>9. \A m \in Mails : ~Internal(m)'
  BY <1>3, <1>8 DEF Internal, Stored
<1>10. OneMessage'
  <2>1. \A g \in Handlers : task'[g].op = "send" => g = h
    BY <1>7, <1>8 DEF Sends
  <2> QED
    BY <1>4, <1>9, <2>1 DEF OneMessage, Sends, Recalls
<1>11. DeliveredStored'
  BY <1>3 DEF MailInv, DeliveredStored, Stored
<1>12. CopiesFound'
  BY <1>9 DEF CopiesFound
<1>13. \A g \in Handlers : task'[g].op \notin {"recall", "remove"}
  BY <1>6, <1>7, <1>8 DEF Recalls
<1>14. RecallKnows'
  BY <1>13 DEF RecallKnows, Recalls
<1>15. RecallComplete'
  BY <1>1, <1>3, Kept DEF MailInv, RecallComplete, Message
<1>16. RoomCounted'
  <2>1. \A u \in Users : External(u)' = External(u)
    BY <1>3 DEF External, MailsOf, Stored
  <2>2. \A u \in Users : Arriving(task'[h], u) => Arriving(task[h], u)
    BY <1>6, <1>7 DEF Arriving
  <2> QED
    BY <1>7, <2>1, <2>2, RoomStep
<1> QED
  BY <1>7, <1>10, <1>11, <1>12, <1>14, <1>15, <1>16 DEF MailInv

-----------------------------------------------------------------------------
(* The actions on rows and deliveries                                      *)

\* The parts of the invariant together.
LEMMA Together ==
  ASSUME MailType', OneMessage', DeliveredStored', CopiesFound', RecallKnows',
         RecallComplete', RoomCounted'
  PROVE  MailInv'
BY DEF MailInv

\* A mail that has arrived was pending before.
LEMMA CreateIncoming ==
  ASSUME MailInv, NEW h \in Handlers, CreateMail(h), task[h].op = "inbound"
  PROVE  MailInv'
<1> DEFINE r == task[h]
           row == [user |-> r.user, kind |-> "external"]
<1>1. Placed(r) /\ r.pc = "create"
  BY Kept DEF CreateMail
<1>2. PICK u \in Users : r.todo = {u} /\ r.user = u /\ r.mail \in Mails
  BY <1>1, MailAssumption DEF Placed
<1>3. /\ rows' = [rows EXCEPT ![r.mail] = row] /\ task' = [task EXCEPT ![h] = Idle]
      /\ UNCHANGED <<objects, message, deliveries, gone, strays, failed>>
  BY DEF CreateMail, Finish

<1>4. rows \in [Mails -> Row \cup {None}] /\ row \in Row /\ row /= None
  BY <1>2, Kept, MailAssumption DEF Row
<1>5. rows' \in [Mails -> Row \cup {None}]
      /\ \A n \in Mails : rows'[n] = IF n = r.mail THEN row ELSE rows[n]
  <2> HIDE DEF row
  <2> QED
    BY <1>3, <1>4
<1>6. /\ MailType' /\ task'[h] = Idle
      /\ \A g \in Handlers : g /= h => task'[g] = task[g]
  <2>1. /\ deliveries' \subseteq Delivery /\ message' \in Message
        /\ gone' \subseteq Users /\ strays' \subseteq Mails
        /\ objects' \subseteq Objects /\ failed' \subseteq FaultKinds
    BY <1>3, Kept
  <2>2. MailType
    BY DEF MailInv
  <2> QED
    BY <1>3, <1>5, <2>1, <2>2, IdlePlaced, TypeStep
<1>7. \A n \in Mails : /\ Stored(n) => Stored(n)'
                       /\ Internal(n)' => Internal(n)
                       /\ Delivered(n)' <=> Delivered(n)
  <2>1. row.kind = "external"
    OBVIOUS
  <2> HIDE DEF row
  <2> QED
    BY <1>3, <1>4, <1>5, <2>1 DEF Internal, Stored, Delivered
<1>8. Idle.op = "none" /\ ~Sends(h)
  BY IdlePlaced DEF Sends
<1>9. OneMessage'
  BY <1>3, <1>6, <1>7, <1>8, OneMessageStep
<1>10. DeliveredStored'
  <2>1. \A d \in deliveries : d.mail \in Mails \cup {None}
    BY Kept DEF Delivery
  <2> QED
    BY <1>3, <1>7, <2>1 DEF MailInv, DeliveredStored, Stored
<1>11. CopiesFound'
  BY <1>3, <1>6, <1>7, <1>8, CopiesStep
<1>12. \A d \in deliveries' : d.mail = None \/ Delivered(d.mail)
  BY <1>3 DEF Delivered
<1>13. RecallKnows'
  BY <1>3, <1>6, <1>8, <1>12, RecallStep
<1>14. RecallComplete'
  BY <1>3 DEF MailInv, RecallComplete
<1>15. RoomCounted'
  <2> SUFFICES ASSUME NEW v \in Users
               PROVE  Cardinality(External(v)') + Cardinality(Pending(v)')
                        <= Quota + Cardinality(Handlers) - 1
    BY DEF RoomCounted
  <2>1. Cardinality(External(v)) + Cardinality(Pending(v)) <= Quota + Cardinality(Handlers) - 1
    BY DEF MailInv, RoomCounted
  <2>2. Pending(v)' = Pending(v) \ {h}
    <3>1. \A g \in Handlers : Arriving(task'[g], v) <=> Arriving(task[g], v) /\ g /= h
      BY <1>6, <1>8 DEF Arriving
    <3>2. Pending(v)' = {g \in Handlers : Arriving(task'[g], v)}
      BY DEF Pending, Arriving
    <3> QED
      BY <3>1, <3>2 DEF Pending
  <2>3. /\ Cardinality(External(v)) \in Nat /\ Cardinality(External(v)') \in Nat
        /\ Cardinality(Pending(v)) \in Nat /\ Cardinality(Pending(v)') \in Nat
        /\ Quota \in Nat /\ Cardinality(Handlers) \in Nat
    BY Counts, CountsNext, MailAssumption
  <2>4. CASE v = u
    <3>1. External(v)' \subseteq External(v) \cup {r.mail}
      BY <1>5 DEF External, MailsOf, Stored
    <3>2. /\ IsFiniteSet(External(v) \cup {r.mail})
          /\ Cardinality(External(v) \cup {r.mail}) <= Cardinality(External(v)) + 1
      <4>1. IsFiniteSet(External(v))
        BY Counts
      <4>2. /\ IsFiniteSet(External(v) \cup {r.mail})
            /\ \/ Cardinality(External(v) \cup {r.mail}) = Cardinality(External(v))
               \/ Cardinality(External(v) \cup {r.mail}) = Cardinality(External(v)) + 1
        BY <4>1, FS_AddElement
      <4> QED
        BY <2>3, <4>2
    <3>3. Cardinality(External(v)') <= Cardinality(External(v) \cup {r.mail})
      BY <3>1, <3>2, FS_Subset
    <3>4. h \in Pending(v)
      BY <1>1, <1>2, <2>4 DEF Pending, Arriving
    <3>5. Cardinality(Pending(v)') = Cardinality(Pending(v)) - 1
      BY <2>2, <3>4, Counts, FS_RemoveElement
    <3>6. Cardinality(External(v) \cup {r.mail}) \in Nat
      BY <3>2, FS_CardinalityType
    <3> QED
      BY <2>1, <2>3, <3>2, <3>3, <3>5, <3>6
  <2>5. CASE v /= u
    <3>1. External(v)' \subseteq External(v)
      BY <1>2, <1>5, <2>5 DEF External, MailsOf, Stored
    <3>2. Cardinality(External(v)') <= Cardinality(External(v))
      BY <3>1, Counts, FS_Subset
    <3>3. Cardinality(Pending(v)') <= Cardinality(Pending(v))
      BY <2>2, Counts, FS_Subset
    <3> QED
      BY <2>1, <2>3, <3>2, <3>3
  <2> QED
    BY <2>4, <2>5
<1> QED
  BY <1>6, <1>9, <1>10, <1>11, <1>13, <1>14, <1>15, Together

\* A copy is at hand until its delivery is recorded.
LEMMA CreateCopy ==
  ASSUME MailInv, NEW h \in Handlers, CreateMail(h), task[h].op /= "inbound"
  PROVE  MailInv'
<1> DEFINE r == task[h]
           row == [user |-> r.user, kind |-> "internal"]
           sent == r.sent \cup {r.mail}
           q == [r EXCEPT !.pc = "record", !.sent = sent]
<1>1. Placed(r) /\ r \in Task /\ r.op = "send" /\ r.pc = "create" /\ r.phase = "try"
  BY Kept, OpOf DEF CreateMail, Placed, Trying
<1>2. r.user \in Users /\ r.mail \in Mails
  BY <1>1 DEF Placed
<1>3. /\ rows' = [rows EXCEPT ![r.mail] = row] /\ task' = [task EXCEPT ![h] = q]
      /\ UNCHANGED <<objects, message, deliveries, gone, strays, failed>>
  BY <1>1 DEF CreateMail
<1>4. rows \in [Mails -> Row \cup {None}] /\ row \in Row /\ row /= None
  BY <1>2, Kept, MailAssumption DEF Row
<1>5. rows' \in [Mails -> Row \cup {None}]
      /\ \A n \in Mails : rows'[n] = IF n = r.mail THEN row ELSE rows[n]
  <2> HIDE DEF row
  <2> QED
    BY <1>3, <1>4
<1>6. /\ q \in Task /\ q.pc = "record" /\ q.op = r.op /\ q.user = r.user /\ q.mail = r.mail
      /\ q.todo = r.todo /\ q.sent = sent /\ q.list = r.list /\ q.phase = r.phase
  <2>1. sent \in SUBSET Mails /\ "record" \in PCs
    BY <1>1, <1>2 DEF Task, PCs
  <2> HIDE DEF sent, r
  <2> QED
    BY <1>1, <2>1 DEF Task
<1> HIDE DEF q
<1>7. Placed(q)
  <2>1. q.pc \in PlacesOf(q.op) /\ q.pc \in Trying
    BY <1>1, <1>6 DEF PlacesOf, Trying
  <2> QED
    BY <1>1, <1>2, <1>6, <2>1 DEF Placed
<1>8. /\ MailType' /\ task'[h] = q
      /\ \A g \in Handlers : g /= h => task'[g] = task[g]
  <2>1. /\ deliveries' \subseteq Delivery /\ message' \in Message
        /\ gone' \subseteq Users /\ strays' \subseteq Mails
        /\ objects' \subseteq Objects /\ failed' \subseteq FaultKinds
    BY <1>3, Kept
  <2>2. MailType
    BY DEF MailInv
  <2> QED
    BY <1>3, <1>5, <1>7, <2>1, <2>2, TypeStep
<1>9. \A n \in Mails : /\ Stored(n) => Stored(n)'
                       /\ n /= r.mail /\ Internal(n)' => Internal(n)
                       /\ Delivered(n)' <=> Delivered(n)
  <2> HIDE DEF row
  <2> QED
    BY <1>3, <1>4, <1>5 DEF Internal, Stored, Delivered
<1>10. Sends(h) /\ \A g \in Handlers : Sends(g) => g = h
  BY <1>1 DEF Sends, MailInv, OneMessage
<1>11. OneMessage'
  <2>1. task'[h].op \in {task[h].op, "none"}
    BY <1>6, <1>8
  <2>2. \A n \in Mails : Internal(n)' => Internal(n) \/ Sends(h)
    BY <1>10
  <2> QED
    BY <1>3, <1>8, <2>1, <2>2, OneMessageStep
<1>12. DeliveredStored'
  <2>1. \A d \in deliveries : d.mail \in Mails \cup {None}
    BY Kept DEF Delivery
  <2> QED
    BY <1>3, <1>9, <2>1 DEF MailInv, DeliveredStored, Stored
<1>13. CopiesFound'
  <2> SUFFICES ASSUME "crash" \notin failed', ~message'.abandoned, NEW m \in Mails, Internal(m)'
               PROVE  /\ \A g \in Handlers : task'[g].op = "send" => Remembered(task'[g], m)
                      /\ Delivered(m)' \/ \E g \in Handlers : AtHand(task'[g], m)
    BY DEF CopiesFound, Sends, Remembered, AtHand
  <2>1. \A g \in Handlers : task'[g].op = "send" => g = h
    BY <1>8, <1>10 DEF Sends
  <2>2. CASE m = r.mail
    <3>1. Remembered(q, m) /\ AtHand(q, m)
      BY <1>1, <1>6, <2>2 DEF Remembered, AtHand
    <3> QED
      BY <1>8, <2>1, <3>1
  <2>3. CASE m /= r.mail
    <3>1. Internal(m) /\ "crash" \notin failed /\ ~message.abandoned
      BY <1>3, <1>9, <2>3
    <3>2. Remembered(r, m) /\ (Delivered(m) \/ \E g \in Handlers : AtHand(task[g], m))
      BY <1>10, <3>1 DEF MailInv, CopiesFound
    <3>3. \A g \in Handlers : ~AtHand(task[g], m)
      BY <1>1, <1>10 DEF AtHand, Sends
    <3>4. Remembered(q, m) /\ Delivered(m)'
      BY <1>1, <1>6, <1>9, <3>2, <3>3 DEF Remembered
    <3> QED
      BY <1>8, <2>1, <3>4
  <2> QED
    BY <2>2, <2>3
<1>14. RecallKnows'
  BY <1>1, <1>3, <1>6, <1>8, <1>10, RecallStep
<1>15. RecallComplete'
  BY <1>3 DEF MailInv, RecallComplete
<1>16. RoomCounted'
  <2>1. row.kind /= "external"
    OBVIOUS
  <2>2. \A v \in Users : External(v)' \subseteq External(v)
    <3> HIDE DEF row
    <3> QED
      BY <1>4, <1>5, <2>1 DEF External, MailsOf, Stored
  <2>3. \A v \in Users : ~Arriving(task'[h], v)
    BY <1>1, <1>6, <1>8 DEF Arriving
  <2> QED
    BY <1>8, <2>2, <2>3, RoomStep
<1> QED
  BY <1>8, <1>11, <1>12, <1>13, <1>14, <1>15, <1>16, Together

\* The copy at hand gets its delivery, or the recipient has deleted it already.
LEMMA RecordDeliveryStep ==
  ASSUME MailInv, NEW h \in Handlers, RecordDelivery(h)
  PROVE  MailInv'
<1> DEFINE r == task[h]
           left == r.todo \ {r.user}
           pc == IF left = {} THEN "audit" ELSE "put"
           q == [r EXCEPT !.pc = pc, !.todo = left, !.user = None, !.mail = None]
           new == [user |-> r.user, mail |-> r.mail, recalled |-> FALSE]
<1>1. Placed(r) /\ r \in Task /\ r.op = "send" /\ r.pc = "record" /\ r.phase = "try"
  BY Kept, OpOf DEF RecordDelivery, Placed, Trying
<1>2. r.user \in Users /\ r.mail \in Mails
  BY <1>1 DEF Placed
<1>3. UNCHANGED <<objects, rows, gone, strays, failed>>
  BY DEF RecordDelivery
<1>4. CASE ~Stored(r.mail)
  <2>1. Throw(h) /\ UNCHANGED Rest
    BY <1>3, <1>4 DEF RecordDelivery, Rest
  <2>2. objects' \subseteq Objects /\ failed' \subseteq FaultKinds /\ failed \subseteq failed'
    BY <1>3, Kept
  <2>3. r.pc \notin Tolerant \cup {"idle"}
    BY <1>1 DEF Tolerant
  <2> QED
    BY <2>1, <2>2, <2>3, ThrowStep
<1>5. CASE Stored(r.mail)
  <2>1. /\ task' = [task EXCEPT ![h] = q] /\ deliveries' = deliveries \cup {new}
        /\ message' = message
    BY <1>5 DEF RecordDelivery
  <2>2. pc \in {"audit", "put"} /\ left \in SUBSET Users
    BY <1>1 DEF Task
  <2>3. /\ q \in Task /\ q.pc = pc /\ q.op = r.op /\ q.user = None /\ q.mail = None
        /\ q.todo = left /\ q.sent = r.sent /\ q.list = r.list /\ q.phase = r.phase
    <3>1. pc \in PCs
      BY <2>2 DEF PCs
    <3> HIDE DEF pc, left, r
    <3> QED
      BY <1>1, <2>2, <3>1 DEF Task
  <2>4. new \in Delivery /\ new.mail = r.mail /\ new.recalled = FALSE
    BY <1>2 DEF Delivery
  <2> HIDE DEF q, new, pc, left
  <2>5. Placed(q)
    <3>1. q.pc \in PlacesOf(q.op) /\ q.pc \in Trying
      BY <1>1, <2>2, <2>3 DEF PlacesOf, Trying
    <3> QED
      BY <1>1, <2>2, <2>3, <3>1 DEF Placed
  <2>6. /\ MailType' /\ task'[h] = q
        /\ \A g \in Handlers : g /= h => task'[g] = task[g]
    <3>1. /\ deliveries' \subseteq Delivery /\ message' \in Message
          /\ rows' \in [Mails -> Row \cup {None}]
          /\ gone' \subseteq Users /\ strays' \subseteq Mails
          /\ objects' \subseteq Objects /\ failed' \subseteq FaultKinds
      BY <1>3, <2>1, <2>4, Kept
    <3>2. MailType
      BY DEF MailInv
    <3> QED
      BY <2>1, <2>5, <3>1, <3>2, TypeStep
  <2>7. \A n \in Mails : /\ Stored(n)' <=> Stored(n)
                         /\ Internal(n)' <=> Internal(n)
                         /\ Delivered(n) => Delivered(n)'
    BY <1>3, <2>1 DEF Internal, Stored, Delivered
  <2>8. \E d \in deliveries' : d.mail = r.mail
    BY <2>1, <2>4
  <2>9. OneMessage'
    <3>1. task'[h].op \in {task[h].op, "none"}
      BY <2>3, <2>6
    <3> QED
      BY <2>1, <2>6, <2>7, <3>1, OneMessageStep
  <2>10. DeliveredStored'
    <3>1. \A d \in deliveries' : d.mail /= None => Stored(d.mail)
      BY <1>5, <2>1, <2>4 DEF MailInv, DeliveredStored
    <3> QED
      BY <1>3, <3>1 DEF DeliveredStored, Stored
  <2>11. CopiesFound'
    <3>1. ASSUME NEW m \in Mails, Remembered(r, m), Delivered(m) \/ AtHand(r, m)
          PROVE  Remembered(q, m) /\ Delivered(m)'
      <4>1. Remembered(q, m)
        BY <1>1, <2>3, <3>1 DEF Remembered
      <4>2. AtHand(r, m) => m = r.mail
        BY <1>1 DEF AtHand
      <4>3. CASE m = r.mail
        BY <2>8, <4>1, <4>3 DEF Delivered
      <4>4. CASE m /= r.mail
        BY <2>7, <3>1, <4>1, <4>2, <4>4
      <4> QED
        BY <4>3, <4>4
    <3>2. Sends(h) /\ failed \subseteq failed' /\ (message.abandoned => message'.abandoned)
      BY <1>1, <1>3, <2>1 DEF Sends
    <3>3. \A m \in Mails :
             Internal(m)' /\ Remembered(task[h], m) /\ (Delivered(m) \/ AtHand(task[h], m))
               => /\ task'[h].op = "send" => Remembered(task'[h], m)
                  /\ Delivered(m)' \/ AtHand(task'[h], m)
      BY <2>6, <3>1
    <3> QED
      BY <2>6, <2>7, <3>2, <3>3, CopiesStep
  <2>12. RecallKnows'
    <3>1. Sends(h) /\ task'[h].op \notin {"recall", "remove"}
      BY <1>1, <2>3, <2>6 DEF Sends
    <3> QED
      BY <2>1, <2>6, <3>1, RecallStep
  <2>13. RecallComplete'
    BY <2>1, <2>4 DEF MailInv, RecallComplete
  <2>14. RoomCounted'
    <3>1. \A v \in Users : External(v)' = External(v)
      BY <1>3 DEF External, MailsOf, Stored
    <3>2. \A v \in Users : ~Arriving(task'[h], v)
      BY <1>1, <2>3, <2>6 DEF Arriving
    <3> QED
      BY <2>6, <3>1, <3>2, RoomStep
  <2> QED
    BY <2>6, <2>9, <2>10, <2>11, <2>12, <2>13, <2>14, Together
<1> QED
  BY <1>4, <1>5

\* When its catch blocks delete the message, sendMail has deleted every copy.
LEMMA DropMessageStep ==
  ASSUME MailInv, NEW h \in Handlers, NEW works \in BOOLEAN, DropMessage(h, works),
         failed \subseteq failed', failed' \subseteq FaultKinds
  PROVE  MailInv'
<1> DEFINE r == task[h]
           q == IF r.phase = "inner" THEN Catch(r, "outer") ELSE Idle
<1>1. Placed(r) /\ r \in Task /\ r.op = "send" /\ r.pc = "dropMessage"
  BY Kept, OpOf DEF DropMessage, Placed
<1>2. r.phase /= "try" /\ r.list = {}
  BY <1>1 DEF Placed, Trying
<1>3. /\ task' = [task EXCEPT ![h] = q]
      /\ UNCHANGED <<objects, rows, gone, strays>>
  BY DEF DropMessage
<1>4. Placed(q) /\ q.op \in {"send", "none"}
  <2>1. LET c == Catch(r, "outer") IN Placed(c) /\ c.op = "send"
    BY <1>1, CatchEffect
  <2> QED
    BY <2>1, IdlePlaced
<1> HIDE DEF q
<1>5. \A m \in Mails : ~Remembered(r, m)
  BY <1>2 DEF Remembered
<1>6. Sends(h)
  BY <1>1 DEF Sends
<1>7. \A v \in Users : ~Arriving(q, v)
  BY <1>4 DEF Arriving
<1>8. objects' \subseteq Objects /\ q.op \in {r.op, "none"} /\ q.op \notin {"recall", "remove"}
  BY <1>1, <1>3, <1>4, Kept
<1>9. CASE UNCHANGED <<message, deliveries>>
  <2>1. message' \in Message
    BY <1>9, Kept
  <2>2. \A m \in Mails :
             Internal(m) /\ Remembered(task[h], m) /\ (Delivered(m) \/ AtHand(task[h], m))
               => /\ q.op = "send" => Remembered(q, m)
                  /\ Delivered(m) \/ AtHand(q, m)
    BY <1>5
  <2> QED
    BY <1>3, <1>4, <1>7, <1>8, <1>9, <2>1, <2>2, QuietStep
<1>10. CASE ~UNCHANGED <<message, deliveries>>
  <2>1. /\ message' = [message EXCEPT !.state = "dropped", !.shared = FALSE]
        /\ deliveries' = {}
    BY <1>10 DEF DropMessage
  <2>2. /\ message' \in Message /\ message'.state = "dropped"
        /\ UNCHANGED <<message.abandoned, message.overlapped>>
    BY <2>1, Kept DEF Message
  <2>3. /\ MailType' /\ task'[h] = q
        /\ \A g \in Handlers : g /= h => task'[g] = task[g]
    <3>1. /\ deliveries' \subseteq Delivery
          /\ rows' \in [Mails -> Row \cup {None}]
          /\ gone' \subseteq Users /\ strays' \subseteq Mails
      BY <1>3, <2>1, Kept
    <3>2. MailType
      BY DEF MailInv
    <3> QED
      BY <1>3, <1>4, <1>8, <2>2, <3>1, <3>2, TypeStep
  <2>4. \A n \in Mails : Internal(n)' <=> Internal(n)
    BY <1>3 DEF Internal, Stored
  <2>5. OneMessage'
    BY <1>8, <2>2, <2>3, <2>4, OneMessageStep
  <2>6. DeliveredStored' /\ RecallComplete'
    BY <2>1 DEF DeliveredStored, RecallComplete
  <2>7. CopiesFound'
    <3>1. ASSUME "crash" \notin failed', ~message'.abandoned, NEW m \in Mails, Internal(m)'
          PROVE  FALSE
      <4>1. Internal(m) /\ "crash" \notin failed /\ ~message.abandoned
        BY <2>2, <2>4, <3>1
      <4>2. Remembered(r, m)
        BY <1>6, <4>1 DEF MailInv, CopiesFound
      <4> QED
        BY <1>5, <4>2
    <3> QED
      BY <3>1 DEF CopiesFound
  <2>8. RecallKnows'
    BY <1>6, <1>8, <2>2, <2>3, RecallStep
  <2>9. RoomCounted'
    <3>1. \A v \in Users : External(v)' = External(v)
      BY <1>3 DEF External, MailsOf, Stored
    <3> QED
      BY <1>7, <2>3, <3>1, RoomStep
  <2> QED
    BY <2>3, <2>5, <2>6, <2>7, <2>8, <2>9, Together
<1> QED
  BY <1>9, <1>10

\* Rows go, and deliveries lose their mails.
LEMMA DropStep ==
  ASSUME MailInv, NEW h \in Handlers, NEW q, Placed(q), task' = [task EXCEPT ![h] = q],
         NEW out \in SUBSET Mails,
         rows' = [m \in Mails |-> IF m \in out THEN None ELSE rows[m]],
         deliveries' = Detached(out),
         UNCHANGED <<objects, message, failed>>,
         gone' \subseteq Users, strays' \subseteq Mails,
         q.op \in {task[h].op, "none"}, q.op /= "inbound",
         Sends(h) => \A m \in Mails \ out :
           Remembered(task[h], m) => Remembered(q, m) /\ AtHand(q, m),
         q.op \in {"recall", "remove"} =>
           /\ task[h].pc \in Looping
           /\ \A m \in task[h].list : m \in out \cup q.list
           /\ q.pc \in {"markRecalled", "markDeleted"} => q.list = {}
  PROVE  MailInv'
<1> DEFINE new(d) == [d EXCEPT !.mail = IF d.mail \in out THEN None ELSE d.mail]
<1>1. \A d \in deliveries :
        /\ new(d) \in Delivery /\ new(d).recalled = d.recalled
        /\ new(d).mail = IF d.mail \in out THEN None ELSE d.mail
  BY Kept DEF Delivery
<1>2. deliveries' = {new(d) : d \in deliveries}
  BY DEF Detached
<1> HIDE DEF new
<1>3. /\ rows' \in [Mails -> Row \cup {None}]
      /\ \A m \in Mails : rows'[m] = IF m \in out THEN None ELSE rows[m]
  BY Kept
<1>4. /\ MailType' /\ task'[h] = q
      /\ \A g \in Handlers : g /= h => task'[g] = task[g]
  <2>1. /\ deliveries' \subseteq Delivery /\ message' \in Message
        /\ objects' \subseteq Objects /\ failed' \subseteq FaultKinds
    BY <1>1, <1>2, Kept
  <2>2. MailType
    BY DEF MailInv
  <2> QED
    BY <1>3, <2>1, <2>2, TypeStep
<1>5. \A m \in Mails : /\ Stored(m)' <=> Stored(m) /\ m \notin out
                       /\ Internal(m)' => Internal(m) /\ m \notin out
  BY <1>3 DEF Internal, Stored
<1>6. \A m \in Mails \ out : Delivered(m) => Delivered(m)'
  BY <1>1, <1>2 DEF Delivered
<1>7. \A d \in deliveries' : \E c \in deliveries :
        /\ d.recalled = c.recalled
        /\ d.mail = None \/ (d.mail = c.mail /\ c.mail \notin out)
  BY <1>1, <1>2
<1>8. OneMessage'
  BY <1>4, <1>5, OneMessageStep
<1>9. DeliveredStored'
  <2>1. \A d \in deliveries : d.mail \in Mails \cup {None}
    BY Kept DEF Delivery
  <2>2. \A d \in deliveries' : d.mail /= None => d.mail \in Mails \ out /\ Stored(d.mail)
    BY <1>7, <2>1 DEF MailInv, DeliveredStored
  <2>3. \A m \in Mails \ out : Stored(m) => rows'[m] /= None
    BY <1>3 DEF Stored
  <2> QED
    BY <2>2, <2>3 DEF DeliveredStored, Stored
<1>10. CopiesFound'
  <2>1. q.op = "send" => Sends(h)
    BY DEF Sends
  <2>2. \A m \in Mails : Internal(m)' /\ Delivered(m) => Delivered(m)'
    BY <1>5, <1>6
  <2>3. Sends(h) =>
          \A m \in Mails :
             Internal(m)' /\ Remembered(task[h], m) /\ (Delivered(m) \/ AtHand(task[h], m))
               => /\ task'[h].op = "send" => Remembered(task'[h], m)
                  /\ Delivered(m)' \/ AtHand(task'[h], m)
    BY <1>4, <1>5
  <2> QED
    BY <1>4, <1>5, <2>1, <2>2, <2>3, CopiesStep
<1>11. RecallKnows'
  <2>1. ASSUME ~message'.overlapped, q.op \in {"recall", "remove"}
        PROVE  /\ \A g \in Handlers : ~Sends(g)
               /\ q.pc \in Looping => \A d \in deliveries' : d.mail \in q.list \cup {None}
               /\ q.pc \in {"markRecalled", "markDeleted"} => \A d \in deliveries' : d.mail = None
    <3>1. task[h].op \in {"recall", "remove"} /\ task[h].pc \in Looping
      BY <2>1
    <3>2. /\ \A g \in Handlers : ~Sends(g)
          /\ \A d \in deliveries : d.mail \in task[h].list \cup {None}
      BY <2>1, <3>1 DEF MailInv, RecallKnows, Recalls
    <3>3. \A d \in deliveries' : d.mail \in q.list \cup {None}
      BY <1>7, <2>1, <3>2
    <3> QED
      BY <2>1, <3>2, <3>3
  <2>2. \A d \in deliveries' : d.mail = None \/ Delivered(d.mail)
    BY <1>7 DEF Delivered
  <2>3. q.op = "send" => Sends(h)
    BY DEF Sends
  <2> QED
    BY <1>4, <2>1, <2>2, <2>3, RecallStep
<1>12. RecallComplete'
  BY <1>7 DEF MailInv, RecallComplete
<1>13. RoomCounted'
  <2>1. \A v \in Users : External(v)' \subseteq External(v)
    BY <1>3 DEF External, MailsOf, Stored
  <2>2. \A v \in Users : ~Arriving(task'[h], v)
    BY <1>4 DEF Arriving
  <2> QED
    BY <1>4, <2>1, <2>2, RoomStep
<1> QED
  BY <1>4, <1>8, <1>9, <1>10, <1>11, <1>12, <1>13, Together

LEMMA DropMailStep ==
  ASSUME MailInv, NEW h \in Handlers, DropMail(h)
  PROVE  MailInv'
<1> DEFINE r == task[h]
           m == r.mail
           s == [r EXCEPT !.list = r.list \ {m}]
           q == Loop(s)
<1>1. /\ Placed(r) /\ r \in Task /\ r.op \in {"send", "recall", "remove", "delete"}
      /\ r.pc = "drop" /\ r.pc \in Looping
  BY Kept, OpOf DEF DropMail, Looping, Placed
<1>2. /\ r.op = "send" <=> r.phase \in {"inner", "outer"}
      /\ r.op /= "send" => r.phase = "try" /\ r.sent = {}
      /\ m \in r.list /\ r.list \in SUBSET Mails
  BY <1>1 DEF Placed, Task, Trying
<1>3. UNCHANGED <<objects, gone, strays, failed>>
  BY DEF DropMail
<1>4. CASE ~Stored(m)
  <2>1. Throw(h) /\ UNCHANGED Rest
    BY <1>3, <1>4 DEF DropMail, Rest
  <2>2. objects' \subseteq Objects /\ failed' \subseteq FaultKinds /\ failed \subseteq failed'
    BY <1>3, Kept
  <2>3. r.pc \notin Tolerant \cup {"idle"}
    BY <1>1 DEF Tolerant
  <2> QED
    BY <2>1, <2>2, <2>3, ThrowStep
<1>5. CASE Stored(m)
  <2>1. /\ rows' = [rows EXCEPT ![m] = None] /\ deliveries' = Detached({m})
        /\ task' = [task EXCEPT ![h] = q] /\ message' = message
    BY <1>5 DEF DropMail
  <2>2. rows' = [n \in Mails |-> IF n \in {m} THEN None ELSE rows[n]]
    BY <2>1, Kept
  <2>3. /\ s \in Task /\ s.op = r.op /\ s.sent = r.sent /\ s.list = r.list \ {m}
        /\ s.phase = r.phase
    <3>1. r.list \ {m} \in SUBSET Mails
      BY <1>2
    <3> HIDE DEF r, m
    <3> QED
      BY <1>1, <3>1 DEF Task
  <2> HIDE DEF s
  <2>4. /\ Placed(q)
        /\ \/ q = Idle /\ r.op = "delete"
           \/ /\ q.op = r.op /\ q.sent = r.sent /\ q.list = r.list \ {m} /\ q.phase = r.phase
              /\ q.list /= {} => q.pc = "find"
    <3>1. /\ s.op \in {"send", "recall", "remove", "delete"}
          /\ s.op = "send" <=> s.phase \in {"inner", "outer"}
          /\ s.op /= "send" => s.sent = {}
      BY <1>1, <1>2, <2>3
    <3> QED
      BY <2>3, <3>1, LoopEffect
  <2> HIDE DEF q
  <2>5. q.op \in {r.op, "none"} /\ q.op /= "inbound"
    BY <1>1, <2>4, IdlePlaced
  <2>6. ASSUME Sends(h), NEW n \in Mails \ {m}, Remembered(r, n)
        PROVE  Remembered(q, n) /\ AtHand(q, n)
    <3>1. r.op = "send" /\ r.phase /= "try"
      BY <1>2, <2>6 DEF Sends
    <3>2. q.op = "send" /\ q.sent = r.sent /\ q.list = r.list \ {m} /\ q.phase /= "try"
      BY <2>4, <3>1
    <3>3. n \in r.sent /\ n \in r.list /\ n /= m
      BY <2>6, <3>1 DEF Remembered
    <3> QED
      BY <3>2, <3>3 DEF Remembered, AtHand
  <2>7. q.op \in {"recall", "remove"} =>
           /\ r.pc \in Looping
           /\ \A n \in r.list : n \in {m} \cup q.list
           /\ q.pc \in {"markRecalled", "markDeleted"} => q.list = {}
    BY <1>1, <2>4, IdlePlaced
  <2>8. gone' \subseteq Users /\ strays' \subseteq Mails /\ {m} \in SUBSET Mails
    BY <1>2, <1>3, Kept
  <2> QED
    BY <1>3, <2>1, <2>2, <2>4, <2>5, <2>6, <2>7, <2>8, DropStep
<1> QED
  BY <1>4, <1>5

LEMMA DropAllStep ==
  ASSUME MailInv, NEW h \in Handlers, DropAll(h)
  PROVE  MailInv'
<1> DEFINE r == task[h]
           out == IF r.op = "bulk" THEN r.list ELSE MailsOf(r.user)
<1>1. Placed(r) /\ r \in Task /\ r.op \in {"bulk", "clear", "close"}
  BY Kept, OpOf DEF DropAll, Placed
<1>2. r.user \in Users
  BY <1>1 DEF DropAll, Placed
<1>3. out \in SUBSET Mails
  BY <1>1 DEF Task, MailsOf
<1>4. /\ rows' = [m \in Mails |-> IF m \in out THEN None ELSE rows[m]]
      /\ deliveries' = Detached(out)
      /\ strays' = strays \cup (out \ r.list)
      /\ gone' = gone \cup (IF r.op = "close" THEN {r.user} ELSE {})
      /\ task' = [task EXCEPT ![h] = Idle]
      /\ UNCHANGED <<objects, message, failed>>
  BY DEF DropAll, Finish
<1> HIDE DEF out
<1>5. gone' \subseteq Users /\ strays' \subseteq Mails
  BY <1>2, <1>3, <1>4, Kept
<1>6. ~Sends(h) /\ Idle.op = "none" /\ Placed(Idle)
  BY <1>1, IdlePlaced DEF Sends
<1> QED
  BY <1>3, <1>4, <1>5, <1>6, DropStep

\* What is marked as recalled has lost its copies.
LEMMA MarkMessageStep ==
  ASSUME MailInv, NEW h \in Handlers, MarkMessage(h)
  PROVE  MailInv'
<1> DEFINE r == task[h]
<1>1. /\ Placed(r) /\ r \in Task /\ r.op \in {"recall", "remove"}
      /\ r.pc \in {"markRecalled", "markDeleted", "hide"}
  BY Kept, OpOf DEF MarkMessage, Placed
<1>2. ~Sends(h) /\ Recalls(h)
  BY <1>1 DEF Sends, Recalls
<1>3. UNCHANGED <<objects, rows, gone, strays, failed>>
  BY DEF MarkMessage
<1>4. objects' \subseteq Objects /\ failed' \subseteq FaultKinds
  BY <1>3, Kept
<1>5. CASE message.state /= "stored"
  <2>1. Finish(h) /\ UNCHANGED message /\ UNCHANGED Rest
    BY <1>3, <1>5 DEF MarkMessage, Rest
  <2>2. message' \in Message
    BY <2>1, Kept
  <2> QED
    BY <1>2, <1>3, <1>4, <2>1, <2>2, FinishStep
<1>6. CASE message.state = "stored"
  <2> DEFINE marks == r.pc /= "hide"
             new(d) == [d EXCEPT !.recalled = d.recalled \/ marks]
             q == IF r.op = "remove" THEN [r EXCEPT !.pc = "findShared"] ELSE Idle
  <2>1. /\ message' = [message EXCEPT !.recalled = TRUE,
                          !.deleted = message.deleted \/ r.op = "remove"]
        /\ deliveries' = {new(d) : d \in deliveries}
        /\ task' = [task EXCEPT ![h] = q]
    BY <1>6 DEF MarkMessage, Goto, Finish
  <2>2. /\ message' \in Message
        /\ UNCHANGED <<message.abandoned, message.overlapped, message.state>>
    BY <2>1, Kept DEF Message
  <2>3. \A d \in deliveries :
          /\ new(d) \in Delivery /\ new(d).mail = d.mail
          /\ new(d).recalled = (d.recalled \/ marks)
    BY Kept DEF Delivery
  <2> HIDE DEF new
  <2>4. Placed(q) /\ q.op \in {r.op, "none"} /\ q.pc \in {"findShared", "idle"}
    <3>1. CASE r.op = "remove"
      <4> DEFINE p == [r EXCEPT !.pc = "findShared"]
      <4>1. "findShared" \in PCs \ {"idle", "record"} /\ "findShared" \in PlacesOf(r.op)
        BY <3>1 DEF PCs, PlacesOf
      <4>2. Placed(p) /\ p.pc = "findShared" /\ p.op = r.op
        <5> HIDE DEF r
        <5> QED
          BY <1>1, <3>1, <4>1, GotoPlaced
      <4> QED
        BY <3>1, <4>2
    <3>2. CASE r.op /= "remove"
      BY <3>2, IdlePlaced
    <3> QED
      BY <3>1, <3>2
  <2> HIDE DEF q
  <2>5. /\ MailType' /\ task'[h] = q
        /\ \A g \in Handlers : g /= h => task'[g] = task[g]
    <3>1. /\ deliveries' \subseteq Delivery
          /\ rows' \in [Mails -> Row \cup {None}]
          /\ gone' \subseteq Users /\ strays' \subseteq Mails
      BY <1>3, <2>1, <2>3, Kept
    <3>2. MailType
      BY DEF MailInv
    <3> QED
      BY <1>4, <2>1, <2>2, <2>4, <3>1, <3>2, TypeStep
  <2>6. /\ \A n \in Mails : /\ Internal(n)' <=> Internal(n)
                            /\ Delivered(n)' <=> Delivered(n)
        /\ \A d \in deliveries' : \E c \in deliveries : d.mail = c.mail
    BY <1>3, <2>1, <2>3 DEF Internal, Stored, Delivered
  <2>7. OneMessage'
    BY <2>2, <2>4, <2>5, <2>6, OneMessageStep
  <2>8. DeliveredStored'
    BY <1>3, <2>6 DEF MailInv, DeliveredStored, Stored
  <2>9. q.op /= "send" /\ q.op /= "inbound"
    BY <1>1, <2>4
  <2>10. CopiesFound'
    BY <1>2, <1>3, <2>2, <2>5, <2>6, <2>9, CopiesStep
  <2>11. RecallKnows'
    <3>1. ~message'.overlapped => \A g \in Handlers : ~Sends(g)
      BY <1>2, <2>2 DEF MailInv, RecallKnows
    <3>2. q.pc \notin Looping \cup {"markRecalled", "markDeleted"}
      BY <2>4 DEF Looping
    <3>3. \A d \in deliveries' : d.mail = None \/ Delivered(d.mail)
      BY <2>6 DEF Delivered
    <3> QED
      BY <2>2, <2>5, <2>9, <3>1, <3>2, <3>3, RecallStep
  <2>12. RecallComplete'
    <3> SUFFICES ASSUME ~message.overlapped, NEW d \in deliveries, new(d).recalled
                 PROVE  new(d).mail = None
      BY <2>1, <2>2 DEF RecallComplete
    <3>1. CASE marks
      <4>1. r.pc \in {"markRecalled", "markDeleted"}
        BY <1>1, <3>1
      <4>2. d.mail = None
        BY <1>2, <4>1 DEF MailInv, RecallKnows
      <4> QED
        BY <2>3, <4>2
    <3>2. CASE ~marks
      BY <2>3, <3>2 DEF MailInv, RecallComplete
    <3> QED
      BY <3>1, <3>2
  <2>13. RoomCounted'
    <3>1. \A v \in Users : External(v)' = External(v)
      BY <1>3 DEF External, MailsOf, Stored
    <3>2. \A v \in Users : ~Arriving(task'[h], v)
      BY <2>5, <2>9 DEF Arriving
    <3> QED
      BY <2>5, <3>1, <3>2, RoomStep
  <2> QED
    BY <2>5, <2>7, <2>8, <2>10, <2>11, <2>12, <2>13, Together
<1> QED
  BY <1>5, <1>6

-----------------------------------------------------------------------------
(* The theorems                                                            *)

LEMMA MailInitially == Init => MailInv
<1> SUFFICES ASSUME Init PROVE MailInv
  OBVIOUS
<1>1. MailType
  BY IdlePlaced DEF Init, MailType, Message, NoMessage
<1>2. \A h \in Handlers : task[h] = Idle /\ task[h].op = "none"
  BY IdlePlaced DEF Init
<1>3. \A m \in Mails : ~Stored(m)
  BY DEF Init, Stored
<1>4. OneMessage /\ CopiesFound /\ RecallKnows
  BY <1>2, <1>3 DEF OneMessage, CopiesFound, RecallKnows, Sends, Recalls, Internal
<1>5. DeliveredStored /\ RecallComplete
  BY DEF Init, DeliveredStored, RecallComplete
<1>6. RoomCounted
  <2> SUFFICES ASSUME NEW u \in Users
               PROVE  Cardinality(External(u)) + Cardinality(Pending(u))
                        <= Quota + Cardinality(Handlers) - 1
    BY DEF RoomCounted
  <2>1. External(u) = {} /\ Pending(u) = {}
    BY <1>2, <1>3 DEF External, MailsOf, Pending, Arriving
  <2>2. Cardinality(External(u)) = 0 /\ Cardinality(Pending(u)) = 0
    BY <2>1, FS_EmptySet
  <2> QED
    BY <2>2, Counts, MailAssumption
<1> QED
  BY <1>1, <1>4, <1>5, <1>6 DEF MailInv

\* Every step keeps the invariant.
LEMMA MailNext == MailInv /\ [Next]_vars => MailInv'
<1> SUFFICES ASSUME MailInv, [Next]_vars
             PROVE  MailInv'
  OBVIOUS
<1>1. CASE UNCHANGED vars
  <2>1. MailType'
    BY <1>1 DEF vars, MailInv, MailType, Placed
  <2>2. OneMessage' /\ DeliveredStored' /\ CopiesFound'
    BY <1>1 DEF vars, MailInv, OneMessage, DeliveredStored, CopiesFound, Sends, Recalls,
                Internal, Stored, Delivered, AtHand, Remembered
  <2>3. RecallKnows' /\ RecallComplete'
    BY <1>1 DEF vars, MailInv, RecallKnows, RecallComplete, Sends, Recalls
  <2>4. RoomCounted'
    <3>1. \A u \in Users : External(u)' = External(u) /\ Pending(u)' = Pending(u)
      BY <1>1 DEF vars, External, MailsOf, Stored, Pending, Arriving
    <3> QED
      BY <3>1 DEF MailInv, RoomCounted
  <2> QED
    BY <2>1, <2>2, <2>3, <2>4, Together
<1>2. ASSUME NEW h \in Handlers, Arrive(h)
      PROVE  MailInv'
  BY <1>2, SendMailStep, RecallCallStep, RemoveMessageStep, FetchSharedStep, DeleteMailStep,
     BulkDeleteStep, PurgeStep, IncomingMailStep DEF Arrive
<1>3. ASSUME NEW h \in Handlers, Succeed(h)
      PROVE  MailInv'
  <2>1. failed \subseteq failed' /\ failed' \subseteq FaultKinds
    BY <1>3, Kept DEF Succeed
  <2> QED
    BY <1>3, <2>1, DropMessageStep, UnstoreStep, EraseMailStep, EraseAllStep DEF Succeed
<1>4. ASSUME NEW h \in Handlers, FailTolerated(h)
      PROVE  MailInv'
  <2>1. failed \subseteq failed' /\ failed' \subseteq FaultKinds
    BY <1>4, Kept DEF FailTolerated, Happens, FaultKinds
  <2> QED
    BY <1>4, <2>1, DropMessageStep, UnstoreStep, EraseMailStep, EraseAllStep
       DEF FailTolerated
<1>5. ASSUME NEW h \in Handlers, Proceed(h)
      PROVE  MailInv'
  <2>1. CASE CreateMail(h)
    BY <2>1, CreateIncoming, CreateCopy
  <2>2. CASE ~CreateMail(h)
    BY <1>3, <1>5, <2>2, StoreSharedStep, CreateMessageStep, PutBodyStep, PutAttachmentStep,
       RecordDeliveryStep, AuditStep, FindMailStep, DropMailStep, ListCopiesStep,
       MarkMessageStep, FindSharedStep, FetchStep, ForgetStep, DropAllStep, CheckQuotaStep
       DEF Proceed
  <2> QED
    BY <2>1, <2>2
<1>6. CASE Next
  BY <1>2, <1>4, <1>5, <1>6, FailStep, DieStep DEF Next
<1> QED
  BY <1>1, <1>6

LEMMA MailInvariant == Spec => []MailInv
<1>1. Init => MailInv
  BY MailInitially
<1>2. MailInv /\ [Next]_vars => MailInv'
  BY MailNext
<1> QED
  BY <1>1, <1>2, PTL DEF Spec

\* Every value the handlers and the stores hold has its type.
THEOREM TypeCorrect == Spec => []TypeOK
<1>1. MailInv => TypeOK
  BY DEF MailInv, MailType, TypeOK, Placed
<1> QED
  BY <1>1, MailInvariant, PTL

\* Whatever fails or overlaps, sendMail leaves no copy in an inbox that
\* recallDeliveredInboxCopies would not find by its delivery, except after a crash or
\* when its outer catch block is cut short.
THEOREM CopiesAreRecallable == Spec => []CopiesRecallable
<1>1. MailInv => CopiesRecallable
  <2> SUFFICES ASSUME MailInv, ~Sending, "crash" \notin failed, ~message.abandoned,
                      NEW m \in Mails, Internal(m)
               PROVE  \E d \in deliveries : d.mail = m
    BY DEF CopiesRecallable, Internal
  <2>1. Delivered(m) \/ \E h \in Handlers : AtHand(task[h], m)
    BY DEF MailInv, CopiesFound
  <2>2. \A h \in Handlers : ~AtHand(task[h], m)
    BY DEF Sending, AtHand
  <2> QED
    BY <2>1, <2>2 DEF Delivered
<1> QED
  BY <1>1, MailInvariant, PTL

\* A delivery that recallMail or deleteMail has marked as recalled has no copy left,
\* unless the recall began before sendMail was done.
THEOREM RecallsAreComplete == Spec => []RecallComplete
<1>1. MailInv => RecallComplete
  BY DEF MailInv
<1> QED
  BY <1>1, MailInvariant, PTL

\* Mails that pass getUserMailStorageUsed together exceed the quota by one mail for
\* each other handler at the most.
THEOREM OverrunIsBounded == Spec => []OverrunBounded
<1>1. MailInv => OverrunBounded
  <2> SUFFICES ASSUME MailInv, NEW u \in Users
               PROVE  Cardinality(External(u)) <= Quota + Cardinality(Handlers) - 1
    BY DEF OverrunBounded, External
  <2>1. Cardinality(External(u)) + Cardinality(Pending(u)) <= Quota + Cardinality(Handlers) - 1
    BY DEF MailInv, RoomCounted
  <2> QED
    BY <2>1, Counts, MailAssumption
<1> QED
  BY <1>1, MailInvariant, PTL

-----------------------------------------------------------------------------
(* Mails and their objects, without failures: a second inductive invariant, *)
(* beside MailInv                                                          *)

\* A handler that is storing a mail, and one that has deleted its objects.
Making(r) == r.pc \in {"putAttachment", "create"}
Erased(r, m) == (r.pc = "drop" /\ r.mail = m) \/ (r.pc = "dropAll" /\ m \in r.list)
Opens(m) ==
  /\ <<m, "body">> \in objects
  /\ rows[m].kind = "external" => <<m, "attachment">> \in objects

\* Nobody knows of a mail before its row is there.
Alone(h) == LET m == task[h].mail IN
  /\ ~Stored(m) /\ <<m, "body">> \in objects
  /\ task[h].pc = "create" /\ task[h].op = "inbound" => <<m, "attachment">> \in objects
  /\ \A g \in Handlers : /\ g /= h => task[g].mail /= m
                         /\ m \notin task[g].list \cup task[g].sent

\* Whose an object is, where the objects of a row are, and what the handlers know:
\* who is past its deletion in S3 has left nothing, who stores a mail is alone with
\* it, and a purge has the mails of its own user on the list.
MailsFound ==
  /\ \A m \in Mails : objects \cap Parts(m) /= {} =>
       \/ Stored(m) \/ m \in strays
       \/ \E h \in Handlers : Making(task[h]) /\ task[h].mail = m
  /\ \A m \in Mails : Stored(m) => Opens(m) \/ \E h \in Handlers : Erased(task[h], m)
  /\ \A h \in Handlers :
       /\ \A m \in Mails : Erased(task[h], m) => objects \cap Parts(m) = {}
       /\ Making(task[h]) => Alone(h)
       /\ task[h].op \in {"clear", "close"} =>
            \A m \in task[h].list : Stored(m) => rows[m].user = task[h].user

\* What the places of handlers say of the message: the attachment is there once
\* sendMail has stored it, only the sender knows of a draft, and the second catch
\* block of sendMail, after the first has dropped the message, finds no copy left.
Sent == {"stored", "dropped"}
Fits(r) ==
  /\ r.pc \in {"storeShared", "createMessage"} => message.state = "draft"
  /\ r.pc = "storeShared" => message.attached
  /\ r.pc = "createMessage" /\ message.attached => Shared \in objects
  /\ r.op = "send" /\ r.pc \notin {"storeShared", "createMessage"} => message.state \in Sent
  /\ r.op \in {"recall", "remove", "fetch"} => message.state \in Sent
  /\ r.pc = "forget" => Shared \notin objects
  /\ r.op = "remove" /\ r.pc \in {"findShared", "unstore"} => message.deleted
  /\ r.op = "send" => r.list \subseteq r.sent
  /\ r.phase = "inner" => \A m \in r.sent : m \in r.list \/ ~Stored(m)
  /\ r.op = "send" /\ message.state = "dropped" =>
       /\ r.phase = "outer" /\ r.pc \notin {"erase", "drop"}
       /\ \A m \in r.sent : ~Stored(m)
  /\ r.phase = "outer" /\ r.pc = "dropMessage" => Shared \notin objects

\* In which state of the message who answers for the attachment.
MessageFound ==
  /\ \A h \in Handlers : Fits(task[h])
  /\ message.deleted => message.state \in Sent
  /\ Shared \in objects => message.attached /\ message.state /= "none"
  /\ message.state = "stored" /\ Shared \in objects => message.shared
  /\ message.state = "draft" =>
       \E h \in Handlers : task[h].pc \in {"storeShared", "createMessage"}
  /\ message.state = "dropped" /\ Shared \in objects =>
       \E h \in Handlers : task[h].phase = "outer" /\ task[h].pc /= "dropMessage"
  /\ message.state = "stored" /\ message.deleted /\ Shared \in objects =>
       \E h \in Handlers : task[h].op = "remove" /\ task[h].pc \in {"findShared", "unstore"}
  /\ message.state = "stored" /\ message.shared /\ ~message.deleted =>
       \/ Shared \in objects
       \/ \E h \in Handlers : task[h].phase = "outer" /\ task[h].pc = "dropMessage"

WholeInv == failed = {} => MailsFound /\ MessageFound

-----------------------------------------------------------------------------
(* What becomes of a handler                                               *)

\* Only h moves.
Moves(h) == \A g \in Handlers : g /= h => task'[g] = task[g]

\* What Goto, Finish, Throw and Begin leave of the handler.
LEMMA GotoQ ==
  ASSUME MailInv, NEW h \in Handlers, NEW next \in PCs, Goto(h, next)
  PROVE  LET r == task[h]
             q == task'[h] IN
         /\ Moves(h) /\ q.pc = next /\ q.op = r.op /\ q.user = r.user /\ q.mail = r.mail
         /\ q.sent = r.sent /\ q.list = r.list /\ q.phase = r.phase
<1>1. task \in [Handlers -> Task] /\ task[h] \in Task
  BY DEF MailInv, MailType
<1> DEFINE p == [task[h] EXCEPT !.pc = next]
<1>2. task' = [task EXCEPT ![h] = p]
  BY DEF Goto
<1>3. task'[h] = p /\ Moves(h)
  <2> HIDE DEF p
  <2> QED
    BY <1>1, <1>2 DEF Moves
<1>4. /\ p \in Task /\ p.pc = next /\ p.op = task[h].op /\ p.user = task[h].user
      /\ p.mail = task[h].mail
      /\ p.todo = task[h].todo /\ p.sent = task[h].sent /\ p.list = task[h].list
      /\ p.phase = task[h].phase
  BY <1>1, PlaceSet
<1> QED
  BY <1>3, <1>4

LEMMA FinishQ ==
  ASSUME MailInv, NEW h \in Handlers, Finish(h)
  PROVE  Moves(h) /\ task'[h] = Idle
BY DEF MailInv, MailType, Finish, Moves

\* A loop over the mails on a list: where it stands.
Stands(q, list) ==
  /\ q.mail = None /\ q.list = list
  /\ IF list /= {} THEN q.pc = "find"
     ELSE q.pc = CASE q.op = "send" /\ q.phase = "inner" -> "dropMessage"
                   [] q.op = "send" /\ q.phase = "outer" -> "unstore"
                   [] q.op = "recall" -> "markRecalled"
                   [] OTHER -> "markDeleted"

LEMMA LoopQ ==
  ASSUME NEW r \in Task, r.op \in {"send", "recall", "remove", "delete"},
         r.op = "send" <=> r.phase \in {"inner", "outer"}, r.op /= "send" => r.sent = {}
  PROVE  LET q == Loop(r) IN
         \/ q = Idle /\ r.op = "delete"
         \/ q.op = r.op /\ q.sent = r.sent /\ q.phase = r.phase /\ Stands(q, r.list)
BY LoopEffect DEF Stands

LEMMA CatchQ ==
  ASSUME NEW r \in Task, r.op = "send", NEW phase \in {"inner", "outer"}
  PROVE  LET q == Catch(r, phase) IN
         q.op = "send" /\ q.sent = r.sent /\ q.phase = phase /\ Stands(q, r.sent)
<1>0. PICK s : s = [r EXCEPT !.phase = phase, !.list = r.sent, !.user = None, !.todo = {}]
  OBVIOUS
<1>1. /\ s \in Task /\ s.op = r.op /\ s.sent = r.sent /\ s.list = r.sent /\ s.phase = phase
  BY <1>0, CatchSet, ZenonT(60)
<1>2. Catch(r, phase) = Loop(s)
  BY <1>0 DEF Catch
<1>3. /\ s.op \in {"send", "recall", "remove", "delete"} /\ s.op /= "delete"
      /\ s.op = "send" <=> s.phase \in {"inner", "outer"}
  BY <1>1
<1>4. LET q == Loop(s) IN
      q.op = s.op /\ q.sent = s.sent /\ q.phase = s.phase /\ Stands(q, s.list)
  BY <1>1, <1>3, LoopQ
<1> QED
  BY <1>1, <1>2, <1>4

\* The exceptions that nobody has to fail for.
LEMMA ThrowQ ==
  ASSUME MailInv, NEW h \in Handlers, Throw(h), task[h].pc \in {"record", "drop"}
  PROVE  LET r == task[h]
             q == task'[h] IN
         /\ Moves(h)
         /\ \/ q = Idle /\ r.pc = "drop" /\ (r.op /= "send" \/ r.phase = "outer")
            \/ /\ r.op = "send" /\ q.op = "send" /\ q.sent = r.sent /\ Stands(q, r.sent)
               /\ \/ r.phase = "try" /\ r.pc = "record" /\ q.phase = "inner"
                  \/ r.phase = "inner" /\ r.pc = "drop" /\ q.phase = "outer"
         /\ UNCHANGED <<message.state, message.attached, message.shared, message.deleted>>
<1> DEFINE r == task[h]
           q == Thrown(r)
           left == message.abandoned \/ r.phase = "outer"
<1>1. task \in [Handlers -> Task] /\ r \in Task /\ Placed(r) /\ message \in Message
  BY DEF MailInv, MailType
<1>2. Moves(h) /\ task'[h] = q
  <2>1. task' = [task EXCEPT ![h] = q]
    BY DEF Throw
  <2> HIDE DEF q
  <2> QED
    BY <1>1, <2>1 DEF Moves
<1>3. UNCHANGED <<message.state, message.attached, message.shared, message.deleted>>
  <2>1. message' = [message EXCEPT !.abandoned = left]
    BY DEF Throw
  <2> HIDE DEF left
  <2> QED
    BY <1>1, <2>1 DEF Message
<1>4. /\ r.pc = "record" => r.op = "send" /\ r.phase = "try"
      /\ r.pc = "drop" => (r.op = "send" => r.phase /= "try")
      /\ r.phase \in {"try", "inner", "outer"}
  BY <1>1, OpOf DEF Placed, Trying, Task
<1>5. CASE r.op /= "send" \/ r.phase = "outer"
  <2>1. q = Idle
    BY <1>5 DEF Thrown
  <2> QED
    BY <1>2, <1>3, <1>4, <1>5, <2>1
<1>6. CASE r.op = "send" /\ r.phase = "try"
  <2>1. r.pc = "record"
    BY <1>4, <1>6
  <2>2. q = Catch(r, "inner")
    BY <1>6, <2>1 DEF Thrown
  <2>3. LET c == Catch(r, "inner") IN
        c.op = "send" /\ c.sent = r.sent /\ c.phase = "inner" /\ Stands(c, r.sent)
    BY <1>1, <1>6, CatchQ
  <2> HIDE DEF q
  <2> QED
    BY <1>2, <1>3, <1>6, <2>1, <2>2, <2>3
<1>7. CASE r.op = "send" /\ r.phase = "inner"
  <2>1. r.pc = "drop"
    BY <1>4, <1>7
  <2>2. q = Catch(r, "outer")
    BY <1>7, <2>1 DEF Thrown
  <2>3. LET c == Catch(r, "outer") IN
        c.op = "send" /\ c.sent = r.sent /\ c.phase = "outer" /\ Stands(c, r.sent)
    BY <1>1, <1>7, CatchQ
  <2> HIDE DEF q
  <2> QED
    BY <1>2, <1>3, <1>7, <2>1, <2>2, <2>3
<1> QED
  BY <1>4, <1>5, <1>6, <1>7

\* What a call begins with.
LEMMA BeginQ ==
  ASSUME MailInv, NEW h \in Handlers, NEW q, Begin(h, q)
  PROVE  /\ Moves(h) /\ task'[h] = q /\ task[h] = Idle
<1>1. task \in [Handlers -> Task] /\ task' = [task EXCEPT ![h] = q] /\ Placed(task[h])
      /\ task[h].pc = "idle"
  BY DEF MailInv, MailType, Begin
<1>2. task[h].op = "none"
  BY <1>1, OpOf
<1> QED
  BY <1>1, <1>2 DEF Moves, Placed

-----------------------------------------------------------------------------
(* Mails and their objects, kind of step by kind of step                   *)

\* The steps that store nothing: what h knows of mails it knew before, or their
\* rows are there, and objects go only from mails it has.
LEMMA MailsStep ==
  ASSUME MailInv, MailsFound, NEW h \in Handlers, Moves(h),
         UNCHANGED rows, strays \subseteq strays',
         ~Making(task[h]), ~Making(task'[h]),
         \A m \in Mails : \/ objects' \cap Parts(m) = objects \cap Parts(m)
                          \/ objects' \cap Parts(m) = {} /\ Erased(task'[h], m)
                               /\ m \in task[h].list,
         \A m \in Mails : Erased(task'[h], m) => objects' \cap Parts(m) = {},
         \A m \in Mails : Erased(task[h], m) => ~Stored(m),
         \A m \in Mails : m = task'[h].mail \/ m \in task'[h].list \cup task'[h].sent =>
           Stored(m) \/ m = task[h].mail \/ m \in task[h].list \cup task[h].sent,
         task'[h].op \in {"clear", "close"} =>
           \A m \in task'[h].list : Stored(m) => rows[m].user = task'[h].user
  PROVE  MailsFound'
<1>0. \A m \in Mails : Stored(m)' <=> Stored(m)
  BY DEF Stored
<1>1. \A g \in Handlers : Making(task'[g]) => Making(task[g]) /\ g /= h /\ task'[g] = task[g]
  BY DEF Moves
<1>2. ASSUME NEW m \in Mails, objects' \cap Parts(m) /= {}
      PROVE  \/ Stored(m)' \/ m \in strays'
             \/ \E g \in Handlers : Making(task'[g]) /\ task'[g].mail = m
  <2>1. objects \cap Parts(m) /= {}
    BY <1>2
  <2>2. \/ Stored(m) \/ m \in strays
        \/ \E g \in Handlers : Making(task[g]) /\ task[g].mail = m
    BY <2>1 DEF MailsFound
  <2>3. ASSUME NEW g \in Handlers, Making(task[g]), task[g].mail = m
        PROVE  Making(task'[g]) /\ task'[g].mail = m
    BY <2>3 DEF Moves
  <2> QED BY <1>0, <2>2, <2>3
<1>3. ASSUME NEW m \in Mails, Stored(m)
      PROVE  Opens(m)' \/ \E g \in Handlers : Erased(task'[g], m)
  <2>1. CASE Erased(task'[h], m)
    BY <2>1
  <2>2. CASE ~Erased(task'[h], m)
    <3>1. objects' \cap Parts(m) = objects \cap Parts(m)
      BY <2>2
    <3>2. \A x \in {"body", "attachment"} : <<m, x>> \in Parts(m)
      BY DEF Parts
    <3>3. Opens(m) => Opens(m)'
      BY <3>1, <3>2 DEF Opens
    <3>4. \A g \in Handlers : Erased(task[g], m) => Erased(task'[g], m)
      BY <1>3 DEF Moves
    <3> QED BY <1>3, <3>3, <3>4 DEF MailsFound
  <2> QED BY <2>1, <2>2
<1>4. ASSUME NEW g \in Handlers, NEW m \in Mails, Erased(task'[g], m)
      PROVE  objects' \cap Parts(m) = {}
  <2>1. CASE g = h
    BY <1>4, <2>1
  <2>2. CASE g /= h
    <3>1. Erased(task[g], m)
      BY <1>4, <2>2 DEF Moves
    <3>2. objects \cap Parts(m) = {}
      BY <3>1 DEF MailsFound
    <3> QED BY <3>2
  <2> QED BY <2>1, <2>2
<1>5. ASSUME NEW g \in Handlers, Making(task'[g])
      PROVE  Alone(g)'
  <2>1. Making(task[g]) /\ g /= h /\ task'[g] = task[g] /\ Alone(g)
    BY <1>1, <1>5 DEF MailsFound
  <2>2. PICK m : m = task[g].mail
    OBVIOUS
  <2>3. m \in Mails
    BY <2>1, <2>2, Kept DEF Making, Placed
  <2>4. /\ ~Stored(m) /\ <<m, "body">> \in objects
        /\ task[g].pc = "create" /\ task[g].op = "inbound" => <<m, "attachment">> \in objects
        /\ \A f \in Handlers : /\ f /= g => task[f].mail /= m
                               /\ m \notin task[f].list \cup task[f].sent
    BY <2>1, <2>2 DEF Alone
  <2>5. objects' \cap Parts(m) = objects \cap Parts(m)
    BY <2>3, <2>4
  <2>6. \A x \in {"body", "attachment"} : <<m, x>> \in Parts(m)
    BY DEF Parts
  <2>7. /\ <<m, "body">> \in objects'
        /\ task[g].pc = "create" /\ task[g].op = "inbound" => <<m, "attachment">> \in objects'
    BY <2>4, <2>5, <2>6
  <2>8. \A f \in Handlers : /\ f /= g => task'[f].mail /= m
                            /\ m \notin task'[f].list \cup task'[f].sent
    BY <2>1, <2>3, <2>4 DEF Moves
  <2>9. m = task'[g].mail /\ ~Stored(m)'
    BY <1>0, <2>1, <2>2, <2>3, <2>4
  <2> QED BY <2>1, <2>7, <2>8, <2>9 DEF Alone
<1>6. ASSUME NEW g \in Handlers, task'[g].op \in {"clear", "close"},
             NEW m \in task'[g].list, Stored(m)'
      PROVE  rows'[m].user = task'[g].user
  <2>1. CASE g = h
    BY <1>6, <2>1 DEF Stored
  <2>2. CASE g /= h
    BY <1>6, <2>2 DEF MailsFound, Moves, Stored
  <2> QED BY <2>1, <2>2
<1> DEFINE A == \A m \in Mails : objects' \cap Parts(m) /= {} =>
                   \/ Stored(m)' \/ m \in strays'
                   \/ \E g \in Handlers : Making(task'[g]) /\ task'[g].mail = m
           B == \A m \in Mails : Stored(m)' =>
                   Opens(m)' \/ \E g \in Handlers : Erased(task'[g], m)
<1>7. A /\ B
  BY <1>0, <1>2, <1>3
<1> QED BY <1>4, <1>5, <1>6, <1>7 DEF MailsFound, Making, Erased

\* Only h may hold what it holds: the mail it is storing is nobody else's.
LEMMA MakingFacts ==
  ASSUME MailInv, MailsFound, NEW h \in Handlers, Making(task[h])
  PROVE  /\ task[h].mail \in Mails /\ ~Stored(task[h].mail) /\ <<task[h].mail, "body">> \in objects
         /\ task[h].pc = "create" /\ task[h].op = "inbound"
              => <<task[h].mail, "attachment">> \in objects
         /\ \A g \in Handlers : /\ g /= h => task[g].mail /= task[h].mail
                                /\ task[h].mail \notin task[g].list \cup task[g].sent
         /\ \A g \in Handlers : ~Erased(task[g], task[h].mail)
<1>1. Alone(h) /\ task[h].mail \in Mails
  BY Kept DEF Making, Placed, MailsFound
<1>2. \A g \in Handlers : Erased(task[g], task[h].mail) => g /= h
  BY <1>1 DEF Making, Erased, Alone
<1> QED BY <1>1, <1>2 DEF Alone, Erased

\* A part of a mail is stored: its handler goes on making it.
LEMMA PutMails ==
  ASSUME MailInv, MailsFound, NEW h \in Handlers, Moves(h), UNCHANGED <<rows, strays>>,
         NEW m \in Mails, NEW x \in {"body", "attachment"}, objects' = objects \cup {<<m, x>>},
         Making(task'[h]), task'[h].mail = m, task'[h].op \in {"send", "inbound"},
         task'[h].list = task[h].list, task'[h].sent = task[h].sent,
         <<m, "body">> \in objects',
         task'[h].pc = "create" /\ task'[h].op = "inbound" => <<m, "attachment">> \in objects',
         ~Stored(m),
         \A g \in Handlers : /\ g /= h => task[g].mail /= m
                             /\ m \notin task[g].list \cup task[g].sent,
         Making(task[h]) => task[h].mail = m,
         task[h].pc \notin {"drop", "dropAll"}
  PROVE  MailsFound'
<1>0. \A n \in Mails : Stored(n)' <=> Stored(n)
  BY DEF Stored
<1>1. \A n \in Mails : n /= m => objects' \cap Parts(n) = objects \cap Parts(n)
  BY DEF Parts
<1>2. \A g \in Handlers, n \in Mails : Erased(task'[g], n) => g /= h /\ Erased(task[g], n) /\ n /= m
  BY DEF Moves, Erased, Making
<1>3. \A g \in Handlers, n \in Mails : Erased(task[g], n) => Erased(task'[g], n)
  BY DEF Moves, Erased
<1>4. ASSUME NEW n \in Mails, objects' \cap Parts(n) /= {}
      PROVE  \/ Stored(n)' \/ n \in strays'
             \/ \E g \in Handlers : Making(task'[g]) /\ task'[g].mail = n
  <2>1. CASE n = m
    BY <2>1
  <2>2. CASE n /= m
    <3>1. objects \cap Parts(n) /= {}
      BY <1>1, <1>4, <2>2
    <3>2. \/ Stored(n) \/ n \in strays
          \/ \E g \in Handlers : Making(task[g]) /\ task[g].mail = n
      BY <3>1 DEF MailsFound
    <3>3. ASSUME NEW g \in Handlers, Making(task[g]), task[g].mail = n
          PROVE  Making(task'[g]) /\ task'[g].mail = n
      BY <2>2, <3>3 DEF Moves
    <3> QED BY <1>0, <3>2, <3>3
  <2> QED BY <2>1, <2>2
<1>5. ASSUME NEW n \in Mails, Stored(n)'
      PROVE  Opens(n)' \/ \E g \in Handlers : Erased(task'[g], n)
  <2>1. Opens(n) => Opens(n)'
    BY DEF Opens
  <2> QED BY <1>0, <1>3, <1>5, <2>1 DEF MailsFound
<1>6. ASSUME NEW g \in Handlers, NEW n \in Mails, Erased(task'[g], n)
      PROVE  objects' \cap Parts(n) = {}
  BY <1>1, <1>2, <1>6 DEF MailsFound
<1>7. ASSUME NEW g \in Handlers, Making(task'[g])
      PROVE  Alone(g)'
  <2>1. CASE g = h
    <3>1. \A f \in Handlers : /\ f /= h => task'[f].mail /= m
                              /\ m \notin task'[f].list \cup task'[f].sent
      BY DEF Moves
    <3> QED BY <1>0, <2>1, <3>1 DEF Alone
  <2>2. CASE g /= h
    <3>1. Making(task[g]) /\ task'[g] = task[g]
      BY <1>7, <2>2 DEF Moves
    <3>2. PICK n : n = task[g].mail
      OBVIOUS
    <3>3. /\ n \in Mails /\ ~Stored(n) /\ <<n, "body">> \in objects
          /\ task[g].pc = "create" /\ task[g].op = "inbound" => <<n, "attachment">> \in objects
          /\ \A f \in Handlers : /\ f /= g => task[f].mail /= n
                                 /\ n \notin task[f].list \cup task[f].sent
      BY <3>1, <3>2, MakingFacts
    <3>4. n /= m
      BY <2>2, <3>2
    <3>5. \A f \in Handlers : /\ f /= g => task'[f].mail /= n
                              /\ n \notin task'[f].list \cup task'[f].sent
      BY <3>3, <3>4 DEF Moves
    <3>6. n = task'[g].mail /\ ~Stored(n)'
      BY <1>0, <3>1, <3>2, <3>3
    <3>7. /\ <<n, "body">> \in objects'
          /\ task'[g].pc = "create" /\ task'[g].op = "inbound" => <<n, "attachment">> \in objects'
      BY <3>1, <3>3
    <3> QED BY <3>5, <3>6, <3>7 DEF Alone
  <2> QED BY <2>1, <2>2
<1>8. ASSUME NEW g \in Handlers, task'[g].op \in {"clear", "close"},
             NEW n \in task'[g].list, Stored(n)'
      PROVE  rows'[n].user = task'[g].user
  BY <1>8 DEF MailsFound, Moves, Stored
<1> DEFINE A == \A n \in Mails : objects' \cap Parts(n) /= {} =>
                   \/ Stored(n)' \/ n \in strays'
                   \/ \E g \in Handlers : Making(task'[g]) /\ task'[g].mail = n
           B == \A n \in Mails : Stored(n)' =>
                   Opens(n)' \/ \E g \in Handlers : Erased(task'[g], n)
<1>9. A /\ B
  BY <1>4, <1>5
<1> QED BY <1>6, <1>7, <1>8, <1>9 DEF MailsFound, Making, Erased

\* A mail that was being made has its row.
LEMMA CreateMails ==
  ASSUME MailInv, MailInv', MailsFound, NEW h \in Handlers, CreateMail(h)
  PROVE  MailsFound'
<1> DEFINE r == task[h]
<1>1. /\ Making(r) /\ r.pc = "create" /\ r.op \in {"send", "inbound"}
      /\ task \in [Handlers -> Task] /\ r \in Task
  BY Kept, OpOf DEF CreateMail, Making, MailInv, MailType
<1>2. PICK m : m = r.mail
  OBVIOUS
<1>3. /\ m \in Mails /\ ~Stored(m) /\ <<m, "body">> \in objects
      /\ r.op = "inbound" => <<m, "attachment">> \in objects
      /\ \A g \in Handlers : /\ g /= h => task[g].mail /= m
                             /\ m \notin task[g].list \cup task[g].sent
      /\ \A g \in Handlers : ~Erased(task[g], m)
  BY <1>1, <1>2, MakingFacts
<1>4. PICK kind \in {"internal", "external"} :
        /\ rows' = [rows EXCEPT ![m] = [user |-> r.user, kind |-> kind]]
        /\ kind = "external" => r.op = "inbound"
  BY <1>1, <1>2 DEF CreateMail
<1>5. /\ rows'[m].kind = kind /\ Stored(m)'
      /\ \A n \in Mails \ {m} : rows'[n] = rows[n] /\ (Stored(n)' <=> Stored(n))
  <2>1. rows \in [Mails -> Row \cup {None}] /\ rows' \in [Mails -> Row \cup {None}]
    BY DEF MailInv, MailType
  <2>2. r.user \in Users
    BY <1>1, Kept DEF Placed
  <2>3. rows'[m] = [user |-> r.user, kind |-> kind]
    BY <1>3, <1>4, <2>1
  <2>4. [user |-> r.user, kind |-> kind] /= None
    BY <2>2, MailAssumption DEF Row
  <2> QED BY <1>3, <1>4, <2>1, <2>3, <2>4 DEF Stored
<1>6. UNCHANGED <<objects, strays>>
  BY DEF CreateMail
<1>7. /\ Moves(h) /\ ~Making(task'[h]) /\ task'[h].pc \in {"idle", "record"}
      /\ task'[h].op \in {"none", "send"}
      /\ task'[h].list \subseteq r.list /\ task'[h].sent \subseteq r.sent \cup {m}
      /\ task'[h].mail \in {None, m}
  <2>1. CASE r.op = "inbound"
    BY <2>1, FinishQ DEF CreateMail, Making, Idle
  <2>2. CASE r.op /= "inbound"
    <3> DEFINE q == [r EXCEPT !.pc = "record", !.sent = r.sent \cup {m}]
    <3>1. task' = [task EXCEPT ![h] = q]
      BY <1>2, <2>2 DEF CreateMail
    <3>2. /\ q.pc = "record" /\ q.op = r.op /\ q.list = r.list /\ q.mail = r.mail
          /\ q.sent = r.sent \cup {m}
      BY <1>1 DEF Task
    <3> HIDE DEF q
    <3>3. Moves(h) /\ task'[h] = q
      BY <1>1, <3>1 DEF Moves
    <3> QED BY <1>1, <1>2, <2>2, <3>2, <3>3 DEF Making
  <2> QED BY <2>1, <2>2
<1>8. \A g \in Handlers, n \in Mails : Erased(task'[g], n) <=> Erased(task[g], n)
  <2>1. ~\E n \in Mails : Erased(task'[h], n) \/ Erased(task[h], n)
    BY <1>1, <1>7 DEF Erased
  <2> QED BY <1>7, <2>1 DEF Moves
<1>9. ASSUME NEW n \in Mails, objects' \cap Parts(n) /= {}
      PROVE  \/ Stored(n)' \/ n \in strays'
             \/ \E g \in Handlers : Making(task'[g]) /\ task'[g].mail = n
  <2>1. CASE n = m
    BY <1>5, <2>1
  <2>2. CASE n /= m
    <3>1. \/ Stored(n) \/ n \in strays
          \/ \E g \in Handlers : Making(task[g]) /\ task[g].mail = n
      BY <1>6, <1>9 DEF MailsFound
    <3>2. ASSUME NEW g \in Handlers, Making(task[g]), task[g].mail = n
          PROVE  Making(task'[g]) /\ task'[g].mail = n
      BY <1>2, <1>7, <2>2, <3>2 DEF Moves
    <3> QED BY <1>5, <1>6, <2>2, <3>1, <3>2
  <2> QED BY <2>1, <2>2
<1>10. ASSUME NEW n \in Mails, Stored(n)'
       PROVE  Opens(n)' \/ \E g \in Handlers : Erased(task'[g], n)
  <2>1. CASE n = m
    BY <1>3, <1>4, <1>5, <1>6, <2>1 DEF Opens
  <2>2. CASE n /= m
    <3>1. Stored(n) /\ (Opens(n) => Opens(n)')
      BY <1>5, <1>6, <1>10, <2>2 DEF Opens
    <3> QED BY <1>8, <3>1 DEF MailsFound
  <2> QED BY <2>1, <2>2
<1>11. \A g \in Handlers, n \in Mails : Erased(task'[g], n) => objects' \cap Parts(n) = {}
  BY <1>6, <1>8 DEF MailsFound
<1>12. ASSUME NEW g \in Handlers, Making(task'[g])
       PROVE  Alone(g)'
  <2>1. g /= h /\ Making(task[g]) /\ task'[g] = task[g]
    BY <1>7, <1>12 DEF Moves
  <2>2. PICK n : n = task[g].mail
    OBVIOUS
  <2>3. /\ n \in Mails /\ ~Stored(n) /\ <<n, "body">> \in objects
        /\ task[g].pc = "create" /\ task[g].op = "inbound" => <<n, "attachment">> \in objects
        /\ \A f \in Handlers : /\ f /= g => task[f].mail /= n
                               /\ n \notin task[f].list \cup task[f].sent
    BY <2>1, <2>2, MakingFacts
  <2>4. n /= m
    BY <1>3, <2>1, <2>2
  <2>5. \A f \in Handlers : /\ f /= g => task'[f].mail /= n
                            /\ n \notin task'[f].list \cup task'[f].sent
    <3>1. n /= None
      BY <2>3, MailAssumption
    <3> QED BY <1>7, <2>3, <2>4, <3>1 DEF Moves
  <2>6. n = task'[g].mail /\ ~Stored(n)'
    BY <1>5, <2>1, <2>2, <2>3, <2>4
  <2>7. /\ <<n, "body">> \in objects'
        /\ task'[g].pc = "create" /\ task'[g].op = "inbound" => <<n, "attachment">> \in objects'
    BY <1>6, <2>1, <2>3
  <2> QED BY <2>5, <2>6, <2>7 DEF Alone
<1>13. ASSUME NEW g \in Handlers, task'[g].op \in {"clear", "close"},
              NEW n \in task'[g].list, Stored(n)'
       PROVE  rows'[n].user = task'[g].user
  <2>1. g /= h /\ task'[g] = task[g] /\ n /= m
    BY <1>3, <1>7, <1>13 DEF Moves
  <2>2. n \in Mails
    BY <1>13, <2>1 DEF MailInv, MailType, Task
  <2> QED BY <1>5, <1>13, <2>1, <2>2 DEF MailsFound
<1> DEFINE A == \A n \in Mails : objects' \cap Parts(n) /= {} =>
                   \/ Stored(n)' \/ n \in strays'
                   \/ \E g \in Handlers : Making(task'[g]) /\ task'[g].mail = n
           B == \A n \in Mails : Stored(n)' =>
                   Opens(n)' \/ \E g \in Handlers : Erased(task'[g], n)
<1>14. A /\ B
  BY <1>9, <1>10
<1> QED BY <1>11, <1>12, <1>13, <1>14 DEF MailsFound, Making, Erased

\* Rows go, of mails whose objects have gone or that are strays from now on.
LEMMA DropMails ==
  ASSUME MailInv, MailsFound, NEW h \in Handlers, Moves(h), UNCHANGED objects,
         NEW out \in SUBSET Mails,
         rows' = [m \in Mails |-> IF m \in out THEN None ELSE rows[m]],
         strays \subseteq strays',
         \A m \in out : Erased(task[h], m) \/ m \in strays' \/ ~Stored(m),
         \A m \in Mails : Erased(task[h], m) => m \in out \/ ~Stored(m),
         ~Making(task[h]), ~Making(task'[h]), task'[h].pc \notin {"drop", "dropAll"},
         task'[h].op \notin {"clear", "close"},
         task'[h].list \cup task'[h].sent \subseteq task[h].list \cup task[h].sent,
         task'[h].mail = None
  PROVE  MailsFound'
<1>0. \A m \in Mails : /\ Stored(m)' <=> Stored(m) /\ m \notin out
                       /\ m \notin out => rows'[m] = rows[m]
  BY DEF Stored
<1>1. \A g \in Handlers, m \in Mails : Erased(task'[g], m) <=> Erased(task[g], m) /\ g /= h
  BY DEF Moves, Erased
<1>2. ASSUME NEW m \in Mails, objects' \cap Parts(m) /= {}
      PROVE  \/ Stored(m)' \/ m \in strays'
             \/ \E g \in Handlers : Making(task'[g]) /\ task'[g].mail = m
  <2>1. \/ Stored(m) \/ m \in strays
        \/ \E g \in Handlers : Making(task[g]) /\ task[g].mail = m
    BY <1>2 DEF MailsFound
  <2>2. Stored(m) => Stored(m)' \/ m \in strays'
    BY <1>0, <1>2 DEF MailsFound
  <2>3. ASSUME NEW g \in Handlers, Making(task[g]), task[g].mail = m
        PROVE  Making(task'[g]) /\ task'[g].mail = m
    BY <2>3 DEF Moves
  <2> QED BY <2>1, <2>2, <2>3
<1>3. ASSUME NEW m \in Mails, Stored(m)'
      PROVE  Opens(m)' \/ \E g \in Handlers : Erased(task'[g], m)
  <2>1. Stored(m) /\ (Opens(m) => Opens(m)')
    BY <1>0, <1>3 DEF Opens
  <2>2. ~Erased(task[h], m)
    BY <1>0, <1>3
  <2> QED BY <1>1, <2>1, <2>2 DEF MailsFound
<1>4. \A g \in Handlers, m \in Mails : Erased(task'[g], m) => objects' \cap Parts(m) = {}
  BY <1>1 DEF MailsFound
<1>5. ASSUME NEW g \in Handlers, Making(task'[g])
      PROVE  Alone(g)'
  <2>1. g /= h /\ Making(task[g]) /\ task'[g] = task[g]
    BY <1>5 DEF Moves
  <2>2. PICK n : n = task[g].mail
    OBVIOUS
  <2>3. /\ n \in Mails /\ ~Stored(n) /\ <<n, "body">> \in objects
        /\ task[g].pc = "create" /\ task[g].op = "inbound" => <<n, "attachment">> \in objects
        /\ \A f \in Handlers : /\ f /= g => task[f].mail /= n
                               /\ n \notin task[f].list \cup task[f].sent
    BY <2>1, <2>2, MakingFacts
  <2>4. \A f \in Handlers : /\ f /= g => task'[f].mail /= n
                            /\ n \notin task'[f].list \cup task'[f].sent
    <3>1. n /= None
      BY <2>3, MailAssumption
    <3> QED BY <2>3, <3>1 DEF Moves
  <2>5. n = task'[g].mail /\ ~Stored(n)'
    BY <1>0, <2>1, <2>2, <2>3
  <2> QED BY <2>1, <2>3, <2>4, <2>5 DEF Alone
<1>6. ASSUME NEW g \in Handlers, task'[g].op \in {"clear", "close"},
             NEW n \in task'[g].list, Stored(n)'
      PROVE  rows'[n].user = task'[g].user
  <2>1. g /= h /\ task'[g] = task[g]
    BY <1>6 DEF Moves
  <2>2. n \in Mails
    BY <1>6, <2>1 DEF MailInv, MailType, Task
  <2> QED BY <1>0, <1>6, <2>1, <2>2 DEF MailsFound
<1> DEFINE A == \A n \in Mails : objects' \cap Parts(n) /= {} =>
                   \/ Stored(n)' \/ n \in strays'
                   \/ \E g \in Handlers : Making(task'[g]) /\ task'[g].mail = n
           B == \A n \in Mails : Stored(n)' =>
                   Opens(n)' \/ \E g \in Handlers : Erased(task'[g], n)
<1>7. A /\ B
  BY <1>2, <1>3
<1> QED BY <1>4, <1>5, <1>6, <1>7 DEF MailsFound, Making, Erased

-----------------------------------------------------------------------------
(* Mails and their objects, action by action                               *)

\* Places where mails are neither made nor deleted.
Apart(q) == q.pc \notin {"putAttachment", "create", "drop", "dropAll"}

LEMMA IdleApart == Apart(Idle) /\ Idle.mail = None /\ Idle.list = {} /\ Idle.sent = {}
                   /\ Idle.op = "none" /\ Idle.phase = "try" /\ Idle.pc = "idle"
BY DEF Apart, Idle

LEMMA SharedApart ==
  ASSUME NEW m \in Mails
  PROVE  Shared \notin Parts(m)
BY MailAssumption DEF Shared, Parts

\* A step that only moves its handler on, or brings it to mails that have rows.
LEMMA QuietMails ==
  ASSUME MailInv, MailsFound, NEW h \in Handlers, Moves(h), UNCHANGED <<rows, strays>>,
         objects' \cup {Shared} = objects \cup {Shared},
         Apart(task[h]) \/ (task[h].pc = "drop" /\ ~Stored(task[h].mail)), Apart(task'[h]),
         \A m \in Mails : m = task'[h].mail \/ m \in task'[h].list \cup task'[h].sent =>
           Stored(m) \/ m = task[h].mail \/ m \in task[h].list \cup task[h].sent,
         task'[h].op \in {"clear", "close"} =>
           \A m \in task'[h].list : Stored(m) => rows[m].user = task'[h].user
  PROVE  MailsFound'
<1>1. \A m \in Mails : objects' \cap Parts(m) = objects \cap Parts(m)
  BY SharedApart
<1>2. ~Making(task[h]) /\ ~Making(task'[h])
  BY DEF Apart, Making
<1>3. \A m \in Mails : ~Erased(task'[h], m)
  BY DEF Apart, Erased
<1>4. \A m \in Mails : Erased(task[h], m) => ~Stored(m)
  BY DEF Apart, Erased
<1> QED BY <1>1, <1>2, <1>3, <1>4, MailsStep

LEMMA BeginMails ==
  ASSUME MailInv, MailsFound, NEW h \in Handlers, NEW q, Begin(h, q), UNCHANGED <<rows, strays, objects>>,
         Apart(q), q.mail = None, q.sent = {}, \A m \in q.list : Stored(m),
         q.op \in {"clear", "close"} => \A m \in q.list : rows[m].user = q.user
  PROVE  MailsFound'
<1>1. Moves(h) /\ task'[h] = q /\ task[h] = Idle
  BY BeginQ
<1>2. None \notin Mails
  BY MailAssumption
<1> QED BY <1>1, <1>2, IdleApart, QuietMails

\* The calls know only of mails that have rows.
LEMMA ArriveMails ==
  ASSUME MailInv, MailsFound, NEW h \in Handlers, Arrive(h)
  PROVE  MailsFound'
<1>0. UNCHANGED <<rows, strays, objects>>
  BY DEF Arrive, SendMail, Recall, RemoveMessage, FetchShared, DeleteMail, BulkDelete, Purge,
         IncomingMail
<1>1. CASE SendMail(h)
  <2>1. PICK to \in SUBSET Users, attached \in BOOLEAN :
          Begin(h, [Idle EXCEPT !.op = "send", !.todo = to,
               !.pc = IF attached THEN "storeShared" ELSE "createMessage"])
    BY <1>1, ZenonT(60) DEF SendMail
  <2> DEFINE q == [Idle EXCEPT !.op = "send", !.todo = to,
               !.pc = IF attached THEN "storeShared" ELSE "createMessage"]
  <2>2. Apart(q) /\ q.mail = None /\ q.sent = {} /\ q.list = {} /\ q.op = "send"
    BY DEF Apart, Idle
  <2>3. Begin(h, q)
    BY <2>1
  <2> HIDE DEF q
  <2> QED BY <1>0, <2>2, <2>3, BeginMails
<1>2. CASE Recall(h) \/ RemoveMessage(h) \/ FetchShared(h)
  <2>1. PICK op \in {"recall", "remove", "fetch"}, pc \in {"list", "hide", "fetch"} :
          Begin(h, [Idle EXCEPT !.op = op, !.pc = pc])
    BY <1>2 DEF Recall, RemoveMessage, FetchShared
  <2> DEFINE q == [Idle EXCEPT !.op = op, !.pc = pc]
  <2>2. Apart(q) /\ q.mail = None /\ q.sent = {} /\ q.list = {} /\ q.op \notin {"clear", "close"}
    BY DEF Apart, Idle
  <2>3. Begin(h, q)
    BY <2>1
  <2> HIDE DEF q
  <2> QED BY <1>0, <2>2, <2>3, BeginMails
<1>3. CASE DeleteMail(h)
  <2>1. PICK m \in Mails :
          /\ Stored(m)
          /\ Begin(h, [Idle EXCEPT !.op = "delete", !.pc = "find", !.list = {m}])
    BY <1>3 DEF DeleteMail
  <2> DEFINE q == [Idle EXCEPT !.op = "delete", !.pc = "find", !.list = {m}]
  <2>2. Apart(q) /\ q.mail = None /\ q.sent = {} /\ q.list = {m} /\ q.op = "delete"
    BY DEF Apart, Idle
  <2>3. Begin(h, q)
    BY <2>1
  <2> HIDE DEF q
  <2> QED BY <1>0, <2>1, <2>2, <2>3, BeginMails
<1>4. CASE BulkDelete(h)
  <2>1. PICK u \in Users : \E some \in SUBSET MailsOf(u) :
          Begin(h, [Idle EXCEPT !.op = "bulk", !.pc = "eraseAll", !.user = u, !.list = some])
    BY <1>4 DEF BulkDelete
  <2>5. PICK some \in SUBSET MailsOf(u) :
          Begin(h, [Idle EXCEPT !.op = "bulk", !.pc = "eraseAll", !.user = u, !.list = some])
    BY <2>1
  <2> DEFINE q == [Idle EXCEPT !.op = "bulk", !.pc = "eraseAll", !.user = u, !.list = some]
  <2>2. Apart(q) /\ q.mail = None /\ q.sent = {} /\ q.list = some /\ q.op = "bulk"
    BY DEF Apart, Idle
  <2>3. Begin(h, q)
    BY <2>5
  <2>4. \A m \in some : Stored(m)
    BY DEF MailsOf
  <2> HIDE DEF q
  <2> QED BY <1>0, <2>2, <2>3, <2>4, BeginMails
<1>5. CASE Purge(h)
  <2>1. PICK u \in Users, op \in {"clear", "close"} :
          Begin(h, [Idle EXCEPT !.op = op, !.pc = "eraseAll", !.user = u, !.list = MailsOf(u)])
    BY <1>5 DEF Purge
  <2> DEFINE q == [Idle EXCEPT !.op = op, !.pc = "eraseAll", !.user = u, !.list = MailsOf(u)]
  <2>2. Apart(q) /\ q.mail = None /\ q.sent = {} /\ q.list = MailsOf(u) /\ q.op = op /\ q.user = u
    BY DEF Apart, Idle
  <2>3. Begin(h, q)
    BY <2>1
  <2>4. \A m \in MailsOf(u) : Stored(m) /\ rows[m].user = u
    BY DEF MailsOf
  <2> HIDE DEF q
  <2> QED BY <1>0, <2>2, <2>3, <2>4, BeginMails
<1>6. CASE IncomingMail(h)
  <2>1. PICK u \in Users :
          Begin(h, [Idle EXCEPT !.op = "inbound", !.pc = "usage", !.todo = {u}])
    BY <1>6 DEF IncomingMail
  <2> DEFINE q == [Idle EXCEPT !.op = "inbound", !.pc = "usage", !.todo = {u}]
  <2>2. Apart(q) /\ q.mail = None /\ q.sent = {} /\ q.list = {} /\ q.op = "inbound"
    BY DEF Apart, Idle
  <2>3. Begin(h, q)
    BY <2>1
  <2> HIDE DEF q
  <2> QED BY <1>0, <2>2, <2>3, BeginMails
<1> QED BY <1>1, <1>2, <1>3, <1>4, <1>5, <1>6 DEF Arrive

\* Steps that only move on, and ends.
LEMMA GotoMails ==
  ASSUME MailInv, MailsFound, NEW h \in Handlers, NEW next \in PCs, Goto(h, next) \/ Finish(h),
         UNCHANGED <<rows, strays>>, objects' \cup {Shared} = objects \cup {Shared},
         Apart(task[h]), next \notin {"putAttachment", "create", "drop", "dropAll"},
         task[h].op \notin {"clear", "close"}
  PROVE  MailsFound'
<1>0. None \notin Mails
  BY MailAssumption
<1>1. CASE Finish(h)
  BY <1>0, <1>1, FinishQ, IdleApart, QuietMails
<1>2. CASE Goto(h, next)
  <2>1. LET r == task[h]
            q == task'[h] IN
        /\ Moves(h) /\ q.pc = next /\ q.op = r.op /\ q.user = r.user /\ q.mail = r.mail
        /\ q.sent = r.sent /\ q.list = r.list /\ q.phase = r.phase
    BY <1>2, GotoQ
  <2>2. Apart(task'[h])
    BY <2>1 DEF Apart
  <2> QED BY <2>1, <2>2, QuietMails
<1> QED BY <1>1, <1>2

LEMMA MoveMails ==
  ASSUME MailInv, MailsFound, NEW h \in Handlers,
         \/ StoreShared(h) \/ CreateMessage(h) \/ Audit(h) \/ Unstore(h, TRUE)
         \/ MarkMessage(h) \/ FindShared(h) \/ Fetch(h) \/ Forget(h) \/ CheckQuota(h)
  PROVE  MailsFound'
<1>1. /\ Placed(task[h]) /\ "createMessage" \in PCs /\ "put" \in PCs /\ "dropMessage" \in PCs
      /\ "findShared" \in PCs /\ "unstore" \in PCs /\ "forget" \in PCs
  BY Kept DEF PCs
<1>2. /\ Apart(task[h]) /\ task[h].op \notin {"clear", "close"}
      /\ UNCHANGED <<rows, strays>> /\ objects' \cup {Shared} = objects \cup {Shared}
  <2>1. task[h].pc \in {"storeShared", "createMessage", "audit", "unstore", "markRecalled",
                        "markDeleted", "hide", "findShared", "fetch", "forget", "usage"}
    BY DEF StoreShared, CreateMessage, Audit, Unstore, MarkMessage, FindShared, Fetch, Forget,
           CheckQuota
  <2>2. UNCHANGED <<rows, strays>> /\ objects' \cup {Shared} = objects \cup {Shared}
    BY DEF StoreShared, CreateMessage, Audit, Unstore, MarkMessage, FindShared, Fetch, Forget,
           CheckQuota
  <2> QED BY <1>1, <2>1, <2>2, OpOf DEF Apart
<1>3. \E next \in {"createMessage", "put", "dropMessage", "findShared", "unstore", "forget"} :
        Goto(h, next) \/ Finish(h)
  BY DEF StoreShared, CreateMessage, Audit, Unstore, MarkMessage, FindShared, Fetch, Forget,
         CheckQuota
<1> QED BY <1>1, <1>2, <1>3, GotoMails

\* A mail is new when its first part is stored.
LEMMA PutBodyMails ==
  ASSUME MailInv, MailsFound, NEW h \in Handlers, PutBody(h)
  PROVE  MailsFound'
<1> DEFINE r == task[h]
<1>1. /\ task \in [Handlers -> Task] /\ r \in Task /\ Placed(r) /\ r.pc = "put"
      /\ r.op \in {"send", "inbound"}
  BY OpOf DEF MailInv, MailType, PutBody
<1>2. PICK m \in Mails, u \in r.todo :
        /\ Fresh(m) /\ objects' = objects \cup {<<m, "body">>}
        /\ task' = [task EXCEPT ![h].mail = m, ![h].user = u,
             ![h].pc = IF r.op = "inbound" THEN "putAttachment" ELSE "create"]
  BY DEF PutBody
<1> DEFINE pc == IF r.op = "inbound" THEN "putAttachment" ELSE "create"
           q == [r EXCEPT !.mail = m, !.user = u, !.pc = pc]
<1>3. task' = [task EXCEPT ![h] = q]
  BY <1>2
<1>4. /\ q.pc = pc /\ q.op = r.op /\ q.mail = m /\ q.sent = r.sent /\ q.list = r.list
  <2> HIDE DEF pc
  <2> QED BY <1>1 DEF Task
<1>5. pc \in {"putAttachment", "create"} /\ (pc = "create" => r.op /= "inbound")
  OBVIOUS
<1> HIDE DEF q, pc
<1>6. Moves(h) /\ task'[h] = q
  BY <1>1, <1>3 DEF Moves
<1>7. /\ ~Stored(m)
      /\ \A g \in Handlers : task[g].mail /= m /\ m \notin task[g].list \cup task[g].sent
  BY <1>2 DEF Fresh
<1>8. Making(task'[h]) /\ ~Making(r) /\ r.pc \notin {"drop", "dropAll"}
  BY <1>1, <1>4, <1>5, <1>6 DEF Making
<1>9. UNCHANGED <<rows, strays>> /\ <<m, "body">> \in objects'
  BY <1>2 DEF PutBody
<1> QED BY <1>1, <1>2, <1>4, <1>5, <1>6, <1>7, <1>8, <1>9, PutMails

LEMMA PutAttachmentMails ==
  ASSUME MailInv, MailsFound, NEW h \in Handlers, PutAttachment(h)
  PROVE  MailsFound'
<1> DEFINE r == task[h]
<1>1. Placed(r) /\ r.pc = "putAttachment" /\ r.op = "inbound" /\ Making(r) /\ "create" \in PCs
  BY Kept, OpOf DEF PutAttachment, Making, PCs
<1>2. PICK m : m = r.mail
  OBVIOUS
<1>3. /\ m \in Mails /\ ~Stored(m) /\ <<m, "body">> \in objects
      /\ \A g \in Handlers : /\ g /= h => task[g].mail /= m
                             /\ m \notin task[g].list \cup task[g].sent
  BY <1>1, <1>2, MakingFacts
<1>4. LET q == task'[h] IN
      /\ Moves(h) /\ q.pc = "create" /\ q.op = r.op /\ q.mail = r.mail
      /\ q.sent = r.sent /\ q.list = r.list
  <2>1. Goto(h, "create")
    BY DEF PutAttachment
  <2> QED BY <1>1, <2>1, GotoQ
<1>5. objects' = objects \cup {<<m, "attachment">>} /\ UNCHANGED <<rows, strays>>
  BY <1>2 DEF PutAttachment
<1>6. Making(task'[h]) /\ r.pc \notin {"drop", "dropAll"}
  BY <1>1, <1>4 DEF Making
<1>7. <<m, "body">> \in objects' /\ <<m, "attachment">> \in objects'
  BY <1>3, <1>5
<1> QED BY <1>1, <1>2, <1>3, <1>4, <1>5, <1>6, <1>7, PutMails

\* A loop knows of no mail that was not on its list.
LEMMA StandsApart ==
  ASSUME NEW q, NEW list, Stands(q, list)
  PROVE  Apart(q)
BY DEF Stands, Apart

LEMMA RecordMails ==
  ASSUME MailInv, MailsFound, NEW h \in Handlers, RecordDelivery(h)
  PROVE  MailsFound'
<1> DEFINE r == task[h]
<1>1. /\ task \in [Handlers -> Task] /\ r \in Task /\ Placed(r) /\ r.pc = "record"
      /\ r.op = "send" /\ UNCHANGED <<rows, strays, objects>> /\ Apart(r)
      /\ None \notin Mails
  BY OpOf, MailAssumption DEF MailInv, MailType, RecordDelivery, Apart
<1>2. CASE Stored(r.mail)
  <2> DEFINE left == r.todo \ {r.user}
             pc == IF left = {} THEN "audit" ELSE "put"
             q == [r EXCEPT !.pc = pc, !.todo = left, !.user = None, !.mail = None]
  <2>1. task' = [task EXCEPT ![h] = q]
    BY <1>2 DEF RecordDelivery
  <2>2. /\ q.pc = pc /\ q.op = r.op /\ q.mail = None /\ q.sent = r.sent /\ q.list = r.list
    <3> HIDE DEF pc, left
    <3> QED BY <1>1 DEF Task
  <2>3. pc \in {"audit", "put"}
    OBVIOUS
  <2> HIDE DEF q, pc, left
  <2>4. Moves(h) /\ task'[h] = q /\ Apart(q)
    BY <1>1, <2>1, <2>2, <2>3 DEF Moves, Apart
  <2> QED BY <1>1, <2>2, <2>4, QuietMails
<1>3. CASE ~Stored(r.mail)
  <2>1. Throw(h)
    BY <1>3 DEF RecordDelivery
  <2>2. LET q == task'[h] IN
        Moves(h) /\ q.op = "send" /\ q.sent = r.sent /\ Stands(q, r.sent)
    BY <1>1, <2>1, ThrowQ
  <2>3. Apart(task'[h]) /\ task'[h].mail = None /\ task'[h].list = r.sent
    BY <2>2, StandsApart DEF Stands
  <2> QED BY <1>1, <2>2, <2>3, QuietMails
<1> QED BY <1>2, <1>3

LEMMA DropMessageMails ==
  ASSUME MailInv, MailsFound, NEW h \in Handlers, DropMessage(h, TRUE)
  PROVE  MailsFound'
<1> DEFINE r == task[h]
           q == IF r.phase = "inner" THEN Catch(r, "outer") ELSE Idle
<1>1. /\ task \in [Handlers -> Task] /\ r \in Task /\ Placed(r) /\ r.pc = "dropMessage"
      /\ r.op = "send" /\ UNCHANGED <<rows, strays, objects>> /\ Apart(r)
      /\ None \notin Mails
  BY OpOf, MailAssumption DEF MailInv, MailType, DropMessage, Apart
<1>2. task' = [task EXCEPT ![h] = q]
  BY DEF DropMessage
<1>3. /\ Apart(q) /\ q.mail = None /\ q.list \subseteq r.sent /\ q.sent \subseteq r.sent
      /\ q.op \notin {"clear", "close"}
  <2>1. CASE r.phase = "inner"
    <3>1. LET c == Catch(r, "outer") IN
          c.op = "send" /\ c.sent = r.sent /\ c.phase = "outer" /\ Stands(c, r.sent)
      BY <1>1, CatchQ
    <3>2. q = Catch(r, "outer")
      BY <2>1
    <3> HIDE DEF q
    <3> QED BY <3>1, <3>2, StandsApart DEF Stands
  <2>2. CASE r.phase /= "inner"
    BY <2>2, IdleApart
  <2> QED BY <2>1, <2>2
<1> HIDE DEF q
<1>4. Moves(h) /\ task'[h] = q
  BY <1>1, <1>2 DEF Moves
<1> QED BY <1>1, <1>3, <1>4, QuietMails

LEMMA FindMailMails ==
  ASSUME MailInv, MailsFound, NEW h \in Handlers, FindMail(h)
  PROVE  MailsFound'
<1> DEFINE r == task[h]
<1>1. /\ task \in [Handlers -> Task] /\ r \in Task /\ Placed(r) /\ r.pc = "find"
      /\ r.op \in {"send", "recall", "remove", "delete"}
      /\ UNCHANGED <<rows, strays, objects>> /\ Apart(r) /\ None \notin Mails
  BY OpOf, MailAssumption DEF MailInv, MailType, FindMail, Apart, Looping
<1>2. PICK m \in r.list :
        task' = [task EXCEPT ![h] =
          IF Stored(m) THEN [r EXCEPT !.pc = "erase", !.mail = m]
          ELSE Loop([r EXCEPT !.mail = m, !.list = r.list \ {m}])]
  BY DEF FindMail
<1> DEFINE s == [r EXCEPT !.mail = m, !.list = r.list \ {m}]
           q == IF Stored(m) THEN [r EXCEPT !.pc = "erase", !.mail = m] ELSE Loop(s)
<1>3. Moves(h) /\ task'[h] = q
  <2>1. task' = [task EXCEPT ![h] = q]
    BY <1>2
  <2> HIDE DEF q
  <2> QED BY <1>1, <2>1 DEF Moves
<1>4. CASE Stored(m)
  <2>1. /\ q.pc = "erase" /\ q.op = r.op /\ q.mail = m /\ q.sent = r.sent /\ q.list = r.list
    BY <1>1, <1>4 DEF Task
  <2> HIDE DEF q
  <2>2. Apart(q)
    BY <2>1 DEF Apart
  <2> QED BY <1>1, <1>3, <1>4, <2>1, <2>2, QuietMails
<1>5. CASE ~Stored(m)
  <2>1. m \in Mails /\ r.list \ {m} \in SUBSET Mails
    BY <1>1 DEF Task
  <2>2. /\ s \in Task /\ s.op = r.op /\ s.sent = r.sent /\ s.list = r.list \ {m}
        /\ s.phase = r.phase
    <3>1. r \in Task
      BY <1>1
    <3> HIDE DEF r
    <3> QED BY <2>1, <3>1 DEF Task
  <2>3. q = Loop(s)
    BY <1>5
  <2> HIDE DEF q, s
  <2>4. /\ s.op \in {"send", "recall", "remove", "delete"}
        /\ s.op = "send" <=> s.phase \in {"inner", "outer"}
        /\ s.op /= "send" => s.sent = {}
    BY <1>1, <2>2 DEF Placed, Task, Trying
  <2>5. \/ q = Idle
        \/ q.op = r.op /\ q.sent = r.sent /\ Stands(q, r.list \ {m})
    BY <2>2, <2>3, <2>4, LoopQ
  <2>6. /\ Apart(q) /\ q.mail = None /\ q.list \subseteq r.list /\ q.sent \subseteq r.sent
        /\ q.op \notin {"clear", "close"}
    BY <1>1, <2>5, IdleApart, StandsApart DEF Stands
  <2> QED BY <1>1, <1>3, <2>6, QuietMails
<1> QED BY <1>4, <1>5

LEMMA ListCopiesMails ==
  ASSUME MailInv, MailsFound, NEW h \in Handlers, ListCopies(h)
  PROVE  MailsFound'
<1> DEFINE r == task[h]
           copies == {d.mail : d \in deliveries} \ {None}
           s == [r EXCEPT !.list = copies]
           q == Loop(s)
<1>1. /\ task \in [Handlers -> Task] /\ r \in Task /\ Placed(r) /\ r.pc = "list"
      /\ r.op \in {"recall", "remove"}
      /\ UNCHANGED <<rows, strays, objects>> /\ Apart(r) /\ None \notin Mails
  BY OpOf, MailAssumption DEF MailInv, MailType, ListCopies, Apart
<1>2. task' = [task EXCEPT ![h] = q]
  BY DEF ListCopies
<1>3. copies \in SUBSET Mails /\ \A m \in copies : Stored(m)
  BY Kept DEF Delivery, MailInv, DeliveredStored
<1> HIDE DEF copies
<1>4. /\ s \in Task /\ s.op = r.op /\ s.sent = r.sent /\ s.list = copies /\ s.phase = r.phase
  BY <1>1, <1>3, ListSet
<1> HIDE DEF s
<1>5. /\ s.op \in {"send", "recall", "remove", "delete"} /\ s.op /= "delete"
      /\ s.op = "send" <=> s.phase \in {"inner", "outer"}
      /\ s.op /= "send" => s.sent = {}
  BY <1>1, <1>4 DEF Placed
<1>6. q.op = r.op /\ q.sent = r.sent /\ Stands(q, copies)
  BY <1>4, <1>5, LoopQ
<1> HIDE DEF q
<1>7. Moves(h) /\ task'[h] = q /\ Apart(q) /\ q.mail = None /\ q.list = copies
  BY <1>1, <1>2, <1>6, StandsApart DEF Moves, Stands
<1> QED BY <1>1, <1>3, <1>6, <1>7, QuietMails

\* The objects go first.
LEMMA EraseMails ==
  ASSUME MailInv, MailsFound, NEW h \in Handlers, EraseMail(h, {}) \/ EraseAll(h, {})
  PROVE  MailsFound'
<1> DEFINE r == task[h]
<1>1. r \in Task /\ Placed(r) /\ UNCHANGED <<rows, strays>> /\ None \notin Mails
      /\ "drop" \in PCs /\ "dropAll" \in PCs /\ r.pc \in {"erase", "eraseAll"}
  BY Kept, MailAssumption DEF MailInv, MailType, EraseMail, EraseAll, PCs
<1>2. \A m, n \in Mails : m /= n => Parts(m) \cap Parts(n) = {}
  BY DEF Parts
<1>3. PICK next \in {"drop", "dropAll"} : Goto(h, next)
  BY DEF EraseMail, EraseAll
<1>4. LET q == task'[h] IN
      /\ Moves(h) /\ q.pc = next /\ q.op = r.op /\ q.user = r.user /\ q.mail = r.mail
      /\ q.sent = r.sent /\ q.list = r.list /\ q.phase = r.phase
  BY <1>1, <1>3, GotoQ
<1>5. /\ \A m \in Mails : \/ objects' \cap Parts(m) = objects \cap Parts(m)
                          \/ objects' \cap Parts(m) = {} /\ Erased(task'[h], m) /\ m \in r.list
      /\ \A m \in Mails : Erased(task'[h], m) => objects' \cap Parts(m) = {}
  <2>1. CASE EraseMail(h, {})
    <3>1. r.pc = "erase" /\ objects' = objects \ Parts(r.mail) /\ task'[h].pc = "drop"
      <4>1. Goto(h, "drop")
        BY <2>1 DEF EraseMail
      <4> QED BY <1>1, <2>1, <4>1, GotoQ DEF EraseMail
    <3>2. r.mail \in r.list /\ r.mail \in Mails
      BY <1>1, <3>1 DEF Placed, Task
    <3>3. \A m \in Mails : Erased(task'[h], m) <=> m = r.mail
      BY <1>4, <3>1 DEF Erased
    <3> QED BY <1>2, <3>1, <3>2, <3>3
  <2>2. CASE EraseAll(h, {})
    <3>1. /\ r.pc = "eraseAll" /\ objects' = objects \ UNION {Parts(m) : m \in r.list}
          /\ task'[h].pc = "dropAll"
      <4>1. Goto(h, "dropAll")
        BY <2>2 DEF EraseAll
      <4> QED BY <1>1, <2>2, <4>1, GotoQ DEF EraseAll
    <3>2. r.list \subseteq Mails
      BY <1>1 DEF Task
    <3>3. \A m \in Mails : Erased(task'[h], m) <=> m \in r.list
      BY <1>4, <3>1 DEF Erased
    <3>4. \A m \in r.list : objects' \cap Parts(m) = {}
      BY <3>1
    <3>5. \A m \in Mails \ r.list : objects' \cap Parts(m) = objects \cap Parts(m)
      BY <1>2, <3>1, <3>2
    <3> QED BY <3>3, <3>4, <3>5
  <2> QED BY <2>1, <2>2
<1>6. /\ ~Making(r) /\ ~Making(task'[h]) /\ \A m \in Mails : ~Erased(r, m)
  BY <1>1, <1>3, <1>4 DEF Making, Erased
<1>7. task'[h].op \in {"clear", "close"} =>
        \A m \in task'[h].list : Stored(m) => rows[m].user = task'[h].user
  BY <1>4 DEF MailsFound
<1> QED BY <1>1, <1>4, <1>5, <1>6, <1>7, MailsStep

LEMMA DropMailMails ==
  ASSUME MailInv, MailsFound, NEW h \in Handlers, DropMail(h)
  PROVE  MailsFound'
<1> DEFINE r == task[h]
<1>1. /\ task \in [Handlers -> Task] /\ r \in Task /\ Placed(r) /\ r.pc = "drop"
      /\ r.op \in {"send", "recall", "remove", "delete"} /\ ~Making(r)
      /\ UNCHANGED <<strays, objects>> /\ None \notin Mails
      /\ rows \in [Mails -> Row \cup {None}]
  BY OpOf, MailAssumption DEF MailInv, MailType, DropMail, Making, Looping
<1>2. PICK m : m = r.mail
  OBVIOUS
<1>3. m \in Mails /\ m \in r.list
  BY <1>1, <1>2 DEF Placed, Task
<1>4. CASE ~Stored(m)
  <2>1. Throw(h) /\ UNCHANGED rows
    BY <1>2, <1>4 DEF DropMail
  <2>2. LET q == task'[h] IN
        Moves(h) /\ (q = Idle \/ (q.op = "send" /\ q.sent = r.sent /\ Stands(q, r.sent)))
    BY <1>1, <2>1, ThrowQ
  <2>3. /\ Apart(task'[h]) /\ task'[h].mail = None /\ task'[h].list \subseteq r.sent
        /\ task'[h].sent \subseteq r.sent /\ task'[h].op \notin {"clear", "close"}
    BY <2>2, StandsApart, IdleApart DEF Stands
  <2> QED BY <1>1, <1>2, <1>4, <2>1, <2>2, <2>3, QuietMails
<1>5. CASE Stored(m)
  <2> DEFINE s == [r EXCEPT !.list = r.list \ {m}]
             q == Loop(s)
  <2>1. rows' = [rows EXCEPT ![m] = None] /\ task' = [task EXCEPT ![h] = q]
    BY <1>2, <1>5 DEF DropMail
  <2>2. rows' = [n \in Mails |-> IF n \in {m} THEN None ELSE rows[n]]
    BY <1>1, <1>3, <2>1
  <2>3. /\ s \in Task /\ s.op = r.op /\ s.sent = r.sent /\ s.list = r.list \ {m}
        /\ s.phase = r.phase
    <3>1. r.list \ {m} \in SUBSET Mails
      BY <1>1 DEF Task
    <3>2. r \in Task
      BY <1>1
    <3> HIDE DEF r
    <3> QED BY <3>1, <3>2 DEF Task
  <2> HIDE DEF s
  <2>4. /\ s.op \in {"send", "recall", "remove", "delete"}
        /\ s.op = "send" <=> s.phase \in {"inner", "outer"}
        /\ s.op /= "send" => s.sent = {}
    BY <1>1, <2>3 DEF Placed, Task, Trying
  <2>5. \/ q = Idle
        \/ q.op = r.op /\ q.sent = r.sent /\ Stands(q, r.list \ {m})
    BY <2>3, <2>4, LoopQ
  <2> HIDE DEF q
  <2>6. /\ Moves(h) /\ task'[h] = q
    BY <1>1, <2>1 DEF Moves
  <2>7. /\ Apart(q) /\ q.mail = None /\ q.list \cup q.sent \subseteq r.list \cup r.sent
        /\ q.op \notin {"clear", "close"}
    BY <1>1, <2>5, IdleApart, StandsApart DEF Stands
  <2>8. /\ \A n \in Mails : Erased(r, n) <=> n = m
        /\ ~Making(q) /\ q.pc \notin {"drop", "dropAll"}
    BY <1>1, <1>2, <2>7 DEF Erased, Making, Apart
  <2>9. {m} \in SUBSET Mails
    BY <1>3
  <2> QED BY <1>1, <1>3, <2>2, <2>6, <2>7, <2>8, <2>9, DropMails, ZenonT(60)
<1> QED BY <1>4, <1>5

\* A purge drops every row of its user: those it has not listed become strays.
LEMMA DropAllMails ==
  ASSUME MailInv, MailsFound, NEW h \in Handlers, DropAll(h)
  PROVE  MailsFound'
<1> DEFINE r == task[h]
           out == IF r.op = "bulk" THEN r.list ELSE MailsOf(r.user)
<1>1. /\ r \in Task /\ Placed(r) /\ r.pc = "dropAll" /\ r.op \in {"bulk", "clear", "close"}
      /\ UNCHANGED objects /\ ~Making(r)
  BY OpOf DEF MailInv, MailType, DropAll, Making
<1>2. Moves(h) /\ task'[h] = Idle
  BY FinishQ DEF DropAll
<1>3. /\ rows' = [m \in Mails |-> IF m \in out THEN None ELSE rows[m]]
      /\ strays' = strays \cup (out \ r.list)
  BY DEF DropAll
<1>4. out \in SUBSET Mails
  BY <1>1 DEF Task, MailsOf
<1>5. \A m \in Mails : Erased(r, m) <=> m \in r.list
  BY <1>1 DEF Erased
<1>6. ASSUME NEW m \in Mails, m \in r.list, Stored(m)
      PROVE  m \in out
  <2>1. CASE r.op = "bulk"
    BY <1>6, <2>1
  <2>2. CASE r.op /= "bulk"
    <3>1. rows[m].user = r.user
      BY <1>1, <1>6, <2>2 DEF MailsFound
    <3> QED BY <1>6, <2>2, <3>1 DEF MailsOf
  <2> QED BY <2>1, <2>2
<1> HIDE DEF out
<1>7. \A m \in out : Erased(r, m) \/ m \in strays'
  BY <1>3, <1>4, <1>5
<1>8. ~Making(Idle) /\ Idle.pc \notin {"drop", "dropAll"}
  BY IdleApart DEF Making
<1> QED BY <1>1, <1>2, <1>3, <1>4, <1>5, <1>6, <1>7, <1>8, IdleApart, DropMails

\* No step that does not fail breaks the mails' half, nor the message's.
LEMMA MailsNext ==
  ASSUME MailInv, MailInv', MailsFound, failed' = {}, [Next]_vars
  PROVE  MailsFound'
<1>1. CASE UNCHANGED vars
  BY <1>1 DEF vars, MailsFound, Stored, Making, Alone, Opens, Erased
<1>2. ASSUME NEW h \in Handlers, Proceed(h)
      PROVE  MailsFound'
  <2>1. CASE Succeed(h)
    BY <2>1, DropMessageMails, MoveMails, EraseMails DEF Succeed
  <2>2. CASE ~Succeed(h)
    BY <1>2, <2>2, MoveMails, PutBodyMails, PutAttachmentMails, CreateMails, RecordMails,
       FindMailMails, DropMailMails, ListCopiesMails, DropAllMails DEF Proceed
  <2> QED BY <2>1, <2>2
<1>3. \A h \in Handlers : ~Fail(h) /\ ~FailTolerated(h) /\ ~Die(h)
  BY DEF Fail, FailTolerated, Die, Happens
<1> QED BY <1>1, <1>2, <1>3, ArriveMails DEF Next

-----------------------------------------------------------------------------
(* The message and its attachment                                          *)

Begun == {"storeShared", "createMessage"}

\* Who has nothing to do with the message.
LEMMA FitsOther ==
  ASSUME NEW q, Placed(q), q.op \notin {"send", "recall", "remove", "fetch"}
  PROVE  Fits(q)
<1>1. q.op /= "send" => q.phase = "try" /\ q.sent = {}
  BY DEF Placed
<1> QED BY <1>1, OpOf DEF Fits

LEMMA FitsOtherNext ==
  ASSUME MailInv', NEW g \in Handlers, task'[g].op \notin {"send", "recall", "remove", "fetch"}
  PROVE  Fits(task[g])'
<1>1. PICK q : q = task'[g]
  OBVIOUS
<1>2. Placed(q)
  <2>1. Placed(task[g])'
    BY DEF MailInv, MailType
  <2> QED BY <1>1, <2>1 DEF Placed
<1>3. q.op /= "send" => q.phase = "try" /\ q.sent = {}
  BY <1>2 DEF Placed
<1>4. /\ q.pc \notin {"storeShared", "createMessage", "forget", "dropMessage"}
      /\ q.phase = "try"
  BY <1>1, <1>2, <1>3, OpOf
<1> QED BY <1>1, <1>4 DEF Fits

\* Before it is stored, nobody but its sender has to do with the message.
LEMMA BeforeSent ==
  ASSUME MailInv, MessageFound, message.state \notin Sent, NEW g \in Handlers
  PROVE  /\ task[g].op \notin {"recall", "remove", "fetch"}
         /\ task[g].op = "send" => task[g].pc \in Begun /\ message.state = "draft"
BY DEF MessageFound, Fits, Begun

\* The steps that change neither the message nor its attachment.
LEMMA QuietMessage ==
  ASSUME MailInv, MessageFound, NEW h \in Handlers, Moves(h),
         Shared \in objects' <=> Shared \in objects,
         UNCHANGED <<message.state, message.attached, message.shared, message.deleted>>,
         \A g \in Handlers : g /= h => \A m \in task[g].sent : Stored(m)' => Stored(m),
         task[h].pc \notin Begun \cup {"dropMessage", "unstore"},
         task[h].pc = "findShared" /\ message.state = "stored" /\ Shared \in objects =>
           task'[h].op = "remove" /\ task'[h].pc = "unstore",
         task[h].phase = "outer" /\ message.state = "dropped" =>
           task'[h].phase = "outer" /\ task'[h].pc /= "dropMessage",
         Fits(task[h])'
  PROVE  MessageFound'
<1>1. ASSUME NEW g \in Handlers, g /= h
      PROVE  Fits(task[g])'
  <2>1. Fits(task[g]) /\ task'[g] = task[g]
    BY <1>1 DEF MessageFound, Moves
  <2> QED BY <1>1, <2>1 DEF Fits
<1>2. message.deleted => message.state \in Sent
  BY DEF MessageFound
<1>3. Shared \in objects => message.attached /\ message.state /= "none"
  BY DEF MessageFound
<1>4. message.state = "stored" /\ Shared \in objects => message.shared
  BY DEF MessageFound
<1>5. message.state = "draft" => \E g \in Handlers : task'[g].pc \in {"storeShared", "createMessage"}
  BY DEF MessageFound, Moves, Begun
<1>6. message.state = "dropped" /\ Shared \in objects =>
        \E g \in Handlers : task'[g].phase = "outer" /\ task'[g].pc /= "dropMessage"
  BY DEF MessageFound, Moves
<1>7. message.state = "stored" /\ message.deleted /\ Shared \in objects =>
        \E g \in Handlers : task'[g].op = "remove" /\ task'[g].pc \in {"findShared", "unstore"}
  BY DEF MessageFound, Moves
<1>8. message.state = "stored" /\ message.shared /\ ~message.deleted =>
        \/ Shared \in objects
        \/ \E g \in Handlers : task'[g].phase = "outer" /\ task'[g].pc = "dropMessage"
  BY DEF MessageFound, Moves
<1>9. \A g \in Handlers : Fits(task[g])'
  BY <1>1
<1> QED BY <1>2, <1>3, <1>4, <1>5, <1>6, <1>7, <1>8, <1>9 DEF MessageFound

\* A handler other than sendMail's goes on where it had to do with the message or not.
LEMMA QuietOther ==
  ASSUME MailInv, MailInv', MessageFound, NEW h \in Handlers, Moves(h),
         Shared \in objects' <=> Shared \in objects,
         UNCHANGED <<message.state, message.attached, message.shared, message.deleted>>,
         \A g \in Handlers : g /= h => \A m \in task[g].sent : Stored(m)' => Stored(m),
         task[h].op /= "send", task[h].pc /= "unstore",
         task[h].pc = "findShared" /\ message.state = "stored" /\ Shared \in objects =>
           task'[h].op = "remove" /\ task'[h].pc = "unstore",
         task'[h].op /= "send",
         task'[h].op \in {"recall", "remove", "fetch"} =>
           \/ message.state \in Sent
           \/ task[h].op \in {"recall", "remove", "fetch"},
         task'[h].pc = "forget" => Shared \notin objects,
         task'[h].op = "remove" /\ task'[h].pc \in {"findShared", "unstore"} =>
           task[h].op = "remove" /\ task[h].pc \in {"findShared", "unstore"}
  PROVE  MessageFound'
<1>1. PICK q : q = task'[h]
  OBVIOUS
<1>2. Placed(q) /\ Placed(task[h]) /\ Fits(task[h])
  <2>1. Placed(task[h])'
    BY DEF MailInv, MailType
  <2> QED BY <1>1, <2>1, Kept DEF Placed, MessageFound
<1>3. q.phase = "try" /\ q.sent = {} /\ task[h].phase = "try"
  BY <1>1, <1>2 DEF Placed
<1>4. /\ q.pc \notin Begun \cup {"dropMessage"}
      /\ task[h].pc \notin Begun \cup {"dropMessage"}
  BY <1>1, <1>2, OpOf DEF Begun
<1>5. Fits(task[h])'
  BY <1>1, <1>2, <1>3, <1>4 DEF Fits, Begun
<1> QED BY <1>3, <1>4, <1>5, QuietMessage

\* The steps of sendMail, and of a message before it is sent.
LEMMA SendMailMessage ==
  ASSUME MailInv, MailInv', MessageFound, NEW h \in Handlers, SendMail(h)
  PROVE  MessageFound'
<1>1. PICK to \in SUBSET Users, direct \in BOOLEAN, attached \in BOOLEAN :
        /\ Begin(h, [Idle EXCEPT !.op = "send", !.todo = to,
             !.pc = IF attached THEN "storeShared" ELSE "createMessage"])
        /\ message' = [message EXCEPT !.state = "draft", !.direct = direct,
                                      !.attached = attached]
  BY ZenonT(60) DEF SendMail
<1> DEFINE q == [Idle EXCEPT !.op = "send", !.todo = to,
               !.pc = IF attached THEN "storeShared" ELSE "createMessage"]
<1>2. /\ q.op = "send" /\ q.list = {} /\ q.phase = "try"
      /\ q.pc = IF attached THEN "storeShared" ELSE "createMessage"
  BY DEF Idle
<1>3. Begin(h, q)
  BY <1>1
<1> HIDE DEF q
<1>4. Moves(h) /\ task'[h] = q
  BY <1>3, BeginQ
<1>5. message.state = "none" /\ UNCHANGED <<objects, rows>>
  BY DEF SendMail
<1>6. /\ message'.state = "draft" /\ message'.attached = attached
      /\ UNCHANGED <<message.shared, message.deleted>>
  BY <1>1, Kept DEF Message
<1>7. Shared \notin objects /\ ~message.deleted
  BY <1>5 DEF MessageFound, Sent
<1>8. ASSUME NEW g \in Handlers, g /= h
      PROVE  Fits(task[g])'
  <2>1. task'[g] = task[g] /\ task[g].op \notin {"send", "recall", "remove", "fetch"}
    BY <1>5, <1>8, <1>4, BeforeSent DEF Moves, Sent
  <2> QED BY <1>8, <2>1, FitsOtherNext
<1>9. Fits(task[h])'
  BY <1>2, <1>4, <1>5, <1>6 DEF Fits
<1>10. \A g \in Handlers : Fits(task[g])'
  BY <1>8, <1>9
<1>11. task'[h].pc \in {"storeShared", "createMessage"}
  BY <1>2, <1>4
<1> QED BY <1>5, <1>6, <1>7, <1>10, <1>11 DEF MessageFound, Sent

LEMMA StoreSharedMessage ==
  ASSUME MailInv, MailInv', MessageFound, NEW h \in Handlers, StoreShared(h)
  PROVE  MessageFound'
<1> DEFINE r == task[h]
<1>1. /\ Placed(r) /\ r.pc = "storeShared" /\ r.op = "send" /\ "createMessage" \in PCs
      /\ Goto(h, "createMessage") /\ UNCHANGED <<rows, message>> /\ Fits(r)
      /\ objects' = objects \cup {Shared}
  BY Kept, OpOf DEF StoreShared, PCs, MessageFound
<1>2. LET q == task'[h] IN
      /\ Moves(h) /\ q.pc = "createMessage" /\ q.op = r.op
      /\ q.sent = r.sent /\ q.list = r.list /\ q.phase = r.phase
  BY <1>1, GotoQ
<1>3. message.state = "draft" /\ r.phase = "try" /\ message.attached
  BY <1>1 DEF Fits, Placed, Trying
<1>4. ASSUME NEW g \in Handlers, g /= h
      PROVE  Fits(task[g])'
  <2>1. task[g].op /= "send"
    BY <1>1, <1>4 DEF MailInv, OneMessage, Sends
  <2>2. task'[g].op \notin {"send", "recall", "remove", "fetch"}
    BY <1>2, <1>3, <1>4, <2>1, BeforeSent DEF Moves, Sent
  <2> QED BY <2>2, FitsOtherNext
<1>5. Fits(task[h])'
  <2>1. r.list \subseteq r.sent
    BY <1>1 DEF Fits
  <2> QED BY <1>1, <1>2, <1>3, <2>1 DEF Fits
<1>6. \A g \in Handlers : Fits(task[g])'
  BY <1>4, <1>5
<1>7. task'[h].pc \in {"storeShared", "createMessage"}
  BY <1>2
<1>8. ~message.deleted
  BY <1>3 DEF MessageFound, Sent
<1> QED BY <1>1, <1>3, <1>6, <1>7, <1>8 DEF MessageFound, Sent

LEMMA CreateMessageMessage ==
  ASSUME MailInv, MailInv', MessageFound, NEW h \in Handlers, CreateMessage(h)
  PROVE  MessageFound'
<1> DEFINE r == task[h]
<1>1. /\ Placed(r) /\ r.pc = "createMessage" /\ r.op = "send" /\ "put" \in PCs
      /\ Goto(h, "put") /\ UNCHANGED <<rows, objects>> /\ Fits(r)
  BY Kept, OpOf DEF CreateMessage, PCs, MessageFound
<1>2. LET q == task'[h] IN
      /\ Moves(h) /\ q.pc = "put" /\ q.op = r.op
      /\ q.sent = r.sent /\ q.list = r.list /\ q.phase = r.phase
  BY <1>1, GotoQ
<1>3. /\ message.state = "draft" /\ r.phase = "try" /\ r.list \subseteq r.sent
      /\ message.attached => Shared \in objects
  BY <1>1 DEF Fits, Placed, Trying
<1>4. /\ message'.state = "stored" /\ message'.shared = message.attached
      /\ UNCHANGED <<message.attached, message.deleted>>
  BY Kept DEF CreateMessage, Message
<1>5. ASSUME NEW g \in Handlers, g /= h
      PROVE  Fits(task[g])'
  <2>1. task[g].op /= "send"
    BY <1>1, <1>5 DEF MailInv, OneMessage, Sends
  <2>2. task'[g].op \notin {"send", "recall", "remove", "fetch"}
    BY <1>2, <1>3, <1>5, <2>1, BeforeSent DEF Moves, Sent
  <2> QED BY <2>2, FitsOtherNext
<1>6. Fits(task[h])'
  BY <1>1, <1>2, <1>3, <1>4 DEF Fits, Sent
<1>7. \A g \in Handlers : Fits(task[g])'
  BY <1>5, <1>6
<1>8. ~message.deleted /\ (Shared \in objects => message.attached)
  BY <1>3 DEF MessageFound, Sent
<1> QED BY <1>1, <1>3, <1>4, <1>7, <1>8 DEF MessageFound, Sent

\* The first half of the catch blocks' clean-up, when nothing refuses.
LEMMA DropMessageMessage ==
  ASSUME MailInv, MailInv', MessageFound, NEW h \in Handlers, DropMessage(h, TRUE)
  PROVE  MessageFound'
<1> DEFINE r == task[h]
           q == IF r.phase = "inner" THEN Catch(r, "outer") ELSE Idle
<1>1. /\ task \in [Handlers -> Task] /\ r \in Task /\ Placed(r) /\ r.pc = "dropMessage"
      /\ r.op = "send" /\ UNCHANGED <<rows, objects>> /\ Fits(r) /\ r.list = {}
      /\ r.phase \in {"inner", "outer"} /\ message.state \in Sent
  <2>1. /\ task \in [Handlers -> Task] /\ r \in Task /\ Placed(r) /\ r.pc = "dropMessage"
        /\ r.op = "send" /\ UNCHANGED <<rows, objects>> /\ Fits(r)
    BY OpOf DEF MailInv, MailType, DropMessage, MessageFound
  <2> QED BY <2>1 DEF Placed, Task, Trying, Fits
<1>2. task' = [task EXCEPT ![h] = q]
  BY DEF DropMessage
<1>3. IF r.phase = "inner"
      THEN q.op = "send" /\ q.sent = r.sent /\ q.phase = "outer" /\ Stands(q, r.sent)
      ELSE q = Idle
  <2>1. LET c == Catch(r, "outer") IN
        c.op = "send" /\ c.sent = r.sent /\ c.phase = "outer" /\ Stands(c, r.sent)
    BY <1>1, CatchQ
  <2> QED BY <2>1
<1> HIDE DEF q
<1>4. Moves(h) /\ task'[h] = q
  BY <1>1, <1>2 DEF Moves
<1>5. \A g \in Handlers : g /= h => task[g].op /= "send"
  BY <1>1 DEF MailInv, OneMessage, Sends
<1>6. /\ message'.state = "dropped" /\ UNCHANGED <<message.attached, message.deleted>>
      /\ message.state = "stored" => ~message'.shared
      /\ message.state /= "stored" => message'.shared = message.shared
  BY <1>1, Kept DEF DropMessage, Message, Sent
<1>7. /\ r.phase = "inner" => \A m \in r.sent : ~Stored(m)
      /\ r.phase = "outer" => Shared \notin objects
  BY <1>1 DEF Fits
<1>8. ASSUME NEW g \in Handlers, g /= h
      PROVE  Fits(task[g])'
  <2>1. Fits(task[g]) /\ task'[g] = task[g] /\ task[g].op /= "send" /\ Placed(task[g])
    BY <1>4, <1>5, <1>8, Kept DEF MessageFound, Moves
  <2>2. task[g].pc \notin Begun /\ task[g].phase = "try"
    BY <2>1, OpOf DEF Begun, Placed
  <2> QED BY <1>1, <1>6, <2>1, <2>2 DEF Fits, Sent, Begun
<1>9. Fits(task[h])'
  <2>1. CASE r.phase = "inner"
    <3>1. q.pc \in {"find", "unstore"} /\ q.list = r.sent
      BY <1>3, <2>1 DEF Stands
    <3>2. \A m \in r.sent : ~Stored(m)'
      BY <1>1, <1>7, <2>1 DEF Stored
    <3> QED BY <1>3, <1>4, <1>6, <2>1, <3>1, <3>2 DEF Fits, Sent
  <2>2. CASE r.phase /= "inner"
    BY <1>3, <1>4, <2>2, IdleApart, FitsOtherNext
  <2> QED BY <2>1, <2>2
<1>10. \A g \in Handlers : Fits(task[g])'
  BY <1>8, <1>9
<1>11. Shared \in objects => task'[h].phase = "outer" /\ task'[h].pc /= "dropMessage"
  <2>1. r.phase = "inner" => q.pc \in {"find", "unstore"}
    BY <1>3 DEF Stands
  <2> QED BY <1>1, <1>3, <1>4, <1>7, <2>1
<1>12. Shared \in objects => message.attached
  BY DEF MessageFound
<1> QED BY <1>1, <1>6, <1>10, <1>11, <1>12 DEF MessageFound, Sent

\* The attachment goes.
LEMMA UnstoreMessage ==
  ASSUME MailInv, MailInv', MessageFound, NEW h \in Handlers, Unstore(h, TRUE)
  PROVE  MessageFound'
<1> DEFINE r == task[h]
<1>1. /\ Placed(r) /\ r.pc = "unstore" /\ r.op \in {"send", "remove"}
      /\ UNCHANGED <<rows, message>> /\ Fits(r) /\ Shared \notin objects' /\ "dropMessage" \in PCs
  BY Kept, OpOf DEF Unstore, MessageFound, PCs
<1>2. /\ message.state \in Sent /\ (r.op = "remove" => message.deleted)
      /\ r.op = "send" => r.phase = "outer"
  BY <1>1 DEF Fits, Placed
<1>3. Moves(h) /\ IF r.op = "send"
                  THEN LET q == task'[h] IN
                       /\ q.pc = "dropMessage" /\ q.op = r.op
                       /\ q.sent = r.sent /\ q.list = r.list /\ q.phase = r.phase
                  ELSE task'[h] = Idle
  BY <1>1, GotoQ, FinishQ DEF Unstore
<1>4. ASSUME NEW g \in Handlers, g /= h
      PROVE  Fits(task[g])'
  <2>1. Fits(task[g]) /\ task'[g] = task[g]
    BY <1>3, <1>4 DEF MessageFound, Moves
  <2>2. task[g].pc \notin Begun
    BY <1>2, <2>1 DEF Begun, Fits, Sent
  <2> QED BY <1>1, <2>1, <2>2 DEF Fits, Begun, Stored
<1>5. Fits(task[h])'
  <2>1. CASE r.op = "send"
    BY <1>1, <1>2, <1>3, <2>1 DEF Fits, Stored
  <2>2. CASE r.op /= "send"
    BY <1>3, <2>2, IdleApart, FitsOtherNext
  <2> QED BY <2>1, <2>2
<1>6. \A g \in Handlers : Fits(task[g])'
  BY <1>4, <1>5
<1>7. message.state = "stored" /\ message.shared /\ ~message.deleted =>
        task'[h].phase = "outer" /\ task'[h].pc = "dropMessage"
  BY <1>1, <1>2, <1>3
<1>8. message.state /= "draft" /\ (message.deleted => message.state \in Sent)
  BY <1>2 DEF Sent
<1> QED BY <1>1, <1>6, <1>7, <1>8 DEF MessageFound

LEMMA ForgetMessage ==
  ASSUME MailInv, MailInv', MessageFound, NEW h \in Handlers, Forget(h)
  PROVE  MessageFound'
<1> DEFINE r == task[h]
<1>1. /\ r.pc = "forget" /\ UNCHANGED <<rows, objects>> /\ Shared \notin objects
      /\ Placed(r) /\ r.op = "fetch" /\ message.state \in Sent
  BY Kept, OpOf DEF Forget, MessageFound, Fits
<1>2. Moves(h) /\ task'[h] = Idle
  BY FinishQ DEF Forget
<1>3. ~message'.shared /\ UNCHANGED <<message.state, message.attached, message.deleted>>
  BY Kept DEF Forget, Message
<1>4. ASSUME NEW g \in Handlers, g /= h
      PROVE  Fits(task[g])'
  <2>1. Fits(task[g]) /\ task'[g] = task[g]
    BY <1>2, <1>4 DEF MessageFound, Moves
  <2> QED BY <1>1, <1>3, <2>1 DEF Fits, Stored
<1>5. Fits(task[h])'
  BY <1>2, IdleApart, FitsOtherNext
<1>6. \A g \in Handlers : Fits(task[g])'
  BY <1>4, <1>5
<1>7. message.state /= "draft" /\ (message.deleted => message.state \in Sent)
  BY <1>1 DEF Sent
<1> QED BY <1>1, <1>3, <1>6, <1>7 DEF MessageFound

LEMMA MarkMessageMessage ==
  ASSUME MailInv, MailInv', MessageFound, NEW h \in Handlers, MarkMessage(h)
  PROVE  MessageFound'
<1> DEFINE r == task[h]
<1>1. /\ Placed(r) /\ r.pc \in {"markRecalled", "markDeleted", "hide"} /\ "findShared" \in PCs
      /\ r.op \in {"recall", "remove"} /\ UNCHANGED <<rows, objects>> /\ Fits(r) /\ r.phase = "try"
  BY Kept, OpOf DEF MarkMessage, MessageFound, PCs, Placed
<1>2. CASE message.state /= "stored"
  <2>1. Finish(h) /\ UNCHANGED message
    BY <1>2 DEF MarkMessage
  <2> QED BY <1>1, <2>1, FinishQ, IdleApart, QuietOther DEF Stored
<1>3. CASE message.state = "stored"
  <2>1. /\ message'.deleted = (message.deleted \/ r.op = "remove")
        /\ UNCHANGED <<message.state, message.attached, message.shared>>
    BY <1>3, Kept DEF MarkMessage, Message
  <2>2. Moves(h) /\ IF r.op = "remove"
                    THEN LET q == task'[h] IN
                         /\ q.pc = "findShared" /\ q.op = r.op
                         /\ q.sent = r.sent /\ q.list = r.list /\ q.phase = r.phase
                    ELSE task'[h] = Idle
    BY <1>1, <1>3, GotoQ, FinishQ DEF MarkMessage
  <2>3. ASSUME NEW g \in Handlers, g /= h
        PROVE  Fits(task[g])'
    <3>1. Fits(task[g]) /\ task'[g] = task[g]
      BY <2>2, <2>3 DEF MessageFound, Moves
    <3> QED BY <1>1, <2>1, <3>1 DEF Fits, Stored
  <2>4. Fits(task[h])'
    <3>1. CASE r.op = "remove"
      BY <1>1, <1>3, <2>1, <2>2, <3>1 DEF Fits, Sent
    <3>2. CASE r.op /= "remove"
      BY <2>2, <3>2, IdleApart, FitsOtherNext
    <3> QED BY <3>1, <3>2
  <2>5. \A g \in Handlers : Fits(task[g])'
    BY <2>3, <2>4
  <2>6. Shared \in objects => message.attached /\ message.shared
    BY <1>3 DEF MessageFound
  <2>7. message'.deleted /\ Shared \in objects =>
          \E g \in Handlers : task'[g].op = "remove" /\ task'[g].pc \in {"findShared", "unstore"}
    <3>1. CASE r.op = "remove"
      BY <2>2, <3>1
    <3>2. CASE r.op /= "remove"
      BY <1>1, <1>3, <2>1, <2>2, <3>2 DEF MessageFound, Moves
    <3> QED BY <3>1, <3>2
  <2>8. message.shared /\ ~message'.deleted =>
          \/ Shared \in objects
          \/ \E g \in Handlers : task'[g].phase = "outer" /\ task'[g].pc = "dropMessage"
    BY <1>1, <1>3, <2>1, <2>2 DEF MessageFound, Moves
  <2> QED BY <1>1, <1>3, <2>1, <2>5, <2>6, <2>7, <2>8 DEF MessageFound, Sent
<1> QED BY <1>2, <1>3

\* The steps of the other handlers, and those of sendMail before it has failed.
LEMMA BeginMessage ==
  ASSUME MailInv, MailInv', MessageFound, NEW h \in Handlers, NEW q, Begin(h, q),
         UNCHANGED <<rows, objects>>,
         UNCHANGED <<message.state, message.attached, message.shared, message.deleted>>,
         q.op /= "send", q.op \in {"recall", "remove", "fetch"} => message.state \in Sent,
         q.pc \notin {"forget", "findShared", "unstore"}
  PROVE  MessageFound'
<1>1. Moves(h) /\ task'[h] = q /\ task[h] = Idle
  BY BeginQ
<1> QED BY <1>1, IdleApart, QuietOther DEF Stored

LEMMA CallsMessage ==
  ASSUME MailInv, MailInv', MessageFound, NEW h \in Handlers, Arrive(h), ~SendMail(h)
  PROVE  MessageFound'
<1>1. UNCHANGED <<rows, objects>>
  BY DEF Arrive, Recall, RemoveMessage, FetchShared, DeleteMail, BulkDelete, Purge, IncomingMail
<1>2. UNCHANGED <<message.state, message.attached, message.shared, message.deleted>>
  <2>1. CASE Recall(h) \/ RemoveMessage(h)
    BY <2>1, Kept DEF Recall, RemoveMessage, Message
  <2>2. CASE ~(Recall(h) \/ RemoveMessage(h))
    BY <2>2 DEF Arrive, FetchShared, DeleteMail, BulkDelete, Purge, IncomingMail
  <2> QED BY <2>1, <2>2
<1>3. CASE Recall(h) \/ RemoveMessage(h) \/ FetchShared(h)
  <2>1. PICK op \in {"recall", "remove", "fetch"}, pc \in {"list", "hide", "fetch"} :
          Begin(h, [Idle EXCEPT !.op = op, !.pc = pc])
    BY <1>3 DEF Recall, RemoveMessage, FetchShared
  <2> DEFINE q == [Idle EXCEPT !.op = op, !.pc = pc]
  <2>2. q.op = op /\ q.pc = pc
    BY DEF Idle
  <2>3. Begin(h, q) /\ message.state \in Sent
    BY <1>3, <2>1 DEF Recall, RemoveMessage, FetchShared, Sent
  <2> HIDE DEF q
  <2> QED BY <1>1, <1>2, <2>2, <2>3, BeginMessage
<1>4. CASE DeleteMail(h)
  <2>1. PICK m \in Mails :
          Begin(h, [Idle EXCEPT !.op = "delete", !.pc = "find", !.list = {m}])
    BY <1>4 DEF DeleteMail
  <2> DEFINE q == [Idle EXCEPT !.op = "delete", !.pc = "find", !.list = {m}]
  <2>2. q.op = "delete" /\ q.pc = "find"
    BY DEF Idle
  <2>3. Begin(h, q)
    BY <2>1
  <2> HIDE DEF q
  <2> QED BY <1>1, <1>2, <2>2, <2>3, BeginMessage
<1>5. CASE BulkDelete(h)
  <2>0. PICK u \in Users : \E some \in SUBSET MailsOf(u) :
          Begin(h, [Idle EXCEPT !.op = "bulk", !.pc = "eraseAll", !.user = u, !.list = some])
    BY <1>5 DEF BulkDelete
  <2>1. PICK some \in SUBSET MailsOf(u) :
          Begin(h, [Idle EXCEPT !.op = "bulk", !.pc = "eraseAll", !.user = u, !.list = some])
    BY <2>0
  <2> DEFINE q == [Idle EXCEPT !.op = "bulk", !.pc = "eraseAll", !.user = u, !.list = some]
  <2>2. q.op = "bulk" /\ q.pc = "eraseAll"
    BY DEF Idle
  <2>3. Begin(h, q)
    BY <2>1
  <2> HIDE DEF q
  <2> QED BY <1>1, <1>2, <2>2, <2>3, BeginMessage
<1>6. CASE Purge(h)
  <2>1. PICK u \in Users, op \in {"clear", "close"} :
          Begin(h, [Idle EXCEPT !.op = op, !.pc = "eraseAll", !.user = u, !.list = MailsOf(u)])
    BY <1>6 DEF Purge
  <2> DEFINE q == [Idle EXCEPT !.op = op, !.pc = "eraseAll", !.user = u, !.list = MailsOf(u)]
  <2>2. q.op = op /\ q.pc = "eraseAll"
    BY DEF Idle
  <2>3. Begin(h, q)
    BY <2>1
  <2> HIDE DEF q
  <2> QED BY <1>1, <1>2, <2>2, <2>3, BeginMessage
<1>7. CASE IncomingMail(h)
  <2>1. PICK u \in Users :
          Begin(h, [Idle EXCEPT !.op = "inbound", !.pc = "usage", !.todo = {u}])
    BY <1>7 DEF IncomingMail
  <2> DEFINE q == [Idle EXCEPT !.op = "inbound", !.pc = "usage", !.todo = {u}]
  <2>2. q.op = "inbound" /\ q.pc = "usage"
    BY DEF Idle
  <2>3. Begin(h, q)
    BY <2>1
  <2> HIDE DEF q
  <2> QED BY <1>1, <1>2, <2>2, <2>3, BeginMessage
<1> QED BY <1>3, <1>4, <1>5, <1>6, <1>7 DEF Arrive

\* Steps to a place within an operation, or to its end.
LEMMA WalkMessage ==
  ASSUME MailInv, MailInv', MessageFound, NEW h \in Handlers,
         \/ PutAttachment(h) \/ FindShared(h) \/ Fetch(h) \/ CheckQuota(h) \/ DropAll(h)
         \/ EraseAll(h, {})
  PROVE  MessageFound'
<1> DEFINE r == task[h]
<1>1. Placed(r) /\ UNCHANGED message
      /\ r.pc \in {"putAttachment", "findShared", "fetch", "usage", "dropAll", "eraseAll"}
      /\ \A m \in Mails : Stored(m)' => Stored(m)
  BY Kept DEF PutAttachment, FindShared, Fetch, CheckQuota, DropAll, EraseAll, Stored
<1>2. r.op /= "send" /\ \A g \in Handlers : task[g].sent \subseteq Mails
  BY <1>1, OpOf DEF MailInv, MailType, Task
<1>3. Shared \in objects' <=> Shared \in objects
  <2>1. CASE PutAttachment(h)
    <3>1. r.mail \in Mails /\ objects' = objects \cup {<<r.mail, "attachment">>}
      BY <1>1, <2>1 DEF PutAttachment, Placed
    <3> QED BY <3>1, MailAssumption DEF Shared
  <2>2. CASE EraseAll(h, {})
    <3>1. r.list \subseteq Mails /\ objects' = objects \ UNION {Parts(m) : m \in r.list}
      BY <2>2 DEF EraseAll, MailInv, MailType, Task
    <3> QED BY <3>1, SharedApart
  <2>3. CASE ~PutAttachment(h) /\ ~EraseAll(h, {})
    BY <2>3 DEF FindShared, Fetch, CheckQuota, DropAll
  <2> QED BY <2>1, <2>2, <2>3
<1>4. PICK next \in {"create", "unstore", "forget", "put", "dropAll"} :
        /\ Goto(h, next) \/ Finish(h)
        /\ next = "unstore" => r.pc = "findShared"
        /\ next = "forget" => Shared \notin objects
        /\ r.pc = "findShared" /\ message.shared => next = "unstore" /\ Goto(h, next)
  BY DEF PutAttachment, FindShared, Fetch, CheckQuota, DropAll, EraseAll
<1>5. next \in PCs
  BY DEF PCs
<1>6. /\ Moves(h)
      /\ \/ task'[h] = Idle /\ ~(r.pc = "findShared" /\ message.shared)
         \/ task'[h].pc = next /\ task'[h].op = r.op
  <2>1. CASE Goto(h, next)
    BY <1>5, <2>1, GotoQ
  <2>2. CASE Finish(h) /\ ~(r.pc = "findShared" /\ message.shared)
    BY <2>2, FinishQ
  <2> QED BY <1>4, <2>1, <2>2
<1>7. r.pc = "findShared" => r.op = "remove"
  BY <1>1, OpOf
<1>8. message.state = "stored" /\ Shared \in objects => message.shared
  BY DEF MessageFound
<1>9. task'[h].op \in {"none", r.op} /\ task'[h].pc \in {"idle", next}
  BY <1>6, IdleApart
<1> QED BY <1>1, <1>2, <1>3, <1>4, <1>6, <1>7, <1>8, <1>9, IdleApart, QuietOther

LEMMA AuditMessage ==
  ASSUME MailInv, MailInv', MessageFound, NEW h \in Handlers, Audit(h)
  PROVE  MessageFound'
<1>1. /\ Moves(h) /\ task'[h] = Idle /\ task[h].pc = "audit" /\ Placed(task[h])
      /\ UNCHANGED <<rows, objects, message>>
  BY Kept, FinishQ DEF Audit
<1>2. task[h].phase = "try"
  BY <1>1, OpOf DEF Placed, Trying
<1>3. Fits(task[h])'
  BY <1>1, IdleApart, FitsOtherNext
<1> QED BY <1>1, <1>2, <1>3, QuietMessage DEF Begun, Stored

LEMMA PutBodyMessage ==
  ASSUME MailInv, MailInv', MessageFound, NEW h \in Handlers, PutBody(h)
  PROVE  MessageFound'
<1> DEFINE r == task[h]
<1>1. /\ task \in [Handlers -> Task] /\ r \in Task /\ Placed(r) /\ r.pc = "put"
      /\ r.op \in {"send", "inbound"} /\ UNCHANGED <<rows, message>> /\ Fits(r)
  BY OpOf DEF MailInv, MailType, PutBody, MessageFound
<1>2. PICK m \in Mails, u \in r.todo :
        /\ objects' = objects \cup {<<m, "body">>}
        /\ task' = [task EXCEPT ![h].mail = m, ![h].user = u,
             ![h].pc = IF r.op = "inbound" THEN "putAttachment" ELSE "create"]
  BY DEF PutBody
<1> DEFINE pc == IF r.op = "inbound" THEN "putAttachment" ELSE "create"
           q == [r EXCEPT !.mail = m, !.user = u, !.pc = pc]
<1>3. task' = [task EXCEPT ![h] = q]
  BY <1>2
<1>4. /\ q.pc = pc /\ q.op = r.op /\ q.sent = r.sent /\ q.list = r.list /\ q.phase = r.phase
  <2> HIDE DEF pc
  <2> QED BY <1>1 DEF Task
<1>5. pc \in {"putAttachment", "create"}
  OBVIOUS
<1> HIDE DEF q, pc
<1>6. Moves(h) /\ task'[h] = q
  BY <1>1, <1>3 DEF Moves
<1>7. Shared \in objects' <=> Shared \in objects
  BY <1>2, MailAssumption DEF Shared
<1>8. r.phase = "try"
  BY <1>1 DEF Placed, Trying
<1>9. Fits(task[h])'
  BY <1>1, <1>4, <1>5, <1>6, <1>8 DEF Fits
<1> QED BY <1>1, <1>6, <1>7, <1>8, <1>9, QuietMessage DEF Begun, Stored

LEMMA CreateMailMessage ==
  ASSUME MailInv, MailInv', MessageFound, MailsFound, NEW h \in Handlers, CreateMail(h)
  PROVE  MessageFound'
<1> DEFINE r == task[h]
<1>1. /\ task \in [Handlers -> Task] /\ r \in Task /\ Placed(r) /\ r.pc = "create"
      /\ r.op \in {"send", "inbound"} /\ UNCHANGED <<objects, message>> /\ Fits(r) /\ Making(r)
      /\ rows \in [Mails -> Row \cup {None}]
  BY OpOf DEF MailInv, MailType, CreateMail, MessageFound, Making
<1>2. r.phase = "try"
  BY <1>1 DEF Placed, Trying
<1>3. PICK m : m = r.mail
  OBVIOUS
<1>4. \A n \in Mails : n /= m => (Stored(n)' => Stored(n))
  <2>1. PICK new : rows' = [rows EXCEPT ![m] = new]
    BY <1>3 DEF CreateMail
  <2> QED BY <1>1, <2>1 DEF Stored
<1>5. \A g \in Handlers : m \notin task[g].sent /\ task[g].sent \subseteq Mails
  BY <1>1, <1>3, MakingFacts DEF Task
<1>6. \A g \in Handlers : \A n \in task[g].sent : Stored(n)' => Stored(n)
  BY <1>4, <1>5
<1>7. /\ Moves(h)
      /\ \/ task'[h] = Idle
         \/ LET q == task'[h] IN
            /\ r.op = "send" /\ q.pc = "record" /\ q.op = r.op /\ q.sent = r.sent \cup {m}
            /\ q.list = r.list /\ q.phase = r.phase
  <2>1. CASE r.op = "inbound"
    BY <2>1, FinishQ DEF CreateMail
  <2>2. CASE r.op /= "inbound"
    <3> DEFINE q == [r EXCEPT !.pc = "record", !.sent = r.sent \cup {m}]
    <3>1. task' = [task EXCEPT ![h] = q]
      BY <1>3, <2>2 DEF CreateMail
    <3>2. /\ q.pc = "record" /\ q.op = r.op /\ q.list = r.list /\ q.phase = r.phase
          /\ q.sent = r.sent \cup {m}
      BY <1>1 DEF Task
    <3> HIDE DEF q
    <3>3. Moves(h) /\ task'[h] = q
      BY <1>1, <3>1 DEF Moves
    <3> QED BY <1>1, <2>2, <3>2, <3>3
  <2> QED BY <2>1, <2>2
<1>8. Fits(task[h])'
  <2>1. CASE task'[h] = Idle
    BY <2>1, IdleApart, FitsOtherNext
  <2>2. CASE task'[h] /= Idle
    BY <1>1, <1>2, <1>7, <2>2 DEF Fits
  <2> QED BY <2>1, <2>2
<1> QED BY <1>1, <1>2, <1>6, <1>7, <1>8, QuietMessage DEF Begun

LEMMA ListCopiesMessage ==
  ASSUME MailInv, MailInv', MessageFound, NEW h \in Handlers, ListCopies(h)
  PROVE  MessageFound'
<1> DEFINE r == task[h]
           copies == {d.mail : d \in deliveries} \ {None}
           s == [r EXCEPT !.list = copies]
           q == Loop(s)
<1>1. /\ task \in [Handlers -> Task] /\ r \in Task /\ Placed(r) /\ r.pc = "list"
      /\ r.op \in {"recall", "remove"} /\ UNCHANGED <<rows, message, objects>>
  BY OpOf DEF MailInv, MailType, ListCopies
<1>2. task' = [task EXCEPT ![h] = q]
  BY DEF ListCopies
<1>3. copies \in SUBSET Mails
  BY Kept DEF Delivery
<1> HIDE DEF copies
<1>4. /\ s \in Task /\ s.op = r.op /\ s.sent = r.sent /\ s.list = copies /\ s.phase = r.phase
  BY <1>1, <1>3, ListSet
<1> HIDE DEF s
<1>5. /\ s.op \in {"send", "recall", "remove", "delete"} /\ s.op /= "delete"
      /\ s.op = "send" <=> s.phase \in {"inner", "outer"}
      /\ s.op /= "send" => s.sent = {}
  BY <1>1, <1>4 DEF Placed
<1>6. q.op = r.op /\ Stands(q, copies)
  BY <1>4, <1>5, LoopQ
<1> HIDE DEF q
<1>7. Moves(h) /\ task'[h] = q /\ q.pc \in {"find", "markRecalled", "markDeleted"}
  BY <1>1, <1>2, <1>6 DEF Moves, Stands
<1> QED BY <1>1, <1>6, <1>7, QuietOther DEF Stored

LEMMA RecordMessage ==
  ASSUME MailInv, MailInv', MessageFound, NEW h \in Handlers, RecordDelivery(h)
  PROVE  MessageFound'
<1> DEFINE r == task[h]
<1>1. /\ task \in [Handlers -> Task] /\ r \in Task /\ Placed(r) /\ r.pc = "record"
      /\ r.op = "send" /\ UNCHANGED <<rows, objects>> /\ Fits(r) /\ r.phase = "try"
  BY OpOf DEF MailInv, MailType, RecordDelivery, MessageFound, Placed, Trying
<1>2. message.state \in Sent /\ message.state /= "dropped"
  BY <1>1 DEF Fits
<1>3. CASE Stored(r.mail)
  <2> DEFINE left == r.todo \ {r.user}
             pc == IF left = {} THEN "audit" ELSE "put"
             q == [r EXCEPT !.pc = pc, !.todo = left, !.user = None, !.mail = None]
  <2>1. task' = [task EXCEPT ![h] = q] /\ message' = message
    BY <1>3 DEF RecordDelivery
  <2>2. q.pc = pc /\ q.op = r.op /\ q.sent = r.sent /\ q.list = r.list /\ q.phase = r.phase
    <3> HIDE DEF pc, left
    <3> QED BY <1>1 DEF Task
  <2>3. pc \in {"audit", "put"}
    OBVIOUS
  <2> HIDE DEF q, pc, left
  <2>4. Moves(h) /\ task'[h] = q
    BY <1>1, <2>1 DEF Moves
  <2>5. Fits(task[h])'
    BY <1>1, <1>2, <2>1, <2>2, <2>3, <2>4 DEF Fits
  <2> QED BY <1>1, <2>1, <2>4, <2>5, QuietMessage DEF Begun, Stored
<1>4. CASE ~Stored(r.mail)
  <2>1. Throw(h)
    BY <1>4 DEF RecordDelivery
  <2>2. LET q == task'[h] IN
        /\ Moves(h) /\ q.op = "send" /\ q.sent = r.sent /\ q.phase = "inner" /\ Stands(q, r.sent)
        /\ UNCHANGED <<message.state, message.attached, message.shared, message.deleted>>
    BY <1>1, <2>1, ThrowQ
  <2>3. task'[h].pc \in {"find", "dropMessage"} /\ task'[h].list = r.sent
    BY <2>2 DEF Stands
  <2>4. Fits(task[h])'
    BY <1>1, <1>2, <2>2, <2>3 DEF Fits
  <2> QED BY <1>1, <2>2, <2>4, QuietMessage DEF Begun, Stored
<1> QED BY <1>3, <1>4

\* The loops over mails. A sender that has dropped its message finds none of them.
LEMMA FindMailMessage ==
  ASSUME MailInv, MailInv', MessageFound, NEW h \in Handlers, FindMail(h)
  PROVE  MessageFound'
<1> DEFINE r == task[h]
<1>1. /\ task \in [Handlers -> Task] /\ r \in Task /\ Placed(r) /\ r.pc = "find"
      /\ r.op \in {"send", "recall", "remove", "delete"} /\ Fits(r)
      /\ UNCHANGED <<rows, message, objects>>
  BY OpOf DEF MailInv, MailType, FindMail, MessageFound, Looping
<1>2. /\ r.op = "send" => r.phase \in {"inner", "outer"} /\ message.state \in Sent
      /\ r.op /= "send" => r.phase = "try" /\ r.sent = {}
  BY <1>1 DEF Fits, Placed, Task, Trying
<1>3. PICK m \in r.list :
        task' = [task EXCEPT ![h] =
          IF Stored(m) THEN [r EXCEPT !.pc = "erase", !.mail = m]
          ELSE Loop([r EXCEPT !.mail = m, !.list = r.list \ {m}])]
  BY DEF FindMail
<1> DEFINE s == [r EXCEPT !.mail = m, !.list = r.list \ {m}]
           q == IF Stored(m) THEN [r EXCEPT !.pc = "erase", !.mail = m] ELSE Loop(s)
<1>4. Moves(h) /\ task'[h] = q
  <2>1. task' = [task EXCEPT ![h] = q]
    BY <1>3
  <2> HIDE DEF q
  <2> QED BY <1>1, <2>1 DEF Moves
<1>5. CASE Stored(m)
  <2>1. q.pc = "erase" /\ q.op = r.op /\ q.sent = r.sent /\ q.list = r.list /\ q.phase = r.phase
    BY <1>1, <1>5 DEF Task
  <2> HIDE DEF q
  <2>2. r.op = "send" => message.state /= "dropped"
    BY <1>1, <1>5 DEF Fits
  <2>3. Fits(task[h])'
    BY <1>1, <1>2, <1>4, <2>1, <2>2 DEF Fits, Stored
  <2> QED BY <1>1, <1>2, <1>4, <2>1, <2>2, <2>3, QuietMessage DEF Begun, Stored
<1>6. CASE ~Stored(m)
  <2>1. m \in Mails /\ r.list \ {m} \in SUBSET Mails
    BY <1>1 DEF Task
  <2>2. /\ s \in Task /\ s.op = r.op /\ s.sent = r.sent /\ s.list = r.list \ {m}
        /\ s.phase = r.phase
    <3>1. r \in Task
      BY <1>1
    <3> HIDE DEF r
    <3> QED BY <2>1, <3>1 DEF Task
  <2>3. q = Loop(s)
    BY <1>6
  <2> HIDE DEF q, s
  <2>4. /\ s.op \in {"send", "recall", "remove", "delete"}
        /\ s.op = "send" <=> s.phase \in {"inner", "outer"}
        /\ s.op /= "send" => s.sent = {}
    BY <1>1, <1>2, <2>2
  <2>5. \/ q = Idle /\ r.op = "delete"
        \/ q.op = r.op /\ q.sent = r.sent /\ q.phase = r.phase /\ Stands(q, r.list \ {m})
    BY <2>2, <2>3, <2>4, LoopQ
  <2>6. CASE q = Idle /\ r.op = "delete"
    <3>1. Fits(task[h])'
      BY <1>4, <2>6, IdleApart, FitsOtherNext
    <3> QED BY <1>1, <1>2, <1>4, <2>6, <3>1, QuietMessage DEF Begun, Stored
  <2>7. CASE q.op = r.op /\ q.sent = r.sent /\ q.phase = r.phase /\ Stands(q, r.list \ {m})
    <3>1. /\ q.list = r.list \ {m}
          /\ q.pc \in {"find", "dropMessage", "unstore", "markRecalled", "markDeleted"}
          /\ q.pc = "dropMessage" => q.phase = "inner"
          /\ q.pc = "unstore" => q.op = "send"
      BY <2>7 DEF Stands
    <3>2. Fits(task[h])'
      BY <1>1, <1>2, <1>4, <1>6, <2>7, <3>1 DEF Fits, Stored
    <3> QED BY <1>1, <1>2, <1>4, <2>7, <3>1, <3>2, QuietMessage DEF Begun, Stored
  <2> QED BY <2>5, <2>6, <2>7
<1> QED BY <1>5, <1>6

LEMMA EraseMailMessage ==
  ASSUME MailInv, MailInv', MessageFound, NEW h \in Handlers, EraseMail(h, {})
  PROVE  MessageFound'
<1> DEFINE r == task[h]
<1>1. /\ r \in Task /\ Placed(r) /\ r.pc = "erase" /\ "drop" \in PCs
      /\ r.op \in {"send", "recall", "remove", "delete"} /\ Fits(r)
      /\ UNCHANGED <<rows, message>> /\ Goto(h, "drop") /\ objects' = objects \ Parts(r.mail)
  BY OpOf DEF MailInv, MailType, EraseMail, MessageFound, Looping, PCs
<1>2. LET q == task'[h] IN
      /\ Moves(h) /\ q.pc = "drop" /\ q.op = r.op
      /\ q.sent = r.sent /\ q.list = r.list /\ q.phase = r.phase
  BY <1>1, GotoQ
<1>3. r.mail \in Mails
  BY <1>1 DEF Placed, Task
<1>4. Shared \in objects' <=> Shared \in objects
  BY <1>1, <1>3, SharedApart
<1>5. /\ r.op /= "send" => r.phase = "try"
      /\ r.op = "send" => message.state \in Sent \ {"dropped"}
  BY <1>1 DEF Fits, Placed
<1>6. Fits(task[h])'
  BY <1>1, <1>2, <1>5 DEF Fits, Stored
<1> QED BY <1>1, <1>2, <1>4, <1>5, <1>6, QuietMessage DEF Begun, Stored

LEMMA DropMailMessage ==
  ASSUME MailInv, MailInv', MessageFound, NEW h \in Handlers, DropMail(h)
  PROVE  MessageFound'
<1> DEFINE r == task[h]
<1>1. /\ task \in [Handlers -> Task] /\ r \in Task /\ Placed(r) /\ r.pc = "drop"
      /\ r.op \in {"send", "recall", "remove", "delete"} /\ Fits(r)
      /\ UNCHANGED objects /\ rows \in [Mails -> Row \cup {None}]
  BY OpOf DEF MailInv, MailType, DropMail, MessageFound, Looping
<1>2. /\ r.op = "send" => r.phase \in {"inner", "outer"} /\ message.state \in Sent
      /\ r.op /= "send" => r.phase = "try" /\ r.sent = {}
      /\ r.op = "send" => message.state /= "dropped" /\ r.list \subseteq r.sent
      /\ r.phase = "inner" => \A n \in r.sent : n \in r.list \/ ~Stored(n)
  BY <1>1 DEF Fits, Placed, Task, Trying
<1>3. PICK m : m = r.mail
  OBVIOUS
<1>4. m \in Mails /\ m \in r.list /\ r.list \subseteq Mails
  BY <1>1, <1>3 DEF Placed, Task
<1>5. CASE ~Stored(m)
  <2>1. Throw(h) /\ UNCHANGED rows
    BY <1>3, <1>5 DEF DropMail
  <2>2. LET q == task'[h] IN
        /\ Moves(h)
        /\ \/ q = Idle /\ (r.op /= "send" \/ r.phase = "outer")
           \/ r.op = "send" /\ q.op = "send" /\ q.sent = r.sent /\ q.phase = "outer"
              /\ Stands(q, r.sent)
        /\ UNCHANGED <<message.state, message.attached, message.shared, message.deleted>>
    BY <1>1, <2>1, ThrowQ
  <2>3. Fits(task[h])'
    <3>1. CASE task'[h] = Idle
      BY <3>1, IdleApart, FitsOtherNext
    <3>2. CASE task'[h] /= Idle
      <4>1. /\ task'[h].pc \in {"find", "unstore"} /\ task'[h].list = r.sent
            /\ task'[h].op = "send" /\ task'[h].phase = "outer" /\ task'[h].sent = r.sent
        BY <2>2, <3>2 DEF Stands
      <4> QED BY <1>1, <1>2, <2>2, <3>2, <4>1 DEF Fits
    <3> QED BY <3>1, <3>2
  <2>4. ~(r.phase = "outer" /\ message.state = "dropped")
    BY <1>1, <1>2
  <2> QED BY <1>1, <2>1, <2>2, <2>3, <2>4, QuietMessage DEF Begun, Stored
<1>6. CASE Stored(m)
  <2> DEFINE s == [r EXCEPT !.list = r.list \ {m}]
             q == Loop(s)
  <2>1. rows' = [rows EXCEPT ![m] = None] /\ task' = [task EXCEPT ![h] = q] /\ message' = message
    BY <1>3, <1>6 DEF DropMail
  <2>2. /\ s \in Task /\ s.op = r.op /\ s.sent = r.sent /\ s.list = r.list \ {m}
        /\ s.phase = r.phase
    <3>1. r.list \ {m} \in SUBSET Mails
      BY <1>1 DEF Task
    <3>2. r \in Task
      BY <1>1
    <3> HIDE DEF r
    <3> QED BY <3>1, <3>2 DEF Task
  <2> HIDE DEF s
  <2>3. /\ s.op \in {"send", "recall", "remove", "delete"}
        /\ s.op = "send" <=> s.phase \in {"inner", "outer"}
        /\ s.op /= "send" => s.sent = {}
    BY <1>1, <1>2, <2>2
  <2>4. \/ q = Idle /\ r.op = "delete"
        \/ q.op = r.op /\ q.sent = r.sent /\ q.phase = r.phase /\ Stands(q, r.list \ {m})
    BY <2>2, <2>3, LoopQ
  <2> HIDE DEF q
  <2>5. Moves(h) /\ task'[h] = q
    BY <1>1, <2>1 DEF Moves
  <2>6. ~Stored(m)' /\ \A n \in Mails : Stored(n)' => Stored(n)
    BY <1>1, <1>4, <2>1 DEF Stored
  <2>7. \A g \in Handlers : \A n \in task[g].sent : Stored(n)' => Stored(n)
    BY <2>6 DEF MailInv, MailType, Task
  <2>8. Fits(task[h])'
    <3>1. CASE q = Idle
      BY <2>5, <3>1, IdleApart, FitsOtherNext
    <3>2. CASE q /= Idle
      <4>1. /\ q.op = r.op /\ q.sent = r.sent /\ q.phase = r.phase /\ q.list = r.list \ {m}
            /\ q.pc \in {"find", "dropMessage", "unstore", "markRecalled", "markDeleted"}
            /\ q.pc = "dropMessage" => q.phase = "inner"
            /\ q.pc = "unstore" => q.op = "send"
        BY <2>4, <3>2 DEF Stands
      <4>2. q.phase = "inner" => \A n \in q.sent : n \in q.list \/ ~Stored(n)'
        BY <1>2, <2>6, <2>7, <4>1
      <4>3. r.op \in {"recall", "remove"} => message.state \in Sent
        BY <1>1 DEF Fits
      <4> QED BY <1>1, <1>2, <2>1, <2>5, <4>1, <4>2, <4>3 DEF Fits
    <3> QED BY <3>1, <3>2
  <2>9. ~(r.phase = "outer" /\ message.state = "dropped")
    BY <1>1, <1>2
  <2> QED BY <1>1, <2>1, <2>5, <2>7, <2>8, <2>9, QuietMessage DEF Begun
<1> QED BY <1>5, <1>6

LEMMA MessageNext ==
  ASSUME MailInv, MailInv', MailsFound, MessageFound, failed' = {}, [Next]_vars
  PROVE  MessageFound'
<1>1. CASE UNCHANGED vars
  BY <1>1 DEF vars, MessageFound, Fits, Stored
<1>2. ASSUME NEW h \in Handlers, Proceed(h)
      PROVE  MessageFound'
  <2>1. CASE Succeed(h)
    BY <2>1, DropMessageMessage, UnstoreMessage, EraseMailMessage, WalkMessage DEF Succeed
  <2>2. CASE ~Succeed(h)
    BY <1>2, <2>2, StoreSharedMessage, CreateMessageMessage, PutBodyMessage, CreateMailMessage,
       RecordMessage, AuditMessage, FindMailMessage, DropMailMessage, ListCopiesMessage,
       MarkMessageMessage, ForgetMessage, WalkMessage DEF Proceed
  <2> QED BY <2>1, <2>2
<1>3. \A h \in Handlers : ~Fail(h) /\ ~FailTolerated(h) /\ ~Die(h)
  BY DEF Fail, FailTolerated, Die, Happens
<1> QED BY <1>1, <1>2, <1>3, SendMailMessage, CallsMessage DEF Next

-----------------------------------------------------------------------------
(* The theorem                                                             *)

\* Failures are not forgotten.
LEMMA FailuresStay == MailInv /\ [Next]_vars => failed \subseteq failed'
BY ZenonT(60)
DEF Next, vars, Arrive, Proceed, Fail, FailTolerated, Die, Happens, Succeed, SendMail, Recall,
       RemoveMessage, FetchShared, DeleteMail, BulkDelete, Purge, IncomingMail, StoreShared,
       CreateMessage, PutBody, PutAttachment, CreateMail, RecordDelivery, Audit, FindMail,
       DropMail, ListCopies, MarkMessage, FindShared, Fetch, Forget, DropAll, CheckQuota

\* Without failures the row of a mail has its objects and an object its row, but for
\* what somebody is just storing or deleting, what arrived between the two reads of a
\* purge, and an attachment whose sendMail or deleteMail is still at work.
THEOREM MailsAreWhole == Spec => []MailsWhole
<1>1. Init => WholeInv
  <2> SUFFICES ASSUME Init PROVE MailsFound /\ MessageFound
    BY DEF WholeInv
  <2>1. \A h \in Handlers : task[h] = Idle
    BY DEF Init
  <2>2. MailsFound
    BY <2>1, IdleApart DEF Init, MailsFound, Making, Erased, Stored, Apart
  <2>3. \A h \in Handlers : Fits(task[h])
    BY <2>1, IdlePlaced, FitsOther
  <2>4. MessageFound
    BY <2>3 DEF Init, MessageFound, NoMessage
  <2> QED BY <2>2, <2>4
<1>2. MailInv /\ MailInv' /\ WholeInv /\ [Next]_vars => WholeInv'
  <2> SUFFICES ASSUME MailInv, MailInv', WholeInv, [Next]_vars, failed' = {}
               PROVE  MailsFound' /\ MessageFound'
    BY DEF WholeInv
  <2>1. failed = {}
    BY FailuresStay
  <2> QED BY <2>1, MailsNext, MessageNext DEF WholeInv
<1>3. MailInv /\ WholeInv => MailsWhole
  <2> SUFFICES ASSUME MailInv, MailsFound, MessageFound, failed = {}
               PROVE  NoOrphanObject /\ Readable
    BY DEF WholeInv, MailsWhole, NoOrphanObject, Readable
  <2>1. NoOrphanObject
    <3>1. Shared \in objects =>
            \/ message.state = "stored" /\ ~message.deleted
            \/ \E h \in Handlers : task[h].op \in {"send", "remove"}
      <4>1. \A h \in Handlers : task[h].pc \in Begun \/ task[h].phase = "outer"
                                  => task[h].op = "send"
        BY Kept, OpOf DEF Begun, Placed
      <4>2. message.state \in {"none", "draft", "stored", "dropped"}
        BY Kept DEF Message
      <4> QED BY <4>1, <4>2 DEF MessageFound, Begun
    <3> QED BY <3>1 DEF NoOrphanObject, MailsFound, Making
  <2>2. Readable
    BY DEF Readable, MailsFound, MessageFound, Opens, Erased
  <2> QED BY <2>1, <2>2
<1> QED BY <1>1, <1>2, <1>3, MailInvariant, PTL DEF Spec
=============================================================================
