---------------------------- MODULE BrowserProofs ----------------------------
(***************************************************************************)
(* What the code of the browser promises of its sessions, its mailbox, its *)
(* uploads and its downloads, proved for any number of tabs, requests,     *)
(* mails, uploads, losses and failures.  The five modules share nothing.   *)
(***************************************************************************)
EXTENDS Tabs, MailPage, UploadClient, Transfer, DownloadPage, FiniteSetTheorems,
        SequenceTheorems, WellFoundedInduction, TLAPS

-----------------------------------------------------------------------------
(* DownloadPage: a download and the card that shows it                     *)

CardType ==
  /\ file \in [protected : BOOLEAN, expired : BOOLEAN, left : {"object", "row", "nothing"}]
  /\ refused \in Nat
  /\ card \in [stage : {"idle", "password", "downloading", "finalizing", "complete", "error"},
               meta : BOOLEAN, password : {"none", "right", "wrong"},
               saving : {"checking", "file", "worker", "unavailable"},
               loading : BOOLEAN, sent : {"none", "right", "wrong"}, mounted : BOOLEAN]
  /\ run \in [pc : {"none", "picking", "connecting", "fetching", "opening", "reading",
                    "closing", "failing"},
              aborted : BOOLEAN, target : {"none", "open", "closed", "discarded"}]

\* The stage says what the card waits for, and metadata of a protected file were
\* unlocked with its password, which is the one the field holds since.
MetaHeld ==
  /\ card.loading => card.stage = "idle" /\ ~card.meta
  /\ card.stage = "password" => ~card.meta
  /\ card.sent /= "none" => card.stage = "password" /\ card.sent = card.password
  /\ card.meta /\ file.protected => card.password = "right"
  /\ card.mounted /\ card.stage = "idle" => card.meta \/ card.loading

\* A run goes on behind a card that shows it, and no other card shows one.
RunShown ==
  /\ DownloadRuns => card.meta /\ card.stage \in {"downloading", "finalizing"}
  /\ run.pc = "picking" => card.meta /\ card.stage = "idle"
  /\ card.mounted /\ card.stage \in {"downloading", "finalizing"} => DownloadRuns

\* What a run writes to is open for as long as it reads, and no longer than it is.
TargetKept ==
  /\ run.pc = "none" => run.target /= "open"
  /\ card.stage = "complete" => run.target = "closed"
  /\ card.mounted /\ run.pc \in {"reading", "closing"} => run.target = "open"

CardInv == CardType /\ MetaHeld /\ RunShown /\ TargetKept

LEMMA CardInvEntails == CardInv => CardTrue
BY DEF CardInv, CardType, MetaHeld, RunShown, TargetKept, CardTrue

LEMMA CardInvInit == InitDownloadPage => CardInv
<1> SUFFICES ASSUME InitDownloadPage PROVE CardInv
  OBVIOUS
<1>1. CardType
  BY DEF InitDownloadPage, NoRun, CardType
<1>2. /\ card.loading = TRUE /\ card.meta = FALSE /\ card.stage = "idle"
      /\ card.sent = "none" /\ run.pc = "none" /\ run.target = "none"
  BY DEF InitDownloadPage, NoRun
<1> QED
  BY <1>1, <1>2 DEF CardInv, MetaHeld, RunShown, TargetKept, DownloadRuns

USE DEF CardInv, CardType, MetaHeld, RunShown, TargetKept, DownloadRuns

LEMMA CardInvFile == CardInv /\ (FileExpires \/ RemoveFile) => CardInv'
BY ZenonT(60) DEF FileExpires, RemoveFile

\* What an answer says of the password it was asked with.
LEMMA AnswerKeeps ==
  ASSUME CardInv, NEW s \in {"none", "right", "wrong"}, NEW c \in BOOLEAN,
         NEW status \in {"ok", "forbidden", "error"}, Answered(s, c, status)
  PROVE  /\ file' \in [protected : BOOLEAN, expired : BOOLEAN, left : {"object", "row", "nothing"}]
         /\ file'.protected = file.protected /\ refused' \in Nat
         /\ status = "ok" /\ file.protected => s = "right"
         /\ status = "forbidden" => file.protected /\ s /= "right"
BY DEF Answered, Status

\* The answers the page awaits (DownloadCard.tsx, loadMetadata, unlockMetadata, and
\* the response of a run).
LEMMA CardInvLoaded ==
  ASSUME CardInv, NEW status \in {"ok", "forbidden", "error"}, Loaded(status)
  PROVE  CardInv'
BY AnswerKeeps DEF Loaded, StageOf

LEMMA CardInvUnlocked ==
  ASSUME CardInv, NEW status \in {"ok", "forbidden", "error"}, Unlocked(status)
  PROVE  CardInv'
BY AnswerKeeps, ZenonT(60) DEF Unlocked

LEMMA CardInvFetched ==
  ASSUME CardInv, NEW status \in {"ok", "forbidden", "error"}, Fetched(status)
  PROVE  CardInv'
BY AnswerKeeps, ZenonT(60) DEF Fetched, PasswordSent, NoRun

LEMMA CardInvPrepared ==
  ASSUME CardInv, NEW how \in {"file", "worker", "unavailable"}, Prepared(how)
  PROVE  CardInv'
BY DEF Prepared, SetCard

\* What the user does, and the steps of a run.
LEMMA CardInvType ==
  ASSUME CardInv, NEW text \in {"right", "wrong"}, TypePassword(text)
  PROVE  CardInv'
BY DEF TypePassword, Editable, SetCard

LEMMA CardInvUnlock == CardInv /\ UnlockMetadata => CardInv'
BY DEF UnlockMetadata, SetCard
LEMMA CardInvReset == CardInv /\ Reset => CardInv'
BY DEF Reset, SetCard
LEMMA CardInvPress == CardInv /\ Press => CardInv'
<1> SUFFICES ASSUME CardInv, Press PROVE CardInv'
  OBVIOUS
<1>1. CASE card.saving = "file"
  <2>1. run' = [NoRun EXCEPT !.pc = "picking"] /\ UNCHANGED <<card, file, refused>>
    BY <1>1 DEF Press
  <2> QED
    BY <2>1 DEF Press, NoRun
<1>2. CASE card.saving /= "file"
  <2>1. /\ run' = [NoRun EXCEPT !.pc = "connecting", !.target = "open"]
        /\ card' = [card EXCEPT !.stage = "downloading"]
        /\ UNCHANGED <<file, refused>>
    BY <1>2 DEF Press
  <2> QED
    BY <2>1 DEF Press, NoRun
<1> QED
  BY <1>1, <1>2
LEMMA CardInvPick ==
  ASSUME CardInv, NEW how \in {"picked", "dismissed", "failed"}, Pick(how)
  PROVE  CardInv'
BY DEF Pick, NoRun
LEMMA CardInvRun ==
  CardInv /\ (Ready \/ OpenTarget \/ Throw \/ Cancel \/ WorkerAborts) => CardInv'
BY ZenonT(60) DEF Ready, Go, OpenTarget, Throw, Cancel, WorkerAborts, SetRun
LEMMA CardInvReadAll == CardInv /\ ReadAll => CardInv'
BY DEF ReadAll
LEMMA CardInvClose == CardInv /\ CloseTarget => CardInv'
BY DEF CloseTarget, NoRun
LEMMA CardInvCatch == CardInv /\ CatchBlock => CardInv'
BY ZenonT(60) DEF CatchBlock, NoRun, Discarded
LEMMA CardInvLeave == CardInv /\ LeavePage => CardInv'
<1> SUFFICES ASSUME CardInv, LeavePage PROVE CardInv'
  OBVIOUS
<1>1. /\ CardType' /\ UNCHANGED file
      /\ card' = [card EXCEPT !.mounted = FALSE, !.loading = FALSE, !.sent = "none"]
  BY ZenonT(60) DEF LeavePage, Discarded
<1>2. run'.pc = run.pc /\ (run'.target = run.target \/ (DownloadRuns /\ run'.target /= "open"))
  BY DEF LeavePage, Discarded
<1>3. card.stage = "complete" => ~DownloadRuns
  OBVIOUS
<1> QED
  BY <1>1, <1>2, <1>3

HIDE DEF CardInv, CardType, MetaHeld, RunShown, TargetKept, DownloadRuns

\* The page of a share link (DownloadCard.tsx) says what its download does, sends
\* the password the metadata were unlocked with, and never leaves what it wrote to
\* open, in whatever order answers, exceptions and the user come: CardTrue, for any
\* number of refusals.
THEOREM CardIsTrue == InitDownloadPage /\ [][NextDownloadPage]_downloadPageVars => []CardTrue
<1>1. ASSUME CardInv, [NextDownloadPage]_downloadPageVars
      PROVE  CardInv'
  <2>1. CASE UNCHANGED downloadPageVars
    BY <1>1, <2>1 DEF downloadPageVars, CardInv, CardType, MetaHeld, RunShown, TargetKept,
                      DownloadRuns
  <2>2. CASE NextDownloadPage
    BY <1>1, <2>2, CardInvFile, CardInvPrepared, CardInvLoaded, CardInvUnlocked, CardInvFetched,
       CardInvType, CardInvUnlock, CardInvReset, CardInvPress, CardInvPick, CardInvRun,
       CardInvReadAll, CardInvClose, CardInvCatch, CardInvLeave DEF NextDownloadPage
  <2> QED
    BY <1>1, <2>1, <2>2
<1> QED
  BY <1>1, CardInvInit, CardInvEntails, PTL

-----------------------------------------------------------------------------
(* UploadClient: uploads that were given up                                *)

PanelType ==
  /\ server \in [Attempts -> {"none", "open", "filed", "gone"}]
  /\ attempt \in [Attempts -> [request : {"none", "init", "chunk", "complete", "cancel", "over"},
                               answer : {"none", "ok", "error"}, sent : Nat]]
  /\ ref \in Attempts \cup {NoAttempt} /\ exits \subseteq Attempts
  /\ shown \in {"shown", "left", "closed"} /\ unwatched \in BOOLEAN

\* Somebody still sees to an open upload: a cancel of a page that closes is on its
\* way, its run goes on, or the run's own cancel has not been answered.
Watched(a) == \/ a \in exits
              \/ Running(a) /\ shown /= "closed"
              \/ attempt[a].request = "cancel" /\ attempt[a].answer = "none"

\* What the answer a run waits for says of the upload at the server.
AnswersTell(a) ==
  /\ attempt[a].request \in {"none", "init"} /\ attempt[a].answer /= "ok" => server[a] /= "open"
  /\ attempt[a].request = "init" => shown /= "closed"
  /\ attempt[a].request = "cancel" /\ attempt[a].answer /= "none" => server[a] /= "open"
  /\ attempt[a].request = "complete" /\ attempt[a].answer = "ok" => server[a] /= "open"

\* A run that has its upload's name has put it into activeUploadIdRef, where
\* clearFile and the effect's cleanup find it.
RefHeld(a) == shown = "shown" /\ attempt[a].request \in {"chunk", "complete"} => ref = a

PanelInv ==
  /\ PanelType
  /\ ~unwatched => \A a \in Attempts : /\ server[a] = "open" => Watched(a)
                                       /\ AnswersTell(a) /\ RefHeld(a)

LEMMA PanelInvEntails == PanelInv => UploadsCancelled
BY DEF PanelInv, PanelType, Watched, UploadsCancelled, Running, Outstanding

LEMMA PanelInvInit == InitUploadClient => PanelInv
<1> SUFFICES ASSUME InitUploadClient PROVE PanelInv
  OBVIOUS
<1>1. \A a \in Attempts : server[a] = "none" /\ attempt[a].request = "none"
  BY DEF InitUploadClient, NotYet, Request
<1>2. PanelType
  BY DEF InitUploadClient, NotYet, Request, PanelType
<1> QED
  BY <1>1, <1>2 DEF PanelInv, AnswersTell, RefHeld

\* What a request does at the server.
LEMMA EffectType ==
  ASSUME PanelInv, NEW a \in Attempts
  PROVE  /\ Effect(a) \in [Attempts -> {"none", "open", "filed", "gone"}]
         /\ Cancelled(a) \in [Attempts -> {"none", "open", "filed", "gone"}]
         /\ Cancelled(a)[a] /= "open"
         /\ \A b \in Attempts : Cancelled(a)[b] = "open" => server[b] = "open"
         /\ \A b \in Attempts : Effect(a)[b] = "open" => 
                server[b] = "open" \/ (b = a /\ attempt[a].request = "init")
         /\ attempt[a].request \in {"complete", "cancel"} => Effect(a)[a] /= "open"
BY DEF PanelInv, PanelType, Effect, OpenedAlone, Cancelled

USE DEF PanelInv, PanelType, Watched, AnswersTell, RefHeld, Running, Request

\* An answer is written down.
LEMMA AnswerWritten ==
  ASSUME PanelInv, NEW a \in Attempts, NEW r \in {"ok", "error"},
         attempt' = [attempt EXCEPT ![a].answer = r]
  PROVE  /\ attempt' \in [Attempts -> [request : {"none", "init", "chunk", "complete", "cancel", "over"},
                               answer : {"none", "ok", "error"}, sent : Nat]]
         /\ \A b \in Attempts : attempt'[b].request = attempt[b].request
         /\ \A b \in Attempts \ {a} : attempt'[b].answer = attempt[b].answer
         /\ attempt'[a].answer = r
OBVIOUS

LEMMA PanelInvServes ==
  ASSUME PanelInv, NEW a \in Attempts, Serves(a) PROVE PanelInv'
<1>1. /\ UNCHANGED <<ref, exits, shown, unwatched>> 
      /\ Running(a) /\ attempt[a].answer = "none"
  BY DEF Serves, Outstanding
<1>2. CASE Accepted(a)
  <2>1. attempt' = [attempt EXCEPT ![a].answer = "ok"] /\ server' = Effect(a)
    BY <1>2 DEF Serves
  <2>2. PanelType'
    BY <1>1, <2>1, AnswerWritten, EffectType
  <2>3. ASSUME ~unwatched', NEW b \in Attempts
        PROVE  /\ (server[b] = "open" => Watched(b))'
               /\ AnswersTell(b)' /\ RefHeld(b)'
    BY <1>1, <2>1, <2>3, AnswerWritten, EffectType
  <2> QED
    BY <2>2, <2>3
<1>3. CASE ~Accepted(a)
  <2>1. attempt' = [attempt EXCEPT ![a].answer = "error"] /\ server' = server
    BY <1>3 DEF Serves
  <2>2. attempt[a].request \notin {"init", "cancel"} /\ server[a] /= "open"
    BY <1>3 DEF Accepted
  <2>3. PanelType'
    BY <1>1, <2>1, AnswerWritten
  <2>4. ASSUME ~unwatched', NEW b \in Attempts
        PROVE  /\ (server[b] = "open" => Watched(b))'
               /\ AnswersTell(b)' /\ RefHeld(b)'
    BY <1>1, <2>1, <2>2, <2>4, AnswerWritten
  <2> QED
    BY <2>3, <2>4
<1> QED
  BY <1>2, <1>3

LEMMA PanelInvServeExit ==
  ASSUME PanelInv, NEW a \in Attempts, ServeExit(a) PROVE PanelInv'
BY EffectType DEF ServeExit
LEMMA PanelInvLose ==
  ASSUME PanelInv, NEW a \in Attempts, Lose(a) PROVE PanelInv'
<1>1. attempt' = [attempt EXCEPT ![a].answer = "error"]
  BY DEF Lose
<1>2. /\ Running(a) /\ attempt[a].answer = "none" /\ UNCHANGED <<ref, exits, shown>>
      /\ unwatched' \in BOOLEAN /\ (~unwatched' => ~unwatched)
  BY DEF Lose, Outstanding
<1>3. CASE server' = server /\ (~unwatched' => attempt[a].request /= "cancel")
  <2>1. PanelType'
    BY <1>1, <1>2, <1>3, AnswerWritten
  <2>2. ASSUME ~unwatched', NEW b \in Attempts
        PROVE  /\ (server[b] = "open" => Watched(b))'
               /\ AnswersTell(b)' /\ RefHeld(b)'
    BY <1>1, <1>2, <1>3, <2>2, AnswerWritten
  <2> QED
    BY <2>1, <2>2
<1>4. CASE server' = Effect(a) /\ (~unwatched' => attempt[a].request /= "init")
  <2>1. PanelType'
    BY <1>1, <1>2, <1>4, AnswerWritten, EffectType
  <2>2. ASSUME ~unwatched', NEW b \in Attempts
        PROVE  /\ (server[b] = "open" => Watched(b))'
               /\ AnswersTell(b)' /\ RefHeld(b)'
    BY <1>1, <1>2, <1>4, <2>2, AnswerWritten, EffectType
  <2> QED
    BY <2>1, <2>2
<1> QED
  BY <1>3, <1>4 DEF Lose

LEMMA PanelInvLoseExit ==
  ASSUME PanelInv, NEW a \in Attempts, LoseExit(a) PROVE PanelInv'
BY DEF LoseExit
LEMMA PanelInvStart ==
  ASSUME PanelInv, NEW a \in Attempts, Start(a) PROVE PanelInv'
BY DEF Start, NotYet
LEMMA PanelInvProceed ==
  ASSUME PanelInv, NEW a \in Attempts, Proceed(a) PROVE PanelInv'
<1> DEFINE n == attempt[a].sent
<1>1. /\ UNCHANGED <<server, exits, shown>> /\ shown /= "closed" /\ attempt[a].answer = "ok"
      /\ n \in Nat
  BY DEF Proceed
<1>2. CASE attempt[a].request = "init" /\ Points(a, a) /\ attempt' = [attempt EXCEPT ![a] = Request("chunk", 1)]
  BY <1>1, <1>2, UploadClientAssumption DEF Points
<1>3. CASE /\ attempt[a].request = "chunk" /\ UNCHANGED <<ref, unwatched>>
           /\ \/ attempt' = [attempt EXCEPT ![a] = Request("chunk", n + 1)]
              \/ attempt' = [attempt EXCEPT ![a] = Request("complete", 0)]
  BY <1>1, <1>3
<1>4. CASE /\ attempt[a].request = "complete" /\ Points(a, NoAttempt)
           /\ attempt' = [attempt EXCEPT ![a] = Over]
  BY <1>1, <1>4, UploadClientAssumption DEF Points, Over
<1> QED
  BY <1>2, <1>3, <1>4 DEF Proceed

LEMMA PanelInvCatch ==
  ASSUME PanelInv, NEW a \in Attempts, Catch(a) PROVE PanelInv'
BY UploadClientAssumption DEF Catch, Points, Over, Withdrawn
LEMMA PanelInvSelect ==
  ASSUME PanelInv, NEW f \in {"good", "large"}, SelectFile(f) PROVE PanelInv'
BY DEF SelectFile
LEMMA PanelInvClear == PanelInv /\ ClearFile => PanelInv'
BY DEF ClearFile
LEMMA PanelInvLeave == PanelInv /\ Leave => PanelInv'
BY UploadClientAssumption DEF Leave, CancelActiveUpload
LEMMA PanelInvClose == PanelInv /\ Close => PanelInv'
BY UploadClientAssumption DEF Close, CancelActiveUpload

HIDE DEF PanelInv, PanelType, Watched, AnswersTell, RefHeld, Running, Request

\* No upload the user gave up stays open once nothing is under way
\* (UploadFormPanel.tsx, handleUpload, its cancels and the cleanups), but for those
\* the property names: UploadsCancelled, for any number of uploads of any number of
\* chunks and any losses.
THEOREM AbandonedUploadsAreCancelled ==
  InitUploadClient /\ [][NextUploadClient]_uploadClientVars => []UploadsCancelled
<1>1. ASSUME PanelInv, [NextUploadClient]_uploadClientVars
      PROVE  PanelInv'
  <2>1. CASE UNCHANGED uploadClientVars
    BY <1>1, <2>1 DEF uploadClientVars, PanelInv, PanelType, Watched, AnswersTell, RefHeld, Running
  <2>2. CASE NextUploadClient
    BY <1>1, <2>2, PanelInvServes, PanelInvServeExit, PanelInvLose, PanelInvLoseExit,
       PanelInvStart, PanelInvProceed, PanelInvCatch, PanelInvSelect, PanelInvClear,
       PanelInvLeave, PanelInvClose DEF NextUploadClient
  <2> QED
    BY <1>1, <2>1, <2>2
<1> QED
  BY <1>1, PanelInvInit, PanelInvEntails, PTL

-----------------------------------------------------------------------------
(* Transfer: the contents of a file                                        *)

\* Where a chunk of the file ends.
EndOf(c) == IF c * ChunkSize <= size THEN c * ChunkSize ELSE size
FrameSize == ChunkSize + Overhead
SealedBytes == Nat \X Nat

\* The byte that arrives p places from the start of the frame on.
Coming == Len(frame) + Len(piece) + Len(source)
Byte(p) == IF p <= Len(frame) THEN frame[p]
           ELSE IF p <= Len(frame) + Len(piece) THEN piece[p - Len(frame)]
           ELSE source[p - Len(frame) - Len(piece)]

FileType ==
  /\ size \in Nat \ {0} /\ order \in [1..Count(size) -> 0..(Count(size) - 1)]
  /\ source \in Seq(SealedBytes) /\ piece \in Seq(SealedBytes) /\ frame \in Seq(SealedBytes)
  /\ chunk \in 0..Count(size) /\ (phase = "reading" => chunk < Count(size))

\* Of chunks that were stored in their order each frame to come begins with its own.
Framed ==
  InOrder => \A c \in chunk..(Count(size) - 1) :
    (c - chunk) * FrameSize + 1 <= Coming => Byte((c - chunk) * FrameSize + 1) = <<c, 1>>

WrittenTo(n) == written = [k \in 1..n |-> k]

TransferInv ==
  /\ FileType /\ Framed
  /\ (format = "v2" \/ InOrder) => WrittenTo(EndOf(chunk))
  /\ phase = "done" => Len(written) = size

LEMMA Constants == ChunkSize \in Nat \ {0} /\ Overhead \in Nat \ {0}
BY TransferAssumption

LEMMA CountFacts ==
  ASSUME NEW n \in Nat \ {0}
  PROVE  /\ Count(n) \in Nat \ {0}
         /\ Count(n) * ChunkSize >= n
         /\ (Count(n) - 1) * ChunkSize < n
BY TransferAssumption DEF Count

LEMMA Product ==
  ASSUME NEW i \in Nat, NEW j \in Nat, NEW n \in Nat, i <= j
  PROVE  /\ i * n \in Nat /\ i * n <= j * n /\ (i + 1) * n = i * n + n
OBVIOUS

LEMMA Distribute ==
  ASSUME NEW k \in Nat, NEW a \in Nat, NEW b \in Nat
  PROVE  k * (a + b) = k * a + k * b /\ k * a \in Nat /\ (k + 1) * a = k * a + a
OBVIOUS

\* No chunk is empty, and one begins where another ends.
LEMMA ChunkFacts ==
  ASSUME size \in Nat \ {0}, NEW c \in 0..(Count(size) - 1)
  PROVE  /\ Length(c) \in Nat \ {0} /\ EndOf(c) = c * ChunkSize /\ EndOf(c) \in Nat
         /\ EndOf(c + 1) = EndOf(c) + Length(c)
         /\ EndOf(c + 1) \in Nat /\ EndOf(c + 1) <= size
         /\ c + 1 < Count(size) => Length(c) = ChunkSize
<1>1. Count(size) \in Nat \ {0} /\ (Count(size) - 1) * ChunkSize < size
  BY CountFacts
<1>2. ChunkSize \in Nat \ {0} /\ c \in Nat /\ c <= Count(size) - 1 /\ Count(size) - 1 \in Nat
  BY <1>1, TransferAssumption
<1>3. c * ChunkSize \in Nat /\ c * ChunkSize <= (Count(size) - 1) * ChunkSize
      /\ (c + 1) * ChunkSize = c * ChunkSize + ChunkSize
  BY <1>2, Product
<1>4. c + 1 < Count(size) => (c + 1) * ChunkSize <= (Count(size) - 1) * ChunkSize
  BY <1>1, <1>2, Product
<1>5. (Count(size) - 1) * ChunkSize \in Nat
  BY <1>2, Product
<1> DEFINE x == c * ChunkSize
           y == (c + 1) * ChunkSize
           z == (Count(size) - 1) * ChunkSize
<1>6. /\ x \in Nat /\ z \in Nat /\ y = x + ChunkSize /\ x <= z /\ z < size
      /\ c + 1 < Count(size) => y <= z
  BY <1>1, <1>3, <1>4, <1>5
<1>7. /\ Length(c) = IF ChunkSize <= size - x THEN ChunkSize ELSE size - x
      /\ EndOf(c) = IF x <= size THEN x ELSE size
      /\ EndOf(c + 1) = IF y <= size THEN y ELSE size
  BY DEF Length, EndOf
<1> HIDE DEF x, y, z
<1>8. /\ Length(c) \in Nat \ {0} /\ EndOf(c) = x /\ EndOf(c) \in Nat
      /\ EndOf(c + 1) = EndOf(c) + Length(c)
      /\ EndOf(c + 1) \in Nat /\ EndOf(c + 1) <= size
      /\ c + 1 < Count(size) => Length(c) = ChunkSize
  BY <1>2, <1>6, <1>7
<1> QED
  BY <1>8 DEF x

LEMMA EndOfLast ==
  ASSUME size \in Nat \ {0} PROVE EndOf(Count(size)) = size
<1>1. Count(size) * ChunkSize \in Nat /\ Count(size) * ChunkSize >= size
  BY CountFacts, TransferAssumption
<1> QED
  BY <1>1 DEF EndOf

LEMMA TransferInvEntails == TransferInv => FileExact
<1> SUFFICES ASSUME TransferInv, format = "v2" \/ InOrder
             PROVE  IsPrefix(written, PlainText) /\ (phase = "done" => written = PlainText)
  BY DEF FileExact
<1>1. EndOf(chunk) \in 0..size /\ size \in Nat
  <2>1. CASE chunk = Count(size)
    BY <2>1, EndOfLast DEF TransferInv, FileType
  <2>2. CASE chunk /= Count(size)
    BY <2>2, ChunkFacts, CountFacts DEF TransferInv, FileType
  <2> QED
    BY <2>1, <2>2
<1> DEFINE n == EndOf(chunk)
<1>2. written = [k \in 1..n |-> k] /\ n \in 0..size
  BY <1>1 DEF TransferInv, WrittenTo
<1>3. phase = "done" => Len(written) = size
  BY DEF TransferInv
<1> HIDE DEF n
<1>4. Len(written) = n /\ Len(PlainText) = size /\ written \in Seq(Nat) /\ PlainText \in Seq(Nat)
  BY <1>1, <1>2 DEF PlainText
<1>5. SubSeq(written, 1, n) = SubSeq(PlainText, 1, n)
  BY <1>1, <1>2, <1>4 DEF PlainText
<1>6. IsPrefix(written, PlainText)
  BY <1>1, <1>2, <1>4, <1>5 DEF IsPrefix
<1>7. phase = "done" => written = PlainText
  BY <1>1, <1>2, <1>3, <1>4 DEF PlainText
<1> QED
  BY <1>6, <1>7

\* Every set of numbers has a least one, from which induction over a set follows.
LEMMA LeastBy ==
  ASSUME NEW R, IsWellFoundedOn(R, Nat), \A x, y \in Nat : y < x => <<y, x>> \in R,
         NEW T, T \subseteq Nat, T /= {}
  PROVE  \E x \in T : \A y \in T : x <= y
<1>1. \E x \in T : \A y \in T : ~(<<y, x>> \in R)
  BY WFMin
<1>2. PICK x \in T : \A y \in T : ~(<<y, x>> \in R)
  BY <1>1
<1>3. ASSUME NEW y \in T PROVE x <= y
  <2>1. x \in Nat /\ y \in Nat /\ ~(y < x)
    BY <1>2
  <2> QED
    BY <2>1
<1> QED
  BY <1>3

LEMMA LeastElement ==
  ASSUME NEW T, T \subseteq Nat, T /= {}
  PROVE  \E x \in T : \A y \in T : x <= y
<1>1. IsWellFoundedOn(OpToRel(<, Nat), Nat)
  BY NatLessThanWellFounded
<1>2. \A x, y \in Nat : y < x => <<y, x>> \in OpToRel(<, Nat)
  BY Zenon DEF OpToRel
<1> QED
  BY <1>1, <1>2, LeastBy, Zenon

LEMMA Induction ==
  ASSUME NEW S, 0 \in S, \A n \in Nat : n \in S => n + 1 \in S
  PROVE  Nat \subseteq S
<1> SUFFICES ASSUME Nat \ S /= {} PROVE FALSE
  OBVIOUS
<1>1. PICK x \in Nat \ S : \A y \in Nat \ S : x <= y
  BY LeastElement
<1>2. x - 1 \in Nat /\ x - 1 \in S
  BY <1>1
<1> QED
  BY <1>1, <1>2

\* StoredTo is what its definition says, at every place.
Joins(g, n) == g = [i \in 0..n |-> IF i = 0 THEN <<>> ELSE g[i - 1] \o Sealed(order[i])]

LEMMA JoinsSteps ==
  ASSUME NEW n \in Nat, NEW g, Joins(g, n)
  PROVE  g[0] = <<>> /\ \A k \in 1..n : g[k] = g[k - 1] \o Sealed(order[k])
<1> DEFINE e(i) == IF i = 0 THEN <<>> ELSE g[i - 1] \o Sealed(order[i])
<1>1. g = [i \in 0..n |-> e(i)]
  BY DEF Joins
<1>2. \A k \in 1..n : k /= 0
  OBVIOUS
<1>3. e(0) = <<>> /\ \A k \in 1..n : e(k) = g[k - 1] \o Sealed(order[k])
  BY <1>2, Zenon
<1> HIDE DEF e
<1>4. g[0] = e(0) /\ \A k \in 1..n : g[k] = e(k)
  BY <1>1
<1> QED
  BY <1>3, <1>4

LEMMA JoinsExists == \A n \in Nat : \E g : Joins(g, n)
<1> DEFINE S == {n \in Nat : \E g : Joins(g, n)}
<1>1. 0 \in S
  <2> DEFINE g == [i \in 0..0 |-> <<>>]
  <2>1. Joins(g, 0)
    BY DEF Joins
  <2> QED
    BY <2>1
<1>2. ASSUME NEW n \in Nat, n \in S PROVE n + 1 \in S
  <2>1. PICK g : Joins(g, n)
    BY <1>2
  <2> DEFINE h == [i \in 0..(n + 1) |-> IF i <= n THEN g[i] ELSE g[n] \o Sealed(order[n + 1])]
  <2>2. h[0] = <<>>
    BY <2>1 DEF Joins
  <2>3. ASSUME NEW i \in 1..(n + 1) PROVE h[i] = h[i - 1] \o Sealed(order[i])
    <3>1. g[0] = <<>> /\ \A k \in 1..n : g[k] = g[k - 1] \o Sealed(order[k])
      BY <2>1, JoinsSteps
    <3>2. CASE i <= n
      <4>1. i \in 1..n /\ i \in 0..(n + 1) /\ i - 1 \in 0..(n + 1) /\ i - 1 <= n
        BY <3>2
      <4>2. h[i] = g[i] /\ h[i - 1] = g[i - 1]
        BY <3>2, <4>1
      <4> QED
        BY <3>1, <4>1, <4>2
    <3>3. CASE i = n + 1
      <4>1. /\ n + 1 \in 0..(n + 1) /\ ~(n + 1 <= n) /\ i - 1 = n
            /\ n \in 0..(n + 1) /\ n <= n
        BY <3>3
      <4>2. h[n + 1] = g[n] \o Sealed(order[n + 1]) /\ h[n] = g[n]
        BY <4>1, Zenon
      <4> QED
        BY <3>3, <4>1, <4>2
    <3>4. i <= n \/ i = n + 1
      OBVIOUS
    <3> QED
      BY <3>2, <3>3, <3>4, Zenon
  <2>4. h = [i \in 0..(n + 1) |-> h[i]]
    OBVIOUS
  <2> HIDE DEF h
  <2>5. Joins(h, n + 1)
    BY <2>2, <2>3, <2>4 DEF Joins
  <2> QED
    BY <2>5
<1> HIDE DEF S
<1>3. Nat \subseteq S
  BY <1>1, <1>2, Induction
<1> QED
  BY <1>3 DEF S

LEMMA StoredToIs ==
  ASSUME size \in Nat \ {0}
  PROVE  Joins(StoredTo, Count(size))
<1>1. Count(size) \in Nat
  BY CountFacts
<1>2. \E g : g = [i \in 0..Count(size) |->
                    IF i = 0 THEN <<>> ELSE g[i - 1] \o Sealed(order[i])]
  BY <1>1, JoinsExists, Zenon DEF Joins
<1>3. StoredTo = [i \in 0..Count(size) |->
                    IF i = 0 THEN <<>> ELSE StoredTo[i - 1] \o Sealed(order[i])]
  BY <1>2, Zenon DEF StoredTo
<1> QED
  BY <1>3, Zenon DEF Joins

\* A sealed chunk, and what appending and cutting does to bytes
LEMMA SealedFacts ==
  ASSUME NEW k \in Nat, Length(k) \in Nat
  PROVE  /\ Sealed(k) \in Seq(SealedBytes) /\ Len(Sealed(k)) = Length(k) + Overhead
         /\ Sealed(k)[1] = <<k, 1>>
<1> DEFINE m == Length(k) + Overhead
           t == [i \in 1..m |-> <<k, i>>]
<1>1. m \in Nat \ {0}
  BY Constants
<1> HIDE DEF m
<1>2. \A i \in 1..m : <<k, i>> \in SealedBytes
  BY <1>1 DEF SealedBytes
<1>3. t \in [1..m -> SealedBytes]
  BY <1>2
<1>4. t \in Seq(SealedBytes) /\ Len(t) = m
  BY <1>1, <1>3
<1>5. t[1] = <<k, 1>>
  BY <1>1
<1>6. Sealed(k) = t
  BY DEF Sealed, m
<1> QED
  BY <1>4, <1>5, <1>6 DEF m

LEMMA AppendedBytes ==
  ASSUME NEW T, NEW b \in Seq(T), NEW s \in Seq(T), Len(s) \in Nat \ {0}
  PROVE  /\ b \o s \in Seq(T) /\ Len(b \o s) = Len(b) + Len(s)
         /\ \A i \in 1..Len(b) : (b \o s)[i] = b[i]
         /\ (b \o s)[Len(b) + 1] = s[1]
OBVIOUS

LEMMA Halves ==
  ASSUME NEW T, NEW s \in Seq(T), NEW n \in 0..Len(s)
  PROVE  /\ SubSeq(s, 1, n) \in Seq(T) /\ Len(SubSeq(s, 1, n)) = n
         /\ \A p \in 1..n : SubSeq(s, 1, n)[p] = s[p]
         /\ SubSeq(s, n + 1, Len(s)) \in Seq(T) /\ Len(SubSeq(s, n + 1, Len(s))) = Len(s) - n
         /\ \A p \in 1..(Len(s) - n) : SubSeq(s, n + 1, Len(s))[p] = s[n + p]
OBVIOUS

LEMMA Sources ==
  ASSUME NEW T, NEW b \in Seq(T), NEW cut \in 0..Len(b), NEW x \in T
  PROVE  /\ SubSeq(b, 1, cut) \in Seq(T) /\ Len(SubSeq(b, 1, cut)) <= Len(b)
         /\ \A p \in 1..Len(SubSeq(b, 1, cut)) : SubSeq(b, 1, cut)[p] = b[p]
         /\ b \o <<x>> \in Seq(T) /\ \A p \in 1..Len(b) : (b \o <<x>>)[p] = b[p]
OBVIOUS

\* What has been stored of chunks in their order, up to one of them: each begins
\* where the frames before it end.
StoredRight(n) ==
  /\ StoredTo[n] \in Seq(SealedBytes)
  /\ Len(StoredTo[n]) = EndOf(n) + n * Overhead
  /\ \A c \in 0..(n - 1) : /\ c * FrameSize + 1 \in 1..Len(StoredTo[n])
                           /\ StoredTo[n][c * FrameSize + 1] = <<c, 1>>

LEMMA StoredNone ==
  ASSUME size \in Nat \ {0}
  PROVE  StoredRight(0)
<1>1. StoredTo[0] = <<>>
  BY CountFacts, StoredToIs, JoinsSteps
<1>2. EndOf(0) = 0 /\ 0 * Overhead = 0
  BY Constants DEF EndOf
<1> QED
  BY <1>1, <1>2 DEF StoredRight

LEMMA StoredNext ==
  ASSUME size \in Nat \ {0}, InOrder, NEW k \in Nat, k + 1 <= Count(size), StoredRight(k)
  PROVE  StoredRight(k + 1)
<1>1. Count(size) \in Nat /\ k \in 0..(Count(size) - 1) /\ k + 1 \in 1..Count(size)
  BY CountFacts
<1>2. StoredTo[k + 1] = StoredTo[k] \o Sealed(k)
  <2>1. StoredTo[k + 1] = StoredTo[(k + 1) - 1] \o Sealed(order[k + 1])
    BY <1>1, StoredToIs, JoinsSteps
  <2>2. (k + 1) - 1 = k /\ order[k + 1] = k
    BY <1>1 DEF InOrder
  <2> QED
    BY <2>1, <2>2
<1>3. /\ Length(k) \in Nat \ {0} /\ EndOf(k) = k * ChunkSize /\ EndOf(k) \in Nat
      /\ EndOf(k + 1) = EndOf(k) + Length(k)
  BY <1>1, ChunkFacts
<1>4. /\ k * Overhead \in Nat /\ (k + 1) * Overhead = k * Overhead + Overhead
      /\ k * FrameSize = k * ChunkSize + k * Overhead
  BY Constants, Distribute DEF FrameSize
<1>5. /\ Sealed(k) \in Seq(SealedBytes) /\ Len(Sealed(k)) = Length(k) + Overhead
      /\ Sealed(k)[1] = <<k, 1>>
  BY <1>3, SealedFacts
<1>6. /\ StoredTo[k] \in Seq(SealedBytes) /\ Len(StoredTo[k]) = k * FrameSize
      /\ \A c \in 0..(k - 1) : /\ c * FrameSize + 1 \in 1..Len(StoredTo[k])
                              /\ StoredTo[k][c * FrameSize + 1] = <<c, 1>>
  BY <1>3, <1>4 DEF StoredRight
<1>7. PICK a, b, s : b = StoredTo[k] /\ s = Sealed(k) /\ a = StoredTo[k + 1]
  OBVIOUS
<1>8. /\ a \in Seq(SealedBytes) /\ Len(a) = Len(b) + Len(s)
      /\ \A i \in 1..Len(b) : a[i] = b[i]
      /\ a[Len(b) + 1] = s[1]
  <2>1. Len(s) \in Nat \ {0} /\ a = b \o s /\ b \in Seq(SealedBytes) /\ s \in Seq(SealedBytes)
    BY <1>2, <1>3, <1>5, <1>6, <1>7, Constants
  <2> QED
    BY <2>1, AppendedBytes
<1>9. Len(s) \in Nat \ {0} /\ Len(b) \in Nat /\ s[1] = <<k, 1>> /\ Len(b) = k * FrameSize
      /\ Len(b) = EndOf(k) + k * Overhead
  BY <1>3, <1>5, <1>6, <1>7, Constants DEF StoredRight
<1>10. Len(a) = EndOf(k + 1) + (k + 1) * Overhead
  <2>1. Len(a) = (EndOf(k) + k * Overhead) + (Length(k) + Overhead)
    BY <1>5, <1>7, <1>8, <1>9
  <2>2. PICK x, y, z : x = EndOf(k) /\ y = k * Overhead /\ z = (k + 1) * Overhead
    OBVIOUS
  <2>3. x \in Nat /\ y \in Nat /\ z = y + Overhead /\ EndOf(k + 1) = x + Length(k)
    BY <1>3, <1>4, <2>2
  <2>4. Len(a) = EndOf(k + 1) + z
    BY <1>3, <2>1, <2>2, <2>3, Constants
  <2> QED
    BY <2>2, <2>4
<1>11. ASSUME NEW c \in 0..k
       PROVE  c * FrameSize + 1 \in 1..Len(a) /\ a[c * FrameSize + 1] = <<c, 1>>
  <2>1. CASE c = k
    BY <1>8, <1>9, <2>1
  <2>2. CASE c < k
    <3>1. c * FrameSize + 1 \in 1..Len(b) /\ b[c * FrameSize + 1] = <<c, 1>>
      BY <1>6, <1>7, <2>2
    <3> QED
      BY <1>8, <1>9, <3>1
  <2> QED
    BY <2>1, <2>2
<1> QED
  BY <1>7, <1>8, <1>10, <1>11 DEF StoredRight

LEMMA StoredInOrder ==
  ASSUME size \in Nat \ {0}, InOrder, NEW n \in 0..Count(size)
  PROVE  StoredRight(n)
<1> DEFINE S == {k \in Nat : k <= Count(size) => StoredRight(k)}
<1>1. 0 \in S
  BY StoredNone
<1>2. ASSUME NEW k \in Nat, k \in S PROVE k + 1 \in S
  BY <1>2, StoredNext, CountFacts
<1>3. n \in Nat /\ n <= Count(size)
  BY CountFacts
<1> HIDE DEF S
<1>4. Nat \subseteq S
  BY <1>1, <1>2, Induction
<1> QED
  BY <1>3, <1>4 DEF S

LEMMA StoredType ==
  ASSUME size \in Nat \ {0}, order \in [1..Count(size) -> 0..(Count(size) - 1)]
  PROVE  Stored \in Seq(SealedBytes)
<1> DEFINE S == {k \in Nat : k <= Count(size) => StoredTo[k] \in Seq(SealedBytes)}
<1>1. Count(size) \in Nat \ {0} /\ Joins(StoredTo, Count(size))
  BY CountFacts, StoredToIs
<1>2. 0 \in S
  <2>1. StoredTo[0] = <<>>
    BY <1>1, JoinsSteps
  <2>2. <<>> \in Seq(SealedBytes)
    OBVIOUS
  <2>3. StoredTo[0] \in Seq(SealedBytes)
    BY <2>1, <2>2, Zenon
  <2> QED
    BY <2>3
<1>3. ASSUME NEW k \in Nat, k \in S PROVE k + 1 \in S
  <2> SUFFICES ASSUME k + 1 <= Count(size) PROVE StoredTo[k + 1] \in Seq(SealedBytes)
    OBVIOUS
  <2>1. k + 1 \in 1..Count(size) /\ (k + 1) - 1 = k /\ order[k + 1] \in 0..(Count(size) - 1)
    BY <1>1
  <2>2. StoredTo[k + 1] = StoredTo[k] \o Sealed(order[k + 1])
    BY <1>1, <2>1, JoinsSteps
  <2>3. StoredTo[k] \in Seq(SealedBytes)
    BY <1>1, <1>3
  <2>4. Sealed(order[k + 1]) \in Seq(SealedBytes)
    BY <1>1, <2>1, ChunkFacts, SealedFacts
  <2> HIDE DEF S
  <2> QED
    BY <2>2, <2>3, <2>4
<1> HIDE DEF S
<1>4. Nat \subseteq S
  BY <1>2, <1>3, Induction
<1> QED
  BY <1>1, <1>4 DEF S, Stored

\* Every response begins with what is stored, as far as it goes.
LEMMA InitialSource ==
  ASSUME InitTransfer, Stored \in Seq(SealedBytes)
  PROVE  /\ source \in Seq(SealedBytes)
         /\ \A p \in 1..Len(source) : p <= Len(Stored) => source[p] = Stored[p]
<1>1. <<0, 1>> \in SealedBytes
  BY DEF SealedBytes
<1>2. PICK b : b = Stored
  OBVIOUS
<1>3. \E cut \in 0..Len(b), surplus \in 0..1 :
        source = IF surplus = 0 THEN SubSeq(b, 1, cut) ELSE b \o <<<<0, 1>>>>
  BY <1>2 DEF InitTransfer
<1>4. PICK cut \in 0..Len(b) : source = SubSeq(b, 1, cut) \/ source = b \o <<<<0, 1>>>>
  BY <1>3
<1>5. /\ SubSeq(b, 1, cut) \in Seq(SealedBytes) /\ Len(SubSeq(b, 1, cut)) <= Len(b)
      /\ \A p \in 1..Len(SubSeq(b, 1, cut)) : SubSeq(b, 1, cut)[p] = b[p]
      /\ b \o <<<<0, 1>>>> \in Seq(SealedBytes)
      /\ \A p \in 1..Len(b) : (b \o <<<<0, 1>>>>)[p] = b[p]
  BY <1>1, <1>2, Sources
<1>6. CASE source = SubSeq(b, 1, cut)
  BY <1>2, <1>5, <1>6
<1>7. CASE source = b \o <<<<0, 1>>>>
  BY <1>2, <1>5, <1>7
<1> QED
  BY <1>4, <1>6, <1>7

LEMMA TransferInvInit == InitTransfer => TransferInv
<1> SUFFICES ASSUME InitTransfer PROVE TransferInv
  OBVIOUS
<1>1. /\ size \in Nat \ {0} /\ order \in [1..Count(size) -> 0..(Count(size) - 1)]
      /\ piece = <<>> /\ frame = <<>> /\ chunk = 0 /\ phase = "reading" /\ written = <<>>
  BY TransferAssumption DEF InitTransfer
<1>2. Count(size) \in Nat \ {0}
  BY <1>1, CountFacts
<1>3. /\ source \in Seq(SealedBytes)
      /\ \A p \in 1..Len(source) : p <= Len(Stored) => source[p] = Stored[p]
  BY <1>1, StoredType, InitialSource
<1>4. FileType
  BY <1>1, <1>2, <1>3 DEF FileType
<1>5. Coming = Len(source) /\ \A p \in Nat \ {0} : Byte(p) = source[p]
  BY <1>1, <1>3 DEF Coming, Byte
<1>6. ASSUME InOrder, NEW c \in 0..(Count(size) - 1), c * FrameSize + 1 <= Coming
      PROVE  Byte(c * FrameSize + 1) = <<c, 1>>
  <2>1. StoredRight(Count(size))
    BY <1>1, <1>2, <1>6, StoredInOrder
  <2>2. PICK p : p = c * FrameSize + 1
    OBVIOUS
  <2>3. p \in 1..Len(Stored) /\ Stored[p] = <<c, 1>>
    BY <1>2, <2>1, <2>2 DEF StoredRight, Stored
  <2>4. Len(Stored) \in Nat /\ Len(source) \in Nat
    BY <1>1, <1>3, StoredType
  <2>5. p \in 1..Len(source)
    BY <1>5, <1>6, <2>2, <2>3, <2>4
  <2>6. source[p] = <<c, 1>>
    BY <1>3, <2>3, <2>4, <2>5
  <2>7. Byte(p) = source[p]
    BY <1>5, <2>3, <2>4
  <2> QED
    BY <2>2, <2>6, <2>7
<1>7. Framed
  <2> SUFFICES ASSUME InOrder, NEW c \in chunk..(Count(size) - 1),
                      (c - chunk) * FrameSize + 1 <= Coming
               PROVE  Byte((c - chunk) * FrameSize + 1) = <<c, 1>>
    BY DEF Framed
  <2>1. c \in 0..(Count(size) - 1) /\ c - chunk = c
    BY <1>1, <1>2
  <2> QED
    BY <1>6, <2>1
<1>8. WrittenTo(EndOf(chunk))
  <2>1. EndOf(chunk) = 0
    BY <1>1, Constants DEF EndOf
  <2>2. <<>> = [k \in 1..0 |-> k]
    OBVIOUS
  <2> QED
    BY <1>1, <2>1, <2>2 DEF WrittenTo
<1> QED
  BY <1>1, <1>4, <1>7, <1>8 DEF TransferInv

LEMMA Place ==
  ASSUME FileType, NEW c \in chunk..(Count(size) - 1)
  PROVE  (c - chunk) * FrameSize + 1 \in Nat \ {0} /\ c \in Nat
<1>1. c - chunk \in Nat /\ FrameSize \in Nat /\ c \in Nat
  BY CountFacts, Constants DEF FileType, FrameSize
<1> QED
  BY <1>1

\* What arrives may be moved on, as long as its bytes are the same.
LEMMA SameBytes ==
  ASSUME FileType, Framed, UNCHANGED <<chunk, size, order>>, Coming' = Coming,
         \A p \in 1..Coming : Byte(p)' = Byte(p)
  PROVE  Framed'
<1>1. InOrder' <=> InOrder
  BY DEF InOrder, Count
<1>2. Coming \in Nat
  BY DEF FileType, Coming
<1>3. ASSUME InOrder, NEW c \in chunk..(Count(size) - 1), (c - chunk) * FrameSize + 1 <= Coming
      PROVE  Byte((c - chunk) * FrameSize + 1)' = <<c, 1>>
  <2>1. PICK p \in Nat \ {0} : p = (c - chunk) * FrameSize + 1
    BY Place
  <2>2. Byte(p) = <<c, 1>> /\ p \in 1..Coming
    BY <1>2, <1>3, <2>1 DEF Framed
  <2> QED
    BY <2>1, <2>2
<1> QED
  BY <1>1, <1>3 DEF Framed, Count

\* The file and what is written of it stay.
LEMMA WrittenKept ==
  ASSUME TransferInv, UNCHANGED <<size, format, order, chunk, written>>
  PROVE  /\ (format' = "v2" \/ InOrder') => WrittenTo(EndOf(chunk))'
         /\ Count(size') = Count(size) /\ Len(written') = Len(written)
<1>1. InOrder' <=> InOrder
  BY DEF InOrder, Count
<1>2. EndOf(chunk)' = EndOf(chunk) /\ Count(size') = Count(size)
  BY DEF EndOf, Count
<1> QED
  BY <1>1, <1>2 DEF TransferInv, WrittenTo

LEMMA TransferInvFails == TransferInv /\ Fails => TransferInv'
<1> SUFFICES ASSUME TransferInv, Fails PROVE TransferInv'
  OBVIOUS
<1>1. FileType'
  BY DEF TransferInv, FileType, Fails, Count
<1>2. Framed'
  BY DEF TransferInv, Framed, Fails, Coming, Byte, InOrder, Count
<1> QED
  BY <1>1, <1>2, WrittenKept DEF TransferInv, Fails

LEMMA TransferInvFinish == TransferInv /\ Finish => TransferInv'
<1> SUFFICES ASSUME TransferInv, Finish PROVE TransferInv'
  OBVIOUS
<1>1. FileType'
  BY DEF TransferInv, FileType, Finish, Count
<1>2. Framed'
  BY DEF TransferInv, Framed, Finish, Coming, Byte, InOrder, Count
<1>3. phase' = "done" => Len(written') = size'
  BY DEF Finish
<1> QED
  BY <1>1, <1>2, <1>3, WrittenKept DEF TransferInv, Finish

\* readFrame moves bytes from the network to the piece, and from there to the frame.
LEMMA TransferInvArrive == TransferInv /\ Arrive => TransferInv'
<1> SUFFICES ASSUME TransferInv, Arrive PROVE TransferInv'
  OBVIOUS
<1>1. CASE Fails
  BY <1>1, TransferInvFails
<1>2. CASE ~Fails
  <2>1. PICK n \in 1..MaxPiece :
          /\ n <= Len(source)
          /\ piece' = SubSeq(source, 1, n)
          /\ source' = SubSeq(source, n + 1, Len(source))
          /\ UNCHANGED <<size, format, order, frame, chunk, mode, written, received, phase>>
    BY <1>2 DEF Arrive
  <2>2. /\ source \in Seq(SealedBytes) /\ frame \in Seq(SealedBytes) /\ n \in 0..Len(source)
        /\ piece = <<>>
    BY <2>1, TransferAssumption DEF TransferInv, FileType, Arrive
  <2>3. /\ piece' \in Seq(SealedBytes) /\ Len(piece') = n
        /\ \A p \in 1..n : piece'[p] = source[p]
        /\ source' \in Seq(SealedBytes) /\ Len(source') = Len(source) - n
        /\ \A p \in 1..(Len(source) - n) : source'[p] = source[n + p]
    BY <2>1, <2>2, Halves
  <2>4. FileType'
    BY <2>1, <2>3 DEF TransferInv, FileType, Count
  <2>5. Coming' = Coming
    <3>1. Len(piece) = 0 /\ frame' = frame /\ {Len(frame), Len(source)} \subseteq Nat
      BY <2>1, <2>2
    <3>2. Len(frame) + n + (Len(source) - n) = Len(frame) + 0 + Len(source)
      BY <3>1
    <3> QED
      BY <2>3, <3>1, <3>2 DEF Coming
  <2>6. ASSUME NEW p \in 1..Coming PROVE Byte(p)' = Byte(p)
    <3>1. CASE p <= Len(frame)
      BY <2>1, <3>1 DEF Byte
    <3>2. CASE Len(frame) < p /\ p <= Len(frame) + n
      BY <2>1, <2>2, <2>3, <3>2 DEF Byte, Coming
    <3>3. CASE Len(frame) + n < p
      <4>1. p - Len(frame) - n \in 1..(Len(source) - n)
        BY <2>2, <3>3 DEF Coming
      <4>2. Byte(p) = source[p - Len(frame)]
        <5>1. Len(piece) = 0 /\ {Len(frame), Len(source), p} \subseteq Nat
          BY <2>2 DEF Coming
        <5>2. /\ ~(p <= Len(frame)) /\ ~(p <= Len(frame) + Len(piece))
              /\ p - Len(frame) - Len(piece) = p - Len(frame)
          BY <2>2, <3>3, <5>1
        <5> QED
          BY <5>2 DEF Byte
      <4>4. Byte(p)' = source'[p - Len(frame) - n]
        <5>1. frame' = frame /\ Len(piece') = n /\ {Len(frame), n, p} \subseteq Nat
          BY <2>1, <2>2, <2>3 DEF Coming
        <5>2. ~(p <= Len(frame')) /\ ~(p <= Len(frame') + Len(piece'))
          BY <3>3, <5>1
        <5>3. Byte(p)' = source'[p - Len(frame') - Len(piece')]
          BY <5>2 DEF Byte
        <5> QED
          BY <5>1, <5>3
      <4>3. n + (p - Len(frame) - n) = p - Len(frame)
        BY <2>2
      <4> QED
        BY <2>3, <4>1, <4>2, <4>3, <4>4
    <3> QED
      BY <2>2, <3>1, <3>2, <3>3 DEF Coming
  <2>7. Framed'
    BY <2>1, <2>5, <2>6, SameBytes DEF TransferInv
  <2> QED
    BY <2>1, <2>4, <2>7, WrittenKept DEF TransferInv
<1> QED
  BY <1>1, <1>2

LEMMA TransferInvCopy == TransferInv /\ Copy => TransferInv'
<1> SUFFICES ASSUME TransferInv, Copy PROVE TransferInv'
  OBVIOUS
<1>1. PICK f, g, h : f = frame /\ g = piece /\ h = source
  OBVIOUS
<1>2. f \in Seq(SealedBytes) /\ g \in Seq(SealedBytes) /\ h \in Seq(SealedBytes)
  BY <1>1 DEF TransferInv, FileType
<1>3. PICK n \in 0..Len(g) :
        /\ frame' = f \o SubSeq(g, 1, n)
        /\ piece' = SubSeq(g, n + 1, Len(g))
        /\ phase' \in {"failed", phase}
        /\ UNCHANGED <<size, format, order, source, chunk, written>>
  <2>1. chunk \in 0..(Count(size) - 1) /\ size \in Nat \ {0}
    BY CountFacts DEF TransferInv, FileType, Copy
  <2>2. Due \in Nat
    BY <2>1, ChunkFacts, Constants DEF Due
  <2> DEFINE m == Due - Len(f)
             n == IF Len(g) < m THEN Len(g) ELSE m
  <2>3. Len(g) \in Nat /\ m \in Nat /\ n \in 0..Len(g)
    BY <1>1, <1>2, <2>2 DEF Copy
  <2>4. /\ frame' = f \o SubSeq(g, 1, n)
        /\ piece' = SubSeq(g, n + 1, Len(g))
        /\ phase' \in {"failed", phase}
        /\ UNCHANGED <<size, format, order, source, chunk, written>>
    BY <1>1 DEF Copy
  <2> QED
    BY <2>3, <2>4
<1>4. /\ SubSeq(g, 1, n) \in Seq(SealedBytes) /\ Len(SubSeq(g, 1, n)) = n
      /\ \A p \in 1..n : SubSeq(g, 1, n)[p] = g[p]
      /\ piece' \in Seq(SealedBytes) /\ Len(piece') = Len(g) - n
      /\ \A p \in 1..(Len(g) - n) : piece'[p] = g[n + p]
  BY <1>2, <1>3, Halves
<1>5. PICK k : k = SubSeq(g, 1, n)
  OBVIOUS
<1>6. /\ frame' \in Seq(SealedBytes) /\ Len(frame') = Len(f) + n
      /\ \A p \in 1..Len(f) : frame'[p] = f[p]
      /\ \A p \in 1..n : frame'[Len(f) + p] = k[p]
  BY <1>2, <1>3, <1>4, <1>5
<1>7. {Len(f), Len(g), Len(h)} \subseteq Nat
  BY <1>2
<1>8. FileType'
  BY <1>3, <1>4, <1>6 DEF TransferInv, FileType, Count
<1>9. Coming' = Coming /\ Coming = Len(f) + Len(g) + Len(h)
  BY <1>1, <1>3, <1>4, <1>6, <1>7 DEF Coming
<1>10. ASSUME NEW p \in 1..Coming PROVE Byte(p)' = Byte(p)
  <2>1. CASE p <= Len(f)
    BY <1>1, <1>6, <1>7, <2>1 DEF Byte
  <2>2. CASE Len(f) < p /\ p <= Len(f) + n
    <3>1. p - Len(f) \in 1..n /\ Len(f) + (p - Len(f)) = p
      BY <1>7, <1>9, <2>2
    <3>2. Byte(p) = g[p - Len(f)]
      BY <1>1, <1>3, <1>7, <2>2 DEF Byte
    <3>3. Byte(p)' = frame'[p]
      BY <1>6, <1>7, <2>2 DEF Byte
    <3>4. frame'[Len(f) + (p - Len(f))] = g[p - Len(f)]
      BY <1>4, <1>5, <1>6, <3>1
    <3> QED
      BY <3>1, <3>2, <3>3, <3>4
  <2>3. CASE Len(f) + n < p /\ p <= Len(f) + Len(g)
    <3>1. p - (Len(f) + n) \in 1..(Len(g) - n) /\ n + (p - (Len(f) + n)) = p - Len(f)
      BY <1>7, <1>9, <2>3
    <3>2. Byte(p) = g[p - Len(f)]
      BY <1>1, <1>3, <1>7, <2>3 DEF Byte
    <3>3. Byte(p)' = piece'[p - (Len(f) + n)]
      BY <1>4, <1>6, <1>7, <2>3 DEF Byte
    <3>4. piece'[p - (Len(f) + n)] = g[n + (p - (Len(f) + n))]
      BY <1>4, <3>1
    <3> QED
      BY <3>1, <3>2, <3>3, <3>4
  <2>4. CASE Len(f) + Len(g) < p
    <3>1. Byte(p) = h[p - Len(f) - Len(g)]
      BY <1>1, <1>7, <2>4 DEF Byte
    <3>2. Byte(p)' = source'[p - (Len(f) + n) - (Len(g) - n)]
      BY <1>4, <1>6, <1>7, <2>4 DEF Byte
    <3>3. p - (Len(f) + n) - (Len(g) - n) = p - Len(f) - Len(g) /\ source' = h
      BY <1>1, <1>3, <1>7, <1>9
    <3> QED
      BY <3>1, <3>2, <3>3
  <2> QED
    BY <1>7, <1>9, <2>1, <2>2, <2>3, <2>4
<1>11. Framed'
  BY <1>3, <1>9, <1>10, SameBytes DEF TransferInv
<1>12. phase' /= "done"
  BY <1>3 DEF Copy
<1> QED
  BY <1>3, <1>8, <1>11, <1>12, WrittenKept DEF TransferInv

\* A frame that can be opened is the chunk that is due.
LEMMA OpenedIsDue ==
  ASSUME TransferInv, Decrypt, format = "v2" \/ InOrder,
         NEW way, NEW j \in Opened(frame, chunk, way)
  PROVE  j = chunk
<1>1. frame = Sealed(j) /\ format = way /\ (way = "v2" => j = chunk) /\ j \in 0..(Count(size) - 1)
  BY DEF Opened
<1>2. CASE format = "v2"
  BY <1>1, <1>2
<1>3. CASE InOrder
  <2>1. chunk \in 0..(Count(size) - 1) /\ size \in Nat \ {0} /\ Count(size) \in Nat
    BY CountFacts DEF TransferInv, FileType, Decrypt
  <2>2. Due \in Nat \ {0} /\ Len(frame) = Due
    BY <2>1, ChunkFacts, Constants DEF Due, Decrypt
  <2>3. (chunk - chunk) * FrameSize + 1 = 1
    BY <2>1, Constants DEF FrameSize
  <2>4. 1 <= Coming /\ Byte(1) = frame[1]
    BY <2>2 DEF TransferInv, FileType, Coming, Byte
  <2>5. frame[1] = <<chunk, 1>>
    BY <1>3, <2>1, <2>3, <2>4 DEF TransferInv, Framed
  <2>6. frame[1] = <<j, 1>>
    <3>1. j \in Nat /\ Length(j) \in Nat
      BY <1>1, <2>1, ChunkFacts
    <3> QED
      BY <1>1, <3>1, SealedFacts
  <2> QED
    BY <2>5, <2>6
<1> QED
  BY <1>2, <1>3

LEMMA TransferInvDecrypt == TransferInv /\ Decrypt => TransferInv'
<1> SUFFICES ASSUME TransferInv, Decrypt PROVE TransferInv'
  OBVIOUS
<1>1. /\ chunk \in 0..(Count(size) - 1) /\ size \in Nat \ {0} /\ Count(size) \in Nat \ {0}
      /\ phase = "reading" /\ Len(frame) = Due
  BY CountFacts DEF TransferInv, FileType, Decrypt
<1>2. CASE Fails
  BY <1>2, TransferInvFails
<1>3. ASSUME NEW way, NEW j \in Opened(frame, chunk, way), phase' = "failed",
             UNCHANGED <<written, frame, chunk, size, format, order, source, piece, received>>
      PROVE  TransferInv'
  <2>1. FileType'
    BY <1>1, <1>3 DEF TransferInv, FileType, Count
  <2>2. Framed'
    BY <1>3 DEF TransferInv, Framed, Coming, Byte, InOrder, Count
  <2> QED
    BY <1>3, <2>1, <2>2, WrittenKept DEF TransferInv
<1>4. ASSUME NEW way, NEW j \in Opened(frame, chunk, way),
             written' = written \o Plain(j), frame' = <<>>, chunk' = chunk + 1,
             phase' = IF chunk + 1 = Count(size) THEN "finishing" ELSE phase,
             UNCHANGED <<size, format, order, source, piece, received>>
      PROVE  TransferInv'
  <2>1. FileType'
    BY <1>1, <1>4 DEF TransferInv, FileType, Count
  <2>2. Coming' = Len(piece) + Len(source) /\ Coming = Due + Len(piece) + Len(source)
        /\ {Len(piece), Len(source)} \subseteq Nat
    BY <1>1, <1>4 DEF TransferInv, FileType, Coming
  <2>3. Due \in Nat /\ (chunk + 1 < Count(size) => Due = FrameSize)
    BY <1>1, ChunkFacts, Constants DEF Due, FrameSize
  <2>4. ASSUME NEW p \in Nat \ {0} PROVE Byte(p)' = Byte(Due + p)
    <3>1. Byte(p)' = IF p <= Len(piece) THEN piece[p] ELSE source[p - Len(piece)]
      BY <1>4, <2>2 DEF Byte
    <3>2. Byte(Due + p) = IF Due + p <= Due + Len(piece) THEN piece[Due + p - Due]
                          ELSE source[Due + p - Due - Len(piece)]
      BY <1>1, <2>2, <2>3 DEF Byte
    <3>3. Due + p - Due = p /\ (Due + p <= Due + Len(piece) <=> p <= Len(piece))
      BY <2>2, <2>3
    <3>4. CASE p <= Len(piece)
      BY <3>1, <3>2, <3>3, <3>4
    <3>5. CASE ~(p <= Len(piece))
      <4>1. Due + p - Due - Len(piece) = p - Len(piece)
        BY <2>2, <2>3
      <4>2. Byte(Due + p) = source[p - Len(piece)]
        BY <3>2, <3>3, <3>5, <4>1
      <4> QED
        BY <3>1, <3>5, <4>2
    <3> QED
      BY <3>4, <3>5
  <2>5. Framed'
    <3>1. InOrder' <=> InOrder
      BY <1>4 DEF InOrder, Count
    <3>2. PICK q \in 1..Count(size) : q = chunk + 1
      BY <1>1
    <3>3. ASSUME InOrder, NEW c \in q..(Count(size) - 1), (c - q) * FrameSize + 1 <= Coming'
          PROVE  Byte((c - q) * FrameSize + 1)' = <<c, 1>>
      <4>1. c - q \in Nat /\ c - chunk = (c - q) + 1 /\ FrameSize \in Nat
            /\ c \in chunk..(Count(size) - 1) /\ chunk + 1 < Count(size)
        BY <1>1, <3>2, Constants DEF FrameSize
      <4>2. (c - q) * FrameSize \in Nat
            /\ (c - chunk) * FrameSize = (c - q) * FrameSize + FrameSize
        BY <4>1, Distribute
      <4>3. PICK p \in Nat \ {0} : p = (c - q) * FrameSize + 1
        BY <4>2
      <4>4. Due = FrameSize
        BY <2>3, <4>1
      <4>5. PICK r : r = (c - chunk) * FrameSize + 1
        OBVIOUS
      <4>6. r = Due + p
        BY <4>1, <4>2, <4>3, <4>4, <4>5
      <4>7. p <= Coming'
        BY <3>3, <4>3
      <4>8. r <= Coming
        BY <2>2, <2>3, <4>6, <4>7
      <4>9. Byte(r) = <<c, 1>>
        BY <3>3, <4>1, <4>5, <4>8 DEF TransferInv, Framed
      <4>10. Byte(p)' = <<c, 1>>
        BY <2>4, <4>3, <4>6, <4>9
      <4> QED
        BY <4>3, <4>10
    <3>4. chunk' = q /\ Count(size)' = Count(size)
      BY <1>4, <3>2 DEF Count
    <3> QED
      BY <3>1, <3>3, <3>4 DEF Framed
  <2>6. ASSUME format' = "v2" \/ InOrder' PROVE WrittenTo(EndOf(chunk))'
    <3>1. format = "v2" \/ InOrder
      BY <1>4, <2>6 DEF InOrder, Count
    <3>2. j = chunk
      BY <1>4, <3>1, OpenedIsDue
    <3> DEFINE m == EndOf(chunk)
               l == Length(chunk)
    <3>3. m \in Nat /\ l \in Nat /\ m = chunk * ChunkSize /\ EndOf(chunk + 1) = m + l
      BY <1>1, ChunkFacts
    <3>4. EndOf(chunk)' = EndOf(chunk + 1)
      BY <1>4 DEF EndOf
    <3>5. Plain(chunk) = [k \in 1..l |-> m + k]
      BY <3>3 DEF Plain
    <3>6. written = [k \in 1..m |-> k]
      BY <3>1 DEF TransferInv, WrittenTo
    <3>7. written' = [k \in 1..m |-> k] \o [k \in 1..l |-> m + k]
      BY <1>4, <3>2, <3>5, <3>6
    <3> HIDE DEF m, l
    <3>8. [k \in 1..m |-> k] \o [k \in 1..l |-> m + k] = [k \in 1..(m + l) |-> k]
      BY <3>3
    <3> QED
      BY <3>3, <3>4, <3>7, <3>8 DEF WrittenTo
  <2>7. phase' /= "done"
    BY <1>1, <1>4
  <2> QED
    BY <2>1, <2>5, <2>6, <2>7 DEF TransferInv
<1> QED
  BY <1>2, <1>3, <1>4 DEF Decrypt

\* What a download writes is at all times the beginning of the file, and a download
\* that succeeds has written all of it (StreamingDownloadService.ts,
\* streamDecryptToFile), however the response was cut to pieces, cut off or prolonged:
\* FileExact, for files, chunks, overheads and pieces of every size.
THEOREM FileIsExact == InitTransfer /\ [][NextTransfer]_transferVars => []FileExact
<1>1. ASSUME TransferInv, [NextTransfer]_transferVars
      PROVE  TransferInv'
  <2>1. CASE UNCHANGED transferVars
    <3>1. FileType'
      BY <1>1, <2>1 DEF transferVars, TransferInv, FileType, Count
    <3>2. Framed'
      BY <1>1, <2>1 DEF transferVars, TransferInv, Framed, Coming, Byte, InOrder, Count
    <3> QED
      BY <1>1, <2>1, <3>1, <3>2, WrittenKept DEF TransferInv, transferVars
  <2>2. CASE NextTransfer
    BY <1>1, <2>2, TransferInvArrive, TransferInvCopy, TransferInvDecrypt, TransferInvFinish,
       TransferInvFails DEF NextTransfer, Abort
  <2> QED
    BY <1>1, <2>1, <2>2
<1> QED
  BY <1>1, TransferInvInit, TransferInvEntails, PTL

-----------------------------------------------------------------------------
(* MailPage: the list of a folder                                          *)

LoadSet == [n : Nat, folder : Folders, list : SUBSET (Mails \X BOOLEAN), total : Int]
Boxes == [Mails -> [at : {"none", "inbox", "archive", "gone"}, read : BOOLEAN]]
Requests == [at : {"idle", "sent", "done", "confirm"},
             op : {"none", "open", "read", "unread", "delete", "inbox", "archive"},
             of : SUBSET Mails, stale : BOOLEAN]

PageType ==
  /\ box \in Boxes /\ news \in Nat /\ sent \in Nat
  /\ loads \subseteq LoadSet /\ folder \in Folders
  /\ list \subseteq Mails \X BOOLEAN /\ total \in Int /\ from \in Nat
  /\ task \in [Tasks -> Requests]
  /\ missed \in Nat

\* The list asked for last is one of the folder that is shown.
Numbered ==
  /\ from <= sent /\ missed <= sent
  /\ \A l \in loads : l.n <= sent /\ (l.n = sent => l.folder = folder)

\* The page has been told of every change since it last asked for a list.
Told == news = 0 /\ missed < sent
Shows(f, ms, n) == ms = {<<m, box[m].read>> : m \in In(f)} /\ n = Cardinality(In(f))

\* Once every event has arrived and nothing was lost, the last list asked for is
\* right from its answer on, and so is the page that shows it; a request of the
\* user whose answer is on its way changes nothing of it.
ListFresh ==
  Told => /\ \A l \in loads : l.n = sent /\ l.total >= 0 => Shows(l.folder, l.list, l.total)
          /\ from = sent => /\ Shows(folder, list, total)
                            /\ \A t \in Tasks : task[t].at = "done" /\ ~task[t].stale =>
                                 /\ task[t].op = "open"
                                 /\ \A m \in task[t].of : InBox(m) => box[m].read

PageInv == PageType /\ Numbered /\ ListFresh

LEMMA PageInvEntails == PageInv => ListTrue
BY DEF PageInv, ListFresh, Told, Shows, ListTrue

LEMMA PageInvInit == InitMailPage => PageInv
<1> SUFFICES ASSUME InitMailPage PROVE PageInv
  OBVIOUS
<1>1. box \in Boxes
  <2>1. {[at |-> "none", read |-> FALSE], [at |-> "inbox", read |-> FALSE]}
          \subseteq [at : {"none", "inbox", "archive", "gone"}, read : BOOLEAN]
    OBVIOUS
  <2> QED
    BY <2>1 DEF InitMailPage, Boxes
<1>2. /\ news \in Nat /\ sent = 1 /\ folder \in Folders /\ list = {} /\ total = 0 /\ from = 0
      /\ missed = 0
  BY DEF InitMailPage, Folders, Places
<1>3. loads \subseteq LoadSet /\ \A l \in loads : l.n = 1 /\ l.folder = folder /\ l.total = -1
  BY DEF InitMailPage, LoadSet, Folders, Places, Load
<1>4. task \in [Tasks -> Requests]
  BY DEF InitMailPage, Idle, Requests
<1>5. \A l \in loads : ~(l.total >= 0)
  BY <1>3
<1> QED
  BY <1>1, <1>2, <1>3, <1>4, <1>5 DEF PageInv, PageType, Numbered, ListFresh

\* A change of the box is an event on its way, or the page is in the dark.
LEMMA EmitOne ==
  ASSUME PageInv, Emit(1), UNCHANGED sent
  PROVE  news' \in Nat /\ missed' \in Nat /\ missed' <= sent' /\ ~Told'
BY DEF PageInv, PageType, Numbered, Emit, Told

LEMMA EmitNone ==
  ASSUME PageInv, Emit(0)
  PROVE  news' = news /\ missed' = missed
BY DEF PageInv, PageType, Emit

\* What a request leaves in the box.
LEMMA DoneType ==
  ASSUME PageInv, NEW S \in SUBSET Mails, NEW op
  PROVE  /\ Done(op, S) \in Boxes
         /\ Moved(box, S, "inbox") \in Boxes
BY DEF PageInv, PageType, Boxes, Done, Moved, Marked, Without, Places

\* A step that leaves the page in the dark, whatever else it changes
LEMMA DarkStep ==
  ASSUME PageInv, PageType', UNCHANGED <<loads, sent, folder, from>>,
         missed' <= sent', ~Told'
  PROVE  PageInv'
BY DEF PageInv, Numbered, ListFresh

LEMMA PageInvElsewhere ==
  ASSUME PageInv, NEW m \in Mails, NEW op, Elsewhere(m, op)
  PROVE  PageInv'
<1>1. news' \in Nat /\ missed' \in Nat /\ missed' <= sent' /\ ~Told'
  BY EmitOne DEF Elsewhere
<1>2. box' \in Boxes
  BY DoneType DEF Elsewhere
<1>3. PageType' /\ UNCHANGED <<loads, sent, folder, from>>
  BY <1>1, <1>2 DEF Elsewhere, view, PageInv, PageType
<1> QED
  BY <1>1, <1>3, DarkStep

LEMMA PageInvAnswer ==
  ASSUME IsFiniteSet(Mails), PageInv, NEW l \in loads, Answer(l)
  PROVE  PageInv'
<1>1. l \in LoadSet
  BY DEF PageInv, PageType
<1>2. IsFiniteSet(In(l.folder))
  BY FS_Subset DEF In
<1> DEFINE ms == {<<m, box[m].read>> : m \in In(l.folder)}
           c == Cardinality(In(l.folder))
           q == [l EXCEPT !.list = ms, !.total = c]
<1>3. c \in Int
  BY <1>2, FS_CardinalityType
<1>4. ms \subseteq Mails \X BOOLEAN
  BY DEF PageInv, PageType, Boxes, In
<1>5. loads' = (loads \ {l}) \cup {q} /\ Shows(l.folder, ms, c)
  BY DEF Answer, Shows
<1> HIDE DEF ms, c
<1>6. /\ q \in LoadSet /\ q.n = l.n /\ q.folder = l.folder
      /\ q.list = ms /\ q.total = c
  BY <1>1, <1>3, <1>4 DEF LoadSet
<1> HIDE DEF q
<1>7. Shows(q.folder, q.list, q.total)
  BY <1>5, <1>6
<1>8. UNCHANGED <<box, news, sent, folder, list, total, from, task, missed>>
  BY DEF Answer, view, bounds
<1>9. PageType'
  BY <1>5, <1>6, <1>8 DEF PageInv, PageType
<1>10. Numbered'
  BY <1>5, <1>6, <1>8 DEF PageInv, Numbered
<1>11. Told' => Told
  BY <1>8 DEF Told
<1>12. \A f, g, n : Shows(f, g, n) => Shows(f, g, n)'
  BY <1>8 DEF Shows, In, InBox
<1>13. ASSUME Told', NEW k \in loads', k.n = sent, k.total >= 0
       PROVE  Shows(k.folder, k.list, k.total)
  BY <1>5, <1>7, <1>11, <1>13 DEF PageInv, ListFresh
<1>14. ListFresh'
  BY <1>8, <1>11, <1>12, <1>13 DEF PageInv, ListFresh, InBox
<1> QED
  BY <1>9, <1>10, <1>14 DEF PageInv

LEMMA AskStep ==
  ASSUME PageInv, Ask(folder'), folder' \in Folders, UNCHANGED <<from, box>>, news' \in Nat,
         missed' \in Nat, missed' <= sent', list' \subseteq Mails \X BOOLEAN, total' \in Int,
         task' \in [Tasks -> Requests]
  PROVE  PageInv'
<1>1. /\ sent' = sent + 1 /\ sent \in Nat /\ from <= sent
      /\ loads' = loads \cup {Load(sent + 1, folder')}
  BY DEF Ask, PageInv, PageType, Numbered
<1>2. Load(sent + 1, folder') \in LoadSet
  BY <1>1 DEF Load, LoadSet
<1>3. PageType'
  BY <1>1, <1>2 DEF PageInv, PageType
<1>4. \A l \in loads : l.n \in Nat /\ l.n < sent'
  BY <1>1 DEF PageInv, PageType, Numbered, LoadSet
<1>5. /\ Load(sent + 1, folder').n = sent' /\ Load(sent + 1, folder').folder = folder'
      /\ ~(Load(sent + 1, folder').total >= 0)
  BY <1>1 DEF Load
<1>6. from' < sent' /\ from' \in Nat
  BY <1>1 DEF PageInv, PageType
<1>7. Numbered'
  BY <1>1, <1>3, <1>4, <1>5, <1>6 DEF Numbered, PageType
<1>8. ListFresh'
  BY <1>1, <1>3, <1>4, <1>5, <1>6 DEF ListFresh, PageType
<1> QED
  BY <1>3, <1>7, <1>8 DEF PageInv

LEMMA PageInvDeliver == PageInv /\ Deliver => PageInv'
<1> SUFFICES ASSUME PageInv, Deliver PROVE PageInv'
  OBVIOUS
<1>1. news' \in Nat /\ UNCHANGED <<box, view, task>>
  BY DEF Deliver, PageInv, PageType
<1>2. CASE stream = "open"
  BY <1>1, <1>2, AskStep DEF Deliver, Refresh, view, PageInv, PageType, Numbered, Ask
<1>3. CASE stream /= "open"
  BY <1>1, <1>3, DarkStep DEF Deliver, view, PageInv, PageType, Told
<1> QED
  BY <1>2, <1>3

LEMMA PageInvSwitch ==
  ASSUME PageInv, NEW f \in Folders, Switch(f)
  PROVE  PageInv'
<1>1. Ask(folder') /\ folder' = f /\ UNCHANGED <<box, news, from, total, task, missed>> /\ list' = {}
  BY DEF Switch
<1> QED
  BY <1>1, AskStep DEF PageInv, PageType, Numbered, Ask

\* A step that changes nothing the list depends on
LEMMA QuietStep ==
  ASSUME PageInv, PageType', UNCHANGED <<box, news, sent, folder, list, total, from, missed>>,
         loads' \subseteq loads,
         \A t \in Tasks : task'[t] = task[t] \/ task'[t].at \in {"idle", "sent"}
  PROVE  PageInv'
<1>1. Numbered'
  BY DEF PageInv, Numbered
<1>2. Told' => Told
  BY DEF Told
<1>3. \A f, ms, n : Shows(f, ms, n) => Shows(f, ms, n)'
  BY DEF Shows, In, InBox
<1>4. \A t \in Tasks : task'[t].at = "done" => task'[t] = task[t]
  OBVIOUS
<1>5. ListFresh'
  BY <1>2, <1>3, <1>4 DEF PageInv, ListFresh, InBox
<1> QED
  BY <1>1, <1>5 DEF PageInv

LEMMA PageInvStream == PageInv /\ (Break \/ Reconnect) => PageInv'
BY QuietStep DEF Break, Reconnect, view, bounds, PageInv, PageType

LEMMA PageInvLoadFails ==
  ASSUME PageInv, NEW l \in loads, LoadFails(l)
  PROVE  PageInv'
<1>1. /\ loads' = loads \ {l} /\ missed' = sent
      /\ UNCHANGED <<box, news, sent, folder, list, total, from, task>>
  BY DEF LoadFails, view
<1> QED
  BY <1>1 DEF PageInv, PageType, Numbered, ListFresh, Told

LEMMA PageInvAct ==
  ASSUME PageInv, NEW t \in Tasks,
         NEW op \in {"open", "read", "unread", "delete"} \cup Places, Act(t, op)
  PROVE  PageInv'
<1>1. PICK S \in SUBSET {x[1] : x \in list} :
        task' = [task EXCEPT ![t] = [Idle EXCEPT !.at = "sent", !.op = op, !.of = S]]
  BY DEF Act
<1>2. UNCHANGED <<box, news, sent, loads, folder, list, total, from, missed>>
  BY DEF Act, view
<1>3. S \in SUBSET Mails
  BY <1>1 DEF PageInv, PageType
<1>4. PICK q : q = [Idle EXCEPT !.at = "sent", !.op = op, !.of = S]
  OBVIOUS
<1>5. q \in Requests /\ q.at = "sent"
  BY <1>3, <1>4 DEF Idle, Requests, Places
<1>6. PageType'
  BY <1>1, <1>2, <1>4, <1>5 DEF PageInv, PageType
<1> QED
  BY <1>1, <1>2, <1>4, <1>5, <1>6, QuietStep DEF PageInv, PageType

LEMMA PageInvTaskFails ==
  ASSUME PageInv, NEW t \in Tasks, TaskFails(t)
  PROVE  PageInv'
<1>1. task' = [task EXCEPT ![t] = Idle]
  BY DEF TaskFails
<1>2. UNCHANGED <<box, news, sent, loads, folder, list, total, from, missed>>
  BY DEF TaskFails, view
<1>3. Idle \in Requests /\ Idle.at = "idle"
  BY DEF Idle, Requests
<1>4. PageType'
  BY <1>1, <1>2, <1>3 DEF PageInv, PageType
<1> QED
  BY <1>1, <1>2, <1>3, <1>4, QuietStep DEF PageInv, PageType

\* The answer of a list that was asked for last is the list of the folder.
LEMMA PageInvReceive ==
  ASSUME PageInv, NEW l \in loads, Receive(l)
  PROVE  PageInv'
<1>1. /\ l \in LoadSet /\ l.total >= 0 /\ loads' = loads \ {l}
      /\ list' = l.list /\ total' = l.total /\ from' = l.n
      /\ UNCHANGED <<box, news, sent, folder, missed>>
  BY DEF Receive, PageInv, PageType, bounds
<1>2. task' = [t \in Tasks |-> IF task[t].at = "done" THEN [task[t] EXCEPT !.stale = TRUE] ELSE task[t]]
  BY DEF Receive
<1>3. \A t \in Tasks : task'[t] \in Requests /\ (task'[t].at = "done" => task'[t].stale = TRUE)
  <2> SUFFICES ASSUME NEW t \in Tasks
               PROVE  task'[t] \in Requests /\ (task'[t].at = "done" => task'[t].stale = TRUE)
    OBVIOUS
  <2>1. task[t] \in Requests
    BY DEF PageInv, PageType
  <2> QED
    BY <1>2, <2>1 DEF Requests
<1>4. PageType'
  <2>1. task' \in [Tasks -> Requests]
    BY <1>2, <1>3
  <2> QED
    BY <1>1, <2>1 DEF PageInv, PageType, LoadSet
<1>5. Numbered'
  BY <1>1 DEF PageInv, Numbered
<1>6. Told' => Told
  BY <1>1 DEF Told
<1>7. \A f, ms, n : Shows(f, ms, n) => Shows(f, ms, n)'
  BY <1>1 DEF Shows, In, InBox
<1>8. ASSUME Told', from' = sent'
      PROVE  Shows(folder, list, total)'
  <2>1. l.n = sent /\ l.folder = folder
    BY <1>1, <1>8 DEF PageInv, Numbered
  <2>2. Shows(l.folder, l.list, l.total)
    BY <1>1, <1>6, <1>8, <2>1 DEF PageInv, ListFresh
  <2> QED
    BY <1>1, <1>7, <2>1, <2>2 DEF Shows, In, InBox
<1>9. ListFresh'
  BY <1>1, <1>3, <1>6, <1>7, <1>8 DEF PageInv, ListFresh
<1> QED
  BY <1>4, <1>5, <1>9 DEF PageInv

LEMMA MarkedAlready ==
  ASSUME NEW v \in [at : {"none", "inbox", "archive", "gone"}, read : BOOLEAN], v.read
  PROVE  [v EXCEPT !.read = TRUE] = v
OBVIOUS

\* The end of a request: the box changes only with an event, or not at all.
LEMMA PageInvCommit ==
  ASSUME PageInv, NEW t \in Tasks, Commit(t)
  PROVE  PageInv'
<1> DEFINE r == task[t]
           S == {m \in r.of : InBox(m)}
           silent == r.op = "open" /\ \A m \in S : box[m].read
           missing == S = {} /\ Cardinality(r.of) = 1
<1>1. r \in Requests /\ S \subseteq Mails
  BY DEF PageInv, PageType, Requests
<1>2. /\ r.at \in {"sent", "confirm"} /\ UNCHANGED <<loads, sent, folder, list, total, from>>
      /\ IF missing THEN box' = box ELSE box' = Done(r.op, S)
      /\ Emit(IF missing \/ (silent /\ r.at = "sent") THEN 0 ELSE 1)
  BY DEF Commit, view
<1>3. PICK q : /\ task' = [task EXCEPT ![t] = q]
               /\ q = IF missing \/ r.at = "confirm" THEN Idle ELSE [r EXCEPT !.at = "done"]
  BY DEF Commit
<1>4. q \in Requests /\ q.at \in {"idle", "done"}
  BY <1>1, <1>3 DEF Idle, Requests
<1>5. box' \in Boxes
  BY <1>1, <1>2, DoneType DEF PageInv, PageType
<1> HIDE DEF r, S, silent, missing
<1>6. CASE missing
  <2>1. box' = box /\ news' = news /\ missed' = missed /\ q = Idle
    BY <1>2, <1>3, <1>6, EmitNone
  <2>2. PageType'
    BY <1>2, <1>3, <1>4, <2>1 DEF PageInv, PageType
  <2> QED
    BY <1>2, <1>3, <2>1, <2>2, QuietStep DEF Idle, PageInv, PageType
<1>7. CASE ~missing /\ silent /\ r.at = "sent"
  <2>1. news' = news /\ missed' = missed /\ q = [r EXCEPT !.at = "done"]
    BY <1>2, <1>3, <1>7, EmitNone
  <2>2. box' = box
    <3>1. box' = [m \in Mails |-> IF m \in S THEN [box[m] EXCEPT !.read = TRUE] ELSE box[m]]
      BY <1>2, <1>7 DEF silent, Done, Marked, Places
    <3>2. \A m \in Mails : box[m] \in [at : {"none", "inbox", "archive", "gone"}, read : BOOLEAN]
      BY DEF PageInv, PageType, Boxes
    <3>3. ASSUME NEW m \in Mails
          PROVE  box'[m] = box[m]
      <4>1. m \in S => box[m].read
        BY <1>7 DEF silent
      <4> QED
        BY <3>1, <3>2, <4>1, MarkedAlready
    <3> QED
      BY <3>1, <3>3 DEF PageInv, PageType, Boxes
  <2>3. q.op = "open" /\ \A m \in q.of : InBox(m) => box[m].read
    BY <1>1, <1>7, <2>1 DEF silent, S, Requests
  <2>4. PageType'
    BY <1>2, <1>3, <1>4, <2>1, <2>2 DEF PageInv, PageType
  <2>5. Numbered'
    BY <1>2, <2>1 DEF PageInv, Numbered
  <2>6. Told' => Told
    BY <1>2, <2>1 DEF Told
  <2>7. \A f, ms, n : Shows(f, ms, n) => Shows(f, ms, n)'
    BY <2>2 DEF Shows, In, InBox
  <2>8. \A u \in Tasks : task'[u] = IF u = t THEN q ELSE task[u]
    BY <1>3 DEF PageInv, PageType
  <2>9. ListFresh'
    BY <1>2, <2>2, <2>3, <2>6, <2>7, <2>8 DEF PageInv, ListFresh, InBox
  <2> QED
    BY <2>4, <2>5, <2>9 DEF PageInv
<1>8. CASE ~missing /\ ~(silent /\ r.at = "sent")
  <2>1. news' \in Nat /\ missed' \in Nat /\ missed' <= sent' /\ ~Told'
    BY <1>2, <1>8, EmitOne
  <2>2. PageType'
    BY <1>2, <1>3, <1>4, <1>5, <2>1 DEF PageInv, PageType
  <2> QED
    BY <1>2, <2>1, <2>2, DarkStep
<1> QED
  BY <1>6, <1>7, <1>8

\* The answer of a request the page has had no list since leaves what it shows
\* as it is, or the page waits for an event.
LEMMA PageInvReply ==
  ASSUME IsFiniteSet(Mails), PageInv, NEW t \in Tasks, Reply(t)
  PROVE  PageInv'
<1> DEFINE r == task[t]
           removes == r.op \in {"delete"} \cup Places
           confirms == r.op = "open" /\ \E m \in r.of : <<m, FALSE>> \in list
           less == total - Cardinality(r.of)
<1>1. /\ r \in Requests /\ r.at = "done" /\ UNCHANGED <<box, news, loads, sent, folder, from>>
      /\ missed' = IF r.stale THEN sent ELSE missed
  BY DEF Reply, bounds, PageInv, PageType
<1>2. PICK q : /\ task' = [task EXCEPT ![t] = q]
               /\ q = IF confirms THEN [r EXCEPT !.at = "confirm"] ELSE Idle
  BY DEF Reply
<1>3. q \in Requests /\ q.at \in {"idle", "confirm"}
  BY <1>1, <1>2 DEF Idle, Requests
<1>4. list' = IF removes THEN {x \in list : x[1] \notin r.of}
              ELSE {IF x[1] \in r.of THEN <<x[1], r.op /= "unread">> ELSE x : x \in list}
  BY DEF Reply
<1>5. total' = IF ~removes THEN total ELSE IF r.op = "delete" /\ less < 0 THEN 0 ELSE less
  BY DEF Reply
<1>6. list' \subseteq Mails \X BOOLEAN
  <2>1. \A x \in list : x \in Mails \X BOOLEAN /\ x[1] \in Mails
    BY DEF PageInv, PageType
  <2>2. CASE removes
    BY <1>4, <2>1, <2>2
  <2>3. CASE ~removes
    <3> DEFINE b == r.op /= "unread"
    <3>1. b \in BOOLEAN
      OBVIOUS
    <3>2. list' = {IF x[1] \in r.of THEN <<x[1], b>> ELSE x : x \in list}
      BY <1>4, <2>3
    <3> HIDE DEF b
    <3> QED
      BY <2>1, <3>1, <3>2
  <2> QED
    BY <2>2, <2>3
<1>7. total' \in Int
  <2>1. IsFiniteSet(r.of)
    BY <1>1, FS_Subset DEF Requests
  <2>2. Cardinality(r.of) \in Nat
    BY <2>1, FS_CardinalityType
  <2> QED
    BY <1>5, <2>2 DEF PageInv, PageType
<1>8. PageType'
  BY <1>1, <1>2, <1>3, <1>6, <1>7 DEF PageInv, PageType
<1>9. CASE r.stale
  BY <1>1, <1>8, <1>9, DarkStep DEF PageInv, PageType, Told
<1>10. CASE ~r.stale /\ ~Told
  BY <1>1, <1>8, <1>10, DarkStep DEF PageInv, Numbered, Told
<1>11. CASE ~r.stale /\ Told
  <2>1. UNCHANGED <<box, news, loads, sent, folder, from, missed>>
    BY <1>1, <1>11
  <2>2. Numbered'
    BY <2>1 DEF PageInv, Numbered
  <2>3. \A f, ms, n : Shows(f, ms, n) => Shows(f, ms, n)'
    BY <2>1 DEF Shows, In, InBox
  <2>4. \A u \in Tasks : task'[u] = IF u = t THEN q ELSE task[u]
    BY <1>2 DEF PageInv, PageType
  <2>6. CASE from = sent
    <3>1. /\ Shows(folder, list, total) /\ r.op = "open"
          /\ \A m \in r.of : InBox(m) => box[m].read
      BY <1>1, <1>11, <2>6 DEF PageInv, ListFresh
    <3>2. total' = total
      BY <1>5, <3>1 DEF Places
    <3>3. ASSUME NEW x \in list, x[1] \in r.of
          PROVE  <<x[1], r.op /= "unread">> = x
      <4>1. PICK m \in In(folder) : x = <<m, box[m].read>>
        BY <3>1 DEF Shows
      <4>2. m \in Mails /\ InBox(m) /\ m \in r.of
        BY <3>3, <4>1 DEF In
      <4>3. box[m].read = TRUE
        BY <3>1, <4>2 DEF PageInv, PageType, Boxes
      <4> QED
        BY <3>1, <4>1, <4>3
    <3>4. list' = {IF x[1] \in r.of THEN <<x[1], r.op /= "unread">> ELSE x : x \in list}
      BY <1>4, <3>1 DEF Places
    <3>5. list' = list
      BY <3>3, <3>4
    <3>6. Shows(folder, list, total)'
      BY <2>1, <2>3, <3>1, <3>2, <3>5 DEF Shows, In, InBox
    <3>7. \A u \in Tasks : task'[u].at = "done" => task'[u] = task[u]
      BY <1>3, <2>4
    <3>8. ListFresh'
      BY <1>11, <2>1, <2>3, <2>6, <3>6, <3>7 DEF PageInv, ListFresh, InBox
    <3> QED
      BY <1>8, <2>2, <3>8 DEF PageInv
  <2>7. CASE from /= sent
    <3>1. ListFresh'
      BY <1>11, <2>1, <2>3, <2>7 DEF PageInv, ListFresh
    <3> QED
      BY <1>8, <2>2, <3>1 DEF PageInv
  <2> QED
    BY <2>6, <2>7
<1> QED
  BY <1>9, <1>10, <1>11

\* When nothing is under way the page shows its folder as the server has it
\* (MailPage.tsx, loadPage, confirmDelete and the events of useMailEvents), but for
\* the ways the property names: ListTrue, for any finite set of mails and any
\* number of requests, changes, losses and folders visited.
THEOREM ListIsTrue ==
  ASSUME IsFiniteSet(Mails)
  PROVE  InitMailPage /\ [][NextMailPage]_pageVars => []ListTrue
<1>1. ASSUME PageInv, [NextMailPage]_pageVars
      PROVE  PageInv'
  <2>1. CASE UNCHANGED pageVars
    BY <1>1, <2>1, QuietStep DEF pageVars, PageInv, PageType
  <2>2. CASE NextMailPage
    BY <1>1, <2>2, PageInvElsewhere, PageInvAnswer, PageInvReceive, PageInvLoadFails,
       PageInvCommit, PageInvReply, PageInvTaskFails, PageInvAct, PageInvDeliver,
       PageInvStream, PageInvSwitch DEF NextMailPage
  <2> QED
    BY <1>1, <2>1, <2>2
<1> QED
  BY <1>1, PageInvInit, PageInvEntails, PTL

-----------------------------------------------------------------------------
(* Tabs: the session of a browser                                          *)

CallSet == [kind : {"none", "page", "logout", "login", "me"},
            at : {"none", "sent", "ok", "refused", "waiting", "failed"},
            token : Nat, pair : Nat, retried : BOOLEAN]
RenewalSet == [at : {"none", "sent", "ok", "refused"}, token : Nat, pair : Nat]

CallsType == call \in [Browser -> [Slots -> CallSet]]
SessionType ==
  /\ key \in Nat /\ issued \in Seq(Nat) /\ expired \in Nat /\ expired <= Len(issued)
  /\ store \in [access : Nat, refresh : Nat]
  /\ page \in [Browser -> {"user", "loading", "login"}]
  /\ CallsType /\ renewal \in [Browser -> RenewalSet]
  /\ ours \in BOOLEAN /\ excuse \in BOOLEAN /\ ends \in Nat
  /\ \A t \in Browser, s \in Slots : call[t][s].pair <= Len(issued)

\* An initial request or a login is the only request of its tab.
Alone(t) ==
  \A s \in Slots : call[t][s].kind \in {"me", "login"} =>
    /\ page[t] /= "user" /\ \A r \in Slots \ {s} : call[t][r] = NoCall
    /\ renewal[t].at /= "none" => call[t][s].at = "waiting"

\* A pair of the present key
Good(n) == n \in 1..Len(issued) /\ issued[n] = key
Granted(t) == renewal[t].at = "ok"

\* The pair of the present key is the browser's, or on its way to a tab.
TokenKept == Good(store.refresh) \/ \E t \in Browser : Granted(t)

\* A pair on its way is of the present key and can be used; a renewal is asked
\* with the present pair, or another tab has been granted its own, which is also
\* the only way to be refused.
RenewalsTrue ==
  \A t \in Browser :
    /\ Granted(t) => Good(renewal[t].pair) /\ Young(renewal[t].pair)
    /\ renewal[t].at = "sent" => Good(renewal[t].token) \/ \E u \in Browser : Granted(u)
    /\ renewal[t].at = "refused" => \E u \in Browser : Granted(u)

\* An initial request that is repeated after a renewal is not refused again, which
\* would take the tokens away (AuthContext.tsx).
CallTrue(c) ==
  /\ c.kind /= "logout" /\ c.at /= "failed"
  /\ c.kind = "me" /\ c.retried => /\ c.at = "sent" => Good(c.token) /\ Young(c.token)
                                   /\ c.at /= "refused"
CallsTrue == \A t \in Browser, s \in Slots : CallTrue(call[t][s])

SessionInv ==
  /\ SessionType /\ \A t \in Browser : Alone(t)
  /\ ours /\ ~excuse => TokenKept /\ RenewalsTrue /\ CallsTrue

LEMMA SessionInvEntails == SessionInv => SessionKept
BY DEF SessionInv, SessionType, SessionKept, TokenKept, Granted, Quiet, NoRenewal, Good, Alive

LEMMA SessionInvInit == InitTabs => SessionInv
<1> SUFFICES ASSUME InitTabs PROVE SessionInv
  OBVIOUS
<1>1. NoCall \in CallSet /\ NoRenewal \in RenewalSet /\ NoCall.pair = 0 /\ NoCall.kind = "none"
      /\ NoCall.at = "none" /\ NoRenewal.at = "none"
  BY DEF NoCall, NoRenewal, CallSet, RenewalSet
<1>2. /\ call \in [Browser -> [Slots -> CallSet]] /\ renewal \in [Browser -> RenewalSet]
      /\ \A t \in Browser : renewal[t].at = "none"
      /\ \A t \in Browser, s \in Slots : call[t][s] = NoCall
  BY <1>1 DEF InitTabs
<1>9. /\ key = 1 /\ issued = <<1>> /\ expired = 0
      /\ store = [access |-> 1, refresh |-> 1] 
      /\ page \in [Browser -> {"user", "loading", "login"}]
      /\ ours \in BOOLEAN /\ excuse \in BOOLEAN /\ ends \in Nat
  BY DEF InitTabs, Pair
<1>3. Len(issued) = 1 /\ issued[1] = 1 /\ issued \in Seq(Nat) /\ store.refresh = 1
  BY <1>9
<1>4. SessionType
  BY <1>1, <1>2, <1>3, <1>9 DEF SessionType, CallsType
<1>5. \A t \in Browser : Alone(t)
  BY <1>1, <1>2 DEF Alone
<1>6. TokenKept
  BY <1>3, <1>9 DEF TokenKept, Good
<1>7. RenewalsTrue
  BY <1>2 DEF RenewalsTrue, Granted
<1>8. CallsTrue
  BY <1>1, <1>2 DEF CallsTrue, CallTrue
<1> QED
  BY <1>4, <1>5, <1>6, <1>7, <1>8 DEF SessionInv

\* The constants of the model
LEMMA NoCallFacts ==
  /\ NoCall \in CallSet /\ NoCall.pair = 0 /\ NoCall.kind = "none" /\ NoCall.at = "none"
  /\ CallTrue(NoCall)
  /\ NoRenewal \in RenewalSet /\ NoRenewal.at = "none"
  /\ NoTokens \in [access : Nat, refresh : Nat] /\ NoTokens.refresh = 0
  /\ NoTokens.access = 0
BY DEF NoCall, NoRenewal, CallSet, RenewalSet, NoTokens, CallTrue

\* One request of one tab is changed.
LEMMA OneCall ==
  ASSUME CallsType, NEW t \in Browser, NEW s \in Slots, NEW c \in CallSet,
         call' = [call EXCEPT ![t] = [call[t] EXCEPT ![s] = c]]
  PROVE  /\ CallsType' /\ call'[t][s] = c
         /\ \A u \in Browser, r \in Slots : u /= t \/ r /= s => call'[u][r] = call[u][r]
BY DEF CallsType

\* Steps after which the history holds no promise.
LEMMA SessionInvLost ==
  ASSUME SessionInv, SessionType', \A t \in Browser : Alone(t)', ~ours' \/ excuse'
  PROVE  SessionInv'
BY DEF SessionInv

LEMMA SessionInvExpire == SessionInv /\ Expire => SessionInv'
<1> SUFFICES ASSUME SessionInv, Expire PROVE SessionInv'
  OBVIOUS
<1>1. /\ expired' = expired + 1 /\ expired < Len(issued)
      /\ UNCHANGED <<key, issued, store, page, call, renewal, ours, excuse, ends>>
      /\ \A t \in Browser : renewal[t].pair /= expired + 1
      /\ \A t \in Browser, s \in Slots : call[t][s].retried => call[t][s].token /= expired + 1
  BY DEF Expire, Newest
<1>2. SessionType'
  BY <1>1 DEF SessionInv, SessionType, CallsType
<1>3. \A t \in Browser : Alone(t)'
  BY <1>1 DEF SessionInv, Alone
<1>4. TokenKept => TokenKept'
  BY <1>1 DEF TokenKept, Good, Granted
<1>5. RenewalsTrue => RenewalsTrue'
  BY <1>1 DEF RenewalsTrue, Good, Granted, Young, SessionInv, SessionType, RenewalSet
<1>6. ASSUME CallsTrue, NEW t \in Browser, NEW s \in Slots
      PROVE  CallTrue(call[t][s])'
  <2>1. call[t][s] \in CallSet
    BY DEF SessionInv, SessionType, CallsType
  <2> QED
    BY <1>1, <1>6, <2>1, SMTT(30)
    DEF CallsTrue, CallTrue, Good, Young, SessionInv, SessionType, CallSet
<1>7. CallsTrue => CallsTrue'
  BY <1>6 DEF CallsTrue, CallTrue
<1>8. ASSUME ours', ~excuse'
      PROVE  TokenKept' /\ RenewalsTrue' /\ CallsTrue'
  <2>1. ours /\ ~excuse
    BY <1>1, <1>8
  <2>2. TokenKept /\ RenewalsTrue /\ CallsTrue
    BY <2>1 DEF SessionInv
  <2> QED
    BY <1>4, <1>5, <1>7, <2>2
<1> QED
  BY <1>2, <1>3, <1>8 DEF SessionInv

LEMMA SessionInvEnd == SessionInv /\ EndElsewhere => SessionInv'
<1> SUFFICES ASSUME SessionInv, EndElsewhere PROVE SessionInv'
  OBVIOUS
<1>1. /\ key' = Len(issued) + ends + 1 /\ ends' = ends + 1 /\ ours' = FALSE
      /\ UNCHANGED <<issued, expired, store, page, call, renewal, excuse>>
  BY DEF EndElsewhere
<1>4. Len(issued) \in Nat /\ ends \in Nat
  BY DEF SessionInv, SessionType
<1>5. key' \in Nat /\ ends' \in Nat
  BY <1>1, <1>4
<1>6. ours' \in BOOLEAN
  BY <1>1
<1>2. SessionType'
  BY <1>1, <1>5, <1>6 DEF SessionInv, SessionType, CallsType
<1>3. \A t \in Browser : Alone(t)'
  BY <1>1 DEF SessionInv, Alone
<1> QED
  BY <1>1, <1>2, <1>3, SessionInvLost

LEMMA SessionInvFail ==
  ASSUME SessionInv, NEW t \in Browser, NEW s \in Slots, Fail(t, s)
  PROVE  SessionInv'
<1> DEFINE c == [call[t][s] EXCEPT !.at = "failed"]
<1>1. /\ call[t][s].at \in {"sent", "ok"} /\ excuse' = TRUE
      /\ UNCHANGED <<key, issued, expired, store, page, renewal, ours, ends>>
  BY DEF Fail, Outage
<1>2. call[t][s] \in CallSet /\ CallsType
  BY DEF SessionInv, SessionType, CallsType
<1>3. c \in CallSet /\ c.pair = call[t][s].pair /\ c.kind = call[t][s].kind
  BY <1>2 DEF CallSet
<1>4. call' = [call EXCEPT ![t] = [call[t] EXCEPT ![s] = c]]
  BY DEF Fail
<1> HIDE DEF c
<1>5. /\ CallsType' /\ call'[t][s] = c
      /\ \A u \in Browser, r \in Slots : u /= t \/ r /= s => call'[u][r] = call[u][r]
  BY <1>2, <1>3, <1>4, OneCall
<1>6. SessionType'
  BY <1>1, <1>3, <1>5 DEF SessionInv, SessionType
<1>7. \A u \in Browser : Alone(u)'
  BY <1>1, <1>3, <1>5, NoCallFacts DEF SessionInv, Alone
<1> QED
  BY <1>1, <1>6, <1>7, SessionInvLost

LEMMA SessionInvFailRenewal ==
  ASSUME SessionInv, NEW t \in Browser, FailRenewal(t)
  PROVE  SessionInv'
<1>1. /\ renewal[t].at \in {"sent", "ok"} /\ excuse' = TRUE
      /\ renewal' = [renewal EXCEPT ![t].at = "refused"]
      /\ UNCHANGED <<key, issued, expired, store, page, call, ours, ends>>
  BY DEF FailRenewal, Outage
<1>2. SessionType'
  BY <1>1 DEF SessionInv, SessionType, CallsType, RenewalSet
<1>3. \A u \in Browser : Alone(u)'
  BY <1>1 DEF SessionInv, SessionType, RenewalSet, Alone
<1> QED
  BY <1>1, <1>2, <1>3, SessionInvLost

\* A page that is loaded
LEMMA LoadPageTabs ==
  ASSUME SessionInv, NEW t \in Browser, NEW tokens \in [access : Nat, refresh : Nat],
         LoadPage(t, tokens), UNCHANGED issued
  PROVE  /\ CallsType' /\ renewal' \in [Browser -> RenewalSet]
         /\ page' \in [Browser -> {"user", "loading", "login"}]
         /\ renewal'[t].at = "none" /\ \A u \in Browser \ {t} : renewal'[u] = renewal[u]
         /\ \A u \in Browser \ {t} : call'[u] = call[u]
         /\ \A u \in Browser, s \in Slots : call'[u][s].pair <= Len(issued')
         /\ \A s \in Slots : /\ call'[t][s].kind \in {"none", "me"} /\ call'[t][s].at \in {"none", "sent"}
                             /\ call'[t][s].retried = FALSE
         /\ tokens.access = 0 => \A s \in Slots : call'[t][s] = NoCall
         /\ \A u \in Browser : Alone(u)'
<1> DEFINE c == Call("me", tokens.access)
           me == tokens.access /= 0
<1>1. /\ c \in CallSet /\ c.pair = 0 /\ c.kind = "me" /\ c.at = "sent" /\ c.retried = FALSE
  BY DEF Call, NoCall, CallSet
<1>2. NoCall.retried = FALSE
  BY DEF NoCall
<1>3. /\ page' = [page EXCEPT ![t] = IF me THEN "loading" ELSE "login"]
      /\ call' = [call EXCEPT ![t] = [s \in Slots |-> IF me /\ s = First THEN c ELSE NoCall]]
      /\ renewal' = [renewal EXCEPT ![t] = NoRenewal]
  BY DEF LoadPage
<1>4. ~me <=> tokens.access = 0
  OBVIOUS
<1> HIDE DEF c, me
<1>5. \A s \in Slots : call'[t][s] = IF me /\ s = First THEN c ELSE NoCall
  BY <1>3 DEF SessionInv, SessionType, CallsType
<1>6. \A u \in Browser \ {t} : call'[u] = call[u] /\ renewal'[u] = renewal[u] /\ page'[u] = page[u]
  BY <1>3 DEF SessionInv, SessionType, CallsType
<1>7. CallsType'
  BY <1>1, <1>3, NoCallFacts DEF SessionInv, SessionType, CallsType
<1>8. /\ renewal' \in [Browser -> RenewalSet] /\ renewal'[t].at = "none"
      /\ page' \in [Browser -> {"user", "loading", "login"}] /\ page'[t] \in {"loading", "login"}
  BY <1>3, NoCallFacts DEF SessionInv, SessionType
<1>9. Len(issued) \in Nat /\ \A u \in Browser, s \in Slots : call'[u][s].pair <= Len(issued')
  BY <1>1, <1>5, <1>6, NoCallFacts DEF SessionInv, SessionType
<1>10. \A s \in Slots : /\ call'[t][s].kind \in {"none", "me"} /\ call'[t][s].at \in {"none", "sent"}
                        /\ call'[t][s].retried = FALSE
  BY <1>1, <1>2, <1>5, NoCallFacts
<1>11. tokens.access = 0 => \A s \in Slots : call'[t][s] = NoCall
  BY <1>4, <1>5
<1>12. Alone(t)'
  BY <1>1, <1>5, <1>8, NoCallFacts DEF Alone
<1>13. \A u \in Browser : Alone(u)'
  BY <1>6, <1>12 DEF SessionInv, Alone
<1> QED
  BY <1>6, <1>7, <1>8, <1>9, <1>10, <1>11, <1>13

\* A renewal that has been granted stays with its tab.
LEMMA SessionInvReload ==
  ASSUME SessionInv, NEW t \in Browser, Reload(t)
  PROVE  SessionInv'
<1>1. /\ LoadPage(t, store) /\ excuse' = (excuse \/ renewal[t].at /= "none")
      /\ UNCHANGED <<key, issued, expired, store, ours, ends>>
  BY DEF Reload
<1>2. store \in [access : Nat, refresh : Nat]
  BY DEF SessionInv, SessionType
<1>3. SessionType' /\ \A u \in Browser : Alone(u)'
  BY <1>1, <1>2, LoadPageTabs DEF SessionInv, SessionType
<1>4. /\ renewal'[t].at = "none" /\ \A u \in Browser \ {t} : renewal'[u] = renewal[u]
      /\ \A u \in Browser \ {t} : call'[u] = call[u]
      /\ \A s \in Slots : call'[t][s].kind \in {"none", "me"} /\ call'[t][s].at \in {"none", "sent"}
      /\ \A s \in Slots : call'[t][s].retried = FALSE
  BY <1>1, <1>2, LoadPageTabs
<1>5. ASSUME ours', ~excuse'
      PROVE  TokenKept' /\ RenewalsTrue' /\ CallsTrue'
  <2>1. ours /\ ~excuse /\ renewal[t].at = "none"
    BY <1>1, <1>5
  <2>2. TokenKept /\ RenewalsTrue /\ CallsTrue
    BY <2>1 DEF SessionInv
  <2>3. \A u \in Browser : renewal'[u].at /= "none" => renewal'[u] = renewal[u]
    BY <1>4
  <2>4. \A u \in Browser : renewal[u].at = "ok" => renewal'[u].at = "ok"
    BY <1>4, <2>1
  <2>5. TokenKept'
    BY <1>1, <2>2, <2>4 DEF TokenKept, Good, Granted
  <2>6. RenewalsTrue'
    BY <1>1, <2>2, <2>3, <2>4 DEF RenewalsTrue, Good, Granted, Young
  <2>7. CallsTrue'
    BY <1>1, <1>4, <2>2 DEF CallsTrue, CallTrue, Good, Young
  <2> QED
    BY <2>5, <2>6, <2>7
<1> QED
  BY <1>3, <1>5 DEF SessionInv

\* A request starts.
LEMMA SessionInvSend ==
  ASSUME SessionInv, NEW t \in Browser, NEW s \in Slots,
         NEW kind \in {"page", "logout", "login"}, Send(t, s, kind)
  PROVE  SessionInv'
<1> DEFINE c == Call(kind, store.access)
<1>1. /\ call[t][s] = NoCall
      /\ \/ kind \in {"page", "logout"} /\ page[t] = "user"
         \/ kind = "login" /\ page[t] = "login" /\ Quiet(t)
      /\ ours' = (ours /\ kind /= "logout")
      /\ UNCHANGED <<key, issued, expired, store, page, renewal, excuse, ends>>
  BY DEF Send
<1>2. CallsType /\ store.access \in Nat /\ Len(issued) \in Nat
  BY DEF SessionInv, SessionType
<1>3. /\ c \in CallSet /\ c.pair = 0 /\ c.kind = kind /\ c.at = "sent" /\ c.retried = FALSE
  BY <1>2 DEF Call, NoCall, CallSet
<1>4. call' = [call EXCEPT ![t] = [call[t] EXCEPT ![s] = c]]
  BY DEF Send
<1> HIDE DEF c
<1>5. /\ CallsType' /\ call'[t][s] = c
      /\ \A u \in Browser, r \in Slots : u /= t \/ r /= s => call'[u][r] = call[u][r]
  BY <1>2, <1>3, <1>4, OneCall
<1>6. SessionType'
  BY <1>1, <1>2, <1>3, <1>5 DEF SessionInv, SessionType
<1>7. \A u \in Browser \ {t} : Alone(u)'
  BY <1>1, <1>5 DEF SessionInv, Alone
<1>8. Alone(t)'
  <2>1. CASE kind \in {"page", "logout"} /\ page[t] = "user"
    BY <1>1, <1>3, <1>5, <2>1 DEF SessionInv, Alone
  <2>2. CASE kind = "login" /\ page[t] = "login" /\ Quiet(t)
    <3>1. renewal[t].at = "none" /\ \A r \in Slots : call[t][r] = NoCall
      BY <2>2, NoCallFacts DEF Quiet
    <3> QED
      BY <1>1, <1>3, <1>5, <2>2, <3>1, NoCallFacts DEF Alone
  <2> QED
    BY <1>1, <2>1, <2>2
<1>9. ASSUME ours', ~excuse'
      PROVE  TokenKept' /\ RenewalsTrue' /\ CallsTrue'
  <2>1. ours /\ ~excuse /\ kind /= "logout"
    BY <1>1, <1>9
  <2>2. TokenKept /\ RenewalsTrue /\ CallsTrue
    BY <2>1 DEF SessionInv
  <2>3. TokenKept' /\ RenewalsTrue'
    BY <1>1, <2>2 DEF TokenKept, RenewalsTrue, Good, Granted, Young
  <2>4. CallsTrue'
    BY <1>1, <1>3, <1>5, <2>1, <2>2 DEF CallsTrue, CallTrue, Good, Young
  <2> QED
    BY <2>3, <2>4
<1> QED
  BY <1>6, <1>7, <1>8, <1>9 DEF SessionInv

\* A refused request waits for the renewal of its tab.
LEMMA SessionInvRenew ==
  ASSUME SessionInv, NEW t \in Browser, NEW s \in Slots, Renew(t, s)
  PROVE  SessionInv'
<1> DEFINE c == [call[t][s] EXCEPT !.at = "waiting", !.retried = TRUE]
           n == JoinedRenewal(t)
<1>1. /\ call[t][s].at = "refused"
      /\ UNCHANGED <<key, issued, expired, store, page, ours, excuse, ends>>
  BY DEF Renew, Refused
<1>2. call[t][s] \in CallSet /\ CallsType /\ renewal[t] \in RenewalSet /\ store.refresh \in Nat
  BY DEF SessionInv, SessionType, CallsType
<1>3. /\ c \in CallSet /\ c.pair = call[t][s].pair /\ c.kind = call[t][s].kind
      /\ c.at = "waiting"
  BY <1>2 DEF CallSet
<1>4. /\ call' = [call EXCEPT ![t] = [call[t] EXCEPT ![s] = c]]
      /\ renewal' = [renewal EXCEPT ![t] = n]
  BY DEF Renew
<1>5. /\ n \in RenewalSet
      /\ \/ renewal[t].at /= "none" /\ n = renewal[t]
         \/ renewal[t].at = "none" /\ n.at = "sent" /\ n.token = store.refresh
  BY <1>2 DEF JoinedRenewal, NoRenewal, RenewalSet
<1> HIDE DEF c, n
<1>6. /\ CallsType' /\ call'[t][s] = c
      /\ \A u \in Browser, r \in Slots : u /= t \/ r /= s => call'[u][r] = call[u][r]
  BY <1>2, <1>3, <1>4, OneCall
<1>7. /\ renewal' \in [Browser -> RenewalSet] /\ renewal'[t] = n
      /\ \A u \in Browser \ {t} : renewal'[u] = renewal[u]
  BY <1>4, <1>5 DEF SessionInv, SessionType
<1>8. SessionType'
  BY <1>1, <1>2, <1>3, <1>6, <1>7 DEF SessionInv, SessionType
<1>9. \A u \in Browser \ {t} : Alone(u)'
  BY <1>1, <1>6, <1>7 DEF SessionInv, Alone
<1>10. Alone(t)'
  BY <1>1, <1>3, <1>6, NoCallFacts DEF SessionInv, Alone
<1>11. ASSUME ours', ~excuse'
       PROVE  TokenKept' /\ RenewalsTrue' /\ CallsTrue'
  <2>1. TokenKept /\ RenewalsTrue /\ CallsTrue
    BY <1>1, <1>11 DEF SessionInv
  <2>2. \A u \in Browser : renewal'[u].at = "ok" <=> renewal[u].at = "ok"
    BY <1>5, <1>7
  <2>3. TokenKept'
    BY <1>1, <2>1, <2>2 DEF TokenKept, Good, Granted
  <2>4. RenewalsTrue'
    BY <1>1, <1>5, <1>7, <2>1, <2>2 DEF RenewalsTrue, TokenKept, Good, Granted, Young
  <2>5. CallsTrue'
    BY <1>1, <1>3, <1>6, <2>1 DEF CallsTrue, CallTrue, Good, Young
  <2> QED
    BY <2>3, <2>4, <2>5
<1> QED
  BY <1>8, <1>9, <1>10, <1>11 DEF SessionInv

\* The other tabs are quiet, or the history says so.
LEMMA Crossed ==
  ASSUME SessionInv, NEW t \in Browser, Crossing(t), ~excuse'
  PROVE  /\ ~excuse
         /\ \A u \in Browser \ {t} : /\ renewal[u].at = "none"
                                    /\ \A s \in Slots : call[u][s] = NoCall
BY NoCallFacts DEF Crossing, Quiet

\* A renewal is refused only if another one was granted and its pair is not stored yet.
LEMMA SessionInvServeRenewal ==
  ASSUME SessionInv, NEW t \in Browser, ServeRenewal(t)
  PROVE  SessionInv'
<1>1. /\ renewal[t].at = "sent" /\ renewal[t] \in RenewalSet /\ Len(issued) \in Nat
      /\ UNCHANGED <<expired, store, page, call, ours, ends>>
  BY DEF ServeRenewal, SessionInv, SessionType
<1>2. CASE Alive(renewal[t].token)
  <2>0. PICK p \in Nat : p = Len(issued) + 1
    BY <1>1
  <2>10. PICK n : n = [renewal[t] EXCEPT !.at = "ok", !.pair = p]
    OBVIOUS
  <2>1. /\ key' = Len(issued) + ends + 1 /\ issued' = Append(issued, key') /\ Crossing(t)
        /\ renewal' = [renewal EXCEPT ![t] = n]
    BY <1>2, <2>0, <2>10 DEF ServeRenewal, NewKey, Newest
  <2>2. n \in RenewalSet /\ n.at = "ok" /\ n.pair = p
    BY <1>1, <2>10 DEF RenewalSet
  <2>3. /\ key' \in Nat /\ issued' \in Seq(Nat) /\ Len(issued') = Len(issued) + 1
        /\ issued'[Len(issued) + 1] = key'
    BY <1>1, <2>1 DEF SessionInv, SessionType
  <2>4. /\ renewal' \in [Browser -> RenewalSet] /\ renewal'[t] = n
        /\ \A u \in Browser \ {t} : renewal'[u] = renewal[u]
    BY <2>1, <2>2 DEF SessionInv, SessionType
  <2>5. excuse' \in BOOLEAN
    BY <2>1 DEF Crossing, SessionInv, SessionType
  <2>6. \A u \in Browser, s \in Slots : call'[u][s].pair <= Len(issued')
    BY <1>1, <2>3 DEF SessionInv, SessionType, CallsType, CallSet
  <2>7. SessionType'
    BY <1>1, <2>3, <2>4, <2>5, <2>6 DEF SessionInv, SessionType, CallsType
  <2>8. \A u \in Browser : Alone(u)'
    BY <1>1, <2>4 DEF SessionInv, Alone
  <2>9. ASSUME ours', ~excuse'
        PROVE  TokenKept' /\ RenewalsTrue' /\ CallsTrue'
    <3>1. /\ ours /\ ~excuse
          /\ \A u \in Browser \ {t} : /\ renewal[u].at = "none"
                                     /\ \A s \in Slots : call[u][s] = NoCall
      BY <1>1, <2>1, <2>9, Crossed
    <3>2. TokenKept'
      BY <2>2, <2>4 DEF TokenKept, Granted
    <3>3. (Good(n.pair) /\ Young(n.pair))'
      BY <1>1, <2>0, <2>2, <2>3 DEF Good, Young, SessionInv, SessionType
    <3>4. RenewalsTrue'
      BY <2>2, <2>4, <3>1, <3>3 DEF RenewalsTrue, Granted, Good, Young
    <3>5. CallsTrue
      BY <3>1 DEF SessionInv
    <3>6. \A s \in Slots : call[t][s].kind = "me" => call[t][s].at = "waiting"
      BY <1>1 DEF SessionInv, Alone
    <3>7. CallsTrue'
      BY <1>1, <3>1, <3>5, <3>6, NoCallFacts DEF CallsTrue, CallTrue
    <3> QED
      BY <3>2, <3>4, <3>7
  <2> QED
    BY <2>7, <2>8, <2>9 DEF SessionInv
<1>3. CASE ~Alive(renewal[t].token)
  <2> DEFINE n == [renewal[t] EXCEPT !.at = "refused"]
  <2>1. UNCHANGED <<key, issued, excuse>> /\ renewal' = [renewal EXCEPT ![t] = n]
    BY <1>3 DEF ServeRenewal
  <2>2. n \in RenewalSet /\ n.at = "refused"
    BY <1>1 DEF RenewalSet
  <2> HIDE DEF n
  <2>3. /\ renewal' \in [Browser -> RenewalSet] /\ renewal'[t] = n
        /\ \A u \in Browser \ {t} : renewal'[u] = renewal[u]
    BY <2>1, <2>2 DEF SessionInv, SessionType
  <2>4. SessionType' /\ \A u \in Browser : Alone(u)'
    BY <1>1, <2>1, <2>3 DEF SessionInv, SessionType, CallsType, Alone
  <2>5. ASSUME ours', ~excuse'
        PROVE  TokenKept' /\ RenewalsTrue' /\ CallsTrue'
    <3>1. TokenKept /\ RenewalsTrue /\ CallsTrue
      BY <1>1, <2>1, <2>5 DEF SessionInv
    <3>2. \A u \in Browser : renewal'[u].at = "ok" <=> renewal[u].at = "ok"
      BY <1>1, <2>2, <2>3
    <3>3. ~Good(renewal[t].token)
      BY <1>1, <1>3 DEF Good, Alive
    <3>4. TokenKept' /\ CallsTrue'
      BY <1>1, <2>1, <3>1, <3>2 DEF TokenKept, CallsTrue, CallTrue, Good, Granted, Young
    <3>5. RenewalsTrue'
      BY <1>1, <2>1, <2>2, <2>3, <3>1, <3>2, <3>3 DEF RenewalsTrue, Good, Granted, Young
    <3> QED
      BY <3>4, <3>5
  <2> QED
    BY <2>4, <2>5 DEF SessionInv
<1> QED
  BY <1>2, <1>3

\* The pair that was granted is stored, and the waiting requests go on with it.
LEMMA SessionInvRenewed ==
  ASSUME SessionInv, NEW t \in Browser, Renewed(t)
  PROVE  SessionInv'
<1> DEFINE n == renewal[t].pair
           Again(c) == IF c.at = "waiting" THEN [c EXCEPT !.at = "sent", !.token = n] ELSE c
<1>1. /\ renewal[t].at = "ok" /\ store' = Pair(n) /\ Crossing(t) /\ n \in Nat
      /\ UNCHANGED <<key, issued, expired, page, ours, ends>>
  BY DEF Renewed, Kept, SessionInv, SessionType, RenewalSet
<1>2. /\ call' = [call EXCEPT ![t] = [s \in Slots |-> Again(call[t][s])]]
      /\ renewal' = [renewal EXCEPT ![t] = NoRenewal]
  BY DEF Renewed
<1>3. ASSUME NEW c \in CallSet
      PROVE  /\ Again(c) \in CallSet /\ Again(c).kind = c.kind /\ Again(c).pair = c.pair
             /\ Again(c).retried = c.retried
             /\ c.at = "waiting" => Again(c).at = "sent" /\ Again(c).token = n
             /\ c.at /= "waiting" => Again(c) = c
  BY <1>1, <1>3 DEF CallSet
<1> HIDE DEF Again, n
<1>4. /\ \A s \in Slots : call[t][s] \in CallSet /\ call'[t][s] = Again(call[t][s])
      /\ \A u \in Browser \ {t} : call'[u] = call[u] /\ renewal'[u] = renewal[u]
      /\ renewal'[t] = NoRenewal /\ renewal' \in [Browser -> RenewalSet]
  BY <1>2, NoCallFacts DEF SessionInv, SessionType, CallsType
<1>5. CallsType'
  BY <1>2, <1>3, <1>4 DEF SessionInv, SessionType, CallsType
<1>6. excuse' \in BOOLEAN /\ store' \in [access : Nat, refresh : Nat] /\ store'.refresh = n
  BY <1>1 DEF Crossing, Pair, SessionInv, SessionType
<1>7. \A u \in Browser, s \in Slots : call'[u][s].pair <= Len(issued')
  BY <1>1, <1>3, <1>4 DEF SessionInv, SessionType
<1>8. SessionType'
  BY <1>1, <1>4, <1>5, <1>6, <1>7 DEF SessionInv, SessionType
<1>9. \A u \in Browser \ {t} : Alone(u)'
  BY <1>1, <1>4 DEF SessionInv, Alone
<1>10. Alone(t)'
  <2>1. Again(NoCall) = NoCall
    BY <1>3, NoCallFacts
  <2> QED
    BY <1>1, <1>3, <1>4, <2>1, NoCallFacts DEF SessionInv, Alone
<1>11. ASSUME ours', ~excuse'
       PROVE  TokenKept' /\ RenewalsTrue' /\ CallsTrue'
  <2>1. /\ ours /\ ~excuse
        /\ \A u \in Browser \ {t} : /\ renewal[u].at = "none"
                                   /\ \A s \in Slots : call[u][s] = NoCall
    BY <1>1, <1>11, Crossed
  <2>2. RenewalsTrue /\ CallsTrue
    BY <2>1 DEF SessionInv
  <2>3. Good(n) /\ Young(n)
    BY <1>1, <2>2 DEF RenewalsTrue, Granted, n
  <2>4. TokenKept'
    BY <1>1, <1>6, <2>3 DEF TokenKept, Good
  <2>5. RenewalsTrue'
    BY <1>4, <2>1, NoCallFacts DEF RenewalsTrue, Granted
  <2>6. \A s \in Slots : call[t][s].kind = "me" => call[t][s].at = "waiting"
    BY <1>1 DEF SessionInv, Alone
  <2>7. CallsTrue'
    <3>1. ASSUME NEW u \in Browser \ {t}, NEW s \in Slots PROVE CallTrue(call[u][s])'
      BY <1>4, <2>1, NoCallFacts DEF CallTrue
    <3>2. ASSUME NEW s \in Slots PROVE CallTrue(call[t][s])'
      BY <1>1, <1>3, <1>4, <2>2, <2>3, <2>6 DEF CallsTrue, CallTrue, Good, Young
    <3> QED
      BY <3>1, <3>2 DEF CallsTrue, CallTrue
  <2> QED
    BY <2>4, <2>5, <2>7
<1> QED
  BY <1>8, <1>9, <1>10, <1>11 DEF SessionInv

\* A renewal that was refused takes the tokens away while the new ones are on
\* their way to another tab.
LEMMA SessionInvRenewalFails ==
  ASSUME SessionInv, NEW t \in Browser, RenewalFails(t)
  PROVE  SessionInv'
<1>1. /\ renewal[t].at = "refused" /\ store' = NoTokens /\ LoadPage(t, NoTokens)
      /\ UNCHANGED <<key, issued, expired, ours, excuse, ends>>
  BY DEF RenewalFails
<1>2. SessionType' /\ \A u \in Browser : Alone(u)'
  BY <1>1, NoCallFacts, LoadPageTabs DEF SessionInv, SessionType
<1>3. /\ renewal'[t].at = "none" /\ \A u \in Browser \ {t} : renewal'[u] = renewal[u]
      /\ \A u \in Browser \ {t} : call'[u] = call[u]
  BY <1>1, NoCallFacts, LoadPageTabs
<1>5. \A s \in Slots : call'[t][s] = NoCall
  <2>1. NoTokens \in [access : Nat, refresh : Nat] /\ NoTokens.access = 0
    BY NoCallFacts
  <2> QED
    BY <1>1, <2>1, LoadPageTabs
<1>4. ASSUME ours', ~excuse'
      PROVE  TokenKept' /\ RenewalsTrue' /\ CallsTrue'
  <2>1. RenewalsTrue /\ CallsTrue
    BY <1>1, <1>4 DEF SessionInv
  <2>2. PICK v \in Browser : renewal[v].at = "ok"
    BY <1>1, <2>1 DEF RenewalsTrue, Granted
  <2>3. v /= t /\ renewal'[v].at = "ok"
    BY <1>1, <1>3, <2>2
  <2>4. TokenKept'
    BY <2>3 DEF TokenKept, Granted
  <2>5. RenewalsTrue'
    BY <1>1, <1>3, <2>1, <2>3 DEF RenewalsTrue, Granted, Good, Young
  <2>6. CallsTrue'
    BY <1>1, <1>3, <1>5, <2>1, NoCallFacts DEF CallsTrue, CallTrue, Good, Young
  <2> QED
    BY <2>4, <2>5, <2>6
<1> QED
  BY <1>2, <1>4 DEF SessionInv

\* An answer to a request: of the two of an access token that was just renewed
\* it is no refusal.
Answers(t, s, a, n) == call' = [call EXCEPT ![t][s].at = a, ![t][s].pair = n]

LEMMA ServedCall ==
  ASSUME SessionInv, NEW t \in Browser, NEW s \in Slots, NEW a \in {"ok", "refused"}, NEW n \in Nat,
         Answers(t, s, a, n)
  PROVE  /\ CallsType' /\ call'[t][s].kind = call[t][s].kind /\ call'[t][s].at = a
         /\ call'[t][s].pair = n /\ call'[t][s].retried = call[t][s].retried
         /\ \A u \in Browser, r \in Slots : u /= t \/ r /= s => call'[u][r] = call[u][r]
<1>1. PICK c : c = [call[t][s] EXCEPT !.at = a, !.pair = n]
  OBVIOUS
<1>2. call[t][s] \in CallSet /\ CallsType
  BY DEF SessionInv, SessionType, CallsType
<1>3. c \in CallSet /\ c.kind = call[t][s].kind /\ c.at = a /\ c.pair = n /\ c.retried = call[t][s].retried
  BY <1>1, <1>2 DEF CallSet
<1>4. call' = [call EXCEPT ![t] = [call[t] EXCEPT ![s] = c]]
  BY <1>1, <1>2 DEF Answers, CallsType, CallSet
<1>5. /\ CallsType' /\ call'[t][s] = c
      /\ \A u \in Browser, r \in Slots : u /= t \/ r /= s => call'[u][r] = call[u][r]
  BY <1>2, <1>3, <1>4, OneCall
<1> QED
  BY <1>3, <1>5

LEMMA ServedAlone ==
  ASSUME SessionInv, NEW t \in Browser, NEW s \in Slots, UNCHANGED <<page, renewal>>,
         call[t][s].at = "sent", call'[t][s].kind = call[t][s].kind,
         \A u \in Browser, r \in Slots : u /= t \/ r /= s => call'[u][r] = call[u][r]
  PROVE  \A u \in Browser : Alone(u)'
<1>1. \A u \in Browser \ {t} : Alone(u)'
  BY DEF SessionInv, Alone
<1>2. Alone(t)'
  BY NoCallFacts DEF SessionInv, Alone
<1> QED
  BY <1>1, <1>2

LEMMA SessionInvServe ==
  ASSUME SessionInv, NEW t \in Browser, NEW s \in Slots, Serve(t, s)
  PROVE  SessionInv'
<1> DEFINE c == call[t][s]
           good == Alive(c.token) /\ Young(c.token)
<1>1. /\ c.at = "sent" /\ c \in CallSet /\ Len(issued) \in Nat /\ c.pair <= Len(issued)
      /\ UNCHANGED <<expired, store, page, renewal>>
  BY DEF Serve, SessionInv, SessionType, CallsType
<1>2. CASE /\ c.kind \in {"page", "me"} /\ UNCHANGED <<key, issued, ours, ends, excuse>>
           /\ Answers(t, s, IF good THEN "ok" ELSE "refused", c.pair)
  <2>1. PICK a \in {"ok", "refused"} : a = IF good THEN "ok" ELSE "refused"
    OBVIOUS
  <2>2. PICK n \in Nat : n = c.pair
    BY <1>1 DEF CallSet
  <2>3. Answers(t, s, a, n)
    BY <1>2, <2>1, <2>2
  <2>4. /\ CallsType' /\ call'[t][s].kind = c.kind /\ call'[t][s].at = a
        /\ call'[t][s].pair = n /\ call'[t][s].retried = c.retried
        /\ \A u \in Browser, r \in Slots : u /= t \/ r /= s => call'[u][r] = call[u][r]
    BY <1>1, <2>3, ServedCall
  <2>5. SessionType'
    BY <1>1, <1>2, <2>2, <2>4 DEF SessionInv, SessionType
  <2>6. \A u \in Browser : Alone(u)'
    BY <1>1, <2>4, ServedAlone
  <2>7. ASSUME ours', ~excuse'
        PROVE  TokenKept' /\ RenewalsTrue' /\ CallsTrue'
    <3>1. TokenKept /\ RenewalsTrue /\ CallsTrue
      BY <1>2, <2>7 DEF SessionInv
    <3>2. TokenKept' /\ RenewalsTrue'
      BY <1>1, <1>2, <3>1 DEF TokenKept, RenewalsTrue, Good, Granted, Young
    <3>3. CallTrue(c)
      BY <3>1 DEF CallsTrue
    <3>4. c.kind = "me" /\ c.retried => a = "ok"
      BY <1>1, <2>1, <3>3 DEF CallTrue, Good, Alive
    <3>5. CallsTrue'
      BY <1>1, <1>2, <2>4, <3>1, <3>4 DEF CallsTrue, CallTrue, Good, Young
    <3> QED
      BY <3>2, <3>5
  <2> QED
    BY <2>5, <2>6, <2>7 DEF SessionInv
<1>3. CASE /\ c.kind = "logout" /\ UNCHANGED <<issued, ours>>
           /\ Answers(t, s, IF good THEN "ok" ELSE "refused", 0)
           /\ IF good THEN ends < MaxEnds /\ ends' = ends + 1 /\ NewKey /\ Crossing(t)
              ELSE UNCHANGED <<key, ends, excuse>>
  <2>1. PICK a \in {"ok", "refused"} : a = IF good THEN "ok" ELSE "refused"
    OBVIOUS
  <2>2. Answers(t, s, a, 0)
    BY <1>3, <2>1
  <2>3. /\ CallsType' /\ call'[t][s].kind = c.kind /\ call'[t][s].at = a
        /\ call'[t][s].pair = 0 /\ call'[t][s].retried = c.retried
        /\ \A u \in Browser, r \in Slots : u /= t \/ r /= s => call'[u][r] = call[u][r]
    BY <1>1, <2>2, ServedCall
  <2>4. key' \in Nat /\ ends' \in Nat
    BY <1>1, <1>3 DEF NewKey, SessionInv, SessionType
  <2>5. excuse' \in BOOLEAN /\ (excuse => excuse')
    BY <1>3 DEF Crossing, SessionInv, SessionType
  <2>6. SessionType'
    BY <1>1, <1>3, <2>3, <2>4, <2>5 DEF SessionInv, SessionType
  <2>7. \A u \in Browser : Alone(u)'
    BY <1>1, <2>3, ServedAlone
  <2>8. ~ours' \/ excuse'
    BY <1>3, <2>5 DEF SessionInv, CallsTrue, CallTrue
  <2> QED
    BY <2>6, <2>7, <2>8, SessionInvLost
<1>4. CASE /\ c.kind = "login" /\ UNCHANGED <<key, ours, ends, excuse>>
           /\ \/ /\ Answers(t, s, "refused", 0)
                 /\ UNCHANGED issued
              \/ /\ Newest < MaxPairs /\ issued' = Append(issued, key)
                 /\ Answers(t, s, "ok", Newest + 1)
  <2>1. PICK a \in {"ok", "refused"}, n \in Nat :
          /\ Answers(t, s, a, n)
          /\ \/ n = 0 /\ issued' = issued
             \/ n = Len(issued) + 1 /\ issued' = Append(issued, key)
    BY <1>1, <1>4 DEF Newest
  <2>2. /\ CallsType' /\ call'[t][s].kind = c.kind /\ call'[t][s].at = a
        /\ call'[t][s].pair = n /\ call'[t][s].retried = c.retried
        /\ \A u \in Browser, r \in Slots : u /= t \/ r /= s => call'[u][r] = call[u][r]
    BY <1>1, <2>1, ServedCall
  <2>3. /\ issued' \in Seq(Nat) /\ Len(issued') \in Nat /\ Len(issued) <= Len(issued')
        /\ n <= Len(issued') /\ \A i \in 1..Len(issued) : issued'[i] = issued[i]
    <3>1. issued \in Seq(Nat) /\ key \in Nat /\ Len(issued) \in Nat
      BY DEF SessionInv, SessionType
    <3>2. CASE n = 0 /\ issued' = issued
      BY <3>1, <3>2
    <3>3. CASE n = Len(issued) + 1 /\ issued' = Append(issued, key)
      BY <3>1, <3>3
    <3> QED
      BY <2>1, <3>2, <3>3
  <2>4. \A i \in Nat : Good(i) => Good(i)'
    BY <1>1, <1>4, <2>3 DEF Good
  <2>5. \A u \in Browser, r \in Slots : call'[u][r].pair <= Len(issued')
    <3>1. \A u \in Browser, r \in Slots : call[u][r].pair \in Nat /\ call[u][r].pair <= Len(issued)
      BY DEF SessionInv, SessionType, CallsType, CallSet
    <3>2. \A u \in Browser, r \in Slots : call'[u][r].pair \in Nat /\ (call'[u][r].pair = n
                                                             \/ call'[u][r].pair = call[u][r].pair)
      BY <2>2, <3>1
    <3> QED
      BY <1>1, <2>3, <3>1, <3>2
  <2>6. SessionType'
    BY <1>1, <1>4, <2>2, <2>3, <2>5 DEF SessionInv, SessionType
  <2>7. \A u \in Browser : Alone(u)'
    BY <1>1, <2>2, ServedAlone
  <2>8. ASSUME ours', ~excuse'
        PROVE  TokenKept' /\ RenewalsTrue' /\ CallsTrue'
    <3>1. TokenKept /\ RenewalsTrue /\ CallsTrue
      BY <1>4, <2>8 DEF SessionInv
    <3>2. store.refresh \in Nat /\ \A u \in Browser : renewal[u] \in RenewalSet
      BY DEF SessionInv, SessionType
    <3>3. TokenKept' /\ RenewalsTrue'
      BY <1>1, <2>4, <3>1, <3>2 DEF TokenKept, RenewalsTrue, Granted, Young, RenewalSet
    <3>4. \A u \in Browser, r \in Slots : call[u][r] \in CallSet
      BY DEF SessionInv, SessionType, CallsType
    <3>5. CallsTrue'
      BY <1>1, <1>4, <2>2, <2>4, <3>1, <3>4 DEF CallsTrue, CallTrue, Young, CallSet
    <3> QED
      BY <3>3, <3>5
  <2> QED
    BY <2>6, <2>7, <2>8 DEF SessionInv
<1> QED
  BY <1>1, <1>2, <1>3, <1>4 DEF Serve, Answers

\* The answer to an initial request or to a login: the tab has no other request
\* and no renewal.
LEMMA LoneCall ==
  ASSUME SessionInv, NEW t \in Browser, NEW s \in Slots, call[t][s].kind \in {"me", "login"},
         call[t][s].at /= "waiting"
  PROVE  /\ renewal[t].at = "none" /\ page[t] /= "user"
         /\ \A r \in Slots \ {s} : call[t][r] = NoCall
BY DEF SessionInv, Alone

SetsCall(t, s, c) == call' = [call EXCEPT ![t] = [call[t] EXCEPT ![s] = c]]

\* The tokens of the browser, a tab's page and one of its requests are changed.
LEMMA SettledType ==
  ASSUME SessionInv, NEW t \in Browser, NEW s \in Slots, NEW c \in CallSet,
         SetsCall(t, s, c), c.pair <= Len(issued),
         UNCHANGED <<key, issued, expired, renewal, ends>>,
         store' \in [access : Nat, refresh : Nat], ours' \in BOOLEAN, excuse' \in BOOLEAN,
         page' \in [Browser -> {"user", "loading", "login"}]
  PROVE  /\ SessionType' /\ call'[t][s] = c
         /\ \A u \in Browser, r \in Slots : u /= t \/ r /= s => call'[u][r] = call[u][r]
<1>1. CallsType
  BY DEF SessionInv, SessionType
<1>2. /\ CallsType' /\ call'[t][s] = c
      /\ \A u \in Browser, r \in Slots : u /= t \/ r /= s => call'[u][r] = call[u][r]
  BY <1>1 DEF SetsCall, CallsType
<1> QED
  BY <1>2 DEF SessionInv, SessionType

\* What keeps the tokens, or their refresh token at least
LEMMA SettledKept ==
  ASSUME SessionInv, NEW t \in Browser, NEW s \in Slots, NEW c, CallTrue(c)',
         UNCHANGED <<key, issued, expired, renewal, ours, excuse>>, store'.refresh = store.refresh,
         call'[t][s] = c,
         \A u \in Browser, r \in Slots : u /= t \/ r /= s => call'[u][r] = call[u][r],
         ours', ~excuse'
  PROVE  TokenKept' /\ RenewalsTrue' /\ CallsTrue'
<1>1. TokenKept /\ RenewalsTrue /\ CallsTrue
  BY DEF SessionInv
<1>2. TokenKept' /\ RenewalsTrue'
  BY <1>1 DEF TokenKept, RenewalsTrue, Good, Granted, Young
<1>3. CallsTrue'
  BY <1>1 DEF CallsTrue, CallTrue, Good, Young
<1> QED
  BY <1>2, <1>3

LEMMA SessionInvSettle ==
  ASSUME SessionInv, NEW t \in Browser, NEW s \in Slots, Settle(t, s)
  PROVE  SessionInv'
<1> DEFINE c == call[t][s]
           ok == c.at = "ok"
           over == [call EXCEPT ![t] = [call[t] EXCEPT ![s] = NoCall]]
<1>1. /\ ok \/ c.at = "failed" \/ (c.at = "refused" /\ ~Refused(t, s))
      /\ c \in CallSet /\ c.pair <= Len(issued)
      /\ UNCHANGED <<key, issued, expired, ends>>
  BY DEF Settle, SessionInv, SessionType, CallsType
<1>2. /\ Len(issued) \in Nat /\ store \in [access : Nat, refresh : Nat] /\ CallsType
      /\ page \in [Browser -> {"user", "loading", "login"}]
      /\ ours \in BOOLEAN /\ excuse \in BOOLEAN
  BY DEF SessionInv, SessionType
<1>3. NoCall \in CallSet /\ NoCall.pair <= Len(issued) /\ NoCall.kind = "none" /\ CallTrue(NoCall)'
  BY <1>2, NoCallFacts DEF CallTrue
<1>4. over = [call EXCEPT ![t][s] = NoCall]
  BY <1>2 DEF CallsType
<1>20. call' = over => SetsCall(t, s, NoCall)
  BY DEF SetsCall
<1> HIDE DEF over
\* The call of the tab is cleared, or the login goes on in its place.
<1>5. CASE c.kind = "page" /\ call' = over /\ UNCHANGED <<store, page, renewal, ours, excuse>>
  <2>1. /\ SessionType' /\ call'[t][s] = NoCall
        /\ \A u \in Browser, r \in Slots : u /= t \/ r /= s => call'[u][r] = call[u][r]
    BY <1>1, <1>2, <1>3, <1>5, <1>20, SettledType
  <2>2. \A u \in Browser : Alone(u)'
    BY <1>3, <1>5, <2>1 DEF SessionInv, Alone
  <2>3. ASSUME ours', ~excuse' PROVE TokenKept' /\ RenewalsTrue' /\ CallsTrue'
    BY <1>1, <1>3, <1>5, <2>1, <2>3, SettledKept
  <2> QED
    BY <2>1, <2>2, <2>3 DEF SessionInv
<1>6. CASE /\ c.kind = "logout" /\ store' = NoTokens /\ LoadPage(t, NoTokens)
           /\ ours' = FALSE /\ Crossing(t)
  <2>1. excuse' \in BOOLEAN
    BY <1>6, <1>2 DEF Crossing
  <2>2. SessionType' /\ \A u \in Browser : Alone(u)'
    BY <1>1, <1>6, <2>1, NoCallFacts, LoadPageTabs DEF SessionInv, SessionType
  <2> QED
    BY <1>6, <2>2, SessionInvLost
<1>7. CASE /\ c.kind = "me" /\ c.pair = 0 /\ call' = over
           /\ store' = IF ok THEN store ELSE NoTokens
           /\ page' = [page EXCEPT ![t] = IF ok THEN "user" ELSE "login"]
           /\ UNCHANGED <<renewal, ours, excuse>>
  <2>1. /\ store' \in [access : Nat, refresh : Nat]
        /\ page' \in [Browser -> {"user", "loading", "login"}]
        /\ \A u \in Browser \ {t} : page'[u] = page[u]
    BY <1>2, <1>7, NoCallFacts
  <2>2. /\ SessionType' /\ call'[t][s] = NoCall
        /\ \A u \in Browser, r \in Slots : u /= t \/ r /= s => call'[u][r] = call[u][r]
    BY <1>1, <1>2, <1>3, <1>7, <2>1, <1>20, SettledType
  <2>3. renewal[t].at = "none" /\ \A r \in Slots \ {s} : call[t][r] = NoCall
    BY <1>1, <1>7, LoneCall
  <2>4. \A u \in Browser \ {t} : Alone(u)'
    BY <1>7, <2>1, <2>2 DEF SessionInv, Alone
  <2>5. Alone(t)'
    BY <1>3, <2>2, <2>3 DEF Alone
  <2>6. ASSUME ours', ~excuse' PROVE TokenKept' /\ RenewalsTrue' /\ CallsTrue'
    <3>1. TokenKept /\ RenewalsTrue /\ CallsTrue
      BY <1>7, <2>6 DEF SessionInv
    <3>2. CASE ok
      BY <1>1, <1>3, <1>7, <2>2, <2>6, <3>2, SettledKept
    <3>3. CASE ~ok
      <4>1. c.at = "refused" /\ ~c.retried
        BY <1>1, <1>7, <3>1, <3>3 DEF CallsTrue, CallTrue
      <4>2. store.refresh = 0
        BY <1>1, <4>1 DEF Refused
      <4>3. \E u \in Browser : Granted(u)
        BY <3>1, <4>2 DEF TokenKept, Good
      <4>4. TokenKept'
        BY <1>7, <4>3 DEF TokenKept, Granted
      <4>5. RenewalsTrue'
        BY <1>1, <1>7, <3>1 DEF RenewalsTrue, Granted, Good, Young
      <4>6. CallsTrue'
        BY <1>1, <1>3, <1>7, <2>2, <3>1 DEF CallsTrue, CallTrue, Good, Young
      <4> QED
        BY <4>4, <4>5, <4>6
    <3> QED
      BY <3>2, <3>3
  <2> QED
    BY <2>2, <2>4, <2>5, <2>6 DEF SessionInv
<1>8. CASE /\ c.kind = "login" /\ ok /\ store' = [store EXCEPT !.access = c.pair]
           /\ SetsCall(t, s, [Call("me", c.pair) EXCEPT !.pair = c.pair])
           /\ UNCHANGED <<page, renewal, ours, excuse>>
  <2>1. PICK d : d = [Call("me", c.pair) EXCEPT !.pair = c.pair]
    OBVIOUS
  <2>2. /\ d \in CallSet /\ d.pair = c.pair /\ d.kind = "me" /\ d.at = "sent" /\ d.retried = FALSE
    BY <1>1, <2>1 DEF Call, NoCall, CallSet
  <2>3. SetsCall(t, s, d)
    BY <1>8, <2>1
  <2>4. store' \in [access : Nat, refresh : Nat] /\ store'.refresh = store.refresh
    BY <1>1, <1>2, <1>8 DEF CallSet
  <2>5. /\ SessionType' /\ call'[t][s] = d
        /\ \A u \in Browser, r \in Slots : u /= t \/ r /= s => call'[u][r] = call[u][r]
    BY <1>1, <1>2, <1>8, <2>2, <2>3, <2>4, SettledType
  <2>6. \A u \in Browser \ {t} : Alone(u)'
    BY <1>8, <2>5 DEF SessionInv, Alone
  <2>7. Alone(t)'
    <3>1. /\ renewal[t].at = "none" /\ page[t] /= "user"
          /\ \A r \in Slots \ {s} : call[t][r] = NoCall
      BY <1>1, <1>8, LoneCall
    <3> QED
      BY <1>3, <1>8, <2>5, <3>1 DEF Alone
  <2>8. CallTrue(d)'
    BY <2>2 DEF CallTrue
  <2>9. ASSUME ours', ~excuse' PROVE TokenKept' /\ RenewalsTrue' /\ CallsTrue'
    BY <1>1, <1>8, <2>4, <2>5, <2>8, <2>9, SettledKept
  <2> QED
    BY <2>5, <2>6, <2>7, <2>9 DEF SessionInv
<1>9. CASE /\ c.kind = "me" /\ c.pair > 0 /\ ok /\ call' = over
           /\ store' = Pair(c.pair) /\ page' = [page EXCEPT ![t] = "user"]
           /\ ours' = Alive(c.pair) /\ Crossing(t) /\ UNCHANGED renewal
  <2>1. /\ store' \in [access : Nat, refresh : Nat] /\ store'.refresh = c.pair
        /\ page' \in [Browser -> {"user", "loading", "login"}]
        /\ \A u \in Browser \ {t} : page'[u] = page[u]
    BY <1>1, <1>2, <1>9 DEF Pair, CallSet
  <2>2. ours' \in BOOLEAN /\ excuse' \in BOOLEAN
    BY <1>2, <1>9 DEF Crossing, Alive
  <2>3. /\ SessionType' /\ call'[t][s] = NoCall
        /\ \A u \in Browser, r \in Slots : u /= t \/ r /= s => call'[u][r] = call[u][r]
    BY <1>1, <1>2, <1>3, <1>9, <2>1, <2>2, <1>20, SettledType
  <2>4. renewal[t].at = "none" /\ \A r \in Slots \ {s} : call[t][r] = NoCall
    BY <1>1, <1>9, LoneCall
  <2>5. \A u \in Browser \ {t} : Alone(u)'
    BY <1>9, <2>1, <2>3 DEF SessionInv, Alone
  <2>6. Alone(t)'
    BY <1>3, <2>3, <2>4 DEF Alone
  <2>7. ASSUME ours', ~excuse' PROVE TokenKept' /\ RenewalsTrue' /\ CallsTrue'
    <3>1. \A u \in Browser \ {t} : /\ renewal[u].at = "none"
                                 /\ \A r \in Slots : call[u][r] = NoCall
      BY <1>9, <2>7, Crossed
    <3>2. \A u \in Browser, r \in Slots : call'[u][r] = NoCall
      BY <2>3, <2>4, <3>1
    <3>3. \A u \in Browser : renewal'[u].at = "none"
      BY <1>9, <2>4, <3>1
    <3>4. TokenKept'
      <4>1. Alive(c.pair)
        BY <1>9, <2>7
      <4>2. c.pair \in Nat
        BY <1>1 DEF CallSet
      <4>3. Good(c.pair)
        BY <1>1, <1>2, <4>1, <4>2 DEF Good, Alive
      <4> QED
        BY <1>1, <2>1, <4>3 DEF TokenKept, Good
    <3>5. RenewalsTrue'
      BY <3>3 DEF RenewalsTrue, Granted
    <3>6. CallsTrue'
      BY <1>3, <3>2 DEF CallsTrue, CallTrue
    <3> QED
      BY <3>4, <3>5, <3>6
  <2> QED
    BY <2>3, <2>5, <2>6, <2>7 DEF SessionInv
<1>10. CASE /\ c.kind = "login" \/ (c.kind = "me" /\ c.pair > 0)
            /\ ~ok /\ store' = [store EXCEPT !.access = 0] /\ call' = over
            /\ UNCHANGED <<page, renewal, ours, excuse>>
  <2>1. store' \in [access : Nat, refresh : Nat] /\ store'.refresh = store.refresh
    BY <1>2, <1>10
  <2>2. /\ SessionType' /\ call'[t][s] = NoCall
        /\ \A u \in Browser, r \in Slots : u /= t \/ r /= s => call'[u][r] = call[u][r]
    BY <1>1, <1>2, <1>3, <1>10, <2>1, <1>20, SettledType
  <2>3. \A u \in Browser : Alone(u)'
    BY <1>3, <1>10, <2>2 DEF SessionInv, Alone
  <2>4. ASSUME ours', ~excuse' PROVE TokenKept' /\ RenewalsTrue' /\ CallsTrue'
    BY <1>1, <1>3, <1>10, <2>1, <2>2, <2>4, SettledKept
  <2> QED
    BY <2>2, <2>3, <2>4 DEF SessionInv
<1> QED
  <2>1. [call EXCEPT ![t][s] = [Call("me", c.pair) EXCEPT !.pair = c.pair]]
           = [call EXCEPT ![t] = [call[t] EXCEPT ![s] = [Call("me", c.pair) EXCEPT !.pair = c.pair]]]
    BY <1>2 DEF CallsType
  <2> QED
    BY <1>4, <1>5, <1>6, <1>7, <1>8, <1>9, <1>10, <2>1 DEF Settle, SetsCall

\* A browser that is logged in keeps a refresh token it can go on with
\* (apiClient.ts, the response interceptor, and AuthContext.tsx), but for the
\* excuses the property names: SessionKept, for any number of tabs, requests
\* of a tab, pairs of tokens and sessions ended elsewhere.
THEOREM SessionIsKept == InitTabs /\ [][NextTabs]_tabVars => []SessionKept
<1>1. ASSUME SessionInv, [NextTabs]_tabVars
      PROVE  SessionInv'
  <2>1. CASE UNCHANGED tabVars
    BY <1>1, <2>1 DEF tabVars, SessionInv, SessionType, CallsType, Alone, TokenKept, RenewalsTrue,
                      CallsTrue, CallTrue, Good, Granted, Young
  <2>2. CASE NextTabs
    BY <1>1, <2>2, SessionInvExpire, SessionInvEnd, SessionInvReload, SessionInvRenewed,
       SessionInvRenewalFails, SessionInvServeRenewal, SessionInvFailRenewal, SessionInvServe,
       SessionInvFail, SessionInvRenew, SessionInvSettle, SessionInvSend DEF NextTabs
  <2> QED
    BY <1>1, <2>1, <2>2
<1> QED
  BY <1>1, SessionInvInit, SessionInvEntails, PTL
=============================================================================
