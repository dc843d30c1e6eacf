---------------------------- MODULE DownloadPage -----------------------------
(***************************************************************************)
(* The page of a share link (DownloadCard) and what the server answers it  *)
(* (getDownloadMetadata and downloadFile of FilesService) while the file   *)
(* expires and is deleted.  What becomes of the bytes is the matter of     *)
(* Transfer, and what the service worker does with them that of Download.  *)
(***************************************************************************)
EXTENDS Integers

CONSTANT Refusals   \* bound: answers refused for too many wrong passwords

ASSUME DownloadPageAssumption == Refusals \in Nat

VARIABLES
  file,    \* its row and object: whether it is protected, expired, what is left
  refused, \* answers refused so far
  card,    \* stage, metadata, password, saveMethod and the requests under way
  run      \* startDownload: where it is, its controller and its destination

downloadPageVars == <<file, refused, card, run>>

NoRun == [pc |-> "none", aborted |-> FALSE, target |-> "none"]

InitDownloadPage ==
  /\ file \in [protected : BOOLEAN, expired : {FALSE}, left : {"object"}]
  /\ refused = 0
  /\ card = [stage |-> "idle", meta |-> FALSE, password |-> "none", saving |-> "checking",
             loading |-> TRUE, sent |-> "none", mounted |-> TRUE]
  /\ run = NoRun

-----------------------------------------------------------------------------
(* The file *)

FileExpires == /\ ~file.expired /\ file' = [file EXCEPT !.expired = TRUE]
          /\ UNCHANGED <<refused, card, run>>

\* deleteFile of its owner, or handleCleanup: first the object, then the row.
RemoveFile == /\ file.left /= "nothing"
          /\ file' = [file EXCEPT !.left = IF @ = "object" THEN "row" ELSE "nothing"]
          /\ UNCHANGED <<refused, card, run>>

\* getDownloadableFile deletes what has expired and finds nothing;
\* assertDownloadPassword is asked before storage is.
Status(sent, forContent) ==
  IF file.left = "nothing" \/ file.expired THEN "error"
  ELSE IF file.protected /\ sent /= "right" THEN "forbidden"
  ELSE IF forContent /\ file.left /= "object" THEN "error" ELSE "ok"

\* The limit of wrong guesses, a killed server or the network may refuse any
\* answer.
Answered(sent, forContent, status) ==
  /\ \/ status = Status(sent, forContent) /\ UNCHANGED refused
     \/ status = "error" /\ refused < Refusals /\ refused' = refused + 1
  /\ file' = IF file.expired /\ file.left /= "nothing"
             THEN [file EXCEPT !.left = "nothing"] ELSE file

-----------------------------------------------------------------------------
(* Metadata *)

SetCard(c) == card' = c /\ UNCHANGED <<file, refused, run>>

\* A browser with a save picker, or prepare() of the service worker
Prepared(how) == /\ card.mounted /\ card.saving = "checking"
                 /\ SetCard([card EXCEPT !.saving = how])

StageOf(status) == CASE status = "ok" -> "idle"
                     [] status = "forbidden" -> "password"
                     [] status = "error" -> "error"

Loaded(status) ==
  /\ card.loading /\ Answered("none", FALSE, status)
  /\ card' = [card EXCEPT !.loading = FALSE, !.meta = status = "ok", !.stage = StageOf(status)]
  /\ UNCHANGED run

\* Mutant of Editable: the field stays open while the password is checked.
EditableAlways == card.stage = "password"

\* The form is disabled while unlocking.
Editable == card.stage = "password" /\ card.sent = "none"

TypePassword(text) ==
  /\ card.mounted /\ Editable
  /\ SetCard([card EXCEPT !.password = text])

UnlockMetadata ==
  /\ card.mounted /\ card.stage = "password" /\ card.sent = "none" /\ card.password /= "none"
  /\ SetCard([card EXCEPT !.sent = card.password])

Unlocked(status) ==
  /\ card.sent /= "none" /\ Answered(card.sent, FALSE, status)
  /\ card' = [card EXCEPT !.sent = "none", !.meta = status = "ok",
                          !.stage = IF status = "ok" THEN "idle" ELSE @]
  /\ UNCHANGED run

\* resetStage: once more, with the metadata of before if there is any.
Reset ==
  /\ card.mounted /\ card.stage \in {"error", "complete"}
  /\ SetCard([card EXCEPT !.stage = "idle", !.loading = ~card.meta])

-----------------------------------------------------------------------------
(* startDownload *)

DownloadRuns == run.pc \notin {"none", "picking"}

\* The button is disabled without metadata or a way to save; downloadStartingRef
\* and activeDownloadRef keep a second run out.
Press ==
  /\ card.mounted /\ card.stage = "idle" /\ card.meta
  /\ card.saving \in {"file", "worker"} /\ run.pc = "none"
  /\ IF card.saving = "file"
     THEN run' = [NoRun EXCEPT !.pc = "picking"] /\ UNCHANGED card
     ELSE /\ run' = [NoRun EXCEPT !.pc = "connecting", !.target = "open"]
          /\ card' = [card EXCEPT !.stage = "downloading"]
  /\ UNCHANGED <<file, refused>>

Pick(how) ==
  /\ run.pc = "picking"
  /\ run' = IF how = "picked" /\ card.mounted THEN [run EXCEPT !.pc = "fetching"] ELSE NoRun
  /\ card' = [card EXCEPT !.stage = IF ~card.mounted \/ how = "dismissed" THEN @
                                    ELSE IF how = "picked" THEN "downloading" ELSE "error"]
  /\ UNCHANGED <<file, refused>>

SetRun(r) == run' = r /\ UNCHANGED <<file, refused, card>>
Go(from, to) == run.pc = from /\ ~run.aborted /\ SetRun([run EXCEPT !.pc = to])

\* destination.ready
Ready == Go("connecting", "fetching")

\* The password that was accepted goes with the request.
PasswordSent == IF file.protected THEN card.password ELSE "none"

\* An authorization that failed takes the metadata with it.
Fetched(status) ==
  /\ run.pc = "fetching" /\ ~run.aborted /\ Answered(PasswordSent, TRUE, status)
  /\ CASE status = "ok" -> run' = [run EXCEPT !.pc = "opening"] /\ UNCHANGED card
       [] status = "error" -> run' = [run EXCEPT !.pc = "failing"] /\ UNCHANGED card
       [] status = "forbidden" ->
            run' = NoRun /\ card' = [card EXCEPT !.meta = FALSE, !.stage = "password"]

\* createWritable takes no signal.
OpenTarget == run.pc = "opening" /\ SetRun([run EXCEPT !.pc = "reading", !.target = "open"])

\* streamDecryptToFile and the last look at the signal
ReadAll ==
  /\ run.pc = "reading" /\ ~run.aborted
  /\ run' = [run EXCEPT !.pc = "closing"]
  /\ card' = [card EXCEPT !.stage = IF card.mounted THEN "finalizing" ELSE @]
  /\ UNCHANGED <<file, refused>>

\* What was given up before it is closed stays so.
CloseTarget ==
  /\ run.pc = "closing"
  /\ run' = [NoRun EXCEPT !.target = IF run.target = "open" THEN "closed" ELSE run.target]
  /\ card' = [card EXCEPT !.stage = IF card.mounted THEN "complete" ELSE @]
  /\ UNCHANGED <<file, refused>>

\* Any await may throw, and throws once the signal is aborted.
Throw == run.pc \notin {"none", "picking", "failing"} /\ SetRun([run EXCEPT !.pc = "failing"])

Discarded(target) == IF target = "open" THEN "discarded" ELSE target

\* The catch block: the destination is given up, then the error shown.
CatchBlock ==
  /\ run.pc = "failing"
  /\ run' = [NoRun EXCEPT !.target = Discarded(run.target)]
  /\ card' = [card EXCEPT !.stage = IF card.mounted THEN "error" ELSE @]
  /\ UNCHANGED <<file, refused>>

\* The button is there while downloading; the worker aborts on its own behalf.
Cancel == card.mounted /\ card.stage = "downloading" /\ SetRun([run EXCEPT !.aborted = TRUE])
WorkerAborts == /\ DownloadRuns /\ card.saving = "worker" /\ run.target = "open"
                /\ SetRun([run EXCEPT !.aborted = TRUE])

\* The effects' clean-up
LeavePage ==
  /\ card.mounted
  /\ card' = [card EXCEPT !.mounted = FALSE, !.loading = FALSE, !.sent = "none"]
  /\ run' = IF DownloadRuns THEN [run EXCEPT !.aborted = TRUE, !.target = Discarded(@)] ELSE run
  /\ UNCHANGED <<file, refused>>

NextDownloadPage ==
  \/ FileExpires \/ RemoveFile
  \/ \E how \in {"file", "worker", "unavailable"} : Prepared(how)
  \/ \E status \in {"ok", "forbidden", "error"} : Loaded(status) \/ Unlocked(status) \/ Fetched(status)
  \/ (\E text \in {"right", "wrong"} : TypePassword(text)) \/ UnlockMetadata \/ Reset
  \/ Press \/ (\E how \in {"picked", "dismissed", "failed"} : Pick(how))
  \/ Ready \/ OpenTarget \/ ReadAll \/ CloseTarget \/ Throw \/ CatchBlock
  \/ Cancel \/ WorkerAborts \/ LeavePage

-----------------------------------------------------------------------------
(* Property *)

\* While the page says that it downloads, a download is under way, and none is
\* that the page does not show; a page without metadata waits for them, for a
\* password or for the user; and the password a download sends is the one the
\* metadata were unlocked with, so that none is refused for its password.  A
\* download that is over has closed or given up what it wrote to, whoever went away
\* first, and what the page calls complete was closed.
CardTrue ==
  /\ card.mounted => (card.stage \in {"downloading", "finalizing"} <=> DownloadRuns)
  /\ card.mounted /\ card.stage = "idle" => card.meta \/ card.loading
  /\ DownloadRuns /\ file.protected => card.password = "right"
  /\ run.pc = "none" => run.target /= "open"
  /\ card.stage = "complete" => run.target = "closed"
=============================================================================
