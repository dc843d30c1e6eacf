---------------------------- MODULE UploadClient ----------------------------
(***************************************************************************)
(* The upload panel.  handleUpload is one long function that waits for one *)
(* request after another; what may run beside it is the user (another file *)
(* dropped on the panel makes the button usable again), the page that is   *)
(* left, with the effect's clean-up, or closed, and the answers that fail. *)
(* Of the server only what the panel can tell is kept: Uploads models it.  *)
(***************************************************************************)
EXTENDS Integers

CONSTANTS Attempts,  \* calls of handleUpload
          NoAttempt, \* activeUploadIdRef when it is null
          Chunks,    \* Attempts -> chunks of the file
          MaxLosses  \* bound: requests that fail

ASSUME UploadClientAssumption ==
  /\ NoAttempt \notin Attempts /\ MaxLosses \in Nat
  /\ Chunks \in [Attempts -> Nat \ {0}]

VARIABLES server,  \* Attempts -> the upload: "none", "open", "filed", "gone"
          attempt, \* Attempts -> the request it waits for, its answer, chunks sent
          ref,     \* activeUploadIdRef
          exits,   \* uploads for which a cancel of the leaving page is under way
          shown,   \* the panel: "shown", "left" or, with its page, "closed"
          chosen,  \* the file: "none", "good" or "large"
          look,    \* phase
          unwatched, \* history: an upload may be open that nobody cancels
          losses

uploadClientVars == <<server, attempt, ref, exits, shown, chosen, look, unwatched, losses>>

Request(r, n) == [request |-> r, answer |-> "none", sent |-> n]
NotYet == Request("none", 0)
Over == Request("over", 0)
Running(a) == attempt[a].request \notin {"none", "over"}
Outstanding(a) == Running(a) /\ attempt[a].answer = "none"

InitUploadClient ==
  /\ server = [a \in Attempts |-> "none"] /\ attempt = [a \in Attempts |-> NotYet]
  /\ ref = NoAttempt /\ exits = {} /\ shown = "shown" /\ chosen = "none" /\ look = "idle"
  /\ unwatched = FALSE /\ losses = 0

-----------------------------------------------------------------------------
(* The server                                                              *)

\* Another upload of the user is replaced.
OpenedAlone(a) == [b \in Attempts |-> IF b = a THEN "open"
                                 ELSE IF server[b] = "open" THEN "gone" ELSE server[b]]
Cancelled(a) == IF server[a] = "open" THEN [server EXCEPT ![a] = "gone"] ELSE server

Effect(a) == CASE attempt[a].request = "init" -> OpenedAlone(a)
               [] attempt[a].request = "complete" -> [server EXCEPT ![a] = "filed"]
               [] attempt[a].request = "cancel" -> Cancelled(a)
               [] OTHER -> server

Accepted(a) == attempt[a].request \in {"init", "cancel"} \/ server[a] = "open"

Serves(a) ==
  /\ Outstanding(a)
  /\ server' = IF Accepted(a) THEN Effect(a) ELSE server
  /\ attempt' = [attempt EXCEPT ![a].answer = IF Accepted(a) THEN "ok" ELSE "error"]
  /\ UNCHANGED <<ref, exits, shown, chosen, look, unwatched, losses>>

ServeExit(a) ==
  /\ a \in exits /\ exits' = exits \ {a} /\ server' = Cancelled(a)
  /\ UNCHANGED <<attempt, ref, shown, chosen, look, unwatched, losses>>

\* A request fails, without its effect or with it; nobody repeats a cancel, and
\* nobody knows an upload whose name was lost.
Lose(a) ==
  /\ Outstanding(a) /\ losses < MaxLosses /\ losses' = losses + 1
  /\ \/ /\ UNCHANGED server
        /\ unwatched' = (unwatched \/ attempt[a].request = "cancel")
     \/ /\ Accepted(a) /\ server' = Effect(a)
        /\ unwatched' = (unwatched \/ attempt[a].request = "init")
  /\ attempt' = [attempt EXCEPT ![a].answer = "error"]
  /\ UNCHANGED <<ref, exits, shown, chosen, look>>

\* Among others because there is no access token any more, or an old one.
LoseExit(a) ==
  /\ a \in exits /\ exits' = exits \ {a} /\ losses < MaxLosses /\ losses' = losses + 1
  /\ unwatched' = TRUE
  /\ UNCHANGED <<server, attempt, ref, shown, chosen, look>>

-----------------------------------------------------------------------------
(* The panel                                                               *)

Busy == look \in {"uploading", "finalizing", "done"}

\* selectFile: by a drop at any time, by the dialog while no file is chosen.
SelectFile(f) ==
  /\ shown = "shown" /\ chosen' = f
  /\ look' = IF f = "large" THEN "error" ELSE "idle"
  /\ UNCHANGED <<server, attempt, ref, exits, shown, unwatched, losses>>

\* clearFile: by its button, or some time after an upload was done.
ClearFile ==
  /\ shown = "shown" /\ chosen /= "none" /\ look \notin {"uploading", "finalizing"}
  /\ chosen' = "none" /\ look' = "idle"
  /\ UNCHANGED <<server, attempt, ref, exits, shown, unwatched, losses>>

Start(a) ==
  /\ shown = "shown" /\ chosen = "good" /\ ~Busy /\ attempt[a] = NotYet
  /\ look' = "uploading" /\ attempt' = [attempt EXCEPT ![a] = Request("init", 0)]
  /\ UNCHANGED <<server, ref, exits, shown, chosen, unwatched, losses>>

\* ref is shared: an attempt may replace or clear what another has put there.
Points(a, new) == ref' = new /\ unwatched' = (unwatched \/ ref \notin {a, NoAttempt})

Proceed(a) ==
  LET n == attempt[a].sent IN
  /\ Running(a) /\ attempt[a].answer = "ok" /\ shown /= "closed"
  /\ \/ /\ attempt[a].request = "init" /\ Points(a, a)
        /\ attempt' = [attempt EXCEPT ![a] = Request("chunk", 1)] /\ UNCHANGED look
     \/ /\ attempt[a].request = "chunk" /\ n < Chunks[a] /\ UNCHANGED <<ref, look, unwatched>>
        /\ attempt' = [attempt EXCEPT ![a] = Request("chunk", n + 1)]
     \/ /\ attempt[a].request = "chunk" /\ n = Chunks[a] /\ UNCHANGED <<ref, unwatched>>
        /\ attempt' = [attempt EXCEPT ![a] = Request("complete", 0)] /\ look' = "finalizing"
     \/ /\ attempt[a].request = "complete" /\ Points(a, NoAttempt)
        /\ attempt' = [attempt EXCEPT ![a] = Over] /\ look' = "done"
  /\ UNCHANGED <<server, exits, shown, chosen, losses>>

\* Mutant of Withdrawn: an upload that cannot be completed is given up.
WithdrawnLess(a) == IF attempt[a].request = "chunk" THEN Request("cancel", 0) ELSE Over

Withdrawn(a) == IF attempt[a].request \in {"chunk", "complete"} THEN Request("cancel", 0) ELSE Over

\* The catch, and what follows its cancel.
Catch(a) ==
  /\ Running(a) /\ shown /= "closed"
  /\ attempt[a].answer = "error" \/ (attempt[a].answer = "ok" /\ attempt[a].request = "cancel")
  /\ attempt' = [attempt EXCEPT ![a] = Withdrawn(a)]
  /\ IF attempt[a].request \in {"chunk", "complete"}
     THEN Points(a, NoAttempt) /\ UNCHANGED look
     ELSE look' = "error" /\ UNCHANGED <<ref, unwatched>>
  /\ UNCHANGED <<server, exits, shown, chosen, losses>>

CancelActiveUpload == exits' = (exits \cup {ref}) \ {NoAttempt} /\ ref' = NoAttempt

\* Another page of the application: the panel is unmounted, handleUpload goes on.
Leave ==
  /\ shown = "shown" /\ shown' = "left" /\ CancelActiveUpload
  /\ UNCHANGED <<server, attempt, chosen, look, unwatched, losses>>

\* pagehide, heard only while the panel is mounted; no code runs any more.
Close ==
  /\ shown /= "closed" /\ shown' = "closed"
  /\ IF shown = "shown" THEN CancelActiveUpload ELSE UNCHANGED <<exits, ref>>
  /\ unwatched' = (unwatched \/ \E a \in Attempts :
       Running(a) /\ (shown = "left" \/ attempt[a].request = "init"))
  /\ UNCHANGED <<server, attempt, chosen, look, losses>>

NextUploadClient ==
  \/ Leave \/ Close \/ ClearFile \/ (\E f \in {"good", "large"} : SelectFile(f))
  \/ \E a \in Attempts : \/ Serves(a) \/ ServeExit(a) \/ Lose(a) \/ LoseExit(a)
                         \/ Start(a) \/ Proceed(a) \/ Catch(a)

-----------------------------------------------------------------------------
\* Hazard: an upload the user gave up holds its parts, and the place of the
\* next one, until the server's sweep.  When nothing is under way any more no
\* upload of the page is open, unless a cancel or the name of an upload was
\* lost, the page was closed before it knew the name or after the panel was
\* left, or one upload had taken the ref of another.
UploadsCancelled ==
  (~unwatched /\ exits = {} /\ \A a \in Attempts :
     ~Running(a) \/ (shown = "closed" /\ ~Outstanding(a)))
  => \A a \in Attempts : server[a] /= "open"
=============================================================================
