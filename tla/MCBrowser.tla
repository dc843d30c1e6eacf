----------------------------- MODULE MCBrowser -----------------------------
(***************************************************************************)
(* Five parts of the browser's code that share nothing here: a behaviour   *)
(* is one of the tabs of a session, of the mailbox page, of the upload     *)
(* panel, of the contents of one upload, or of the page that downloads it. *)
(* One of the two tabs has a single request under way.                     *)
(***************************************************************************)
EXTENDS Tabs, MailPage, UploadClient, Transfer, DownloadPage, TLC

CONSTANTS t1, t2, s1, s2, m1, m2, k1, k2, a1, a2

VARIABLE scene

mcVars == <<tabVars, pageVars, uploadClientVars, transferVars, downloadPageVars, scene>>

TwoThenOne == [a \in Attempts |-> IF a = a1 THEN 2 ELSE 1]

\* What is not on the scene starts in one way only.
MCInit == /\ scene \in {"tabs", "mailbox", "panel", "contents", "download"}
          /\ InitTabs /\ InitMailPage /\ InitUploadClient /\ InitTransfer
          /\ InitDownloadPage
          /\ scene /= "mailbox" => \A m \in Mails : box[m].at = "none"
          /\ scene /= "contents" => size = 1 /\ format = "v1" /\ source = <<>>
          /\ scene /= "download" => file.protected

MCNext ==
  /\ UNCHANGED scene
  /\ \/ /\ scene = "tabs" /\ NextTabs /\ \A s \in Slots \ {First} : call'[t2][s] = NoCall
        /\ UNCHANGED <<pageVars, uploadClientVars, transferVars, downloadPageVars>>
     \/ scene = "mailbox" /\ NextMailPage /\ UNCHANGED <<tabVars, uploadClientVars, transferVars, downloadPageVars>>
     \/ scene = "panel" /\ NextUploadClient /\ UNCHANGED <<tabVars, pageVars, transferVars, downloadPageVars>>
     \/ scene = "contents" /\ NextTransfer /\ UNCHANGED <<tabVars, pageVars, uploadClientVars, downloadPageVars>>
     \/ /\ scene = "download" /\ NextDownloadPage
        /\ UNCHANGED <<tabVars, pageVars, uploadClientVars, transferVars>>

MCSpec == MCInit /\ [][MCNext]_mcVars

\* Once the session may have been lost SessionKept has no more to say.
Worthwhile == ~excuse

Symmetry == Permutations(Mails)
=============================================================================
