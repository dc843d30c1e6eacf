------------------------------- MODULE Board --------------------------------
(***************************************************************************)
(* What the notices of a site promise: a reader's board shows current      *)
(* notices the reader has not put away; what it shows stays until the      *)
(* notice runs out, the reader puts it away or signs out; and a notice     *)
(* that stays current reaches every reader who is signed in.               *)
(***************************************************************************)
EXTENDS Integers

CONSTANTS Readers, Items
VARIABLES current, \* notices that have been published and have not run out
          away,    \* notices put away
          signed,  \* readers who are signed in
          shown    \* what a reader sees

boardVars == <<current, away, signed, shown>>

BoardInit == current = {} /\ away = {} /\ signed = {} /\ shown = [r \in Readers |-> {}]

Publish == \E i \in Items : current' = current \cup {i} /\ UNCHANGED <<away, signed, shown>>
RunOut == \E i \in current : current' = current \ {i} /\ UNCHANGED <<away, signed, shown>>

\* The board shows more, and lets go of what has run out or was put away.
Show(r) == \E new \in SUBSET current :
  /\ r \in signed
  /\ shown' = [shown EXCEPT ![r] = ((@ \cup new) \cap current) \ away]
  /\ UNCHANGED <<current, away, signed>>

\* Only what has run out is taken from the board.
Tidy(r) == /\ shown' = [shown EXCEPT ![r] = @ \cap current]
           /\ UNCHANGED <<current, away, signed>>

PutAway(r) == \E i \in shown[r] :
  /\ away' = away \cup {i}
  /\ shown' = [shown EXCEPT ![r] = @ \ {i}]
  /\ UNCHANGED <<current, signed>>

SignIn(r) == signed' = signed \cup {r} /\ UNCHANGED <<current, away, shown>>
SignOut(r) == /\ signed' = signed \ {r}
              /\ shown' = [shown EXCEPT ![r] = {}]
              /\ UNCHANGED <<current, away>>

BoardNext ==
  \/ Publish \/ RunOut
  \/ \E r \in Readers : Show(r) \/ Tidy(r) \/ PutAway(r) \/ SignIn(r) \/ SignOut(r)

BoardSpec == BoardInit /\ [][BoardNext]_boardVars

Reaches ==
  \A r \in Readers, i \in Items :
    i \in current /\ r \in signed ~> i \in shown[r] \/ i \notin current \/ i \in away \/ r \notin signed
=============================================================================
