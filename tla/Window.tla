------------------------------- MODULE Window -------------------------------
(***************************************************************************)
(* What a fixed-window limit promises of one counter: while a window is    *)
(* open at most Max of the requests that come are within the limit, and a  *)
(* window ends by itself -- unless its deadline was lost, the one          *)
(* exception the implementation has.                                       *)
(***************************************************************************)
EXTENDS Integers

CONSTANT Max
VARIABLES used, deadlineLost

windowVars == <<used, deadlineLost>>

WindowInit == used = 0 /\ deadlineLost = FALSE
Take == used < Max /\ used' = used + 1 /\ UNCHANGED deadlineLost
Close == used > 0 /\ used' = 0 /\ deadlineLost' = FALSE
LoseDeadline == used > 0 /\ deadlineLost' = TRUE /\ UNCHANGED used

WindowSafety == WindowInit /\ [][Take \/ Close \/ LoseDeadline]_windowVars
WindowSpec == WindowSafety /\ (used > 0 ~> used = 0 \/ deadlineLost)
=============================================================================
