----------------------------- MODULE MCStreams ------------------------------
(***************************************************************************)
(* The counters and the notices share no state; a behaviour is one of the  *)
(* one or of the other.  Counters: two requests with two rules and a guess *)
(* that share a counter; two guesses; three event streams of two users     *)
(* behind one address.                                                     *)
(***************************************************************************)
EXTENDS Limits, Notices, TLC

CONSTANTS q1, q2, g1, g2, s1, s2, s3, route, address, user1, user2, peer

MCKeysOf == (q1 :> <<address, route>>) @@ (q2 :> <<address, route>>)
            @@ (g1 :> <<route>>) @@ (g2 :> <<route>>)
            @@ (s1 :> <<user1, peer>>) @@ (s2 :> <<user1, peer>>) @@ (s3 :> <<user2, peer>>)
MCLimit == (route :> 1) @@ (address :> 2) @@ (user1 :> 1) @@ (user2 :> 1) @@ (peer :> 1)
MCLoads == {{}, {q1, g1, g2}, {q1, q2}, {s1, s2}, {s1, s3}}

VARIABLE scene
mcVars == <<limitVars, noticeVars, scene>>

MCNext ==
  /\ UNCHANGED scene
  /\ \/ scene = "limits" /\ NextLimits /\ UNCHANGED noticeVars
     \/ scene = "notices" /\ NextNotices /\ UNCHANGED limitVars

MCInit ==
  /\ InitLimits /\ InitNotices
  /\ scene = IF \A p \in Procs : proc[p].at = "absent" THEN "notices" ELSE "limits"

\* The fairness of LimitsSpec and of NoticesSpec, each in its scene.
MCSpec ==
  /\ MCInit /\ [][MCNext]_mcVars
  /\ WF_limitVars(scene = "limits" /\ \E p \in Procs : Step(p))
  /\ \A k \in Keys : WF_limitVars(scene = "limits" /\ KeyExpires(k))
  /\ \A t \in Tabs :
       /\ WF_noticeVars(scene = "notices" /\ FallbackSync(t))
       /\ WF_noticeVars(scene = "notices" /\ Answer(t))
       /\ \A m \in SUBSET Notes : WF_noticeVars(scene = "notices" /\ Receive(t, m))
       /\ WF_noticeVars(scene = "notices" /\ RemoveExpired(t))

(* The limit of a route is a window: in the time between the first request *)
(* and the expiry of its key no more than the limit are let through,       *)
(* however requests, guesses, cleared counters and restarts interleave;    *)
(* and the window ends, unless the server was killed between INCR and      *)
(* EXPIRE (rate-limit.service.ts, consume).                                *)
OfRoute == INSTANCE Window WITH Max <- Limit[route],
             used <- past[route].used, deadlineLost <- past[route].noTtl
OfAddress == INSTANCE Window WITH Max <- Limit[address],
               used <- past[address].used, deadlineLost <- past[address].noTtl
WindowsKept == OfRoute!WindowSpec /\ OfAddress!WindowSpec
=============================================================================
