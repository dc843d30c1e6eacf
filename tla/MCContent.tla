----------------------------- MODULE MCContent -----------------------------
(***************************************************************************)
(* Blog posts share nothing with bins, links and reports, nor any of them  *)
(* with the figures of the dashboard or the registration of a user, so     *)
(* that a behaviour is one of the blog, of the shelves (without reports),  *)
(* of two reports of content (of a bin or of a file, and nothing new), of  *)
(* those of bugs, of one part of the dashboard, of registrations beside    *)
(* one admin's request, of two such requests, or of an admin's sessions.   *)
(***************************************************************************)
EXTENDS Blog, Reports, Dashboard, Registration, AdminAuth, TLC

CONSTANTS e1, e2, p1, c1, c2, b1, b2, b3, l1, l2, f1, u1, a1, a2, r1, r2, x1, x2,
          v1, v2, n1, n2, t1, t2, q1, q2, h1, h2

VARIABLE scene

contentVars == <<shelfVars, reportVars, blogVars>>
mcVars == <<contentVars, dashboardVars, registrationVars, adminAuthVars, scene>>

\* In a scene of reports the bin or the file is there from the start.
MCInit ==
  /\ scene \in {"blog", "shelves", "reports", "bugs",
               "joined", "used", "filed", "registration", "invites", "sessions"}
  /\ InitBlog /\ InitReports /\ InitDashboard /\ InitRegistration
  /\ InitAdminAuth /\ account.password = q1
  /\ \/ scene /= "reports" /\ InitShelves({})
     \/ scene = "reports" /\ (InitShelves({b1}) \/ InitShelves({f1}))

Moderation ==
  \/ \E r \in Reports : (\E i \in Contents : Resolve(r, i)) \/ File(r)
  \/ \E a \in Admins : AdminStep(a)
  \/ /\ \/ \E u \in Users, i \in {f1, b1} : Find(c1, u, i)
        \/ DeleteFound(c1) \/ Expires(b1) \/ Cleanup \/ Purge(u1, TRUE)
     /\ ClearTargets
     /\ UNCHANGED <<admin, entries, banned, cut, direct, bug, objects, stray, troubles>>

\* Each part of the dashboard has rows of its own.
MCDashboard ==
  /\ NextDashboard
  /\ CASE scene = "joined" -> UNCHANGED <<stored, reports, snapshots, capture>>
       [] scene = "used" -> UNCHANGED <<person, reports>>
       [] scene = "filed" -> UNCHANGED <<person, stored, snapshots, capture>>
  /\ answer'.part \subseteq CASE scene = "joined" -> {"total", "day", "week", "joined"}
                              [] scene = "used" -> {"used"}
                              [] scene = "filed" -> {"reports"}

Content ==
  \/ scene = "blog" /\ NextBlog /\ UNCHANGED <<shelfVars, reportVars>>
  \/ scene = "shelves" /\ NextShelves /\ UNCHANGED <<blogVars, reportVars>>
  \/ scene = "reports" /\ Moderation /\ troubles' <= 1 /\ UNCHANGED blogVars
  \/ scene = "bugs" /\ (\E x \in BugReports : BugStep(x)) /\ UNCHANGED blogVars

MCNext ==
  /\ UNCHANGED scene
  /\ \/ Content /\ UNCHANGED <<dashboardVars, registrationVars, adminAuthVars>>
     \/ /\ scene \in {"joined", "used", "filed"} /\ MCDashboard
        /\ UNCHANGED <<contentVars, registrationVars, adminAuthVars>>
     \/ /\ scene = "sessions" /\ NextAdminAuth
        /\ UNCHANGED <<contentVars, dashboardVars, registrationVars>>
     \/ /\ scene \in {"registration", "invites"} /\ NextRegistration
        /\ scene = "registration" => task'[t2] = task[t2]
        /\ scene = "invites" => UNCHANGED visitorVars
        /\ UNCHANGED <<contentVars, dashboardVars, adminAuthVars>>

MCSpec == MCInit /\ [][MCNext]_mcVars
Symmetry == Permutations(Visitors) \cup Permutations(Names)

\* The audit log says of posts and of reported content what became of them, and
\* names who did it (admin-blog.service.ts, admin-reports.service.ts).
AuditTrue == PostsAudited /\ DeletionsAudited
=============================================================================
