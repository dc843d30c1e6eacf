-------------------------------- MODULE Blog --------------------------------
(***************************************************************************)
(* Blog posts: a row in the database and the markdown in an object of its  *)
(* own.  AdminBlogService reads a snapshot of the post, lets BlogService   *)
(* read the post again, change the object and then the row, reads another  *)
(* snapshot and writes the audit log.  Nothing holds these steps together. *)
(***************************************************************************)
EXTENDS Integers

CONSTANTS Editors, \* requests of admins
          Posts,   \* posts, each with the object its storageName names
          Sizes,   \* sizes of a markdown text, 0 is none
          Mishaps  \* bound: how many steps fail or are cut off

ASSUME BlogAssumption == Sizes \subseteq Nat \ {0} /\ Mishaps \in Nat

VARIABLES post,    \* Posts -> status and contentSize of the row
          object,  \* Posts -> size of the object, 0 if there is none
          editor,  \* Editors -> the request under way
          audit,   \* entries of the audit log on the status of a post
          lost,    \* history: changes whose request ended before its entry
          spoilt,  \* history: posts whose last change stopped half way or was half undone
          mishaps

blogVars == <<post, object, editor, audit, lost, spoilt, mishaps>>

Created == {"draft", "published"}
Edits == {"updated", "publish", "withdraw", "delete"}
Live(p) == post[p].status \in {"draft", "published", "withdrawn"}
NoRequest == [at |-> "idle", op |-> "none", post |-> "none", size |-> 0, stale |-> FALSE]

\* What the request makes of the row, as the audit log calls it.
Outcome(e) == CASE editor[e].op = "publish" -> "published"
                [] editor[e].op = "withdraw" -> "withdrawn"
                [] editor[e].op = "delete" -> "deleted"
                [] OTHER -> editor[e].op

\* Requests that change the object, and those that have.
Writes(e) == editor[e].op \in Created \cup {"delete"} \/ editor[e].size > 0
Between(e, p) == editor[e].at \in {"row", "undo"} /\ Writes(e) /\ editor[e].post = p

InitBlog ==
  /\ post = [p \in Posts |-> [status |-> "none", size |-> 0]]
  /\ object = [p \in Posts |-> 0]
  /\ editor = [e \in Editors |-> NoRequest]
  /\ audit = {} /\ lost = {} /\ spoilt = {} /\ mishaps = 0

Goes(e, at) == editor' = [editor EXCEPT ![e].at = at]
Ends(e) == editor' = [editor EXCEPT ![e] = NoRequest]

-----------------------------------------------------------------------------
\* createDraft, createPublished: the name of the object is a new UUID.
NewPost(e, p, op) ==
  /\ editor[e].at = "idle" /\ post[p].status = "none" /\ object[p] = 0
  /\ \A f \in Editors : editor[f].post /= p
  /\ \E n \in Sizes :
       editor' = [editor EXCEPT ![e] = [at |-> "store", op |-> op, post |-> p,
                                        size |-> n, stale |-> FALSE]]
  /\ UNCHANGED <<post, object, audit, lost, spoilt, mishaps>>

\* updateBlogPost .. deleteBlogPost, up to the first snapshot.
Edit(e, p, op) ==
  /\ editor[e].at = "idle" /\ Live(p)
  /\ \E n \in IF op = "updated" THEN Sizes \cup {0} ELSE {0} :
       editor' = [editor EXCEPT ![e] = [at |-> "read", op |-> op, post |-> p,
                                        size |-> n, stale |-> FALSE]]
  /\ UNCHANGED <<post, object, audit, lost, spoilt, mishaps>>

\* findBlogPostOrThrow and what the service asks of the status it finds.
Read(e) ==
  LET r == editor[e]
      status == post[r.post].status
      next == IF ~Live(r.post) THEN "idle" ELSE
              CASE r.op = "updated" -> IF r.size > 0 THEN "store" ELSE "row"
                [] r.op = "publish" -> IF status = "published" THEN "after" ELSE "row"
                [] r.op = "withdraw" -> IF status = "published" THEN "row" ELSE "idle"
                [] r.op = "delete" -> IF status = "published" THEN "idle" ELSE "store"
  IN /\ r.at = "read"
     /\ IF next = "idle" THEN Ends(e) ELSE Goes(e, next)
     /\ UNCHANGED <<post, object, audit, lost, spoilt, mishaps>>

\* putMarkdownObject, replaceMarkdownObject, deleteMarkdownObject.
Store(e) ==
  /\ editor[e].at = "store"
  /\ object' = [object EXCEPT ![editor[e].post] = editor[e].size]
  /\ editor' = [f \in Editors |->
       IF f = e THEN [editor[e] EXCEPT !.at = "row"]
       ELSE IF Between(f, editor[e].post) THEN [editor[f] EXCEPT !.stale = TRUE] ELSE editor[f]]
  /\ UNCHANGED <<post, audit, lost, spoilt, mishaps>>

\* Whether row and object agree once the request has written its row, or has
\* found that there is none any more.
Settled(e) ==
  LET r == editor[e]
      whole == ~r.stale /\ (r.op \in Created \cup {"delete"} \/ Live(r.post))
  IN IF ~Writes(e) THEN spoilt
     ELSE IF whole THEN spoilt \ {r.post} ELSE spoilt \cup {r.post}

\* Mutant of Then: a deletion, too, reads the post again before its entry.
ThenLook(e) == "after"

Then(e) == IF editor[e].op = "delete" THEN "audit" ELSE "after"

\* blogPost.create, update and delete; the last two throw if the row is gone.
WriteRow(e) ==
  LET r == editor[e]
      p == r.post
      row == [status |-> IF r.op = "updated" THEN post[p].status ELSE Outcome(e),
              size |-> IF r.op = "delete" THEN 0 ELSE IF Writes(e) THEN r.size ELSE post[p].size]
  IN /\ r.at = "row"
     /\ spoilt' = Settled(e)
     /\ IF Live(p) \/ r.op \in Created
        THEN /\ post' = [post EXCEPT ![p] = row]
             /\ Goes(e, Then(e))
        ELSE Ends(e) /\ UNCHANGED post
     /\ UNCHANGED <<object, audit, lost, mishaps>>

\* Mutant of Undo: the object of a post that was not created stays.
UndoNothing(e) ==
  /\ editor[e].at \in {"undo", "unheard"}
  /\ Ends(e)
  /\ UNCHANGED <<post, object, audit, lost, spoilt, mishaps>>

\* The catch of createAdminBlogPost deletes the object and ignores a refusal.
\* Where the row was written all the same, the post may have been edited since.
Undo(e) ==
  LET p == editor[e].post IN
  /\ editor[e].at \in {"undo", "unheard"}
  /\ object' = [object EXCEPT ![p] = 0]
  /\ editor' = [f \in Editors |->
       IF f = e THEN NoRequest
       ELSE IF Between(f, p) THEN [editor[f] EXCEPT !.stale = TRUE] ELSE editor[f]]
  /\ spoilt' = IF Live(p) THEN spoilt \cup {p} ELSE spoilt
  /\ UNCHANGED <<post, audit, lost, mishaps>>

\* The second snapshot throws if the post is gone.
After(e) ==
  /\ editor[e].at = "after"
  /\ IF Live(editor[e].post) THEN Goes(e, "audit") ELSE Ends(e)
  /\ UNCHANGED <<post, object, audit, lost, spoilt, mishaps>>

WriteAudit(e) ==
  /\ editor[e].at = "audit"
  /\ audit' = IF editor[e].op = "updated" THEN audit
              ELSE audit \cup {<<editor[e].post, Outcome(e)>>}
  /\ Ends(e)
  /\ UNCHANGED <<post, object, lost, spoilt, mishaps>>

\* The row of a new post is written, but the answer is lost.
Unheard(e) ==
  /\ editor[e].at = "after" /\ editor[e].op \in Created /\ mishaps < Mishaps
  /\ mishaps' = mishaps + 1
  /\ Goes(e, "unheard")
  /\ lost' = lost \cup {<<editor[e].post, Outcome(e)>>}
  /\ UNCHANGED <<post, object, audit, spoilt>>

\* S3 or the database refuses a step, or (dies) the server is killed: all but
\* a create whose row is refused leave things as they are.  Where the answer to
\* another step is lost that was performed, the request has got to the next one.
Mishap(e, dies) ==
  /\ editor[e].at /= "idle" /\ mishaps < Mishaps
  /\ mishaps' = mishaps + 1
  /\ IF editor[e].at = "row" /\ editor[e].op \in Created /\ ~dies
     THEN Goes(e, "undo") /\ UNCHANGED <<lost, spoilt>>
     ELSE /\ Ends(e)
          /\ spoilt' = IF Between(e, editor[e].post) THEN spoilt \cup {editor[e].post} ELSE spoilt
          /\ lost' = IF editor[e].at \in {"after", "audit"} /\ editor[e].op /= "updated"
                     THEN lost \cup {<<editor[e].post, Outcome(e)>>} ELSE lost
  /\ UNCHANGED <<post, object, audit>>

NextBlog == \E e \in Editors :
  \/ \E p \in Posts : \/ \E op \in Created : NewPost(e, p, op)
                      \/ \E op \in Edits : Edit(e, p, op)
  \/ Read(e) \/ Store(e) \/ WriteRow(e) \/ Undo(e) \/ After(e) \/ WriteAudit(e) \/ Unheard(e)
  \/ \E dies \in BOOLEAN : Mishap(e, dies)

BlogSpec == InitBlog /\ [][NextBlog]_blogVars

-----------------------------------------------------------------------------
(* Unless a request stopped between S3 and the database, committed its row *)
(* after another had replaced its object, or took its post for refused and *)
(* deleted the object, a post at rest has exactly one object, of the size  *)
(* its row says, and a post without a row has none; and the next request   *)
(* that runs through undisturbed makes it so again (blog.service.ts,       *)
(* createAdminBlogPost .. deleteAdminBlogPost).                            *)
PostsWhole == \A p \in Posts \ spoilt :
  (\A e \in Editors : ~Between(e, p)) => object[p] = post[p].size

(* Whatever state a post is in, the audit log says who brought it there,   *)
(* or will, unless the request that did ended at that very point: a post   *)
(* that is deleted under another request hides no entry that matters.      *)
PostsAudited == \A p \in Posts :
  post[p].status = "none" \/
  <<p, post[p].status>> \in audit \cup lost
     \cup {<<editor[e].post, Outcome(e)>> : e \in {f \in Editors : editor[f].at \in {"after", "audit"}}}
=============================================================================
