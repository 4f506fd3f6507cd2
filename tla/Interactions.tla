----------------------------- MODULE Interactions -----------------------------
(*************************************************************************)
(* Comments, replies and bullet comments under a drama, their reports    *)
(* and their moderation, likes, and feedback: InteractionService.  One   *)
(* drama of one merchant.                                                *)
(*                                                                       *)
(* Every handler is one transaction that locks the row it decides on.    *)
(* The two tables of comments have the same columns and the same         *)
(* triggers, and are one function here.  A repeated key answers with the *)
(* stored response and takes no step.                                    *)
(*************************************************************************)
EXTENDS Integers, Sequences, FiniteSets

CONSTANTS
  Authors,        (* Customers.                                          *)
  Posts,          (* Rows of interaction_comments and _bullet_comments.  *)
  MaxDecisions,   (* Bound on the staff's decisions about one row.       *)
  NoPost

VARIABLES
  welcome,     (* The customers whose site and account are open.              *)
  watchable,   (* Whether the drama is published to the merchant's customers. *)
  sensitive,   (* interaction_sensitive_words.status of the merchant's word.  *)
  post,        (* The rows of both tables.                                    *)
  restoreOver, (* The deleted rows whose restore_until has passed.            *)
  decisions,   (* interaction_moderation_actions of a row, oldest first.      *)
  reported,    (* interaction_reports.status, of a customer and a row.        *)
  likes,       (* customer_drama_likes                                        *)
  feedback,    (* customer_feedback: none, waiting for a reply, or replied.   *)
  replies      (* customer_inbox_messages that reply to feedback.             *)

postVars == <<post, restoreOver, decisions>>
communityVars == <<welcome, watchable, sensitive, postVars, reported, likes, feedback, replies>>

PostStatus   == {"visible", "pending", "hidden", "deleted"}
ReportStatus == {"none", "open", "resolved", "rejected"}
Decision     == [action: {"approve", "hide", "delete", "restore"},
                 before: PostStatus, after: PostStatus]
\* deletedBy is deleted_by_type, "nobody" for null; matched, whether
\* sensitive_match_ids has an element.
PostRow == [kind: {"comment", "bullet_comment"}, by: Authors, parent: Posts \cup {NoPost},
            matched: BOOLEAN, status: PostStatus, deletedBy: {"nobody", "user", "staff"},
            restored: {0, 1}]

ASSUME NoPostAssumption == NoPost \notin Posts /\ NoPost \notin PostRow

CommunityTypeOK ==
  /\ welcome \subseteq Authors
  /\ watchable \in BOOLEAN
  /\ sensitive \in {"none", "active", "disabled"}
  /\ post \in [Posts -> PostRow \cup {NoPost}]
  /\ restoreOver \subseteq Posts
  /\ decisions \in [Posts -> Seq(Decision)]
  /\ reported \in [Authors \X Posts -> ReportStatus]
  /\ likes \subseteq Authors
  /\ feedback \in [Authors -> {"none", "waiting", "replied"}]
  /\ replies \in [Authors -> Nat]

CommunityInit ==
  /\ welcome = Authors
  /\ watchable = TRUE
  /\ sensitive = "none"
  /\ post = [p \in Posts |-> NoPost]
  /\ restoreOver = {}
  /\ decisions = [p \in Posts |-> <<>>]
  /\ reported = [x \in Authors \X Posts |-> "none"]
  /\ likes = {}
  /\ feedback = [a \in Authors |-> "none"]
  /\ replies = [a \in Authors |-> 0]

-----------------------------------------------------------------------------
(* What other services change.                                           *)

\* requireCustomerSite: the merchant, its site, and the account are active.
SiteOrAccountChanges(a) ==
  /\ welcome' = IF a \in welcome THEN welcome \ {a} ELSE welcome \cup {a}
  /\ UNCHANGED <<watchable, sensitive, postVars, reported, likes, feedback, replies>>

\* requirePublishedContent, and the trigger on the rows.
PublicationChanges ==
  /\ watchable' = ~watchable
  /\ UNCHANGED <<welcome, sensitive, postVars, reported, likes, feedback, replies>>

Customer(a) == a \in welcome /\ watchable

-----------------------------------------------------------------------------
(* The merchant's list of words.                                         *)

\* A word that was disabled is active again, under its old row.
CreateSensitiveWord ==
  /\ sensitive # "active"
  /\ sensitive' = "active"
  /\ UNCHANGED <<welcome, watchable, postVars, reported, likes, feedback, replies>>

DisableSensitiveWord ==
  /\ sensitive = "active"
  /\ sensitive' = "disabled"
  /\ UNCHANGED <<welcome, watchable, postVars, reported, likes, feedback, replies>>

-----------------------------------------------------------------------------
(* Customers write, delete and report.                                   *)

\* matchSensitiveWords: the words that are active when the row is written.
MatchSensitiveWords(foul) == foul /\ sensitive = "active"

Inserted(a, kind, parent, foul) ==
  [kind |-> kind, by |-> a, parent |-> parent, matched |-> MatchSensitiveWords(foul),
   status |-> IF MatchSensitiveWords(foul) THEN "pending" ELSE "visible",
   deletedBy |-> "nobody", restored |-> 0]

\* A reply's parent is visible, and not a reply.
CreateComment(a, p, parent, foul) ==
  /\ Customer(a)
  /\ post[p] = NoPost
  /\ parent # NoPost =>
       /\ post[parent] # NoPost
       /\ post[parent].kind = "comment"
       /\ post[parent].parent = NoPost
       /\ post[parent].status = "visible"
  /\ post' = [post EXCEPT ![p] = Inserted(a, "comment", parent, foul)]
  /\ UNCHANGED <<welcome, watchable, sensitive, restoreOver, decisions, reported, likes,
                 feedback, replies>>

CreateBulletComment(a, p, foul) ==
  /\ Customer(a)
  /\ post[p] = NoPost
  /\ post' = [post EXCEPT ![p] = Inserted(a, "bullet_comment", NoPost, foul)]
  /\ UNCHANGED <<welcome, watchable, sensitive, restoreOver, decisions, reported, likes,
                 feedback, replies>>

\* The row cannot be restored a second time; its window starts anew.
Deleted(p, by) ==
  /\ post' = [post EXCEPT ![p] = [@ EXCEPT !.status = "deleted", !.deletedBy = by]]
  /\ restoreOver' = restoreOver \ {p}

\* The author's deletion is recorded in the row, not among the decisions.
DeleteOwnInteraction(a, p) ==
  /\ Customer(a)
  /\ post[p] # NoPost
  /\ post[p].by = a
  /\ post[p].status \in {"visible", "pending", "hidden"}
  /\ Deleted(p, "user")
  /\ UNCHANGED <<welcome, watchable, sensitive, decisions, reported, likes, feedback, replies>>

CreateReport(a, p) ==
  /\ Customer(a)
  /\ post[p] # NoPost
  /\ post[p].status = "visible"
  /\ reported[<<a, p>>] = "none"
  /\ reported' = [reported EXCEPT ![<<a, p>>] = "open"]
  /\ UNCHANGED <<welcome, watchable, sensitive, postVars, likes, feedback, replies>>

-----------------------------------------------------------------------------
(* The merchant's staff moderate.  They act on what a queue showed them; a   *)
(* decision that no longer fits the row is refused.                      *)

\* Mutant: an approval takes effect whatever the row's status has become.
ApprovesAnything(action, current) ==
  CASE action = "delete"  -> IF current = "deleted" THEN {} ELSE {"deleted"}
    [] action = "restore" -> IF current = "deleted" THEN {"hidden"} ELSE {}
    [] action = "approve" -> {"visible"} \ {current}
    [] action = "hide"    -> IF current \in {"deleted", "hidden"} THEN {} ELSE {"hidden"}

\* moderationTransition: the status after the decision, none if it is refused.
ModerationTransition(action, current) ==
  CASE action = "delete"  -> IF current = "deleted" THEN {} ELSE {"deleted"}
    [] action = "restore" -> IF current = "deleted" THEN {"hidden"} ELSE {}
    [] action = "approve" -> IF current \in {"deleted", "visible"} THEN {} ELSE {"visible"}
    [] action = "hide"    -> IF current \in {"deleted", "hidden"} THEN {} ELSE {"hidden"}

\* enforce_interaction_restore_window
Restored(p) ==
  /\ post[p].restored = 0
  /\ p \notin restoreOver
  /\ post' = [post EXCEPT ![p] =
       [@ EXCEPT !.status = "hidden", !.deletedBy = "nobody", !.restored = 1]]
  /\ UNCHANGED restoreOver

Moderate(p, action) ==
  /\ post[p] # NoPost
  /\ Len(decisions[p]) < MaxDecisions
  /\ \E after \in ModerationTransition(action, post[p].status) :
       /\ CASE action = "delete"  -> Deleted(p, "staff")
            [] action = "restore" -> Restored(p)
            [] OTHER -> post' = [post EXCEPT ![p] = [@ EXCEPT !.status = after]] /\ UNCHANGED restoreOver
       /\ decisions' = [decisions EXCEPT ![p] =
            Append(@, [action |-> action, before |-> post[p].status, after |-> after])]
  /\ UNCHANGED <<welcome, watchable, sensitive, reported, likes, feedback, replies>>

RestoreWindowCloses(p) ==
  /\ post[p] # NoPost
  /\ post[p].status = "deleted"
  /\ p \notin restoreOver
  /\ restoreOver' = restoreOver \cup {p}
  /\ UNCHANGED <<welcome, watchable, sensitive, post, decisions, reported, likes, feedback,
                 replies>>

\* A report's review changes the report alone; what it is about is moderated by
\* a decision of its own.
ReviewReport(a, p, result) ==
  /\ reported[<<a, p>>] = "open"
  /\ reported' = [reported EXCEPT ![<<a, p>>] = result]
  /\ UNCHANGED <<welcome, watchable, sensitive, postVars, likes, feedback, replies>>

-----------------------------------------------------------------------------
(* Likes and feedback.                                                   *)

SetDramaLike(a, liked) ==
  /\ Customer(a)
  /\ likes' = IF liked THEN likes \cup {a} ELSE likes \ {a}
  /\ UNCHANGED <<welcome, watchable, sensitive, postVars, reported, feedback, replies>>

SendFeedback(a) ==
  /\ a \in welcome
  /\ feedback[a] = "none"
  /\ feedback' = [feedback EXCEPT ![a] = "waiting"]
  /\ UNCHANGED <<welcome, watchable, sensitive, postVars, reported, likes, replies>>

\* The same reply again is answered without a step; another one is refused.
ReplyFeedback(a) ==
  /\ feedback[a] = "waiting"
  /\ feedback' = [feedback EXCEPT ![a] = "replied"]
  /\ replies' = [replies EXCEPT ![a] = @ + 1]
  /\ UNCHANGED <<welcome, watchable, sensitive, postVars, reported, likes>>

-----------------------------------------------------------------------------
CommunityNext ==
  \/ PublicationChanges \/ CreateSensitiveWord \/ DisableSensitiveWord
  \/ \E a \in Authors :
       \/ SiteOrAccountChanges(a) \/ SendFeedback(a) \/ ReplyFeedback(a)
       \/ \E liked \in BOOLEAN : SetDramaLike(a, liked)
  \/ \E a \in Authors, p \in Posts :
       \/ DeleteOwnInteraction(a, p)
       \/ CreateReport(a, p)
       \/ \E result \in {"resolved", "rejected"} : ReviewReport(a, p, result)
       \/ \E foul \in BOOLEAN, parent \in Posts \cup {NoPost} : CreateComment(a, p, parent, foul)
       \/ \E foul \in BOOLEAN : CreateBulletComment(a, p, foul)
  \/ \E p \in Posts :
       \/ RestoreWindowCloses(p)
       \/ \E action \in {"approve", "hide", "delete", "restore"} : Moderate(p, action)

CommunitySpec == CommunityInit /\ [][CommunityNext]_communityVars

-----------------------------------------------------------------------------
(* Properties.                                                           *)

FirstStatus(p) == IF post[p].matched THEN "pending" ELSE "visible"

\* The decisions recorded about a row explain its status to the last step,
\* whatever the author did in between: each one starts where the one before
\* ended, or at a deletion by the author, from which only a restoration leads
\* away.  So nothing that was withheld or deleted is visible again unless a
\* decision says so, and what was deleted comes back once.
DecisionsTellStatus ==
  \A p \in Posts : post[p] # NoPost =>
    LET d == decisions[p]
        Before(i) == IF i = 1 THEN FirstStatus(p) ELSE d[i - 1].after
        left == IF d = <<>> THEN FirstStatus(p) ELSE d[Len(d)].after
    IN /\ post[p].status = left \/ (post[p].status = "deleted" /\ post[p].deletedBy = "user")
       /\ \A i \in DOMAIN d :
            /\ d[i].before \in {Before(i), "deleted"}
            /\ d[i].before = "deleted" => d[i].action = "restore"
       /\ post[p].restored = Cardinality({i \in DOMAIN d : d[i].action = "restore"})
=============================================================================
