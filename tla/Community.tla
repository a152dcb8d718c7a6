-------------------------------- MODULE Community --------------------------------
(***************************************************************************)
(* ReviewService and FavoriteService (internal/service/review_service.go,  *)
(* favorite_service.go) with their repositories and handlers: what signed  *)
(* in users add to destinations while other requests publish and archive   *)
(* these and delete accounts.  A review is a row, then objects in the      *)
(* bucket, then rows for the images, one statement or upload at a time; a  *)
(* failure on the way is compensated by a soft delete whose own error is   *)
(* dropped.                                                                *)
(*                                                                         *)
(* A statement commits and its handler answers in two steps: a failure in  *)
(* between loses the answer to a change that was made.  A request refused  *)
(* by a check changes nothing and is not a step.                           *)
(***************************************************************************)
EXTENDS Integers, Sequences, FiniteSets

CONSTANTS
  Users,       \* ids of user_account rows
  Moderators,  \* users with the admin role
  Dests,       \* ids of travel_destination rows
  ReviewIds,   \* ids of review rows
  Handlers,    \* requests in flight at the same time
  Workloads,   \* the kinds of request served together
  MayFail,     \* whether a statement or an upload may fail, or a handler die
  MaxImages,   \* bound on the images of a review
  Null         \* SQL NULL, a row that does not exist

Kinds == {"review", "moderate", "favourite", "leave"}

Images == 1 .. MaxImages

\* A row of review; wanted is the number of images its author sent along,
\* which no column holds.  deleted_by Null is deleted_at IS NULL.
ReviewRow ==
  [user: Users, destination: Dests, deleted_by: Users \cup {Null}, wanted: 0 .. MaxImages]

ASSUME CommunityAssumption ==
  /\ Moderators \subseteq Users
  /\ Workloads \subseteq SUBSET Kinds
  /\ IsFiniteSet(Handlers)
  /\ MayFail \in BOOLEAN
  /\ MaxImages \in Nat
  /\ Null \notin Users \cup Dests \cup ReviewIds \cup ReviewRow

\* An image of a review: the object in the bucket, and its review_media row.
Media == [review: ReviewIds, image: Images]

VARIABLES
  users,      \* user_account
  live,       \* destinations FindPublishedByID serves
  reviews,    \* review
  media,      \* review_media
  bucket,     \* objects stored for reviews
  favourites, \* favorite_list
  serving,    \* the workload of this behaviour
  used,       \* history: ids review gave out
  answered,   \* history: reviews whose creation was answered with success
  abandoned,  \* history: reviews whose creation died, or was not compensated
  deletions,  \* history: who was answered that he deleted a review
  balance,    \* history: saves minus removals answered with success
  unheard,    \* history: reviews and favourites a lost answer was about
  pc,         \* what each handler does next
  req         \* what it holds

tables  == <<users, live, reviews, media, bucket, favourites>>
history == <<serving, used, answered, abandoned, deletions, balance, unheard>>
vars    == <<users, live, reviews, media, bucket, favourites, serving, used,
             answered, abandoned, deletions, balance, unheard, pc, req>>

Steps == {"idle", "insert", "upload", "media", "compensate", "answer",
          "delete", "deleted", "save", "saved", "removed"}

Favourite == [user: Users, destination: Dests]

Request ==
  [user: Users, destination: Dests \cup {Null}, review: ReviewIds \cup {Null},
   wanted: 0 .. MaxImages, done: 0 .. MaxImages]

TypeOK ==
  /\ users \subseteq Users
  /\ live \subseteq Dests
  /\ reviews \in [ReviewIds -> ReviewRow \cup {Null}]
  /\ media \subseteq Media
  /\ bucket \subseteq Media
  /\ favourites \subseteq Favourite
  /\ serving \in Workloads
  /\ used \subseteq ReviewIds
  /\ answered \subseteq ReviewIds
  /\ abandoned \subseteq ReviewIds
  /\ deletions \in [ReviewIds -> Seq(Users)]
  /\ balance \in [Favourite -> Int]
  /\ unheard \subseteq ReviewIds \cup Favourite
  /\ pc \in [Handlers -> Steps]
  /\ req \in [Handlers -> Request \cup {Null}]
  /\ \A h \in Handlers :
       /\ pc[h] # "idle" => req[h] \in Request
       /\ pc[h] \in {"insert", "save", "saved", "removed"} => req[h].destination \in Dests
       /\ pc[h] \in {"upload", "media", "compensate", "answer", "delete", "deleted"} =>
            req[h].review \in used
       /\ pc[h] \in {"upload", "media"} => req[h].done < req[h].wanted

Init ==
  /\ users = Users
  /\ live = Dests
  /\ reviews = [r \in ReviewIds |-> Null]
  /\ media = {}
  /\ bucket = {}
  /\ favourites = {}
  /\ serving \in Workloads
  /\ used = {}
  /\ answered = {}
  /\ abandoned = {}
  /\ deletions = [r \in ReviewIds |-> <<>>]
  /\ balance = [f \in Favourite |-> 0]
  /\ unheard = {}
  /\ pc = [h \in Handlers |-> "idle"]
  /\ req = [h \in Handlers |-> Null]

-----------------------------------------------------------------------------
(* Helpers                                                                  *)

Exists(r) == reviews[r] # Null
Active(r) == Exists(r) /\ reviews[r].deleted_by = Null

\* The rows ListByDestination and AggregateByDestination select.
Listed(d) == {r \in ReviewIds : Active(r) /\ reviews[r].destination = d}

\* Handler h goes on to step s holding r.
Continue(h, s, r) ==
  /\ pc' = [pc EXCEPT ![h] = s]
  /\ req' = [req EXCEPT ![h] = r]

Done(h) == Continue(h, "idle", Null)

\* The handler's statement failed, or found nothing: it answers with an error.
Refused(h) ==
  /\ Done(h)
  /\ UNCHANGED <<tables, history>>

\* Handler h begins a request of a signed-in user u.
Starting(h, u, kind) ==
  /\ pc[h] = "idle"
  /\ kind \in serving
  /\ u \in users

-----------------------------------------------------------------------------
(* Reviews                                                                  *)

\* CreateReview up to the INSERT: the destination is served right now.
CreateReview(h, u, d, n) ==
  /\ Starting(h, u, "review")
  /\ d \in live
  /\ Continue(h, "insert",
       [user |-> u, destination |-> d, review |-> Null, wanted |-> n, done |-> 0])
  /\ UNCHANGED <<tables, history>>

\* review_user_destination_active_idx: one review that is not deleted.
Insertable(u, d) ==
  /\ u \in users
  /\ \A r \in Listed(d) : reviews[r].user # u

(* Variant of AfterInsert for mutation checks: a review without images goes *)
(* to the upload loop as well.                                              *)
AfterInsertLooping(n) == "upload"

\* CreateReview, len(input.Images) > 0.
AfterInsert(n) == IF n = 0 THEN "answer" ELSE "upload"

(* ReviewRepository.Create.  When the INSERT commits and its result is lost *)
(* the author is answered with an error and nothing is compensated.         *)
InsertReview(h) ==
  LET q == req[h]
  IN /\ pc[h] = "insert"
     /\ IF Insertable(q.user, q.destination)
        THEN \E r \in ReviewIds \ used :
               /\ reviews' = [reviews EXCEPT ![r] =
                    [user |-> q.user, destination |-> q.destination,
                     deleted_by |-> Null, wanted |-> q.wanted]]
               /\ used' = used \cup {r}
               /\ \/ /\ Continue(h, AfterInsert(q.wanted), [q EXCEPT !.review = r])
                     /\ UNCHANGED abandoned
                  \/ /\ MayFail
                     /\ Done(h)
                     /\ abandoned' = abandoned \cup {r}
               /\ UNCHANGED <<users, live, media, bucket, favourites, serving,
                              answered, deletions, balance, unheard>>
        ELSE Refused(h)

(* Variant of UploadImage for mutation checks: a failing upload is skipped. *)
UploadImageSkipping(h) ==
  LET q == req[h]
      i == q.done + 1
  IN /\ pc[h] = "upload"
     /\ bucket' \in {bucket, bucket \cup {[review |-> q.review, image |-> i]}}
     /\ IF i < q.wanted THEN Continue(h, "upload", [q EXCEPT !.done = i])
                        ELSE Continue(h, "media", [q EXCEPT !.done = 0])
     /\ UNCHANGED <<users, live, reviews, media, favourites, history>>

(* uploadMedia, one image at a time: the first that fails, whether or not   *)
(* its object was stored, ends the loop and the creation is compensated.    *)
UploadImage(h) ==
  LET q == req[h]
      i == q.done + 1
      object == [review |-> q.review, image |-> i]
  IN /\ pc[h] = "upload"
     /\ \/ /\ bucket' = bucket \cup {object}
           /\ IF i < q.wanted THEN Continue(h, "upload", [q EXCEPT !.done = i])
                              ELSE Continue(h, "media", [q EXCEPT !.done = 0])
        \/ /\ MayFail
           /\ bucket' \in {bucket, bucket \cup {object}}
           /\ Continue(h, "compensate", q)
     /\ UNCHANGED <<users, live, reviews, media, favourites, history>>

(* Variant of InsertMedia for mutation checks: an INSERT that fails ends    *)
(* the loop but is not reported.                                            *)
InsertMediaUnreported(h) ==
  LET q == req[h]
      i == q.done + 1
  IN /\ pc[h] = "media"
     /\ \/ /\ Exists(q.review)
           /\ media' = media \cup {[review |-> q.review, image |-> i]}
           /\ IF i < q.wanted THEN Continue(h, "media", [q EXCEPT !.done = i])
                              ELSE Continue(h, "answer", q)
        \/ (MayFail \/ ~ Exists(q.review)) /\ Continue(h, "answer", q) /\ UNCHANGED media
     /\ UNCHANGED <<users, live, reviews, bucket, favourites, history>>

(* ReviewMediaRepository.CreateMany, one INSERT at a time, each of which    *)
(* commits on its own and refers to the review; one that fails may have     *)
(* committed.                                                               *)
InsertMedia(h) ==
  LET q == req[h]
      i == q.done + 1
      row == [review |-> q.review, image |-> i]
  IN /\ pc[h] = "media"
     /\ \/ /\ Exists(q.review)
           /\ media' = media \cup {row}
           /\ IF i < q.wanted THEN Continue(h, "media", [q EXCEPT !.done = i])
                              ELSE Continue(h, "answer", q)
        \/ /\ MayFail \/ ~ Exists(q.review)
           /\ UNCHANGED media \/ (Exists(q.review) /\ media' = media \cup {row})
           /\ Continue(h, "compensate", q)
     /\ UNCHANGED <<users, live, reviews, bucket, favourites, history>>

(* Variant of SoftDeleted for mutation checks: the UPDATE names the author  *)
(* and the destination instead of the review.                               *)
SoftDeletedByAuthor(r, by) ==
  [x \in ReviewIds |->
     IF Active(x) /\ Exists(r) /\ reviews[x].user = reviews[r].user
        /\ reviews[x].destination = reviews[r].destination /\ by \in users
     THEN [reviews[x] EXCEPT !.deleted_by = by] ELSE reviews[x]]

(* Variant of Deletes for mutation checks: the UPDATE does not look at      *)
(* deleted_at.                                                              *)
DeletesAgain(r, by) == Exists(r) /\ by \in users

\* The UPDATE of SoftDelete matches a row; deleted_by refers to user_account.
Deletes(r, by) == Active(r) /\ by \in users

\* ReviewRepository.SoftDelete.
SoftDeleted(r, by) ==
  [reviews EXCEPT ![r] = IF Deletes(r, by) THEN [@ EXCEPT !.deleted_by = by] ELSE @]

\* The compensation of a failed creation; its error is dropped.
Compensate(h) ==
  LET q == req[h]
  IN /\ pc[h] = "compensate"
     /\ reviews' = SoftDeleted(q.review, q.user)
     /\ Done(h)
     /\ UNCHANGED <<users, live, media, bucket, favourites, history>>

\* GetByID, ListByReviewIDs and AggregateByDestination, then the answer.
AnswerCreated(h) ==
  LET r == req[h].review
  IN /\ pc[h] = "answer"
     /\ IF Exists(r)
        THEN /\ answered' = answered \cup {r}
             /\ Done(h)
             /\ UNCHANGED <<tables, serving, used, abandoned, deletions, balance, unheard>>
        ELSE Refused(h)

\* DeleteReview up to the UPDATE, for its author or a moderator.
DeleteReview(h, u, r) ==
  /\ Starting(h, u, "moderate")
  /\ Active(r)
  /\ u = reviews[r].user \/ u \in Moderators
  /\ Continue(h, "delete",
       [user |-> u, destination |-> Null, review |-> r, wanted |-> 0, done |-> 0])
  /\ UNCHANGED <<tables, history>>

\* The UPDATE of DeleteReview; no row matched is an error to the caller.
MarkDeleted(h) ==
  LET r == req[h].review
      u == req[h].user
  IN /\ pc[h] = "delete"
     /\ IF Deletes(r, u)
        THEN /\ reviews' = SoftDeleted(r, u)
             /\ Continue(h, "deleted", req[h])
             /\ UNCHANGED <<users, live, media, bucket, favourites, history>>
        ELSE Refused(h)

\* The answer to a deletion that took effect.
AnswerDeleted(h) ==
  /\ pc[h] = "deleted"
  /\ deletions' = [deletions EXCEPT ![req[h].review] = Append(@, req[h].user)]
  /\ Done(h)
  /\ UNCHANGED <<tables, serving, used, answered, abandoned, balance, unheard>>

-----------------------------------------------------------------------------
(* Favourites                                                               *)

\* The favourite the request of handler h is about.
Saving(h) == [user |-> req[h].user, destination |-> req[h].destination]

\* Save up to the INSERT.
SaveFavourite(h, u, d) ==
  /\ Starting(h, u, "favourite")
  /\ d \in live
  /\ Continue(h, "save",
       [user |-> u, destination |-> d, review |-> Null, wanted |-> 0, done |-> 0])
  /\ UNCHANGED <<tables, history>>

(* Variant of Addable for mutation checks: the conflict is resolved by an   *)
(* update, which returns the row.                                           *)
AddableUpserting(f) == f.user \in users

\* ON CONFLICT DO NOTHING returns no row; user_account_id refers to the account.
Addable(f) == f \notin favourites /\ f.user \in users

\* FavoriteRepository.Add: the INSERT, which without a row is an error.
AddFavourite(h) ==
  /\ pc[h] = "save"
  /\ IF Addable(Saving(h))
     THEN /\ favourites' = favourites \cup {Saving(h)}
          /\ Continue(h, "saved", req[h])
          /\ UNCHANGED <<users, live, reviews, media, bucket, history>>
     ELSE Refused(h)

\* Remove: one DELETE, whatever became of the destination.
RemoveFavourite(h, u, d) ==
  LET f == [user |-> u, destination |-> d]
  IN /\ Starting(h, u, "favourite")
     /\ f \in favourites
     /\ favourites' = favourites \ {f}
     /\ Continue(h, "removed",
          [user |-> u, destination |-> d, review |-> Null, wanted |-> 0, done |-> 0])
     /\ UNCHANGED <<users, live, reviews, media, bucket, history>>

\* Handler h answers with success; nothing is counted after a lost answer.
Answer(h, k) ==
  /\ balance' = IF Saving(h) \in unheard THEN balance
                ELSE [balance EXCEPT ![Saving(h)] = @ + k]
  /\ Done(h)
  /\ UNCHANGED <<tables, serving, used, answered, abandoned, deletions, unheard>>

AnswerSaved(h)   == pc[h] = "saved" /\ Answer(h, 1)
AnswerRemoved(h) == pc[h] = "removed" /\ Answer(h, -1)

-----------------------------------------------------------------------------
(* What other requests do meanwhile                                         *)

(* UserRepository.Delete: the reviews of the user go, and with them their   *)
(* media rows; a review of another user he deleted refers to him and makes  *)
(* the transaction fail.                                                    *)
DeleteUser(u) ==
  LET own == {r \in ReviewIds : Exists(r) /\ reviews[r].user = u}
  IN /\ "leave" \in serving
     /\ u \in users
     /\ \A r \in ReviewIds \ own : Exists(r) => reviews[r].deleted_by # u
     /\ users' = users \ {u}
     /\ reviews' = [r \in ReviewIds |-> IF r \in own THEN Null ELSE reviews[r]]
     /\ media' = {m \in media : m.review \notin own}
     /\ favourites' = {f \in favourites : f.user # u}
     /\ UNCHANGED <<live, bucket, history, pc, req>>

\* The destination workflow publishes or withdraws a destination.
SetServed(d) ==
  /\ live' \in {live \cup {d}, live \ {d}}
  /\ live' # live
  /\ UNCHANGED <<users, reviews, media, bucket, favourites, history, pc, req>>

(* The process dies, or the context of the request is cancelled and every   *)
(* further statement fails with it, the compensation included; a statement  *)
(* that committed before stays, and its answer is lost.                     *)
Fail(h) ==
  /\ MayFail
  /\ pc[h] # "idle"
  /\ abandoned' = IF pc[h] \in {"upload", "media", "compensate"}
                  THEN abandoned \cup {req[h].review} ELSE abandoned
  /\ unheard' = unheard \cup (IF pc[h] = "deleted" THEN {req[h].review}
                              ELSE IF pc[h] \in {"saved", "removed"} THEN {Saving(h)}
                              ELSE {})
  /\ Done(h)
  /\ UNCHANGED <<tables, serving, used, answered, deletions, balance>>

-----------------------------------------------------------------------------
(* The specification                                                        *)

ReviewStep(h) ==
  \/ \E u \in Users, d \in Dests, n \in 0 .. MaxImages : CreateReview(h, u, d, n)
  \/ InsertReview(h)
  \/ UploadImage(h)
  \/ InsertMedia(h)
  \/ Compensate(h)
  \/ AnswerCreated(h)

ModerationStep(h) ==
  \/ \E u \in Users, r \in ReviewIds : DeleteReview(h, u, r)
  \/ MarkDeleted(h)
  \/ AnswerDeleted(h)

FavouriteStep(h) ==
  \/ \E u \in Users, d \in Dests : SaveFavourite(h, u, d)
  \/ AddFavourite(h)
  \/ \E u \in Users, d \in Dests : RemoveFavourite(h, u, d)
  \/ AnswerSaved(h)
  \/ AnswerRemoved(h)

Next ==
  \/ \E h \in Handlers : ReviewStep(h) \/ ModerationStep(h) \/ FavouriteStep(h) \/ Fail(h)
  \/ \E u \in Users : DeleteUser(u)
  \/ \E d \in Dests : SetServed(d)

Spec == Init /\ [][Next]_vars

-----------------------------------------------------------------------------
(* What holds however requests interleave and wherever they fail            *)

\* Whether a creation of review r is still running.
InCreation(r) ==
  \E h \in Handlers : pc[h] \in {"upload", "media", "compensate"} /\ req[h].review = r

(* A review that others can see has all the images its author sent, once    *)
(* its creation is over: CreateReview withdraws what it could not complete. *)
(* Excepted are the creations whose compensation could not run.             *)
VisibleIsComplete ==
  \A r \in ReviewIds : Active(r) /\ ~ InCreation(r) /\ r \notin abandoned =>
    \A i \in 1 .. reviews[r].wanted : [review |-> r, image |-> i] \in media

(* What Reviews-and-Ratings-Design.md (section 10, section 13.1) says: the   *)
(* service starts a transaction and on failure rolls back, so that a review *)
(* is visible with all its images or not at all, however its creation ends. *)
(* The code has no transaction, and the compensation that stands in for it  *)
(* may not run; the property is violated.                                   *)
CreationIsAllOrNothing ==
  \A r \in ReviewIds : Active(r) /\ ~ InCreation(r) =>
    \A i \in 1 .. reviews[r].wanted : [review |-> r, image |-> i] \in media

(* Of all the deletions of a review that overlap, by its author, by         *)
(* moderators, or by the compensation of its creation, at most one is       *)
(* answered with success, and whoever was answered is the one the row       *)
(* remembers in deleted_by: nothing overwrites it afterwards.               *)
OneDeletionWins ==
  \A r \in ReviewIds :
    /\ Len(deletions[r]) <= 1
    /\ \A i \in DOMAIN deletions[r] : Exists(r) => reviews[r].deleted_by = deletions[r][i]

\* Whether somebody's deletion of r took effect: it was answered with success,
\* will be, or its answer was lost.
Withdrawn(r) ==
  \/ deletions[r] # <<>>
  \/ r \in unheard
  \/ \E h \in Handlers : pc[h] = "deleted" /\ req[h].review = r

(* A review whose creation was answered with success disappears only by a   *)
(* deletion that somebody asked for, or with its author's account: no       *)
(* compensation of another creation takes it.                               *)
AnsweredIsKept ==
  \A r \in answered : Exists(r) /\ ~ Active(r) => Withdrawn(r)

(* Every image row has its object in the bucket and its review in the       *)
(* table: all uploads come before the first row, and what removes a review  *)
(* removes its rows.                                                        *)
MediaAreStored ==
  \A m \in media : m \in bucket /\ Exists(m.review)

\* The requests about favourite f that took effect and are at step s.
Answering(s, f) == {h \in Handlers : pc[h] = s /\ Saving(h) = f}

(* Every save and every removal of a favourite that took effect is answered *)
(* with success, once, and no other is: however they overlap, the saves and *)
(* removals answered so far, with those whose answer is under way, differ   *)
(* by one while the favourite is there and by none while it is not.         *)
(* Excepted are the favourites an answer was lost about, for whose owner a  *)
(* second save is refused and a removal succeeds without a save he heard    *)
(* of, and those that went with an account.                                 *)
SavesAlternate ==
  \A f \in Favourite : f.user \in users /\ f \notin unheard =>
    balance[f] + Cardinality(Answering("saved", f)) - Cardinality(Answering("removed", f))
      = IF f \in favourites THEN 1 ELSE 0
=============================================================================
