----------------------------- MODULE Community_proofs -----------------------------
(***************************************************************************)
(* Proofs about reviews and favourites, for any number of users,           *)
(* destinations, requests in flight and images.  CInv is the inductive     *)
(* invariant: beside the properties it says what the creation of a review  *)
(* may rely on while others delete reviews and accounts.                   *)
(***************************************************************************)
EXTENDS Community, FiniteSetTheorems, SequenceTheorems, TLAPS

Creating == {"upload", "media", "compensate", "answer"}

\* What the sequence of review ids has not given out is nowhere.
FreshOK ==
  \A r \in ReviewIds \ used :
    /\ reviews[r] = Null
    /\ deletions[r] = <<>>
    /\ r \notin answered
    /\ \A m \in media : m.review # r

\* review.user_id refers to user_account.
OwnersOK == \A r \in ReviewIds : Exists(r) => reviews[r].user \in users

\* The creation of a review is the only one of it and has not been answered;
\* its row is what it inserted, or was deleted at somebody's request.
CreationOK ==
  \A h \in Handlers, r \in ReviewIds : pc[h] \in Creating /\ req[h].review = r =>
    /\ r \notin answered
    /\ \A g \in Handlers \ {h} : pc[g] \in Creating => req[g].review # r
    /\ Exists(r) => reviews[r].user = req[h].user /\ reviews[r].wanted = req[h].wanted
    /\ Exists(r) /\ ~ Active(r) => Withdrawn(r)

\* Whose deletion took effect is the first, and the row says so.
DeletedOK ==
  \A h \in Handlers : pc[h] = "deleted" =>
    LET r == req[h].review
    IN /\ deletions[r] = <<>>
       /\ \A g \in Handlers \ {h} : pc[g] = "deleted" => req[g].review # r
       /\ Exists(r) => reviews[r].deleted_by = req[h].user

\* What a creation has uploaded and inserted is there.
UploadedOK ==
  \A h \in Handlers :
    /\ pc[h] = "insert" => req[h].done = 0
    /\ pc[h] = "upload" =>
         \A i \in 1 .. req[h].done : [review |-> req[h].review, image |-> i] \in bucket
    /\ pc[h] = "media" =>
         \A i \in 1 .. req[h].wanted : [review |-> req[h].review, image |-> i] \in bucket

InsertedOK ==
  \A h \in Handlers : pc[h] = "media" /\ Exists(req[h].review) =>
    \A i \in 1 .. req[h].done : [review |-> req[h].review, image |-> i] \in media

CInv ==
  /\ TypeOK
  /\ FreshOK
  /\ OwnersOK
  /\ CreationOK
  /\ DeletedOK
  /\ UploadedOK
  /\ InsertedOK
  /\ VisibleIsComplete
  /\ OneDeletionWins
  /\ AnsweredIsKept
  /\ MediaAreStored
  /\ SavesAlternate

-----------------------------------------------------------------------------
(* What a step of one handler leaves alone                                  *)

Telling == {"saved", "removed"}

\* A finite set with and without one element.
LEMMA CountOf ==
  ASSUME NEW S, IsFiniteSet(S), NEW x
  PROVE  /\ Cardinality(S) \in Nat /\ Cardinality(S \ {x}) \in Nat
         /\ x \in S => Cardinality(S) = Cardinality(S \ {x}) + 1
         /\ x \notin S => Cardinality(S) = Cardinality(S \ {x})
<1>1. IsFiniteSet(S \ {x})
  BY FS_RemoveElement
<1>2. Cardinality(S) \in Nat /\ Cardinality(S \ {x}) \in Nat
  BY <1>1, FS_CardinalityType
<1>3. x \in S => Cardinality(S \ {x}) = Cardinality(S) - 1
  BY FS_RemoveElement
<1>4. x \notin S => S \ {x} = S
  OBVIOUS
<1> QED  BY <1>2, <1>3, <1>4

\* A handler that goes on leaves one set of answers and joins another.
LEMMA AnsweringMoved ==
  ASSUME TypeOK, NEW h \in Handlers, NEW s, NEW q, Continue(h, s, q),
         NEW t, NEW f
  PROVE  LET old == Answering(t, f)
             new == Answering(t, f)'
         IN /\ Cardinality(old) \in Nat /\ Cardinality(new) \in Nat
            /\ Cardinality(new) =
                 Cardinality(old)
                 - (IF pc[h] = t /\ Saving(h) = f THEN 1 ELSE 0)
                 + (IF s = t /\ [user |-> q.user, destination |-> q.destination] = f
                    THEN 1 ELSE 0)
<1> DEFINE old == Answering(t, f)
           new == Answering(t, f)'
<1>1. /\ pc'[h] = s /\ req'[h] = q
      /\ \A g \in Handlers \ {h} : pc'[g] = pc[g] /\ req'[g] = req[g]
  BY DEF TypeOK, Continue
<1>2. old \subseteq Handlers /\ new \subseteq Handlers
  BY DEF Answering
<1>3. IsFiniteSet(old) /\ IsFiniteSet(new)
  BY <1>2, FS_Subset, CommunityAssumption
<1>4. old \ {h} = new \ {h}
  BY <1>1 DEF Answering, Saving
<1>5. h \in old <=> pc[h] = t /\ Saving(h) = f
  BY DEF Answering
<1>6. h \in new <=> s = t /\ [user |-> q.user, destination |-> q.destination] = f
  BY <1>1 DEF Answering, Saving
<1> HIDE DEF old, new
<1>7. /\ Cardinality(old) \in Nat /\ Cardinality(old \ {h}) \in Nat
      /\ h \in old => Cardinality(old) = Cardinality(old \ {h}) + 1
      /\ h \notin old => Cardinality(old) = Cardinality(old \ {h})
      /\ Cardinality(new) \in Nat
      /\ h \in new => Cardinality(new) = Cardinality(old \ {h}) + 1
      /\ h \notin new => Cardinality(new) = Cardinality(old \ {h})
  BY <1>3, <1>4, CountOf
<1>8. Cardinality(new) = Cardinality(old) - (IF h \in old THEN 1 ELSE 0)
                                          + (IF h \in new THEN 1 ELSE 0)
  BY <1>7
<1> QED  BY <1>5, <1>6, <1>7, <1>8 DEF old, new

\* A step that neither changes a favourite nor answers keeps the balance.
LEMMA BalanceKept ==
  ASSUME TypeOK, SavesAlternate, NEW h \in Handlers, NEW s, NEW q, Continue(h, s, q),
         pc[h] \notin Telling, s \notin Telling,
         UNCHANGED <<users, favourites, balance, unheard>>
  PROVE  SavesAlternate'
<1> SUFFICES ASSUME NEW f \in Favourite, f.user \in users, f \notin unheard
             PROVE  balance[f] + Cardinality(Answering("saved", f)')
                      - Cardinality(Answering("removed", f)')
                    = IF f \in favourites THEN 1 ELSE 0
  BY DEF SavesAlternate
<1>1. /\ Cardinality(Answering("saved", f)) \in Nat
      /\ Cardinality(Answering("saved", f)') = Cardinality(Answering("saved", f))
  BY AnsweringMoved DEF Telling
<1>2. /\ Cardinality(Answering("removed", f)) \in Nat
      /\ Cardinality(Answering("removed", f)') = Cardinality(Answering("removed", f))
  BY AnsweringMoved DEF Telling
<1> QED  BY <1>1, <1>2 DEF SavesAlternate

\* A step of a handler that has not deleted anything takes no deletion back.
LEMMA WithdrawnKept ==
  ASSUME TypeOK, NEW h \in Handlers, NEW s, NEW q, Continue(h, s, q),
         pc[h] # "deleted", deletions' = deletions, unheard \subseteq unheard',
         NEW r, Withdrawn(r)
  PROVE  Withdrawn(r)'
BY DEF TypeOK, Continue, Withdrawn

\* A review that is not deleted was not deleted by anybody.
LEMMA ActiveIsUntouched ==
  ASSUME CInv, NEW r \in ReviewIds, Active(r)
  PROVE  /\ deletions[r] = <<>>
         /\ \A g \in Handlers : pc[g] = "deleted" => req[g].review # r
<1>1. Exists(r) /\ reviews[r].deleted_by \notin Users
  BY CommunityAssumption DEF Active
<1>2. deletions[r] = <<>>
  <2>1. deletions[r] \in Seq(Users)
    BY DEF CInv, TypeOK
  <2>2. \A i \in DOMAIN deletions[r] : deletions[r][i] \in Users
    BY <2>1
  <2>3. DOMAIN deletions[r] = {}
    BY <1>1, <2>2 DEF CInv, OneDeletionWins
  <2>4. ASSUME deletions[r] # <<>> PROVE FALSE
    <3>1. Len(deletions[r]) \in Nat \ {0} /\ DOMAIN deletions[r] = 1 .. Len(deletions[r])
      BY <2>1, <2>4, EmptySeq, LenProperties
    <3>2. 1 \in DOMAIN deletions[r]
      BY <3>1
    <3> QED  BY <2>3, <3>2
  <2> QED  BY <2>4
<1>3. ASSUME NEW g \in Handlers, pc[g] = "deleted" PROVE req[g].review # r
  <2>1. req[g].user \in Users
    BY <1>3 DEF CInv, TypeOK, Request
  <2> QED  BY <1>1, <1>3, <2>1 DEF CInv, DeletedOK
<1> QED  BY <1>2, <1>3

\* A step of a handler that deletes nothing keeps what the others deleted.
LEMMA DeletedKept ==
  ASSUME CInv, NEW h \in Handlers,
         \A g \in Handlers \ {h} : pc'[g] = pc[g] /\ req'[g] = req[g],
         pc'[h] # "deleted",
         NEW r \in ReviewIds,
         \A g \in Handlers \ {h} : pc[g] = "deleted" => req[g].review # r,
         \A x \in ReviewIds \ {r} : reviews'[x] = reviews[x] /\ deletions'[x] = deletions[x]
  PROVE  DeletedOK'
<1> SUFFICES ASSUME NEW g \in Handlers \ {h}, pc[g] = "deleted"
             PROVE  LET x == req[g].review
                    IN /\ deletions'[x] = <<>>
                       /\ \A k \in Handlers \ {g} : pc'[k] = "deleted" => req'[k].review # x
                       /\ reviews'[x] # Null => reviews'[x].deleted_by = req[g].user
  BY DEF DeletedOK, Exists
<1> DEFINE x == req[g].review
<1>1. x \in ReviewIds \ {r}
  BY DEF CInv, TypeOK
<1>2. /\ deletions[x] = <<>>
      /\ \A k \in Handlers \ {g} : pc[k] = "deleted" => req[k].review # x
      /\ reviews[x] # Null => reviews[x].deleted_by = req[g].user
  BY DEF CInv, DeletedOK, Exists
<1>3. \A k \in Handlers \ {g} : pc'[k] = "deleted" => req'[k].review # x
  BY <1>2
<1> QED  BY <1>1, <1>2, <1>3

-----------------------------------------------------------------------------
(* Steps that write no table                                                *)

\* A request that begins, goes on to its only statement, or is refused, while
\* it has no review in creation and nothing to answer.
LEMMA QuietStep ==
  ASSUME CInv, UNCHANGED <<tables, history>>, NEW h \in Handlers,
         pc[h] \in {"idle", "insert", "delete", "save", "answer"},
         NEW s, NEW q, Continue(h, s, q),
         \/ s = "idle" /\ q = Null
         \/ /\ s \in {"insert", "delete", "save"}
            /\ q \in Request
            /\ s \in {"insert", "save"} => q.destination \in Dests
            /\ s = "insert" => q.done = 0
            /\ s = "delete" => q.review \in used
  PROVE  CInv'
<1> USE DEF CInv, tables, history
<1>1. TypeOK'
  BY DEF TypeOK, Steps, Continue
<1>2. FreshOK' /\ OwnersOK'
  BY DEF FreshOK, OwnersOK, Exists
<1>3. \A r : Withdrawn(r) => Withdrawn(r)'
  BY WithdrawnKept
<1>4. CreationOK'
  <2>1. \A g \in Handlers : pc'[g] \in Creating => pc[g] \in Creating /\ req'[g] = req[g]
    BY DEF TypeOK, Creating, Continue
  <2> QED  BY <1>3, <2>1 DEF CreationOK, Exists, Active
<1>5. DeletedOK'
  BY DEF TypeOK, DeletedOK, Exists, Continue
<1>6. UploadedOK' /\ InsertedOK'
  BY DEF TypeOK, UploadedOK, InsertedOK, Exists, Continue
<1>7. VisibleIsComplete'
  <2>1. \A r \in ReviewIds : InCreation(r) => InCreation(r)'
    BY DEF TypeOK, InCreation, Continue
  <2> QED  BY <2>1 DEF VisibleIsComplete, Active, Exists
<1>8. OneDeletionWins' /\ AnsweredIsKept' /\ MediaAreStored'
  BY <1>3 DEF OneDeletionWins, AnsweredIsKept, MediaAreStored, Active, Exists
<1>9. SavesAlternate'
  BY BalanceKept DEF Telling
<1> QED  BY <1>1, <1>2, <1>4, <1>5, <1>6, <1>7, <1>8, <1>9

\* A refusal is such a step.
LEMMA RefusedStep ==
  ASSUME CInv, NEW h \in Handlers, Refused(h),
         pc[h] \in {"idle", "insert", "delete", "save", "answer"}
  PROVE  CInv'
BY QuietStep DEF Refused, Done

-----------------------------------------------------------------------------
(* The steps of a creation                                                  *)

LEMMA CreateReviewStep ==
  ASSUME CInv, NEW h \in Handlers, NEW u \in Users, NEW d \in Dests,
         NEW n \in 0 .. MaxImages, CreateReview(h, u, d, n)
  PROVE  CInv'
<1> DEFINE q == [user |-> u, destination |-> d, review |-> Null, wanted |-> n, done |-> 0]
<1>1. q \in Request
  BY CommunityAssumption DEF Request
<1> QED
  BY <1>1, QuietStep DEF CreateReview, Starting

LEMMA InsertReviewStep ==
  ASSUME CInv, NEW h \in Handlers, InsertReview(h)
  PROVE  CInv'
<1>1. CASE Refused(h)
  BY <1>1, RefusedStep DEF InsertReview
<1>2. CASE ~ Refused(h)
  <2> DEFINE q == req[h]
  <2>1. PICK r \in ReviewIds \ used :
          /\ reviews' = [reviews EXCEPT ![r] =
               [user |-> q.user, destination |-> q.destination,
                deleted_by |-> Null, wanted |-> q.wanted]]
          /\ used' = used \cup {r}
          /\ \/ /\ Continue(h, AfterInsert(q.wanted), [q EXCEPT !.review = r])
                /\ UNCHANGED abandoned
             \/ /\ MayFail
                /\ Done(h)
                /\ abandoned' = abandoned \cup {r}
          /\ UNCHANGED <<users, live, media, bucket, favourites, serving,
                         answered, deletions, balance, unheard>>
    BY <1>2 DEF InsertReview
  <2>2. pc[h] = "insert" /\ Insertable(q.user, q.destination)
    BY <1>2 DEF InsertReview
  <2>3. q \in Request /\ q.destination \in Dests /\ q.user \in users
    BY <2>2 DEF CInv, TypeOK, Insertable
  <2> DEFINE row == [user |-> q.user, destination |-> q.destination,
                     deleted_by |-> Null, wanted |-> q.wanted]
             p == [q EXCEPT !.review = r]
  <2>4. row \in ReviewRow /\ row # Null
    BY <2>3, CommunityAssumption DEF Request, ReviewRow
  <2>5. /\ p \in Request
        /\ p.review = r /\ p.wanted = q.wanted /\ p.user = q.user /\ p.done = q.done
    BY <2>3 DEF Request
  <2>6. q.done = 0 /\ q.wanted \in 0 .. MaxImages
    BY <2>2, <2>3 DEF CInv, UploadedOK, Request
  <2>7. /\ reviews'[r] = row
        /\ \A x \in ReviewIds \ {r} : reviews'[x] = reviews[x]
        /\ \A g \in Handlers \ {h} : pc'[g] = pc[g] /\ req'[g] = req[g]
        /\ \/ /\ pc'[h] = IF q.wanted = 0 THEN "answer" ELSE "upload"
              /\ req'[h] = p
              /\ abandoned' = abandoned
           \/ /\ pc'[h] = "idle"
              /\ req'[h] = Null
              /\ abandoned' = abandoned \cup {r}
    BY <2>1 DEF CInv, TypeOK, Continue, Done, AfterInsert
  <2> HIDE DEF p, row
  <2>8. /\ reviews[r] = Null /\ deletions[r] = <<>> /\ r \notin answered
        /\ \A g \in Handlers : pc[g] \in Creating \cup {"deleted"} => req[g].review # r
        /\ \A m \in media : m.review # r
    BY DEF CInv, TypeOK, FreshOK, Creating
  <2>9. TypeOK'
    <3>1. reviews' \in [ReviewIds -> ReviewRow \cup {Null}] /\ used' \subseteq ReviewIds
      BY <2>1, <2>4 DEF CInv, TypeOK, row
    <3>2. pc' \in [Handlers -> Steps] /\ req' \in [Handlers -> Request \cup {Null}]
      BY <2>1, <2>5 DEF CInv, TypeOK, Continue, Done, AfterInsert, Steps, p
    <3>3. pc'[h] = "upload" => p.done < p.wanted
      BY <2>5, <2>6, <2>7
    <3>4. \A g \in Handlers :
            /\ pc'[g] # "idle" => req'[g] \in Request
            /\ pc'[g] \in {"insert", "save", "saved", "removed"} => req'[g].destination \in Dests
            /\ pc'[g] \in {"upload", "media", "compensate", "answer", "delete", "deleted"} =>
                 req'[g].review \in used'
            /\ pc'[g] \in {"upload", "media"} => req'[g].done < req'[g].wanted
      BY <2>1, <2>5, <2>7, <3>3 DEF CInv, TypeOK
    <3>5. abandoned' \subseteq ReviewIds
      BY <2>7 DEF CInv, TypeOK
    <3> QED  BY <2>1, <3>1, <3>2, <3>4, <3>5 DEF CInv, TypeOK
  <2>10. FreshOK' /\ OwnersOK'
    BY <2>1, <2>3, <2>4, <2>7 DEF CInv, FreshOK, OwnersOK, Exists, row
  <2>kept. \A x : Withdrawn(x) => Withdrawn(x)'
    BY <2>1, <2>2, <2>7 DEF Withdrawn
  <2>deleted. DeletedOK'
    <3>1. \A g \in Handlers : pc[g] = "deleted" => req[g].review # r
      BY <2>8
    <3>2. pc'[h] # "deleted"
      BY <2>7
    <3> QED  BY <2>1, <2>7, <3>1, <3>2, DeletedKept
  <2>saves. SavesAlternate'
    BY <2>1, <2>2, BalanceKept DEF CInv, Telling, Done, AfterInsert
  <2>11. CreationOK'
    <3>1. ASSUME NEW g \in Handlers, pc'[g] \in Creating, g = h
          PROVE  /\ r \notin answered'
                 /\ reviews'[r].user = p.user /\ reviews'[r].wanted = p.wanted
                 /\ reviews'[r].deleted_by = Null
      BY <2>1, <2>5, <2>7, <2>8 DEF row
    <3>2. ASSUME NEW g \in Handlers, g # h
          PROVE  reviews'[req[g].review] = reviews[req[g].review] \/ pc[g] \notin Creating
      BY <2>1, <2>7, <2>8 DEF CInv, TypeOK, Creating
    <3> QED
      BY <2>1, <2>2, <2>5, <2>7, <2>8, <2>kept, <3>1, <3>2
      DEF CInv, CreationOK, Creating, Exists, Active
  <2>12. UploadedOK'
    BY <2>1, <2>2, <2>5, <2>6, <2>7 DEF CInv, UploadedOK
  <2>inserted. InsertedOK'
    <3>1. pc'[h] # "media"
      BY <2>7
    <3>2. \A g \in Handlers \ {h} : pc[g] = "media" =>
            req[g].review # r /\ req[g].review \in ReviewIds
      BY <2>8 DEF CInv, TypeOK, Creating
    <3> QED  BY <2>1, <2>7, <3>1, <3>2 DEF CInv, InsertedOK, Exists
  <2>13. VisibleIsComplete'
    <3>1. ASSUME NEW x \in ReviewIds \ {r}
          PROVE  InCreation(x) => InCreation(x)'
      BY <2>2, <2>7, <3>1 DEF InCreation
    <3>2. ~ InCreation(r)' /\ r \notin abandoned' => q.wanted = 0
      BY <2>5, <2>7 DEF InCreation
    <3>3. row.wanted = q.wanted
      BY DEF row
    <3>4. abandoned \subseteq abandoned'
      BY <2>7
    <3> QED
      BY <2>1, <2>7, <3>1, <3>2, <3>3, <3>4 DEF CInv, VisibleIsComplete, Active, Exists
  <2>14. OneDeletionWins' /\ AnsweredIsKept'
    BY <2>1, <2>7, <2>8, <2>kept DEF CInv, OneDeletionWins, AnsweredIsKept, Active, Exists
  <2>15. MediaAreStored'
    BY <2>1, <2>7, <2>8 DEF CInv, TypeOK, Media, MediaAreStored, Exists
  <2> QED
    BY <2>9, <2>10, <2>11, <2>12, <2>13, <2>14, <2>15, <2>inserted, <2>deleted,
       <2>saves DEF CInv
<1> QED  BY <1>1, <1>2

\* The upload of one image, which succeeds or turns to the compensation.
LEMMA UploadImageStep ==
  ASSUME CInv, NEW h \in Handlers, UploadImage(h)
  PROVE  CInv'
<1> DEFINE q == req[h]
           r == q.review
           i == q.done + 1
<1>1. /\ pc[h] = "upload" /\ q \in Request /\ r \in used /\ r \in ReviewIds
      /\ q.done < q.wanted /\ q.done \in 0 .. MaxImages /\ q.wanted \in 0 .. MaxImages
      /\ i \in 1 .. MaxImages /\ i <= q.wanted
  BY CommunityAssumption DEF UploadImage, CInv, TypeOK, Request
<1>2. PICK s \in {"upload", "media", "compensate"}, n \in 0 .. MaxImages :
        /\ pc' = [pc EXCEPT ![h] = s]
        /\ req' = [req EXCEPT ![h] = [q EXCEPT !.done = n]]
        /\ s = "upload" => n = i /\ i < q.wanted
        /\ s = "media" => n = 0 /\ i = q.wanted
        /\ s \in {"upload", "media"} => bucket' = bucket \cup {[review |-> r, image |-> i]}
        /\ s = "compensate" =>
             bucket' \in {bucket, bucket \cup {[review |-> r, image |-> i]}}
  <2>1. q = [q EXCEPT !.done = q.done]
    BY <1>1 DEF Request
  <2> QED
    BY <1>1, <2>1, CommunityAssumption DEF UploadImage, Continue
<1>3. UNCHANGED <<users, live, reviews, media, favourites, history>>
  BY DEF UploadImage
<1> DEFINE p == [q EXCEPT !.done = n]
<1>4. /\ p \in Request
      /\ p.review = r /\ p.wanted = q.wanted /\ p.user = q.user /\ p.done = n
  BY <1>1 DEF Request
<1>5. /\ pc'[h] = s /\ req'[h] = p
      /\ \A g \in Handlers \ {h} : pc'[g] = pc[g] /\ req'[g] = req[g]
  BY <1>2 DEF CInv, TypeOK
<1>6. bucket \subseteq bucket'
  BY <1>2
<1>kept. SavesAlternate' /\ \A x : Withdrawn(x) => Withdrawn(x)'
  BY <1>1, <1>2, <1>3, BalanceKept, WithdrawnKept DEF CInv, Telling, Continue, history
<1> HIDE DEF p
<1>7. TypeOK'
  <2>1. bucket' \subseteq Media
    BY <1>1, <1>2 DEF CInv, TypeOK, Media, Images
  <2>2. pc' \in [Handlers -> Steps] /\ req' \in [Handlers -> Request \cup {Null}]
    BY <1>2, <1>4 DEF CInv, TypeOK, Steps, p
  <2>3. s \in {"upload", "media"} => p.done < p.wanted
    BY <1>1, <1>2, <1>4
  <2>4. \A g \in Handlers :
          /\ pc'[g] # "idle" => req'[g] \in Request
          /\ pc'[g] \in {"insert", "save", "saved", "removed"} => req'[g].destination \in Dests
          /\ pc'[g] \in {"upload", "media", "compensate", "answer", "delete", "deleted"} =>
               req'[g].review \in used
          /\ pc'[g] \in {"upload", "media"} => req'[g].done < req'[g].wanted
    BY <1>1, <1>4, <1>5, <2>3 DEF CInv, TypeOK
  <2> QED  BY <1>3, <2>1, <2>2, <2>4 DEF CInv, TypeOK, history
<1>8. FreshOK' /\ OwnersOK'
  BY <1>3 DEF CInv, FreshOK, OwnersOK, Exists, history
<1>9. CreationOK'
  BY <1>1, <1>3, <1>4, <1>5, <1>kept DEF CInv, CreationOK, Creating, Exists, Active, history
<1>deleted. DeletedOK'
  BY <1>1, <1>2, <1>3, <1>5 DEF CInv, DeletedOK, Exists, history
<1>10. UploadedOK'
  <2>1. \A k \in 1 .. q.done : [review |-> r, image |-> k] \in bucket
    BY <1>1 DEF CInv, UploadedOK
  <2>2. s \in {"upload", "media"} => \A k \in 1 .. i : [review |-> r, image |-> k] \in bucket'
    BY <1>1, <1>2, <2>1
  <2>3. \A g \in Handlers \ {h} :
          /\ pc'[g] = "insert" => req'[g].done = 0
          /\ pc'[g] = "upload" =>
               \A k \in 1 .. req'[g].done : [review |-> req'[g].review, image |-> k] \in bucket'
          /\ pc'[g] = "media" =>
               \A k \in 1 .. req'[g].wanted : [review |-> req'[g].review, image |-> k] \in bucket'
    BY <1>5, <1>6 DEF CInv, UploadedOK
  <2>4. /\ pc'[h] # "insert"
        /\ pc'[h] = "upload" =>
             \A k \in 1 .. req'[h].done : [review |-> req'[h].review, image |-> k] \in bucket'
        /\ pc'[h] = "media" =>
             \A k \in 1 .. req'[h].wanted : [review |-> req'[h].review, image |-> k] \in bucket'
    BY <1>2, <1>4, <1>5, <2>2
  <2> QED  BY <2>3, <2>4 DEF UploadedOK
<1>11. InsertedOK'
  BY <1>2, <1>3, <1>4, <1>5, CommunityAssumption DEF CInv, InsertedOK, Exists
<1>12. VisibleIsComplete'
  <2>1. \A x \in ReviewIds : InCreation(x) => InCreation(x)'
    BY <1>2, <1>4, <1>5 DEF InCreation
  <2> QED  BY <1>3, <2>1 DEF CInv, VisibleIsComplete, Active, Exists, history
<1>13. OneDeletionWins' /\ AnsweredIsKept'
  BY <1>3, <1>kept DEF CInv, OneDeletionWins, AnsweredIsKept, Active, Exists, history
<1>14. MediaAreStored'
  BY <1>3, <1>6 DEF CInv, MediaAreStored, Exists
<1> QED
  BY <1>7, <1>8, <1>9, <1>10, <1>11, <1>12, <1>13, <1>14, <1>kept, <1>deleted DEF CInv

\* The INSERT of one image row, which succeeds or turns to the compensation.
LEMMA InsertMediaStep ==
  ASSUME CInv, NEW h \in Handlers, InsertMedia(h)
  PROVE  CInv'
<1> DEFINE q == req[h]
           r == q.review
           i == q.done + 1
<1>1. /\ pc[h] = "media" /\ q \in Request /\ r \in used /\ r \in ReviewIds
      /\ q.done < q.wanted /\ q.done \in 0 .. MaxImages /\ q.wanted \in 0 .. MaxImages
      /\ i \in 1 .. MaxImages /\ i <= q.wanted
  BY CommunityAssumption DEF InsertMedia, CInv, TypeOK, Request
<1>2. PICK s \in {"media", "compensate", "answer"}, n \in 0 .. MaxImages :
        /\ pc' = [pc EXCEPT ![h] = s]
        /\ req' = [req EXCEPT ![h] = [q EXCEPT !.done = n]]
        /\ s = "media" => n = i /\ i < q.wanted
        /\ s = "answer" => i = q.wanted
        /\ s \in {"media", "answer"} =>
             Exists(r) /\ media' = media \cup {[review |-> r, image |-> i]}
        /\ s = "compensate" =>
             \/ UNCHANGED media
             \/ Exists(r) /\ media' = media \cup {[review |-> r, image |-> i]}
  <2>1. q = [q EXCEPT !.done = q.done]
    BY <1>1 DEF Request
  <2> QED
    BY <1>1, <2>1, CommunityAssumption DEF InsertMedia, Continue
<1>3. UNCHANGED <<users, live, reviews, bucket, favourites, history>>
  BY DEF InsertMedia
<1> DEFINE p == [q EXCEPT !.done = n]
<1>4. /\ p \in Request
      /\ p.review = r /\ p.wanted = q.wanted /\ p.user = q.user /\ p.done = n
  BY <1>1 DEF Request
<1>5. /\ pc'[h] = s /\ req'[h] = p
      /\ \A g \in Handlers \ {h} : pc'[g] = pc[g] /\ req'[g] = req[g]
  BY <1>2 DEF CInv, TypeOK
<1>6. media \subseteq media' /\ media' \subseteq media \cup {[review |-> r, image |-> i]}
  BY <1>2
<1>kept. SavesAlternate' /\ \A x : Withdrawn(x) => Withdrawn(x)'
  BY <1>1, <1>2, <1>3, BalanceKept, WithdrawnKept DEF CInv, Telling, Continue, history
<1> HIDE DEF p
<1>7. TypeOK'
  <2>1. media' \subseteq Media
    BY <1>1, <1>6 DEF CInv, TypeOK, Media, Images
  <2>2. pc' \in [Handlers -> Steps] /\ req' \in [Handlers -> Request \cup {Null}]
    BY <1>2, <1>4 DEF CInv, TypeOK, Steps, p
  <2>3. s = "media" => p.done < p.wanted
    BY <1>1, <1>2, <1>4
  <2>4. \A g \in Handlers :
          /\ pc'[g] # "idle" => req'[g] \in Request
          /\ pc'[g] \in {"insert", "save", "saved", "removed"} => req'[g].destination \in Dests
          /\ pc'[g] \in {"upload", "media", "compensate", "answer", "delete", "deleted"} =>
               req'[g].review \in used
          /\ pc'[g] \in {"upload", "media"} => req'[g].done < req'[g].wanted
    BY <1>1, <1>4, <1>5, <2>3 DEF CInv, TypeOK
  <2> QED  BY <1>3, <2>1, <2>2, <2>4 DEF CInv, TypeOK, history
<1>8. FreshOK' /\ OwnersOK'
  BY <1>1, <1>3, <1>6 DEF CInv, FreshOK, OwnersOK, Exists, history
<1>9. CreationOK'
  BY <1>1, <1>3, <1>4, <1>5, <1>kept DEF CInv, CreationOK, Creating, Exists, Active, history
<1>deleted. DeletedOK'
  BY <1>1, <1>2, <1>3, <1>5 DEF CInv, DeletedOK, Exists, history
<1>10. UploadedOK'
  BY <1>1, <1>3, <1>4, <1>5 DEF CInv, UploadedOK
<1>11. Exists(r) => \A k \in 1 .. q.done : [review |-> r, image |-> k] \in media
  BY <1>1 DEF CInv, InsertedOK
<1>12. s \in {"media", "answer"} => \A k \in 1 .. i : [review |-> r, image |-> k] \in media'
  BY <1>1, <1>2, <1>11
<1>13. InsertedOK'
  <2>1. \A g \in Handlers \ {h} : pc'[g] = "media" /\ Exists(req'[g].review) =>
          \A k \in 1 .. req'[g].done : [review |-> req'[g].review, image |-> k] \in media'
    BY <1>5, <1>6 DEF CInv, InsertedOK
  <2>2. pc'[h] = "media" =>
          \A k \in 1 .. req'[h].done : [review |-> req'[h].review, image |-> k] \in media'
    BY <1>2, <1>4, <1>5, <1>12
  <2> QED  BY <1>3, <2>1, <2>2 DEF InsertedOK, Exists
<1>14. VisibleIsComplete'
  <2>1. \A x \in ReviewIds : InCreation(x) => InCreation(x)' \/ (x = r /\ s = "answer")
    BY <1>1, <1>2, <1>4, <1>5 DEF InCreation
  <2>2. Exists(r) => reviews[r].wanted = q.wanted
    BY <1>1 DEF CInv, CreationOK, Creating
  <2>3. s = "answer" /\ Exists(r) =>
          \A k \in 1 .. reviews[r].wanted : [review |-> r, image |-> k] \in media'
    BY <1>2, <1>12, <2>2
  <2> QED
    BY <1>3, <1>6, <2>1, <2>3 DEF CInv, VisibleIsComplete, Active, Exists, history
<1>15. OneDeletionWins' /\ AnsweredIsKept'
  BY <1>3, <1>kept DEF CInv, OneDeletionWins, AnsweredIsKept, Active, Exists, history
<1>16. MediaAreStored'
  <2>1. [review |-> r, image |-> i] \in bucket
    BY <1>1 DEF CInv, UploadedOK
  <2>2. UNCHANGED media \/ Exists(r)
    BY <1>2
  <2> QED  BY <1>2, <1>3, <2>1, <2>2 DEF CInv, MediaAreStored, Exists
<1> QED
  BY <1>7, <1>8, <1>9, <1>10, <1>13, <1>14, <1>15, <1>16, <1>kept, <1>deleted DEF CInv

\* A handler that ends keeps what no handler is needed for.
LEMMA EndedStep ==
  ASSUME CInv, NEW h \in Handlers, Done(h), pc[h] \notin Telling \cup {"deleted"},
         UNCHANGED <<users, bucket, favourites, used, deletions, balance, unheard>>
  PROVE  /\ pc' \in [Handlers -> Steps] /\ req' \in [Handlers -> Request \cup {Null}]
         /\ pc'[h] = "idle"
         /\ \A g \in Handlers \ {h} : pc'[g] = pc[g] /\ req'[g] = req[g]
         /\ \A g \in Handlers :
              /\ pc'[g] # "idle" => req'[g] \in Request
              /\ pc'[g] \in {"insert", "save", "saved", "removed"} => req'[g].destination \in Dests
              /\ pc'[g] \in {"upload", "media", "compensate", "answer", "delete", "deleted"} =>
                   req'[g].review \in used'
              /\ pc'[g] \in {"upload", "media"} => req'[g].done < req'[g].wanted
         /\ UploadedOK' /\ SavesAlternate'
         /\ \A x : Withdrawn(x) => Withdrawn(x)'
<1>1. /\ pc' \in [Handlers -> Steps] /\ req' \in [Handlers -> Request \cup {Null}]
      /\ pc'[h] = "idle"
      /\ \A g \in Handlers \ {h} : pc'[g] = pc[g] /\ req'[g] = req[g]
  BY DEF CInv, TypeOK, Done, Continue, Steps
<1>2. UploadedOK'
  BY <1>1 DEF CInv, UploadedOK
<1>3. SavesAlternate' /\ \A x : Withdrawn(x) => Withdrawn(x)'
  BY BalanceKept, WithdrawnKept DEF CInv, Done, Telling
<1> QED  BY <1>1, <1>2, <1>3 DEF CInv, TypeOK

\* What a soft delete does to a review, and to the others.
LEMMA SoftDeletedRow ==
  ASSUME CInv, NEW r \in ReviewIds, NEW by \in Users, reviews' = SoftDeleted(r, by)
  PROVE  /\ reviews' \in [ReviewIds -> ReviewRow \cup {Null}]
         /\ \A x \in ReviewIds \ {r} : reviews'[x] = reviews[x]
         /\ reviews'[r] # Null <=> Exists(r)
         /\ ~ Active(r) => reviews'[r] = reviews[r]
         /\ Active(r) /\ by \in users => reviews'[r].deleted_by = by
         /\ Exists(r) => (reviews'[r].deleted_by = Null <=> Active(r) /\ by \notin users)
         /\ Exists(r) => reviews'[r].user = reviews[r].user
                         /\ reviews'[r].wanted = reviews[r].wanted
<1>1. CASE Active(r) /\ by \in users
  <2>1. reviews[r] \in ReviewRow
    BY <1>1 DEF CInv, TypeOK, Active, Exists
  <2>2. /\ reviews'[r] = [reviews[r] EXCEPT !.deleted_by = by]
        /\ \A x \in ReviewIds \ {r} : reviews'[x] = reviews[x]
        /\ reviews' = [reviews EXCEPT ![r] = [reviews[r] EXCEPT !.deleted_by = by]]
    BY <1>1 DEF CInv, TypeOK, SoftDeleted, Deletes
  <2>3. /\ [reviews[r] EXCEPT !.deleted_by = by] \in ReviewRow
        /\ reviews'[r].deleted_by = by
        /\ reviews'[r].user = reviews[r].user /\ reviews'[r].wanted = reviews[r].wanted
    BY <2>1, <2>2 DEF ReviewRow
  <2>4. reviews' \in [ReviewIds -> ReviewRow \cup {Null}]
    BY <2>2, <2>3 DEF CInv, TypeOK
  <2> QED
    BY <1>1, <2>2, <2>3, <2>4, CommunityAssumption DEF Active, Exists
<1>2. CASE ~ (Active(r) /\ by \in users)
  <2>1. reviews' = reviews
    BY <1>2 DEF CInv, TypeOK, SoftDeleted, Deletes
  <2> QED  BY <1>2, <2>1 DEF CInv, TypeOK, Active, Exists
<1> QED  BY <1>1, <1>2

\* The compensation takes the review of this creation, or finds it gone.
LEMMA CompensateStep ==
  ASSUME CInv, NEW h \in Handlers, Compensate(h)
  PROVE  CInv'
<1> DEFINE q == req[h]
           r == q.review
<1>1. /\ pc[h] = "compensate" /\ r \in ReviewIds /\ r \in used /\ q.user \in Users
      /\ reviews' = SoftDeleted(r, q.user) /\ Done(h)
      /\ UNCHANGED <<users, live, media, bucket, favourites, history>>
  BY DEF Compensate, CInv, TypeOK, Request
<1>2. /\ reviews' \in [ReviewIds -> ReviewRow \cup {Null}]
      /\ \A x \in ReviewIds \ {r} : reviews'[x] = reviews[x]
      /\ reviews'[r] # Null <=> Exists(r)
      /\ ~ Active(r) => reviews'[r] = reviews[r]
      /\ Exists(r) => (reviews'[r].deleted_by = Null <=> Active(r) /\ q.user \notin users)
      /\ Exists(r) => reviews'[r].user = reviews[r].user
                      /\ reviews'[r].wanted = reviews[r].wanted
  BY <1>1, SoftDeletedRow
<1>3. /\ r \notin answered
      /\ \A g \in Handlers \ {h} : pc[g] \in Creating => req[g].review # r
      /\ Exists(r) => reviews[r].user = q.user
  BY <1>1 DEF CInv, CreationOK, Creating
<1>4. Exists(r) => reviews'[r].deleted_by # Null
  BY <1>1, <1>2, <1>3 DEF CInv, OwnersOK, Active
<1>5. /\ pc' \in [Handlers -> Steps] /\ req' \in [Handlers -> Request \cup {Null}]
      /\ pc'[h] = "idle"
      /\ \A g \in Handlers \ {h} : pc'[g] = pc[g] /\ req'[g] = req[g]
      /\ \A g \in Handlers :
              /\ pc'[g] # "idle" => req'[g] \in Request
              /\ pc'[g] \in {"insert", "save", "saved", "removed"} => req'[g].destination \in Dests
              /\ pc'[g] \in {"upload", "media", "compensate", "answer", "delete", "deleted"} =>
                   req'[g].review \in used'
              /\ pc'[g] \in {"upload", "media"} => req'[g].done < req'[g].wanted
      /\ UploadedOK' /\ SavesAlternate'
      /\ \A x : Withdrawn(x) => Withdrawn(x)'
  BY <1>1, EndedStep DEF history, Telling
<1>11. Active(r) => /\ deletions[r] = <<>>
                    /\ \A g \in Handlers : pc[g] = "deleted" => req[g].review # r
  BY <1>1, ActiveIsUntouched
<1>12. DeletedOK'
  <2>1. CASE Active(r)
    BY <1>1, <1>2, <1>5, <1>11, <2>1, DeletedKept DEF history
  <2>2. CASE ~ Active(r)
    <3>1. reviews' = reviews
      BY <1>2, <2>2 DEF CInv, TypeOK
    <3> QED  BY <1>1, <1>5, <3>1 DEF CInv, DeletedOK, Exists, history
  <2> QED  BY <2>1, <2>2
<1>6. TypeOK'
  BY <1>1, <1>2, <1>5 DEF CInv, TypeOK, history
<1>7. FreshOK' /\ OwnersOK'
  BY <1>1, <1>2 DEF CInv, FreshOK, OwnersOK, Exists, history
<1>8. CreationOK'
  <2>1. ASSUME NEW g \in Handlers, pc'[g] \in Creating
        PROVE  /\ pc[g] \in Creating /\ req'[g] = req[g]
               /\ req[g].review # r
    BY <1>1, <1>3, <1>5, <2>1 DEF Creating
  <2> QED
    BY <1>1, <1>2, <1>5, <2>1 DEF CInv, CreationOK, Exists, Active, history
<1>14. InsertedOK'
  BY <1>1, <1>2, <1>5 DEF CInv, TypeOK, InsertedOK, Exists
<1>9. VisibleIsComplete'
  <2>1. \A x \in ReviewIds \ {r} : InCreation(x) => InCreation(x)'
    BY <1>1, <1>5 DEF InCreation
  <2> QED
    BY <1>1, <1>2, <1>4, <2>1 DEF CInv, VisibleIsComplete, Active, Exists, history
<1>10. AnsweredIsKept' /\ MediaAreStored'
  BY <1>1, <1>2, <1>3, <1>4, <1>5
  DEF CInv, TypeOK, Media, AnsweredIsKept, MediaAreStored, Active, Exists, history
<1>13. OneDeletionWins'
  BY <1>1, <1>2, <1>11 DEF CInv, OneDeletionWins, Exists, history
<1> QED
  BY <1>5, <1>6, <1>7, <1>8, <1>9, <1>10, <1>12, <1>13, <1>14 DEF CInv

\* The answer to a creation: what is missing was deleted by somebody else.
LEMMA AnswerCreatedStep ==
  ASSUME CInv, NEW h \in Handlers, AnswerCreated(h)
  PROVE  CInv'
<1>1. CASE Refused(h)
  BY <1>1, RefusedStep DEF AnswerCreated
<1>2. CASE ~ Refused(h)
  <2> DEFINE r == req[h].review
  <2>1. /\ pc[h] = "answer" /\ Exists(r) /\ r \in used /\ r \in ReviewIds
        /\ answered' = answered \cup {r} /\ Done(h)
        /\ UNCHANGED <<tables, serving, used, abandoned, deletions, balance, unheard>>
    BY <1>2 DEF AnswerCreated, CInv, TypeOK
  <2>2. /\ \A g \in Handlers \ {h} : pc[g] \in Creating => req[g].review # r
        /\ Exists(r) /\ ~ Active(r) => Withdrawn(r)
    BY <2>1 DEF CInv, CreationOK, Creating
  <2>3. /\ pc' \in [Handlers -> Steps] /\ req' \in [Handlers -> Request \cup {Null}]
        /\ pc'[h] = "idle"
        /\ \A g \in Handlers \ {h} : pc'[g] = pc[g] /\ req'[g] = req[g]
        /\ \A g \in Handlers :
              /\ pc'[g] # "idle" => req'[g] \in Request
              /\ pc'[g] \in {"insert", "save", "saved", "removed"} => req'[g].destination \in Dests
              /\ pc'[g] \in {"upload", "media", "compensate", "answer", "delete", "deleted"} =>
                   req'[g].review \in used'
              /\ pc'[g] \in {"upload", "media"} => req'[g].done < req'[g].wanted
        /\ UploadedOK' /\ SavesAlternate'
        /\ \A x : Withdrawn(x) => Withdrawn(x)'
    BY <2>1, EndedStep DEF tables, Telling
  <2>4. TypeOK'
    BY <2>1, <2>3 DEF CInv, TypeOK, tables
  <2>5. FreshOK' /\ OwnersOK'
    BY <2>1 DEF CInv, FreshOK, OwnersOK, Exists, tables
  <2>6. CreationOK' /\ InsertedOK'
    BY <2>1, <2>2, <2>3
    DEF CInv, CreationOK, Creating, InsertedOK, Exists, Active, tables
  <2>7. VisibleIsComplete'
    <3>1. \A x \in ReviewIds : InCreation(x) => InCreation(x)'
      BY <2>1, <2>3 DEF InCreation
    <3> QED
      BY <2>1, <3>1 DEF CInv, VisibleIsComplete, Active, Exists, tables
  <2>9. DeletedOK'
    BY <2>1, <2>3 DEF CInv, DeletedOK, Exists, tables
  <2>8. OneDeletionWins' /\ AnsweredIsKept' /\ MediaAreStored'
    BY <2>1, <2>2, <2>3
    DEF CInv, OneDeletionWins, AnsweredIsKept, MediaAreStored, Active, Exists, tables
  <2> QED
    BY <2>3, <2>4, <2>5, <2>6, <2>7, <2>8, <2>9 DEF CInv
<1> QED  BY <1>1, <1>2

-----------------------------------------------------------------------------
(* Deletions and favourites                                                 *)

LEMMA DeleteReviewStep ==
  ASSUME CInv, NEW h \in Handlers, NEW u \in Users, NEW r \in ReviewIds,
         DeleteReview(h, u, r)
  PROVE  CInv'
<1> DEFINE q == [user |-> u, destination |-> Null, review |-> r, wanted |-> 0, done |-> 0]
<1>1. q \in Request
  BY CommunityAssumption DEF Request
<1>2. r \in used
  BY DEF DeleteReview, Active, Exists, CInv, FreshOK
<1> QED
  BY <1>1, <1>2, QuietStep DEF DeleteReview, Starting

\* The UPDATE of a deletion: nobody else's took effect before.
LEMMA MarkDeletedStep ==
  ASSUME CInv, NEW h \in Handlers, MarkDeleted(h)
  PROVE  CInv'
<1>1. CASE Refused(h)
  BY <1>1, RefusedStep DEF MarkDeleted
<1>2. CASE ~ Refused(h)
  <2> DEFINE r == req[h].review
             u == req[h].user
  <2>1. /\ pc[h] = "delete" /\ Active(r) /\ u \in users
        /\ reviews' = SoftDeleted(r, u)
        /\ Continue(h, "deleted", req[h])
        /\ UNCHANGED <<users, live, media, bucket, favourites, history>>
    BY <1>2 DEF MarkDeleted, Deletes
  <2>2. r \in ReviewIds /\ r \in used /\ u \in Users /\ req[h] \in Request
    BY <2>1 DEF CInv, TypeOK
  <2>3. /\ reviews' \in [ReviewIds -> ReviewRow \cup {Null}]
        /\ \A x \in ReviewIds \ {r} : reviews'[x] = reviews[x]
        /\ reviews'[r] # Null /\ reviews'[r].deleted_by = u /\ u # Null
        /\ reviews'[r].user = reviews[r].user
        /\ reviews'[r].wanted = reviews[r].wanted
    BY <2>1, <2>2, SoftDeletedRow, CommunityAssumption DEF Active
  <2>4. /\ deletions[r] = <<>>
        /\ \A g \in Handlers : pc[g] = "deleted" => req[g].review # r
    BY <2>1, <2>2, ActiveIsUntouched
  <2>5. /\ pc' \in [Handlers -> Steps] /\ req' = req
        /\ pc'[h] = "deleted"
        /\ \A g \in Handlers \ {h} : pc'[g] = pc[g]
    BY <2>1 DEF CInv, TypeOK, Continue, Steps
  <2>6. SavesAlternate'
    BY <2>1, BalanceKept DEF CInv, Telling, history
  <2>7. \A x : Withdrawn(x) => Withdrawn(x)'
    BY <2>1, WithdrawnKept DEF CInv, history
  <2>8. \A x : x = r => Withdrawn(x)'
    BY <2>1, <2>5 DEF Withdrawn
  <2>9. TypeOK'
    BY <2>1, <2>2, <2>3, <2>5 DEF CInv, TypeOK, history
  <2>10. FreshOK' /\ OwnersOK'
    BY <2>1, <2>2, <2>3 DEF CInv, FreshOK, OwnersOK, Exists, Active, history
  <2>11. CreationOK'
    <3> SUFFICES ASSUME NEW g \in Handlers, NEW x \in ReviewIds,
                        pc'[g] \in Creating, req'[g].review = x
                 PROVE  /\ x \notin answered'
                        /\ \A k \in Handlers \ {g} : pc'[k] \in Creating => req'[k].review # x
                        /\ reviews'[x] # Null => reviews'[x].user = req'[g].user
                                               /\ reviews'[x].wanted = req'[g].wanted
                        /\ Withdrawn(x)' \/ reviews'[x] = Null \/ reviews'[x].deleted_by = Null
      BY DEF CreationOK, Exists, Active
    <3>1. pc[g] \in Creating /\ req[g].review = x
      BY <2>5 DEF Creating
    <3>2. /\ x \notin answered
          /\ \A k \in Handlers \ {g} : pc[k] \in Creating => req[k].review # x
          /\ Exists(x) => reviews[x].user = req[g].user /\ reviews[x].wanted = req[g].wanted
          /\ Exists(x) /\ ~ Active(x) => Withdrawn(x)
      BY <3>1 DEF CInv, CreationOK
    <3>3. x # r => reviews'[x] = reviews[x]
      BY <2>3
    <3> QED
      BY <2>1, <2>3, <2>5, <2>7, <2>8, <3>1, <3>2, <3>3 DEF Creating, Exists, Active, history
  <2>12. DeletedOK'
    BY <2>1, <2>2, <2>3, <2>4, <2>5 DEF CInv, TypeOK, DeletedOK, Exists, history
  <2>13. UploadedOK' /\ InsertedOK'
    BY <2>1, <2>2, <2>3, <2>5 DEF CInv, TypeOK, UploadedOK, InsertedOK, Exists, Active
  <2>14. VisibleIsComplete'
    <3>1. \A x \in ReviewIds : InCreation(x) => InCreation(x)'
      BY <2>1, <2>5 DEF InCreation
    <3> QED
      BY <2>1, <2>3, <3>1 DEF CInv, VisibleIsComplete, Active, Exists, history
  <2>15. OneDeletionWins'
    BY <2>1, <2>2, <2>3, <2>4, EmptySeq
    DEF CInv, OneDeletionWins, Exists, history
  <2>17. AnsweredIsKept'
    BY <2>1, <2>2, <2>3, <2>7, <2>8
    DEF CInv, TypeOK, AnsweredIsKept, Active, Exists, history
  <2>16. MediaAreStored'
    BY <2>1, <2>2, <2>3 DEF CInv, TypeOK, Media, MediaAreStored, Exists
  <2> QED
    BY <2>6, <2>9, <2>10, <2>11, <2>12, <2>13, <2>14, <2>15, <2>16,
       <2>17 DEF CInv
<1> QED  BY <1>1, <1>2

\* The answer to a deletion: the first about this review, and the row says so.
LEMMA AnswerDeletedStep ==
  ASSUME CInv, NEW h \in Handlers, AnswerDeleted(h)
  PROVE  CInv'
<1> DEFINE r == req[h].review
           u == req[h].user
<1>1. /\ pc[h] = "deleted" /\ Done(h)
      /\ deletions' = [deletions EXCEPT ![r] = Append(@, u)]
      /\ UNCHANGED <<tables, serving, used, answered, abandoned, balance, unheard>>
  BY DEF AnswerDeleted
<1>2. r \in ReviewIds /\ r \in used /\ u \in Users
  BY <1>1 DEF CInv, TypeOK, Request
<1>3. /\ deletions[r] = <<>>
      /\ \A g \in Handlers \ {h} : pc[g] = "deleted" => req[g].review # r
      /\ Exists(r) => reviews[r].deleted_by = u
  BY <1>1 DEF CInv, DeletedOK
<1>4. /\ deletions' \in [ReviewIds -> Seq(Users)]
      /\ deletions'[r] = <<u>>
      /\ \A x \in ReviewIds \ {r} : deletions'[x] = deletions[x]
  <2>1. Append(deletions[r], u) = <<u>> /\ <<u>> \in Seq(Users)
    BY <1>2, <1>3
  <2> QED  BY <1>1, <1>2, <2>1 DEF CInv, TypeOK
<1>5. /\ pc' \in [Handlers -> Steps] /\ req' \in [Handlers -> Request \cup {Null}]
      /\ pc'[h] = "idle"
      /\ \A g \in Handlers \ {h} : pc'[g] = pc[g] /\ req'[g] = req[g]
  BY <1>1 DEF CInv, TypeOK, Done, Continue, Steps
<1>6. SavesAlternate'
  BY <1>1, BalanceKept DEF CInv, Telling, Done, tables
<1>7. \A x \in ReviewIds : Withdrawn(x) => Withdrawn(x)'
  <2>1. deletions'[r] # <<>>
    <3>1. Len(<<u>>) = 1 /\ Len(<<>>) = 0
      OBVIOUS
    <3> QED  BY <1>4, <3>1
  <2>2. ASSUME NEW x \in ReviewIds, x = r PROVE Withdrawn(x)'
    BY <2>1, <2>2 DEF Withdrawn
  <2>3. ASSUME NEW x \in ReviewIds, x # r, Withdrawn(x) PROVE Withdrawn(x)'
    BY <1>1, <1>4, <1>5, <2>3 DEF Withdrawn
  <2> QED  BY <2>2, <2>3
<1>8. TypeOK'
  BY <1>1, <1>4, <1>5 DEF CInv, TypeOK, tables
<1>9. FreshOK' /\ OwnersOK'
  BY <1>1, <1>2, <1>4 DEF CInv, FreshOK, OwnersOK, Exists, tables
<1>10. CreationOK'
  <2>1. \A g \in Handlers : pc'[g] \in Creating => pc[g] \in Creating /\ req'[g] = req[g]
    BY <1>1, <1>5 DEF Creating
  <2> QED  BY <1>1, <1>7, <2>1 DEF CInv, CreationOK, Exists, Active, tables
<1>11. DeletedOK'
  BY <1>1, <1>2, <1>3, <1>4, <1>5, DeletedKept DEF tables
<1>12. UploadedOK' /\ InsertedOK'
  BY <1>1, <1>5 DEF CInv, UploadedOK, InsertedOK, Exists, tables
<1>13. VisibleIsComplete'
  <2>1. \A x \in ReviewIds : InCreation(x) => InCreation(x)'
    BY <1>1, <1>5 DEF InCreation
  <2> QED  BY <1>1, <2>1 DEF CInv, VisibleIsComplete, Active, Exists, tables
<1>14. OneDeletionWins'
  <2>1. /\ Len(deletions'[r]) <= 1
        /\ \A i \in DOMAIN deletions'[r] : Exists(r) => reviews[r].deleted_by = deletions'[r][i]
    BY <1>3, <1>4
  <2> QED  BY <1>1, <1>4, <2>1 DEF CInv, OneDeletionWins, Exists, tables
<1>15. AnsweredIsKept' /\ MediaAreStored'
  BY <1>1, <1>7 DEF CInv, TypeOK, AnsweredIsKept, MediaAreStored, Active, Exists, tables
<1> QED
  BY <1>6, <1>8, <1>9, <1>10, <1>11, <1>12, <1>13, <1>14, <1>15 DEF CInv

LEMMA SaveFavouriteStep ==
  ASSUME CInv, NEW h \in Handlers, NEW u \in Users, NEW d \in Dests,
         SaveFavourite(h, u, d)
  PROVE  CInv'
<1> DEFINE q == [user |-> u, destination |-> d, review |-> Null, wanted |-> 0, done |-> 0]
<1>1. q \in Request
  BY CommunityAssumption DEF Request
<1> QED
  BY <1>1, QuietStep DEF SaveFavourite, Starting

\* What a step about a favourite keeps: all but its type and its balance.
LEMMA FavouriteMove ==
  ASSUME CInv, NEW h \in Handlers, NEW s \in {"idle", "saved", "removed"}, NEW q,
         Continue(h, s, q), pc[h] \in {"idle", "save"} \cup Telling,
         UNCHANGED <<users, live, reviews, media, bucket, serving, used, answered,
                     abandoned, deletions, unheard>>
  PROVE  /\ FreshOK' /\ OwnersOK' /\ CreationOK' /\ DeletedOK' /\ UploadedOK' /\ InsertedOK'
         /\ VisibleIsComplete' /\ OneDeletionWins' /\ AnsweredIsKept' /\ MediaAreStored'
<1>1. /\ pc'[h] = s /\ req'[h] = q
      /\ \A g \in Handlers \ {h} : pc'[g] = pc[g] /\ req'[g] = req[g]
  BY DEF CInv, TypeOK, Continue
<1>2. FreshOK' /\ OwnersOK'
  BY DEF CInv, FreshOK, OwnersOK, Exists
<1>3. \A x : Withdrawn(x) => Withdrawn(x)'
  BY WithdrawnKept DEF CInv, Telling
<1>4. CreationOK'
  BY <1>1, <1>3 DEF CInv, CreationOK, Creating, Exists, Active
<1>5. DeletedOK' /\ UploadedOK' /\ InsertedOK'
  BY <1>1 DEF CInv, DeletedOK, UploadedOK, InsertedOK, Exists
<1>6. VisibleIsComplete'
  <2>1. \A x \in ReviewIds : InCreation(x) => InCreation(x)'
    BY <1>1 DEF InCreation, Telling
  <2> QED  BY <2>1 DEF CInv, VisibleIsComplete, Active, Exists
<1>7. OneDeletionWins' /\ AnsweredIsKept' /\ MediaAreStored'
  BY <1>3 DEF CInv, OneDeletionWins, AnsweredIsKept, MediaAreStored, Active, Exists
<1> QED  BY <1>2, <1>4, <1>5, <1>6, <1>7

\* The INSERT of a favourite, which a favourite that is there refuses.
LEMMA AddFavouriteStep ==
  ASSUME CInv, NEW h \in Handlers, AddFavourite(h)
  PROVE  CInv'
<1>1. CASE Refused(h)
  BY <1>1, RefusedStep DEF AddFavourite
<1>2. CASE ~ Refused(h)
  <2> DEFINE f == Saving(h)
  <2>1. /\ pc[h] = "save" /\ f \notin favourites
        /\ favourites' = favourites \cup {f}
        /\ Continue(h, "saved", req[h])
        /\ UNCHANGED <<users, live, reviews, media, bucket, history>>
    BY <1>2 DEF AddFavourite, Addable
  <2>2. f \in Favourite /\ f = [user |-> req[h].user, destination |-> req[h].destination]
    BY <2>1 DEF CInv, TypeOK, Favourite, Request, Saving
  <2> HIDE DEF f
  <2>3. TypeOK'
    BY <2>1, <2>2 DEF CInv, TypeOK, Continue, Steps, history
  <2>4. SavesAlternate'
    <3> SUFFICES ASSUME NEW x \in Favourite, x.user \in users, x \notin unheard
                 PROVE  balance[x] + Cardinality(Answering("saved", x)')
                          - Cardinality(Answering("removed", x)')
                        = IF x \in favourites' THEN 1 ELSE 0
      BY <2>1 DEF SavesAlternate, history
    <3>1. /\ Cardinality(Answering("saved", x)) \in Nat
          /\ Cardinality(Answering("saved", x)') =
               Cardinality(Answering("saved", x)) + (IF x = f THEN 1 ELSE 0)
      BY <2>1, <2>2, AnsweringMoved DEF CInv
    <3>2. /\ Cardinality(Answering("removed", x)) \in Nat
          /\ Cardinality(Answering("removed", x)') = Cardinality(Answering("removed", x))
      BY <2>1, <2>2, AnsweringMoved DEF CInv
    <3>3. balance[x] \in Int
      BY DEF CInv, TypeOK
    <3>4. balance[x] + Cardinality(Answering("saved", x)) - Cardinality(Answering("removed", x))
            = IF x \in favourites THEN 1 ELSE 0
      BY DEF CInv, SavesAlternate
    <3> QED  BY <2>1, <3>1, <3>2, <3>3, <3>4
  <2> QED
    BY <2>1, <2>3, <2>4, FavouriteMove DEF CInv, history
<1> QED  BY <1>1, <1>2

\* The DELETE of a favourite that is there.
LEMMA RemoveFavouriteStep ==
  ASSUME CInv, NEW h \in Handlers, NEW u \in Users, NEW d \in Dests,
         RemoveFavourite(h, u, d)
  PROVE  CInv'
<1> DEFINE f == [user |-> u, destination |-> d]
           q == [user |-> u, destination |-> d, review |-> Null, wanted |-> 0, done |-> 0]
<1>1. /\ pc[h] = "idle" /\ f \in favourites /\ favourites' = favourites \ {f}
      /\ Continue(h, "removed", q)
      /\ UNCHANGED <<users, live, reviews, media, bucket, history>>
  BY DEF RemoveFavourite, Starting
<1>2. /\ f \in Favourite /\ q \in Request /\ q.destination \in Dests
      /\ [user |-> q.user, destination |-> q.destination] = f
  BY CommunityAssumption DEF Favourite, Request
<1> HIDE DEF f, q
<1>3. TypeOK'
  BY <1>1, <1>2 DEF CInv, TypeOK, Continue, Steps, history
<1>4. SavesAlternate'
  <2> SUFFICES ASSUME NEW x \in Favourite, x.user \in users, x \notin unheard
               PROVE  balance[x] + Cardinality(Answering("saved", x)')
                        - Cardinality(Answering("removed", x)')
                      = IF x \in favourites' THEN 1 ELSE 0
    BY <1>1 DEF SavesAlternate, history
  <2>1. /\ Cardinality(Answering("saved", x)) \in Nat
        /\ Cardinality(Answering("saved", x)') = Cardinality(Answering("saved", x))
    BY <1>1, AnsweringMoved DEF CInv
  <2>2. /\ Cardinality(Answering("removed", x)) \in Nat
        /\ Cardinality(Answering("removed", x)') =
             Cardinality(Answering("removed", x)) + (IF x = f THEN 1 ELSE 0)
    BY <1>1, <1>2, AnsweringMoved DEF CInv
  <2>3. balance[x] \in Int
    BY DEF CInv, TypeOK
  <2>4. balance[x] + Cardinality(Answering("saved", x)) - Cardinality(Answering("removed", x))
          = IF x \in favourites THEN 1 ELSE 0
    BY DEF CInv, SavesAlternate
  <2> QED  BY <1>1, <2>1, <2>2, <2>3, <2>4
<1> QED
  BY <1>1, <1>3, <1>4, FavouriteMove DEF CInv, history

\* The answer to a save or a removal moves from the set to the balance.
LEMMA AnswerStep ==
  ASSUME CInv, NEW h \in Handlers, NEW k \in {1, -1},
         pc[h] = IF k = 1 THEN "saved" ELSE "removed", Answer(h, k)
  PROVE  CInv'
<1> DEFINE f == Saving(h)
<1>1. /\ balance' = IF f \in unheard THEN balance ELSE [balance EXCEPT ![f] = @ + k]
      /\ Continue(h, "idle", Null)
      /\ UNCHANGED <<tables, serving, used, answered, abandoned, deletions, unheard>>
  BY DEF Answer, Done
<1>2. f \in Favourite
  BY DEF CInv, TypeOK, Favourite, Request, Saving
<1> HIDE DEF f
<1>3. balance' \in [Favourite -> Int]
  BY <1>1, <1>2 DEF CInv, TypeOK
<1>4. TypeOK'
  BY <1>1, <1>3 DEF CInv, TypeOK, Continue, Steps, tables
<1>5. SavesAlternate'
  <2> SUFFICES ASSUME NEW x \in Favourite, x.user \in users, x \notin unheard
               PROVE  balance'[x] + Cardinality(Answering("saved", x)')
                        - Cardinality(Answering("removed", x)')
                      = IF x \in favourites THEN 1 ELSE 0
    BY <1>1 DEF SavesAlternate, tables
  <2>1. /\ Cardinality(Answering("saved", x)) \in Nat
        /\ Cardinality(Answering("saved", x)') =
             Cardinality(Answering("saved", x)) - (IF k = 1 /\ x = f THEN 1 ELSE 0)
    BY <1>1, AnsweringMoved DEF CInv, f
  <2>2. /\ Cardinality(Answering("removed", x)) \in Nat
        /\ Cardinality(Answering("removed", x)') =
             Cardinality(Answering("removed", x)) - (IF k = -1 /\ x = f THEN 1 ELSE 0)
    BY <1>1, AnsweringMoved DEF CInv, f
  <2>3. balance[x] \in Int /\ balance'[x] = IF x = f THEN balance[x] + k ELSE balance[x]
    BY <1>1, <1>2 DEF CInv, TypeOK
  <2>4. balance[x] + Cardinality(Answering("saved", x)) - Cardinality(Answering("removed", x))
          = IF x \in favourites THEN 1 ELSE 0
    BY DEF CInv, SavesAlternate
  <2> QED  BY <2>1, <2>2, <2>3, <2>4
<1> QED
  BY <1>1, <1>4, <1>5, FavouriteMove DEF CInv, Telling, tables

-----------------------------------------------------------------------------
(* What other requests do meanwhile                                         *)

\* A deleted account takes its reviews, their images and its favourites along.
LEMMA DeleteUserStep ==
  ASSUME CInv, NEW u \in Users, DeleteUser(u)
  PROVE  CInv'
<1> DEFINE own == {r \in ReviewIds : Exists(r) /\ reviews[r].user = u}
<1>1. /\ users' = users \ {u}
      /\ reviews' = [r \in ReviewIds |-> IF r \in own THEN Null ELSE reviews[r]]
      /\ media' = {m \in media : m.review \notin own}
      /\ favourites' = {f \in favourites : f.user # u}
      /\ UNCHANGED <<live, bucket, history, pc, req>>
  BY DEF DeleteUser
<1>2. \A r \in ReviewIds : reviews'[r] # Null => reviews'[r] = reviews[r] /\ r \notin own
  BY <1>1
<1>3. TypeOK'
  <2>1. reviews' \in [ReviewIds -> ReviewRow \cup {Null}]
    BY <1>1 DEF CInv, TypeOK
  <2> QED  BY <1>1, <2>1 DEF CInv, TypeOK, history
<1>4. FreshOK' /\ OwnersOK'
  BY <1>1, <1>2 DEF CInv, FreshOK, OwnersOK, Exists, history
<1>5. CreationOK' /\ DeletedOK' /\ UploadedOK'
  BY <1>1, <1>2
  DEF CInv, TypeOK, CreationOK, Creating, DeletedOK, UploadedOK, Withdrawn, Active, Exists, history
<1>6. InsertedOK' /\ VisibleIsComplete'
  BY <1>1, <1>2 DEF CInv, TypeOK, InsertedOK, VisibleIsComplete, InCreation, Active, Exists, history
<1>7. OneDeletionWins' /\ AnsweredIsKept'
  BY <1>1, <1>2 DEF CInv, TypeOK, OneDeletionWins, AnsweredIsKept, Withdrawn,
                   Active, Exists, history
<1>8. MediaAreStored'
  BY <1>1 DEF CInv, TypeOK, Media, MediaAreStored, Exists
<1>9. SavesAlternate'
  BY <1>1 DEF CInv, SavesAlternate, Answering, Saving, history
<1> QED
  BY <1>3, <1>4, <1>5, <1>6, <1>7, <1>8, <1>9 DEF CInv

LEMMA SetServedStep ==
  ASSUME CInv, NEW d \in Dests, SetServed(d)
  PROVE  CInv'
<1> USE DEF SetServed, history
<1>1. TypeOK' /\ FreshOK' /\ OwnersOK' /\ SavesAlternate'
  BY DEF CInv, TypeOK, FreshOK, OwnersOK, SavesAlternate, Answering, Saving, Exists
<1>2. CreationOK' /\ DeletedOK' /\ UploadedOK' /\ InsertedOK' /\ VisibleIsComplete'
  BY DEF CInv, CreationOK, DeletedOK, Withdrawn, UploadedOK, InsertedOK, VisibleIsComplete,
         InCreation, Active, Exists
<1>3. OneDeletionWins' /\ AnsweredIsKept' /\ MediaAreStored'
  BY DEF CInv, OneDeletionWins, AnsweredIsKept, MediaAreStored, Withdrawn, Active, Exists
<1> QED  BY <1>1, <1>2, <1>3 DEF CInv

\* A creation that dies abandons its review.
LEMMA FailStep ==
  ASSUME CInv, NEW h \in Handlers, Fail(h)
  PROVE  CInv'
<1>1. /\ abandoned' = IF pc[h] \in {"upload", "media", "compensate"}
                      THEN abandoned \cup {req[h].review} ELSE abandoned
      /\ unheard' = unheard \cup (IF pc[h] = "deleted" THEN {req[h].review}
                                  ELSE IF pc[h] \in Telling THEN {Saving(h)} ELSE {})
      /\ Continue(h, "idle", Null)
      /\ UNCHANGED <<tables, serving, used, answered, deletions, balance>>
      /\ pc[h] # "idle"
  BY DEF Fail, Done, Telling
<1>2. /\ pc' \in [Handlers -> Steps] /\ req' \in [Handlers -> Request \cup {Null}]
      /\ pc'[h] = "idle"
      /\ \A g \in Handlers \ {h} : pc'[g] = pc[g] /\ req'[g] = req[g]
  BY <1>1 DEF CInv, TypeOK, Continue, Steps
<1>3. TypeOK'
  <2>1. pc[h] \in Telling => Saving(h) \in Favourite
    BY DEF CInv, TypeOK, Telling, Saving, Favourite, Request
  <2>2. pc[h] = "deleted" => req[h].review \in ReviewIds
    BY DEF CInv, TypeOK
  <2>3. unheard' \subseteq ReviewIds \cup Favourite
    BY <1>1, <2>1, <2>2 DEF CInv, TypeOK
  <2>4. abandoned' \subseteq ReviewIds
    BY <1>1 DEF CInv, TypeOK
  <2> QED  BY <1>1, <1>2, <2>3, <2>4 DEF CInv, TypeOK, tables
<1>4. FreshOK' /\ OwnersOK'
  BY <1>1 DEF CInv, FreshOK, OwnersOK, Exists, tables
<1>5. \A x : Withdrawn(x) => Withdrawn(x)'
  BY <1>1, <1>2 DEF Withdrawn
<1>6. CreationOK'
  BY <1>1, <1>2, <1>5 DEF CInv, CreationOK, Creating, Exists, Active, tables
<1>7. DeletedOK' /\ UploadedOK' /\ InsertedOK'
  BY <1>1, <1>2 DEF CInv, DeletedOK, UploadedOK, InsertedOK, Exists, tables
<1>8. VisibleIsComplete'
  <2>1. \A x \in ReviewIds : InCreation(x) => InCreation(x)' \/ x \in abandoned'
    BY <1>1, <1>2 DEF InCreation
  <2>2. abandoned \subseteq abandoned'
    BY <1>1
  <2> QED
    BY <1>1, <2>1, <2>2 DEF CInv, VisibleIsComplete, Active, Exists, tables
<1>9. OneDeletionWins' /\ AnsweredIsKept' /\ MediaAreStored'
  BY <1>1, <1>5
  DEF CInv, OneDeletionWins, AnsweredIsKept, MediaAreStored, Active, Exists, tables
<1>10. SavesAlternate'
  <2> SUFFICES ASSUME NEW f \in Favourite, f.user \in users, f \notin unheard'
               PROVE  balance[f] + Cardinality(Answering("saved", f)')
                        - Cardinality(Answering("removed", f)')
                      = IF f \in favourites THEN 1 ELSE 0
    BY <1>1 DEF SavesAlternate, tables
  <2>1. f \notin unheard /\ (pc[h] \in Telling => Saving(h) # f)
    BY <1>1 DEF Telling
  <2>2. /\ Cardinality(Answering("saved", f)) \in Nat
        /\ Cardinality(Answering("saved", f)') = Cardinality(Answering("saved", f))
    BY <1>1, <2>1, AnsweringMoved DEF CInv, Telling
  <2>3. /\ Cardinality(Answering("removed", f)) \in Nat
        /\ Cardinality(Answering("removed", f)') = Cardinality(Answering("removed", f))
    BY <1>1, <2>1, AnsweringMoved DEF CInv, Telling
  <2> QED  BY <2>1, <2>2, <2>3 DEF CInv, SavesAlternate
<1> QED
  BY <1>3, <1>4, <1>6, <1>7, <1>8, <1>9, <1>10 DEF CInv

-----------------------------------------------------------------------------
(* The theorems                                                             *)

LEMMA InitHolds == Init => CInv
<1> SUFFICES ASSUME Init PROVE CInv  OBVIOUS
<1>1. TypeOK
  BY DEF Init, TypeOK, Steps, Favourite
<1>2. FreshOK /\ OwnersOK /\ CreationOK /\ DeletedOK /\ UploadedOK /\ InsertedOK
  BY DEF Init, FreshOK, OwnersOK, CreationOK, Creating, DeletedOK, UploadedOK, InsertedOK, Exists
<1>3. VisibleIsComplete /\ OneDeletionWins /\ AnsweredIsKept /\ MediaAreStored
  BY DEF Init, VisibleIsComplete, OneDeletionWins, AnsweredIsKept, MediaAreStored,
         Active, Exists
<1>4. SavesAlternate
  <2>1. \A f \in Favourite : Answering("saved", f) = {} /\ Answering("removed", f) = {}
    BY DEF Init, Answering
  <2>2. Cardinality({}) = 0
    BY FS_EmptySet
  <2>3. \A f \in Favourite : balance[f] = 0 /\ f \notin favourites
    BY DEF Init
  <2> QED  BY <2>1, <2>2, <2>3 DEF SavesAlternate
<1> QED  BY <1>1, <1>2, <1>3, <1>4 DEF CInv

LEMMA StepHolds == CInv /\ [Next]_vars => CInv'
<1> SUFFICES ASSUME CInv, [Next]_vars PROVE CInv'  OBVIOUS
<1>1. CASE UNCHANGED vars
  BY <1>1 DEF vars, CInv, TypeOK, FreshOK, OwnersOK, CreationOK, DeletedOK, UploadedOK,
              InsertedOK, VisibleIsComplete, OneDeletionWins, AnsweredIsKept, MediaAreStored,
              SavesAlternate, InCreation, Withdrawn, Answering, Saving, Active, Exists
<1>2. ASSUME NEW h \in Handlers, ReviewStep(h) PROVE CInv'
  BY <1>2, CreateReviewStep, InsertReviewStep, UploadImageStep, InsertMediaStep,
     CompensateStep, AnswerCreatedStep DEF ReviewStep
<1>3. ASSUME NEW h \in Handlers, ModerationStep(h) \/ FavouriteStep(h) \/ Fail(h) PROVE CInv'
  <2>1. AnswerSaved(h) \/ AnswerRemoved(h) => CInv'
    <3>1. AnswerSaved(h) => pc[h] = "saved" /\ Answer(h, 1)
      BY DEF AnswerSaved
    <3>2. AnswerRemoved(h) => pc[h] = "removed" /\ Answer(h, -1)
      BY DEF AnswerRemoved
    <3> QED  BY <3>1, <3>2, AnswerStep
  <2> QED
    BY <1>3, <2>1, DeleteReviewStep, MarkDeletedStep, AnswerDeletedStep, SaveFavouriteStep,
       AddFavouriteStep, RemoveFavouriteStep, FailStep
    DEF ModerationStep, FavouriteStep
<1>4. CASE \/ \E u \in Users : DeleteUser(u)
           \/ \E d \in Dests : SetServed(d)
  BY <1>4, DeleteUserStep, SetServedStep
<1> QED  BY <1>1, <1>2, <1>3, <1>4 DEF Next

\* What creations, deletions and favourites rely on while they interleave.
THEOREM CommunityInvariance == Spec => []CInv
BY InitHolds, StepHolds, PTL DEF Spec

\* The tables and the requests in flight keep their types.
THEOREM CommunityTypeCorrect == Spec => []TypeOK
<1>1. CInv => TypeOK  BY DEF CInv
<1> QED  BY <1>1, CommunityInvariance, PTL

\* A review that others see after its creation has all its images
\* (CreateReview compensates what it could not complete).
THEOREM VisibleReviewsAreComplete == Spec => []VisibleIsComplete
<1>1. CInv => VisibleIsComplete  BY DEF CInv
<1> QED  BY <1>1, CommunityInvariance, PTL

\* At most one of the deletions of a review is answered with success, to the
\* user deleted_by names (the UPDATE of SoftDelete asks for deleted_at IS NULL).
THEOREM DeletionsExclude == Spec => []OneDeletionWins
<1>1. CInv => OneDeletionWins  BY DEF CInv
<1> QED  BY <1>1, CommunityInvariance, PTL

\* An answered review goes only by a deletion somebody asked for or with its
\* author: a compensation takes the review of its own creation, never another.
THEOREM AnsweredReviewsStay == Spec => []AnsweredIsKept
<1>1. CInv => AnsweredIsKept  BY DEF CInv
<1> QED  BY <1>1, CommunityInvariance, PTL

\* Every image row has its object and its review (uploadMedia before
\* CreateMany, ON DELETE CASCADE).
THEOREM MediaStayStored == Spec => []MediaAreStored
<1>1. CInv => MediaAreStored  BY DEF CInv
<1> QED  BY <1>1, CommunityInvariance, PTL

\* The saves and removals of a favourite that took effect alternate, and each
\* is answered with success once, unless its answer is lost (ON CONFLICT DO
\* NOTHING answers the second of two saves with an error, the DELETE the
\* second of two removals).
THEOREM SavesAndRemovalsAlternate == Spec => []SavesAlternate
<1>1. CInv => SavesAlternate  BY DEF CInv
<1> QED  BY <1>1, CommunityInvariance, PTL
=============================================================================
