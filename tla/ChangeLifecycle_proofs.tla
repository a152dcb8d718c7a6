------------------------- MODULE ChangeLifecycle_proofs -------------------------
(***************************************************************************)
(* What the lifecycle of change requests guarantees about the catalogue.   *)
(***************************************************************************)
EXTENDS ChangeLifecycle, TLAPS

\* Statuses, contents and the catalogue keep their types.
LEMMA Types ==
  ASSUME Reworked \in {"draft", "rejected"} PROVE Spec => []TypeOK
<1>1. Init => TypeOK
  BY DEF Init, TypeOK, Statuses
<1>2. TypeOK /\ [Next]_vars => TypeOK'
  <2> SUFFICES ASSUME TypeOK, [Next]_vars PROVE TypeOK'
    OBVIOUS
  <2>1. CASE UNCHANGED vars
    BY <2>1 DEF vars, TypeOK
  <2>2. ASSUME NEW c \in ChangeIds, Draft(c) \/ Edit(c) PROVE TypeOK'
    BY <2>2 DEF TypeOK, Statuses, Draft, Edit, Propose
  <2>3. ASSUME NEW c \in ChangeIds, Submit(c) \/ Reject(c) PROVE TypeOK'
    BY <2>3 DEF TypeOK, Statuses, Submit, Reject
  <2>4. ASSUME NEW c \in ChangeIds, Approve(c) PROVE TypeOK'
    <3>1. content[c] \in Contents \cup {NoContent}
      BY DEF TypeOK
    <3>2. QED
      BY <2>4, <3>1 DEF TypeOK, Statuses, Approve
  <2>5. QED
    BY <2>1, <2>2, <2>3, <2>4 DEF Next
<1>3. QED
  BY <1>1, <1>2, PTL DEF Spec

(* The catalogue holds exactly what was approved, with the content the      *)
(* approved request still shows, and nothing else reached it, whichever of  *)
(* the two statuses a reworked request gets.                                *)
THEOREM CatalogueIsApproved ==
  ASSUME Reworked \in {"draft", "rejected"} PROVE Spec => []ApprovedIsPublished
<1>1. Init => ApprovedIsPublished
  BY DEF Init, ApprovedIsPublished
<1>2. TypeOK /\ ApprovedIsPublished /\ [Next]_vars => ApprovedIsPublished'
  <2> SUFFICES ASSUME TypeOK, ApprovedIsPublished, [Next]_vars
               PROVE  ApprovedIsPublished'
    OBVIOUS
  <2> DEFINE Approved == {x \in ChangeIds : status[x] = "approved"}
  <2>1. CASE UNCHANGED vars
    BY <2>1 DEF vars, ApprovedIsPublished
  <2>2. ASSUME NEW c \in ChangeIds, Draft(c) \/ Edit(c) PROVE ApprovedIsPublished'
    <3>1. published' = published /\ Approved' = Approved /\ c \notin Approved
      BY <2>2 DEF Draft, Edit, TypeOK
    <3>2. \A x \in Approved : content'[x] = content[x]
      BY <2>2, <3>1 DEF Draft, Edit, Propose, TypeOK
    <3>3. QED
      BY <3>1, <3>2 DEF ApprovedIsPublished
  <2>3. ASSUME NEW c \in ChangeIds, Submit(c) \/ Reject(c) PROVE ApprovedIsPublished'
    <3>1. Approved' = Approved
      BY <2>3 DEF Submit, Reject, TypeOK
    <3>2. QED
      BY <2>3, <3>1 DEF Submit, Reject, ApprovedIsPublished
  <2>4. ASSUME NEW c \in ChangeIds, Approve(c) PROVE ApprovedIsPublished'
    <3>1. Approved' = Approved \cup {c} /\ content' = content
      BY <2>4 DEF Approve, TypeOK
    <3>2. QED
      BY <2>4, <3>1 DEF Approve, ApprovedIsPublished
  <2>5. QED
    BY <2>1, <2>2, <2>3, <2>4 DEF Next
<1>3. QED
  BY <1>1, <1>2, Types, PTL DEF Spec
=============================================================================
