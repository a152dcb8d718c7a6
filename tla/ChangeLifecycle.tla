---------------------------- MODULE ChangeLifecycle ----------------------------
(***************************************************************************)
(* What the destination workflow promises, one atomic step per operation:  *)
(* a change request is drafted, edited and submitted by its author, then   *)
(* approved or rejected.  Approval is the only step that touches the live  *)
(* catalogue, it publishes the content under review, and it is final.      *)
(* The workflow service is shown to implement this module when requests    *)
(* are served one at a time and no statement fails.                        *)
(*                                                                         *)
(* What becomes of a rejected request that its author edits is a parameter *)
(* because code and documentation differ: the state diagram and the table  *)
(* of states in Admin-Destination-Management-High-Level-Design.md (7.3)    *)
(* send it back to "draft", the service leaves it "rejected".              *)
(***************************************************************************)
CONSTANTS
  ChangeIds,  \* change requests
  Contents,   \* what a change request may propose
  NoContent,  \* what a request that does not exist yet proposes
  Reworked    \* the status of a rejected request after an edit: "draft" in the
              \*   design document, "rejected" in the service

VARIABLES
  status,     \* "absent" until drafted
  content,    \* what the request proposes
  published   \* the set of [change, content] that reached the catalogue

vars == <<status, content, published>>

Statuses == {"absent", "draft", "pending_review", "approved", "rejected"}

TypeOK ==
  /\ status \in [ChangeIds -> Statuses]
  /\ content \in [ChangeIds -> Contents \cup {NoContent}]
  /\ published \subseteq [change: ChangeIds, content: Contents \cup {NoContent}]

Init ==
  /\ status = [c \in ChangeIds |-> "absent"]
  /\ content = [c \in ChangeIds |-> NoContent]
  /\ published = {}

\* The author gives request c any content; no other request changes.
Propose(c) ==
  /\ content'[c] \in Contents
  /\ content' = [content EXCEPT ![c] = content'[c]]

Draft(c) ==
  /\ status[c] = "absent"
  /\ status' = [status EXCEPT ![c] = "draft"]
  /\ Propose(c)
  /\ UNCHANGED published

Edit(c) ==
  /\ status[c] \in {"draft", "rejected"}
  /\ status' = [status EXCEPT ![c] = IF @ = "rejected" THEN Reworked ELSE @]
  /\ Propose(c)
  /\ UNCHANGED published

Submit(c) ==
  /\ status[c] \in {"draft", "rejected"}
  /\ status' = [status EXCEPT ![c] = "pending_review"]
  /\ UNCHANGED <<content, published>>

Approve(c) ==
  /\ status[c] = "pending_review"
  /\ status' = [status EXCEPT ![c] = "approved"]
  /\ published' = published \cup {[change |-> c, content |-> content[c]]}
  /\ UNCHANGED content

Reject(c) ==
  /\ status[c] = "pending_review"
  /\ status' = [status EXCEPT ![c] = "rejected"]
  /\ UNCHANGED <<content, published>>

Next ==
  \E c \in ChangeIds : Draft(c) \/ Edit(c) \/ Submit(c) \/ Approve(c) \/ Reject(c)

Spec == Init /\ [][Next]_vars

-----------------------------------------------------------------------------
(* Exactly the approved requests reached the catalogue, each with the       *)
(* content it still shows and none of them twice.                           *)
ApprovedIsPublished ==
  published = {[change |-> c, content |-> content[c]] :
                 c \in {x \in ChangeIds : status[x] = "approved"}}
=============================================================================
