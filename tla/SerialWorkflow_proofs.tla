------------------------- MODULE SerialWorkflow_proofs -------------------------
(***************************************************************************)
(* The destination workflow when requests are served one at a time.  What  *)
(* a handler read is then still so when it writes: the workflow implements *)
(* the lifecycle of change requests, and approval is all or nothing as     *)
(* long as no statement fails.  With two handlers, or with a failure       *)
(* between two statements, the same properties are refuted by TLC.         *)
(***************************************************************************)
EXTENDS DestinationWorkflow_proofs

\* One request is in flight at a time.
OneHandler == \A g, h \in Handlers : g = h

\* The row in a handler's hand agrees with the table on what its checks read:
\* it is still editable, or still pending with the payload to be published.
FreshOK ==
  \A h \in Handlers :
    LET now == changes[req[h].id]  held == req[h].row
    IN /\ pc[h] = "save" => now.status = held.status
       /\ pc[h] = "submit" => Editable(now)
       /\ pc[h] \in {"apply", "record", "approve", "reject"} =>
            now.status = "pending_review" /\ now.payload = held.payload

\* The write p to the live table has its row in destination_version.
Versioned(p) ==
  \E v \in versions :
    v.destination_id = p.destination_id /\ v.version = p.row.version

\* The version a handler is about to record is not taken.
UnrecordedOK ==
  \A h \in Handlers : pc[h] = "record" => ~ Versioned(out[h])

\* Every write is that of an approved change, with its version, or that of the
\* handler which is still between the statements of Approve.
AccountedOK ==
  \A p \in publications :
    \/ changes[p.change].status = "approved" /\ Versioned(p)
    \/ \E h \in Handlers : out[h] = p /\ pc[h] = "record"
    \/ \E h \in Handlers : out[h] = p /\ pc[h] = "approve" /\ Versioned(p)

\* What every state of the workflow satisfies, however requests interleave.
Known == IInv /\ LiveOK /\ VersionsGapless

-----------------------------------------------------------------------------
(* Rows that statements leave                                               *)

\* After the UPDATE of row c, that row is the one written.
LEMMA RowWritten ==
  ASSUME Known, NEW c \in ChangeIds, NEW row,
         changes' = [changes EXCEPT ![c] = row]
  PROVE  changes'[c] = row /\ \A b \in ChangeIds : b # c => changes'[b] = changes[b]
BY DEF Known, IInv, TypeOK

\* The INSERT of CreateDraft.
LEMMA DraftInserted ==
  ASSUME NEW a \in Admins, NEW action \in Actions, NEW d \in DestIds \cup {Null},
         NEW fields \in Inputs, CreateDraft(a, action, d, fields)
  PROVE  /\ UNCHANGED <<dests, versions, publications, bucket, pc, req, out>>
         /\ \E c \in ChangeIds, row \in ChangeRow :
              /\ changes[c] = Null
              /\ changes' = [changes EXCEPT ![c] = row]
              /\ row.status = "draft"
              /\ row.payload \in Fields
<1> DEFINE row == [destination_id |-> d, action |-> action, payload |-> fields,
             status |-> "draft", draft_version |-> 1, submitted_by |-> a,
             reviewed_by |-> Null, published_version |-> 0]
<1>1. row \in ChangeRow /\ row.status = "draft" /\ row.payload \in Fields
  BY WorkflowAssumption DEF ChangeRow, ChangeStatuses
<1>2. \E c \in ChangeIds : changes[c] = Null /\ changes' = [changes EXCEPT ![c] = row]
  BY DEF CreateDraft
<1> HIDE DEF row
<1>3. QED
  BY <1>1, <1>2 DEF CreateDraft

\* The change a busy handler works on exists.
LEMMA BusyTyped ==
  ASSUME Known, NEW h \in Handlers, pc[h] # "idle"
  PROVE  /\ req[h].id \in ChangeIds
         /\ changes[req[h].id] # Null /\ changes[req[h].id] \in ChangeRow
         /\ req[h].row \in ChangeRow
BY DEF Known, IInv, TypeOK, HeldOK, Request

-----------------------------------------------------------------------------
(* The row in hand stays fresh                                              *)

\* Requests that begin, end or prepare a write leave the rows alone: what the
\* handler knows of its row is what it just read.
LEMMA FreshBegin ==
  ASSUME Known, OneHandler, NEW h \in Handlers, NEW a \in Admins, NEW c \in ChangeIds,
         NEW s \in {"form", "submit", "apply", "reject"},
         Begin(h, s, a, c, changes[c]),
         s = "submit" => Editable(changes[c]),
         s \in {"apply", "reject"} => changes[c].status = "pending_review"
  PROVE  FreshOK'
<1>1. changes' = changes /\ pc'[h] = s
  BY DEF Begin, tables, Known, IInv, TypeOK
<1>2. req'[h].id = c /\ req'[h].row = changes[c]
  BY DEF Begin, Known, IInv, TypeOK
<1>3. QED
  BY <1>1, <1>2 DEF FreshOK, OneHandler, Editable

\* A handler that answers holds nothing.
LEMMA FreshDone ==
  ASSUME Known, OneHandler, NEW h \in Handlers, Done(h)
  PROVE  FreshOK'
<1>1. pc'[h] = "idle"
  BY DEF Done, Known, IInv, TypeOK
<1>2. QED
  BY <1>1 DEF FreshOK, OneHandler

\* A new draft is nobody's row.
LEMMA FreshCreate ==
  ASSUME Known, FreshOK, NEW a \in Admins, NEW action \in Actions,
         NEW d \in DestIds \cup {Null}, NEW fields \in Inputs,
         CreateDraft(a, action, d, fields)
  PROVE  FreshOK'
<1>1. PICK c \in ChangeIds, row \in ChangeRow :
        changes[c] = Null /\ changes' = [changes EXCEPT ![c] = row]
  BY DraftInserted
<1>2. pc' = pc /\ req' = req
  BY DEF CreateDraft
<1>3. \A h \in Handlers : pc[h] # "idle" => changes'[req[h].id] = changes[req[h].id]
  BY <1>1, RowWritten, BusyTyped
<1>4. QED
  BY <1>2, <1>3 DEF FreshOK, Editable

\* An edit takes over the status of the row it read.
LEMMA FreshEdit ==
  ASSUME Known, OneHandler, NEW h \in Handlers,
         pc'[h] = "save", changes' = changes,
         req'[h].row.status = changes[req'[h].id].status
  PROVE  FreshOK'
BY DEF FreshOK, OneHandler

\* A handler that goes on with the approval of a row that is not written.
LEMMA FreshApproval ==
  ASSUME Known, FreshOK, OneHandler, NEW h \in Handlers,
         pc[h] \in {"apply", "record"}, pc'[h] \in {"record", "approve"},
         changes' = changes, req' = req
  PROVE  FreshOK'
BY DEF FreshOK, OneHandler

\* What an upload saves is a payload.
LEMMA UploadWrites ==
  ASSUME Known, NEW h \in Handlers, NEW a \in Admins, NEW c \in ChangeIds,
         NEW i \in Images,
         UploadHeroImage(h, a, c, i) \/ UploadGalleryImages(h, a, c, i)
  PROVE  \E fields \in Fields : Upload(h, a, c, i, fields)
<1>1. changes[c] # Null
  BY DEF UploadHeroImage, UploadGalleryImages, Upload
<1>2. changes[c].payload \in Fields
  BY <1>1, RowsTyped DEF Known, IInv
<1>3. CASE UploadHeroImage(h, a, c, i)
  BY <1>2, <1>3, UploadedFieldsType DEF UploadHeroImage
<1>4. CASE UploadGalleryImages(h, a, c, i)
  BY <1>2, <1>4, UploadedFieldsType DEF UploadGalleryImages
<1>5. QED
  BY <1>3, <1>4

\* The row a handler read stays as it read it until it writes.
LEMMA FreshStep ==
  ASSUME Known, FreshOK, OneHandler, [Next]_vars
  PROVE  FreshOK'
<1>1. CASE \E a \in Admins, action \in Actions, d \in DestIds \cup {Null},
             fields \in Inputs : CreateDraft(a, action, d, fields)
  BY <1>1, FreshCreate
<1>2. ASSUME NEW h \in Handlers, AuthorStep(h)
      PROVE  FreshOK'
  <2>1. CASE \E a \in Admins, c \in ChangeIds : OpenForm(h, a, c)
    BY <2>1, FreshBegin DEF OpenForm
  <2>2. CASE CloseForm(h) \/ SaveDraft(h) \/ MarkSubmitted(h)
    BY <2>2, FreshDone DEF CloseForm, SaveDraft, MarkSubmitted
  <2>3. CASE \E fields \in Inputs : UpdateDraft(h, fields)
    <3>1. PICK fields \in Inputs : UpdateDraft(h, fields)
      BY <2>3
    <3>2. /\ pc'[h] = "save" /\ changes' = changes /\ req[h] \in Request
          /\ req'[h] = [req[h] EXCEPT !.row = Edited(changes[req[h].id], fields)]
      BY <3>1 DEF UpdateDraft, tables, Known, IInv, TypeOK
    <3>3. /\ req'[h].id = req[h].id
          /\ req'[h].row = Edited(changes[req[h].id], fields)
      BY <3>2 DEF Request
    <3>4. changes[req[h].id] \in ChangeRow /\ fields \in Fields
      BY <3>1, BusyTyped, WorkflowAssumption DEF UpdateDraft
    <3>5. Edited(changes[req[h].id], fields).status = changes[req[h].id].status
      BY <3>4, EditedRow
    <3>6. QED
      BY <3>2, <3>3, <3>5, FreshEdit
  <2>4. CASE \E a \in Admins, c \in ChangeIds, i \in Images :
               UploadHeroImage(h, a, c, i) \/ UploadGalleryImages(h, a, c, i)
    <3>1. PICK a \in Admins, c \in ChangeIds, i \in Images, fields \in Fields :
            Upload(h, a, c, i, fields)
      BY <2>4, UploadWrites
    <3>2. changes[c] \in ChangeRow
      BY <3>1, RowsTyped DEF Upload, Known, IInv
    <3>3. /\ pc'[h] = "save" /\ changes' = changes
          /\ req'[h] = [actor |-> a, id |-> c, base |-> changes[c].payload,
                        row |-> Edited(changes[c], fields)]
      BY <3>1 DEF Upload, Known, IInv, TypeOK
    <3>4. req'[h].id = c /\ req'[h].row = Edited(changes[c], fields)
      BY <3>3
    <3>5. Edited(changes[c], fields).status = changes[c].status
      BY <3>2, EditedRow
    <3>6. QED
      BY <3>3, <3>4, <3>5, FreshEdit
  <2>5. CASE \E a \in Admins, c \in ChangeIds : SubmitDraft(h, a, c)
    BY <2>5, FreshBegin DEF SubmitDraft
  <2>6. QED
    BY <1>2, <2>1, <2>2, <2>3, <2>4, <2>5 DEF AuthorStep
<1>3. ASSUME NEW h \in Handlers, ReviewerStep(h)
      PROVE  FreshOK'
  <2>1. CASE \E a \in Admins, c \in ChangeIds : Approve(h, a, c) \/ Reject(h, a, c)
    BY <2>1, FreshBegin DEF Approve, Reject, Reviewable
  <2>2. CASE MarkApproved(h) \/ MarkRejected(h)
    BY <2>2, FreshDone DEF MarkApproved, MarkRejected, SetStatus
  <2>3. CASE ApplyCreate(h) \/ ApplyUpdate(h) \/ ApplyArchive(h) \/ ApplyHardDelete(h)
    <3>1. pc[h] = "apply" /\ (Refused(h) \/ \E d, row : Publish(h, d, row))
      BY <2>3, HardDeleteRefused
      DEF ApplyCreate, ApplyUpdate, ApplyArchive, ApplyHardDelete, Known
    <3>2. CASE \E d, row : Publish(h, d, row)
      BY <3>1, <3>2, FreshApproval DEF Publish, Known, IInv, TypeOK
    <3>3. QED
      BY <3>1, <3>2, FreshDone DEF Refused
  <2>4. CASE RecordVersion(h)
    <3>1. CASE Refused(h)
      BY <3>1, FreshDone DEF Refused
    <3>2. CASE /\ pc[h] = "record" /\ pc' = [pc EXCEPT ![h] = "approve"]
               /\ UNCHANGED <<changes, req>>
      BY <3>2, FreshApproval DEF Known, IInv, TypeOK
    <3>3. QED
      BY <2>4, <3>1, <3>2 DEF RecordVersion
  <2>5. QED
    BY <1>3, <2>1, <2>2, <2>3, <2>4 DEF ReviewerStep
<1>4. CASE \E h \in Handlers : Fail(h)
  BY <1>4, FreshDone DEF Fail, Refused
<1>5. CASE UNCHANGED vars
  BY <1>5 DEF vars, FreshOK, Editable
<1>6. QED
  BY <1>1, <1>2, <1>3, <1>4, <1>5 DEF Next

-----------------------------------------------------------------------------
(* Rows under review                                                        *)

\* A request writes the row it is about and no other: one that is still editable
\* when it is edited or submitted, still pending when it is decided.
LEMMA RequestWrites ==
  ASSUME Known, FreshOK, NEW h \in Handlers, AuthorStep(h) \/ ReviewerStep(h)
  PROVE  \/ UNCHANGED changes
         \/ SaveDraft(h) /\ Editable(changes[req[h].id])
         \/ MarkSubmitted(h) /\ Editable(changes[req[h].id])
         \/ MarkApproved(h) /\ changes[req[h].id].status = "pending_review"
         \/ MarkRejected(h) /\ changes[req[h].id].status = "pending_review"
<1>1. CASE AuthorStep(h)
  <2>1. CASE SaveDraft(h)
    <3>1. pc[h] = "save"
      BY <2>1 DEF SaveDraft
    <3>2. Editable(changes[req[h].id])
      BY <3>1 DEF FreshOK, Known, IInv, SavedOK, Editable
    <3>3. QED
      BY <2>1, <3>2
  <2>2. CASE MarkSubmitted(h)
    BY <2>2 DEF MarkSubmitted, FreshOK
  <2>3. CASE UNCHANGED changes
    BY <2>3
  <2>4. QED
    BY <1>1, <2>1, <2>2, <2>3
    DEF AuthorStep, OpenForm, CloseForm, UpdateDraft, UploadHeroImage,
        UploadGalleryImages, Upload, SubmitDraft, Begin, tables
<1>2. CASE ReviewerStep(h)
  <2>1. CASE MarkApproved(h) \/ MarkRejected(h)
    BY <2>1 DEF MarkApproved, MarkRejected, FreshOK
  <2>2. CASE UNCHANGED changes
    BY <2>2
  <2>3. QED
    BY <1>2, <2>1, <2>2
    DEF ReviewerStep, Approve, ApplyCreate, ApplyUpdate, ApplyArchive, ApplyHardDelete,
        RecordVersion, Reject, Begin, Publish, Refused, tables
<1>3. QED
  BY <1>1, <1>2

\* What SetStatus leaves: the payload, and the status it sets.
LEMMA DecidedRow ==
  ASSUME Known, NEW h \in Handlers, NEW s \in ChangeStatuses, NEW n \in Nat,
         pc[h] # "idle", SetStatus(h, s, n)
  PROVE  /\ changes'[req[h].id] # Null
         /\ changes'[req[h].id].payload = changes[req[h].id].payload
         /\ changes'[req[h].id].status = s
         /\ \A b \in ChangeIds : b # req[h].id => changes'[b] = changes[b]
<1> DEFINE c == req[h].id
           row == [changes[c] EXCEPT !.status = s, !.reviewed_by = req[h].actor,
                                     !.published_version = n]
<1>1. c \in ChangeIds /\ changes[c] \in ChangeRow /\ changes[c] # Null
  BY BusyTyped
<1>2. changes' = [changes EXCEPT ![c] = row]
  BY DEF SetStatus
<1>3. row.payload = changes[c].payload /\ row.status = s
  BY <1>1 DEF ChangeRow
<1>4. req[h].actor \in Admins
  BY DEF Known, IInv, TypeOK, Request
<1>5. row # Null
  <2>1. row \in ChangeRow
    BY Zenon, <1>1, <1>4, DecidedRowType
  <2>2. QED
    BY <2>1, WorkflowAssumption
<1> HIDE DEF row, c
<1>6. changes'[c] = row /\ \A b \in ChangeIds : b # c => changes'[b] = changes[b]
  BY <1>1, <1>2, RowWritten
<1>7. QED
  BY <1>1, <1>3, <1>5, <1>6 DEF c

\* What a saved draft leaves: the status, and the payload in hand.
LEMMA SavedRow ==
  ASSUME Known, FreshOK, NEW h \in Handlers, SaveDraft(h)
  PROVE  \/ changes' = changes
         \/ /\ changes'[req[h].id] # Null
            /\ changes'[req[h].id].payload = req[h].row.payload
            /\ changes'[req[h].id].status = changes[req[h].id].status
            /\ \A b \in ChangeIds : b # req[h].id => changes'[b] = changes[b]
<1> DEFINE c == req[h].id
           m == req[h].row
           row == [changes[c] EXCEPT !.payload = m.payload,
                      !.draft_version = m.draft_version, !.status = m.status,
                      !.reviewed_by = m.reviewed_by,
                      !.published_version = m.published_version]
<1>1. pc[h] = "save" /\ m.status = changes[c].status
  BY DEF SaveDraft, FreshOK
<1>2. c \in ChangeIds /\ changes[c] \in ChangeRow /\ m \in ChangeRow
  BY <1>1, BusyTyped
<1>3. changes' = changes \/ changes' = [changes EXCEPT ![c] = row]
  BY DEF SaveDraft
<1>4. row.payload = m.payload /\ row.status = m.status
  BY <1>2 DEF ChangeRow
<1>5. row # Null
  BY <1>2, SavedRowType, WorkflowAssumption
<1> HIDE DEF row, c, m
<1>6. CASE changes' = [changes EXCEPT ![c] = row]
  <2>1. changes'[c] = row /\ \A b \in ChangeIds : b # c => changes'[b] = changes[b]
    BY <1>2, <1>6, RowWritten
  <2>2. QED
    BY <1>1, <1>4, <1>5, <2>1 DEF c, m
<1>7. QED
  BY <1>3, <1>6

\* What a submission leaves: the payload, and the row pending.
LEMMA SubmittedRow ==
  ASSUME Known, FreshOK, NEW h \in Handlers, MarkSubmitted(h)
  PROVE  /\ changes'[req[h].id] # Null
         /\ changes'[req[h].id].payload = changes[req[h].id].payload
         /\ changes'[req[h].id].status = "pending_review"
         /\ \A b \in ChangeIds : b # req[h].id => changes'[b] = changes[b]
<1> DEFINE c == req[h].id
           row == [changes[c] EXCEPT !.status = "pending_review"]
<1>1. pc[h] = "submit" /\ Editable(changes[c])
  BY DEF MarkSubmitted, FreshOK
<1>2. c \in ChangeIds /\ changes[c] \in ChangeRow
  BY <1>1, BusyTyped
<1>3. changes' = [changes EXCEPT ![c] = row]
  BY <1>1 DEF MarkSubmitted
<1>4. row.payload = changes[c].payload /\ row.status = "pending_review"
  BY <1>2 DEF ChangeRow
<1>5. row # Null
  <2>1. row \in ChangeRow
    BY <1>2 DEF ChangeRow, ChangeStatuses
  <2>2. QED
    BY <2>1, WorkflowAssumption
<1> HIDE DEF row, c
<1>6. changes'[c] = row /\ \A b \in ChangeIds : b # c => changes'[b] = changes[b]
  BY <1>2, <1>3, RowWritten
<1>7. QED
  BY <1>4, <1>5, <1>6 DEF c

\* The two uses of SetStatus.
LEMMA SetStatusTyped ==
  ASSUME Known, NEW h \in Handlers, MarkApproved(h) \/ MarkRejected(h)
  PROVE  \/ /\ MarkApproved(h) /\ out[h].row.version \in Nat
            /\ SetStatus(h, "approved", out[h].row.version)
         \/ MarkRejected(h) /\ SetStatus(h, "rejected", 0)
<1>1. CASE MarkApproved(h)
  <2>1. out[h] \in Publication
    BY <1>1 DEF MarkApproved, Known, IInv, TypeOK
  <2>2. QED
    BY <1>1, <2>1 DEF MarkApproved, Publication, DestRow
<1>2. CASE MarkRejected(h)
  BY <1>2 DEF MarkRejected
<1>3. QED
  BY <1>1, <1>2

\* A row under review, or approved, keeps what the reviewer was shown.
LEMMA LockedStep ==
  ASSUME Known, FreshOK, [Next]_vars, NEW c \in ChangeIds, changes[c] # Null,
         changes[c].status \in {"pending_review", "approved"}
  PROVE  /\ changes'[c].payload = changes[c].payload
         /\ changes'[c].status # "draft"
         /\ changes[c].status = "approved" => changes'[c].status = "approved"
<1>1. CASE UNCHANGED changes
  BY <1>1
<1>2. CASE \E a \in Admins, action \in Actions, d \in DestIds \cup {Null},
             fields \in Inputs : CreateDraft(a, action, d, fields)
  <2>1. PICK b \in ChangeIds, row \in ChangeRow :
          changes[b] = Null /\ changes' = [changes EXCEPT ![b] = row]
    BY <1>2, DraftInserted
  <2>2. QED
    BY <2>1, RowWritten
<1>3. ASSUME NEW h \in Handlers, SaveDraft(h) \/ MarkSubmitted(h),
             Editable(changes[req[h].id])
      PROVE  changes'[c] = changes[c]
  <2>1. c # req[h].id
    BY <1>3 DEF Editable
  <2>2. QED
    BY <1>3, <2>1, SavedRow, SubmittedRow
<1>4. ASSUME NEW h \in Handlers, MarkApproved(h) \/ MarkRejected(h),
             changes[req[h].id].status = "pending_review"
      PROVE  /\ changes'[c].payload = changes[c].payload
             /\ changes'[c].status # "draft"
             /\ changes[c].status = "approved" => changes'[c].status = "approved"
  <2>1. pc[h] # "idle"
    BY <1>4 DEF MarkApproved, MarkRejected
  <2>2. PICK s \in {"approved", "rejected"}, n \in Nat : SetStatus(h, s, n)
    BY <1>4, SetStatusTyped
  <2>3. /\ changes'[req[h].id].payload = changes[req[h].id].payload
        /\ changes'[req[h].id].status = s
        /\ \A b \in ChangeIds : b # req[h].id => changes'[b] = changes[b]
    BY <2>1, <2>2, DecidedRow DEF ChangeStatuses
  <2>4. CASE c = req[h].id
    BY <1>4, <2>3, <2>4
  <2>5. CASE c # req[h].id
    BY <2>3, <2>5
  <2>6. QED
    BY <2>4, <2>5
<1>5. CASE \E h \in Handlers : AuthorStep(h) \/ ReviewerStep(h)
  BY <1>1, <1>3, <1>4, <1>5, RequestWrites
<1>6. CASE UNCHANGED vars \/ \E h \in Handlers : Fail(h)
  BY <1>1, <1>6 DEF vars, Fail, Refused, tables
<1>7. QED
  BY <1>2, <1>5, <1>6 DEF Next

\* A rejected row stays rejected or is submitted.
LEMMA RejectedStep ==
  ASSUME Known, FreshOK, [Next]_vars, NEW c \in ChangeIds, changes[c] # Null,
         changes[c].status = "rejected"
  PROVE  changes'[c].status \in {"rejected", "pending_review"}
<1>1. CASE UNCHANGED changes
  BY <1>1
<1>2. CASE \E a \in Admins, action \in Actions, d \in DestIds \cup {Null},
             fields \in Inputs : CreateDraft(a, action, d, fields)
  <2>1. PICK b \in ChangeIds, row \in ChangeRow :
          changes[b] = Null /\ changes' = [changes EXCEPT ![b] = row]
    BY <1>2, DraftInserted
  <2>2. QED
    BY <2>1, RowWritten
<1>3. ASSUME NEW h \in Handlers, SaveDraft(h) \/ MarkSubmitted(h)
      PROVE  changes'[c].status \in {"rejected", "pending_review"}
  <2>1. CASE c = req[h].id
    BY <1>3, <2>1, SavedRow, SubmittedRow
  <2>2. CASE c # req[h].id
    BY <1>3, <2>2, SavedRow, SubmittedRow
  <2>3. QED
    BY <2>1, <2>2
<1>4. ASSUME NEW h \in Handlers, MarkApproved(h) \/ MarkRejected(h),
             changes[req[h].id].status = "pending_review"
      PROVE  changes'[c] = changes[c]
  <2>1. pc[h] # "idle"
    BY <1>4 DEF MarkApproved, MarkRejected
  <2>2. PICK s \in {"approved", "rejected"}, n \in Nat : SetStatus(h, s, n)
    BY <1>4, SetStatusTyped
  <2>3. c # req[h].id
    BY <1>4
  <2>4. QED
    BY <2>1, <2>2, <2>3, DecidedRow DEF ChangeStatuses
<1>5. CASE \E h \in Handlers : AuthorStep(h) \/ ReviewerStep(h)
  BY <1>1, <1>3, <1>4, <1>5, RequestWrites
<1>6. CASE UNCHANGED vars \/ \E h \in Handlers : Fail(h)
  BY <1>1, <1>6 DEF vars, Fail, Refused, tables
<1>7. QED
  BY <1>2, <1>5, <1>6 DEF Next

-----------------------------------------------------------------------------
(* Writes to the live table and their versions                              *)

Accounts == UnrecordedOK /\ AccountedOK /\ PublishedOnce

\* An approved change stays approved, and nothing is written about it.
LEMMA ApprovedFinal ==
  ASSUME Known, FreshOK, [Next]_vars, NEW p \in publications,
         changes[p.change].status = "approved"
  PROVE  changes'[p.change].status = "approved"
<1>1. p.change \in ChangeIds /\ changes[p.change] # Null
  BY DEF Known, IInv, TypeOK, Publication, HistoryOK
<1>2. QED
  BY <1>1, LockedStep

\* The number of the next write is not taken in destination_version.
LEMMA NextNumberFree ==
  ASSUME Known, NEW d \in DestIds, NEW row \in DestRow, RowStep(d, row),
         NEW v \in versions, v.destination_id = d
  PROVE  v.version # row.version
<1>1. PICK p \in publications : p.destination_id = d /\ p.row.version = v.version
  BY DEF Known, IInv, SnapshotsFaithful
<1>2. dests[d] # Null
  BY <1>1 DEF Known, LiveOK
<1>3. p.row.version \in FirstVersion(d) .. dests[d].version
  BY <1>1, <1>2 DEF Known, VersionsGapless
<1>4. dests[d].version \in Nat /\ FirstVersion(d) \in Nat
  BY <1>2 DEF Known, IInv, TypeOK, DestRow, FirstVersion
<1>5. row.version = dests[d].version + 1
  BY <1>2 DEF RowStep
<1>6. QED
  BY <1>1, <1>3, <1>4, <1>5

\* The write of an approval is the first of its change, and not recorded yet.
LEMMA AccountsPublish ==
  ASSUME Known, FreshOK, Accounts, OneHandler, [Next]_vars, NEW h \in Handlers,
         NEW d \in DestIds, NEW row \in DestRow,
         pc[h] = "apply", Publish(h, d, row), RowStep(d, row)
  PROVE  Accounts'
<1> DEFINE p == [destination_id |-> d, change |-> req[h].id,
                 fields |-> req[h].row.payload, row |-> row]
<1>1. /\ publications' = publications \cup {p} /\ versions' = versions
      /\ changes' = changes /\ pc'[h] = "record" /\ out'[h] = p
  BY DEF Publish, Known, IInv, TypeOK
<1>2. p.destination_id = d /\ p.change = req[h].id /\ p.row = row
  OBVIOUS
<1> HIDE DEF p
<1>3. ~ Versioned(p)
  BY <1>2, NextNumberFree DEF Versioned
<1>4. UnrecordedOK'
  BY <1>1, <1>3 DEF UnrecordedOK, Versioned, OneHandler
<1>5. \A q \in publications : changes[q.change].status = "approved" /\ Versioned(q)
  BY DEF Accounts, AccountedOK, OneHandler
<1>6. AccountedOK'
  BY <1>1, <1>5 DEF AccountedOK, Versioned
<1>7. changes[req[h].id].status = "pending_review"
  BY DEF FreshOK
<1>8. \A q \in publications : q.change # p.change
  BY <1>2, <1>5, <1>7
<1>9. PublishedOnce'
  BY <1>1, <1>8 DEF PublishedOnce, Accounts
<1>10. QED
  BY <1>4, <1>6, <1>9 DEF Accounts

\* A write that is about to be recorded finds its number free.
LEMMA VersionAccepted ==
  ASSUME Known, Accounts, NEW h \in Handlers, RecordVersion(h)
  PROVE  /\ versions' = versions \cup
              {[destination_id |-> out[h].destination_id,
                change_request_id |-> out[h].change,
                version |-> out[h].row.version, snapshot |-> out[h].row,
                created_by |-> req[h].actor]}
         /\ pc[h] = "record" /\ pc' = [pc EXCEPT ![h] = "approve"]
         /\ UNCHANGED <<changes, dests, publications, bucket, req, out>>
<1>1. pc[h] = "record"
  BY DEF RecordVersion
<1>2. out[h] \in publications
  BY <1>1 DEF Known, IInv, OutOK
<1>3. dests[out[h].destination_id] # Null
  BY <1>2 DEF Known, LiveOK
<1>4. VersionInsertable(out[h].destination_id, out[h].row.version)
  BY <1>1, <1>3 DEF VersionInsertable, Accounts, UnrecordedOK, Versioned
<1>5. QED
  BY <1>1, <1>4 DEF RecordVersion

\* The version row of a write accounts for it until the change is approved.
LEMMA AccountsRecord ==
  ASSUME Known, FreshOK, Accounts, OneHandler, [Next]_vars,
         NEW h \in Handlers, RecordVersion(h)
  PROVE  Accounts'
<1> DEFINE v == [destination_id |-> out[h].destination_id,
                 change_request_id |-> out[h].change,
                 version |-> out[h].row.version, snapshot |-> out[h].row,
                 created_by |-> req[h].actor]
<1>1. /\ versions' = versions \cup {v}
      /\ pc[h] = "record" /\ pc'[h] = "approve"
      /\ changes' = changes /\ publications' = publications /\ out' = out
  BY VersionAccepted DEF Known, IInv, TypeOK
<1>2. v.destination_id = out[h].destination_id /\ v.version = out[h].row.version
  OBVIOUS
<1> HIDE DEF v
<1>3. UnrecordedOK'
  BY <1>1 DEF UnrecordedOK, OneHandler
<1>4. \A p : Versioned(p) => Versioned(p)'
  BY <1>1 DEF Versioned
<1>5. Versioned(out[h])'
  BY <1>1, <1>2 DEF Versioned
<1>6. AccountedOK'
  BY <1>1, <1>4, <1>5 DEF Accounts, AccountedOK, OneHandler
<1>7. PublishedOnce'
  BY <1>1 DEF Accounts, PublishedOnce
<1>8. QED
  BY <1>3, <1>6, <1>7 DEF Accounts

\* The change is approved last: then its write is accounted for.
LEMMA AccountsApproved ==
  ASSUME Known, FreshOK, Accounts, OneHandler, [Next]_vars,
         NEW h \in Handlers, MarkApproved(h)
  PROVE  Accounts'
<1>1. /\ pc[h] = "approve" /\ pc'[h] = "idle"
      /\ SetStatus(h, "approved", out[h].row.version)
      /\ versions' = versions /\ publications' = publications
  BY DEF MarkApproved, SetStatus, Done, Known, IInv, TypeOK
<1>2. changes'[req[h].id].status = "approved"
  <2>1. out[h].row.version \in Nat
    BY <1>1 DEF Known, IInv, TypeOK, Publication, DestRow
  <2>2. QED
    BY <1>1, <2>1, DecidedRow DEF ChangeStatuses
<1>3. out[h].change = req[h].id
  BY <1>1 DEF Known, IInv, OutOK
<1>4. UnrecordedOK'
  BY <1>1 DEF UnrecordedOK, OneHandler
<1>5. \A p \in publications :
        changes'[p.change].status = "approved" /\ Versioned(p)
  BY <1>1, <1>2, <1>3, ApprovedFinal DEF Accounts, AccountedOK, OneHandler
<1>6. AccountedOK'
  BY <1>1, <1>5 DEF AccountedOK, Versioned
<1>7. PublishedOnce'
  BY <1>1 DEF Accounts, PublishedOnce
<1>8. QED
  BY <1>4, <1>6, <1>7 DEF Accounts

\* Steps away from an approval write neither the live table nor a version.
LEMMA AccountsAside ==
  ASSUME Known, FreshOK, Accounts, [Next]_vars,
         UNCHANGED <<versions, publications>>,
         \/ UNCHANGED <<pc, out>>
         \/ \A h \in Handlers : pc[h] \notin {"record", "approve"} /\ pc'[h] # "record"
  PROVE  Accounts'
<1>1. UnrecordedOK'
  BY DEF Accounts, UnrecordedOK, Versioned
<1>2. \A p \in publications : changes[p.change].status = "approved" =>
        changes'[p.change].status = "approved"
  BY ApprovedFinal
<1>3. AccountedOK'
  BY <1>2 DEF Accounts, AccountedOK, Versioned
<1>4. PublishedOnce'
  BY DEF Accounts, PublishedOnce
<1>5. QED
  BY <1>1, <1>3, <1>4 DEF Accounts

\* A step of an approval, the answer of one, or a step away from approvals.
LEMMA ApprovalSteps ==
  ASSUME Known, NEW h \in Handlers, AuthorStep(h) \/ ReviewerStep(h)
  PROVE  \/ RecordVersion(h)
         \/ MarkApproved(h)
         \/ \E d \in DestIds, row \in DestRow :
              pc[h] = "apply" /\ Publish(h, d, row) /\ RowStep(d, row)
         \/ /\ UNCHANGED <<dests, versions, publications>>
            /\ pc[h] \notin {"record", "approve"}
            /\ pc'[h] \notin {"record", "approve"}
<1> DEFINE Aside == /\ UNCHANGED <<dests, versions, publications>>
                    /\ pc[h] \notin {"record", "approve"}
                    /\ pc'[h] \notin {"record", "approve"}
<1>1. pc \in [Handlers -> Steps]
  BY DEF Known, IInv, TypeOK
<1>2. CASE AuthorStep(h)
  <2>1. CASE \E a \in Admins, c \in ChangeIds : OpenForm(h, a, c) \/ SubmitDraft(h, a, c)
    BY <1>1, <2>1 DEF OpenForm, SubmitDraft, Begin, tables
  <2>2. CASE \E a \in Admins, c \in ChangeIds, i \in Images :
               UploadHeroImage(h, a, c, i) \/ UploadGalleryImages(h, a, c, i)
    <3>1. PICK a, c, i, fields : Upload(h, a, c, i, fields)
      BY <2>2 DEF UploadHeroImage, UploadGalleryImages
    <3>2. QED
      BY <1>1, <3>1 DEF Upload
  <2>3. CASE \E fields \in Inputs : UpdateDraft(h, fields)
    BY <1>1, <2>3 DEF UpdateDraft, tables
  <2>4. CASE CloseForm(h) \/ SaveDraft(h) \/ MarkSubmitted(h)
    BY <1>1, <2>4 DEF CloseForm, SaveDraft, MarkSubmitted, Done, tables
  <2> HIDE DEF Aside
  <2>5. QED
    BY <1>2, <2>1, <2>2, <2>3, <2>4 DEF AuthorStep
<1>3. CASE ReviewerStep(h)
  <2>1. CASE \/ \E a \in Admins, c \in ChangeIds : Approve(h, a, c) \/ Reject(h, a, c)
             \/ MarkRejected(h)
    BY <1>1, <2>1 DEF Approve, Reject, MarkRejected, SetStatus, Begin, Done, tables
  <2>2. CASE ApplyCreate(h) \/ ApplyUpdate(h) \/ ApplyArchive(h) \/ ApplyHardDelete(h)
    <3>1. CASE pc[h] = "apply" /\ Refused(h)
      BY <1>1, <3>1 DEF Refused, Done, tables
    <3>2. QED
      BY <2>2, <3>1, ApplyStep DEF Known
  <2>3. QED
    BY <1>3, <2>1, <2>2 DEF ReviewerStep
<1>4. QED
  BY <1>2, <1>3

\* Without failures, the accounts hold from one step to the next.
LEMMA AccountsStep ==
  ASSUME Known, FreshOK, Accounts, OneHandler, ~ MayFail, [Next]_vars
  PROVE  Accounts'
<1>1. CASE \E a \in Admins, action \in Actions, d \in DestIds \cup {Null},
             fields \in Inputs : CreateDraft(a, action, d, fields)
  BY <1>1, AccountsAside DEF CreateDraft
<1>2. ASSUME NEW h \in Handlers, AuthorStep(h) \/ ReviewerStep(h)
      PROVE  Accounts'
  <2>1. CASE RecordVersion(h)
    BY <2>1, AccountsRecord
  <2>2. CASE MarkApproved(h)
    BY <2>2, AccountsApproved
  <2>3. CASE \E d \in DestIds, row \in DestRow :
               pc[h] = "apply" /\ Publish(h, d, row) /\ RowStep(d, row)
    BY <2>3, AccountsPublish
  <2>4. CASE /\ UNCHANGED <<dests, versions, publications>>
             /\ pc[h] \notin {"record", "approve"}
             /\ pc'[h] \notin {"record", "approve"}
    BY <2>4, AccountsAside DEF OneHandler
  <2>5. QED
    BY <1>2, <2>1, <2>2, <2>3, <2>4, ApprovalSteps
<1>3. CASE UNCHANGED vars
  BY <1>3, AccountsAside DEF vars
<1>4. QED
  BY <1>1, <1>2, <1>3 DEF Next, Fail

-----------------------------------------------------------------------------
(* What one request at a time guarantees                                    *)

\* With one handler the row in hand is fresh, also when statements fail.
LEMMA FreshInvariance ==
  ASSUME OneHandler PROVE Spec => [](Known /\ FreshOK)
<1>1. Spec => []Known
  BY Invariance, LiveInvariance, PTL DEF Known
<1>2. Init => FreshOK
  BY DEF Init, FreshOK
<1>3. Known /\ FreshOK /\ [Next]_vars => FreshOK'
  BY FreshStep
<1>4. QED
  BY <1>1, <1>2, <1>3, PTL DEF Spec

\* With one handler and no failure every write is accounted for.
LEMMA AccountsInvariance ==
  ASSUME OneHandler, ~ MayFail PROVE Spec => []Accounts
<1>1. Init => Accounts
  BY DEF Init, Accounts, UnrecordedOK, AccountedOK, PublishedOnce
<1>2. Known /\ FreshOK /\ Accounts /\ [Next]_vars => Accounts'
  BY AccountsStep
<1>3. QED
  BY <1>1, <1>2, FreshInvariance, PTL DEF Spec

(* Served one at a time, requests leave a change under review or approved   *)
(* alone, even if statements fail: UpdateDraft, the uploads and SubmitDraft *)
(* check the status on a row that is still the row.                         *)
THEOREM SerialRequestsLock ==
  ASSUME OneHandler PROVE Spec => LockedWhilePending
<1> DEFINE A == \A c \in ChangeIds :
       changes[c] # Null /\ changes[c].status \in {"pending_review", "approved"} =>
         /\ changes'[c].payload = changes[c].payload
         /\ changes'[c].status # "draft"
         /\ changes[c].status = "approved" => changes'[c].status = "approved"
<1>1. Known /\ FreshOK /\ [Next]_vars => A
  BY LockedStep
<1>2. QED
  BY <1>1, FreshInvariance, PTL DEF Spec, LockedWhilePending

(* Served one at a time, requests never turn a rejected change back into a  *)
(* draft, as the design document has it on an edit: it stays rejected until *)
(* it is submitted again, also when statements fail.                        *)
THEOREM SerialRejectedStays ==
  ASSUME OneHandler PROVE Spec => RejectedUntilResubmitted
<1> DEFINE A == \A c \in ChangeIds :
       changes[c] # Null /\ changes[c].status = "rejected" =>
         changes'[c].status \in {"rejected", "pending_review"}
<1>1. Known /\ FreshOK /\ [Next]_vars => A
  BY RejectedStep
<1>2. QED
  BY <1>1, FreshInvariance, PTL DEF Spec, RejectedUntilResubmitted

(* Served one at a time and without failures, approval is all or nothing:   *)
(* between requests every write to the live table has its version row and   *)
(* its change is marked approved.                                           *)
THEOREM SerialApprovalAtomic ==
  ASSUME OneHandler, ~ MayFail PROVE Spec => []ApprovalAtomic
<1>1. Accounts => ApprovalAtomic
  BY DEF Accounts, AccountedOK, ApprovalAtomic, Versioned
<1>2. QED
  BY <1>1, AccountsInvariance, PTL

(* Served one at a time and without failures, a change is applied by one    *)
(* write to the live table.                                                 *)
THEOREM SerialPublishedOnce ==
  ASSUME OneHandler, ~ MayFail PROVE Spec => []PublishedOnce
<1>1. Accounts => PublishedOnce
  BY DEF Accounts
<1>2. QED
  BY <1>1, AccountsInvariance, PTL

-----------------------------------------------------------------------------
(* The lifecycle of change requests                                         *)

\* What the refinement mapping of Lifecycle takes for its content and published.
ContentOf ==
  [c \in ChangeIds |-> IF changes[c] = Null THEN Null ELSE changes[c].payload]

PublishedOf == {[change |-> p.change, content |-> p.fields] : p \in publications}

\* The status an approval in progress already shows.
Deciding(c) == \E h \in Handlers : pc[h] \in {"record", "approve"} /\ req[h].id = c

StatusOf(c) ==
  IF changes[c] = Null THEN "absent"
  ELSE IF Deciding(c) THEN "approved" ELSE changes[c].status

\* A step that leaves the three as they are is no step of the lifecycle.
LEMMA MapsStutter ==
  ASSUME \A c \in ChangeIds : StatusOf(c)' = StatusOf(c),
         ContentOf' = ContentOf, PublishedOf' = PublishedOf
  PROVE  UNCHANGED Lifecycle!vars
<1>1. LifecycleStatus' = LifecycleStatus
  BY DEF LifecycleStatus, StatusOf, Deciding
<1>2. QED
  BY <1>1 DEF Lifecycle!vars, ContentOf, PublishedOf

\* The status of request c alone moves to s.
Moves(c, s) ==
  /\ StatusOf(c)' = s
  /\ \A b \in ChangeIds : b # c => StatusOf(b)' = StatusOf(b)

LEMMA MapsMove ==
  ASSUME NEW c \in ChangeIds, NEW s, Moves(c, s)
  PROVE  LifecycleStatus' = [LifecycleStatus EXCEPT ![c] = s]
<1>1. LifecycleStatus = [x \in ChangeIds |-> StatusOf(x)]
  BY DEF LifecycleStatus, StatusOf, Deciding
<1>2. LifecycleStatus' = [x \in ChangeIds |-> StatusOf(x)']
  BY DEF LifecycleStatus, StatusOf, Deciding
<1>3. QED
  BY <1>1, <1>2 DEF Moves

LEMMA StatusValue ==
  ASSUME NEW c \in ChangeIds
  PROVE  LifecycleStatus[c] = StatusOf(c)
BY DEF LifecycleStatus, StatusOf, Deciding

\* The content of request c alone becomes another payload.
Proposes(c) ==
  /\ changes'[c] # Null /\ changes'[c].payload \in Fields
  /\ \A b \in ChangeIds : b # c => changes'[b] = changes[b]

LEMMA MapsPropose ==
  ASSUME NEW c \in ChangeIds, Proposes(c)
  PROVE  Lifecycle!Propose(c)
BY DEF Proposes, Lifecycle!Propose

\* A draft, an edit, a submission and a rejection are those of the lifecycle.
LEMMA MapsDraft ==
  ASSUME NEW c \in ChangeIds, StatusOf(c) = "absent", Moves(c, "draft"),
         Proposes(c), PublishedOf' = PublishedOf
  PROVE  Lifecycle!Next
BY MapsMove, StatusValue, MapsPropose
DEF Lifecycle!Next, Lifecycle!Draft, PublishedOf

LEMMA MapsEdit ==
  ASSUME NEW c \in ChangeIds, StatusOf(c) \in {"draft", "rejected"},
         \A b \in ChangeIds : StatusOf(b)' = StatusOf(b),
         Proposes(c), PublishedOf' = PublishedOf
  PROVE  Lifecycle!Next
<1>1. LifecycleStatus' = LifecycleStatus
  BY DEF LifecycleStatus, StatusOf, Deciding
<1>2. LifecycleStatus' =
        [LifecycleStatus EXCEPT ![c] = IF @ = "rejected" THEN "rejected" ELSE @]
  BY <1>1 DEF LifecycleStatus
<1>3. QED
  BY <1>2, StatusValue, MapsPropose DEF Lifecycle!Next, Lifecycle!Edit, PublishedOf

LEMMA MapsSubmit ==
  ASSUME NEW c \in ChangeIds, StatusOf(c) \in {"draft", "rejected"},
         Moves(c, "pending_review"), ContentOf' = ContentOf, PublishedOf' = PublishedOf
  PROVE  Lifecycle!Next
BY MapsMove, StatusValue
DEF Lifecycle!Next, Lifecycle!Submit, ContentOf, PublishedOf

LEMMA MapsReject ==
  ASSUME NEW c \in ChangeIds, StatusOf(c) = "pending_review",
         Moves(c, "rejected"), ContentOf' = ContentOf, PublishedOf' = PublishedOf
  PROVE  Lifecycle!Next
BY MapsMove, StatusValue
DEF Lifecycle!Next, Lifecycle!Reject, ContentOf, PublishedOf

\* An approval publishes what the request proposes.
LEMMA MapsApprove ==
  ASSUME NEW c \in ChangeIds, StatusOf(c) = "pending_review",
         Moves(c, "approved"), ContentOf' = ContentOf,
         PublishedOf' = PublishedOf \cup {[change |-> c, content |-> ContentOf[c]]}
  PROVE  Lifecycle!Next
BY MapsMove, StatusValue
DEF Lifecycle!Next, Lifecycle!Approve, ContentOf, PublishedOf

\* CreateDraft drafts.
LEMMA RefineCreate ==
  ASSUME Known, NEW a \in Admins, NEW action \in Actions,
         NEW d \in DestIds \cup {Null}, NEW fields \in Inputs,
         CreateDraft(a, action, d, fields)
  PROVE  Lifecycle!Next
<1>1. PICK c \in ChangeIds, row \in ChangeRow :
        /\ changes[c] = Null /\ changes' = [changes EXCEPT ![c] = row]
        /\ row.status = "draft" /\ row.payload \in Fields
  BY DraftInserted
<1>2. UNCHANGED <<pc, req, publications>>
  BY DraftInserted
<1>3. changes'[c] = row /\ row # Null
      /\ \A b \in ChangeIds : b # c => changes'[b] = changes[b]
  BY <1>1, RowWritten, WorkflowAssumption
<1>4. ~ Deciding(c)
  BY <1>1, BusyTyped DEF Deciding
<1>5. \A b \in ChangeIds : Deciding(b)' = Deciding(b)
  BY <1>2 DEF Deciding
<1>6. StatusOf(c) = "absent"
  BY <1>1 DEF StatusOf
<1>7. Moves(c, "draft")
  BY <1>1, <1>3, <1>4, <1>5 DEF Moves, StatusOf
<1>8. Proposes(c)
  BY <1>1, <1>3 DEF Proposes
<1>9. QED
  BY <1>2, <1>6, <1>7, <1>8, MapsDraft DEF PublishedOf

\* A handler outside Approve's statements: the statuses are those of the rows.
LEMMA StatusOutside ==
  ASSUME OneHandler, NEW h \in Handlers, pc[h] \notin {"record", "approve"},
         NEW c \in ChangeIds
  PROVE  StatusOf(c) = IF changes[c] = Null THEN "absent" ELSE changes[c].status
BY DEF StatusOf, Deciding, OneHandler

LEMMA StatusOutsideAfter ==
  ASSUME OneHandler, NEW h \in Handlers, pc'[h] \notin {"record", "approve"},
         NEW c \in ChangeIds
  PROVE  StatusOf(c)' = IF changes'[c] = Null THEN "absent" ELSE changes'[c].status
BY DEF StatusOf, Deciding, OneHandler

\* SaveDraft edits, or finds another draft version and leaves the row alone.
LEMMA RefineSave ==
  ASSUME Known, FreshOK, OneHandler, NEW h \in Handlers, SaveDraft(h),
         Editable(changes[req[h].id])
  PROVE  [Lifecycle!Next]_Lifecycle!vars
<1>1. PICK c \in ChangeIds : c = req[h].id /\ changes[c] # Null
  BY BusyTyped DEF SaveDraft
<1>2. /\ pc[h] = "save" /\ pc'[h] = "idle" /\ publications' = publications
      /\ req[h].row.payload \in Fields
  BY <1>1, BusyTyped DEF SaveDraft, Done, Known, IInv, TypeOK, ChangeRow
<1>3. CASE changes' = changes
  <2>1. \A b \in ChangeIds : StatusOf(b)' = StatusOf(b)
    BY <1>2, <1>3, StatusOutside, StatusOutsideAfter
  <2>2. QED
    BY <1>2, <1>3, <2>1, MapsStutter DEF ContentOf, PublishedOf
<1>4. CASE /\ changes'[c] # Null
           /\ changes'[c].payload = req[h].row.payload
           /\ changes'[c].status = changes[c].status
           /\ \A b \in ChangeIds : b # c => changes'[b] = changes[b]
  <2>1. Proposes(c)
    BY <1>2, <1>4 DEF Proposes
  <2>2. \A b \in ChangeIds : StatusOf(b)' = StatusOf(b)
    BY <1>1, <1>2, <1>4, StatusOutside, StatusOutsideAfter
  <2>3. StatusOf(c) \in {"draft", "rejected"}
    BY <1>1, <1>2, StatusOutside DEF Editable
  <2>4. QED
    BY <1>2, <2>1, <2>2, <2>3, MapsEdit DEF PublishedOf
<1>5. QED
  BY <1>1, <1>3, <1>4, SavedRow

\* MarkSubmitted submits.
LEMMA RefineSubmit ==
  ASSUME Known, FreshOK, OneHandler, NEW h \in Handlers, MarkSubmitted(h),
         Editable(changes[req[h].id])
  PROVE  Lifecycle!Next
<1>1. PICK c \in ChangeIds : c = req[h].id /\ changes[c] # Null
  BY BusyTyped DEF MarkSubmitted
<1>2. pc[h] = "submit" /\ pc'[h] = "idle" /\ publications' = publications
  BY DEF MarkSubmitted, Done, Known, IInv, TypeOK
<1>3. /\ changes'[c] # Null
      /\ changes'[c].payload = changes[c].payload
      /\ changes'[c].status = "pending_review"
      /\ \A b \in ChangeIds : b # c => changes'[b] = changes[b]
  BY <1>1, SubmittedRow
<1>4. StatusOf(c) \in {"draft", "rejected"}
  BY <1>1, <1>2, StatusOutside DEF Editable
<1>5. Moves(c, "pending_review")
  BY <1>2, <1>3, StatusOutside, StatusOutsideAfter DEF Moves
<1>6. ContentOf' = ContentOf
  BY <1>1, <1>3 DEF ContentOf
<1>7. QED
  BY <1>2, <1>4, <1>5, <1>6, MapsSubmit DEF PublishedOf

\* MarkRejected rejects.
LEMMA RefineReject ==
  ASSUME Known, FreshOK, OneHandler, NEW h \in Handlers, MarkRejected(h),
         changes[req[h].id].status = "pending_review"
  PROVE  Lifecycle!Next
<1>1. PICK c \in ChangeIds : c = req[h].id /\ changes[c] # Null
  BY BusyTyped DEF MarkRejected
<1>2. /\ pc[h] = "reject" /\ pc'[h] = "idle" /\ publications' = publications
      /\ SetStatus(h, "rejected", 0)
  BY DEF MarkRejected, SetStatus, Done, Known, IInv, TypeOK
<1>3. /\ changes'[c] # Null
      /\ changes'[c].payload = changes[c].payload
      /\ changes'[c].status = "rejected"
      /\ \A b \in ChangeIds : b # c => changes'[b] = changes[b]
  BY <1>1, <1>2, DecidedRow DEF ChangeStatuses
<1>4. StatusOf(c) = "pending_review"
  BY <1>1, <1>2, StatusOutside
<1>5. Moves(c, "rejected")
  BY <1>2, <1>3, StatusOutside, StatusOutsideAfter DEF Moves
<1>6. ContentOf' = ContentOf
  BY <1>1, <1>3 DEF ContentOf
<1>7. QED
  BY <1>2, <1>4, <1>5, <1>6, MapsReject DEF PublishedOf

\* The write to the live table approves: it publishes the pending payload.
LEMMA RefinePublish ==
  ASSUME Known, FreshOK, OneHandler, NEW h \in Handlers, NEW d, NEW row,
         pc[h] = "apply", Publish(h, d, row)
  PROVE  Lifecycle!Next
<1> DEFINE p == [destination_id |-> d, change |-> req[h].id,
                 fields |-> req[h].row.payload, row |-> row]
<1>1. PICK c \in ChangeIds : c = req[h].id /\ changes[c] # Null
  BY BusyTyped
<1>2. /\ publications' = publications \cup {p} /\ changes' = changes
      /\ pc'[h] = "record" /\ req' = req
  BY DEF Publish, Known, IInv, TypeOK
<1>3. changes[c].status = "pending_review" /\ changes[c].payload = req[h].row.payload
  BY <1>1 DEF FreshOK
<1>4. p.change = c /\ p.fields = ContentOf[c]
  BY <1>1, <1>3 DEF ContentOf
<1> HIDE DEF p
<1>5. PublishedOf' = PublishedOf \cup {[change |-> c, content |-> ContentOf[c]]}
  BY <1>2, <1>4 DEF PublishedOf
<1>6. StatusOf(c) = "pending_review"
  BY <1>1, <1>3, StatusOutside
<1>7. \A b \in ChangeIds : Deciding(b)' <=> b = c
  BY <1>1, <1>2 DEF Deciding, OneHandler
<1>8. \A b \in ChangeIds : ~ Deciding(b)
  BY DEF Deciding, OneHandler
<1>9. Moves(c, "approved")
  BY <1>1, <1>2, <1>7, <1>8 DEF Moves, StatusOf
<1>10. ContentOf' = ContentOf
  BY <1>2 DEF ContentOf
<1>11. QED
  BY <1>5, <1>6, <1>9, <1>10, MapsApprove

\* Marking the change approved says what the lifecycle has said since the write.
LEMMA RefineApproved ==
  ASSUME Known, FreshOK, OneHandler, NEW h \in Handlers, MarkApproved(h)
  PROVE  UNCHANGED Lifecycle!vars
<1>1. PICK c \in ChangeIds : c = req[h].id /\ changes[c] # Null
  BY BusyTyped DEF MarkApproved
<1>2. /\ pc[h] = "approve" /\ pc'[h] = "idle" /\ publications' = publications
      /\ out[h].row.version \in Nat /\ SetStatus(h, "approved", out[h].row.version)
  BY DEF MarkApproved, SetStatus, Done, Known, IInv, TypeOK, Publication, DestRow
<1>3. /\ changes'[c] # Null
      /\ changes'[c].payload = changes[c].payload
      /\ changes'[c].status = "approved"
      /\ \A b \in ChangeIds : b # c => changes'[b] = changes[b]
  BY <1>1, <1>2, DecidedRow DEF ChangeStatuses
<1>4. \A b \in ChangeIds : Deciding(b) <=> b = c
  BY <1>1, <1>2 DEF Deciding, OneHandler
<1>5. \A b \in ChangeIds : StatusOf(b)' = StatusOf(b)
  BY <1>1, <1>2, <1>3, <1>4, StatusOutsideAfter DEF StatusOf
<1>6. ContentOf' = ContentOf
  BY <1>1, <1>3 DEF ContentOf
<1>7. QED
  BY <1>2, <1>5, <1>6, MapsStutter DEF PublishedOf

\* Recording the version says nothing new either: it is never refused.
LEMMA RefineRecord ==
  ASSUME Known, Accounts, OneHandler, NEW h \in Handlers, RecordVersion(h)
  PROVE  UNCHANGED Lifecycle!vars
<1>1. /\ pc[h] = "record" /\ pc'[h] = "approve"
      /\ UNCHANGED <<changes, publications, req>>
  BY VersionAccepted DEF Known, IInv, TypeOK
<1>2. \A b \in ChangeIds : Deciding(b)' = Deciding(b)
  BY <1>1 DEF Deciding, OneHandler
<1>3. \A b \in ChangeIds : StatusOf(b)' = StatusOf(b)
  BY <1>1, <1>2 DEF StatusOf
<1>4. QED
  BY <1>1, <1>3, MapsStutter DEF ContentOf, PublishedOf

\* Steps that write no row and do not decide.
LEMMA RefineAside ==
  ASSUME OneHandler, NEW h \in Handlers, UNCHANGED <<changes, publications>>,
         pc[h] \notin {"record", "approve"}, pc'[h] \notin {"record", "approve"}
  PROVE  UNCHANGED Lifecycle!vars
<1>1. \A b \in ChangeIds : StatusOf(b)' = StatusOf(b)
  BY StatusOutside, StatusOutsideAfter
<1>2. QED
  BY <1>1, MapsStutter DEF ContentOf, PublishedOf

\* Every step of the workflow is a step of the lifecycle or none.
LEMMA RefineStep ==
  ASSUME Known, FreshOK, Accounts, OneHandler, ~ MayFail, [Next]_vars
  PROVE  [Lifecycle!Next]_Lifecycle!vars
<1>1. CASE \E a \in Admins, action \in Actions, d \in DestIds \cup {Null},
             fields \in Inputs : CreateDraft(a, action, d, fields)
  BY <1>1, RefineCreate
<1>2. ASSUME NEW h \in Handlers, AuthorStep(h) \/ ReviewerStep(h)
      PROVE  [Lifecycle!Next]_Lifecycle!vars
  <2>1. CASE RecordVersion(h)
    BY <2>1, RefineRecord
  <2>2. CASE MarkApproved(h)
    BY <2>2, RefineApproved
  <2>3. CASE \E d \in DestIds, row \in DestRow :
               pc[h] = "apply" /\ Publish(h, d, row) /\ RowStep(d, row)
    BY <2>3, RefinePublish
  <2>4. CASE /\ UNCHANGED <<dests, versions, publications>>
             /\ pc[h] \notin {"record", "approve"}
             /\ pc'[h] \notin {"record", "approve"}
    <3>1. CASE SaveDraft(h) /\ Editable(changes[req[h].id])
      BY <3>1, RefineSave
    <3>2. CASE MarkSubmitted(h) /\ Editable(changes[req[h].id])
      BY <3>2, RefineSubmit
    <3>3. CASE MarkRejected(h) /\ changes[req[h].id].status = "pending_review"
      BY <3>3, RefineReject
    <3>4. CASE UNCHANGED changes
      BY <2>4, <3>4, RefineAside
    <3>5. QED
      BY <1>2, <2>2, <3>1, <3>2, <3>3, <3>4, RequestWrites
  <2>5. QED
    BY <1>2, <2>1, <2>2, <2>3, <2>4, ApprovalSteps
<1>3. CASE UNCHANGED vars
  <2>1. \A b \in ChangeIds : StatusOf(b)' = StatusOf(b)
    BY <1>3 DEF vars, StatusOf, Deciding
  <2>2. QED
    BY <1>3, <2>1, MapsStutter DEF vars, ContentOf, PublishedOf
<1>4. QED
  BY <1>1, <1>2, <1>3 DEF Next, Fail

(* Served one at a time and without failures, the service implements the    *)
(* lifecycle of change requests: only the approval of a pending request     *)
(* touches the catalogue, it publishes the content the request then shows,  *)
(* and a decided request is frozen.                                         *)
THEOREM SerialLifecycle ==
  ASSUME OneHandler, ~ MayFail PROVE Spec => ImplementsLifecycle
<1>1. Init => Lifecycle!Init
  BY DEF Init, Lifecycle!Init, LifecycleStatus
<1>2. Known /\ FreshOK /\ Accounts /\ [Next]_vars => [Lifecycle!Next]_Lifecycle!vars
  BY RefineStep
<1>3. QED
  BY <1>1, <1>2, FreshInvariance, AccountsInvariance, PTL
  DEF Spec, ImplementsLifecycle, Lifecycle!Spec

\* A change shows for good what was published of it.
ShownOK == \A p \in publications : p.fields = changes[p.change].payload

LEMMA ShownStep ==
  ASSUME Known, FreshOK, Accounts, OneHandler, [Next]_vars, ShownOK
  PROVE  ShownOK'
<1>1. ASSUME NEW p \in publications
      PROVE  changes'[p.change].payload = changes[p.change].payload
  <2>1. p.change \in ChangeIds /\ changes[p.change] # Null
    BY DEF Known, IInv, TypeOK, Publication, HistoryOK
  <2>2. \A h \in Handlers : pc[h] \in {"record", "approve"} =>
          changes[out[h].change].status = "pending_review"
    BY DEF Known, IInv, OutOK, FreshOK
  <2>3. changes[p.change].status \in {"pending_review", "approved"}
    BY <2>2 DEF Accounts, AccountedOK
  <2>4. QED
    BY <2>1, <2>3, LockedStep
<1>2. CASE UNCHANGED <<dests, publications>>
  BY <1>1, <1>2 DEF ShownOK
<1>3. CASE \E h \in Handlers, d \in DestIds, row \in DestRow :
             pc[h] = "apply" /\ Publish(h, d, row) /\ RowStep(d, row)
  <2>1. PICK h \in Handlers, d \in DestIds, row \in DestRow :
          pc[h] = "apply" /\ Publish(h, d, row)
    BY <1>3
  <2> DEFINE p == [destination_id |-> d, change |-> req[h].id,
                   fields |-> req[h].row.payload, row |-> row]
  <2>2. publications' = publications \cup {p} /\ changes' = changes
    BY <2>1 DEF Publish
  <2>3. p.fields = changes[p.change].payload
    BY <2>1 DEF FreshOK
  <2> HIDE DEF p
  <2>4. QED
    BY <2>2, <2>3 DEF ShownOK
<1>4. QED
  BY <1>2, <1>3, LiveStep DEF Known

\* The approved changes and the writes to the live table are the same.
LEMMA CatalogueOf ==
  ASSUME Known, FreshOK, Accounts, OneHandler, ShownOK
  PROVE  Lifecycle!ApprovedIsPublished
<1> DEFINE Approved == {x \in ChangeIds : LifecycleStatus[x] = "approved"}
<1>1. \A c \in ChangeIds : c \in Approved <=>
        changes[c] # Null /\ (Deciding(c) \/ changes[c].status = "approved")
  BY StatusValue DEF StatusOf
<1>2. ASSUME NEW p \in publications
      PROVE  p.change \in Approved /\ p.fields = ContentOf[p.change]
  <2>1. p.change \in ChangeIds /\ changes[p.change] # Null
    BY DEF Known, IInv, TypeOK, Publication, HistoryOK
  <2>2. changes[p.change].status = "approved" \/ Deciding(p.change)
    BY DEF Known, IInv, OutOK, Accounts, AccountedOK, Deciding
  <2>3. QED
    BY <1>1, <2>1, <2>2 DEF ShownOK, ContentOf
<1>3. ASSUME NEW c \in Approved
      PROVE  \E p \in publications : p.change = c
  <2>1. CASE Deciding(c)
    BY <2>1 DEF Deciding, Known, IInv, OutOK
  <2>2. CASE changes[c].status = "approved"
    <3>1. PICK v \in versions : v.change_request_id = c
      BY <1>1, <2>2 DEF Known, IInv, ApprovedIsRecorded
    <3>2. QED
      BY <3>1 DEF Known, IInv, SnapshotsFaithful
  <2>3. QED
    BY <1>1, <2>1, <2>2
<1> HIDE DEF Approved
<1>4. PublishedOf = {[change |-> c, content |-> ContentOf[c]] : c \in Approved}
  <2>1. ASSUME NEW p \in publications
        PROVE  [change |-> p.change, content |-> p.fields]
                 \in {[change |-> c, content |-> ContentOf[c]] : c \in Approved}
    BY <1>2
  <2>2. ASSUME NEW c \in Approved
        PROVE  [change |-> c, content |-> ContentOf[c]] \in PublishedOf
    BY <1>2, <1>3 DEF PublishedOf
  <2>3. QED
    BY <2>1, <2>2 DEF PublishedOf
<1>5. QED
  BY <1>4 DEF Approved, PublishedOf, ContentOf, Lifecycle!ApprovedIsPublished

(* Served one at a time and without failures, the live table was written    *)
(* for exactly the approved changes, with the payload each still shows: a   *)
(* reader of a change request can trust that it tells what was published.   *)
THEOREM SerialCatalogue ==
  ASSUME OneHandler, ~ MayFail PROVE Spec => []Lifecycle!ApprovedIsPublished
<1>1. Init => ShownOK
  BY DEF Init, ShownOK
<1>2. Known /\ FreshOK /\ Accounts /\ ShownOK /\ [Next]_vars => ShownOK'
  BY ShownStep
<1>3. Known /\ FreshOK /\ Accounts /\ ShownOK => Lifecycle!ApprovedIsPublished
  BY CatalogueOf
<1>4. QED
  BY <1>1, <1>2, <1>3, FreshInvariance, AccountsInvariance, PTL DEF Spec
=============================================================================
