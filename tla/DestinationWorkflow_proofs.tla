----------------------- MODULE DestinationWorkflow_proofs -----------------------
(***************************************************************************)
(* Proofs about the destination workflow, for any number of handlers,      *)
(* changes, destinations and field values.  IInv is the inductive          *)
(* invariant: beside the types it says what a handler in the middle of a   *)
(* request still knows about rows it no longer reads.                      *)
(***************************************************************************)
EXTENDS DestinationWorkflow, TLAPS

\* A change names a destination unless it creates one.
TargetsOK ==
  \A c \in ChangeIds : changes[c] # Null =>
    (changes[c].action = "create" <=> changes[c].destination_id = Null)

\* The columns of a change no statement ever writes again are the same in the
\* table and in the row a handler holds.
HeldOK ==
  \A h \in Handlers : pc[h] # "idle" =>
    LET now == changes[req[h].id]  held == req[h].row
    IN /\ now # Null
       /\ now.action = held.action
       /\ now.destination_id = held.destination_id
       /\ now.submitted_by = held.submitted_by

\* Who acts: the author edits, and under dual control somebody else reviews.
ActorsOK ==
  \A h \in Handlers :
    /\ pc[h] \in {"form", "save"} => req[h].actor = req[h].row.submitted_by
    /\ pc[h] \in {"apply", "record", "approve", "reject"} =>
         (ApprovalRequired => req[h].actor # req[h].row.submitted_by)

\* The draft version a handler's request started from.
SeenVersion(h) ==
  IF pc[h] = "save" THEN req[h].row.draft_version - 1 ELSE req[h].row.draft_version

\* A draft version stands for one payload: as long as the row still has the
\* version a handler started from, it has the payload the handler started from.
BaseOK ==
  \A h \in Handlers : pc[h] \in {"form", "save"} =>
    /\ SeenVersion(h) <= changes[req[h].id].draft_version
    /\ SeenVersion(h) = changes[req[h].id].draft_version =>
         req[h].base = changes[req[h].id].payload

\* A draft is saved with an editable status and a reviewer who may be one.
SavedOK ==
  \A h \in Handlers : pc[h] = "save" =>
    /\ Editable(req[h].row)
    /\ ApprovalRequired => req[h].row.reviewed_by # req[h].row.submitted_by

\* What a handler holds after its write to the live table is that write.
OutOK ==
  \A h \in Handlers : pc[h] \in {"record", "approve"} =>
    /\ out[h] \in publications
    /\ out[h].change = req[h].id
    /\ out[h].row.updated_by = req[h].actor
    /\ req[h].row.destination_id \in {Null, out[h].destination_id}

\* A handler about to approve has recorded its version.
RecordedOK ==
  \A h \in Handlers : pc[h] = "approve" =>
    \E v \in versions :
      /\ v.change_request_id = req[h].id
      /\ v.destination_id = out[h].destination_id
      /\ v.version = out[h].row.version

\* The history names existing changes only.
HistoryOK == \A p \in publications : changes[p.change] # Null

IInv ==
  /\ TypeOK
  /\ TargetsOK
  /\ HeldOK
  /\ ActorsOK
  /\ BaseOK
  /\ SavedOK
  /\ OutOK
  /\ RecordedOK
  /\ HistoryOK
  /\ DualControl
  /\ SnapshotsFaithful
  /\ ApprovedIsRecorded

-----------------------------------------------------------------------------
(* The rows the statements compute are rows of their tables.                *)

\* A destination from before the workflow, as migration 0006 leaves it.
LEMMA LegacyRowType ==
  ASSUME NEW n \in Names PROVE LegacyRow(n) \in DestRow
BY DEF LegacyRow, DestRow, DestStatuses

\* The INSERT of DestinationRepository.Create.
LEMMA InsertedRowType ==
  ASSUME NEW f \in Fields, NEW a \in Admins
  PROVE  InsertedRow(f, a) \in DestRow
BY DEF InsertedRow, DestRow, Fields, Stored, MergedStatus, DestStatuses

\* The UPDATE of DestinationRepository.Update.
LEMMA UpdatedRowType ==
  ASSUME NEW r \in DestRow, NEW f \in Fields, NEW a \in Admins
  PROVE  UpdatedRow(r, f, a) \in DestRow
BY DEF UpdatedRow, DestRow, Fields, Stored, Merge, MergedStatus, DestStatuses

\* The UPDATE of DestinationRepository.Archive.
LEMMA ArchivedRowType ==
  ASSUME NEW r \in DestRow, NEW a \in Admins
  PROVE  ArchivedRow(r, a) \in DestRow
<1>1. r.version + 1 \in Nat \ {0}
  BY DEF DestRow
<1>2. ASSUME NEW n \in Nat \ {0}
      PROVE  [r EXCEPT !.status = "archived", !.deleted = TRUE,
                       !.updated_by = a, !.version = n] \in DestRow
  BY Zenon DEF DestRow, DestStatuses
<1>3. QED
  BY <1>1, <1>2 DEF ArchivedRow

\* A draft with a new payload: the identifying columns are not touched.
LEMMA EditedRow ==
  ASSUME NEW r \in ChangeRow, NEW f \in Fields
  PROVE  /\ Edited(r, f) \in ChangeRow
         /\ Edited(r, f).action = r.action
         /\ Edited(r, f).destination_id = r.destination_id
         /\ Edited(r, f).submitted_by = r.submitted_by
         /\ Edited(r, f).reviewed_by = r.reviewed_by
         /\ Edited(r, f).status = r.status
         /\ Edited(r, f).draft_version = r.draft_version + 1
<1>1. r.draft_version + 1 \in Nat \ {0}
  BY DEF ChangeRow
<1>2. ASSUME NEW n \in Nat \ {0}
      PROVE  [r EXCEPT !.payload = f, !.draft_version = n] \in ChangeRow
  BY Zenon DEF ChangeRow
<1>3. Edited(r, f) \in ChangeRow
  BY <1>1, <1>2 DEF Edited
<1>4. QED
  BY <1>3 DEF ChangeRow, Edited

\* The rows the UPDATEs of SaveDraft and SetStatus leave.
LEMMA SavedRowType ==
  ASSUME NEW r \in ChangeRow, NEW m \in ChangeRow
  PROVE  [r EXCEPT !.payload = m.payload, !.draft_version = m.draft_version,
                   !.status = m.status, !.reviewed_by = m.reviewed_by,
                   !.published_version = m.published_version] \in ChangeRow
BY Zenon DEF ChangeRow

\* The row DestinationChangeRepository.SetStatus leaves.
LEMMA DecidedRowType ==
  ASSUME NEW r \in ChangeRow, NEW a \in Admins, NEW n \in Nat,
         NEW s \in ChangeStatuses
  PROVE  [r EXCEPT !.status = s, !.reviewed_by = a, !.published_version = n]
           \in ChangeRow
BY Zenon DEF ChangeRow

\* The payload an upload of a hero or a gallery image writes.
LEMMA UploadedFieldsType ==
  ASSUME NEW f \in Fields, NEW i \in Images
  PROVE  /\ [f EXCEPT !.hero = i] \in Fields
         /\ [f EXCEPT !.gallery = Append(IF @ = Null THEN <<>> ELSE @, i)] \in Fields
<1>1. [f EXCEPT !.hero = i] \in Fields
  BY DEF Fields
<1>2. Append(IF f.gallery = Null THEN <<>> ELSE f.gallery, i) \in Seq(Images)
  BY DEF Fields
<1>3. QED
  BY <1>1, <1>2 DEF Fields

-----------------------------------------------------------------------------
(* Steps that share a shape preserve the invariant.                         *)

\* A request read from a row has the right type.
LEMMA RowsTyped ==
  ASSUME TypeOK, NEW c \in ChangeIds, changes[c] # Null
  PROVE  changes[c] \in ChangeRow /\ changes[c].payload \in Fields
BY DEF TypeOK, ChangeRow

\* What the four requests that begin with a read and a check do.
LEMMA BeginInv ==
  ASSUME IInv, NEW h \in Handlers, NEW a \in Admins, NEW c \in ChangeIds,
         NEW s \in {"form", "submit", "apply", "reject"},
         changes[c] # Null, pc[h] = "idle",
         s = "form" => changes[c].submitted_by = a,
         s \in {"apply", "reject"} =>
           (ApprovalRequired => changes[c].submitted_by # a),
         Begin(h, s, a, c, changes[c])
  PROVE  IInv'
<1> DEFINE r == [actor |-> a, id |-> c, base |-> changes[c].payload,
                 row |-> changes[c]]
<1>1. changes[c] \in ChangeRow /\ changes[c].payload \in Fields
  BY RowsTyped DEF IInv
<1>2. r \in Request
  BY <1>1 DEF Request
<1>3. /\ pc' = [pc EXCEPT ![h] = s]
      /\ req' = [req EXCEPT ![h] = r]
      /\ UNCHANGED <<changes, dests, versions, publications, bucket, out>>
  BY DEF Begin, tables
<1> HIDE DEF r
<1>4. TypeOK'
  BY <1>2, <1>3 DEF IInv, TypeOK, Steps
<1>5. /\ pc \in [Handlers -> Steps] /\ req \in [Handlers -> Request \cup {Null}]
      /\ changes \in [ChangeIds -> ChangeRow \cup {Null}]
  BY DEF IInv, TypeOK
<1>6. r.actor = a /\ r.id = c /\ r.row = changes[c] /\ r.base = changes[c].payload
  BY DEF r
<1>7. HeldOK'
  BY <1>3, <1>5, <1>6 DEF IInv, HeldOK
<1>8. ActorsOK'
  BY <1>3, <1>5, <1>6 DEF IInv, ActorsOK
<1>9. BaseOK'
  BY <1>1, <1>3, <1>5, <1>6 DEF IInv, BaseOK, SeenVersion, ChangeRow
<1>10. SavedOK' /\ OutOK' /\ RecordedOK'
  BY <1>3, <1>5, <1>6 DEF IInv, SavedOK, OutOK, RecordedOK
<1>11. TargetsOK' /\ HistoryOK' /\ DualControl' /\ SnapshotsFaithful' /\ ApprovedIsRecorded'
  BY <1>3 DEF IInv, TargetsOK, HistoryOK, DualControl, SnapshotsFaithful, ApprovedIsRecorded
<1>12. QED
  BY <1>4, <1>7, <1>8, <1>9, <1>10, <1>11 DEF IInv

\* A handler that lets go of its request and leaves the tables alone.
LEMMA ReleaseInv ==
  ASSUME IInv, NEW h \in Handlers, Done(h), UNCHANGED tables
  PROVE  IInv'
<1>1. /\ pc' = [pc EXCEPT ![h] = "idle"]
      /\ req' = [req EXCEPT ![h] = Null]
      /\ out' = [out EXCEPT ![h] = Null]
      /\ UNCHANGED <<changes, dests, versions, publications, bucket>>
  BY DEF Done, tables
<1>2. TypeOK'
  BY <1>1 DEF IInv, TypeOK, Steps
<1>3. \A g \in Handlers : pc'[g] # "idle" =>
        g # h /\ pc'[g] = pc[g] /\ req'[g] = req[g] /\ out'[g] = out[g]
  BY <1>1 DEF IInv, TypeOK
<1>4. HeldOK' /\ ActorsOK' /\ BaseOK' /\ SavedOK' /\ OutOK' /\ RecordedOK'
  BY <1>1, <1>3
  DEF IInv, HeldOK, ActorsOK, BaseOK, SeenVersion, SavedOK, OutOK, RecordedOK
<1>5. TargetsOK' /\ HistoryOK' /\ DualControl' /\ SnapshotsFaithful' /\ ApprovedIsRecorded'
  BY <1>1 DEF IInv, TargetsOK, HistoryOK, DualControl, SnapshotsFaithful, ApprovedIsRecorded
<1>6. QED
  BY <1>2, <1>4, <1>5 DEF IInv

\* The last statement of a request rewrites its change and the handler answers.
LEMMA AnswerInv ==
  ASSUME IInv, NEW h \in Handlers, NEW c \in ChangeIds, changes[c] # Null,
         NEW row \in ChangeRow,
         changes' = [changes EXCEPT ![c] = row],
         Done(h), UNCHANGED <<dests, versions, publications, bucket>>,
         row.action = changes[c].action,
         row.destination_id = changes[c].destination_id,
         row.submitted_by = changes[c].submitted_by,
         row.draft_version >= changes[c].draft_version,
         row.draft_version = changes[c].draft_version =>
           row.payload = changes[c].payload,
         ApprovalRequired => row.reviewed_by # row.submitted_by,
         row.status = "approved" =>
           \E v \in versions : /\ v.change_request_id = c
                             /\ v.version = row.published_version
                             /\ row.destination_id \in {Null, v.destination_id}
  PROVE  IInv'
<1>1. /\ pc' = [pc EXCEPT ![h] = "idle"]
      /\ req' = [req EXCEPT ![h] = Null]
      /\ out' = [out EXCEPT ![h] = Null]
  BY DEF Done
<1>2. TypeOK'
  BY <1>1 DEF IInv, TypeOK, Steps
<1>3. \A g \in Handlers : pc'[g] # "idle" =>
        g # h /\ pc'[g] = pc[g] /\ req'[g] = req[g] /\ out'[g] = out[g]
  BY <1>1 DEF IInv, TypeOK
<1>4. row # Null /\ changes'[c] = row
  BY WorkflowAssumption DEF IInv, TypeOK
<1>5. \A b \in ChangeIds : b # c => changes'[b] = changes[b]
  BY DEF IInv, TypeOK
<1>6. \A b \in ChangeIds :
        /\ changes'[b] # Null <=> changes[b] # Null
        /\ changes[b] # Null =>
             /\ changes'[b].action = changes[b].action
             /\ changes'[b].destination_id = changes[b].destination_id
             /\ changes'[b].submitted_by = changes[b].submitted_by
  BY <1>4, <1>5
<1>7. \A g \in Handlers : pc[g] # "idle" => req[g].id \in ChangeIds
  BY DEF IInv, TypeOK, Request
<1>8. TargetsOK'
  BY <1>6 DEF IInv, TargetsOK
<1>9. HeldOK' /\ ActorsOK' /\ SavedOK'
  BY <1>3, <1>6, <1>7 DEF IInv, HeldOK, ActorsOK, SavedOK
<1>10. BaseOK'
  <2> SUFFICES ASSUME NEW g \in Handlers, pc'[g] \in {"form", "save"}
               PROVE  /\ SeenVersion(g)' <= changes'[req'[g].id].draft_version
                      /\ SeenVersion(g)' = changes'[req'[g].id].draft_version =>
                           req'[g].base = changes'[req'[g].id].payload
    BY DEF BaseOK
  <2>1. /\ pc[g] \in {"form", "save"} /\ req'[g] = req[g]
        /\ SeenVersion(g)' = SeenVersion(g)
    BY <1>3 DEF SeenVersion
  <2>2. /\ SeenVersion(g) <= changes[req[g].id].draft_version
        /\ SeenVersion(g) = changes[req[g].id].draft_version =>
             req[g].base = changes[req[g].id].payload
    BY <2>1 DEF IInv, BaseOK
  <2>3. req[g].id \in ChangeIds /\ SeenVersion(g) \in Nat
    <3>1. req[g] \in Request
      BY <2>1 DEF IInv, TypeOK
    <3>2. req[g].row.draft_version \in Nat \ {0}
      BY <3>1 DEF Request, ChangeRow
    <3>3. QED
      BY <3>1, <3>2 DEF Request, SeenVersion
  <2>4. changes[c] \in ChangeRow
    BY DEF IInv, TypeOK
  <2>5. CASE req[g].id = c
    BY <1>4, <2>1, <2>2, <2>3, <2>4, <2>5 DEF ChangeRow
  <2>6. CASE req[g].id # c
    BY <1>5, <2>1, <2>2, <2>3, <2>6
  <2>7. QED
    BY <2>5, <2>6
<1>11. OutOK' /\ RecordedOK'
  BY <1>3 DEF IInv, OutOK, RecordedOK
<1>12. /\ \A p \in publications : p.change \in ChangeIds /\ changes[p.change] # Null
       /\ \A v \in versions :
            v.change_request_id \in ChangeIds /\ changes[v.change_request_id] # Null
  BY DEF IInv, TypeOK, Publication, VersionRow, HistoryOK, SnapshotsFaithful
<1>13. HistoryOK' /\ SnapshotsFaithful'
  BY <1>6, <1>12 DEF IInv, HistoryOK, SnapshotsFaithful
<1>14. DualControl'
  BY <1>4, <1>5, <1>6, <1>12 DEF IInv, DualControl
<1>15. ApprovedIsRecorded'
  BY <1>4, <1>5 DEF IInv, ApprovedIsRecorded
<1>16. QED
  BY <1>2, <1>8, <1>9, <1>10, <1>11, <1>13, <1>14, <1>15 DEF IInv

-----------------------------------------------------------------------------
(* The author's steps                                                       *)

\* A new draft disturbs nothing: no handler, write or version names it yet.
LEMMA CreateDraftInv ==
  ASSUME IInv, NEW a \in Admins, NEW action \in Actions,
         NEW d \in DestIds \cup {Null}, NEW fields \in Inputs,
         CreateDraft(a, action, d, fields)
  PROVE  IInv'
<1>1. PICK c \in ChangeIds :
        /\ changes[c] = Null
        /\ changes' = [changes EXCEPT ![c] =
             [destination_id |-> d, action |-> action, payload |-> fields,
              status |-> "draft", draft_version |-> 1, submitted_by |-> a,
              reviewed_by |-> Null, published_version |-> 0]]
  BY DEF CreateDraft
<1>2. /\ UNCHANGED <<dests, versions, publications, bucket, pc, req, out>>
      /\ action = "create" <=> d = Null
  BY TablesAssumption DEF CreateDraft
<1> DEFINE row == [destination_id |-> d, action |-> action, payload |-> fields,
              status |-> "draft", draft_version |-> 1, submitted_by |-> a,
              reviewed_by |-> Null, published_version |-> 0]
<1>3. row \in ChangeRow
  BY WorkflowAssumption DEF ChangeRow, ChangeStatuses
<1>4. row # Null
  BY <1>3, WorkflowAssumption
<1>5. /\ row.action = action /\ row.destination_id = d /\ row.submitted_by = a
      /\ row.reviewed_by = Null /\ row.status = "draft"
  OBVIOUS
<1>6. changes' = [changes EXCEPT ![c] = row]
  BY <1>1
<1> HIDE DEF row
<1>7. TypeOK'
  BY <1>2, <1>3, <1>6 DEF IInv, TypeOK
<1>8. changes'[c] = row /\ \A b \in ChangeIds : b # c => changes'[b] = changes[b]
  BY <1>6 DEF IInv, TypeOK
<1>9. TargetsOK'
  BY <1>2, <1>5, <1>8 DEF IInv, TargetsOK
<1>10. \A g \in Handlers : pc[g] # "idle" => req[g].id \in ChangeIds \ {c}
  BY <1>1 DEF IInv, TypeOK, Request, HeldOK
<1>11. HeldOK' /\ ActorsOK' /\ BaseOK' /\ SavedOK' /\ OutOK' /\ RecordedOK'
  BY <1>2, <1>8, <1>10
  DEF IInv, HeldOK, ActorsOK, BaseOK, SeenVersion, SavedOK, OutOK, RecordedOK
<1>12. /\ \A p \in publications : p.change \in ChangeIds \ {c}
       /\ \A v \in versions : v.change_request_id \in ChangeIds \ {c}
  BY <1>1 DEF IInv, TypeOK, Publication, VersionRow, HistoryOK, SnapshotsFaithful
<1>13. HistoryOK' /\ SnapshotsFaithful'
  BY <1>2, <1>8, <1>12 DEF IInv, HistoryOK, SnapshotsFaithful
<1>14. Null \notin Admins
  BY TablesAssumption
<1>15. DualControl'
  BY <1>2, <1>5, <1>8, <1>12, <1>14 DEF IInv, DualControl
<1>16. ApprovedIsRecorded'
  BY <1>2, <1>5, <1>8 DEF IInv, ApprovedIsRecorded
<1>17. QED
  BY <1>7, <1>9, <1>11, <1>13, <1>15, <1>16 DEF IInv

\* A handler goes on to save the row it read with a new payload.
LEMMA EditInv ==
  ASSUME IInv, NEW h \in Handlers, NEW r \in Request,
         changes[r.id] # Null,
         Editable(changes[r.id]),
         r.actor = changes[r.id].submitted_by,
         r.base = changes[r.id].payload,
         r.row.action = changes[r.id].action,
         r.row.destination_id = changes[r.id].destination_id,
         r.row.submitted_by = changes[r.id].submitted_by,
         r.row.reviewed_by = changes[r.id].reviewed_by,
         r.row.status = changes[r.id].status,
         r.row.draft_version = changes[r.id].draft_version + 1,
         pc' = [pc EXCEPT ![h] = "save"], req' = [req EXCEPT ![h] = r],
         bucket' \subseteq Images,
         UNCHANGED <<changes, dests, versions, publications, out>>
  PROVE  IInv'
<1>1. TypeOK'
  BY DEF IInv, TypeOK, Steps
<1>2. /\ pc'[h] = "save" /\ req'[h] = r
      /\ \A g \in Handlers : g # h => pc'[g] = pc[g] /\ req'[g] = req[g]
  BY DEF IInv, TypeOK
<1>3. r.id \in ChangeIds /\ changes[r.id] \in ChangeRow
  BY DEF IInv, TypeOK, Request
<1>4. changes[r.id].draft_version \in Nat
  BY <1>3 DEF ChangeRow
<1>5. HeldOK'
  BY <1>2, <1>4 DEF IInv, HeldOK
<1>6. ActorsOK'
  BY <1>2, <1>4 DEF IInv, ActorsOK
<1>7. BaseOK'
  BY <1>2, <1>4 DEF IInv, BaseOK, SeenVersion
<1>8. SavedOK'
  BY <1>2, <1>3, <1>4 DEF IInv, SavedOK, Editable, DualControl
<1>9. OutOK' /\ RecordedOK'
  BY <1>2 DEF IInv, OutOK, RecordedOK
<1>10. TargetsOK' /\ HistoryOK' /\ DualControl' /\ SnapshotsFaithful' /\ ApprovedIsRecorded'
  BY DEF IInv, TargetsOK, HistoryOK, DualControl, SnapshotsFaithful, ApprovedIsRecorded
<1>11. QED
  BY <1>1, <1>5, <1>6, <1>7, <1>8, <1>9, <1>10 DEF IInv

\* UpdateDraft starts from the payload its form was opened on: the draft version
\* it compares has not moved.
LEMMA UpdateDraftInv ==
  ASSUME IInv, NEW h \in Handlers, NEW fields \in Inputs, UpdateDraft(h, fields)
  PROVE  IInv'
<1> DEFINE c == req[h].id
           row == Edited(changes[c], fields)
           r == [req[h] EXCEPT !.row = row]
<1>1. /\ pc[h] = "form"
      /\ changes[c].submitted_by = req[h].actor
      /\ Editable(changes[c])
      /\ req[h].row.draft_version = changes[c].draft_version
      /\ pc' = [pc EXCEPT ![h] = "save"]
      /\ UNCHANGED <<changes, dests, versions, publications, bucket, out>>
  BY DEF UpdateDraft, tables
<1>2. fields \in Fields
  BY WorkflowAssumption
<1>3. req[h] \in Request /\ c \in ChangeIds /\ changes[c] # Null
  BY <1>1 DEF IInv, TypeOK, Request, HeldOK
<1>4. changes[c] \in ChangeRow
  BY <1>3, RowsTyped DEF IInv
<1>5. /\ row \in ChangeRow
      /\ row.action = changes[c].action
      /\ row.destination_id = changes[c].destination_id
      /\ row.submitted_by = changes[c].submitted_by
      /\ row.reviewed_by = changes[c].reviewed_by
      /\ row.status = changes[c].status
      /\ row.draft_version = changes[c].draft_version + 1
  BY <1>2, <1>4, EditedRow
<1>6. req[h].base = changes[c].payload
  BY <1>1 DEF IInv, BaseOK, SeenVersion
<1>7. req' = [req EXCEPT ![h] = r]
  BY DEF UpdateDraft, IInv, TypeOK
<1> HIDE DEF row
<1>8. r \in Request
  BY <1>3, <1>5 DEF Request
<1>9. r.id = c /\ r.actor = req[h].actor /\ r.base = req[h].base /\ r.row = row
  BY <1>3 DEF Request
<1>10. bucket' \subseteq Images
  BY <1>1 DEF IInv, TypeOK
<1> HIDE DEF r
<1>11. QED
  BY <1>1, <1>3, <1>5, <1>6, <1>7, <1>8, <1>9, <1>10, EditInv

\* An upload starts from the payload it read.
LEMMA UploadInv ==
  ASSUME IInv, NEW h \in Handlers, NEW a \in Admins, NEW c \in ChangeIds,
         NEW i \in Images, NEW fields, changes[c] # Null => fields \in Fields,
         Upload(h, a, c, i, fields)
  PROVE  IInv'
<1> DEFINE row == Edited(changes[c], fields)
           r == [actor |-> a, id |-> c, base |-> changes[c].payload, row |-> row]
<1>1. /\ changes[c] # Null
      /\ changes[c].submitted_by = a
      /\ Editable(changes[c])
      /\ bucket' = bucket \cup {i}
      /\ pc' = [pc EXCEPT ![h] = "save"]
      /\ req' = [req EXCEPT ![h] = r]
      /\ UNCHANGED <<changes, dests, versions, publications, out>>
  BY DEF Upload
<1>2. fields \in Fields /\ changes[c] \in ChangeRow /\ changes[c].payload \in Fields
  BY <1>1, RowsTyped DEF IInv
<1>3. /\ row \in ChangeRow
      /\ row.action = changes[c].action
      /\ row.destination_id = changes[c].destination_id
      /\ row.submitted_by = changes[c].submitted_by
      /\ row.reviewed_by = changes[c].reviewed_by
      /\ row.status = changes[c].status
      /\ row.draft_version = changes[c].draft_version + 1
  BY <1>2, EditedRow
<1>4. bucket' \subseteq Images
  BY <1>1 DEF IInv, TypeOK
<1> HIDE DEF row
<1>5. r \in Request /\ r.id = c /\ r.actor = a /\ r.base = changes[c].payload /\ r.row = row
  BY <1>2, <1>3 DEF Request
<1> HIDE DEF r
<1>6. QED
  BY <1>1, <1>3, <1>4, <1>5, EditInv

\* Both kinds of upload preserve the invariant.
LEMMA UploadsInv ==
  ASSUME IInv, NEW h \in Handlers, NEW a \in Admins, NEW c \in ChangeIds,
         NEW i \in Images, UploadHeroImage(h, a, c, i) \/ UploadGalleryImages(h, a, c, i)
  PROVE  IInv'
<1>1. changes[c] # Null => changes[c].payload \in Fields
  BY RowsTyped DEF IInv
<1>2. changes[c] # Null =>
        /\ [changes[c].payload EXCEPT !.hero = i] \in Fields
        /\ [changes[c].payload EXCEPT !.gallery =
              Append(IF @ = Null THEN <<>> ELSE @, i)] \in Fields
  BY <1>1, UploadedFieldsType
<1>3. CASE UploadHeroImage(h, a, c, i)
  BY <1>2, <1>3, UploadInv DEF UploadHeroImage
<1>4. CASE UploadGalleryImages(h, a, c, i)
  BY <1>2, <1>4, UploadInv DEF UploadGalleryImages
<1>5. QED
  BY <1>3, <1>4

\* SaveDraft writes back an editable status, so an approval it overwrites is gone
\* and leaves nothing to be recorded.
LEMMA SaveDraftInv ==
  ASSUME IInv, NEW h \in Handlers, SaveDraft(h)
  PROVE  IInv'
<1> DEFINE c == req[h].id
           mine == req[h].row
           row == [changes[c] EXCEPT
                     !.payload = mine.payload, !.draft_version = mine.draft_version,
                     !.status = mine.status, !.reviewed_by = mine.reviewed_by,
                     !.published_version = mine.published_version]
<1>1. pc[h] = "save" /\ Done(h) /\ UNCHANGED <<dests, versions, publications, bucket>>
  BY DEF SaveDraft
<1>2. /\ c \in ChangeIds /\ mine \in ChangeRow
      /\ changes[c] # Null /\ changes[c] \in ChangeRow
  BY <1>1 DEF IInv, TypeOK, Request, HeldOK
<1>3. CASE changes[c].draft_version = mine.draft_version - 1
  <2>1. changes' = [changes EXCEPT ![c] = row]
    BY <1>3 DEF SaveDraft
  <2>2. row \in ChangeRow
    BY <1>2, SavedRowType
  <2>3. /\ row.action = changes[c].action
        /\ row.destination_id = changes[c].destination_id
        /\ row.submitted_by = changes[c].submitted_by
        /\ row.draft_version = mine.draft_version
        /\ row.reviewed_by = mine.reviewed_by
        /\ row.status = mine.status
    BY <1>2 DEF ChangeRow
  <2>4. /\ ApprovalRequired => mine.reviewed_by # changes[c].submitted_by
        /\ mine.status # "approved"
    BY <1>1 DEF IInv, SavedOK, HeldOK, Editable
  <2>5. mine.draft_version > changes[c].draft_version
    BY <1>2, <1>3 DEF ChangeRow
  <2>6. changes[c].draft_version \in Nat /\ mine.draft_version \in Nat
    BY <1>2 DEF ChangeRow
  <2> HIDE DEF row, mine, c
  <2>7. /\ row.draft_version >= changes[c].draft_version
        /\ row.draft_version # changes[c].draft_version
        /\ ApprovalRequired => row.reviewed_by # row.submitted_by
        /\ row.status # "approved"
    BY <2>3, <2>4, <2>5, <2>6
  <2>8. QED
    BY <1>1, <1>2, <2>1, <2>2, <2>3, <2>7, AnswerInv
<1>4. CASE changes[c].draft_version # mine.draft_version - 1
  BY <1>1, <1>4, ReleaseInv DEF SaveDraft, tables
<1>5. QED
  BY <1>3, <1>4

\* Submitting touches the status alone.
LEMMA MarkSubmittedInv ==
  ASSUME IInv, NEW h \in Handlers, MarkSubmitted(h)
  PROVE  IInv'
<1> DEFINE c == req[h].id
           row == [changes[c] EXCEPT !.status = "pending_review"]
<1>1. pc[h] = "submit" /\ Done(h) /\ UNCHANGED <<dests, versions, publications, bucket>>
  BY DEF MarkSubmitted
<1>2. c \in ChangeIds /\ changes[c] # Null /\ changes[c] \in ChangeRow
  BY <1>1 DEF IInv, TypeOK, Request, HeldOK
<1>3. CASE Editable(changes[c])
  <2>1. changes' = [changes EXCEPT ![c] = row]
    BY <1>2, <1>3 DEF MarkSubmitted, IInv, TypeOK
  <2>2. row \in ChangeRow
    BY <1>2 DEF ChangeRow, ChangeStatuses
  <2>3. /\ row.action = changes[c].action
        /\ row.destination_id = changes[c].destination_id
        /\ row.submitted_by = changes[c].submitted_by
        /\ row.draft_version = changes[c].draft_version
        /\ row.payload = changes[c].payload
        /\ row.reviewed_by = changes[c].reviewed_by
        /\ row.status = "pending_review"
        /\ changes[c].draft_version \in Nat
    BY <1>2 DEF ChangeRow
  <2>4. ApprovalRequired => changes[c].reviewed_by # changes[c].submitted_by
    BY <1>2 DEF IInv, DualControl
  <2> HIDE DEF row, c
  <2>5. /\ row.draft_version >= changes[c].draft_version
        /\ ApprovalRequired => row.reviewed_by # row.submitted_by
        /\ row.status # "approved"
    BY <2>3, <2>4
  <2>6. QED
    BY <1>1, <1>2, <2>1, <2>2, <2>3, <2>5, AnswerInv
<1>4. CASE ~ Editable(changes[c])
  BY <1>1, <1>4, ReleaseInv DEF MarkSubmitted, tables
<1>5. QED
  BY <1>3, <1>4

-----------------------------------------------------------------------------
(* The reviewer's steps                                                     *)

\* What a handler in the middle of a request holds.
LEMMA HeldTyped ==
  ASSUME IInv, NEW h \in Handlers, pc[h] # "idle"
  PROVE  /\ req[h] \in Request
         /\ req[h].id \in ChangeIds /\ req[h].actor \in Admins
         /\ req[h].row \in ChangeRow /\ req[h].row.payload \in Fields
         /\ changes[req[h].id] # Null /\ changes[req[h].id] \in ChangeRow
BY DEF IInv, TypeOK, HeldOK, Request, ChangeRow

\* A write to the live table by a reviewer who is not the author, whatever row it
\* leaves, puts the handler in front of RecordVersion with that row.
LEMMA PublishInv ==
  ASSUME IInv, NEW h \in Handlers, pc[h] = "apply", NEW d \in DestIds,
         NEW row \in DestRow, row.updated_by = req[h].actor,
         req[h].row.destination_id \in {Null, d},
         Publish(h, d, row)
  PROVE  IInv'
<1> DEFINE p == [destination_id |-> d, change |-> req[h].id,
                 fields |-> req[h].row.payload, row |-> row]
<1>1. /\ dests' = [dests EXCEPT ![d] = row]
      /\ publications' = publications \cup {p}
      /\ out' = [out EXCEPT ![h] = p]
      /\ pc' = [pc EXCEPT ![h] = "record"]
      /\ UNCHANGED <<changes, versions, bucket, req>>
  BY DEF Publish
<1>2. /\ req[h].id \in ChangeIds /\ changes[req[h].id] # Null
      /\ req[h].row.payload \in Fields
  BY HeldTyped
<1>3. /\ p \in Publication /\ p.destination_id = d /\ p.change = req[h].id
      /\ p.row = row
  BY <1>2 DEF Publication
<1> HIDE DEF p
<1>4. TypeOK'
  BY <1>1, <1>3 DEF IInv, TypeOK, Steps
<1>5. /\ pc'[h] = "record" /\ out'[h] = p
      /\ \A g \in Handlers : g # h => pc'[g] = pc[g] /\ out'[g] = out[g]
  BY <1>1 DEF IInv, TypeOK
<1>6. TargetsOK' /\ HeldOK' /\ ActorsOK' /\ BaseOK' /\ SavedOK'
  BY <1>1, <1>5 DEF IInv, TargetsOK, HeldOK, ActorsOK, BaseOK, SeenVersion, SavedOK
<1>7. OutOK'
  BY <1>1, <1>3, <1>5 DEF IInv, OutOK
<1>8. RecordedOK'
  BY <1>1, <1>5 DEF IInv, RecordedOK
<1>9. HistoryOK'
  BY <1>1, <1>2, <1>3 DEF IInv, HistoryOK
<1>10. ApprovalRequired => row.updated_by # changes[req[h].id].submitted_by
  BY DEF IInv, ActorsOK, HeldOK
<1>11. DualControl'
  BY <1>1, <1>3, <1>10 DEF IInv, DualControl
<1>12. SnapshotsFaithful' /\ ApprovedIsRecorded'
  BY <1>1 DEF IInv, SnapshotsFaithful, ApprovedIsRecorded
<1>13. QED
  BY <1>4, <1>6, <1>7, <1>8, <1>9, <1>11, <1>12 DEF IInv

\* applyCreate publishes, or is refused by the slug index.
LEMMA ApplyCreateInv ==
  ASSUME IInv, NEW h \in Handlers, ApplyCreate(h)
  PROVE  IInv'
<1> DEFINE row == InsertedRow(req[h].row.payload, req[h].actor)
<1>1. pc[h] = "apply" /\ req[h].row.action = "create"
  BY DEF ApplyCreate
<1>2. PICK d \in DestIds : Publish(h, d, row) \/ Refused(h)
  BY DEF ApplyCreate
<1>3. row \in DestRow /\ row.updated_by = req[h].actor
  BY <1>1, HeldTyped, InsertedRowType DEF InsertedRow
<1>4. req[h].row.destination_id = Null
  BY <1>1, HeldTyped DEF IInv, HeldOK, TargetsOK
<1> HIDE DEF row
<1>5. QED
  BY <1>1, <1>2, <1>3, <1>4, PublishInv, ReleaseInv DEF Refused

\* The destination an update or a delete names exists in the table.
LEMMA TargetTyped ==
  ASSUME IInv, NEW h \in Handlers, pc[h] # "idle", req[h].row.action # "create",
         dests[req[h].row.destination_id] # Null
  PROVE  /\ req[h].row.destination_id \in DestIds
         /\ dests[req[h].row.destination_id] \in DestRow
<1>1. req[h].row.destination_id # Null
  BY HeldTyped DEF IInv, HeldOK, TargetsOK
<1>2. QED
  BY <1>1, HeldTyped DEF ChangeRow, IInv, TypeOK

\* applyUpdate publishes, or is refused by the slug index.
LEMMA ApplyUpdateInv ==
  ASSUME IInv, NEW h \in Handlers, ApplyUpdate(h)
  PROVE  IInv'
<1> DEFINE d == req[h].row.destination_id
           row == UpdatedRow(dests[d], req[h].row.payload, req[h].actor)
<1>1. /\ pc[h] = "apply" /\ req[h].row.action = "update" /\ dests[d] # Null
      /\ Publish(h, d, row) \/ Refused(h)
  BY DEF ApplyUpdate
<1>2. d \in DestIds /\ dests[d] \in DestRow
  BY <1>1, TargetTyped
<1>3. row \in DestRow /\ row.updated_by = req[h].actor
  BY <1>1, <1>2, HeldTyped, UpdatedRowType DEF UpdatedRow
<1> HIDE DEF row
<1>4. QED
  BY <1>1, <1>2, <1>3, PublishInv, ReleaseInv DEF Refused

\* applyDelete publishes the archived row.
LEMMA ApplyArchiveInv ==
  ASSUME IInv, NEW h \in Handlers, ApplyArchive(h)
  PROVE  IInv'
<1> DEFINE d == req[h].row.destination_id
           row == ArchivedRow(dests[d], req[h].actor)
<1>1. /\ pc[h] = "apply" /\ req[h].row.action = "delete" /\ dests[d] # Null
      /\ Publish(h, d, row)
  BY DEF ApplyArchive
<1>2. d \in DestIds /\ dests[d] \in DestRow
  BY <1>1, TargetTyped
<1>3. row \in DestRow
  BY <1>1, <1>2, HeldTyped, ArchivedRowType
<1>4. row.updated_by = req[h].actor
  BY <1>2 DEF ArchivedRow, DestRow
<1> HIDE DEF row
<1>5. QED
  BY <1>1, <1>2, <1>3, <1>4, PublishInv

\* The change under review refers to its destination, so the DELETE of a hard
\* delete never goes through.
LEMMA HardDeleteRefused ==
  ASSUME IInv, NEW h \in Handlers, ApplyHardDelete(h)
  PROVE  Refused(h)
<1>1. pc[h] = "apply"
  BY DEF ApplyHardDelete
<1>2. Referenced(req[h].row.destination_id)
  BY <1>1, HeldTyped DEF Referenced, IInv, HeldOK
<1>3. QED
  BY <1>2 DEF ApplyHardDelete

\* The version row signs what the handler holds, which is its own write.
LEMMA RecordVersionInv ==
  ASSUME IInv, NEW h \in Handlers, RecordVersion(h)
  PROVE  IInv'
<1> DEFINE p == out[h]
           v == [destination_id |-> p.destination_id, change_request_id |-> p.change,
                 version |-> p.row.version, snapshot |-> p.row,
                 created_by |-> req[h].actor]
<1>1. pc[h] = "record"
  BY DEF RecordVersion
<1>2. /\ p \in publications /\ p \in Publication
      /\ p.change = req[h].id /\ p.row.updated_by = req[h].actor
  BY <1>1 DEF IInv, OutOK, TypeOK
<1>3. /\ v \in VersionRow
      /\ v.destination_id = p.destination_id /\ v.change_request_id = p.change
      /\ v.version = p.row.version /\ v.snapshot = p.row
      /\ v.created_by = p.row.updated_by
  BY <1>1, <1>2, HeldTyped DEF Publication, VersionRow, DestRow
<1>4. CASE VersionInsertable(v.destination_id, v.version)
  <2>1. /\ versions' = versions \cup {v}
        /\ pc' = [pc EXCEPT ![h] = "approve"]
        /\ UNCHANGED <<changes, dests, publications, bucket, req, out>>
    BY <1>4 DEF RecordVersion
  <2> HIDE DEF v, p
  <2>2. TypeOK'
    BY <1>1, <2>1, <1>3 DEF IInv, TypeOK, Steps
  <2>3. /\ pc'[h] = "approve" /\ \A g \in Handlers : g # h => pc'[g] = pc[g]
    BY <2>1 DEF IInv, TypeOK
  <2>4. TargetsOK' /\ HeldOK' /\ ActorsOK' /\ BaseOK' /\ SavedOK' /\ HistoryOK'
    BY <1>1, <2>1, <2>3
    DEF IInv, TargetsOK, HeldOK, ActorsOK, BaseOK, SeenVersion, SavedOK, HistoryOK
  <2>5. OutOK'
    BY <1>1, <2>1, <2>3 DEF IInv, OutOK
  <2>6. RecordedOK'
    BY <1>2, <1>3, <2>1, <2>3 DEF IInv, RecordedOK, p
  <2>7. SnapshotsFaithful'
    BY <1>2, <1>3, <2>1 DEF IInv, SnapshotsFaithful
  <2>8. DualControl'
    BY <1>2, <1>3, <2>1 DEF IInv, DualControl
  <2>9. ApprovedIsRecorded'
    BY <2>1 DEF IInv, ApprovedIsRecorded
  <2>10. QED
    BY <2>2, <2>4, <2>5, <2>6, <2>7, <2>8, <2>9 DEF IInv
<1>5. CASE ~ VersionInsertable(v.destination_id, v.version)
  BY <1>5, ReleaseInv DEF RecordVersion, Refused
<1>6. QED
  BY <1>4, <1>5

\* SetStatus keeps the invariant for a reviewer other than the author, provided a
\* change it approves has its version row.
LEMMA SetStatusInv ==
  ASSUME IInv, NEW h \in Handlers, pc[h] \in {"approve", "reject"},
         NEW s \in ChangeStatuses, NEW n \in Nat, SetStatus(h, s, n),
         s = "approved" =>
           \E v \in versions :
             /\ v.change_request_id = req[h].id
             /\ v.version = n
             /\ req[h].row.destination_id \in {Null, v.destination_id}
  PROVE  IInv'
<1> DEFINE c == req[h].id
           row == [changes[c] EXCEPT !.status = s, !.reviewed_by = req[h].actor,
                                     !.published_version = n]
<1>1. /\ changes' = [changes EXCEPT ![c] = row]
      /\ Done(h) /\ UNCHANGED <<dests, versions, publications, bucket>>
  BY DEF SetStatus
<1>2. /\ c \in ChangeIds /\ changes[c] # Null /\ changes[c] \in ChangeRow
      /\ req[h].actor \in Admins
  BY HeldTyped
<1>3. row \in ChangeRow
  BY <1>2, DecidedRowType
<1>4. /\ row.action = changes[c].action
      /\ row.destination_id = changes[c].destination_id
      /\ row.submitted_by = changes[c].submitted_by
      /\ row.draft_version = changes[c].draft_version
      /\ row.payload = changes[c].payload
      /\ row.reviewed_by = req[h].actor
      /\ row.status = s
      /\ row.published_version = n
      /\ changes[c].draft_version \in Nat
  BY <1>2 DEF ChangeRow
<1>5. /\ ApprovalRequired => req[h].actor # changes[c].submitted_by
      /\ changes[c].destination_id = req[h].row.destination_id
  BY DEF IInv, ActorsOK, HeldOK
<1> HIDE DEF row, c
<1>6. /\ row.draft_version >= changes[c].draft_version
      /\ ApprovalRequired => row.reviewed_by # row.submitted_by
      /\ row.status = "approved" =>
           \E v \in versions : /\ v.change_request_id = c
                             /\ v.version = row.published_version
                             /\ row.destination_id \in {Null, v.destination_id}
  BY <1>4, <1>5 DEF c
<1>7. QED
  BY <1>1, <1>2, <1>3, <1>4, <1>6, AnswerInv

\* The version row a handler recorded is there when it approves.
LEMMA MarkApprovedInv ==
  ASSUME IInv, NEW h \in Handlers, MarkApproved(h)
  PROVE  IInv'
<1>1. pc[h] = "approve" /\ SetStatus(h, "approved", out[h].row.version)
  BY DEF MarkApproved
<1>2. out[h].row.version \in Nat
  BY <1>1 DEF IInv, TypeOK, Publication, DestRow
<1>3. \E v \in versions :
        /\ v.change_request_id = req[h].id
        /\ v.version = out[h].row.version
        /\ req[h].row.destination_id \in {Null, v.destination_id}
  BY <1>1 DEF IInv, RecordedOK, OutOK
<1>4. QED
  BY <1>1, <1>2, <1>3, SetStatusInv DEF ChangeStatuses

\* A rejection points to no version.
LEMMA MarkRejectedInv ==
  ASSUME IInv, NEW h \in Handlers, MarkRejected(h)
  PROVE  IInv'
BY SetStatusInv DEF MarkRejected, ChangeStatuses

-----------------------------------------------------------------------------
(* The invariant                                                            *)

\* The empty tables, and those with legacy destinations, satisfy the invariant.
LEMMA InitInv == Init => IInv
<1> SUFFICES ASSUME Init PROVE IInv
  OBVIOUS
<1>1. /\ changes = [c \in ChangeIds |-> Null] /\ versions = {} /\ publications = {}
      /\ bucket = {} /\ pc = [h \in Handlers |-> "idle"]
      /\ req = [h \in Handlers |-> Null] /\ out = [h \in Handlers |-> Null]
  BY DEF Init
<1>2. PICK n \in Names :
        dests = [d \in DestIds |-> IF d \in LegacyDests THEN LegacyRow(n) ELSE Null]
  BY DEF Init
<1>3. TypeOK
  BY <1>1, <1>2, LegacyRowType DEF TypeOK, Steps
<1>4. HeldOK /\ ActorsOK /\ BaseOK /\ SavedOK /\ OutOK /\ RecordedOK
  BY <1>1 DEF HeldOK, ActorsOK, BaseOK, SavedOK, OutOK, RecordedOK
<1>5. TargetsOK /\ HistoryOK /\ DualControl /\ SnapshotsFaithful /\ ApprovedIsRecorded
  BY <1>1 DEF TargetsOK, HistoryOK, DualControl, SnapshotsFaithful, ApprovedIsRecorded
<1>6. QED
  BY <1>3, <1>4, <1>5 DEF IInv

\* Every step made for an author preserves the invariant.
LEMMA AuthorInv ==
  ASSUME IInv, NEW h \in Handlers, AuthorStep(h)
  PROVE  IInv'
<1>1. CASE \E a \in Admins, c \in ChangeIds : OpenForm(h, a, c)
  BY <1>1, BeginInv DEF OpenForm
<1>2. CASE CloseForm(h)
  BY <1>2, ReleaseInv DEF CloseForm
<1>3. CASE \E fields \in Inputs : UpdateDraft(h, fields)
  BY <1>3, UpdateDraftInv
<1>4. CASE \E a \in Admins, c \in ChangeIds, i \in Images : UploadHeroImage(h, a, c, i)
  BY <1>4, UploadsInv
<1>5. CASE \E a \in Admins, c \in ChangeIds, i \in Images : UploadGalleryImages(h, a, c, i)
  BY <1>5, UploadsInv
<1>6. CASE SaveDraft(h)
  BY <1>6, SaveDraftInv
<1>7. CASE \E a \in Admins, c \in ChangeIds : SubmitDraft(h, a, c)
  BY <1>7, BeginInv DEF SubmitDraft
<1>8. CASE MarkSubmitted(h)
  BY <1>8, MarkSubmittedInv
<1>9. QED
  BY <1>1, <1>2, <1>3, <1>4, <1>5, <1>6, <1>7, <1>8 DEF AuthorStep

\* Every step made for a reviewer preserves the invariant.
LEMMA ReviewerInv ==
  ASSUME IInv, NEW h \in Handlers, ReviewerStep(h)
  PROVE  IInv'
<1>1. CASE \E a \in Admins, c \in ChangeIds : Approve(h, a, c)
  BY <1>1, BeginInv DEF Approve, Reviewable
<1>2. CASE ApplyCreate(h)
  BY <1>2, ApplyCreateInv
<1>3. CASE ApplyUpdate(h)
  BY <1>3, ApplyUpdateInv
<1>4. CASE ApplyArchive(h)
  BY <1>4, ApplyArchiveInv
<1>5. CASE ApplyHardDelete(h)
  BY <1>5, HardDeleteRefused, ReleaseInv DEF Refused
<1>6. CASE RecordVersion(h)
  BY <1>6, RecordVersionInv
<1>7. CASE MarkApproved(h)
  BY <1>7, MarkApprovedInv
<1>8. CASE \E a \in Admins, c \in ChangeIds : Reject(h, a, c)
  BY <1>8, BeginInv DEF Reject, Reviewable
<1>9. CASE MarkRejected(h)
  BY <1>9, MarkRejectedInv
<1>10. QED
  BY <1>1, <1>2, <1>3, <1>4, <1>5, <1>6, <1>7, <1>8, <1>9 DEF ReviewerStep

\* The invariant is inductive.
LEMMA StepInv == IInv /\ [Next]_vars => IInv'
<1> SUFFICES ASSUME IInv, [Next]_vars PROVE IInv'
  OBVIOUS
<1>1. CASE \E a \in Admins, action \in Actions, d \in DestIds \cup {Null},
             fields \in Inputs : CreateDraft(a, action, d, fields)
  BY <1>1, CreateDraftInv
<1>2. CASE \E h \in Handlers : AuthorStep(h)
  BY <1>2, AuthorInv
<1>3. CASE \E h \in Handlers : ReviewerStep(h)
  BY <1>3, ReviewerInv
<1>4. CASE \E h \in Handlers : Fail(h)
  BY <1>4, ReleaseInv DEF Fail, Refused
<1>5. CASE UNCHANGED vars
  BY <1>5
  DEF vars, IInv, TypeOK, TargetsOK, HeldOK, ActorsOK, BaseOK, SeenVersion, SavedOK,
      OutOK, RecordedOK, HistoryOK, DualControl, SnapshotsFaithful, ApprovedIsRecorded
<1>6. QED
  BY <1>1, <1>2, <1>3, <1>4, <1>5 DEF Next

\* The inductive invariant holds in every state the service can reach, with any
\* number of requests in flight and statements failing anywhere.
THEOREM Invariance == Spec => []IInv
<1>1. QED
  BY InitInv, StepInv, PTL DEF Spec

-----------------------------------------------------------------------------
(* The results                                                              *)

\* The tables and what the handlers hold keep their types.
THEOREM TypeCorrect == Spec => []TypeOK
<1>1. IInv => TypeOK
  BY DEF IInv
<1>2. QED
  BY <1>1, Invariance, PTL

(* With approval required no change is published, signed or reviewed by its *)
(* own author, however approvals, rejections and edits interleave (the      *)
(* check in Approve and Reject is made on a row read earlier).              *)
THEOREM DualControlHolds == Spec => []DualControl
<1>1. IInv => DualControl
  BY DEF IInv
<1>2. QED
  BY <1>1, Invariance, PTL

(* Every row of destination_version is the image of the write to the live   *)
(* table it was made for, although other writes fall between the two.       *)
THEOREM SnapshotsAreFaithful == Spec => []SnapshotsFaithful
<1>1. IInv => SnapshotsFaithful
  BY DEF IInv
<1>2. QED
  BY <1>1, Invariance, PTL

\* A change shown as approved points to a version recorded for it.
THEOREM ApprovedAreRecorded == Spec => []ApprovedIsRecorded
<1>1. IInv => ApprovedIsRecorded
  BY DEF IInv
<1>2. QED
  BY <1>1, Invariance, PTL

-----------------------------------------------------------------------------
(* Edits                                                                    *)

\* Only SaveDraft gives an existing change another payload.
LEMMA PayloadKept ==
  ASSUME IInv, NEW c \in ChangeIds, changes[c] # Null, [Next]_vars,
         \A h \in Handlers : ~ SaveDraft(h)
  PROVE  changes'[c].payload = changes[c].payload
<1>1. CASE \E a \in Admins, action \in Actions, d \in DestIds \cup {Null},
             fields \in Inputs : CreateDraft(a, action, d, fields)
  BY <1>1 DEF CreateDraft, IInv, TypeOK
<1>2. changes[c] \in ChangeRow
  BY DEF IInv, TypeOK
<1>3. ASSUME NEW h \in Handlers, AuthorStep(h)
      PROVE  changes'[c].payload = changes[c].payload
  <2>1. CASE MarkSubmitted(h)
    <3>1. req[h].id \in ChangeIds /\ changes[req[h].id] \in ChangeRow
      BY <2>1, HeldTyped DEF MarkSubmitted
    <3>2. QED
      BY <1>2, <2>1, <3>1 DEF MarkSubmitted, IInv, TypeOK, ChangeRow
  <2>2. CASE UNCHANGED changes
    BY <2>2
  <2>3. QED
    BY <1>3, <2>1, <2>2
    DEF AuthorStep, OpenForm, CloseForm, UpdateDraft, UploadHeroImage,
        UploadGalleryImages, Upload, SubmitDraft, Begin, tables
<1>4. ASSUME NEW h \in Handlers, ReviewerStep(h)
      PROVE  changes'[c].payload = changes[c].payload
  <2>1. CASE MarkApproved(h) \/ MarkRejected(h)
    <3>1. req[h].id \in ChangeIds /\ changes[req[h].id] \in ChangeRow
      BY <2>1, HeldTyped DEF MarkApproved, MarkRejected
    <3>2. PICK s, n : changes' = [changes EXCEPT ![req[h].id] =
            [@ EXCEPT !.status = s, !.reviewed_by = req[h].actor,
                      !.published_version = n]]
      BY <2>1 DEF MarkApproved, MarkRejected, SetStatus
    <3>3. QED
      BY <1>2, <3>1, <3>2 DEF IInv, TypeOK, ChangeRow
  <2>2. CASE UNCHANGED changes
    BY <2>2
  <2>3. QED
    BY <1>4, <2>1, <2>2
    DEF ReviewerStep, Approve, ApplyCreate, ApplyUpdate, ApplyArchive, ApplyHardDelete,
        RecordVersion, Reject, Begin, Publish, Refused, tables
<1>5. CASE \E h \in Handlers : Fail(h)
  BY <1>5 DEF Fail, Refused, tables
<1>6. CASE UNCHANGED vars
  BY <1>6 DEF vars
<1>7. QED
  BY <1>1, <1>3, <1>4, <1>5, <1>6 DEF Next

(* Nobody's edit is overwritten: a payload is replaced only by a handler    *)
(* that started from it, for the change's author (draft_version in the      *)
(* WHERE clause of DestinationChangeRepository.Update).                     *)
THEOREM NoEditIsLost == Spec => NoLostEdit
<1> DEFINE A == \A c \in ChangeIds :
       changes[c] # Null /\ changes'[c].payload # changes[c].payload =>
         /\ changes'[c].draft_version = changes[c].draft_version + 1
         /\ \E h \in Handlers :
              /\ pc[h] = "save"
              /\ req[h].id = c
              /\ req[h].base = changes[c].payload
              /\ req[h].actor = changes[c].submitted_by
              /\ req[h].row.payload = changes'[c].payload
<1>1. IInv /\ [Next]_vars => A
  <2> SUFFICES ASSUME IInv, [Next]_vars, NEW c \in ChangeIds, changes[c] # Null,
                      changes'[c].payload # changes[c].payload
               PROVE  /\ changes'[c].draft_version = changes[c].draft_version + 1
                      /\ \E h \in Handlers :
                           /\ pc[h] = "save"
                           /\ req[h].id = c
                           /\ req[h].base = changes[c].payload
                           /\ req[h].actor = changes[c].submitted_by
                           /\ req[h].row.payload = changes'[c].payload
    OBVIOUS
  <2>1. PICK h \in Handlers : SaveDraft(h)
    BY PayloadKept
  <2>2. /\ pc[h] = "save" /\ req[h].row \in ChangeRow /\ changes[c] \in ChangeRow
        /\ req[h].id \in ChangeIds /\ changes[req[h].id] \in ChangeRow
    BY <2>1, HeldTyped DEF SaveDraft, IInv, TypeOK
  <2>3. req[h].id = c /\ changes[c].draft_version = req[h].row.draft_version - 1
    BY <2>1, <2>2 DEF SaveDraft, IInv, TypeOK
  <2>4. changes'[c] = [changes[c] EXCEPT
            !.payload = req[h].row.payload, !.draft_version = req[h].row.draft_version,
            !.status = req[h].row.status, !.reviewed_by = req[h].row.reviewed_by,
            !.published_version = req[h].row.published_version]
    BY <2>1, <2>3 DEF SaveDraft, IInv, TypeOK
  <2>5. /\ changes'[c].payload = req[h].row.payload
        /\ changes'[c].draft_version = req[h].row.draft_version
    BY <2>2, <2>4 DEF ChangeRow
  <2>6. req[h].base = changes[c].payload
    BY <2>2, <2>3 DEF IInv, BaseOK, SeenVersion
  <2>7. req[h].actor = changes[c].submitted_by
    BY <2>2, <2>3 DEF IInv, ActorsOK, HeldOK
  <2>8. changes'[c].draft_version = changes[c].draft_version + 1
    BY <2>2, <2>3, <2>5 DEF ChangeRow
  <2>9. QED
    BY <2>2, <2>3, <2>5, <2>6, <2>7, <2>8
<1>2. QED
  BY <1>1, Invariance, PTL DEF Spec, NoLostEdit

-----------------------------------------------------------------------------
(* Writes to the live table                                                 *)

\* An INSERT at version 1, or an UPDATE that counts the version and leaves an
\* archived row archived.
RowStep(d, row) ==
  \/ dests[d] = Null /\ row.version = 1
  \/ /\ dests[d] # Null
     /\ row.version = dests[d].version + 1
     /\ dests[d].deleted => row.deleted

\* The statement of applyCreate, applyUpdate or applyDelete is refused, or it is
\* a write with the next version of its destination.
LEMMA ApplyStep ==
  ASSUME IInv, NEW h \in Handlers,
         ApplyCreate(h) \/ ApplyUpdate(h) \/ ApplyArchive(h) \/ ApplyHardDelete(h)
  PROVE  /\ pc[h] = "apply"
         /\ \/ Refused(h)
            \/ \E d \in DestIds, row \in DestRow : Publish(h, d, row) /\ RowStep(d, row)
<1>1. CASE ApplyCreate(h)
  <2>1. PICK d \in DestIds :
          /\ dests[d] = Null
          /\ \/ Publish(h, d, InsertedRow(req[h].row.payload, req[h].actor))
             \/ Refused(h)
    BY <1>1 DEF ApplyCreate
  <2>2. pc[h] = "apply"
    BY <1>1 DEF ApplyCreate
  <2>3. InsertedRow(req[h].row.payload, req[h].actor) \in DestRow
    BY <2>2, HeldTyped, InsertedRowType
  <2>4. InsertedRow(req[h].row.payload, req[h].actor).version = 1
    BY DEF InsertedRow
  <2>5. QED
    BY <2>1, <2>2, <2>3, <2>4 DEF RowStep
<1>2. CASE ApplyUpdate(h)
  <2> DEFINE d == req[h].row.destination_id
             row == UpdatedRow(dests[d], req[h].row.payload, req[h].actor)
  <2>1. /\ pc[h] = "apply" /\ req[h].row.action = "update" /\ dests[d] # Null
        /\ Publish(h, d, row) \/ Refused(h)
    BY <1>2 DEF ApplyUpdate
  <2>2. d \in DestIds /\ dests[d] \in DestRow
    BY <2>1, TargetTyped
  <2>3. row \in DestRow
    BY <2>1, <2>2, HeldTyped, UpdatedRowType
  <2>4. row.version = dests[d].version + 1 /\ row.deleted = dests[d].deleted
    BY DEF UpdatedRow
  <2> HIDE DEF row
  <2>5. QED
    BY <2>1, <2>2, <2>3, <2>4 DEF RowStep
<1>3. CASE ApplyArchive(h)
  <2> DEFINE d == req[h].row.destination_id
             row == ArchivedRow(dests[d], req[h].actor)
  <2>1. /\ pc[h] = "apply" /\ req[h].row.action = "delete" /\ dests[d] # Null
        /\ Publish(h, d, row)
    BY <1>3 DEF ApplyArchive
  <2>2. d \in DestIds /\ dests[d] \in DestRow
    BY <2>1, TargetTyped
  <2>3. row \in DestRow
    BY <2>1, <2>2, HeldTyped, ArchivedRowType
  <2>4. row.version = dests[d].version + 1 /\ row.deleted
    BY <2>2 DEF ArchivedRow, DestRow
  <2> HIDE DEF row
  <2>5. QED
    BY <2>1, <2>2, <2>3, <2>4 DEF RowStep
<1>4. CASE ApplyHardDelete(h)
  BY <1>4, HardDeleteRefused DEF ApplyHardDelete
<1>5. QED
  BY <1>1, <1>2, <1>3, <1>4

\* A step writes no destination, or it is the one write recorded in the history
\* with the next version of its destination.
LEMMA LiveStep ==
  ASSUME IInv, [Next]_vars
  PROVE  \/ UNCHANGED <<dests, publications>>
         \/ \E h \in Handlers, d \in DestIds, row \in DestRow :
              pc[h] = "apply" /\ Publish(h, d, row) /\ RowStep(d, row)
<1> DEFINE Quiet == UNCHANGED <<dests, publications>>
           Write == \E h \in Handlers, d \in DestIds, row \in DestRow :
                      pc[h] = "apply" /\ Publish(h, d, row) /\ RowStep(d, row)
<1>1. ASSUME NEW h \in Handlers,
             ApplyCreate(h) \/ ApplyUpdate(h) \/ ApplyArchive(h) \/ ApplyHardDelete(h)
      PROVE  Quiet \/ Write
  BY <1>1, ApplyStep DEF Refused, tables
<1>2. ASSUME NEW h \in Handlers, AuthorStep(h) PROVE Quiet
  BY <1>2 DEF AuthorStep, OpenForm, CloseForm, UpdateDraft, UploadHeroImage,
     UploadGalleryImages, Upload, SaveDraft, SubmitDraft, MarkSubmitted, Begin, tables
<1>3. ASSUME NEW h \in Handlers, ReviewerStep(h) PROVE Quiet \/ Write
  <2>1. CASE ApplyCreate(h) \/ ApplyUpdate(h) \/ ApplyArchive(h) \/ ApplyHardDelete(h)
    BY <2>1, <1>1
  <2>2. CASE \/ RecordVersion(h) \/ MarkApproved(h) \/ MarkRejected(h)
             \/ \E a \in Admins, c \in ChangeIds : Approve(h, a, c) \/ Reject(h, a, c)
    BY <2>2 DEF RecordVersion, MarkApproved, MarkRejected, SetStatus, Approve, Reject,
       Begin, Refused, tables
  <2> HIDE DEF Quiet, Write
  <2>3. QED
    BY <1>3, <2>1, <2>2 DEF ReviewerStep
<1>4. ASSUME NEW a \in Admins, NEW action \in Actions, NEW d \in DestIds \cup {Null},
             NEW fields \in Inputs, CreateDraft(a, action, d, fields)
      PROVE  Quiet
  BY <1>4 DEF CreateDraft
<1>5. ASSUME NEW h \in Handlers, Fail(h) PROVE Quiet
  BY <1>5 DEF Fail, Refused, tables
<1>6. ASSUME UNCHANGED vars PROVE Quiet
  BY <1>6 DEF vars
<1> HIDE DEF Quiet, Write
<1>7. Quiet \/ Write
  BY <1>2, <1>3, <1>4, <1>5, <1>6 DEF Next
<1>8. QED
  BY <1>7 DEF Quiet, Write

\* No update or approval brings an archived destination back to the catalogue.
THEOREM ArchivedStayHidden == Spec => ArchivedStaysHidden
<1> DEFINE A == \A d \in DestIds : dests[d] # Null /\ dests[d].deleted =>
       dests'[d] # Null /\ dests'[d].deleted /\ ~ Served(d)'
<1>1. IInv /\ [Next]_vars => A
  <2> SUFFICES ASSUME IInv, [Next]_vars, NEW d \in DestIds,
                      dests[d] # Null, dests[d].deleted
               PROVE  dests'[d] # Null /\ dests'[d].deleted
    BY DEF Served
  <2>1. CASE UNCHANGED <<dests, publications>>
    BY <2>1
  <2>2. CASE \E h \in Handlers, e \in DestIds, row \in DestRow :
               pc[h] = "apply" /\ Publish(h, e, row) /\ RowStep(e, row)
    <3>1. PICK e \in DestIds, row \in DestRow :
            dests' = [dests EXCEPT ![e] = row] /\ RowStep(e, row)
      BY <2>2 DEF Publish
    <3>2. row # Null
      BY <3>1, WorkflowAssumption
    <3>3. QED
      BY <3>1, <3>2 DEF RowStep, IInv, TypeOK
  <2>3. QED
    BY <2>1, <2>2, LiveStep
<1>2. QED
  BY <1>1, Invariance, PTL DEF Spec, ArchivedStaysHidden

\* A hard delete never takes effect, whatever HardDeleteAllowed says: the change
\* under review references the row applyDelete wants to remove.  A destination
\* once in the table stays there, and its version only grows.
THEOREM NoDestinationIsRemoved ==
  Spec => [][\A d \in DestIds :
               dests[d] # Null => dests'[d] # Null /\ dests'[d].version >= dests[d].version]_vars
<1> DEFINE A == \A d \in DestIds :
       dests[d] # Null => dests'[d] # Null /\ dests'[d].version >= dests[d].version
<1>1. IInv /\ [Next]_vars => A
  <2> SUFFICES ASSUME IInv, [Next]_vars, NEW d \in DestIds, dests[d] # Null
               PROVE  dests'[d] # Null /\ dests'[d].version >= dests[d].version
    OBVIOUS
  <2>1. dests[d].version \in Nat
    BY DEF IInv, TypeOK, DestRow
  <2>2. CASE UNCHANGED <<dests, publications>>
    BY <2>1, <2>2
  <2>3. CASE \E h \in Handlers, e \in DestIds, row \in DestRow :
               pc[h] = "apply" /\ Publish(h, e, row) /\ RowStep(e, row)
    <3>1. PICK e \in DestIds, row \in DestRow :
            dests' = [dests EXCEPT ![e] = row] /\ RowStep(e, row)
      BY <2>3 DEF Publish
    <3>2. row # Null
      BY <3>1, WorkflowAssumption
    <3>3. QED
      BY <2>1, <3>1, <3>2 DEF RowStep, IInv, TypeOK
  <2>4. QED
    BY <2>2, <2>3, LiveStep
<1>2. QED
  BY <1>1, Invariance, PTL DEF Spec

\* What VersionsGapless rests on: rows that were written, or were there before
\* the workflow, are still there.
LiveOK ==
  /\ \A d \in LegacyDests : dests[d] # Null
  /\ \A p \in publications : dests[p.destination_id] # Null

\* Together they are inductive, whoever writes in between.
LEMMA LiveInvariance == Spec => [](LiveOK /\ VersionsGapless)
<1>1. Init => LiveOK /\ VersionsGapless
  <2> SUFFICES ASSUME Init PROVE LiveOK /\ VersionsGapless
    OBVIOUS
  <2>1. publications = {}
    BY DEF Init
  <2>2. PICK n \in Names :
          dests = [d \in DestIds |-> IF d \in LegacyDests THEN LegacyRow(n) ELSE Null]
    BY DEF Init
  <2>3. \A d \in DestIds :
          dests[d] = IF d \in LegacyDests THEN LegacyRow(n) ELSE Null
    BY <2>2
  <2>4. LegacyRow(n) # Null /\ LegacyRow(n).version = 1
    BY LegacyRowType, WorkflowAssumption DEF LegacyRow
  <2>5. LiveOK
    BY <2>1, <2>3, <2>4, TablesAssumption DEF LiveOK, FirstVersion
  <2>6. VersionsGapless
    <3>1. {p.row.version : p \in {q \in publications : FALSE}} = {}
      OBVIOUS
    <3>2. QED
      BY <2>1, <2>3, <2>4 DEF VersionsGapless, FirstVersion
  <2>7. QED
    BY <2>5, <2>6
<1>2. IInv /\ LiveOK /\ VersionsGapless /\ [Next]_vars => LiveOK' /\ VersionsGapless'
  <2> SUFFICES ASSUME IInv, LiveOK, VersionsGapless, [Next]_vars
               PROVE  LiveOK' /\ VersionsGapless'
    OBVIOUS
  <2>1. CASE UNCHANGED <<dests, publications>>
    BY <2>1 DEF LiveOK, VersionsGapless, FirstVersion
  <2>2. CASE \E h \in Handlers, e \in DestIds, row \in DestRow :
               pc[h] = "apply" /\ Publish(h, e, row) /\ RowStep(e, row)
    <3>1. PICK h \in Handlers, e \in DestIds, row \in DestRow :
            pc[h] = "apply" /\ Publish(h, e, row) /\ RowStep(e, row)
      BY <2>2
    <3> DEFINE p == [destination_id |-> e, change |-> req[h].id,
                     fields |-> req[h].row.payload, row |-> row]
               Of(d) == {q \in publications : q.destination_id = d}
               Numbers(d) == {q.row.version : q \in Of(d)}
    <3>2. /\ dests' = [dests EXCEPT ![e] = row]
          /\ publications' = publications \cup {p}
      BY <3>1 DEF Publish
    <3>3. p.destination_id = e /\ p.row = row
      OBVIOUS
    <3> HIDE DEF p
    <3>4. row # Null /\ row.version \in Nat
      BY WorkflowAssumption DEF DestRow
    <3>5. dests'[e] = row /\ \A d \in DestIds \ {e} : dests'[d] = dests[d]
      BY <3>2 DEF IInv, TypeOK
    <3>6. \A q \in publications : q.destination_id \in DestIds /\ q.row.version \in Nat
      BY DEF IInv, TypeOK, Publication, DestRow
    <3>7. LiveOK'
      BY <3>2, <3>3, <3>4, <3>5, <3>6, TablesAssumption DEF LiveOK
    <3>8. ASSUME NEW d \in DestIds, dests'[d] # Null
          PROVE  /\ Numbers(d)' = FirstVersion(d) .. dests'[d].version
                 /\ \A q, r \in publications' :
                      q.destination_id = d /\ r.destination_id = d
                        /\ q.row.version = r.row.version => q = r
      <4>1. CASE d # e
        <5>1. Of(d)' = Of(d) /\ dests'[d] = dests[d]
          BY <4>1, <3>2, <3>3, <3>5
        <5>2. Numbers(d)' = Numbers(d)
          BY <5>1
        <5>3. /\ Numbers(d) = FirstVersion(d) .. dests[d].version
              /\ \A q, r \in publications :
                   q.destination_id = d /\ r.destination_id = d
                     /\ q.row.version = r.row.version => q = r
          BY <3>8, <5>1 DEF VersionsGapless
        <5>4. QED
          BY <4>1, <3>2, <3>3, <5>1, <5>2, <5>3
      <4>2. CASE d = e /\ dests[e] = Null
        <5>1. Of(e) = {} /\ e \notin LegacyDests
          BY <4>2 DEF LiveOK
        <5>2. Of(e)' = {p}
          BY <5>1, <3>2, <3>3
        <5>3. Numbers(e)' = {row.version}
          BY <5>2, <3>3
        <5>4. row.version = 1 /\ FirstVersion(e) = 1
          BY <3>1, <4>2, <5>1 DEF RowStep, FirstVersion
        <5>5. \A q, r \in publications' :
                q.destination_id = e /\ r.destination_id = e => q = r
          BY <5>2
        <5>6. QED
          BY <4>2, <5>3, <5>4, <5>5, <3>5
      <4>3. CASE d = e /\ dests[e] # Null
        <5> DEFINE n == dests[e].version
        <5>1. n \in Nat \ {0} /\ row.version = n + 1
          BY <3>1, <4>3 DEF RowStep, IInv, TypeOK, DestRow
        <5>2. /\ Numbers(e) = FirstVersion(e) .. n
              /\ \A q, r \in publications :
                   q.destination_id = e /\ r.destination_id = e
                     /\ q.row.version = r.row.version => q = r
          BY <4>3 DEF VersionsGapless
        <5>3. Of(e)' = Of(e) \cup {p}
          BY <3>2, <3>3
        <5>4. Numbers(e)' = Numbers(e) \cup {n + 1}
          BY <5>1, <5>3, <3>3
        <5>5. FirstVersion(e) \in {1, 2}
          BY DEF FirstVersion
        <5> HIDE DEF n
        <5>6. Numbers(e)' = FirstVersion(e) .. n + 1
          BY <5>1, <5>2, <5>4, <5>5
        <5>7. \A q \in Of(e) : q.row.version \in Numbers(e)
          OBVIOUS
        <5>8. \A q \in Of(e) : q.row.version # n + 1
          BY <5>1, <5>2, <5>5, <5>7
        <5>9. QED
          BY <4>3, <5>1, <5>2, <5>6, <5>8, <3>2, <3>3, <3>5
      <4>4. QED
        BY <4>1, <4>2, <4>3
    <3>9. VersionsGapless'
      BY <3>8 DEF VersionsGapless, FirstVersion
    <3>10. QED
      BY <3>7, <3>9
  <2>3. QED
    BY <2>1, <2>2, LiveStep
<1>3. QED
  BY <1>1, <1>2, Invariance, PTL DEF Spec

(* The writes to a destination are numbered without a gap and each once,    *)
(* also when approvals of several changes to it interleave: the database    *)
(* counts (version = version + 1), not the handler.                         *)
THEOREM VersionsAreGapless == Spec => []VersionsGapless
<1>1. LiveOK /\ VersionsGapless => VersionsGapless
  OBVIOUS
<1>2. QED
  BY <1>1, LiveInvariance, PTL
=============================================================================
