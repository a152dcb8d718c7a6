-------------------------- MODULE DestinationWorkflow --------------------------
(***************************************************************************)
(* DestinationWorkflowService (internal/service/destination_change_        *)
(* service.go) with the admin handlers that call it.  Every request is     *)
(* served by a handler that alternates local checks with statements on the *)
(* tables; no transaction and no lock spans two statements, so a handler   *)
(* acts on the row it read while others change it.  An action is a         *)
(* statement together with the local code up to the next one: the action   *)
(* that begins a request reads the row and makes every check of the        *)
(* method, a later action writes what that handler still holds.            *)
(*                                                                         *)
(* A request refused by a check changes nothing and is not a step.         *)
(***************************************************************************)
EXTENDS DestinationTables

CONSTANTS
  Handlers,           \* requests in flight at the same time
  ApprovalRequired,   \* DESTINATION_APPROVAL_REQUIRED
  HardDeleteAllowed,  \* DESTINATION_HARD_DELETE_ALLOWED
  EnabledActions,     \* the actions whose feature flag is set
  Inputs,             \* the field sets clients send
  MayFail,            \* whether a statement may fail or a handler die
  MaxDraftVersion,    \* bound on draft_version
  MaxVersion          \* bound on a destination's version

ASSUME WorkflowAssumption ==
  /\ ApprovalRequired \in BOOLEAN
  /\ HardDeleteAllowed \in BOOLEAN
  /\ EnabledActions \subseteq Actions
  /\ Inputs \subseteq Fields
  /\ MayFail \in BOOLEAN
  /\ MaxDraftVersion \in Nat \ {0}
  /\ MaxVersion \in Nat \ {0}
  /\ Null \notin ChangeRow \cup DestRow

VARIABLES
  publications,  \* history: every write of a handler to the live table
  bucket,        \* names of the objects stored so far
  pc,            \* what each handler does next
  req,           \* what it holds: the caller, the change as it will write it,
                 \*   and base, the payload it read
  out            \* the destination row its statement returned

tables == <<changes, dests, versions, publications, bucket>>
vars   == <<changes, dests, versions, publications, bucket, pc, req, out>>

Steps == {"idle", "form", "save", "submit", "apply", "record", "approve", "reject"}

Request == [actor: Admins, id: ChangeIds, base: Fields, row: ChangeRow]

\* A write to travel_destination on behalf of a change request, and its result.
Publication ==
  [destination_id: DestIds, change: ChangeIds, fields: Fields, row: DestRow]

TypeOK ==
  /\ changes \in [ChangeIds -> ChangeRow \cup {Null}]
  /\ dests \in [DestIds -> DestRow \cup {Null}]
  /\ versions \subseteq VersionRow
  /\ publications \subseteq Publication
  /\ bucket \subseteq Images
  /\ pc \in [Handlers -> Steps]
  /\ req \in [Handlers -> Request \cup {Null}]
  /\ out \in [Handlers -> Publication \cup {Null}]
  /\ \A h \in Handlers : pc[h] # "idle" => req[h] \in Request
  /\ \A h \in Handlers : pc[h] \in {"record", "approve"} => out[h] \in Publication

Init ==
  /\ changes = [c \in ChangeIds |-> Null]
  /\ \E n \in Names :
       dests = [d \in DestIds |-> IF d \in LegacyDests THEN LegacyRow(n) ELSE Null]
  /\ versions = {}
  /\ publications = {}
  /\ bucket = {}
  /\ pc = [h \in Handlers |-> "idle"]
  /\ req = [h \in Handlers |-> Null]
  /\ out = [h \in Handlers |-> Null]

-----------------------------------------------------------------------------
(* Helpers                                                                  *)

\* validateFields: what does not depend on the format of a field.
Valid(action, fields) ==
  /\ fields.wellFormed
  /\ action = "create" => fields.name # Null /\ fields.status # "archived"

\* The check of the payload in CreateDraft and UpdateDraft.
Acceptable(action, fields) ==
  IF action = "delete"
  THEN fields.hardDelete => HardDeleteAllowed
  ELSE Valid(action, fields)

Editable(row) == row.status \in {"draft", "rejected"}

\* An idle handler h is given a request by a that leaves it before step s.
Begin(h, s, a, c, row) ==
  /\ pc' = [pc EXCEPT ![h] = s]
  /\ req' = [req EXCEPT ![h] =
               [actor |-> a, id |-> c, base |-> changes[c].payload, row |-> row]]
  /\ UNCHANGED <<tables, out>>

\* Handler h answers its caller.
Done(h) ==
  /\ pc' = [pc EXCEPT ![h] = "idle"]
  /\ req' = [req EXCEPT ![h] = Null]
  /\ out' = [out EXCEPT ![h] = Null]

(* Variant of Publish for mutation checks: the handler goes on to approve   *)
(* the request without recording a version.                                 *)
PublishUnrecorded(h, d, row) ==
  LET p == [destination_id |-> d, change |-> req[h].id,
            fields |-> req[h].row.payload, row |-> row]
  IN /\ dests' = [dests EXCEPT ![d] = row]
     /\ publications' = publications \cup {p}
     /\ out' = [out EXCEPT ![h] = p]
     /\ pc' = [pc EXCEPT ![h] = "approve"]
     /\ UNCHANGED <<changes, versions, bucket, req>>

\* The write to the live table and the row it returned.
Publish(h, d, row) ==
  LET p == [destination_id |-> d, change |-> req[h].id,
            fields |-> req[h].row.payload, row |-> row]
  IN /\ dests' = [dests EXCEPT ![d] = row]
     /\ publications' = publications \cup {p}
     /\ out' = [out EXCEPT ![h] = p]
     /\ pc' = [pc EXCEPT ![h] = "record"]
     /\ UNCHANGED <<changes, versions, bucket, req>>
-----------------------------------------------------------------------------
(* Drafts                                                                   *)

(* CreateDraft: the check that the destination exists and the INSERT are    *)
(* one step, because a destination a change may name is never removed.      *)
CreateDraft(a, action, d, fields) ==
  /\ "create" \in EnabledActions
  /\ IF action = "create" THEN d = Null ELSE d # Null /\ dests[d] # Null
  /\ Acceptable(action, fields)
  /\ \E c \in ChangeIds :
       /\ changes[c] = Null
       /\ changes' = [changes EXCEPT ![c] =
            [destination_id |-> d, action |-> action, payload |-> fields,
             status |-> "draft", draft_version |-> 1, submitted_by |-> a,
             reviewed_by |-> Null, published_version |-> 0]]
  /\ UNCHANGED <<dests, versions, publications, bucket, pc, req, out>>

(* GetChange: the author opens the change in an edit form and holds its     *)
(* draft version until the form is sent.                                    *)
OpenForm(h, a, c) ==
  /\ pc[h] = "idle"
  /\ changes[c] # Null
  /\ changes[c].submitted_by = a
  /\ changes[c].draft_version < MaxDraftVersion
  /\ Begin(h, "form", a, c, changes[c])

\* The form is dropped, or UpdateDraft refuses it.
CloseForm(h) ==
  /\ pc[h] = "form"
  /\ Done(h)
  /\ UNCHANGED tables

\* A draft with a new payload; draft_version counts the edits.
Edited(row, fields) == [row EXCEPT !.payload = fields, !.draft_version = @ + 1]

(* UpdateDraft up to its UPDATE: the form carries the draft version the     *)
(* author saw, the row is read again, and the whole row is written back.    *)
UpdateDraft(h, fields) ==
  LET seen == req[h]
      row  == changes[seen.id]
  IN /\ pc[h] = "form"
     /\ row.submitted_by = seen.actor
     /\ Editable(row)
     /\ seen.row.draft_version = row.draft_version
     /\ row.draft_version < MaxDraftVersion
     /\ Acceptable(row.action, fields)
     /\ pc' = [pc EXCEPT ![h] = "save"]
     /\ req' = [req EXCEPT ![h].row = Edited(row, fields)]
     /\ UNCHANGED <<tables, out>>

(* The uploads up to their UPDATE: the row is read, the image gets a fresh  *)
(* name and is stored, and the payload that was read is extended.  The loop *)
(* over several gallery files appends each of them before the one UPDATE.   *)
Upload(h, a, c, i, fields) ==
  LET row == changes[c]
  IN /\ pc[h] = "idle"
     /\ row # Null
     /\ row.action \in EnabledActions
     /\ row.submitted_by = a
     /\ Editable(row)
     /\ row.draft_version < MaxDraftVersion
     /\ i \notin bucket
     /\ bucket' = bucket \cup {i}
     /\ pc' = [pc EXCEPT ![h] = "save"]
     /\ req' = [req EXCEPT ![h] =
          [actor |-> a, id |-> c, base |-> row.payload, row |-> Edited(row, fields)]]
     /\ UNCHANGED <<changes, dests, versions, publications, out>>

UploadHeroImage(h, a, c, i) ==
  Upload(h, a, c, i, [changes[c].payload EXCEPT !.hero = i])

UploadGalleryImages(h, a, c, i) ==
  Upload(h, a, c, i,
         [changes[c].payload EXCEPT !.gallery = Append(IF @ = Null THEN <<>> ELSE @, i)])

(* Variant of SaveDraft for mutation checks: the UPDATE does not compare    *)
(* the draft version.                                                       *)
SaveDraftUnconditionally(h) ==
  LET c    == req[h].id
      mine == req[h].row
  IN /\ pc[h] = "save"
     /\ changes' = [changes EXCEPT ![c] =
            [@ EXCEPT !.payload = mine.payload, !.draft_version = mine.draft_version,
                      !.status = mine.status, !.reviewed_by = mine.reviewed_by,
                      !.published_version = mine.published_version]]
     /\ Done(h)
     /\ UNCHANGED <<dests, versions, publications, bucket>>

(* DestinationChangeRepository.Update: WHERE id AND draft_version compares  *)
(* the version only, and SET writes back the status, reviewer and published *)
(* version that were read.  No row matched is an error to the caller.       *)
SaveDraft(h) ==
  LET c    == req[h].id
      mine == req[h].row
  IN /\ pc[h] = "save"
     /\ changes' =
          IF changes[c].draft_version = mine.draft_version - 1
          THEN [changes EXCEPT ![c] =
                 [@ EXCEPT !.payload = mine.payload,
                           !.draft_version = mine.draft_version,
                           !.status = mine.status,
                           !.reviewed_by = mine.reviewed_by,
                           !.published_version = mine.published_version]]
          ELSE changes
     /\ Done(h)
     /\ UNCHANGED <<dests, versions, publications, bucket>>

-----------------------------------------------------------------------------
(* Submission                                                               *)

SubmitDraft(h, a, c) ==
  LET row == changes[c]
  IN /\ pc[h] = "idle"
     /\ row # Null
     /\ row.action \in EnabledActions
     /\ row.submitted_by = a
     /\ Editable(row)
     /\ row.action # "delete" => Valid(row.action, row.payload)
     /\ Begin(h, "submit", a, c, row)

\* DestinationChangeRepository.MarkSubmitted, guarded by the status alone.
MarkSubmitted(h) ==
  LET c == req[h].id
  IN /\ pc[h] = "submit"
     /\ changes' = IF Editable(changes[c])
                   THEN [changes EXCEPT ![c].status = "pending_review"]
                   ELSE changes
     /\ Done(h)
     /\ UNCHANGED <<dests, versions, publications, bucket>>

-----------------------------------------------------------------------------
(* Review                                                                   *)

\* The checks Approve and Reject share.
Reviewable(row, a) ==
  /\ row # Null
  /\ row.action \in EnabledActions
  /\ row.status = "pending_review"
  /\ ApprovalRequired => row.submitted_by # a

(* Variant of Approve for mutation checks: a reviewer may be the author.    *)
ApproveOwn(h, a, c) ==
  LET row == changes[c]
  IN /\ pc[h] = "idle"
     /\ row # Null
     /\ row.status = "pending_review"
     /\ row.action # "delete" => Valid(row.action, row.payload)
     /\ Begin(h, "apply", a, c, row)

Approve(h, a, c) ==
  LET row == changes[c]
  IN /\ pc[h] = "idle"
     /\ Reviewable(row, a)
     /\ row.action # "delete" => Valid(row.action, row.payload)
     /\ Begin(h, "apply", a, c, row)

\* The handler's statement failed: it answers with an error.
Refused(h) ==
  /\ Done(h)
  /\ UNCHANGED tables

\* applyCreate up to the INSERT, which fails when the slug is taken.
ApplyCreate(h) ==
  LET mine == req[h].row
  IN /\ pc[h] = "apply"
     /\ mine.action = "create"
     /\ \E d \in DestIds :
          /\ dests[d] = Null
          /\ IF SlugFree(mine.payload.slug, d)
             THEN Publish(h, d, InsertedRow(mine.payload, req[h].actor))
             ELSE Refused(h)

(* applyUpdate: its FindByID is part of the step, the row it returns is     *)
(* used for its id alone.                                                   *)
ApplyUpdate(h) ==
  LET mine == req[h].row
      d    == mine.destination_id
  IN /\ pc[h] = "apply"
     /\ mine.action = "update"
     /\ dests[d] # Null
     /\ dests[d].version < MaxVersion
     /\ IF SlugFree(mine.payload.slug, d)
        THEN Publish(h, d, UpdatedRow(dests[d], mine.payload, req[h].actor))
        ELSE Refused(h)

\* applyDelete with a soft delete.
ApplyArchive(h) ==
  LET mine == req[h].row
      d    == mine.destination_id
  IN /\ pc[h] = "apply"
     /\ mine.action = "delete"
     /\ ~ mine.payload.hardDelete
     /\ dests[d] # Null
     /\ dests[d].version < MaxVersion
     /\ Publish(h, d, ArchivedRow(dests[d], req[h].actor))

(* applyDelete with a hard delete: the DELETE is refused while a foreign    *)
(* key refers to the row; otherwise the snapshot to record is the row that  *)
(* was read before.                                                         *)
ApplyHardDelete(h) ==
  LET mine == req[h].row
      d    == mine.destination_id
  IN /\ pc[h] = "apply"
     /\ mine.action = "delete"
     /\ mine.payload.hardDelete
     /\ IF HardDeleteAllowed /\ dests[d] # Null /\ ~ Referenced(d)
        THEN /\ dests' = [dests EXCEPT ![d] = Null]
             /\ out' = [out EXCEPT ![h] =
                  [destination_id |-> d, change |-> req[h].id,
                   fields |-> mine.payload, row |-> dests[d]]]
             /\ pc' = [pc EXCEPT ![h] = "record"]
             /\ UNCHANGED <<changes, versions, publications, bucket, req>>
        ELSE Refused(h)

(* Variant of RecordVersion for mutation checks: the snapshot is read from  *)
(* the table again instead of taken from the statement's result.            *)
RecordVersionReread(h) ==
  LET p == out[h]
      v == [destination_id |-> p.destination_id, change_request_id |-> p.change,
            version |-> p.row.version, snapshot |-> dests[p.destination_id],
            created_by |-> req[h].actor]
  IN /\ pc[h] = "record"
     /\ IF VersionInsertable(v.destination_id, v.version)
        THEN /\ versions' = versions \cup {v}
             /\ pc' = [pc EXCEPT ![h] = "approve"]
             /\ UNCHANGED <<changes, dests, publications, bucket, req, out>>
        ELSE Refused(h)

\* DestinationVersionRepository.Create with the snapshot in hand.
RecordVersion(h) ==
  LET p == out[h]
      v == [destination_id |-> p.destination_id, change_request_id |-> p.change,
            version |-> p.row.version, snapshot |-> p.row,
            created_by |-> req[h].actor]
  IN /\ pc[h] = "record"
     /\ IF VersionInsertable(v.destination_id, v.version)
        THEN /\ versions' = versions \cup {v}
             /\ pc' = [pc EXCEPT ![h] = "approve"]
             /\ UNCHANGED <<changes, dests, publications, bucket, req, out>>
        ELSE Refused(h)

\* DestinationChangeRepository.SetStatus, which looks at the id alone.
SetStatus(h, status, published) ==
  /\ changes' = [changes EXCEPT ![req[h].id] =
       [@ EXCEPT !.status = status, !.reviewed_by = req[h].actor,
                 !.published_version = published]]
  /\ Done(h)
  /\ UNCHANGED <<dests, versions, publications, bucket>>

MarkApproved(h) ==
  /\ pc[h] = "approve"
  /\ SetStatus(h, "approved", out[h].row.version)

Reject(h, a, c) ==
  /\ pc[h] = "idle"
  /\ Reviewable(changes[c], a)
  /\ Begin(h, "reject", a, c, changes[c])

MarkRejected(h) ==
  /\ pc[h] = "reject"
  /\ SetStatus(h, "rejected", 0)

(* A statement fails, the client hangs up, or the process dies: whatever    *)
(* the handler committed stays.  Losing the answer to a statement that did  *)
(* commit is this step taken after it.                                      *)
Fail(h) ==
  /\ MayFail
  /\ pc[h] \notin {"idle", "form"}
  /\ Refused(h)

-----------------------------------------------------------------------------
(* The specification                                                        *)

AuthorStep(h) ==
  \/ \E a \in Admins, c \in ChangeIds : OpenForm(h, a, c)
  \/ CloseForm(h)
  \/ \E fields \in Inputs : UpdateDraft(h, fields)
  \/ \E a \in Admins, c \in ChangeIds, i \in Images : UploadHeroImage(h, a, c, i)
  \/ \E a \in Admins, c \in ChangeIds, i \in Images : UploadGalleryImages(h, a, c, i)
  \/ SaveDraft(h)
  \/ \E a \in Admins, c \in ChangeIds : SubmitDraft(h, a, c)
  \/ MarkSubmitted(h)

ReviewerStep(h) ==
  \/ \E a \in Admins, c \in ChangeIds : Approve(h, a, c)
  \/ ApplyCreate(h)
  \/ ApplyUpdate(h)
  \/ ApplyArchive(h)
  \/ ApplyHardDelete(h)
  \/ RecordVersion(h)
  \/ MarkApproved(h)
  \/ \E a \in Admins, c \in ChangeIds : Reject(h, a, c)
  \/ MarkRejected(h)

Next ==
  \/ \E a \in Admins, action \in Actions, d \in DestIds \cup {Null}, fields \in Inputs :
       CreateDraft(a, action, d, fields)
  \/ \E h \in Handlers : AuthorStep(h) \/ ReviewerStep(h) \/ Fail(h)

Spec == Init /\ [][Next]_vars

-----------------------------------------------------------------------------
(* What holds however requests interleave and wherever handlers die         *)

(* Dual control: with approval required, whoever wrote a change into the    *)
(* live table, signed its version row or reviewed it is not its author,     *)
(* although Approve compares the two on a row it read earlier and the       *)
(* statements that follow compare nothing.                                  *)
DualControl ==
  ApprovalRequired =>
    /\ \A p \in publications : p.row.updated_by # changes[p.change].submitted_by
    /\ \A v \in versions :
         v.created_by # changes[v.change_request_id].submitted_by
    /\ \A c \in ChangeIds : changes[c] # Null =>
         changes[c].reviewed_by # changes[c].submitted_by

(* No lost edit: UpdateDraft and the uploads replace a payload only if it   *)
(* is still the one they started from (draft_version was compared), on      *)
(* behalf of the author, and move draft_version on by one.                  *)
NoLostEdit ==
  [][\A c \in ChangeIds :
       changes[c] # Null /\ changes'[c].payload # changes[c].payload =>
         /\ changes'[c].draft_version = changes[c].draft_version + 1
         /\ \E h \in Handlers :
              /\ pc[h] = "save"
              /\ req[h].id = c
              /\ req[h].base = changes[c].payload
              /\ req[h].actor = changes[c].submitted_by
              /\ req[h].row.payload = changes'[c].payload]_vars

\* The first version the workflow itself gives a destination.
FirstVersion(d) == IF d \in LegacyDests THEN 2 ELSE 1

(* The version of a destination counts the writes to it, each once and      *)
(* without a gap, also when two approvals write one destination at once     *)
(* (version = version + 1 in the UPDATEs of Update and Archive).            *)
VersionsGapless ==
  \A d \in DestIds : dests[d] # Null =>
    /\ {p.row.version : p \in {q \in publications : q.destination_id = d}}
         = FirstVersion(d) .. dests[d].version
    /\ \A p, q \in publications :
         p.destination_id = d /\ q.destination_id = d
           /\ p.row.version = q.row.version => p = q

(* A row of destination_version is the image of one write to the live       *)
(* table: its number, its snapshot, its change request and its author are   *)
(* those of that write, whatever else was written since (applyCreate,       *)
(* applyUpdate and applyDelete record the row their statement returned).    *)
SnapshotsFaithful ==
  \A v \in versions : \E p \in publications :
    /\ p.destination_id = v.destination_id
    /\ p.change = v.change_request_id
    /\ p.row = v.snapshot
    /\ p.row.version = v.version
    /\ p.row.updated_by = v.created_by

(* A change shown as approved points to a version that was recorded for it: *)
(* Approve sets the status last, with the version of its own write.         *)
ApprovedIsRecorded ==
  \A c \in ChangeIds : changes[c] # Null /\ changes[c].status = "approved" =>
    \E v \in versions :
      /\ v.change_request_id = c
      /\ v.version = changes[c].published_version
      /\ changes[c].destination_id \in {Null, v.destination_id}

(* An archived destination never returns to the public catalogue, not even  *)
(* when a later update sets its status to published: deleted_at is cleared  *)
(* by no statement, and FindPublishedByID and ListPublished look at it.     *)
ArchivedStaysHidden ==
  [][\A d \in DestIds : dests[d] # Null /\ dests[d].deleted =>
       dests'[d] # Null /\ dests'[d].deleted /\ ~ Served(d)']_vars

-----------------------------------------------------------------------------
(* What holds when requests are served one at a time and nothing fails      *)

\* Approve decides when it writes the live table; the row follows later.
LifecycleStatus ==
  [c \in ChangeIds |->
     IF changes[c] = Null THEN "absent"
     ELSE IF \E h \in Handlers : pc[h] \in {"record", "approve"} /\ req[h].id = c
     THEN "approved"
     ELSE changes[c].status]

Lifecycle == INSTANCE ChangeLifecycle
  WITH Contents  <- Fields,
       NoContent <- Null,
       Reworked  <- "rejected",
       status    <- LifecycleStatus,
       content   <- [c \in ChangeIds |->
                       IF changes[c] = Null THEN Null ELSE changes[c].payload],
       published <- {[change |-> p.change, content |-> p.fields] : p \in publications}

(* The workflow implements the lifecycle of change requests: nothing but    *)
(* the approval of a pending request touches the live table, it publishes   *)
(* what the request proposes, and an approved request is frozen.  In one    *)
(* transition this is not the state diagram of the design document: an edit *)
(* of a rejected request leaves it rejected, because UpdateDraft and the    *)
(* uploads write back the status they read.                                 *)
ImplementsLifecycle == Lifecycle!Spec

(* Approval is all or nothing: once no handler is between the statements of *)
(* Approve, every write to the live table has its version row and belongs   *)
(* to a change marked approved.                                             *)
ApprovalAtomic ==
  (\A h \in Handlers : pc[h] \notin {"record", "approve"}) =>
    \A p \in publications :
      /\ changes[p.change].status = "approved"
      /\ \E v \in versions :
           v.destination_id = p.destination_id /\ v.version = p.row.version

(* A change is applied at most once, by one write to the live table:        *)
(* Approve refuses a change that is no longer pending.                      *)
PublishedOnce ==
  \A p, q \in publications : p.change = q.change => p = q

(* A change under review or approved is locked: its payload stays what the  *)
(* reviewer was shown, and an approved change stays approved (UpdateDraft   *)
(* and the uploads refuse a change that is not editable).                   *)
LockedWhilePending ==
  [][\A c \in ChangeIds :
       changes[c] # Null /\ changes[c].status \in {"pending_review", "approved"} =>
         /\ changes'[c].payload = changes[c].payload
         /\ changes'[c].status # "draft"
         /\ changes[c].status = "approved" => changes'[c].status = "approved"]_vars

(* A rejected change stays rejected until it is submitted again: an edit    *)
(* does not make a draft of it, where the design document (7.3) says it     *)
(* does (UpdateDraft and the uploads set the payload alone).                *)
RejectedUntilResubmitted ==
  [][\A c \in ChangeIds :
       changes[c] # Null /\ changes[c].status = "rejected" =>
         changes'[c].status \in {"rejected", "pending_review"}]_vars

(* An approved hard delete takes the destination out of the table: once no  *)
(* handler is applying it, an Approve that was let through to applyDelete   *)
(* has removed the row.                                                     *)
HardDeleteRemoves ==
  [][\A h \in Handlers :
       pc[h] = "apply" /\ req[h].row.action = "delete"
         /\ req[h].row.payload.hardDelete /\ pc'[h] # "apply" =>
           dests'[req[h].row.destination_id] = Null]_vars
=============================================================================
