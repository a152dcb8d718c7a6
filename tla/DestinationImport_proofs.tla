------------------------- MODULE DestinationImport_proofs -------------------------
(***************************************************************************)
(* Proofs about the import, for any number of imports and of other         *)
(* requests.  ImportInv says what an import in the middle of a record may  *)
(* still rely on; with it every step of an import is a step of the         *)
(* workflow, whose own theorems then hold with imports as well.            *)
(***************************************************************************)
EXTENDS DestinationImport, DestinationWorkflow_proofs

\* The steps at which an import has a record at hand.
AtRecord == {"check", "draft", "find", "submit", "row"}

\* What the import asks of a record it drafts.
Draftable(record) ==
  /\ record.parses
  /\ record.fields.hero # Null
  /\ Valid("create", record.fields)

\* Local variables t that are right for step s.
Fit(s, t) ==
  /\ s \in ImportSteps
  /\ t \in Task \cup {Null}
  /\ s = "idle" <=> t = Null
  /\ s \in AtRecord => t.at <= Len(t.job.file)
  /\ s = "draft" => Draftable(t.job.file[t.at])
  /\ s \in {"draft", "find", "submit"} => ~ t.job.dry_run
  /\ s \in {"find", "submit"} => t.change \in ChangeIds

\* A good record past its checks proposes a slug that is remembered, ...
SlugSeen(s, t) ==
  s \in {"draft", "find", "submit", "row"} /\ t.ok =>
    t.job.file[t.at].fields.slug \in t.seen \cup {Null}

\* ... that no row R of its job proposes, and what they propose is remembered.
SlugNew(R, s, t) ==
  \A r \in R : r.job = t.id /\ r.status # "failed" =>
    /\ r.payload.slug \in t.seen \cup {Null}
    /\ s \in {"draft", "find", "submit", "row"} /\ t.ok =>
         t.job.file[t.at].fields.slug = Null
           \/ t.job.file[t.at].fields.slug # r.payload.slug

JobTables ==
  /\ jobs \in [JobIds -> JobRow \cup {Null}]
  /\ rows \subseteq ImportRow
  /\ answers \in [JobIds -> Seq(ChangeIds) \cup {Null}]

TasksFit ==
  /\ step \in [Importers -> ImportSteps]
  /\ task \in [Importers -> Task \cup {Null}]
  /\ \A h \in Importers : Fit(step[h], task[h]) /\ SlugSeen(step[h], task[h])

\* An import waits inside the workflow only for its submission.
WaitsOK ==
  \A h \in Importers :
    IF step[h] = "submit" THEN pc[h] = "submit" /\ req[h].id = task[h].change
                          ELSE pc[h] = "idle"

\* The job of a running import, and of a row, is in the table.
JobsThere ==
  /\ \A h \in Importers : task[h] # Null => jobs[task[h].id] # Null
  /\ \A r \in rows : jobs[r.job] # Null

\* No two imports share a job.
JobsApart ==
  \A g, h \in Importers :
    g # h /\ task[g] # Null /\ task[h] # Null => task[g].id # task[h].id

SlugsOK ==
  \A h \in Importers : task[h] # Null => SlugNew(rows, step[h], task[h])

ImportInv ==
  /\ JobTables
  /\ TasksFit
  /\ WaitsOK
  /\ JobsThere
  /\ JobsApart
  /\ SlugsOK
  /\ SlugOncePerFile

\* The type invariant is part of it.
LEMMA ImportTyped == ImportInv => ImportTypeOK
<1> SUFFICES ASSUME ImportInv PROVE ImportTypeOK
  OBVIOUS
<1>1. ASSUME NEW h \in Importers
      PROVE  /\ step[h] = "idle" <=> task[h] = Null
             /\ step[h] # "idle" => jobs[task[h].id] # Null
             /\ step[h] \in {"check", "draft", "find", "submit", "row"} =>
                  task[h].at <= Len(task[h].job.file)
             /\ step[h] = "submit" =>
                  pc[h] = "submit" /\ req[h].id = task[h].change
             /\ step[h] # "submit" => pc[h] = "idle"
  <2>1. Fit(step[h], task[h])
    BY DEF ImportInv, TasksFit
  <2> QED  BY <2>1 DEF Fit, AtRecord, ImportInv, JobsThere, WaitsOK
<1> QED  BY <1>1 DEF ImportTypeOK, ImportInv, JobTables, TasksFit

-----------------------------------------------------------------------------
(* Records and local variables                                              *)

\* What the type of a running import gives.
LEMMA TaskParts ==
  ASSUME NEW t \in Task
  PROVE  /\ t.id \in JobIds /\ t.job \in JobRow /\ t.at \in Nat \ {0}
         /\ t.seen \subseteq Slugs /\ t.ok \in BOOLEAN
         /\ t.change \in ChangeIds \cup {Null} /\ t.pending \in Seq(ChangeIds)
         /\ t.job.file \in Files /\ t.job.file \in Seq(Record)
         /\ t.job.uploaded_by \in Admins /\ t.job.dry_run \in BOOLEAN
         /\ t.job.rows_failed \in Nat /\ t.job.processed_rows \in Nat
         /\ t.job.changes_created \in Nat
         /\ t # Null
BY FilesAssumption DEF Task, JobRow

\* The record at hand.
LEMMA RecordTyped ==
  ASSUME NEW t \in Task, t.at <= Len(t.job.file)
  PROVE  /\ t.job.file[t.at] \in Record
         /\ t.job.file[t.at].fields \in Fields
         /\ t.job.file[t.at].parses \in BOOLEAN
         /\ t.job.file[t.at].fields.slug \in Slugs \cup {Null}
         /\ t.at \in DOMAIN t.job.file
<1>1. t.at \in 1 .. Len(t.job.file)
  BY TaskParts
<1>2. t.job.file[t.at] \in Record
  BY <1>1, TaskParts
<1>3. /\ t.job.file[t.at].fields \in Fields /\ t.job.file[t.at].parses \in BOOLEAN
      /\ t.job.file[t.at].fields.slug # Blank
  BY <1>2 DEF Record
<1>4. t.job.file[t.at].fields.slug \in Slugs \cup {Blank, Null}
  BY <1>3 DEF Fields
<1>5. t.at \in DOMAIN t.job.file
  BY <1>1, TaskParts
<1> QED  BY <1>2, <1>3, <1>4, <1>5

\* What a good record proposes is among the inputs of the workflow.
LEMMA DraftedIsInput ==
  ASSUME NEW t \in Task, t.at <= Len(t.job.file), Draftable(t.job.file[t.at])
  PROVE  t.job.file[t.at].fields \in Inputs
BY TaskParts, RecordTyped, ImportAssumption DEF Draftable

\* What the invariant says of one import.
LEMMA ImportParts ==
  ASSUME ImportInv, NEW h \in Importers
  PROVE  /\ h \in Handlers
         /\ Fit(step[h], task[h]) /\ SlugSeen(step[h], task[h])
         /\ step[h] # "idle" => task[h] \in Task /\ task[h] # Null
         /\ step[h] # "idle" => SlugNew(rows, step[h], task[h])
         /\ step[h] # "idle" => jobs[task[h].id] # Null
         /\ step[h] \in AtRecord => task[h].at <= Len(task[h].job.file)
<1>1. Fit(step[h], task[h]) /\ SlugSeen(step[h], task[h])
  BY DEF ImportInv, TasksFit
<1> QED
  BY <1>1, ImportAssumption DEF Fit, AtRecord, ImportInv, SlugsOK, JobsThere

-----------------------------------------------------------------------------
(* Every step of an import is a step of the workflow                        *)

LEMMA ImportStepRefines ==
  ASSUME ImportInv, NEW h \in Importers, ImportStep(h)
  PROVE  [Next]_vars
<1>1. CASE \E a \in Admins, sheet \in Sheets, dry \in BOOLEAN : Import(h, a, sheet, dry)
  BY <1>1 DEF Import
<1>2. CASE CheckRecord(h)
  BY <1>2 DEF CheckRecord
<1>3. CASE DraftRecord(h)
  <2>1. step[h] = "draft" /\ "draft" # "idle" /\ "draft" \in AtRecord
    BY <1>3 DEF DraftRecord, AtRecord
  <2>2. task[h] \in Task /\ task[h].at <= Len(task[h].job.file) /\ Draftable(At(h))
    BY <2>1, ImportParts DEF Fit, At
  <2>3. At(h).fields \in Inputs /\ task[h].job.uploaded_by \in Admins
    BY <2>2, DraftedIsInput, TaskParts DEF At
  <2>4. UNCHANGED vars \/ CreateDraft(task[h].job.uploaded_by, "create", Null, At(h).fields)
    BY <1>3 DEF DraftRecord
  <2>5. "create" \in Actions /\ Null \in DestIds \cup {Null}
    BY DEF Actions
  <2> QED  BY <2>3, <2>4, <2>5 DEF Next
<1>4. CASE FindDraft(h)
  <2>1. step[h] = "find" /\ "find" # "idle"
    BY <1>4 DEF FindDraft
  <2>2. task[h].change \in ChangeIds /\ task[h].job.uploaded_by \in Admins /\ h \in Handlers
    BY <2>1, ImportParts, TaskParts DEF Fit
  <2>3. UNCHANGED vars \/ SubmitDraft(h, task[h].job.uploaded_by, task[h].change)
    BY <1>4 DEF FindDraft
  <2> QED  BY <2>2, <2>3 DEF Next, AuthorStep
<1>5. CASE SubmitRecord(h)
  <2>1. step[h] = "submit" /\ pc[h] = "submit" /\ h \in Handlers
    BY <1>5, ImportParts DEF SubmitRecord, ImportInv, WaitsOK
  <2>2. MarkSubmitted(h) \/ (MayFail /\ Refused(h))
    BY <1>5 DEF SubmitRecord, Outcomes
  <2> QED  BY <2>1, <2>2 DEF Next, AuthorStep, Fail
<1>6. CASE InsertRow(h)
  BY <1>6 DEF InsertRow
<1>7. CASE CompleteJob(h)
  BY <1>7 DEF CompleteJob
<1>8. CASE FailJob(h)
  BY <1>8 DEF FailJob
<1>9. CASE Die(h)
  <2>1. step[h] = "submit" => pc[h] = "submit"
    BY DEF ImportInv, WaitsOK
  <2> QED  BY <1>9, <2>1, ImportParts DEF Die, Next, Fail
<1> QED  BY <1>1, <1>2, <1>3, <1>4, <1>5, <1>6, <1>7, <1>8, <1>9 DEF ImportStep

LEMMA ImportNextRefines ==
  ASSUME ImportInv, [ImportNext]_allVars
  PROVE  [Next]_vars
<1>1. CASE UNCHANGED allVars
  BY <1>1 DEF allVars
<1>2. ASSUME NEW h \in Importers, ImportStep(h) PROVE [Next]_vars
  BY <1>2, ImportStepRefines
<1>3. ASSUME NEW h \in Handlers \ Importers, OtherStep(h) PROVE [Next]_vars
  BY <1>3 DEF OtherStep, Next
<1> QED  BY <1>1, <1>2, <1>3 DEF ImportNext

-----------------------------------------------------------------------------
(* The invariant is inductive                                               *)

\* A step of one import: it goes on with the job it has or with a new one,
\* and what it inserts are rows of its job.
LEMMA ImporterStep ==
  ASSUME ImportInv, NEW h \in Importers, NEW s, NEW t, Proceed(h, s, t),
         Fit(s, t), SlugSeen(s, t), JobTables',
         \A j \in JobIds : jobs[j] # Null => jobs'[j] # Null,
         t # Null => jobs'[t.id] # Null,
         t # Null => \/ task[h] # Null /\ t.id = task[h].id
                     \/ jobs[t.id] = Null,
         rows \subseteq rows',
         \A r \in rows' \ rows : task[h] # Null /\ r.job = task[h].id,
         t # Null => SlugNew(rows', s, t),
         SlugOncePerFile',
         IF s = "submit" THEN pc'[h] = "submit" /\ req'[h].id = t.change
                         ELSE pc'[h] = "idle",
         \A g \in Importers \ {h} : pc'[g] = pc[g] /\ req'[g] = req[g]
  PROVE  ImportInv'
<1>1. /\ step'[h] = s /\ task'[h] = t
      /\ \A g \in Importers \ {h} : step'[g] = step[g] /\ task'[g] = task[g]
      /\ step' \in [Importers -> ImportSteps] /\ task' \in [Importers -> Task \cup {Null}]
  BY DEF ImportInv, TasksFit, Proceed, Fit
<1>2. \A g \in Importers : Fit(step'[g], task'[g]) /\ SlugSeen(step'[g], task'[g])
  BY <1>1 DEF ImportInv, TasksFit
<1>3. TasksFit'
  BY <1>1, <1>2 DEF TasksFit, Fit, SlugSeen
<1>4. WaitsOK'
  BY <1>1 DEF ImportInv, WaitsOK
<1>5. \A g \in Importers : task[g] # Null => task[g].id \in JobIds
  BY TaskParts DEF ImportInv, TasksFit
<1>6. JobsThere'
  <2>1. ASSUME NEW r \in rows' PROVE jobs'[r.job] # Null
    <3>1. CASE r \in rows
      BY <3>1 DEF ImportInv, JobTables, JobsThere, ImportRow
    <3>2. CASE r \notin rows
      BY <1>5, <3>2 DEF ImportInv, JobsThere
    <3> QED  BY <3>1, <3>2
  <2>2. ASSUME NEW g \in Importers, task'[g] # Null PROVE jobs'[task'[g].id] # Null
    BY <1>1, <1>5, <2>2 DEF ImportInv, JobsThere
  <2> QED  BY <2>1, <2>2 DEF JobsThere
<1>7. t # Null => \A g \in Importers \ {h} : task[g] # Null => task[g].id # t.id
  BY DEF ImportInv, JobsApart, JobsThere
<1>8. JobsApart'
  BY <1>1, <1>7 DEF ImportInv, JobsApart
<1>9. SlugsOK'
  <2>1. ASSUME NEW g \in Importers, task'[g] # Null PROVE SlugNew(rows', step'[g], task'[g])
    <3>1. CASE g = h
      BY <1>1, <2>1, <3>1
    <3>2. CASE g # h
      <4>1. task'[g] = task[g] /\ step'[g] = step[g] /\ task[g] # Null
        BY <1>1, <2>1, <3>2
      <4>2. SlugNew(rows, step[g], task[g])
        BY <4>1 DEF ImportInv, SlugsOK
      <4>3. \A r \in rows' \ rows : r.job # task[g].id
        BY <3>2, <4>1 DEF ImportInv, JobsApart
      <4> QED  BY <4>1, <4>2, <4>3 DEF SlugNew
    <3> QED  BY <3>1, <3>2
  <2> QED  BY <2>1 DEF SlugsOK, SlugNew
<1> QED  BY <1>3, <1>4, <1>6, <1>8, <1>9 DEF ImportInv

\* Such a step that leaves the tables of imports and the workflow's handlers
\* alone.
LEMMA LocalStep ==
  ASSUME ImportInv, NEW h \in Importers, NEW s, NEW t \in Task, Proceed(h, s, t),
         Fit(s, t), SlugSeen(s, t),
         task[h] # Null, t.id = task[h].id,
         SlugNew(rows, s, t),
         UNCHANGED <<jobs, rows, answers>>,
         IF s = "submit" THEN pc'[h] = "submit" /\ req'[h].id = t.change
                         ELSE pc'[h] = "idle",
         \A g \in Importers \ {h} : pc'[g] = pc[g] /\ req'[g] = req[g]
  PROVE  ImportInv'
<1>1. JobTables'
  BY DEF ImportInv, JobTables
<1>2. jobs'[t.id] # Null
  BY DEF ImportInv, JobsThere
<1>3. SlugOncePerFile'
  BY DEF ImportInv, SlugOncePerFile
<1>4. SlugNew(rows', s, t)
  BY DEF SlugNew
<1>5. rows \subseteq rows' /\ rows' \ rows = {}
  OBVIOUS
<1> QED  BY <1>1, <1>2, <1>3, <1>4, <1>5, ImporterStep

\* A handler outside the workflow, or one that only answered there.
LEMMA QuietWorkflow ==
  ASSUME ImportInv, NEW h \in Importers, pc[h] = "idle", UNCHANGED vars
  PROVE  /\ pc'[h] = "idle"
         /\ \A g \in Importers \ {h} : pc'[g] = pc[g] /\ req'[g] = req[g]
BY DEF vars

LEMMA LeaveWorkflow ==
  ASSUME IInv, NEW h \in Importers, Done(h)
  PROVE  /\ pc'[h] = "idle"
         /\ \A g \in Importers \ {h} : pc'[g] = pc[g] /\ req'[g] = req[g]
BY ImportAssumption DEF Done, IInv, TypeOK

LEMMA ImportBegins ==
  ASSUME ImportInv, NEW h \in Importers, NEW a \in Admins, NEW sheet \in Sheets,
         NEW dry \in BOOLEAN, Import(h, a, sheet, dry)
  PROVE  ImportInv'
<1> DEFINE file == ParseCSV(sheet)
           row  == [uploaded_by |-> a, status |-> "processing", dry_run |-> dry,
                    file |-> file, processed_rows |-> 0, rows_failed |-> 0,
                    changes_created |-> 0]
           T(j) == [id |-> j, job |-> row, at |-> 1, seen |-> {}, ok |-> TRUE,
                    change |-> Null, pending |-> <<>>]
<1>1. PICK j \in JobIds :
        /\ step[h] = "idle" /\ jobs[j] = Null
        /\ jobs' = [jobs EXCEPT ![j] = row]
        /\ Proceed(h, "check", T(j))
        /\ UNCHANGED <<vars, rows, answers>>
  BY DEF Import, Put
<1>2. file \in Files /\ file \in Seq(Record) /\ 1 <= Len(file)
  <2>1. file \in Files
    BY DEF Files
  <2>2. Len(file) \in 1 .. MaxRows
    BY DEF Import, Accepted
  <2> HIDE DEF file
  <2> QED  BY <2>1, <2>2, FilesAssumption, ImportAssumption
<1> HIDE DEF file
<1>3. row \in JobRow /\ row.file = file
  BY <1>2 DEF JobRow
<1> HIDE DEF row
<1> DEFINE t == T(j)
<1>4. /\ t \in Task /\ t.id = j /\ t.at = 1 /\ t.job = row
  BY <1>3 DEF Task
<1> HIDE DEF T, t
<1>5. t # Null /\ row # Null
  BY <1>3, <1>4, FilesAssumption
<1>6. Fit("check", t) /\ SlugSeen("check", t)
  BY <1>2, <1>3, <1>4, <1>5 DEF Fit, SlugSeen, ImportSteps, AtRecord
<1>7. JobTables' /\ (\A i \in JobIds : jobs[i] # Null => jobs'[i] # Null) /\ jobs'[t.id] # Null
  BY <1>1, <1>3, <1>4, <1>5 DEF ImportInv, JobTables
<1>8. SlugNew(rows', "check", t)
  BY <1>1, <1>4 DEF SlugNew, ImportInv, JobsThere
<1>9. SlugOncePerFile'
  BY <1>1 DEF ImportInv, SlugOncePerFile
<1>10. pc'[h] = "idle" /\ \A g \in Importers \ {h} : pc'[g] = pc[g] /\ req'[g] = req[g]
  BY <1>1, QuietWorkflow DEF ImportInv, WaitsOK
<1>11. rows \subseteq rows' /\ rows' \ rows = {}
  BY <1>1
<1>12. Proceed(h, "check", t)
  BY <1>1 DEF t
<1> QED
  BY <1>1, <1>4, <1>6, <1>7, <1>8, <1>9, <1>10, <1>11, <1>12, ImporterStep

LEMMA CheckRecordStep ==
  ASSUME ImportInv, NEW h \in Importers, CheckRecord(h)
  PROVE  ImportInv'
<1> DEFINE t     == task[h]
           slug  == At(h).fields.slug
           again == slug \in t.seen
           good  == /\ At(h).parses
                    /\ ~ again
                    /\ slug # Null => ~ SlugExists(slug)
                    /\ At(h).fields.hero # Null
                    /\ Valid("create", At(h).fields)
           seen  == t.seen \cup ({slug} \ {Null})
           u     == [t EXCEPT !.ok = good, !.change = Null, !.seen = seen]
<1>1. /\ step[h] = "check"
      /\ \/ Proceed(h, IF good /\ ~ t.job.dry_run THEN "draft" ELSE "row", u)
         \/ Proceed(h, "fail", t)
      /\ UNCHANGED <<vars, jobs, rows, answers>>
  BY DEF CheckRecord
<1>2. /\ t \in Task /\ t # Null /\ t.at <= Len(t.job.file) /\ SlugNew(rows, "check", t)
  BY <1>1, ImportParts DEF AtRecord
<1>3. /\ At(h) = t.job.file[t.at]
      /\ slug \in Slugs \cup {Null}
  BY <1>2, RecordTyped DEF At
<1>4. pc'[h] = "idle" /\ \A g \in Importers \ {h} : pc'[g] = pc[g] /\ req'[g] = req[g]
  BY <1>1, QuietWorkflow DEF ImportInv, WaitsOK
<1>5. CASE Proceed(h, "fail", t)
  <2>1. Fit("fail", t) /\ SlugSeen("fail", t) /\ SlugNew(rows, "fail", t)
    BY <1>2 DEF Fit, SlugSeen, SlugNew, ImportSteps, AtRecord
  <2> QED  BY <1>1, <1>2, <1>4, <1>5, <2>1, LocalStep
<1>6. CASE Proceed(h, IF good /\ ~ t.job.dry_run THEN "draft" ELSE "row", u)
  <2> DEFINE s == IF good /\ ~ t.job.dry_run THEN "draft" ELSE "row"
  <2>1. good \in BOOLEAN /\ (good => Draftable(At(h)) /\ slug \notin t.seen)
    BY DEF Draftable
  <2>2. seen \subseteq Slugs /\ slug \in seen \cup {Null} /\ t.seen \subseteq seen
    BY <1>2, <1>3, TaskParts
  <2>3. s \in {"draft", "row"} /\ (s = "draft" => good /\ ~ t.job.dry_run)
    OBVIOUS
  <2> HIDE DEF good, seen, s
  <2>4. /\ u \in Task /\ u # Null /\ u.id = t.id /\ u.at = t.at /\ u.job = t.job
        /\ u.ok = good /\ u.seen = seen
    <3>1. u \in Task /\ u.id = t.id /\ u.at = t.at /\ u.job = t.job
          /\ u.ok = good /\ u.seen = seen
      BY <1>2, <2>1, <2>2 DEF Task
    <3> QED  BY <3>1, TaskParts
  <2> HIDE DEF u, t
  <2>5. Fit(s, u)
    BY <1>2, <1>3, <2>1, <2>3, <2>4 DEF Fit, ImportSteps, AtRecord
  <2>6. SlugSeen(s, u)
    BY <1>3, <2>2, <2>4 DEF SlugSeen
  <2>7. SlugNew(rows, s, u)
    BY <1>2, <1>3, <2>1, <2>2, <2>4 DEF SlugNew
  <2>8. Proceed(h, s, u)
    BY <1>6 DEF s
  <2>9. IF s = "submit" THEN pc'[h] = "submit" /\ req'[h].id = u.change ELSE pc'[h] = "idle"
    BY <1>4, <2>3
  <2>10. task[h] # Null /\ u.id = task[h].id
    BY <1>2, <2>4 DEF t
  <2> QED
    BY <1>1, <1>4, <2>4, <2>5, <2>6, <2>7, <2>8, <2>9, <2>10, LocalStep
<1> QED  BY <1>1, <1>5, <1>6

\* From one statement for a record to the next the slug stays what it is.
LEMMA SameRecord ==
  ASSUME NEW t \in Task, NEW u \in Task, u.id = t.id, u.at = t.at, u.seen = t.seen,
         u.job.file = t.job.file, u.ok => t.ok,
         NEW s \in {"draft", "find", "submit", "row"},
         NEW next \in {"find", "submit", "row"},
         NEW R, SlugSeen(s, t), SlugNew(R, s, t)
  PROVE  SlugSeen(next, u) /\ SlugNew(R, next, u)
BY DEF SlugSeen, SlugNew

LEMMA DraftRecordStep ==
  ASSUME ImportInv, NEW h \in Importers, DraftRecord(h)
  PROVE  ImportInv'
<1> DEFINE t == task[h]
<1>1. /\ step[h] = "draft" /\ "draft" \in AtRecord /\ "draft" # "idle"
      /\ UNCHANGED <<jobs, rows, answers>>
      /\ UNCHANGED <<pc, req>>
  BY DEF DraftRecord, CreateDraft, AtRecord, vars
<1>2. /\ t \in Task /\ t # Null /\ t.at <= Len(t.job.file) /\ ~ t.job.dry_run
      /\ SlugNew(rows, "draft", t) /\ SlugSeen("draft", t)
  BY <1>1, ImportParts DEF Fit
<1>3. pc'[h] = "idle" /\ \A g \in Importers \ {h} : pc'[g] = pc[g] /\ req'[g] = req[g]
  BY <1>1 DEF ImportInv, WaitsOK
<1>4. CASE \E c \in ChangeIds : Proceed(h, "find", [t EXCEPT !.change = c])
  <2>1. PICK c \in ChangeIds : Proceed(h, "find", [t EXCEPT !.change = c])
    BY <1>4
  <2> DEFINE u == [t EXCEPT !.change = c]
  <2>2. /\ u \in Task /\ u.id = t.id /\ u.at = t.at /\ u.job = t.job /\ u.ok = t.ok
        /\ u.seen = t.seen /\ u.change = c
    BY <1>2 DEF Task
  <2> HIDE DEF u
  <2>3. Fit("find", u)
    BY <1>2, <2>2, TaskParts DEF Fit, ImportSteps, AtRecord
  <2>4. SlugSeen("find", u) /\ SlugNew(rows, "find", u)
    BY <1>2, <2>2, SameRecord
  <2>5. Proceed(h, "find", u) /\ "find" # "submit"
    BY <2>1 DEF u
  <2> QED  BY <1>1, <1>2, <1>3, <2>2, <2>3, <2>4, <2>5, LocalStep
<1>5. CASE Proceed(h, "row", [t EXCEPT !.ok = FALSE])
  <2> DEFINE u == [t EXCEPT !.ok = FALSE]
  <2>2. /\ u \in Task /\ u.id = t.id /\ u.at = t.at /\ u.job = t.job /\ u.ok = FALSE
        /\ u.seen = t.seen
    BY <1>2 DEF Task
  <2> HIDE DEF u
  <2>3. Fit("row", u)
    BY <1>2, <2>2, TaskParts DEF Fit, ImportSteps, AtRecord
  <2>4. SlugSeen("row", u) /\ SlugNew(rows, "row", u)
    BY <1>2, <2>2, SameRecord
  <2>5. Proceed(h, "row", u) /\ "row" # "submit"
    BY <1>5 DEF u
  <2> QED  BY <1>1, <1>2, <1>3, <2>2, <2>3, <2>4, <2>5, LocalStep
<1> QED  BY <1>4, <1>5 DEF DraftRecord

LEMMA FindDraftStep ==
  ASSUME IInv, ImportInv, NEW h \in Importers, FindDraft(h)
  PROVE  ImportInv'
<1> DEFINE t == task[h]
<1>1. /\ step[h] = "find" /\ "find" \in AtRecord /\ "find" # "idle"
      /\ UNCHANGED <<jobs, rows, answers>>
      /\ \/ SubmitDraft(h, t.job.uploaded_by, t.change) /\ Proceed(h, "submit", t)
         \/ Proceed(h, "row", [t EXCEPT !.ok = FALSE, !.change = Null]) /\ UNCHANGED vars
  BY DEF FindDraft, AtRecord
<1>2. /\ t \in Task /\ t # Null /\ t.at <= Len(t.job.file) /\ ~ t.job.dry_run
      /\ t.change \in ChangeIds /\ h \in Handlers
      /\ SlugNew(rows, "find", t) /\ SlugSeen("find", t)
  BY <1>1, ImportParts DEF Fit
<1>3. pc \in [Handlers -> Steps] /\ req \in [Handlers -> Request \cup {Null}] /\ Importers \subseteq Handlers
  BY ImportAssumption DEF IInv, TypeOK
<1>4. CASE SubmitDraft(h, t.job.uploaded_by, t.change) /\ Proceed(h, "submit", t)
  <2>1. /\ pc' = [pc EXCEPT ![h] = "submit"]
        /\ req' = [req EXCEPT ![h] =
             [actor |-> t.job.uploaded_by, id |-> t.change,
              base |-> changes[t.change].payload, row |-> changes[t.change]]]
    BY <1>4 DEF SubmitDraft, Begin
  <2>2. /\ pc'[h] = "submit" /\ req'[h].id = t.change
        /\ \A g \in Importers \ {h} : pc'[g] = pc[g] /\ req'[g] = req[g]
    BY <1>2, <1>3, <2>1
  <2>3. Fit("submit", t)
    BY <1>2 DEF Fit, ImportSteps, AtRecord
  <2>4. SlugSeen("submit", t) /\ SlugNew(rows, "submit", t)
    BY <1>2, SameRecord
  <2> QED  BY <1>1, <1>2, <1>4, <2>2, <2>3, <2>4, LocalStep
<1>5. CASE Proceed(h, "row", [t EXCEPT !.ok = FALSE, !.change = Null]) /\ UNCHANGED vars
  <2> DEFINE u == [t EXCEPT !.ok = FALSE, !.change = Null]
  <2>1. pc'[h] = "idle" /\ \A g \in Importers \ {h} : pc'[g] = pc[g] /\ req'[g] = req[g]
    BY <1>1, <1>5, QuietWorkflow DEF ImportInv, WaitsOK
  <2>2. /\ u \in Task /\ u.id = t.id /\ u.at = t.at /\ u.job = t.job /\ u.ok = FALSE
        /\ u.seen = t.seen
    BY <1>2 DEF Task
  <2> HIDE DEF u
  <2>3. Fit("row", u)
    BY <1>2, <2>2, TaskParts DEF Fit, ImportSteps, AtRecord
  <2>4. SlugSeen("row", u) /\ SlugNew(rows, "row", u)
    BY <1>2, <2>2, SameRecord
  <2>5. Proceed(h, "row", u) /\ "row" # "submit"
    BY <1>5 DEF u
  <2> QED  BY <1>1, <1>2, <2>1, <2>2, <2>3, <2>4, <2>5, LocalStep
<1> QED  BY <1>1, <1>4, <1>5

\* The variables after a submission.
LEMMA SubmittedTyped ==
  ASSUME NEW t \in Task, t.change \in ChangeIds
  PROVE  /\ Submitted(t) \in Task /\ Submitted(t).id = t.id /\ Submitted(t).at = t.at
         /\ Submitted(t).ok = t.ok /\ Submitted(t).seen = t.seen
         /\ Submitted(t).job.file = t.job.file
<1> DEFINE pending == Collected(t.pending, t.change)
           job     == [t.job EXCEPT !.changes_created = @ + 1]
<1>1. pending \in Seq(ChangeIds)
  BY TaskParts DEF Collected
<1>2. job \in JobRow /\ job.file = t.job.file
  BY TaskParts DEF JobRow
<1>3. Submitted(t) = [t EXCEPT !.pending = pending, !.job = job]
  BY DEF Submitted, Task
<1> HIDE DEF pending, job
<1> QED  BY <1>1, <1>2, <1>3 DEF Task

LEMMA SubmitRecordStep ==
  ASSUME IInv, ImportInv, NEW h \in Importers, SubmitRecord(h)
  PROVE  ImportInv'
<1> DEFINE t == task[h]
           v == [t EXCEPT !.ok = FALSE, !.change = Null]
<1>1. /\ step[h] = "submit" /\ "submit" \in AtRecord /\ "submit" # "idle"
      /\ UNCHANGED <<jobs, rows, answers>>
      /\ Done(h)
      /\ Proceed(h, "row", Submitted(t)) \/ Proceed(h, "row", v)
  BY DEF SubmitRecord, AtRecord, Refused, MarkSubmitted
<1>2. /\ t \in Task /\ t # Null /\ t.at <= Len(t.job.file) /\ t.change \in ChangeIds
      /\ SlugNew(rows, "submit", t) /\ SlugSeen("submit", t)
  BY <1>1, ImportParts DEF Fit
<1>3. pc'[h] = "idle" /\ \A g \in Importers \ {h} : pc'[g] = pc[g] /\ req'[g] = req[g]
  BY <1>1, LeaveWorkflow
<1>4. /\ v \in Task /\ v.id = t.id /\ v.at = t.at /\ v.job = t.job /\ v.ok = FALSE
      /\ v.seen = t.seen
  BY <1>2 DEF Task
<1> HIDE DEF v
<1>5. PICK u \in Task :
        /\ Proceed(h, "row", u)
        /\ u.id = t.id /\ u.at = t.at /\ u.seen = t.seen /\ (u.ok => t.ok)
        /\ u.job.file = t.job.file
  BY <1>1, <1>2, <1>4, SubmittedTyped, TaskParts
<1>6. Fit("row", u)
  BY <1>2, <1>5, TaskParts DEF Fit, ImportSteps, AtRecord
<1>7. SlugSeen("row", u) /\ SlugNew(rows, "row", u)
  BY <1>2, <1>5, SameRecord
<1>8. "row" # "submit"
  OBVIOUS
<1> QED  BY <1>1, <1>2, <1>3, <1>5, <1>6, <1>7, <1>8, LocalStep

\* The variables once a row is counted, and once it is processed.
LEMMA RowCountedTyped ==
  ASSUME NEW t \in Task
  PROVE  /\ RowCounted(t) \in Task /\ RowCounted(t).id = t.id /\ RowCounted(t).at = t.at
         /\ RowCounted(t).seen = t.seen /\ RowCounted(t).job.file = t.job.file
<1> DEFINE job == [t.job EXCEPT !.rows_failed = @ + 1]
<1>1. job \in JobRow /\ job.file = t.job.file
  BY TaskParts DEF JobRow
<1>2. RowCounted(t) = IF t.ok THEN t ELSE [t EXCEPT !.job = job]
  BY DEF RowCounted, Task
<1> HIDE DEF job
<1> QED  BY <1>1, <1>2 DEF Task

LEMMA ProcessedTyped ==
  ASSUME NEW t \in Task
  PROVE  /\ Processed(t) \in Task /\ Processed(t).id = t.id /\ Processed(t).at = t.at + 1
         /\ Processed(t).seen = t.seen /\ Processed(t).job.file = t.job.file
<1> DEFINE c   == RowCounted(t)
           job == [c.job EXCEPT !.processed_rows = @ + 1]
           at  == c.at + 1
<1>1. c \in Task /\ c.id = t.id /\ c.at = t.at /\ c.seen = t.seen /\ c.job.file = t.job.file
  BY RowCountedTyped
<1> HIDE DEF c
<1>2. job \in JobRow /\ job.file = t.job.file
  <2>1. c.job \in JobRow /\ c.job.processed_rows \in Nat /\ c.job.file = t.job.file
    BY <1>1, TaskParts
  <2> QED  BY <2>1 DEF JobRow
<1>3. at \in Nat \ {0} /\ at = t.at + 1
  BY <1>1, TaskParts
<1>4. Processed(t) = [c EXCEPT !.at = at, !.job = job]
  BY <1>1 DEF Processed, Task, c
<1> HIDE DEF job, at
<1> QED  BY <1>1, <1>2, <1>3, <1>4 DEF Task

LEMMA InsertRowStep ==
  ASSUME ImportInv, NEW h \in Importers, InsertRow(h)
  PROVE  ImportInv'
<1> DEFINE t == task[h]
           new == RowOf(h)
<1>1. /\ step[h] = "row" /\ "row" \in AtRecord /\ "row" # "idle"
      /\ UNCHANGED <<vars, jobs, answers>>
      /\ rows' \in {rows, rows \cup {new}}
      /\ \/ Proceed(h, IF MoreRecords(t) THEN "check" ELSE "finish", Processed(t))
         \/ Proceed(h, "fail", RowCounted(t))
  BY DEF InsertRow, AtRecord
<1>2. /\ t \in Task /\ t # Null /\ t.at <= Len(t.job.file) /\ jobs[t.id] # Null
      /\ SlugNew(rows, "row", t) /\ SlugSeen("row", t)
  BY <1>1, ImportParts
<1>3. pc'[h] = "idle" /\ \A g \in Importers \ {h} : pc'[g] = pc[g] /\ req'[g] = req[g]
  BY <1>1, QuietWorkflow DEF ImportInv, WaitsOK
<1>4. /\ new \in ImportRow /\ new.job = t.id /\ new.payload = t.job.file[t.at].fields
      /\ new.status # "failed" => t.ok
  <2> DEFINE status == RowStatus(t)
             change == IF t.ok THEN t.change ELSE Null
             fields == At(h).fields
  <2>1. /\ fields \in Fields /\ fields = t.job.file[t.at].fields
        /\ status \in {"pending_review", "skipped", "failed"} /\ (status # "failed" => t.ok)
        /\ change \in ChangeIds \cup {Null}
    BY <1>2, RecordTyped, TaskParts DEF At, RowStatus
  <2>2. new = [job |-> t.id, number |-> t.at + 1, status |-> status, change |-> change,
               payload |-> fields]
    BY DEF RowOf, RowNumber
  <2> HIDE DEF status, change, fields, new
  <2> QED  BY <1>2, <2>1, <2>2, TaskParts DEF ImportRow
<1> HIDE DEF new
<1>5. PICK s \in {"check", "finish", "fail"}, u \in Task :
        /\ Proceed(h, s, u)
        /\ u.id = t.id /\ u.seen = t.seen /\ u.job.file = t.job.file
        /\ s = "check" => u.at <= Len(u.job.file)
  <2>1. CASE Proceed(h, "fail", RowCounted(t))
    BY <1>2, <2>1, RowCountedTyped
  <2>2. CASE Proceed(h, IF MoreRecords(t) THEN "check" ELSE "finish", Processed(t))
    <3>1. MoreRecords(t) => Processed(t).at <= Len(Processed(t).job.file)
      BY <1>2, ProcessedTyped, TaskParts DEF MoreRecords
    <3> QED  BY <1>2, <2>2, <3>1, ProcessedTyped
  <2> QED  BY <1>1, <2>1, <2>2
<1>6. Fit(s, u) /\ SlugSeen(s, u) /\ u # Null
  BY <1>5, TaskParts DEF Fit, SlugSeen, ImportSteps, AtRecord
<1>7. JobTables'
  BY <1>1, <1>4 DEF ImportInv, JobTables
<1>8. SlugNew(rows', s, u)
  BY <1>1, <1>2, <1>4, <1>5 DEF SlugNew, SlugSeen
<1>9. SlugOncePerFile'
  <2>1. ASSUME NEW q \in rows', NEW r \in rows', q.job = r.job, q # r,
               q.status # "failed", r.status # "failed"
        PROVE  q.payload.slug = Null \/ q.payload.slug # r.payload.slug
    <3>1. CASE q \in rows /\ r \in rows
      BY <2>1, <3>1 DEF ImportInv, SlugOncePerFile
    <3>2. CASE q \in rows /\ r = new
      BY <1>2, <1>4, <2>1, <3>2 DEF SlugNew
    <3>3. CASE q = new /\ r \in rows
      BY <1>2, <1>4, <2>1, <3>3 DEF SlugNew
    <3> QED  BY <1>1, <2>1, <3>1, <3>2, <3>3
  <2> QED  BY <2>1 DEF SlugOncePerFile
<1>10. /\ rows \subseteq rows' /\ \A r \in rows' \ rows : task[h] # Null /\ r.job = task[h].id
       /\ jobs'[u.id] # Null /\ s # "submit" /\ task[h] # Null /\ u.id = task[h].id
       /\ \A j \in JobIds : jobs[j] # Null => jobs'[j] # Null
  BY <1>1, <1>2, <1>4, <1>5
<1> HIDE DEF t
<1> QED  BY <1>3, <1>5, <1>6, <1>7, <1>8, <1>9, <1>10, ImporterStep

\* The last statements of an import.
LEMMA JobWritten ==
  ASSUME ImportInv, NEW h \in Importers, step[h] \in {"finish", "fail"},
         NEW row \in JobRow, jobs' \in {jobs, [jobs EXCEPT ![task[h].id] = row]},
         UNCHANGED <<vars, rows>>, answers' \in [JobIds -> Seq(ChangeIds) \cup {Null}],
         Leave(h) \/ (row.file = task[h].job.file
                      /\ Proceed(h, "fail", [task[h] EXCEPT !.job = row]))
  PROVE  ImportInv'
<1> DEFINE t == task[h]
<1>1. /\ t \in Task /\ t # Null /\ jobs[t.id] # Null /\ t.id \in JobIds
      /\ SlugNew(rows, step[h], t)
  BY ImportParts, TaskParts
<1>2. row # Null
  BY FilesAssumption
<1>3. /\ JobTables'
      /\ \A j \in JobIds : jobs[j] # Null => jobs'[j] # Null
      /\ jobs'[t.id] # Null
  BY <1>1, <1>2 DEF ImportInv, JobTables
<1>4. pc'[h] = "idle" /\ \A g \in Importers \ {h} : pc'[g] = pc[g] /\ req'[g] = req[g]
  BY QuietWorkflow DEF ImportInv, WaitsOK
<1>5. SlugOncePerFile' /\ rows \subseteq rows' /\ rows' \ rows = {}
  BY DEF ImportInv, SlugOncePerFile
<1>6. CASE Leave(h)
  <2>1. Fit("idle", Null) /\ SlugSeen("idle", Null)
    BY DEF Fit, SlugSeen, ImportSteps, AtRecord
  <2>2. Proceed(h, "idle", Null) /\ "idle" # "submit"
    BY <1>6 DEF Leave
  <2> QED  BY <1>3, <1>4, <1>5, <2>1, <2>2, ImporterStep
<1>7. CASE row.file = t.job.file /\ Proceed(h, "fail", [t EXCEPT !.job = row])
  <2> DEFINE u == [t EXCEPT !.job = row]
  <2>1. u \in Task /\ u.id = t.id /\ u.seen = t.seen
    BY <1>1 DEF Task
  <2> HIDE DEF u
  <2>2. Fit("fail", u) /\ SlugSeen("fail", u)
    BY <2>1, TaskParts DEF Fit, SlugSeen, ImportSteps, AtRecord
  <2>3. SlugNew(rows', "fail", u)
    BY <1>1, <2>1 DEF SlugNew
  <2>4. Proceed(h, "fail", u) /\ "fail" # "submit"
    BY <1>7 DEF u
  <2>5. jobs'[u.id] # Null /\ task[h] # Null /\ u.id = task[h].id
    BY <1>1, <1>3, <2>1
  <2> HIDE DEF t
  <2> QED  BY <1>3, <1>4, <1>5, <2>1, <2>2, <2>3, <2>4, <2>5, ImporterStep
<1> QED  BY <1>6, <1>7

LEMMA CompleteJobStep ==
  ASSUME ImportInv, NEW h \in Importers, CompleteJob(h)
  PROVE  ImportInv'
<1> DEFINE t   == task[h]
           row == [t.job EXCEPT !.status = "completed"]
<1>1. step[h] = "finish" /\ UNCHANGED <<vars, rows>>
  BY DEF CompleteJob
<1>2. t \in Task /\ t.id \in JobIds /\ t.pending \in Seq(ChangeIds)
  BY <1>1, ImportParts, TaskParts
<1>3. row \in JobRow /\ row.file = t.job.file
  BY <1>2, TaskParts DEF JobRow
<1>4. jobs' \in {jobs, [jobs EXCEPT ![t.id] = row]}
  BY DEF CompleteJob, Put
<1>5. /\ answers' \in {answers, [answers EXCEPT ![t.id] = t.pending]}
      /\ Leave(h) \/ Proceed(h, "fail", [t EXCEPT !.job = row])
  BY DEF CompleteJob
<1>6. answers' \in [JobIds -> Seq(ChangeIds) \cup {Null}]
  <2>1. answers \in [JobIds -> Seq(ChangeIds) \cup {Null}]
    BY DEF ImportInv, JobTables
  <2> DEFINE pending == t.pending
  <2>2. pending \in Seq(ChangeIds) \cup {Null}
    BY <1>2
  <2> HIDE DEF pending
  <2>3. [answers EXCEPT ![t.id] = pending] \in [JobIds -> Seq(ChangeIds) \cup {Null}]
    BY <1>2, <2>1, <2>2
  <2> QED  BY <1>5, <2>1, <2>3 DEF pending
<1> HIDE DEF row
<1> QED  BY <1>1, <1>3, <1>4, <1>5, <1>6, JobWritten

LEMMA FailJobStep ==
  ASSUME ImportInv, NEW h \in Importers, FailJob(h)
  PROVE  ImportInv'
<1> DEFINE t   == task[h]
           row == [t.job EXCEPT !.status = "failed"]
<1>1. step[h] = "fail" /\ UNCHANGED <<vars, rows, answers>> /\ Leave(h)
  BY DEF FailJob
<1>2. t \in Task
  BY <1>1, ImportParts
<1>3. row \in JobRow
  BY <1>2, TaskParts DEF JobRow
<1>4. jobs' \in {jobs, [jobs EXCEPT ![t.id] = row]}
  BY DEF FailJob, Put
<1>5. answers' \in [JobIds -> Seq(ChangeIds) \cup {Null}]
  BY <1>1 DEF ImportInv, JobTables
<1> HIDE DEF row
<1> QED  BY <1>1, <1>3, <1>4, <1>5, JobWritten

LEMMA DieStep ==
  ASSUME IInv, ImportInv, NEW h \in Importers, Die(h)
  PROVE  ImportInv'
<1>1. /\ step[h] # "idle" /\ Leave(h) /\ UNCHANGED <<jobs, rows, answers>>
      /\ IF step[h] = "submit" THEN Refused(h) ELSE UNCHANGED vars
  BY DEF Die
<1>2. pc'[h] = "idle" /\ \A g \in Importers \ {h} : pc'[g] = pc[g] /\ req'[g] = req[g]
  BY <1>1, LeaveWorkflow, QuietWorkflow DEF ImportInv, WaitsOK, Refused
<1>3. Fit("idle", Null) /\ SlugSeen("idle", Null)
  BY DEF Fit, SlugSeen, ImportSteps, AtRecord
<1>4. Proceed(h, "idle", Null) /\ "idle" # "submit"
  BY <1>1 DEF Leave
<1>5. JobTables' /\ (\A j \in JobIds : jobs[j] # Null => jobs'[j] # Null)
      /\ SlugOncePerFile' /\ rows \subseteq rows' /\ rows' \ rows = {}
  BY <1>1 DEF ImportInv, JobTables, SlugOncePerFile
<1> QED  BY <1>2, <1>3, <1>4, <1>5, ImporterStep

-----------------------------------------------------------------------------
(* The other requests                                                       *)

\* A request of another handler does not touch the handlers of imports.
LEMMA OthersApart ==
  ASSUME IInv, NEW h \in Handlers, AuthorStep(h) \/ ReviewerStep(h),
         NEW g \in Handlers, g # h
  PROVE  pc'[g] = pc[g] /\ req'[g] = req[g]
<1>1. /\ pc \in [Handlers -> Steps] /\ req \in [Handlers -> Request \cup {Null}]
  BY DEF IInv, TypeOK
<1>2. PICK s, r : pc' = [pc EXCEPT ![h] = s] /\ req' = [req EXCEPT ![h] = r]
  <2> DEFINE Only == \E s, r : pc' = [pc EXCEPT ![h] = s] /\ req' = [req EXCEPT ![h] = r]
  <2>1. ASSUME NEW s, NEW a, NEW c, NEW row, Begin(h, s, a, c, row) PROVE Only
    BY <2>1 DEF Begin
  <2>2. Done(h) => Only
    BY DEF Done
  <2>3. ASSUME NEW s, pc' = [pc EXCEPT ![h] = s], UNCHANGED req PROVE Only
    <3>1. req' = [req EXCEPT ![h] = req[h]]
      BY <1>1, <2>3
    <3> QED  BY <2>3, <3>1
  <2>4. ASSUME NEW fields \in Inputs, UpdateDraft(h, fields) PROVE Only
    <3>1. req' = [req EXCEPT ![h] =
            [req[h] EXCEPT !.row = Edited(changes[req[h].id], fields)]]
      BY <2>4 DEF UpdateDraft
    <3> QED  BY <2>4, <3>1 DEF UpdateDraft
  <2>5. ASSUME NEW a \in Admins, NEW c \in ChangeIds, NEW i \in Images,
               UploadHeroImage(h, a, c, i) \/ UploadGalleryImages(h, a, c, i)
        PROVE  Only
    BY <2>5 DEF UploadHeroImage, UploadGalleryImages, Upload
  <2>6. ASSUME NEW d, NEW row, Publish(h, d, row) PROVE Only
    BY <2>3, <2>6 DEF Publish
  <2> HIDE DEF Only
  <2>7. AuthorStep(h) => Only
    BY <2>1, <2>2, <2>4, <2>5
    DEF AuthorStep, OpenForm, CloseForm, SaveDraft, SubmitDraft, MarkSubmitted
  <2>8. ReviewerStep(h) => Only
    <3>1. (\E a \in Admins, c \in ChangeIds : Approve(h, a, c) \/ Reject(h, a, c)) => Only
      BY <2>1 DEF Approve, Reject
    <3>2. ApplyCreate(h) \/ ApplyUpdate(h) \/ ApplyArchive(h) => Only
      BY <2>2, <2>6 DEF ApplyCreate, ApplyUpdate, ApplyArchive, Refused
    <3>3. ApplyHardDelete(h) \/ RecordVersion(h) => Only
      BY <2>2, <2>3 DEF ApplyHardDelete, RecordVersion, Refused
    <3>4. MarkApproved(h) \/ MarkRejected(h) => Only
      BY <2>2 DEF MarkApproved, MarkRejected, SetStatus
    <3> QED  BY <3>1, <3>2, <3>3, <3>4 DEF ReviewerStep
  <2> QED  BY <2>7, <2>8 DEF Only
<1> QED  BY <1>1, <1>2

LEMMA OtherStepKeeps ==
  ASSUME IInv, ImportInv, NEW h \in Handlers \ Importers, OtherStep(h)
  PROVE  ImportInv'
<1>1. UNCHANGED <<jobs, rows, step, task, answers>>
  BY DEF OtherStep, importVars
<1>2. \A g \in Importers : pc'[g] = pc[g] /\ req'[g] = req[g]
  BY OthersApart, ImportAssumption DEF OtherStep
<1>3. WaitsOK'
  BY <1>1, <1>2 DEF ImportInv, WaitsOK
<1>4. JobTables' /\ TasksFit' /\ JobsThere' /\ JobsApart' /\ SlugsOK' /\ SlugOncePerFile'
  BY <1>1
  DEF ImportInv, JobTables, TasksFit, Fit, SlugSeen, JobsThere, JobsApart, SlugsOK, SlugNew,
      SlugOncePerFile
<1> QED  BY <1>3, <1>4 DEF ImportInv

-----------------------------------------------------------------------------
(* The results                                                              *)

LEMMA ImportInitHolds == ImportInit => IInv /\ ImportInv
<1> SUFFICES ASSUME ImportInit PROVE IInv /\ ImportInv
  OBVIOUS
<1>1. Init /\ jobs = [j \in JobIds |-> Null] /\ rows = {}
      /\ step = [h \in Importers |-> "idle"] /\ task = [h \in Importers |-> Null]
      /\ answers = [j \in JobIds |-> Null]
  BY DEF ImportInit
<1>2. IInv
  BY <1>1, InitInv
<1>3. Fit("idle", Null) /\ SlugSeen("idle", Null)
  BY DEF Fit, SlugSeen, ImportSteps, AtRecord
<1>4. TasksFit
  BY <1>1, <1>3 DEF TasksFit, ImportSteps
<1>5. pc = [h \in Handlers |-> "idle"] /\ "idle" # "submit"
  BY <1>1 DEF Init
<1>6. WaitsOK
  BY <1>1, <1>5, ImportAssumption DEF WaitsOK
<1>7. JobTables /\ JobsThere /\ JobsApart /\ SlugsOK /\ SlugOncePerFile
  BY <1>1 DEF JobTables, JobsThere, JobsApart, SlugsOK, SlugOncePerFile
<1> QED  BY <1>2, <1>4, <1>6, <1>7 DEF ImportInv

LEMMA ImportStepHolds ==
  IInv /\ ImportInv /\ [ImportNext]_allVars => IInv' /\ ImportInv'
<1> SUFFICES ASSUME IInv, ImportInv, [ImportNext]_allVars PROVE IInv' /\ ImportInv'
  OBVIOUS
<1>1. IInv'
  BY ImportNextRefines, StepInv
<1>2. CASE UNCHANGED allVars
  <2>1. UNCHANGED <<jobs, rows, step, task, answers, pc, req>>
    BY <1>2 DEF allVars, importVars, vars
  <2>2. JobTables' /\ TasksFit' /\ WaitsOK' /\ JobsThere' /\ JobsApart' /\ SlugsOK'
        /\ SlugOncePerFile'
    BY <2>1
    DEF ImportInv, JobTables, TasksFit, Fit, SlugSeen, WaitsOK, JobsThere, JobsApart,
        SlugsOK, SlugNew, SlugOncePerFile
  <2> QED  BY <1>1, <2>2 DEF ImportInv
<1>3. ASSUME NEW h \in Importers, ImportStep(h) PROVE ImportInv'
  BY <1>3, ImportBegins, CheckRecordStep, DraftRecordStep, FindDraftStep,
     SubmitRecordStep, InsertRowStep, CompleteJobStep, FailJobStep, DieStep
  DEF ImportStep
<1>4. ASSUME NEW h \in Handlers \ Importers, OtherStep(h) PROVE ImportInv'
  BY <1>4, OtherStepKeeps
<1> QED  BY <1>1, <1>2, <1>3, <1>4 DEF ImportNext

\* Both invariants hold however imports and other requests interleave.
THEOREM ImportInvariance == ImportSpec => [](IInv /\ ImportInv)
<1> QED  BY ImportInitHolds, ImportStepHolds, PTL DEF ImportSpec

(* The job table, the rows and the local variables of Import keep their     *)
(* types, and an import inside the workflow is at its submission.           *)
THEOREM ImportTypeCorrect == ImportSpec => []ImportTypeOK
<1> QED  BY ImportInvariance, ImportTyped, PTL

(* Import does to the workflow only what some request of the workflow's     *)
(* own service does (CreateDraft, SubmitDraft).                             *)
THEOREM ImportRefinesWorkflow == ImportSpec => ImplementsWorkflow
<1>1. ImportInit => Init
  BY DEF ImportInit
<1>2. ImportInv /\ [ImportNext]_allVars => [Next]_vars
  BY ImportNextRefines
<1> QED  BY <1>1, <1>2, ImportInvariance, PTL DEF ImportSpec, ImplementsWorkflow, Spec

(* What is imported goes through review by somebody else, like any change.  *)
THEOREM ImportKeepsDualControl == ImportSpec => []DualControl
<1> QED  BY ImportRefinesWorkflow, DualControlHolds, PTL DEF ImplementsWorkflow

(* seenSlugs keeps one file from proposing a slug twice.                    *)
THEOREM FilesProposeSlugsOnce == ImportSpec => []SlugOncePerFile
<1>1. ImportInv => SlugOncePerFile
  BY DEF ImportInv
<1> QED  BY <1>1, ImportInvariance, PTL

(* While a dry run lasts its handler leaves the workflow's tables alone.    *)
THEOREM DryRunsAreDry == ImportSpec => DryRunChangesNothing
<1>1. ASSUME ImportInv, [ImportNext]_allVars, NEW h \in Importers,
             task[h] # Null, task[h].job.dry_run, task'[h] # task[h]
      PROVE  UNCHANGED tables
  <2>1. task \in [Importers -> Task \cup {Null}]
    BY <1>1 DEF ImportInv, TasksFit
  <2>2. ImportNext /\ ~ UNCHANGED task
    BY <1>1 DEF allVars, importVars
  <2>3. PICK g \in Importers : ImportStep(g)
    BY <2>2 DEF ImportNext, OtherStep, importVars
  <2>4. \E s, t : task' = [task EXCEPT ![g] = t]
    BY <2>3
    DEF ImportStep, Import, CheckRecord, DraftRecord, FindDraft, SubmitRecord, InsertRow,
        CompleteJob, FailJob, Die, Leave, Proceed
  <2>5. g = h
    BY <1>1, <2>1, <2>4
  <2>6. step[h] \notin {"idle", "draft", "find", "submit"}
    BY <1>1, ImportParts DEF Fit
  <2>7. UNCHANGED vars
    BY <2>3, <2>5, <2>6
    DEF ImportStep, Import, CheckRecord, DraftRecord, FindDraft, SubmitRecord, InsertRow,
        CompleteJob, FailJob, Die
  <2> QED  BY <2>7 DEF vars, tables
<1>2. ImportInv /\ [ImportNext]_allVars =>
        [\A h \in Importers :
           task[h] # Null /\ task[h].job.dry_run /\ task'[h] # task[h] =>
             UNCHANGED tables]_allVars
  BY <1>1
<1> QED  BY <1>2, ImportInvariance, PTL DEF ImportSpec, DryRunChangesNothing
=============================================================================
