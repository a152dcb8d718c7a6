--------------------------- MODULE DestinationImport ---------------------------
(***************************************************************************)
(* DestinationImportService (internal/service/destination_import_          *)
(* service.go) composed with the workflow it is a client of.  An import    *)
(* runs inside one request: for every record of the file it reads the      *)
(* catalogue, creates and submits a draft through the workflow's own       *)
(* methods, and inserts a row that says what became of the record.  The    *)
(* job row is written when the import begins and once more when it ends;   *)
(* the counters in between are a local variable.  Meanwhile other requests *)
(* edit, submit and review the same changes.                               *)
(*                                                                         *)
(* A sheet that is refused as a whole makes no job and is not a step.      *)
(***************************************************************************)
EXTENDS DestinationWorkflow

CONSTANTS
  JobIds,        \* ids of destination_import_job rows
  Importers,     \* the handlers that serve imports, the others serve the rest
  Sheets,        \* the CSV files admins upload
  MaxRows,       \* DESTINATION_IMPORT_MAX_ROWS
  MaxPendingIDs  \* DESTINATION_IMPORT_MAX_PENDING_IDS

(***************************************************************************)
(* A sheet has some columns, in any order, and records with a cell for each *)
(* of them.  "rest" stands for the columns that are only copied or checked: *)
(* its cell is good, or holds what validateFields refuses, or a number that *)
(* cannot be read.                                                          *)
(***************************************************************************)
Columns  == {"name", "slug", "status", "gallery", "hero", "rest"}
Required == {"name", "hero", "rest"}

Cells ==
  [name: Names \cup {Blank}, slug: Slugs \cup {Blank},
   status: DestStatuses \cup {"other", Blank}, gallery: Seq(Images \cup {Blank}),
   hero: Images \cup {Blank}, rest: {"good", "refused", "unreadable", Blank}]

\* The fields of a record, without an empty slug, and whether its numbers and
\* status could be read.
Record == [fields: {f \in Fields : f.slug # Blank}, parses: BOOLEAN]

\* rowToMap: what has no column is empty, like an empty cell.
RowToMap(columns, cells) ==
  [c \in Columns |-> IF c \in columns THEN cells[c]
                     ELSE IF c = "gallery" THEN <<>> ELSE Blank]

Given(cell) == IF cell = Blank THEN Null ELSE cell

\* buildGallery: the images that are there, in order.
BuildGallery(cells) ==
  LET images == SelectSeq(cells, LAMBDA i : i # Blank)
  IN IF images = <<>> THEN Null ELSE images

\* The status of a record: published unless the sheet says otherwise.
StatusOf(cell) ==
  CASE cell = Blank       -> "published"
    [] cell = "other"     -> Null
    [] OTHER              -> cell

BuildChangeFields(values) ==
  [fields |->
     [name |-> Given(values["name"]), slug |-> Given(values["slug"]),
      status |-> StatusOf(values["status"]), gallery |-> BuildGallery(values["gallery"]),
      hero |-> Given(values["hero"]), hardDelete |-> FALSE,
      wellFormed |-> values["rest"] = "good"],
   parses |-> values["status"] # "other" /\ values["rest"] # "unreadable"]

IsRecordEmpty(cells) ==
  /\ \A c \in Columns \ {"gallery"} : cells[c] = Blank
  /\ BuildGallery(cells["gallery"]) = Null

\* parseCSV and the fields of its records; empty lines do not count.
ParseCSV(sheet) ==
  LET lines == SelectSeq(sheet.records, LAMBDA cells : ~ IsRecordEmpty(cells))
  IN [i \in 1 .. Len(lines) |-> BuildChangeFields(RowToMap(sheet.columns, lines[i]))]

MissingColumns(sheet) == Required \ sheet.columns

Files == {ParseCSV(sheet) : sheet \in Sheets}

(* The import calls the workflow's methods directly, so the flags of the    *)
(* handlers do not apply to it; it is modelled where they agree.  What it   *)
(* drafts is among the inputs of the workflow.                              *)
ASSUME ImportAssumption ==
  /\ "create" \in EnabledActions
  /\ Importers \subseteq Handlers
  /\ Sheets \subseteq [columns: SUBSET Columns, records: Seq(Cells)]
  /\ \A file \in Files : \A i \in DOMAIN file :
       /\ file[i].parses
       /\ file[i].fields.hero # Null
       /\ Valid("create", file[i].fields)
       => file[i].fields \in Inputs
  /\ MaxRows \in Nat
  /\ MaxPendingIDs \in Nat \ {0}

\* A row of destination_import_job.
JobRow ==
  [uploaded_by: Admins, status: {"processing", "completed", "failed"},
   dry_run: BOOLEAN, file: Files, processed_rows: Nat, rows_failed: Nat,
   changes_created: Nat]

\* A row of destination_import_row; number 2 is the first record.
ImportRow ==
  [job: JobIds, number: Nat \ {0}, status: {"pending_review", "skipped", "failed"},
   change: ChangeIds \cup {Null}, payload: Fields]

\* The local variables of Import: the job as it will be written, the record
\* at hand, the verdict on it and its change, and what the loop collects.
Task ==
  [id: JobIds, job: JobRow, at: Nat \ {0}, seen: SUBSET Slugs, ok: BOOLEAN,
   change: ChangeIds \cup {Null}, pending: Seq(ChangeIds)]

\* A file is a record for each line that counts.
ASSUME FilesAssumption ==
  /\ Files \subseteq Seq(Record)
  /\ Null \notin JobIds \cup JobRow \cup Task

VARIABLES
  jobs,     \* destination_import_job
  rows,     \* destination_import_row
  step,     \* what the import of each handler does next
  task,     \* its local variables
  answers   \* history: the pending ids an import answered with

importVars == <<jobs, rows, step, task, answers>>
allVars    == <<vars, importVars>>

ImportSteps ==
  {"idle", "check", "draft", "find", "submit", "row", "finish", "fail"}

ImportTypeOK ==
  /\ jobs \in [JobIds -> JobRow \cup {Null}]
  /\ rows \subseteq ImportRow
  /\ step \in [Importers -> ImportSteps]
  /\ task \in [Importers -> Task \cup {Null}]
  /\ answers \in [JobIds -> Seq(ChangeIds) \cup {Null}]
  /\ \A h \in Importers :
       /\ step[h] = "idle" <=> task[h] = Null
       /\ step[h] # "idle" => jobs[task[h].id] # Null
       /\ step[h] \in {"check", "draft", "find", "submit", "row"} =>
            task[h].at <= Len(task[h].job.file)
       /\ step[h] = "submit" =>
            pc[h] = "submit" /\ req[h].id = task[h].change
       /\ step[h] # "submit" => pc[h] = "idle"

ImportInit ==
  /\ Init
  /\ jobs = [j \in JobIds |-> Null]
  /\ rows = {}
  /\ step = [h \in Importers |-> "idle"]
  /\ task = [h \in Importers |-> Null]
  /\ answers = [j \in JobIds |-> Null]

-----------------------------------------------------------------------------
(* Helpers                                                                  *)

\* The record handler h works on.
At(h) == task[h].job.file[task[h].at]

\* The import of handler h goes on to step s with its variables as t.
Proceed(h, s, t) ==
  /\ step' = [step EXCEPT ![h] = s]
  /\ task' = [task EXCEPT ![h] = t]

\* The import of handler h is over.
Leave(h) == Proceed(h, "idle", Null)

\* The outcomes of a statement: it commits and says so, or it fails, or it
\* commits and its answer is lost, which the caller takes for a failure.
Outcomes == IF MayFail THEN {"done", "failed", "lost"} ELSE {"done"}

\* FindBySlug, which does not see archived rows.
SlugExists(slug) ==
  \E d \in DestIds : dests[d] # Null /\ ~ dests[d].deleted /\ dests[d].slug = slug

Put(j, row) == jobs' = [jobs EXCEPT ![j] = row]

-----------------------------------------------------------------------------
(* The import                                                               *)

\* The checks on a sheet as a whole; the first line does not count.
Accepted(sheet) ==
  /\ Len(ParseCSV(sheet)) \in 1 .. MaxRows
  /\ MissingColumns(sheet) = {}

\* Import up to CreateJob, which names the stored file.
Import(h, a, sheet, dry) ==
  LET row == [uploaded_by |-> a, status |-> "processing", dry_run |-> dry,
              file |-> ParseCSV(sheet), processed_rows |-> 0, rows_failed |-> 0,
              changes_created |-> 0]
  IN /\ step[h] = "idle"
     /\ Accepted(sheet)
     /\ \E j \in JobIds :
          /\ jobs[j] = Null
          /\ Put(j, row)
          /\ Proceed(h, "check",
               [id |-> j, job |-> row, at |-> 1, seen |-> {}, ok |-> TRUE,
                change |-> Null, pending |-> <<>>])
     /\ UNCHANGED <<vars, rows, answers>>

(* Variant of CheckRecord for mutation checks: a slug is remembered only if *)
(* its record is good.                                                      *)
CheckRecordForgetting(h) ==
  LET t     == task[h]
      slug  == At(h).fields.slug
      good  == /\ At(h).parses
               /\ slug # Null => ~ SlugExists(slug)
               /\ At(h).fields.hero # Null
               /\ Valid("create", At(h).fields)
  IN /\ step[h] = "check"
     /\ \/ Proceed(h, IF good /\ ~ t.job.dry_run THEN "draft" ELSE "row",
                   [t EXCEPT !.ok = good, !.change = Null])
        \/ MayFail /\ slug # Null /\ Proceed(h, "fail", t)
     /\ UNCHANGED <<vars, jobs, rows, answers>>

(* Variant of CheckRecord for mutation checks: a dry run is no different.   *)
CheckRecordForReal(h) ==
  LET t     == task[h]
      slug  == At(h).fields.slug
      again == slug \in t.seen
      good  == /\ At(h).parses
               /\ ~ again
               /\ slug # Null => ~ SlugExists(slug)
               /\ At(h).fields.hero # Null
               /\ Valid("create", At(h).fields)
  IN /\ step[h] = "check"
     /\ Proceed(h, IF good THEN "draft" ELSE "row",
                [t EXCEPT !.ok = good, !.change = Null, !.seen = @ \cup ({slug} \ {Null})])
     /\ UNCHANGED <<vars, jobs, rows, answers>>

(* The checks on a record: that its slug is new to the file, also if the    *)
(* other record failed, and to the catalogue as FindBySlug shows it, and    *)
(* ValidateFields.  An error of FindBySlug ends the import.                 *)
CheckRecord(h) ==
  LET t     == task[h]
      slug  == At(h).fields.slug
      again == slug \in t.seen
      good  == /\ At(h).parses
               /\ ~ again
               /\ slug # Null => ~ SlugExists(slug)
               /\ At(h).fields.hero # Null
               /\ Valid("create", At(h).fields)
  IN /\ step[h] = "check"
     /\ \/ Proceed(h, IF good /\ ~ t.job.dry_run THEN "draft" ELSE "row",
             [t EXCEPT !.ok = good, !.change = Null, !.seen = @ \cup ({slug} \ {Null})])
        \/ MayFail /\ slug # Null /\ ~ again /\ Proceed(h, "fail", t)
     /\ UNCHANGED <<vars, jobs, rows, answers>>

(* Variant of DraftRecord for mutation checks: the change is inserted as    *)
(* pending, past the workflow.                                              *)
DraftRecordAsPending(h) ==
  /\ step[h] = "draft"
  /\ \E c \in ChangeIds :
       /\ changes[c] = Null
       /\ changes' = [changes EXCEPT ![c] =
            [destination_id |-> Null, action |-> "create", payload |-> At(h).fields,
             status |-> "pending_review", draft_version |-> 1,
             submitted_by |-> task[h].job.uploaded_by, reviewed_by |-> Null,
             published_version |-> 0]]
       /\ Proceed(h, "row", [task[h] EXCEPT !.change = c])
  /\ UNCHANGED <<dests, versions, publications, bucket, pc, req, out, jobs, rows, answers>>

\* CreateDraft for the record; an error is the record's, not the import's.
DraftRecord(h) ==
  LET t == task[h]
  IN /\ step[h] = "draft"
     /\ \E outcome \in Outcomes :
          /\ IF outcome = "failed"
             THEN UNCHANGED vars
             ELSE CreateDraft(t.job.uploaded_by, "create", Null, At(h).fields)
          /\ IF outcome = "done"
             THEN \E c \in ChangeIds :
                    /\ changes[c] = Null /\ changes'[c] # Null
                    /\ Proceed(h, "find", [t EXCEPT !.change = c])
             ELSE Proceed(h, "row", [t EXCEPT !.ok = FALSE])
     /\ UNCHANGED <<jobs, rows, answers>>

(* SubmitDraft up to its UPDATE: the uploader may have edited or submitted  *)
(* the draft himself in the meantime.                                       *)
FindDraft(h) ==
  LET t == task[h]
      c == t.change
  IN /\ step[h] = "find"
     /\ \/ /\ SubmitDraft(h, t.job.uploaded_by, c)
           /\ Proceed(h, "submit", t)
        \/ /\ MayFail \/ ~ Editable(changes[c])
           /\ Proceed(h, "row", [t EXCEPT !.ok = FALSE, !.change = Null])
           /\ UNCHANGED vars
     /\ UNCHANGED <<jobs, rows, answers>>

(* Variant of Collected for mutation checks: one id too many.               *)
CollectedBeyond(pending, c) ==
  IF Len(pending) <= MaxPendingIDs THEN Append(pending, c) ELSE pending

\* The ids the answer lists, the first ones only.
Collected(pending, c) ==
  IF Len(pending) < MaxPendingIDs THEN Append(pending, c) ELSE pending

\* The local variables after SubmitDraft succeeded.
Submitted(t) ==
  [t EXCEPT !.pending = Collected(@, t.change), !.job.changes_created = @ + 1]

(* Variant of SubmitRecord for mutation checks: an error of SubmitDraft is  *)
(* not taken for one.                                                       *)
SubmitRecordUnchecked(h) ==
  /\ step[h] = "submit"
  /\ \E outcome \in Outcomes :
       IF outcome = "failed" THEN Refused(h) ELSE MarkSubmitted(h)
  /\ Proceed(h, "row", Submitted(task[h]))
  /\ UNCHANGED <<jobs, rows, answers>>

\* MarkSubmitted for the record.
SubmitRecord(h) ==
  LET t == task[h]
      failing == [t EXCEPT !.ok = FALSE, !.change = Null]
  IN /\ step[h] = "submit"
     /\ \E outcome \in Outcomes :
          /\ IF outcome = "failed" THEN Refused(h) ELSE MarkSubmitted(h)
          /\ Proceed(h, "row", IF outcome = "done" /\ Editable(changes[t.change])
                               THEN Submitted(t) ELSE failing)
     /\ UNCHANGED <<jobs, rows, answers>>

RowStatus(t) ==
  IF ~ t.ok THEN "failed" ELSE IF t.job.dry_run THEN "skipped" ELSE "pending_review"

\* The number of a row counts the header as line 1 and the empty lines, which
\* parseCSV has dropped, not at all.
RowNumber(at) == at + 1

RowOf(h) ==
  LET t == task[h]
  IN [job |-> t.id, number |-> RowNumber(t.at), status |-> RowStatus(t),
      change |-> IF t.ok THEN t.change ELSE Null, payload |-> At(h).fields]

\* RowsFailed is counted before the INSERT, ...
RowCounted(t) ==
  IF t.ok THEN t ELSE [t EXCEPT !.job.rows_failed = @ + 1]

(* Variant of Processed for mutation checks: the last record is not         *)
(* counted.                                                                 *)
ProcessedButLast(t) ==
  [RowCounted(t) EXCEPT !.at = @ + 1,
                        !.job.processed_rows = IF t.at < Len(t.job.file) THEN @ + 1 ELSE @]

\* ... ProcessedRows after it.
Processed(t) ==
  [RowCounted(t) EXCEPT !.at = @ + 1, !.job.processed_rows = @ + 1]

(* Variant of MoreRecords for mutation checks: off by one.                  *)
MoreRecordsOne(t) == t.at <= Len(t.job.file)

MoreRecords(t) == t.at < Len(t.job.file)

(* Variant of InsertRow for mutation checks: the record counts as processed *)
(* before it is inserted.                                                   *)
InsertRowCountedFirst(h) ==
  LET t == task[h]
  IN /\ step[h] = "row"
     /\ \E outcome \in Outcomes :
          /\ rows' = IF outcome = "failed" THEN rows ELSE rows \cup {RowOf(h)}
          /\ IF outcome = "done"
             THEN Proceed(h, IF MoreRecords(t) THEN "check" ELSE "finish",
                          Processed(t))
             ELSE Proceed(h, "fail", Processed(t))
     /\ UNCHANGED <<vars, jobs, answers>>

\* DestinationImportRepository.InsertRow; an error ends the import.
InsertRow(h) ==
  LET t == task[h]
  IN /\ step[h] = "row"
     /\ \E outcome \in Outcomes :
          /\ rows' = IF outcome = "failed" THEN rows ELSE rows \cup {RowOf(h)}
          /\ IF outcome = "done"
             THEN Proceed(h, IF MoreRecords(t) THEN "check" ELSE "finish",
                          Processed(t))
             ELSE Proceed(h, "fail", RowCounted(t))
     /\ UNCHANGED <<vars, jobs, answers>>

\* UpdateJob with status completed, and the answer.
CompleteJob(h) ==
  LET t   == task[h]
      row == [t.job EXCEPT !.status = "completed"]
  IN /\ step[h] = "finish"
     /\ \E outcome \in Outcomes :
          /\ IF outcome = "failed" THEN UNCHANGED jobs ELSE Put(t.id, row)
          /\ IF outcome = "done"
             THEN Leave(h) /\ answers' = [answers EXCEPT ![t.id] = t.pending]
             ELSE Proceed(h, "fail", [t EXCEPT !.job = row]) /\ UNCHANGED answers
     /\ UNCHANGED <<vars, rows>>

\* failJob, deferred by Import: its own error is dropped.
FailJob(h) ==
  LET t == task[h]
  IN /\ step[h] = "fail"
     /\ \E outcome \in Outcomes :
          IF outcome = "failed" THEN UNCHANGED jobs
                                ELSE Put(t.id, [t.job EXCEPT !.status = "failed"])
     /\ Leave(h)
     /\ UNCHANGED <<vars, rows, answers>>

(* The process dies, or the client hangs up: every statement that follows   *)
(* fails, failJob's too.  Nothing ever resumes or closes the job.           *)
Die(h) ==
  /\ MayFail
  /\ step[h] # "idle"
  /\ IF step[h] = "submit" THEN Refused(h) ELSE UNCHANGED vars
  /\ Leave(h)
  /\ UNCHANGED <<jobs, rows, answers>>

-----------------------------------------------------------------------------
(* The specification                                                        *)

ImportStep(h) ==
  \/ \E a \in Admins, sheet \in Sheets, dry \in BOOLEAN : Import(h, a, sheet, dry)
  \/ CheckRecord(h)
  \/ DraftRecord(h)
  \/ FindDraft(h)
  \/ SubmitRecord(h)
  \/ InsertRow(h)
  \/ CompleteJob(h)
  \/ FailJob(h)
  \/ Die(h)

(* The requests of the workflow that meet an import, which is what drafts    *)
(* and slugs it finds.  Drafts are created by imports only, and the other    *)
(* requests do not fail: what a request leaves undone the import cannot tell *)
(* from what it has not done yet.                                            *)
OtherStep(h) ==
  /\ AuthorStep(h) \/ ReviewerStep(h)
  /\ UNCHANGED importVars

ImportNext ==
  \/ \E h \in Importers : ImportStep(h)
  \/ \E h \in Handlers \ Importers : OtherStep(h)

ImportSpec == ImportInit /\ [][ImportNext]_allVars

\* A running import goes on: its goroutine is scheduled, and a statement comes
\* back with an answer or an error.
Running(h) ==
  \/ CheckRecord(h)
  \/ DraftRecord(h)
  \/ FindDraft(h)
  \/ SubmitRecord(h)
  \/ InsertRow(h)
  \/ CompleteJob(h)
  \/ FailJob(h)

ImportFairness == \A h \in Importers : WF_allVars(Running(h))

FairImportSpec == ImportSpec /\ ImportFairness

-----------------------------------------------------------------------------
(* Properties                                                               *)

RowsOf(j) == {r \in rows : r.job = j}

WithStatus(j, status) == {r \in RowsOf(j) : r.status = status}

(* Import is a client of the workflow like any other: each of its steps is  *)
(* a step of a workflow request or leaves the workflow alone, so whatever   *)
(* the workflow guarantees holds with imports as well.                      *)
ImplementsWorkflow == Spec

(* A completed job accounts for every record of its file, once: the rows    *)
(* are numbered without a gap, from 2 on, and the counters of the job, kept *)
(* in a local variable of Import, are the numbers of rows with each outcome *)
(* (rowNumber := idx + 2; the design document counts from 1).               *)
CompletedAccounts ==
  \A j \in JobIds : jobs[j] # Null /\ jobs[j].status = "completed" =>
    /\ {r.number : r \in RowsOf(j)} = 2 .. Len(jobs[j].file) + 1
    /\ Cardinality(RowsOf(j)) = Len(jobs[j].file)
    /\ jobs[j].processed_rows = Len(jobs[j].file)
    /\ jobs[j].rows_failed = Cardinality(WithStatus(j, "failed"))
    /\ jobs[j].changes_created = Cardinality(WithStatus(j, "pending_review"))

(* The partial counters of a failed job are off by at most the record that  *)
(* was being inserted: Import counts a failure and a change before the row  *)
(* is there, and the row itself after.                                      *)
FailedCountersClose ==
  \A j \in JobIds : jobs[j] # Null /\ jobs[j].status = "failed" =>
    /\ {r.number : r \in RowsOf(j)} = 2 .. Cardinality(RowsOf(j)) + 1
    /\ Cardinality(RowsOf(j)) - jobs[j].processed_rows \in {0, 1}
    /\ jobs[j].rows_failed - Cardinality(WithStatus(j, "failed")) \in {0, 1}
    /\ jobs[j].changes_created - Cardinality(WithStatus(j, "pending_review")) \in {0, 1}

(* A job does not stay in processing: its import completes it or fails it,  *)
(* and one whose process is killed in the middle moves to failed in the end *)
(* (SIT-012 of Destination-Bulk-Import-SIT.md; the deferred failJob is all  *)
(* the code has for it).                                                    *)
JobsAreClosed ==
  \A j \in JobIds :
    (jobs[j] # Null /\ jobs[j].status = "processing")
      ~> (jobs[j] # Null /\ jobs[j].status # "processing")

(* A row that reports a pending review names a change of the uploader that  *)
(* no other row names, and unless somebody edited the draft in between that *)
(* change has left the draft state with the fields of the record.           *)
PendingRowsAreSubmitted ==
  \A r \in rows : r.status = "pending_review" =>
    /\ r.change # Null
    /\ changes[r.change].submitted_by = jobs[r.job].uploaded_by
    /\ \A q \in rows : q.change = r.change => q = r
    /\ changes[r.change].draft_version = 1 =>
         changes[r.change].status # "draft" /\ changes[r.change].payload = r.payload

(* One file never proposes the same slug twice, nor does a dry run of it    *)
(* pass such a file: seenSlugs remembers the slugs of failed records too.   *)
SlugOncePerFile ==
  \A q, r \in rows :
    q.job = r.job /\ q # r /\ q.status # "failed" /\ r.status # "failed" =>
      q.payload.slug = Null \/ q.payload.slug # r.payload.slug

(* A dry run writes its job and its rows and nothing else: while it lasts   *)
(* no step of its handler touches the tables of the workflow.               *)
DryRunChangesNothing ==
  [][\A h \in Importers :
       task[h] # Null /\ task[h].job.dry_run /\ task'[h] # task[h] =>
         UNCHANGED tables]_allVars

\* extractPendingIDs over the rows in the order of ListRowsByJob.
ExtractPendingIDs(j) ==
  LET numbers == {r.number : r \in WithStatus(j, "pending_review")}
      Nth(i)  == CHOOSE n \in numbers : Cardinality({m \in numbers : m <= n}) = i
      limit   == IF Cardinality(numbers) < MaxPendingIDs
                 THEN Cardinality(numbers) ELSE MaxPendingIDs
  IN [i \in 1 .. limit |->
        (CHOOSE r \in WithStatus(j, "pending_review") : r.number = Nth(i)).change]

(* The pending ids Import answered with, collected while it ran, are those  *)
(* GetJob extracts from the table at any later time.                        *)
AnswerMatchesJob ==
  \A j \in JobIds : answers[j] # Null => answers[j] = ExtractPendingIDs(j)
=============================================================================
