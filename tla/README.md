# Verification of the Fit City back end

TLA+ models of the Go service in `src/`, model-checked with TLC and proved with TLAPS. The
service is an HTTP server (Echo) over PostgreSQL, MinIO and Elasticsearch. What it keeps is in the
database and in the object store; between two requests a process has only the connection to
Logstash and the goroutine that rolls up view statistics. What makes it hard is one fact about
the code: with the exception of `UserRepository.Delete`, **no transaction spans two SQL
statements**. The repositories hold a `*sqlx.DB`, every statement commits on its own, and a
service method is a read, some checks in memory, and one or more writes that rely on what was
read. The models therefore take the SQL statement (or the upload, the mail, the search) as the
unit of atomicity, and let any request fail or die between two of them.

## 1. Inventory

| Component | State | Operations | What is hard | What makes it correct |
| --- | --- | --- | --- | --- |
| **Destination workflow** (`service/destination_change_service.go`, its repositories and admin handlers) | `destination_change_request`, `travel_destination`, `destination_version`, bucket | create, update, upload, submit, approve, reject | rows read before a statement and written back after others; an approval is three statements; retries; unique slug; foreign keys | dual control, no lost edit, gapless versions, faithful snapshots, approved means recorded, archived stays hidden |
| Destination catalogue (`destination_service.go`) | reads only | list, search, autocomplete, get | none beyond the predicate that selects rows | only published rows that are not deleted are served |
| Accounts and roles (`auth_service.go`, `user_repo_pg.go`, `role_repo_pg.go`) | `user_account`, `role`, `user_role` | register, e-mail and Google login, complete profile, change password, delete, admin check | a registration or a Google login in several statements; deletion beside all of them | a deleted account leaves nothing; a completed profile has its names; an uploaded avatar survives Google logins |
| Sessions (`auth_service.go`, `session_repo_pg.go`, `util/jwt.go`) | `sessions` | issue, authenticate, log out, expire | tokens with a second's resolution under a unique index | a token that was logged out authenticates nobody |
| Password reset (`auth_service.go`, `password_reset_repo_pg.go`) | `password_reset`, the password | request, confirm | requests and confirmations at the same time; mail that fails; a crash between two statements | a successful reset voids every code; a code is used once (violated) |
| Reviews (`review_service.go`) | `review`, `review_media`, bucket | create, list, delete | visible before its media; a compensation that may fail; lost answers; moderators and deleted accounts | visible means complete (violated where the compensation cannot run); one deletion wins and is remembered; what was answered stays |
| Favourites (`favorite_service.go`) | `favorite_list` | save, remove, list, count | check, insert and answer are three steps | answers to saves and removals alternate |
| Destination import (`destination_import_service.go`) | `destination_import_job`, `destination_import_row` | import, get, list | a loop of statements under one request context; lost answers; reviewers at work on the same changes; crash | counters agree with rows; pending rows are submitted; a dry run is dry; the workflow's guarantees survive; every job is closed (violated) |
| View statistics (`destination_view_stats_service.go`) | `destination_view_stats` | get, export, trending, refresh, rollup | refreshes race without a lock; one that fails half way | never too many; nested ranges; counted in the end |
| Request logging (`transport/http/logging.go`) | none | summarise a request and its bodies | several kinds of body; large ones are replaced by a preview; the view counts read what it writes | no password is logged; what counts is findable |
| Logstash writer (`logging/logstash_writer.go`) | connection, retry time, closed | write, close | one mutex for every goroutine that logs, held while dialling; a connection that breaks unnoticed | each Write returns; it reconnects; nothing after Close; nothing twice |
| HTTP transport, media processing, storage, mailer, configuration, pages | none of their own | | I/O and formatting | |

How they interact: the handlers call the services, the services call the repositories; the
workflow, the import and the reviews store objects in MinIO before the row that names them; the
import calls `CreateDraft` and `SubmitDraft` of the workflow; reviews, favourites and view
statistics ask the catalogue whether a destination is published; the deletion of an account
removes sessions, codes, reviews and favourites; every admin request passes `RequireAuth` and
`RequireAdmin`. View statistics have no counter of their own: every answered request is logged,
the Logstash writer mirrors the log, Logstash hands it to Elasticsearch, and the statistics search
there. So what `sanitizeBody` keeps of an answer decides what is counted, and what the writer
drops is never counted.

## 2. Plan

As carried out, the most important behaviour first:

1. `DestinationTables`, `DestinationWorkflow`: the core of the service.
2. `ChangeLifecycle`, the abstract specification of the workflow, proved to be implemented by it
   when requests are served one at a time and nothing fails.
3. `AuthTables`, `Auth`: accounts, sessions and resets in one module, because they meet in the
   account and its deletion.
4. `Community`: reviews and favourites, beside destinations that come and go and accounts that
   are deleted.
5. `DestinationImport`: composed with the workflow, whose `CreateDraft` and `SubmitDraft` are its
   steps. The workflow's own specification is the abstract one it is shown to implement.
6. `LogstashWriter` and `ViewStats`, composed in `ViewPipeline`: the liveness of the writer and of
   the counts. `LoggedRequests` adds `RequestLog`, what is logged of a request.
7. Proofs of each of them: of the workflow with any number of handlers and with one, of the
   accounts, of the reviews, of the import and of the pipeline with its log.

## 3. Modules

| Module | Role |
| --- | --- |
| `DestinationTables` | Rows, columns and what each SQL statement computes on them; indexes and foreign keys; the predicate of the public reads |
| `DestinationWorkflow` | Handlers, the steps of every request, the specification and its properties |
| `ChangeLifecycle` | Abstract specification: a change request is drafted, edited, submitted, approved or rejected, one atomic step each; what an edit makes of a rejected request is a parameter |
| `MCDestinationWorkflow` | Instances for TLC: field sets, symmetry |
| `DestinationWorkflow_proofs` | The inductive invariant and the theorems about the workflow |
| `ChangeLifecycle_proofs` | The theorem about the abstract specification |
| `SerialWorkflow_proofs` | The theorems about the workflow when requests are served one at a time: it implements `ChangeLifecycle` |
| `AuthTables` | Rows of accounts, roles, sessions and reset codes, and what each SQL statement computes on them |
| `Auth` | The requests of `AuthService`, statement by statement, a clock, and their properties |
| `Auth_proofs`, `MCAuth` | Invariant and theorems; the instances |
| `Community` | Reviews with their images, favourites, and what other requests do to users and destinations |
| `Community_proofs`, `MCCommunity` | Invariant and theorems; the instance |
| `DestinationImport` | CSV records, the import job and its rows, as a client of `DestinationWorkflow` (EXTENDS) |
| `DestinationImport_proofs`, `MCDestinationImport` | Refinement of the workflow, invariant and theorems; the instance |
| `ImportAccounts_proofs` | The theorems about the counters, the rows and the answer of an import |
| `RequestLog` | `sanitizeBody` and the previews, as operators on the paths of a value |
| `LogstashWriter` | The writer, its mutex and its connection; its fairness and liveness |
| `ViewStats` | Searches, upserts, the rollup and the requests for statistics |
| `ViewPipeline` | `LogstashWriter` and `ViewStats` composed, for any documents |
| `ViewPipeline_proofs` | Invariants and theorems about the writer, the counts, their composition and the log |
| `LoggedRequests`, `MCViewPipeline` | `ViewPipeline` with the documents `RequestLog` makes; the instance |

### Destination workflow: state and code

| Variable | Code |
| --- | --- |
| `changes`, `dests`, `versions` | the three tables of `migrations/0006_destination_updates.sql`; an absent row is `Null` |
| `bucket` | object names `ObjectStorage.Upload` stored; a name is used once (`uuid.NewString`) |
| `pc[h]`, `req[h]`, `out[h]` | a request being served: its next statement, the `*DestinationChangeRequest` it read and will write back, the `*Destination` its statement returned |
| `publications` | history of the writes to `travel_destination`, read by no guard |

Each request takes a free handler. `UpdateDraft`, `SubmitDraft`, `Approve` and `Reject` are
entered by the action of that name, which is the `FindByID` and all the checks of the method;
the statement that follows is an action of its own:

| Request | Steps |
| --- | --- |
| `POST /destination-changes` | `CreateDraft` |
| `GET`, then `PUT /:id` | `OpenForm`, `UpdateDraft`, `SaveDraft` (or `CloseForm`) |
| `POST /:id/hero-image`, `/gallery` | `UploadHeroImage` or `UploadGalleryImages`, `SaveDraft` |
| `POST /:id/submit` | `SubmitDraft`, `MarkSubmitted` |
| `POST /:id/approve` | `Approve`, one of `ApplyCreate`, `ApplyUpdate`, `ApplyArchive`, `ApplyHardDelete`, then `RecordVersion`, `MarkApproved` |
| `POST /:id/reject` | `Reject`, `MarkRejected` |

`Fail` ends a request between two statements: an SQL error, a cancelled context or the death of
the process. There is no recovery code, so a restart is the end of the requests in flight.

### Destination workflow: abstractions

* Text and number fields that are only copied are one field, `name`; `slug` is apart because of
  its unique index, `gallery` and `hero` because uploads extend what they read.
* `validateFields` keeps the checks that depend on the action or on a missing field; those on
  the format of a field are the flag `wellFormed` of the input.
* `nullString` and an empty gallery become `NULL` (`Stored`), a nil pointer keeps the column
  (`Merge`); `UpdatedRow` is the sparse update of the repository, not an overwrite.
* `GetChange` in the handlers, then `FindByID` in the service, is one read: the handler's read
  supplies the action, a column that never changes.
* `CreateDraft` reads the destination and inserts the change in one step, which is exact because
  no destination a change names is ever removed (proved: `HardDeleteRefused`).
* A gallery request with several files stores and appends them in a loop before one UPDATE; the
  model appends one.
* Timestamps, review messages, the temporary image key and the audit table (which no code
  writes) are left out.

### Accounts, sessions and password resets

| Variable | Code |
| --- | --- |
| `accounts`, `roles` | `user_account`, `user_role` (`migrations/0001`, `0003`) |
| `sessions` | `sessions`; a token is its claims, with the second it was issued in |
| `codes` | `password_reset` (`migrations/0005`); `mailed` are the codes that reached a mailbox |
| `now` | the clock, in seconds |
| `pc[h]`, `req[h]` | a request being served: its next statement, and what it read or decided |
| `deleted`, `closed`, `spent`, `dead` | histories, read by no guard except that ids are not given out twice |

| Request | Steps |
| --- | --- |
| register | `RegisterWithEmail`, `AssignUserRole`, `Reload`, `CreateSession` |
| log in | `LoginWithEmail`, `CreateSession` |
| log in with Google | `LoginWithGoogle`, `UpsertGoogleUser`, `AssignUserRole`, `Reload`, perhaps `StoreGoogleImage`, `CreateSession` |
| log out | `Enter`, `Logout` |
| complete the profile | `Enter`, `CompleteProfile` |
| change the password | `Enter`, `ChangePassword`, `UpdatePassword` |
| delete an account | `Enter`, `DeleteUser` |
| ask for a reset | `RequestPasswordReset`, `IssueCode`, `SendPasswordReset`, and `Unissue` if that fails |
| confirm a reset | `ConfirmPasswordReset`, `UpdatePassword`, `MarkConsumed`, `ConsumeByUser` |

`Enter` is the middleware. `GrantAdmin` is external: an operator's SQL. Hashing, the drawing of
codes, signatures and the format of names and addresses are left out; an avatar is one of "google"
(a URL of Google's), "cached" (a copy of it) and "custom" (uploaded), because the code decides by
these.

### Reviews and favourites

| Request | Steps |
| --- | --- |
| create a review | `CreateReview`, `InsertReview`, `UploadImage` for each image, `InsertMedia` for each, `AnswerCreated`; after a failure `Compensate` |
| delete a review | `DeleteReview`, `MarkDeleted`, `AnswerDeleted` |
| save a favourite | `SaveFavourite`, `AddFavourite`, `AnswerSaved` |
| remove a favourite | `RemoveFavourite`, `AnswerRemoved` |
| elsewhere | `DeleteUser` (the account's transaction), `SetServed` (the workflow publishes or archives) |

A statement that commits and the answer to it are two steps, and `Fail` may come between them: the
change stays, and its caller is told nothing or an error. `InsertReview`, `UploadImage` and
`InsertMedia` may also report an error for what they did.

`used`, `answered`, `abandoned`, `deletions`, `balance` and `unheard` are histories: the ids given
out, what callers were told (`deletions[r]` lists who was answered that he deleted review `r`), and
what a lost answer was about. `wanted` in a row is the number of images its author sent, which no
column holds. Ratings, titles and texts are left out.

### Destination import

`jobs` and `rows` are the two tables; `step` and `task` are the statement an import is at and the
local variables of `Import`. Each record goes through `CheckRecord`, for a real import `DraftRecord`,
`FindDraft` and `SubmitRecord`, and `InsertRow`; then come `CompleteJob` or the deferred
`FailJob`. A statement has one of three outcomes: it commits, it fails, or it commits and its
answer is lost. `Die` is a dead process or a cancelled request, after which `failJob` fails too.
Rows are numbered `idx + 2` (`RowNumber`): the header is line 1 and lines that are empty are skipped
before they are counted.
The workflow's variables are the same as in `DestinationWorkflow`, and `OtherStep` is any edit,
submission or review of another handler.

### From a request to a view count

| Variable | Code |
| --- | --- |
| `conn`, `cooling`, `closed`, `lock` | fields of `LogstashWriter`; `broken` is a connection whose peer is gone |
| `wpc[w]`, `line[w]` | a goroutine inside `Write` |
| `link` | whether Logstash can be reached |
| `logged`, `received` | histories: writes and arrivals of each line |
| `index` | the documents in Elasticsearch |
| `stats` | `destination_view_stats` |
| `spc[r]`, `job[r]`, `answers` | the rollup goroutine and the requests for statistics, their local variables and what they answered |

`Write`, `Lock`, `EnsureConn`, `Dial` and then `SendArrives`, `SendFails` or `SendLost` are the
writer; `RollupTick`, `GetViewStats` and `ExportPopularity` start a refresh, which is `Fetch` for
each range and `Upsert` for each chunk; `Read` is the SELECT that follows; `Trending` reads only.
`ViewPipeline` adds `LogRequest` and `LogChatter`, which start a `Write`, and `Ingest`, by which
Logstash hands a line to Elasticsearch at some later time. A search counts every document since
the beginning of its range, without an end, as the query does. `ViewPipeline` knows of a request
only its `Document`, what a search selects by, and its `Subject`, the destination it was answered
with; `SubjectAssumption` says that a document is never found for another destination.
`LoggedRequests` makes both from the request's bodies with the operators of `RequestLog`
(`DocumentsAssumption`). A JSON value is the function from the paths of its leaves to their
texts: what the code computes by recursion on maps and lists is what it does to each path, so no
definition recurses. Texts are atoms, so the length that makes `limitJSONSize` cut is a number
of nodes. The labels a preview adds beside its samples (how many entries were left out) are left
out themselves, and a sampled list keeps its place instead of moving below `_sample`.

## 4. Runs

| Run | Instance | Checks | Result |
| --- | --- | --- | --- |
| `workflow` | 2 handlers, 2 changes, 2 destinations (one older than the workflow) sharing a slug, 1 image, 2 draft versions, versions up to 3, failures | `TypeOK`, `ApprovedIsRecorded`, `NoLostEdit`, `DualControl`, `VersionsGapless`, `SnapshotsFaithful`, `ArchivedStaysHidden` | hold |
| `locked` | as `workflow` with 1 change, no failures | `LockedWhilePending` | violated |
| `once` | as `workflow` with 1 change, no failures | `PublishedOnce` | violated |
| `crash` | 1 handler, 2 changes, every kind of input, failures | `ApprovalAtomic` | violated |
| `harddelete` | as `crash`, no failures | `HardDeleteRemoves` | violated |
| `auth` | 2 handlers, 2 users, 1 address, 2 passwords, 2 codes, sessions of 2 seconds, codes of 1, failures | `TypeOK`, `LoggedOutStaysOut`, `CompletedHasNames`, `DeletedLeavesNothing`, `SuccessVoidsCodes`, `SeenAvatarIsKept` | hold |
| `reset` | 2 handlers, requests and confirmations of resets, no failures | `CodesAreSingleUse` | violated |
| `community` | 2 handlers, 2 users (one a moderator), 1 destination, 2 review ids, up to 2 images, failures | `TypeOK`, `VisibleIsComplete`, `OneDeletionWins`, `AnsweredIsKept`, `MediaAreStored`, `SavesAlternate` | hold |
| `rollback` | as `community` | `CreationIsAllOrNothing` | violated |
| `import` | 1 import beside 1 other handler, 1 job, 2 changes, 6 sheets, failures | `ImportTypeOK`, `CompletedAccounts`, `FailedCountersClose`, `PendingRowsAreSubmitted`, `SlugOncePerFile`, `AnswerMatchesJob`, `DryRunChangesNothing`, `ImplementsWorkflow` | hold |
| `killed` | 1 import of the same sheets, fair to it as long as it runs | `JobsAreClosed` | violated |
| `views` | 2 goroutines that log, 1 request for statistics, the rollup, 2 destinations, 8 kinds of request | `PipelineTypeOK`, `ClosedForGood`, `NoDuplicates`, `RangesNested`, `NeverOvercounted`, `PasswordsStayOut`, and the liveness properties `WriteReturns`, `Reconnects`, `CountedInTheEnd` | hold |

The passing runs have about 508,000 (`workflow`), 793,000 (`auth`), 2,217,000 (`community`), 181,000
(`import`) and 54,000 (`views`) distinct states.

What the violated runs of the workflow show, each against the design document
`docs/api-design/Admin-Destination-Management-High-Level-Design.md`:

* `locked`: an upload that read the draft before it was submitted saves it afterwards.
  `DestinationChangeRepository.Update` writes back the status it read and compares
  `draft_version` alone, which a submission does not move. The change under review (or already
  approved) is a draft again, with another payload; the document says "Locked for editing".
* `once`: two approvals pass the check of the status before either has acted, and both write the
  live table; the document wants the second answered with 409.
* `crash`: a failure after the first of the three statements of an approval leaves the catalogue
  changed, no version row and a pending change that can be approved once more; the document
  speaks of one transaction.
* `harddelete`: the DELETE of an approved hard delete is refused by the foreign key of the change
  request that asks for it, so the option never works.

And against `docs/api-design/Self-Service-Password-Reset-High-Level-Design.md`:

* `reset`: `ConfirmPasswordReset` reads the newest active code, sets the password and consumes the
  code in three statements, and neither UPDATE asks whether the code is still active. Two
  confirmations with one code, both past the read, both set a password. The document says "OTPs
  are single-use". What does hold, and is proved, is `SuccessVoidsCodes`.

And against other documents:

* `rollback`: `docs/api-design/Reviews-and-Ratings-Design.md` (lines 205 and 231) has the creation of a
  review in one transaction that is rolled back on failure. The code has none; it withdraws the
  review by a soft delete whose error is dropped, and which an INSERT that reports an error does
  not even reach. In the run that INSERT has committed: the author is told it failed, and everyone
  sees the review without its image. `VisibleIsComplete`, which excepts creations whose
  compensation could not run, is what the code does keep.
* `killed`: `docs/testing/Destination-Bulk-Import-SIT.md` (SIT-012, lines 142 to 151) wants a job whose
  worker is killed to become failed, with partial counters, and to be retried. The import is part
  of its request, `failJob` writes with that request's context, and nothing looks at jobs again: the
  job stays in processing. Without the death of the process and without failing statements every
  job is closed (the same property with `MayFail` false). `FailedCountersClose` speaks of the jobs
  `failJob` did close.

`ApprovalAtomic`, `PublishedOnce` and `LockedWhilePending` hold where requests are served one at a
time and nothing fails, which is proved below (section 5) instead of run: `crash` loses the first
with a failure, `once` and `locked` the others with a second handler. `once` has no failures, so
what it shows is the overlap and not the retry of an approval that failed half way; that is where
`crash` ends.

### Bounds

* Two handlers give every pairwise interleaving of requests, which is what a check on a row read
  earlier can lose against. The theorems below cover any number.
* `workflow` has two changes, and the handlers meet on one of them, on a destination or on a slug.
  The constraint `SecondChangeUnedited` keeps the second change to behaviours in which neither was
  edited: edits and uploads touch the change's own payload, so they are looked at on one change,
  with failures and two handlers on it, and approvals on two as they were drafted, submitted,
  rejected or approved.
* `MaxDraftVersion` (2) stops edits: one edit is enough to make a handler's copy stale. `MaxVersion`
  (3) stops writes to a destination: the older destination starts at 1, so two writes follow, in
  either order, with room for a repeated one.
* Two destinations: one that predates the workflow (status draft, `NULL` columns) and one to be
  created. One slug: two destinations can only compete for it. One image: a second would only
  make longer galleries. Two inputs, one that sets every field and one that clears the slug and asks
  for a hard delete, reach every statement, because an action looks at its own fields alone.
* `auth` serves the kinds of request that meet in the same rows together, as four workloads:
  accounts with profiles; accounts with deletion and admins; sessions with profiles, passwords and
  deletion; resets with logins, passwords and deletion. All of them at once would only add
  interleavings of requests that touch different columns. A second user is what an address is
  registered to after its account was deleted, and who an admin may delete. Two codes leave an
  older one active. Two seconds let a token and a code expire, and two logins fall into one.
* `community` has three workloads for the same reason (reviews and moderation, reviews and the
  deletion of accounts, favourites and the deletion of accounts). Two images let a creation fail
  between them, and two review ids let a creation follow one that was deleted or abandoned.
* `import` has sheets of one and two records: twice the same slug around an empty line, a record
  without a slug, one without an image, one that cannot be read, and two sheets refused as a
  whole (a missing column, a record too many for `MaxRows` 2). `MaxPendingIDs` 1 makes the list of
  pending ids overflow. The other handler edits, submits and reviews what the import drafts, and
  does not fail.
* `views` looks at activities that meet in the same state together, as seven workloads. Ranges
  are one tick and "all", chunks are one destination, the clock runs to 2, and one search or
  statement may fail. Connections may break and come back any number of times.
* Deadlock is not checked: ids, versions, images, codes and lines run out in a finite instance; in
  the service they do not.
* Handlers, admins, users, passwords and ids are interchangeable where no operator chooses among
  them, and are symmetry sets there. No liveness property is checked under symmetry.

### Fairness

The workflow, the accounts, the reviews and the import are specified without fairness: nobody has
to act and a request may die at any statement, so their properties are safety properties. For the
run `killed` alone, `FairImportSpec` adds weak fairness of an import that is running (`Running`: its
goroutine is scheduled, and a statement comes back with an answer or an error), so that a job which
is never closed is not one whose import simply stopped. The pipeline states:

* strong fairness of `Lock`: `sync.Mutex` hands itself to a goroutine that has waited for a
  millisecond;
* weak fairness of what a goroutine does inside `Write`: it is scheduled, and the dial has a timeout;
* strong fairness of `SendFails`: TCP does not take lines for a dead peer for ever;
* weak fairness of the end of a cool-down and of the ticks of the rollup: time passes; the
  rollup is looked at where it is enabled (`DEST_VIEW_STATS_ROLLUP_ENABLED` is off by default);
* weak fairness of a running refresh: a search has a timeout of its own, and a statement of
  PostgreSQL ends or fails;
* weak fairness of `Ingest`: Logstash and Elasticsearch process what they were handed.

Nothing is assumed of users, outages, `Close` or the clock of the model. `CountedInTheEnd` says of
a Logstash that stays reachable and a writer that stays open, with the rollup on, that each view a
search can find is counted at last and stays so; the views it excludes are those from addresses
in 10.* and those whose answer was too large to be logged whole.

## 5. Proofs

Every theorem holds for every value of the constants that satisfies the named ASSUMEs, all of
which TLC evaluates in the runs.

### The workflow

`DestinationWorkflow_proofs` proves for every number of handlers, admins, changes, destinations
and field values, with or without failures, and for every setting of the flags:

| Theorem | Statement |
| --- | --- |
| `Invariance` | `Spec => []IInv` |
| `TypeCorrect` | `Spec => []TypeOK` |
| `DualControlHolds` | `Spec => []DualControl` |
| `SnapshotsAreFaithful` | `Spec => []SnapshotsFaithful` |
| `ApprovedAreRecorded` | `Spec => []ApprovedIsRecorded` |
| `NoEditIsLost` | `Spec => NoLostEdit` |
| `ArchivedStayHidden` | `Spec => ArchivedStaysHidden` |
| `NoDestinationIsRemoved` | `Spec => [][`no row of the live table goes, its version only grows`]_vars` |
| `VersionsAreGapless` | `Spec => []VersionsGapless` |

Assumed are `TablesAssumption` and `WorkflowAssumption` only: `Null` and `Blank` are no ordinary
values, inputs are field sets, bounds are positive.

None of the invariants is inductive alone, because what a handler will write was decided on a row
that others have changed since. `IInv` adds what stays true of that stale copy:

* `HeldOK`: author, action and destination of a change are written by its INSERT alone, so the
  copy still has them. This is why a check of the author on an old row is enough (`ActorsOK`,
  hence `DualControl`).
* `BaseOK`: a draft version stands for one payload. While the row has the version a handler
  started from, it has the payload it started from, which is why comparing `draft_version` in
  the UPDATE is enough for `NoLostEdit`.
* `SavedOK`: a handler that saves a draft brings an editable status, so what it overwrites is
  no longer approved and needs no version.
* `OutOK`, `RecordedOK`: what a handler holds after its write to the live table is that write,
  and before it approves the version row is there (hence `SnapshotsFaithful` and
  `ApprovedIsRecorded`).
* `TargetsOK`, `HistoryOK`: a change that is no creation names a destination, and the history
  names existing changes; with the foreign key this shows that no DELETE succeeds
  (`HardDeleteRefused`).

`VersionsGapless` needs one more fact, that the destinations written to still exist (`LiveOK`);
the lemma `LiveStep` reduces every step to a write with the next version or none.
`NoDestinationIsRemoved` says what `harddelete` shows for every value of the constants: with hard
deletes allowed or not, `applyDelete` never removes a row. The proof of `Invariance` has
one lemma per action and, under it, a step per conjunct the action can disturb.

`ChangeLifecycle_proofs` proves `CatalogueIsApproved`: in the abstract lifecycle the catalogue
holds exactly what was approved, with the content still shown.

### One request at a time

`SerialWorkflow_proofs` proves what the design document promises of the workflow, from two
hypotheses that say when the code keeps the promise: `OneHandler` (one request is in flight at a
time) and `~ MayFail` (no statement fails).

| Theorem | Hypotheses | Statement |
| --- | --- | --- |
| `SerialRequestsLock` | `OneHandler` | `Spec => LockedWhilePending` |
| `SerialRejectedStays` | `OneHandler` | `Spec => RejectedUntilResubmitted` |
| `SerialApprovalAtomic` | both | `Spec => []ApprovalAtomic` |
| `SerialPublishedOnce` | both | `Spec => []PublishedOnce` |
| `SerialLifecycle` | both | `Spec => ImplementsLifecycle` |
| `SerialCatalogue` | both | `Spec => []Lifecycle!ApprovedIsPublished` |

`ChangeLifecycle` leaves open what an edit makes of a rejected request, because the code and the design
document differ. The state diagram and the table of states of
`Admin-Destination-Management-High-Level-Design.md` (lines 183 and 194) make it a draft; `UpdateDraft`
and the uploads set the payload alone, so in the code it stays rejected until it is submitted
again. `SerialLifecycle` is about `ChangeLifecycle` with `Reworked` set to "rejected", and
`SerialRejectedStays` says that no step of the code does what the document says.

Neither hypothesis can be dropped: `locked` and `once` are counterexamples with two handlers,
`crash` is one with failures. The number of admins, changes, destinations and versions is arbitrary,
and so are the fields. The invariant adds to `IInv`, `LiveOK` and `VersionsGapless`:

* `FreshOK`: the row in the handler's hand still agrees with the table on what its checks read,
  the status and, for an approval, the payload. This is what a second handler breaks.
* `AccountedOK`: every write to the live table is of an approved change and has its version, or is
  that of the handler which is still between the statements of its approval. This is what a
  failure breaks.
* `UnrecordedOK`: the version about to be inserted is not taken (a consequence of gapless
  versions), so the INSERT succeeds and the approval is completed.

The refinement maps `CreateDraft` to `Draft`, `SaveDraft` to `Edit`, `MarkSubmitted` to `Submit`,
the write to the live table to `Approve` (from then on the change counts as approved) and
`MarkRejected` to `Reject`; every other step stutters. `SerialCatalogue` is the invariant of
`ChangeLifecycle_proofs` for the catalogue itself, with `ShownOK` (what was published of a change
is what it still shows) in place of the abstract history.

### Accounts, sessions and resets

`Auth_proofs` proves `AuthInvariance` (`Spec => []AInv`), `AuthTypeCorrect`, `LogoutIsFinal`
(`LoggedOutStaysOut`), `CompletedProfilesHaveNames`, `DeletionIsComplete`
(`DeletedLeavesNothing`), `SuccessfulResetVoidsCodes` (`SuccessVoidsCodes`) and
`UploadedAvatarIsKept` (`SeenAvatarIsKept`), for any number of users, requests and codes and any
lifetimes. `AInv` adds to the types and the properties:

* `ClosedOK`, `ClosingOK`: a token that is being or was logged out keeps its row, or its account
  is gone for good. That is why the unique token refuses a second login of the same second, which
  is what `LoggedOutStaysOut` rests on.
* `FreshCodes`, `DeadOK`: what a successful reset voided stays consumed, because nothing makes a
  code active again and ids are not given out twice.
* `AvatarOK`: a Google login has a picture in hand only where it saw no uploaded avatar.

`ApartCodesAreSingleUse` says what the counterexample `reset` needs. If no statement fails
(`~ MayFail`) and no two requests confirm one code at the same time (`CodesApart`, a
hypothesis about the behaviour that nothing in the code enforces), then `CodesAreSingleUse` holds,
with any other requests in between. A code that set a password is consumed or its request is about
to consume it (`SpentOK`), and a code at hand is not spent (`AtHandOK`). Both hypotheses are
needed: without the first the password is set and the code never consumed.

### Reviews and favourites

`Community_proofs` proves `CommunityInvariance` (`Spec => []CInv`), `CommunityTypeCorrect`,
`VisibleReviewsAreComplete`, `DeletionsExclude`, `AnsweredReviewsStay`, `MediaStayStored` and
`SavesAndRemovalsAlternate`. `CInv` adds what a request may rely on between its statements:

* `CreationOK`: a creation is the only one of its review, the row is the one it inserted, and if that
  was deleted then by a deletion somebody asked for. With it the compensation cannot take a review
  that was answered.
* `DeletedOK`: who is about to be answered that he deleted a review is the only one, nobody was
  answered before, and `deleted_by` names him. With it `OneDeletionWins` survives the answer, which is
  a later step than the UPDATE.
* `UploadedOK`, `InsertedOK`: the images counted as done are in the bucket and in the table, unless
  the account of the author took the review with it.
* `OwnersOK`, `FreshOK`: a review has its author's account, and an id not yet given out is nowhere.

`SavesAlternate` counts the handlers between a statement and its answer. `AnsweringMoved` says what a
step of one handler does to such a count, so that an INSERT or a DELETE moves the row and the count
together, and an answer the count and the balance.

### Import

`DestinationImport_proofs` proves `ImportRefinesWorkflow` (`ImportSpec => ImplementsWorkflow`, that
is, `ImportSpec => Spec` of the workflow): each step of an import is a step of a workflow request
or leaves the workflow alone. Everything proved of the workflow therefore holds beside imports;
`ImportKeepsDualControl` draws that conclusion once. It also proves `ImportInvariance`,
`ImportTypeCorrect`, `FilesProposeSlugsOnce` (`SlugOncePerFile`) and `DryRunsAreDry`
(`DryRunChangesNothing`), for any sheets and any number of imports. Next to `IInv` the invariant
says that an import waits inside the workflow only at its submission (`WaitsOK`), that no two
imports share a job (`JobsApart`), and that the slug of every good row of a job, and of the record
at hand, is in the set its import remembers (`SlugsOK`). `FilesAssumption` says that a parsed file is
a sequence of records: `SelectSeq` is built into the provers, which know nothing of it and cannot
expand it, so TLC evaluates this on the instance.

`ImportAccounts_proofs` proves what an import reports of itself: `CompletedJobsAccount`
(`CompletedAccounts`), `FailedJobsAreClose` (`FailedCountersClose`), `AnswersMatchJobs`
(`AnswerMatchesJob`) and `PendingRowsSubmitted` (`PendingRowsAreSubmitted`), in two parts:

* `CountInv` (`CountsInvariance`) is about one import. Its rows are numbered as its records were
  taken, from 2 on, and its counters and its list of ids are those of its rows, where a submitted change is
  counted and listed one statement ahead of its row (`Expected`). So a job that failed is off by one
  row at most, and a completed one by none. `Rank` states the order of the ids without a
  recursion over rows: the id of the n-th pending row is the n-th, up to `MaxPendingIDs`.
* `HandInv` (`HandsInvariance`) is about an import beside other requests. From its draft to its row
  a change is the import's own: no other import has it in hand and no row names it (`HandsApart`,
  `HandFits`). Its uploader may edit it meanwhile, which moves `draft_version`; while that is
  still 1 the payload is the record's and the change does not become a draft again.

### The way to a view count

`ViewPipeline_proofs` proves `WriterInvariance`, `ClosedStaysClosed` (`ClosedForGood`) and
`NothingArrivesTwice` (`NoDuplicates`), for any number of goroutines and lines. A Write is counted
when it begins and its line arrives when it ends, so the invariant counts the goroutines in between:
what has arrived and what is carried never exceed what was written (`Accounted`). The lemmas
`OneLess` and `OneMore` do the arithmetic of that count.

`PipelineImplementsWriter` (`PipelineSpec => WriterSpec`, fairness apart) shows that requests,
ingestion and the statistics leave the writer what it is, so `PipelineKeepsWriter` has both of its
properties in the pipeline. Two theorems are the safety core of its liveness properties:

* `NobodyIsStuck`, for `WriteReturns`: a locked mutex has a holder that is inside `Write` and on
  its way to unlock it, and whoever sends has a connection, although `Close` and the failures of
  others take connections away.
* `NothingIsDropped`, for `CountedInTheEnd`: in a behaviour in which Logstash can be reached and the
  writer is open all the time (`[]Reachable`), each write of a line is carried or has arrived, none
  is dropped. The count of `Accounted`, an inequality in general, is then an equation.

`PipelineTypeCorrect` is the type invariant, and from `CountInv`
(`CountInvariance`) follow `RangesAreNested` (`RangesNested`) and `ViewsAreNotOvercounted`
(`NeverOvercounted`), for any number of destinations, refreshes and requests, any ranges and any
size of the chunks. `CountInv` says:

* `Ingested`: the index has nothing that did not arrive, hence nothing that was not written.
* `JobsOK`: what a refresh has found so far is nested (`SearchOK`) and no more than what was served
  (`ServedOK`). It searches range after range while views are added, so a shorter range could only
  overtake a longer one if the longer one was searched first: the invariant keeps that what was
  found is no more than the same search would find now, which the next, longer search then finds
  too (`TotalGrows`, `WindowsNested`).
* the rows of the table, the one a request falls back to and all answers are nested.
* no row counts more than a search would match of what was logged (`OnlyMatching`); `SubjectAssumption`
  says that what it matches are views of that destination.

`RangesAssumption` is that ranges are listed shorter first, as `domain/destination_view_stats.go` does.

`RollupTakesNothingBack` is about a weakness of `UpsertBuckets`, which overwrites whatever is
there. In steps of behaviours in which nobody refreshes but the rollup (`RollupOnly`), a row never
loses a view counted of all times, nor does its `bucket_end` go back. The invariant
(`Undisturbed`) is that no row is ahead of what the running rollup has found, and what that has
found is not ahead of the index. With a request for statistics beside the rollup this is false:
one of them may search early and store late, after the other. Shorter ranges may lose views at any
time, because time passes.

### What is logged

The same module proves what `RequestLog` makes of any body (`IsBody`: JSON of any shape, the
parts of a form, a text, or bytes):

* `NoPasswordIsLogged`: if every password of a body is marked as one (`IsMarked`: below a key that
  contains "password", in a field with such a name or in a file, or in a text that contains the
  word), then none is in what `sanitizeBody` returns, whatever the limits. For JSON the point is
  that a path is cut at its first such key (`CutStaysMarked` finds it as the least of a set of
  positions), so that neither the preview of a large body nor the path it puts in front of what it
  shows brings back what was redacted. `PasswordsAreKeptOut` is `PasswordsStayOut` in the pipeline.
* `OtherTextsAreLogged`: and nothing else is held back. Every leaf of a JSON body that is logged whole,
  with no such key above it, is logged as it is. That includes the `otp` of a reset and the
  `token` and `id_token` of a login, so this theorem contradicts
  `Self-Service-Password-Reset-High-Level-Design.md` (lines 11 and 207), which rules out that an OTP is
  logged.
* `DocumentsNameTheirSubject`: what the log makes of a request satisfies `SubjectAssumption`, so in
  `LoggedRequests` that is a theorem and no longer taken for granted. A redacted, cut or sampled
  answer has another destination's id in no place where a search looks for one.
* `MatchesAreFindable` and, from it, `OnlyFindableCounted`: a search matches exactly the views from
  outside whose answer was logged whole, so the others are never counted. This bounds from above
  what `CountedInTheEnd` says is reached.

They rest on `RequestLogAssumption` (a placeholder such as "redacted" is no password),
`DocumentsAssumption` (the documents are those `RequestLog` makes), `PasswordsAssumption`
(passwords stand where the API has them) and `AnswersAssumption` (a destination is served as JSON, under keys
that do not contain "password", and its id is no placeholder).

### Only model-checked

* The liveness properties `WriteReturns`, `Reconnects`, `CountedInTheEnd`: TLAPS handles neither
  liveness under fairness nor `ENABLED`.
* `FilesAssumption`, and the other ASSUMEs: they are evaluated for the values of the instances.
  Those of the log are about the requests clients send, and whether a real client puts a password
  anywhere else is not the server's to prove.
* The violations: that `LockedWhilePending`, `PublishedOnce`, `ApprovalAtomic`,
  `HardDeleteRemoves`, `CodesAreSingleUse`, `CreationIsAllOrNothing` and `JobsAreClosed` fail is shown by a
  trace of TLC each.

## 6. Not modelled

Without a state of their own, or pure queries: searches and lists, the layout of the CSV of failed
rows and of the popularity export, the unique users and addresses of the statistics, media
processing, configuration, pages and the API description, HTTP binding and status codes (a refused
request is no step), the SMTP dialogue, hashing and signatures. Strings that are clamped before
they are stored or logged are atoms. What a reviewer saw before he approves: `Approve` takes no
version, so the code cannot compare it and no property of the rows can either.

Where code and documents differ, beyond the violated runs of section 4:

* An edited rejected change stays rejected; the design document makes it a draft
  (`Admin-Destination-Management-High-Level-Design.md:183`, `:194`; `SerialRejectedStays`).
* One-time codes and tokens are logged in clear (`transport/http/logging.go:188` looks for "password"
  alone); `Self-Service-Password-Reset-High-Level-Design.md:11` and `:207` say that OTPs are not logged
  (`OtherTextsAreLogged`; a reset confirmation with its code is one of the requests of the run `views`).
* Rows of an import are numbered from 2, with the header as line 1 and without the lines that are
  empty (`destination_import_service.go:149`); `Destination-Bulk-Import-Design.md:209` says the 1-based line
  of the file without the header. Around an empty line neither numbering is the other shifted by one.
* `LogstashWriter.Write` holds the mutex while it dials, although the comment above it
  (`logstash_writer.go:73-75`) speaks of never blocking: each logger waits for up to the dial's
  timeout.

What else reading the code for the models showed, without a property:

* An import whose submission fails leaves its draft behind and reports the record as failed.
  `existingSlugs` remembers slugs of the catalogue that `seenSlugs` keeps it from being asked for
  again. The import calls the workflow directly, so the flags that handlers check do not apply;
  it is modelled where they agree.
* `FindBySlug` ignores archived destinations and the unique index does not, so an imported change
  may be impossible to approve.
* The deferred `Close` in `main.go` does not run, because `router.Logger.Fatal` ends the process; the
  property about `Close` is about a caller that does call it.
* `UpsertBuckets` compares no `bucket_end`, so a slow refresh overwrites newer counts with older
  ones until the next one (not where the rollup refreshes alone: `RollupTakesNothingBack`);
  `CountedInTheEnd` needs the rollup for that. The checkpoint table is not used.
* The views of a destination whose answer exceeds `maxLoggedBody` are never counted: the preview
  puts the id elsewhere (`Findable` in `LoggedRequests`).
