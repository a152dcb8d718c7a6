--------------------------- MODULE DestinationTables ---------------------------
(***************************************************************************)
(* The rows of the three tables behind the destination workflow            *)
(* (migrations 0002, 0006, 0007) and what the repository's statements      *)
(* compute on them.  A statement of internal/repository/postgres commits   *)
(* on its own: the repositories hold a *sqlx.DB and never a transaction,   *)
(* so the workflow module performs one statement per step.                 *)
(*                                                                         *)
(* Data is abstracted to what the workflow distinguishes.  "name" stands   *)
(* for every text and number field that is only copied (name, city,        *)
(* country, category, description, coordinates, contact, hours); a slug is *)
(* kept apart because of its unique index, and images because uploads      *)
(* append to what they read.                                               *)
(***************************************************************************)
EXTENDS Naturals, Sequences, FiniteSets

CONSTANTS
  Admins,       \* user_account rows that pass the RequireAdmin middleware
  ChangeIds,    \* ids of destination_change_request rows
  DestIds,      \* ids of travel_destination rows
  LegacyDests,  \* destinations inserted before the workflow existed
  Names,        \* values of the copied fields
  Slugs,        \* values of the slug column
  Images,       \* object names in the image bucket
  Blank,        \* a text that is present but empty
  Null          \* SQL NULL, a nil pointer, a row that does not exist

ASSUME TablesAssumption ==
  /\ LegacyDests \subseteq DestIds
  /\ Null \notin Admins \cup ChangeIds \cup DestIds \cup Names \cup Slugs \cup Images
  /\ Blank \notin Names \cup Slugs \cup Images \cup {Null}

Actions        == {"create", "update", "delete"}
ChangeStatuses == {"draft", "pending_review", "approved", "rejected"}
DestStatuses   == {"draft", "published", "archived"}

(***************************************************************************)
(* domain.DestinationChangeFields: the payload of a change request.  A     *)
(* Null field is a nil pointer.  "wellFormed" is the verdict of the format *)
(* checks of validateFields (blank name, slug pattern, category,           *)
(* coordinates, hours, gallery entries), which read nothing but the field. *)
(***************************************************************************)
Fields ==
  [name: Names \cup {Null}, slug: Slugs \cup {Blank, Null},
   status: DestStatuses \cup {Null}, gallery: Seq(Images) \cup {Null},
   hero: Images \cup {Blank, Null}, hardDelete: BOOLEAN, wellFormed: BOOLEAN]

\* A row of destination_change_request; published_version 0 is the SQL NULL.
ChangeRow ==
  [destination_id: DestIds \cup {Null}, action: Actions, payload: Fields,
   status: ChangeStatuses, draft_version: Nat \ {0}, submitted_by: Admins,
   reviewed_by: Admins \cup {Null}, published_version: Nat]

\* A row of travel_destination; deleted is deleted_at IS NOT NULL.
DestRow ==
  [name: Names \cup {Null}, slug: Slugs \cup {Null}, status: DestStatuses,
   gallery: Seq(Images) \cup {Null}, hero: Images \cup {Null},
   version: Nat \ {0}, updated_by: Admins \cup {Null}, deleted: BOOLEAN]

\* A row of destination_version.
VersionRow ==
  [destination_id: DestIds, change_request_id: ChangeIds, version: Nat \ {0},
   snapshot: DestRow, created_by: Admins]

VARIABLES
  changes,   \* destination_change_request
  dests,     \* travel_destination
  versions   \* destination_version

-----------------------------------------------------------------------------
(* A destination that predates migration 0006: the columns the migration    *)
(* adds hold their defaults.                                                *)
LegacyRow(name) ==
  [name |-> name, slug |-> Null, status |-> "draft", gallery |-> Null,
   hero |-> Null, version |-> 1, updated_by |-> Null, deleted |-> FALSE]

\* nullString and DestinationGallery.Value: what is empty is stored as NULL.
Stored(field) == IF field \in {Blank, <<>>} THEN Null ELSE field

\* A nil field keeps the column, any other replaces it.
Merge(column, field) == IF field = Null THEN column ELSE Stored(field)

MergedStatus(column, status) == IF status = Null THEN column ELSE status

(* Variant of InsertedRow for mutation checks: the version column is left   *)
(* to count from zero.                                                      *)
InsertedRowVersionZero(fields, by) ==
  [name |-> fields.name, slug |-> Stored(fields.slug),
   status |-> MergedStatus("published", fields.status),
   gallery |-> Stored(fields.gallery), hero |-> Stored(fields.hero),
   version |-> 0, updated_by |-> by, deleted |-> FALSE]

\* The row DestinationRepository.Create inserts.
InsertedRow(fields, by) ==
  [name |-> fields.name, slug |-> Stored(fields.slug),
   status |-> MergedStatus("published", fields.status),
   gallery |-> Stored(fields.gallery), hero |-> Stored(fields.hero),
   version |-> 1, updated_by |-> by, deleted |-> FALSE]

(* Variant of UpdatedRow for mutation checks: an update that also restores  *)
(* an archived destination.                                                 *)
UpdatedRowUndeletes(row, fields, by) ==
  [name |-> Merge(row.name, fields.name), slug |-> Merge(row.slug, fields.slug),
   status |-> MergedStatus(row.status, fields.status),
   gallery |-> Merge(row.gallery, fields.gallery),
   hero |-> Merge(row.hero, fields.hero), version |-> row.version + 1,
   updated_by |-> by, deleted |-> FALSE]

\* The row DestinationRepository.Update leaves: only the fields that are set,
\* the version counted by the database, deleted_at untouched.
UpdatedRow(row, fields, by) ==
  [name |-> Merge(row.name, fields.name), slug |-> Merge(row.slug, fields.slug),
   status |-> MergedStatus(row.status, fields.status),
   gallery |-> Merge(row.gallery, fields.gallery),
   hero |-> Merge(row.hero, fields.hero), version |-> row.version + 1,
   updated_by |-> by, deleted |-> row.deleted]

(* Variant of ArchivedRow for mutation checks: the archived row keeps its   *)
(* version.                                                                 *)
ArchivedRowSameVersion(row, by) ==
  [row EXCEPT !.status = "archived", !.deleted = TRUE, !.updated_by = by]

\* The row DestinationRepository.Archive leaves.
ArchivedRow(row, by) ==
  [row EXCEPT !.status = "archived", !.deleted = TRUE, !.updated_by = by,
              !.version = @ + 1]

\* travel_destination_slug_idx: the unique index covers archived rows too.
SlugFree(slug, d) ==
  \A e \in DestIds \ {d} :
    dests[e] # Null /\ dests[e].slug # Null => dests[e].slug # Stored(slug)

\* The foreign keys of destination_change_request and destination_version.
Referenced(d) ==
  \/ \E c \in ChangeIds : changes[c] # Null /\ changes[c].destination_id = d
  \/ \E v \in versions : v.destination_id = d

\* destination_version_unique, and the foreign key to travel_destination.
VersionInsertable(d, n) ==
  /\ dests[d] # Null
  /\ ~ \E v \in versions : v.destination_id = d /\ v.version = n

\* What FindPublishedByID, ListPublished and GetPublishedBySlug serve.
Served(d) ==
  dests[d] # Null /\ dests[d].status = "published" /\ ~ dests[d].deleted
=============================================================================
