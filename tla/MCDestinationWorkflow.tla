------------------------- MODULE MCDestinationWorkflow -------------------------
(***************************************************************************)
(* Small instances of the destination workflow for TLC: the values the     *)
(* configurations give to the constants that are not plain sets, and the   *)
(* symmetry of those that are.                                             *)
(***************************************************************************)
EXTENDS DestinationWorkflow, TLC

CONSTANTS s1, n1

\* Field sets clients send: one that sets everything and publishes, ...
Full ==
  [name |-> n1, slug |-> s1, status |-> "published", gallery |-> Null,
   hero |-> Null, hardDelete |-> FALSE, wellFormed |-> TRUE]

\* ... one that only clears the slug and says nothing else, ...
Sparse == [Full EXCEPT !.name = Null, !.slug = Blank, !.status = Null]

\* ... one that archives or may not create, one that asks for a hard delete,
\* and one that fails the format checks.
Archiving == [Full EXCEPT !.status = "archived", !.slug = Null]
Hard      == [Sparse EXCEPT !.slug = Null, !.hardDelete = TRUE]
Malformed == [Full EXCEPT !.wellFormed = FALSE]

FewInputs == {Full, Sparse}
\* Two field sets that reach every statement: an action looks at its own fields
\* alone, so the sparse one may ask for a hard delete as well.
SparseHard    == [Sparse EXCEPT !.hardDelete = TRUE]
MixedInputs   == {Full, SparseHard}
AllInputs == {Full, Sparse, Archiving, Hard, Malformed}

(* Bound of the run workflow: a second change only where nobody edits.  One *)
(* change meets edited drafts and uploads, with two handlers and failures;  *)
(* two changes meet each other's approvals on drafts as they were created.  *)
SecondChangeUnedited ==
  (\A c \in ChangeIds : changes[c] # Null) =>
    /\ bucket = {}
    /\ \A c \in ChangeIds : changes[c].draft_version = 1
    /\ \A h \in Handlers : pc[h] # "form"

Symmetry == Permutations(Admins) \cup Permutations(Handlers) \cup Permutations(ChangeIds)
=============================================================================
