-------------------------- MODULE MCDestinationImport --------------------------
(***************************************************************************)
(* A small instance of the import for TLC.                                 *)
(***************************************************************************)
EXTENDS DestinationImport, TLC

CONSTANTS s1, n1, i1

\* A line with everything, one without a slug, one without an image, one
\* that cannot be read, and an empty one.
Good ==
  [name |-> n1, slug |-> s1, status |-> Blank, gallery |-> <<Blank, i1>>,
   hero |-> i1, rest |-> "good"]
Slugless   == [Good EXCEPT !.slug = Blank]
Heroless   == [Good EXCEPT !.hero = Blank]
Unreadable == [Good EXCEPT !.status = "other"]
Empty ==
  [c \in Columns |-> IF c = "gallery" THEN <<>> ELSE Blank]

Sheet(columns, records) == [columns |-> columns, records |-> records]

\* The last two are refused: a required column is missing, a line too many.
SomeSheets ==
  {Sheet(Columns, <<Good, Empty, Good>>), Sheet(Columns, <<Slugless, Good>>),
   Sheet(Columns \ {"gallery"}, <<Heroless>>), Sheet(Columns, <<Unreadable>>),
   Sheet({"name", "hero"}, <<Good>>), Sheet(Columns, <<Good, Slugless, Good>>)}

SomeInputs == {BuildChangeFields(Good).fields, BuildChangeFields(Slugless).fields}

Symmetry == Permutations(Admins) \cup Permutations(ChangeIds) \cup Permutations(JobIds)
=============================================================================
