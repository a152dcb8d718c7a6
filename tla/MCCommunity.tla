------------------------------- MODULE MCCommunity -------------------------------
(***************************************************************************)
(* A small instance of reviews and favourites for TLC.                     *)
(***************************************************************************)
EXTENDS Community, TLC

AllWorkloads == {{"review", "moderate"}, {"review", "leave"}, {"favourite", "leave"}}

Symmetry == Permutations(Handlers) \cup Permutations(ReviewIds)
=============================================================================
