--------------------------------- MODULE MCAuth ---------------------------------
(***************************************************************************)
(* Small instances of accounts, sessions and password resets for TLC.      *)
(* The kinds of request that meet in the same rows are served together:    *)
(* accounts with profiles and deletion, sessions with passwords, and       *)
(* resets with passwords.                                                  *)
(***************************************************************************)
EXTENDS Auth, TLC

AccountKinds == {"register", "google", "profile"}
RemovalKinds == {"register", "google", "delete", "grant"}
SessionKinds == {"login", "logout", "profile", "change", "delete", "tick"}
ResetKinds   == {"login", "request", "confirm", "change", "delete", "tick"}

AllWorkloads   == {AccountKinds, RemovalKinds, SessionKinds, ResetKinds}
ResetWorkloads == {{"request", "confirm"}}

Symmetry ==
  Permutations(Users) \cup Permutations(Handlers) \cup Permutations(Passwords)
=============================================================================
