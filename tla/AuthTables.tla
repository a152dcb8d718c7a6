------------------------------- MODULE AuthTables -------------------------------
(***************************************************************************)
(* The rows behind accounts, sessions and password resets (migrations      *)
(* 0001, 0003, 0005) and what the statements of user_repo_pg.go,           *)
(* session_repo_pg.go and password_reset_repo_pg.go compute on them.  As   *)
(* in the destination workflow every statement commits on its own; the     *)
(* deletion of a user is the one transaction.                              *)
(*                                                                         *)
(* Data is abstracted to what the service distinguishes.  A password is a  *)
(* value compared for equality (salt and hash belong together), a full     *)
(* name is present or not, and of an avatar only its origin matters.       *)
(***************************************************************************)
EXTENDS Naturals, FiniteSets

CONSTANTS
  Users,      \* ids of user_account rows
  Emails,     \* normalised e-mail addresses
  Usernames,  \* user names
  Passwords,  \* passwords that pass ValidatePassword
  MaxCodes,   \* bound on the rows of password_reset ever inserted
  Null        \* SQL NULL, a nil pointer, a row that does not exist

ASSUME AuthTablesAssumption ==
  /\ Null \notin Users \cup Emails \cup Usernames \cup Passwords
  /\ MaxCodes \in Nat

Roles == {"user", "admin"}

\* Where an avatar came from: a picture at Google, the copy of one in the
\* profile bucket, or a file the user uploaded.
ImageKinds == {"google", "cached", "custom"}

CodeIds == 1 .. MaxCodes

AccountRow ==
  [email: Emails, username: Usernames \cup {Null}, named: BOOLEAN,
   image: ImageKinds \cup {Null}, password: Passwords \cup {Null},
   completed: BOOLEAN]

(***************************************************************************)
(* A signed token is determined by its claims: the account, what the       *)
(* account looked like, and the second it was issued in.                   *)
(***************************************************************************)
Token == [user: Users, username: Usernames \cup {Null}, completed: BOOLEAN, issued: Nat]

SessionRow == [token: Token, expires: Nat, active: BOOLEAN]
CodeRow    == [user: Users, expires: Nat, consumed: BOOLEAN]

VARIABLES
  accounts,  \* user_account
  roles,     \* user_role
  sessions,  \* sessions
  codes      \* password_reset

-----------------------------------------------------------------------------
\* The row RegisterWithEmail inserts, and the one a first Google login does.
EmailAccount(e, p) ==
  [email |-> e, username |-> Null, named |-> FALSE, image |-> Null,
   password |-> p, completed |-> FALSE]

GoogleAccount(e, named, image) ==
  [email |-> e, username |-> Null, named |-> named, image |-> image,
   password |-> Null, completed |-> FALSE]

\* COALESCE(new, old).
Coalesce(new, old) == IF new = Null THEN old ELSE new

\* ON CONFLICT (email) DO UPDATE of UpsertGoogleUser.
GoogleUpdated(row, named, image) ==
  [row EXCEPT !.named = @ \/ named,
              !.image = IF row.completed THEN @ ELSE Coalesce(image, @)]

\* UpdateProfile: what is not given is kept, profile_completed is replaced.
ProfileUpdated(row, named, username, image, completed) ==
  [row EXCEPT !.named = @ \/ named, !.username = Coalesce(username, @),
              !.image = Coalesce(image, @), !.completed = completed]

\* user_account.email and user_account.username are UNIQUE.
EmailFree(e) == \A u \in Users : accounts[u] # Null => accounts[u].email # e

UsernameFree(n, u) ==
  \A v \in Users \ {u} : accounts[v] # Null /\ n # Null => accounts[v].username # n

\* INSERT INTO sessions: token is UNIQUE and user_id refers to user_account.
SessionInsertable(t) ==
  /\ accounts[t.user] # Null
  /\ \A s \in sessions : s.token # t

\* FindActiveSession, for a token whose own expiry Parse has checked.
ActiveSession(s, now) == s.active /\ now < s.expires

\* DeactivateSession.
Deactivated(t, now) ==
  {IF s.token = t /\ s.active THEN [s EXCEPT !.active = FALSE, !.expires = now] ELSE s :
     s \in sessions}

\* The rows ConsumeByUser leaves.
Voided(u) ==
  [c \in CodeIds |->
     IF codes[c] # Null /\ codes[c].user = u THEN [codes[c] EXCEPT !.consumed = TRUE]
                                             ELSE codes[c]]

\* MarkConsumed; a row deleted with its account is not there to be marked.
Consumed(c) ==
  [codes EXCEPT ![c] = IF @ = Null THEN Null ELSE [@ EXCEPT !.consumed = TRUE]]

\* The codes FindActiveByUser chooses from, and the newest of them.
ActiveCodes(u, now) ==
  {c \in CodeIds :
     codes[c] # Null /\ codes[c].user = u /\ ~ codes[c].consumed /\ now <= codes[c].expires}

NewestActive(c, u, now) ==
  /\ c \in ActiveCodes(u, now)
  /\ \A d \in ActiveCodes(u, now) : d <= c
=============================================================================
