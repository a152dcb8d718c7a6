---------------------------------- MODULE Auth ----------------------------------
(***************************************************************************)
(* AuthService (internal/service/auth_service.go) behind the handlers of   *)
(* auth_handler.go: registration, logins, logout, profiles, deletion,      *)
(* password changes and password resets.  Requests are served              *)
(* concurrently, statement by statement: an action is a statement and the  *)
(* local code up to the next one, and a handler acts on what it read while *)
(* other requests change it.  The clock counts seconds, the resolution of  *)
(* a token's claims; expiry compares it with what a row holds.             *)
(*                                                                         *)
(* A request refused by a check changes nothing and is not a step.  A      *)
(* deletion refused by a foreign key of another table is one of them.      *)
(***************************************************************************)
EXTENDS AuthTables

CONSTANTS
  Handlers,     \* requests in flight at the same time
  Workloads,    \* the kinds of request served together
  MayFail,      \* whether a statement may fail or a handler die
  SessionTTL,   \* JWT_TTL
  ResetTTL,     \* PASSWORD_RESET_TTL
  MaxTime,      \* bound on the clock
  MaxSessions   \* bound on the sessions a login finds in the table

Kinds == {"register", "login", "google", "logout", "profile", "change",
          "request", "confirm", "delete", "grant", "tick"}

ASSUME AuthAssumption ==
  /\ Workloads \subseteq SUBSET Kinds
  /\ MayFail \in BOOLEAN
  /\ SessionTTL \in Nat
  /\ ResetTTL \in Nat
  /\ MaxTime \in Nat
  /\ MaxSessions \in Nat
  /\ Null \notin Token \cup AccountRow \cup CodeRow \cup ImageKinds

VARIABLES
  serving,  \* the workload of this behaviour
  now,      \* the clock
  issued,   \* the last id password_reset gave out
  mailed,   \* codes that reached a mailbox
  deleted,  \* history: accounts that were deleted
  closed,   \* history: tokens whose logout was answered
  spent,    \* history: codes a password was set with
  dead,     \* history: codes that existed when a reset of their owner succeeded
  pc,       \* what each handler does next
  req       \* what it holds

tables  == <<accounts, roles, sessions, codes>>
history == <<serving, issued, mailed, deleted, closed, spent, dead>>
vars    == <<accounts, roles, sessions, codes, serving, now, issued, mailed,
             deleted, closed, spent, dead, pc, req>>

Steps == {"idle", "role", "reload", "upsert", "image", "session", "close", "verify",
          "password", "consume", "void", "profile", "delete", "issue", "mail", "unissue"}

(***************************************************************************)
(* What a handler holds: the caller, the claims of a Google token, the     *)
(* picture to store, the avatar it last saw, the token to store, the code  *)
(* and password at hand, and whether the caller was read as an admin.      *)
(***************************************************************************)
Request ==
  [user: Users \cup {Null}, email: Emails \cup {Null}, named: BOOLEAN,
   picture: BOOLEAN, image: ImageKinds \cup {Null}, known: ImageKinds \cup {Null},
   token: Token \cup {Null}, code: Nat, password: Passwords \cup {Null},
   admin: BOOLEAN]

NoRequest ==
  [user |-> Null, email |-> Null, named |-> FALSE, picture |-> FALSE,
   image |-> Null, known |-> Null, token |-> Null, code |-> 0,
   password |-> Null, admin |-> FALSE]

TypeOK ==
  /\ accounts \in [Users -> AccountRow \cup {Null}]
  /\ roles \in [Users -> SUBSET Roles]
  /\ sessions \subseteq SessionRow
  /\ codes \in [CodeIds -> CodeRow \cup {Null}]
  /\ serving \in Workloads
  /\ now \in Nat
  /\ issued \in 0 .. MaxCodes
  /\ mailed \subseteq CodeIds
  /\ deleted \subseteq Users
  /\ closed \subseteq Token
  /\ spent \subseteq CodeIds
  /\ dead \subseteq CodeIds
  /\ pc \in [Handlers -> Steps]
  /\ req \in [Handlers -> Request]
  /\ \A h \in Handlers :
       /\ pc[h] \in {"role", "reload", "image", "verify", "password", "consume",
                     "void", "profile", "delete", "issue", "mail", "unissue"}
            => req[h].user \in Users
       /\ pc[h] = "upsert" => req[h].email \in Emails
       /\ pc[h] \in {"session", "close"} => req[h].token \in Token
       /\ pc[h] = "password" => req[h].password \in Passwords
       /\ pc[h] \in {"consume", "mail", "unissue"} => req[h].code \in CodeIds
       /\ req[h].code \in CodeIds \cup {0}

\* Where accounts are not opened in the workload, one was opened before.
Init ==
  /\ serving \in Workloads
  /\ IF "register" \in serving
     THEN accounts = [u \in Users |-> Null] /\ roles = [u \in Users |-> {}]
     ELSE \E v \in Users, e \in Emails, p \in Passwords :
            /\ accounts = [u \in Users |-> IF u = v THEN EmailAccount(e, p) ELSE Null]
            /\ roles = [u \in Users |-> IF u = v THEN {"user"} ELSE {}]
  /\ sessions = {}
  /\ codes = [c \in CodeIds |-> Null]
  /\ now = 0
  /\ issued = 0
  /\ mailed = {}
  /\ deleted = {}
  /\ closed = {}
  /\ spent = {}
  /\ dead = {}
  /\ pc = [h \in Handlers |-> "idle"]
  /\ req = [h \in Handlers |-> NoRequest]

-----------------------------------------------------------------------------
(* Helpers                                                                  *)

\* Handler h goes on to step s holding r.
Continue(h, s, r) ==
  /\ pc' = [pc EXCEPT ![h] = s]
  /\ req' = [req EXCEPT ![h] = r]

\* Handler h answers its caller.
Done(h) == Continue(h, "idle", NoRequest)

\* The handler's statement failed, or found nothing: it answers with an error.
Refused(h) ==
  /\ Done(h)
  /\ UNCHANGED <<tables, now, history>>

Starting(h, kind) ==
  /\ pc[h] = "idle"
  /\ kind \in serving

\* JWTManager.Generate, called by issueSession.
TokenFor(u, row) ==
  [user |-> u, username |-> row.username, completed |-> row.completed, issued |-> now]

\* An id user_account never gave out.
FreshUser(u) == accounts[u] = Null /\ u \notin deleted

-----------------------------------------------------------------------------
(* Registration and logins                                                  *)

\* RegisterWithEmail up to the INSERT, which fails when the address is taken.
RegisterWithEmail(h, e, p) ==
  /\ Starting(h, "register")
  /\ Cardinality(sessions) < MaxSessions
  /\ EmailFree(e)
  /\ \E u \in Users :
       /\ FreshUser(u)
       /\ accounts' = [accounts EXCEPT ![u] = EmailAccount(e, p)]
       /\ Continue(h, "role", [NoRequest EXCEPT !.user = u])
  /\ UNCHANGED <<roles, sessions, codes, now, history>>

LoginWithEmail(h, e, p) ==
  /\ Starting(h, "login")
  /\ Cardinality(sessions) < MaxSessions
  /\ \E u \in Users :
       /\ accounts[u] # Null
       /\ accounts[u].email = e
       /\ accounts[u].password = p
       /\ Continue(h, "session", [NoRequest EXCEPT !.token = TokenFor(u, accounts[u])])
  /\ UNCHANGED <<tables, now, history>>

(* Variant of LoginWithGoogle for mutation checks: an avatar the user       *)
(* uploaded is not looked at.                                               *)
LoginWithGoogleOverwrites(h, e, named, picture) ==
  /\ Starting(h, "google")
  /\ Cardinality(sessions) < MaxSessions
  /\ LET mine  == {u \in Users : accounts[u] # Null /\ accounts[u].email = e}
         known == IF mine = {} THEN Null ELSE accounts[CHOOSE u \in mine : TRUE].image
     IN Continue(h, "upsert",
          [NoRequest EXCEPT !.email = e, !.named = named, !.picture = picture,
                            !.known = known, !.image = IF picture THEN "google" ELSE Null])
  /\ UNCHANGED <<tables, now, history>>

(* LoginWithGoogle up to the upsert: the account, when there is one, is     *)
(* read to decide whether the picture may replace its avatar.               *)
LoginWithGoogle(h, e, named, picture) ==
  /\ Starting(h, "google")
  /\ Cardinality(sessions) < MaxSessions
  /\ LET mine  == {u \in Users : accounts[u] # Null /\ accounts[u].email = e}
         known == IF mine = {} THEN Null ELSE accounts[CHOOSE u \in mine : TRUE].image
         keep  == known = "custom" \/ \E u \in mine : accounts[u].completed
     IN Continue(h, "upsert",
          [NoRequest EXCEPT !.email = e, !.named = named, !.picture = picture,
                            !.known = known,
                            !.image = IF picture /\ ~ keep THEN "google" ELSE Null])
  /\ UNCHANGED <<tables, now, history>>

UpsertGoogleUser(h) ==
  /\ pc[h] = "upsert"
  /\ \E u \in Users :
       /\ IF EmailFree(req[h].email)
          THEN /\ FreshUser(u)
               /\ accounts' = [accounts EXCEPT ![u] =
                    GoogleAccount(req[h].email, req[h].named, req[h].image)]
          ELSE /\ accounts[u] # Null
               /\ accounts[u].email = req[h].email
               /\ accounts' = [accounts EXCEPT ![u] =
                    GoogleUpdated(@, req[h].named, req[h].image)]
       /\ Continue(h, "role", [req[h] EXCEPT !.user = u])
  /\ UNCHANGED <<roles, sessions, codes, now, history>>

\* user_role refers to user_account.
AssignUserRole(h) ==
  /\ pc[h] = "role"
  /\ IF accounts[req[h].user] = Null
     THEN Refused(h)
     ELSE /\ roles' = [roles EXCEPT ![req[h].user] = @ \cup {"user"}]
          /\ Continue(h, "reload", req[h])
          /\ UNCHANGED <<accounts, sessions, codes, now, history>>

(* FindByID and what follows it: a Google picture is copied to the bucket   *)
(* unless the avatar it found is the user's own or a copy already, and the  *)
(* login goes on without when the copy fails.                               *)
Reload(h) ==
  LET u   == req[h].user
      row == accounts[u]
      r   == [req[h] EXCEPT !.known = row.image]
  IN /\ pc[h] = "reload"
     /\ IF row = Null
        THEN Refused(h)
        ELSE /\ \/ /\ r.picture
                   /\ ~ row.completed
                   /\ row.image \in {Null, "google"}
                   /\ Continue(h, "image", r)
                \/ Continue(h, "session", [r EXCEPT !.token = TokenFor(u, row)])
             /\ UNCHANGED <<tables, now, history>>

\* UpdateProfile with the copy, and with the profile_completed read before.
StoreGoogleImage(h) ==
  LET u   == req[h].user
      row == ProfileUpdated(accounts[u], FALSE, Null, "cached", FALSE)
  IN /\ pc[h] = "image"
     /\ IF accounts[u] = Null
        THEN Refused(h)
        ELSE /\ accounts' = [accounts EXCEPT ![u] = row]
             /\ Continue(h, "session", [req[h] EXCEPT !.token = TokenFor(u, row)])
             /\ UNCHANGED <<roles, sessions, codes, now, history>>

(* Variant of CreateSession for mutation checks: sessions.user_id does not  *)
(* refer to user_account.                                                   *)
CreateSessionUnreferenced(h) ==
  LET t == req[h].token
  IN /\ pc[h] = "session"
     /\ IF \A s \in sessions : s.token # t
        THEN /\ sessions' = sessions \cup
                  {[token |-> t, expires |-> t.issued + SessionTTL, active |-> TRUE]}
             /\ Done(h)
             /\ UNCHANGED <<accounts, roles, codes, now, history>>
        ELSE Refused(h)

CreateSession(h) ==
  LET t == req[h].token
  IN /\ pc[h] = "session"
     /\ IF SessionInsertable(t)
        THEN /\ sessions' = sessions \cup
                  {[token |-> t, expires |-> t.issued + SessionTTL, active |-> TRUE]}
             /\ Done(h)
             /\ UNCHANGED <<accounts, roles, codes, now, history>>
        ELSE Refused(h)

-----------------------------------------------------------------------------
(* Requests of a signed-in user                                             *)

(* The middleware: Authenticate finds the session and then the user, whose  *)
(* roles are kept for the check of an admin.  A session and its account are *)
(* removed together, so finding one is finding both.                        *)
Authenticate(h, s, step) ==
  /\ ActiveSession(s, now)
  /\ Continue(h, step,
       [NoRequest EXCEPT !.user = s.token.user, !.token = s.token,
                         !.admin = "admin" \in roles[s.token.user]])
  /\ UNCHANGED <<tables, now, history>>

Enter(h) ==
  \E s \in sessions :
    \/ Starting(h, "logout")  /\ Authenticate(h, s, "close")
    \/ Starting(h, "change")  /\ Authenticate(h, s, "verify")
    \/ Starting(h, "profile") /\ Authenticate(h, s, "profile")
    \/ Starting(h, "delete")  /\ Authenticate(h, s, "delete")

(* Variant of Logout for mutation checks: the session's row is deleted.     *)
LogoutDeletes(h) ==
  LET t == req[h].token
  IN /\ pc[h] = "close"
     /\ sessions' = {s \in sessions : s.token # t}
     /\ closed' = closed \cup {t}
     /\ Done(h)
     /\ UNCHANGED <<accounts, roles, codes, now, serving, issued, mailed, deleted, spent, dead>>

Logout(h) ==
  LET t == req[h].token
  IN /\ pc[h] = "close"
     /\ sessions' = Deactivated(t, now)
     /\ closed' = closed \cup {t}
     /\ Done(h)
     /\ UNCHANGED <<accounts, roles, codes, now, serving, issued, mailed, deleted, spent, dead>>

(* ChangePassword up to the UPDATE: an account without a password takes a   *)
(* first one without proof.                                                 *)
ChangePassword(h, current, new) ==
  LET row == accounts[req[h].user]
  IN /\ pc[h] = "verify"
     /\ IF row # Null /\ row.password \in {Null, current}
        THEN /\ Continue(h, "password", [req[h] EXCEPT !.password = new])
             /\ UNCHANGED <<tables, now, history>>
        ELSE Refused(h)

(* Variant of CompleteProfile for mutation checks: one name is enough.      *)
CompleteProfileOneName(h, named, n, image) ==
  LET u   == req[h].user
      row == ProfileUpdated(accounts[u], named, n, image, named \/ n # Null)
  IN /\ pc[h] = "profile"
     /\ IF accounts[u] = Null \/ ~ UsernameFree(n, u)
        THEN Refused(h)
        ELSE /\ accounts' = [accounts EXCEPT ![u] = row]
             /\ Done(h)
             /\ UNCHANGED <<roles, sessions, codes, now, history>>

\* CompleteProfile: the upload and the one UPDATE.
CompleteProfile(h, named, n, image) ==
  LET u   == req[h].user
      row == ProfileUpdated(accounts[u], named, n, image, named /\ n # Null)
  IN /\ pc[h] = "profile"
     /\ IF accounts[u] = Null \/ ~ UsernameFree(n, u)
        THEN Refused(h)
        ELSE /\ accounts' = [accounts EXCEPT ![u] = row]
             /\ Done(h)
             /\ UNCHANGED <<roles, sessions, codes, now, history>>

(* DeleteUser, for oneself or by an admin.  The transaction locks the rows  *)
(* it deletes, and a row added meanwhile makes its last statement fail.     *)
DeleteUser(h, u) ==
  /\ pc[h] = "delete"
  /\ u = req[h].user \/ req[h].admin
  /\ IF accounts[u] = Null
     THEN Refused(h)
     ELSE /\ accounts' = [accounts EXCEPT ![u] = Null]
          /\ roles' = [roles EXCEPT ![u] = {}]
          /\ sessions' = {s \in sessions : s.token.user # u}
          /\ codes' = [c \in CodeIds |->
               IF codes[c] # Null /\ codes[c].user = u THEN Null ELSE codes[c]]
          /\ deleted' = deleted \cup {u}
          /\ Done(h)
          /\ UNCHANGED <<now, serving, issued, mailed, closed, spent, dead>>

\* External: an operator makes a user an admin in the database.
GrantAdmin(u) ==
  /\ "grant" \in serving
  /\ accounts[u] # Null
  /\ roles' = [roles EXCEPT ![u] = @ \cup {"admin"}]
  /\ UNCHANGED <<accounts, sessions, codes, now, history, pc, req>>

-----------------------------------------------------------------------------
(* Password resets                                                          *)

\* RequestPasswordReset up to and including ConsumeByUser.
RequestPasswordReset(h, u) ==
  /\ Starting(h, "request")
  /\ issued < MaxCodes
  /\ accounts[u] # Null
  /\ codes' = Voided(u)
  /\ Continue(h, "issue", [NoRequest EXCEPT !.user = u])
  /\ UNCHANGED <<accounts, roles, sessions, now, history>>

(* Variant of IssueCode for mutation checks: the row takes the last id      *)
(* again.                                                                   *)
IssueCodeSameId(h) ==
  LET c == issued
  IN /\ pc[h] = "issue"
     /\ issued < MaxCodes
     /\ IF accounts[req[h].user] = Null
        THEN Refused(h)
        ELSE /\ codes' = [codes EXCEPT ![c] =
                  [user |-> req[h].user, expires |-> now + ResetTTL, consumed |-> FALSE]]
             /\ Continue(h, "mail", [req[h] EXCEPT !.code = c])
             /\ UNCHANGED <<accounts, roles, sessions, now, history>>

\* PasswordResetRepository.Create.
IssueCode(h) ==
  LET c == issued + 1
  IN /\ pc[h] = "issue"
     /\ issued < MaxCodes
     /\ IF accounts[req[h].user] = Null
        THEN Refused(h)
        ELSE /\ codes' = [codes EXCEPT ![c] =
                  [user |-> req[h].user, expires |-> now + ResetTTL, consumed |-> FALSE]]
             /\ issued' = c
             /\ Continue(h, "mail", [req[h] EXCEPT !.code = c])
             /\ UNCHANGED <<accounts, roles, sessions, now, serving, mailed,
                            deleted, closed, spent, dead>>

\* SendPasswordReset; a mail may arrive although sending it reports an error.
SendPasswordReset(h) ==
  /\ pc[h] = "mail"
  /\ \/ mailed' = mailed \cup {req[h].code} /\ Done(h)
     \/ MayFail /\ mailed' \in {mailed, mailed \cup {req[h].code}}
                /\ Continue(h, "unissue", req[h])
  /\ UNCHANGED <<tables, now, serving, issued, deleted, closed, spent, dead>>

\* The code that could not be mailed is consumed.
Unissue(h) ==
  /\ pc[h] = "unissue"
  /\ codes' = Consumed(req[h].code)
  /\ Done(h)
  /\ UNCHANGED <<accounts, roles, sessions, now, history>>

(* ConfirmPasswordReset up to the UPDATE of the account: the code is        *)
(* compared with the newest active one of the account.                      *)
ConfirmPasswordReset(h, u, c, new) ==
  /\ Starting(h, "confirm")
  /\ c \in mailed
  /\ accounts[u] # Null
  /\ NewestActive(c, u, now)
  /\ Continue(h, "password", [NoRequest EXCEPT !.user = u, !.code = c, !.password = new])
  /\ UNCHANGED <<tables, now, history>>

(* UserRepository.UpdatePassword, for both callers: no row is no error.     *)
UpdatePassword(h) ==
  LET u == req[h].user
      c == req[h].code
  IN /\ pc[h] = "password"
     /\ accounts' = [accounts EXCEPT ![u] =
          IF @ = Null THEN Null ELSE [@ EXCEPT !.password = req[h].password]]
     /\ IF c = 0 THEN Done(h) /\ UNCHANGED spent
                 ELSE Continue(h, "consume", req[h]) /\ spent' = spent \cup {c}
     /\ UNCHANGED <<roles, sessions, codes, now, serving, issued, mailed, deleted, closed, dead>>

MarkConsumed(h) ==
  /\ pc[h] = "consume"
  /\ codes' = Consumed(req[h].code)
  /\ Continue(h, "void", req[h])
  /\ UNCHANGED <<accounts, roles, sessions, now, history>>

(* Variant of ConsumeByUser for mutation checks: a confirmation consumes    *)
(* its own code only.                                                       *)
ConsumeByUserOmitted(h) ==
  /\ pc[h] = "void"
  /\ dead' = dead \cup {c \in CodeIds : codes[c] # Null /\ codes[c].user = req[h].user}
  /\ Done(h)
  /\ UNCHANGED <<accounts, roles, sessions, codes, now, serving, issued, mailed, deleted, closed, spent>>

\* The last statement of a confirmation, which then answers with success.
ConsumeByUser(h) ==
  /\ pc[h] = "void"
  /\ codes' = Voided(req[h].user)
  /\ dead' = dead \cup {c \in CodeIds : codes[c] # Null /\ codes[c].user = req[h].user}
  /\ Done(h)
  /\ UNCHANGED <<accounts, roles, sessions, now, serving, issued, mailed, deleted, closed, spent>>

-----------------------------------------------------------------------------
(* The specification                                                        *)

\* A second passes.
Tick ==
  /\ "tick" \in serving
  /\ now < MaxTime
  /\ now' = now + 1
  /\ UNCHANGED <<tables, history, pc, req>>

\* A statement fails, the client hangs up, or the process dies.
Fail(h) ==
  /\ MayFail
  /\ pc[h] # "idle"
  /\ Refused(h)

SignIn(h) ==
  \/ \E e \in Emails, p \in Passwords : RegisterWithEmail(h, e, p)
  \/ \E e \in Emails, p \in Passwords : LoginWithEmail(h, e, p)
  \/ \E e \in Emails, named, picture \in BOOLEAN : LoginWithGoogle(h, e, named, picture)
  \/ UpsertGoogleUser(h)
  \/ AssignUserRole(h)
  \/ Reload(h)
  \/ StoreGoogleImage(h)
  \/ CreateSession(h)

AccountStep(h) ==
  \/ Enter(h)
  \/ Logout(h)
  \/ \E named \in BOOLEAN, n \in Usernames \cup {Null}, image \in {"custom", Null} :
       CompleteProfile(h, named, n, image)
  \/ \E u \in Users : DeleteUser(h, u)

PasswordStep(h) ==
  \/ \E current, new \in Passwords : ChangePassword(h, current, new)
  \/ \E u \in Users : RequestPasswordReset(h, u)
  \/ IssueCode(h)
  \/ SendPasswordReset(h)
  \/ Unissue(h)
  \/ \E u \in Users, c \in CodeIds, p \in Passwords : ConfirmPasswordReset(h, u, c, p)
  \/ UpdatePassword(h)
  \/ MarkConsumed(h)
  \/ ConsumeByUser(h)

Next ==
  \/ Tick
  \/ \E u \in Users : GrantAdmin(u)
  \/ \E h \in Handlers : SignIn(h) \/ AccountStep(h) \/ PasswordStep(h) \/ Fail(h)

Spec == Init /\ [][Next]_vars

-----------------------------------------------------------------------------
(* What holds however requests interleave and wherever handlers die         *)

(* A token that was logged out is dead for good, also when its user logs in *)
(* again within the second and is handed the very same token: Logout keeps  *)
(* the row, and the UNIQUE token refuses the new one.                       *)
LoggedOutStaysOut == \A s \in sessions : s.token \in closed => ~ s.active

(* Once ConfirmPasswordReset has answered with success, no code that        *)
(* existed by then is accepted again, also when requests that ran side by   *)
(* side had left several active: the last ConsumeByUser takes them all.     *)
SuccessVoidsCodes ==
  [][\A h \in Handlers, c \in dead :
       ~ (pc[h] = "idle" /\ pc'[h] = "password" /\ req'[h].code = c)]_vars

(* A Google login replaces an avatar the user uploaded only if it had not   *)
(* seen it yet: neither UpsertGoogleUser nor the UpdateProfile with the     *)
(* copied picture overwrites an avatar its own read of the account found.   *)
SeenAvatarIsKept ==
  [][\A u \in Users :
       accounts[u] # Null /\ accounts[u].image = "custom"
         /\ accounts'[u] # Null /\ accounts'[u].image # "custom" =>
           \E h \in Handlers : pc[h] \in {"upsert", "image"} /\ pc'[h] # pc[h]
                               /\ req[h].known # "custom"]_vars

(* A profile marked complete has both names, although the flag is written   *)
(* by CompleteProfile from its own request and by a Google login from what  *)
(* it read before.                                                          *)
CompletedHasNames ==
  \A u \in Users : accounts[u] # Null /\ accounts[u].completed =>
    accounts[u].named /\ accounts[u].username # Null

(* A deleted account stays deleted and leaves nothing behind: a login, a    *)
(* registration, a profile update or a reset in flight across the deletion  *)
(* neither brings it back nor adds a session, a role or a code to it.       *)
DeletedLeavesNothing ==
  \A u \in deleted :
    /\ accounts[u] = Null
    /\ roles[u] = {}
    /\ \A s \in sessions : s.token.user # u
    /\ \A c \in CodeIds : codes[c] # Null => codes[c].user # u

-----------------------------------------------------------------------------
(* What holds when confirmations do not overlap                             *)

(* A reset code is single-use: no password is set with a code a password    *)
(* was set with before (ConfirmPasswordReset, MarkConsumed).                *)
CodesAreSingleUse ==
  [][\A h \in Handlers :
       pc[h] = "password" /\ pc'[h] = "consume" => req[h].code \notin spent]_vars
=============================================================================
