------------------------------- MODULE Auth_proofs -------------------------------
(***************************************************************************)
(* Proofs about accounts, sessions and password resets, for any number of  *)
(* users, requests in flight and codes.  AInv is the inductive invariant:  *)
(* beside the properties it says what a request in the middle of its       *)
(* statements may still rely on.  At the end, when a code is single-use.   *)
(***************************************************************************)
EXTENDS Auth, TLAPS

\* Codes not yet inserted are no rows, and no reset has voided them.
FreshCodes == \A c \in CodeIds : c > issued => codes[c] = Null /\ c \notin dead

\* What a successful reset voided stays consumed or goes with its account.
DeadOK == \A c \in dead : codes[c] = Null \/ codes[c].consumed

\* A token keeps its row, or its account is gone for good.
Kept(t) == (\E s \in sessions : s.token = t) \/ t.user \in deleted

ClosedOK == \A t \in closed : Kept(t)

ClosingOK == \A h \in Handlers : pc[h] = "close" => Kept(req[h].token)

\* A Google login brings a picture only where it saw no avatar of the user's.
AvatarOK ==
  \A h \in Handlers :
    /\ pc[h] = "upsert" /\ req[h].image # Null => req[h].known # "custom"
    /\ pc[h] = "image" => req[h].known # "custom"

AInv ==
  /\ TypeOK
  /\ FreshCodes
  /\ DeadOK
  /\ ClosedOK
  /\ ClosingOK
  /\ AvatarOK
  /\ LoggedOutStaysOut
  /\ CompletedHasNames
  /\ DeletedLeavesNothing

-----------------------------------------------------------------------------
(* Rows and requests                                                        *)

\* A request that is typed for the step it is at.
Fits(s, q) ==
  /\ s \in Steps
  /\ q \in Request
  /\ s \in {"role", "reload", "image", "verify", "password", "consume",
            "void", "profile", "delete", "issue", "mail", "unissue"}
       => q.user \in Users
  /\ s = "upsert" => q.email \in Emails
  /\ s \in {"session", "close"} => q.token \in Token
  /\ s = "password" => q.password \in Passwords
  /\ s \in {"consume", "mail", "unissue"} => q.code \in CodeIds
  /\ q.code \in CodeIds \cup {0}

\* The part of the type invariant about handlers, and the part about tables.
HandlersFit ==
  /\ pc \in [Handlers -> Steps]
  /\ req \in [Handlers -> Request]
  /\ \A h \in Handlers : Fits(pc[h], req[h])

TablesTyped ==
  /\ accounts \in [Users -> AccountRow \cup {Null}]
  /\ roles \in [Users -> SUBSET Roles]
  /\ sessions \subseteq SessionRow
  /\ codes \in [CodeIds -> CodeRow \cup {Null}]
  /\ serving \in Workloads
  /\ now \in Nat
  /\ issued \in 0 .. MaxCodes
  /\ mailed \subseteq CodeIds
  /\ deleted \subseteq Users
  /\ closed \subseteq Token
  /\ spent \subseteq CodeIds
  /\ dead \subseteq CodeIds

LEMMA TypeParts == TypeOK <=> TablesTyped /\ HandlersFit
BY DEF TypeOK, TablesTyped, HandlersFit, Fits

LEMMA TypePartsNext == TypeOK' <=> TablesTyped' /\ HandlersFit'
BY DEF TypeOK, TablesTyped, HandlersFit, Fits

\* A request that goes on is the only one that moves.
LEMMA ContinueStep ==
  ASSUME HandlersFit, NEW h \in Handlers, NEW s, NEW q, Fits(s, q), Continue(h, s, q)
  PROVE  /\ HandlersFit'
         /\ pc'[h] = s /\ req'[h] = q
         /\ \A g \in Handlers \ {h} : pc'[g] = pc[g] /\ req'[g] = req[g]
<1>1. /\ pc'[h] = s /\ req'[h] = q
      /\ \A g \in Handlers \ {h} : pc'[g] = pc[g] /\ req'[g] = req[g]
      /\ pc' \in [Handlers -> Steps] /\ req' \in [Handlers -> Request]
  BY DEF HandlersFit, Continue, Fits
<1>2. \A g \in Handlers : Fits(pc'[g], req'[g])
  BY <1>1 DEF HandlersFit
<1>3. (\A g \in Handlers : Fits(pc[g], req[g]))'
  BY <1>2 DEF Fits
<1> QED  BY <1>1, <1>3 DEF HandlersFit

LEMMA EmptyRequest == NoRequest \in Request /\ Fits("idle", NoRequest)
BY DEF NoRequest, Request, Fits, Steps

\* What the typing of a row gives.
LEMMA RowsTyped ==
  ASSUME AInv
  PROVE  /\ TablesTyped /\ HandlersFit
         /\ \A u \in Users : accounts[u] # Null => accounts[u] \in AccountRow
         /\ \A c \in CodeIds : codes[c] # Null => codes[c] \in CodeRow
         /\ \A s \in sessions : s \in SessionRow /\ s.token \in Token /\ s.token.user \in Users
         /\ \A h \in Handlers : req[h] \in Request /\ Fits(pc[h], req[h])
<1>1. TablesTyped /\ HandlersFit
  BY TypeParts DEF AInv
<1> QED  BY <1>1 DEF TablesTyped, HandlersFit, SessionRow, Token

\* The token of an account.
LEMMA TokenTyped ==
  ASSUME NEW u \in Users, NEW row \in AccountRow, now \in Nat
  PROVE  TokenFor(u, row) \in Token
BY DEF TokenFor, AccountRow, Token

\* What the statements that change an account make of its row.
LEMMA GoogleUpdatedRow ==
  ASSUME NEW row \in AccountRow, NEW named \in BOOLEAN, NEW image \in ImageKinds \cup {Null}
  PROVE  /\ GoogleUpdated(row, named, image) \in AccountRow
         /\ GoogleUpdated(row, named, image).completed = row.completed
         /\ row.named => GoogleUpdated(row, named, image).named
         /\ GoogleUpdated(row, named, image).username = row.username
<1> DEFINE kept == IF row.completed THEN row.image ELSE Coalesce(image, row.image)
           name == row.named \/ named
<1>1. kept \in ImageKinds \cup {Null}
  BY DEF Coalesce, AccountRow
<1>2. name \in BOOLEAN
  BY DEF AccountRow
<1>3. GoogleUpdated(row, named, image) = [row EXCEPT !.named = name, !.image = kept]
  BY DEF GoogleUpdated
<1>4. row.named => name = TRUE
  OBVIOUS
<1> HIDE DEF kept, name
<1>5. [row EXCEPT !.named = name, !.image = kept] \in AccountRow
  BY <1>1, <1>2 DEF AccountRow
<1> QED  BY <1>3, <1>4, <1>5 DEF AccountRow

LEMMA ProfileUpdatedRow ==
  ASSUME NEW row \in AccountRow, NEW named \in BOOLEAN, NEW n \in Usernames \cup {Null},
         NEW image \in ImageKinds \cup {Null}, NEW completed \in BOOLEAN,
         completed => named /\ n # Null
  PROVE  /\ ProfileUpdated(row, named, n, image, completed) \in AccountRow
         /\ ProfileUpdated(row, named, n, image, completed).completed =>
              /\ ProfileUpdated(row, named, n, image, completed).named
              /\ ProfileUpdated(row, named, n, image, completed).username # Null
<1> DEFINE kept == Coalesce(image, row.image)
           user == Coalesce(n, row.username)
           name == row.named \/ named
<1>1. kept \in ImageKinds \cup {Null} /\ user \in Usernames \cup {Null}
  BY DEF Coalesce, AccountRow
<1>2. name \in BOOLEAN
  BY DEF AccountRow
<1>3. ProfileUpdated(row, named, n, image, completed) =
        [row EXCEPT !.named = name, !.username = user, !.image = kept,
                    !.completed = completed]
  BY DEF ProfileUpdated
<1>4. completed => name = TRUE /\ user # Null
  BY DEF Coalesce
<1> HIDE DEF kept, name, user
<1>5. [row EXCEPT !.named = name, !.username = user, !.image = kept,
                  !.completed = completed] \in AccountRow
  BY <1>1, <1>2 DEF AccountRow
<1> QED  BY <1>3, <1>4, <1>5 DEF AccountRow

-----------------------------------------------------------------------------
(* What the steps have in common                                            *)

\* A step that moves one request and writes no table.
LEMMA QuietStep ==
  ASSUME AInv, UNCHANGED <<tables, now, history>>, NEW h \in Handlers,
         NEW s, NEW q, Fits(s, q), Continue(h, s, q),
         s = "close" => Kept(q.token),
         s = "upsert" /\ q.image # Null => q.known # "custom",
         s = "image" => q.known # "custom"
  PROVE  AInv'
<1> USE DEF tables, history
<1>1. /\ HandlersFit'
      /\ pc'[h] = s /\ req'[h] = q
      /\ \A g \in Handlers \ {h} : pc'[g] = pc[g] /\ req'[g] = req[g]
  BY RowsTyped, ContinueStep
<1>2. TypeOK'
  BY <1>1, RowsTyped, TypePartsNext DEF TablesTyped
<1>3. \A t : Kept(t) => (\E x \in sessions' : x.token = t) \/ t.user \in deleted'
  BY DEF Kept
<1>4. ClosedOK' /\ ClosingOK'
  BY <1>1, <1>3 DEF AInv, ClosedOK, ClosingOK, Kept
<1>5. AvatarOK'
  BY <1>1 DEF AInv, AvatarOK
<1>6. FreshCodes' /\ DeadOK' /\ LoggedOutStaysOut' /\ CompletedHasNames' /\ DeletedLeavesNothing'
  BY DEF AInv, FreshCodes, DeadOK, LoggedOutStaysOut, CompletedHasNames, DeletedLeavesNothing
<1> QED  BY <1>2, <1>4, <1>5, <1>6 DEF AInv

\* A refusal is such a step.
LEMMA RefusedStep ==
  ASSUME AInv, NEW h \in Handlers, Refused(h)
  PROVE  AInv'
<1>1. "idle" # "close" /\ "idle" # "upsert" /\ "idle" # "image"
  OBVIOUS
<1> QED  BY <1>1, QuietStep, EmptyRequest DEF Refused, Done

\* A step that writes one account: a deleted one stays deleted, and a profile
\* marked complete has its names.
LEMMA AccountStep0 ==
  ASSUME AInv, NEW h \in Handlers, NEW u \in Users, NEW row \in AccountRow \cup {Null},
         row # Null => u \notin deleted,
         row # Null /\ row.completed => row.named /\ row.username # Null,
         accounts' = [accounts EXCEPT ![u] = row],
         NEW s, NEW q, Fits(s, q), Continue(h, s, q), s \notin {"close", "upsert", "image"},
         UNCHANGED <<roles, sessions, codes, now, serving, issued, mailed, deleted, closed, dead>>,
         spent' \subseteq CodeIds
  PROVE  AInv'
<1>1. /\ HandlersFit'
      /\ pc'[h] = s /\ req'[h] = q
      /\ \A g \in Handlers \ {h} : pc'[g] = pc[g] /\ req'[g] = req[g]
  BY RowsTyped, ContinueStep
<1>2. /\ accounts' \in [Users -> AccountRow \cup {Null}]
      /\ accounts'[u] = row
      /\ \A v \in Users \ {u} : accounts'[v] = accounts[v]
  BY RowsTyped DEF TablesTyped
<1>3. TypeOK'
  BY <1>1, <1>2, RowsTyped, TypePartsNext DEF TablesTyped
<1>4. ClosedOK' /\ ClosingOK' /\ AvatarOK'
  BY <1>1 DEF AInv, ClosedOK, ClosingOK, Kept, AvatarOK
<1>5. FreshCodes' /\ DeadOK' /\ LoggedOutStaysOut'
  BY DEF AInv, FreshCodes, DeadOK, LoggedOutStaysOut
<1>6. CompletedHasNames'
  BY <1>2 DEF AInv, CompletedHasNames
<1>7. DeletedLeavesNothing'
  <2>1. ASSUME NEW v \in deleted PROVE accounts'[v] = Null
    BY <1>2, RowsTyped DEF AInv, DeletedLeavesNothing, TablesTyped
  <2> QED  BY <2>1 DEF AInv, DeletedLeavesNothing
<1> QED  BY <1>3, <1>4, <1>5, <1>6, <1>7 DEF AInv

\* A step that consumes codes: none is taken back, none changes hands.
LEMMA CodesStep ==
  ASSUME AInv, NEW h \in Handlers,
         codes' \in [CodeIds -> CodeRow \cup {Null}],
         \A c \in CodeIds : codes'[c] # Null =>
           /\ codes[c] # Null
           /\ codes'[c].user = codes[c].user
           /\ codes[c].consumed => codes'[c].consumed,
         NEW D \in SUBSET CodeIds, dead' = dead \cup D,
         \A c \in D : codes[c] # Null /\ (codes'[c] = Null \/ codes'[c].consumed),
         NEW s, NEW q, Fits(s, q), Continue(h, s, q), s \notin {"close", "upsert", "image"},
         UNCHANGED <<accounts, roles, sessions, now, serving, issued, deleted, closed, spent>>,
         mailed' \subseteq CodeIds
  PROVE  AInv'
<1>1. /\ HandlersFit'
      /\ pc'[h] = s /\ req'[h] = q
      /\ \A g \in Handlers \ {h} : pc'[g] = pc[g] /\ req'[g] = req[g]
  BY RowsTyped, ContinueStep
<1>2. TypeOK'
  BY <1>1, RowsTyped, TypePartsNext DEF TablesTyped
<1>3. ClosedOK' /\ ClosingOK' /\ AvatarOK'
  BY <1>1 DEF AInv, ClosedOK, ClosingOK, Kept, AvatarOK
<1>4. FreshCodes'
  BY DEF AInv, FreshCodes
<1>5. DeadOK'
  BY RowsTyped DEF AInv, DeadOK, TablesTyped
<1>6. LoggedOutStaysOut' /\ CompletedHasNames' /\ DeletedLeavesNothing'
  BY RowsTyped DEF AInv, LoggedOutStaysOut, CompletedHasNames, DeletedLeavesNothing, TablesTyped
<1> QED  BY <1>2, <1>3, <1>4, <1>5, <1>6 DEF AInv

-----------------------------------------------------------------------------
(* Registration and logins                                                  *)

LEMMA RegisterStep ==
  ASSUME AInv, NEW h \in Handlers, NEW e \in Emails, NEW p \in Passwords,
         RegisterWithEmail(h, e, p)
  PROVE  AInv'
<1>1. PICK u \in Users :
        /\ FreshUser(u)
        /\ accounts' = [accounts EXCEPT ![u] = EmailAccount(e, p)]
        /\ Continue(h, "role", [NoRequest EXCEPT !.user = u])
  BY DEF RegisterWithEmail
<1>2. /\ EmailAccount(e, p) \in AccountRow
      /\ ~ EmailAccount(e, p).completed
  BY DEF EmailAccount, AccountRow
<1>3. Fits("role", [NoRequest EXCEPT !.user = u])
  BY EmptyRequest DEF Fits, NoRequest, Request, Steps
<1>4. u \notin deleted
  BY <1>1 DEF FreshUser
<1>5. UNCHANGED <<roles, sessions, codes, now, serving, issued, mailed, deleted, closed, dead>>
      /\ spent' \subseteq CodeIds
  BY RowsTyped DEF RegisterWithEmail, history, TablesTyped
<1> DEFINE row == EmailAccount(e, p)
           q == [NoRequest EXCEPT !.user = u]
<1> HIDE DEF row, q
<1> QED
  BY <1>1, <1>2, <1>3, <1>4, <1>5, AccountStep0 DEF row, q

LEMMA LoginStep ==
  ASSUME AInv, NEW h \in Handlers, NEW e \in Emails, NEW p \in Passwords,
         LoginWithEmail(h, e, p)
  PROVE  AInv'
<1>1. PICK u \in Users :
        /\ accounts[u] # Null
        /\ Continue(h, "session", [NoRequest EXCEPT !.token = TokenFor(u, accounts[u])])
  BY DEF LoginWithEmail
<1>2. TokenFor(u, accounts[u]) \in Token
  BY <1>1, TokenTyped, RowsTyped DEF TablesTyped
<1>3. Fits("session", [NoRequest EXCEPT !.token = TokenFor(u, accounts[u])])
  BY <1>2, EmptyRequest DEF Fits, NoRequest, Request, Steps
<1> QED
  BY <1>1, <1>3, QuietStep DEF LoginWithEmail

LEMMA GoogleStep ==
  ASSUME AInv, NEW h \in Handlers, NEW e \in Emails, NEW named \in BOOLEAN,
         NEW picture \in BOOLEAN, LoginWithGoogle(h, e, named, picture)
  PROVE  AInv'
<1> DEFINE mine  == {u \in Users : accounts[u] # Null /\ accounts[u].email = e}
           known == IF mine = {} THEN Null ELSE accounts[CHOOSE u \in mine : TRUE].image
           keep  == known = "custom" \/ \E u \in mine : accounts[u].completed
           image == IF picture /\ ~ keep THEN "google" ELSE Null
           q == [NoRequest EXCEPT !.email = e, !.named = named, !.picture = picture,
                                  !.known = known, !.image = image]
<1>1. Continue(h, "upsert", q) /\ UNCHANGED <<tables, now, history>>
  BY DEF LoginWithGoogle
<1>2. known \in ImageKinds \cup {Null}
  <2>1. mine # {} => (CHOOSE u \in mine : TRUE) \in mine
    OBVIOUS
  <2> QED  BY <2>1, RowsTyped DEF AccountRow
<1>3. image \in ImageKinds \cup {Null} /\ (image # Null => known # "custom")
  BY DEF ImageKinds
<1> HIDE DEF known, image, mine, keep
<1>4. Fits("upsert", q)
  BY <1>2, <1>3, EmptyRequest DEF Fits, NoRequest, Request, Steps
<1>5. q.image = image /\ q.known = known
  BY DEF NoRequest
<1> QED
  BY <1>1, <1>3, <1>4, <1>5, QuietStep

LEMMA UpsertStep ==
  ASSUME AInv, NEW h \in Handlers, UpsertGoogleUser(h)
  PROVE  AInv'
<1> DEFINE r == req[h]
<1>1. r \in Request /\ r.email \in Emails
  BY RowsTyped DEF UpsertGoogleUser, Fits
<1>2. PICK u \in Users, row \in AccountRow :
        /\ u \notin deleted
        /\ row.completed => row.named /\ row.username # Null
        /\ accounts' = [accounts EXCEPT ![u] = row]
        /\ Continue(h, "role", [r EXCEPT !.user = u])
  <2>1. PICK u \in Users :
          /\ IF EmailFree(r.email)
             THEN /\ FreshUser(u)
                  /\ accounts' = [accounts EXCEPT ![u] =
                       GoogleAccount(r.email, r.named, r.image)]
             ELSE /\ accounts[u] # Null
                  /\ accounts' = [accounts EXCEPT ![u] =
                       GoogleUpdated(accounts[u], r.named, r.image)]
          /\ Continue(h, "role", [r EXCEPT !.user = u])
    BY DEF UpsertGoogleUser
  <2>2. CASE EmailFree(r.email)
    <3>1. GoogleAccount(r.email, r.named, r.image) \in AccountRow
          /\ ~ GoogleAccount(r.email, r.named, r.image).completed
      BY <1>1 DEF GoogleAccount, AccountRow, Request
    <3>2. u \notin deleted
      BY <2>1, <2>2 DEF FreshUser
    <3> QED  BY <2>1, <2>2, <3>1, <3>2
  <2>3. CASE ~ EmailFree(r.email)
    <3> DEFINE row == GoogleUpdated(accounts[u], r.named, r.image)
    <3>1. accounts[u] \in AccountRow /\ u \notin deleted
      BY <2>1, <2>3, RowsTyped DEF AInv, DeletedLeavesNothing
    <3>2. r.named \in BOOLEAN /\ r.image \in ImageKinds \cup {Null}
      BY <1>1 DEF Request
    <3>3. /\ row \in AccountRow
          /\ row.completed => row.named /\ row.username # Null
      BY <2>1, <2>3, <3>1, <3>2, GoogleUpdatedRow DEF AInv, CompletedHasNames
    <3> HIDE DEF row
    <3> QED  BY <2>1, <2>3, <3>1, <3>3 DEF row
  <2> QED  BY <2>2, <2>3
<1>3. Fits("role", [r EXCEPT !.user = u])
  BY <1>1, RowsTyped DEF Fits, Request, Steps
<1>4. UNCHANGED <<roles, sessions, codes, now, serving, issued, mailed, deleted, closed, dead>>
      /\ spent' \subseteq CodeIds
  BY RowsTyped DEF UpsertGoogleUser, history, TablesTyped
<1>5. row \in AccountRow \cup {Null} /\ "role" \notin {"close", "upsert", "image"}
  OBVIOUS
<1> DEFINE q == [r EXCEPT !.user = u]
<1>6. Fits("role", q) /\ Continue(h, "role", q)
  BY <1>2, <1>3
<1> HIDE DEF q
<1> QED
  BY <1>2, <1>4, <1>5, <1>6, AccountStep0

LEMMA RoleStep ==
  ASSUME AInv, NEW h \in Handlers, AssignUserRole(h)
  PROVE  AInv'
<1>1. CASE Refused(h)
  BY <1>1, RefusedStep
<1>2. CASE ~ Refused(h)
  <2> DEFINE u == req[h].user
  <2>1. /\ pc[h] = "role" /\ accounts[u] # Null
        /\ roles' = [roles EXCEPT ![u] = @ \cup {"user"}]
        /\ Continue(h, "reload", req[h])
        /\ UNCHANGED <<accounts, sessions, codes, now, history>>
    BY <1>2 DEF AssignUserRole
  <2>2. u \in Users /\ Fits("reload", req[h])
    BY <2>1, RowsTyped DEF Fits, Steps
  <2>3. /\ HandlersFit'
        /\ pc'[h] = "reload" /\ req'[h] = req[h]
        /\ \A g \in Handlers \ {h} : pc'[g] = pc[g] /\ req'[g] = req[g]
    BY <2>1, <2>2, RowsTyped, ContinueStep
  <2>4. roles' \in [Users -> SUBSET Roles] /\ \A v \in Users \ {u} : roles'[v] = roles[v]
    BY <2>1, <2>2, RowsTyped DEF TablesTyped, Roles
  <2>5. TypeOK'
    BY <2>1, <2>3, <2>4, RowsTyped, TypePartsNext DEF TablesTyped, history
  <2>6. DeletedLeavesNothing'
    BY <2>1, <2>2, <2>4, RowsTyped DEF AInv, DeletedLeavesNothing, TablesTyped, history
  <2> QED
    BY <2>1, <2>3, <2>5, <2>6
    DEF AInv, history, ClosedOK, ClosingOK, Kept, AvatarOK, FreshCodes, DeadOK,
        LoggedOutStaysOut, CompletedHasNames
<1> QED  BY <1>1, <1>2

LEMMA ReloadStep ==
  ASSUME AInv, NEW h \in Handlers, Reload(h)
  PROVE  AInv'
<1> DEFINE u   == req[h].user
           row == accounts[u]
           r   == [req[h] EXCEPT !.known = row.image]
           t   == TokenFor(u, row)
<1>1. CASE Refused(h)
  BY <1>1, RefusedStep
<1>2. CASE ~ Refused(h)
  <2>1. /\ pc[h] = "reload" /\ row # Null
        /\ UNCHANGED <<tables, now, history>>
        /\ \/ row.image \in {Null, "google"} /\ Continue(h, "image", r)
           \/ Continue(h, "session", [r EXCEPT !.token = t])
    BY <1>2 DEF Reload
  <2>2. u \in Users /\ req[h] \in Request /\ Fits("reload", req[h])
    BY <2>1, RowsTyped DEF Fits
  <2>3. row \in AccountRow /\ t \in Token
    BY <2>1, <2>2, RowsTyped, TokenTyped DEF TablesTyped
  <2>4. /\ r \in Request /\ r.user = u /\ r.code = req[h].code /\ r.known = row.image
        /\ Fits("image", r)
    BY <2>2, <2>3 DEF Fits, Request, AccountRow, Steps
  <2>5. Fits("session", [r EXCEPT !.token = t])
    BY <2>3, <2>4 DEF Fits, Request, Steps
  <2>6. row.image \in {Null, "google"} => r.known # "custom"
    BY <2>4, AuthAssumption DEF ImageKinds
  <2> HIDE DEF r, t, row, u
  <2>7. CASE row.image \in {Null, "google"} /\ Continue(h, "image", r)
    <3>1. "image" # "close" /\ "image" # "upsert"
      OBVIOUS
    <3> QED  BY <2>1, <2>4, <2>6, <2>7, <3>1, QuietStep
  <2>8. CASE Continue(h, "session", [r EXCEPT !.token = t])
    <3>1. "session" # "close" /\ "session" # "upsert" /\ "session" # "image"
      OBVIOUS
    <3> QED  BY <2>1, <2>5, <2>8, <3>1, QuietStep
  <2> QED  BY <2>1, <2>7, <2>8
<1> QED  BY <1>1, <1>2

LEMMA StoreImageStep ==
  ASSUME AInv, NEW h \in Handlers, StoreGoogleImage(h)
  PROVE  AInv'
<1> DEFINE u   == req[h].user
           row == ProfileUpdated(accounts[u], FALSE, Null, "cached", FALSE)
           q   == [req[h] EXCEPT !.token = TokenFor(u, row)]
<1>1. CASE Refused(h)
  BY <1>1, RefusedStep
<1>2. CASE ~ Refused(h)
  <2>1. /\ pc[h] = "image" /\ accounts[u] # Null
        /\ accounts' = [accounts EXCEPT ![u] = row]
        /\ Continue(h, "session", q)
        /\ UNCHANGED <<roles, sessions, codes, now, history>>
    BY <1>2 DEF StoreGoogleImage
  <2>2. u \in Users /\ req[h] \in Request /\ Fits("image", req[h])
    BY <2>1, RowsTyped DEF Fits
  <2>3. accounts[u] \in AccountRow /\ u \notin deleted
    BY <2>1, <2>2, RowsTyped DEF AInv, DeletedLeavesNothing
  <2>4. row \in AccountRow /\ ~ row.completed
    BY <2>3 DEF ProfileUpdated, Coalesce, AccountRow, ImageKinds
  <2>5. TokenFor(u, row) \in Token
    BY <2>2, <2>4, RowsTyped, TokenTyped DEF TablesTyped
  <2>6. Fits("session", q)
    BY <2>2, <2>5 DEF Fits, Request, Steps
  <2>7. UNCHANGED <<roles, sessions, codes, now, serving, issued, mailed, deleted, closed, dead>>
        /\ spent' \subseteq CodeIds
    BY <2>1, RowsTyped DEF history, TablesTyped
  <2> HIDE DEF row, q
  <2> QED
    BY <2>1, <2>2, <2>3, <2>4, <2>6, <2>7, AccountStep0
<1> QED  BY <1>1, <1>2

\* A token that has a row already is refused, so a closed one never becomes a
\* session again.
LEMMA SessionStep ==
  ASSUME AInv, NEW h \in Handlers, CreateSession(h)
  PROVE  AInv'
<1>1. CASE Refused(h)
  BY <1>1, RefusedStep
<1>2. CASE ~ Refused(h)
  <2> DEFINE t == req[h].token
             new == [token |-> t, expires |-> t.issued + SessionTTL, active |-> TRUE]
  <2>1. /\ pc[h] = "session" /\ SessionInsertable(t)
        /\ sessions' = sessions \cup {new}
        /\ Done(h)
        /\ UNCHANGED <<accounts, roles, codes, now, history>>
    BY <1>2 DEF CreateSession
  <2>2. t \in Token /\ t.user \in Users
    BY <2>1, RowsTyped DEF Fits, Token
  <2>3. new \in SessionRow /\ new.token = t
    BY <2>2, AuthAssumption DEF SessionRow, Token
  <2>4. /\ HandlersFit'
        /\ pc'[h] = "idle"
        /\ \A g \in Handlers \ {h} : pc'[g] = pc[g] /\ req'[g] = req[g]
    BY <2>1, RowsTyped, ContinueStep, EmptyRequest DEF Done
  <2>5. t.user \notin deleted /\ \A s \in sessions : s.token # t
    BY <2>1 DEF SessionInsertable, AInv, DeletedLeavesNothing
  <2>6. t \notin closed
    BY <2>5 DEF AInv, ClosedOK, Kept
  <2> HIDE DEF new
  <2>7. TypeOK'
    BY <2>1, <2>3, <2>4, RowsTyped, TypePartsNext DEF TablesTyped, history
  <2>8. LoggedOutStaysOut'
    BY <2>1, <2>3, <2>6 DEF AInv, LoggedOutStaysOut, history
  <2>9. DeletedLeavesNothing'
    BY <2>1, <2>3, <2>5 DEF AInv, DeletedLeavesNothing, history
  <2>10. ClosedOK' /\ ClosingOK'
    BY <2>1, <2>4 DEF AInv, ClosedOK, ClosingOK, Kept, history
  <2>11. AvatarOK' /\ FreshCodes' /\ DeadOK' /\ CompletedHasNames'
    BY <2>1, <2>4 DEF AInv, AvatarOK, FreshCodes, DeadOK, CompletedHasNames, history
  <2> QED
    BY <2>7, <2>8, <2>9, <2>10, <2>11 DEF AInv
<1> QED  BY <1>1, <1>2

-----------------------------------------------------------------------------
(* Requests of a signed-in user                                             *)

LEMMA EnterStep ==
  ASSUME AInv, NEW h \in Handlers, Enter(h)
  PROVE  AInv'
<1>1. PICK s \in sessions, step \in {"close", "verify", "profile", "delete"} :
        Authenticate(h, s, step)
  BY DEF Enter
<1> DEFINE q == [NoRequest EXCEPT !.user = s.token.user, !.token = s.token,
                                  !.admin = "admin" \in roles[s.token.user]]
           admin == "admin" \in roles[s.token.user]
<1>2. Continue(h, step, q) /\ UNCHANGED <<tables, now, history>>
  BY <1>1 DEF Authenticate
<1>3. s.token \in Token /\ s.token.user \in Users
  BY RowsTyped
<1>4. q \in Request /\ q.user = s.token.user /\ q.token = s.token /\ q.code = 0
  <2>1. admin \in BOOLEAN
    OBVIOUS
  <2> HIDE DEF admin
  <2>2. [NoRequest EXCEPT !.user = s.token.user, !.token = s.token, !.admin = admin] \in Request
    BY <1>3, <2>1 DEF NoRequest, Request
  <2> QED  BY <2>2 DEF NoRequest, admin
<1>5. Kept(q.token)
  BY <1>4 DEF Kept
<1> HIDE DEF q
<1>6. Fits(step, q)
  BY <1>3, <1>4 DEF Fits, Steps
<1>7. step # "upsert" /\ step # "image"
  OBVIOUS
<1> QED  BY <1>2, <1>5, <1>6, <1>7, QuietStep

\* The row stays, inactive: that is what keeps the token from coming back.
LEMMA LogoutStep ==
  ASSUME AInv, NEW h \in Handlers, Logout(h)
  PROVE  AInv'
<1> DEFINE t == req[h].token
<1>1. /\ pc[h] = "close" /\ sessions' = Deactivated(t, now)
      /\ closed' = closed \cup {t} /\ Done(h)
      /\ UNCHANGED <<accounts, roles, codes, now, serving, issued, mailed, deleted, spent, dead>>
  BY DEF Logout
<1>2. t \in Token /\ Kept(t)
  BY <1>1, RowsTyped DEF Fits, AInv, ClosingOK
<1>3. /\ HandlersFit'
      /\ pc'[h] = "idle"
      /\ \A g \in Handlers \ {h} : pc'[g] = pc[g] /\ req'[g] = req[g]
  BY <1>1, RowsTyped, ContinueStep, EmptyRequest DEF Done
<1>4. \A s \in sessions : \E x \in sessions' : x.token = s.token
  <2>1. ASSUME NEW s \in sessions PROVE \E x \in sessions' : x.token = s.token
    <3>1. s \in SessionRow
      BY RowsTyped
    <3> DEFINE x == IF s.token = t /\ s.active
                    THEN [s EXCEPT !.active = FALSE, !.expires = now] ELSE s
    <3>2. x \in sessions'
      BY <1>1 DEF Deactivated
    <3>3. x.token = s.token
      BY <3>1 DEF SessionRow
    <3> QED  BY <3>2, <3>3
  <2> QED  BY <2>1
<1>5. \A x \in sessions' :
        /\ x \in SessionRow
        /\ \E s \in sessions : x.token = s.token /\ (x.active => s.active)
        /\ x.active => x.token # t
  <2>1. ASSUME NEW x \in sessions'
        PROVE  /\ x \in SessionRow
               /\ \E s \in sessions : x.token = s.token /\ (x.active => s.active)
               /\ x.active => x.token # t
    <3>1. PICK s \in sessions :
            x = IF s.token = t /\ s.active
                THEN [s EXCEPT !.active = FALSE, !.expires = now] ELSE s
      BY <1>1 DEF Deactivated
    <3>2. s \in SessionRow /\ now \in Nat
      BY RowsTyped DEF TablesTyped
    <3>3. CASE s.token = t /\ s.active
      <4>1. x = [s EXCEPT !.active = FALSE, !.expires = now]
        BY <3>1, <3>3
      <4> QED  BY <3>2, <4>1 DEF SessionRow
    <3>4. CASE ~ (s.token = t /\ s.active)
      <4>1. x = s
        BY <3>1, <3>4
      <4> QED  BY <3>2, <3>4, <4>1
    <3> QED  BY <3>3, <3>4
  <2> QED  BY <2>1
<1> HIDE DEF t
<1>6. TypeOK'
  BY <1>1, <1>2, <1>3, <1>5, RowsTyped, TypePartsNext DEF TablesTyped
<1>7. \A x \in Token : Kept(x) => (\E s \in sessions' : s.token = x) \/ x.user \in deleted'
  BY <1>1, <1>4 DEF Kept
<1>8. ClosedOK'
  BY <1>1, <1>2, <1>7, RowsTyped DEF AInv, ClosedOK, Kept, TablesTyped
<1>9. ClosingOK'
  BY <1>3, <1>7, RowsTyped DEF AInv, ClosingOK, Kept, Fits
<1>10. LoggedOutStaysOut'
  <2>1. ASSUME NEW x \in sessions', x.active PROVE x.token \notin closed'
    BY <1>1, <1>5, <2>1 DEF AInv, LoggedOutStaysOut
  <2> QED  BY <2>1 DEF LoggedOutStaysOut
<1>11. DeletedLeavesNothing'
  <2>1. ASSUME NEW u \in deleted, NEW x \in sessions' PROVE x.token.user # u
    BY <1>5, <2>1 DEF AInv, DeletedLeavesNothing
  <2> QED  BY <1>1, <2>1 DEF AInv, DeletedLeavesNothing
<1>12. AvatarOK' /\ FreshCodes' /\ DeadOK' /\ CompletedHasNames'
  BY <1>1, <1>3 DEF AInv, AvatarOK, FreshCodes, DeadOK, CompletedHasNames
<1> QED  BY <1>6, <1>8, <1>9, <1>10, <1>11, <1>12 DEF AInv

LEMMA ChangeStep ==
  ASSUME AInv, NEW h \in Handlers, NEW current \in Passwords, NEW new \in Passwords,
         ChangePassword(h, current, new)
  PROVE  AInv'
<1>1. CASE Refused(h)
  BY <1>1, RefusedStep
<1>2. CASE ~ Refused(h)
  <2> DEFINE q == [req[h] EXCEPT !.password = new]
  <2>1. pc[h] = "verify" /\ Continue(h, "password", q) /\ UNCHANGED <<tables, now, history>>
    BY <1>2 DEF ChangePassword
  <2>2. req[h] \in Request /\ Fits("verify", req[h])
    BY <2>1, RowsTyped
  <2>3. Fits("password", q)
    BY <2>2 DEF Fits, Request, Steps
  <2> HIDE DEF q
  <2>4. "password" # "close" /\ "password" # "upsert" /\ "password" # "image"
    OBVIOUS
  <2> QED  BY <2>1, <2>3, <2>4, QuietStep
<1> QED  BY <1>1, <1>2

LEMMA ProfileStep ==
  ASSUME AInv, NEW h \in Handlers, NEW named \in BOOLEAN, NEW n \in Usernames \cup {Null},
         NEW image \in {"custom", Null}, CompleteProfile(h, named, n, image)
  PROVE  AInv'
<1> DEFINE u   == req[h].user
           row == ProfileUpdated(accounts[u], named, n, image, named /\ n # Null)
<1>1. CASE Refused(h)
  BY <1>1, RefusedStep
<1>2. CASE ~ Refused(h)
  <2>1. /\ pc[h] = "profile" /\ accounts[u] # Null
        /\ accounts' = [accounts EXCEPT ![u] = row]
        /\ Done(h)
        /\ UNCHANGED <<roles, sessions, codes, now, history>>
    BY <1>2 DEF CompleteProfile
  <2>2. u \in Users
    BY <2>1, RowsTyped DEF Fits
  <2>3. accounts[u] \in AccountRow /\ u \notin deleted
    BY <2>1, <2>2, RowsTyped DEF AInv, DeletedLeavesNothing
  <2> DEFINE both == named /\ n # Null
  <2>4. both \in BOOLEAN /\ (both => named /\ n # Null)
    OBVIOUS
  <2>5. image \in ImageKinds \cup {Null}
    BY DEF ImageKinds
  <2>6. row = ProfileUpdated(accounts[u], named, n, image, both)
    OBVIOUS
  <2> HIDE DEF both, row
  <2>7. row \in AccountRow /\ (row.completed => row.named /\ row.username # Null)
    BY <2>3, <2>4, <2>5, <2>6, ProfileUpdatedRow
  <2>8. UNCHANGED <<roles, sessions, codes, now, serving, issued, mailed, deleted, closed, dead>>
        /\ spent' \subseteq CodeIds
    BY <2>1, RowsTyped DEF history, TablesTyped
  <2>9. "idle" \notin {"close", "upsert", "image"} /\ Continue(h, "idle", NoRequest)
    BY <2>1 DEF Done
  <2> QED
    BY <2>1, <2>2, <2>3, <2>7, <2>8, <2>9, EmptyRequest, AccountStep0
<1> QED  BY <1>1, <1>2

LEMMA DeleteStep ==
  ASSUME AInv, NEW h \in Handlers, NEW u \in Users, DeleteUser(h, u)
  PROVE  AInv'
<1>1. CASE Refused(h)
  BY <1>1, RefusedStep
<1>2. CASE ~ Refused(h)
  <2>1. /\ accounts' = [accounts EXCEPT ![u] = Null]
        /\ roles' = [roles EXCEPT ![u] = {}]
        /\ sessions' = {s \in sessions : s.token.user # u}
        /\ codes' = [c \in CodeIds |->
             IF codes[c] # Null /\ codes[c].user = u THEN Null ELSE codes[c]]
        /\ deleted' = deleted \cup {u}
        /\ Done(h)
        /\ UNCHANGED <<now, serving, issued, mailed, closed, spent, dead>>
    BY <1>2 DEF DeleteUser
  <2>2. /\ HandlersFit'
        /\ pc'[h] = "idle"
        /\ \A g \in Handlers \ {h} : pc'[g] = pc[g] /\ req'[g] = req[g]
    BY <2>1, RowsTyped, ContinueStep, EmptyRequest DEF Done
  <2>3. /\ accounts' \in [Users -> AccountRow \cup {Null}]
        /\ roles' \in [Users -> SUBSET Roles]
        /\ codes' \in [CodeIds -> CodeRow \cup {Null}]
        /\ \A v \in Users : accounts'[v] = Null \/ accounts'[v] = accounts[v]
        /\ accounts'[u] = Null /\ roles'[u] = {}
        /\ \A v \in Users \ {u} : accounts'[v] = accounts[v] /\ roles'[v] = roles[v]
        /\ \A c \in CodeIds : codes'[c] = Null \/ (codes'[c] = codes[c] /\ codes[c].user # u)
    BY <2>1, RowsTyped DEF TablesTyped
  <2>4. TypeOK'
    BY <2>1, <2>2, <2>3, RowsTyped, TypePartsNext DEF TablesTyped
  <2>5. \A t : Kept(t) => (\E s \in sessions' : s.token = t) \/ t.user \in deleted'
    BY <2>1 DEF Kept
  <2>6. ClosedOK' /\ ClosingOK'
    BY <2>1, <2>2, <2>5 DEF AInv, ClosedOK, ClosingOK, Kept
  <2>7. AvatarOK' /\ LoggedOutStaysOut' /\ CompletedHasNames'
    BY <2>1, <2>2, <2>3 DEF AInv, AvatarOK, LoggedOutStaysOut, CompletedHasNames
  <2>8. FreshCodes' /\ DeadOK'
    BY <2>1, <2>3, RowsTyped DEF AInv, FreshCodes, DeadOK, TablesTyped
  <2>9. DeletedLeavesNothing'
    <3>1. ASSUME NEW v \in deleted'
          PROVE  /\ accounts'[v] = Null /\ roles'[v] = {}
                 /\ \A s \in sessions' : s.token.user # v
                 /\ \A c \in CodeIds : codes'[c] # Null => codes'[c].user # v
      <4>1. CASE v = u
        BY <2>1, <2>3, <4>1
      <4>2. CASE v # u
        <5>1. v \in deleted /\ v \in Users
          BY <2>1, <4>2, RowsTyped DEF TablesTyped
        <5> QED  BY <2>1, <2>3, <4>2, <5>1 DEF AInv, DeletedLeavesNothing
      <4> QED  BY <4>1, <4>2
    <3> QED  BY <3>1 DEF DeletedLeavesNothing
  <2> QED  BY <2>4, <2>6, <2>7, <2>8, <2>9 DEF AInv
<1> QED  BY <1>1, <1>2

LEMMA GrantStep ==
  ASSUME AInv, NEW u \in Users, GrantAdmin(u)
  PROVE  AInv'
<1>1. /\ accounts[u] # Null
      /\ roles' = [roles EXCEPT ![u] = @ \cup {"admin"}]
      /\ UNCHANGED <<accounts, sessions, codes, now, serving, issued, mailed,
                     deleted, closed, spent, dead, pc, req>>
  BY DEF GrantAdmin, history
<1>2. roles' \in [Users -> SUBSET Roles] /\ \A v \in Users \ {u} : roles'[v] = roles[v]
  BY <1>1, RowsTyped DEF TablesTyped, Roles
<1>3. HandlersFit'
  BY <1>1, RowsTyped DEF HandlersFit, Fits
<1>4. TypeOK'
  BY <1>1, <1>2, <1>3, RowsTyped, TypePartsNext DEF TablesTyped
<1>5. DeletedLeavesNothing'
  BY <1>1, <1>2, RowsTyped DEF AInv, DeletedLeavesNothing, TablesTyped
<1> QED
  BY <1>1, <1>4, <1>5
  DEF AInv, ClosedOK, ClosingOK, Kept, AvatarOK, FreshCodes, DeadOK,
      LoggedOutStaysOut, CompletedHasNames

LEMMA TickStep ==
  ASSUME AInv, Tick
  PROVE  AInv'
<1>1. /\ now' \in Nat
      /\ UNCHANGED <<accounts, roles, sessions, codes, serving, issued, mailed,
                     deleted, closed, spent, dead, pc, req>>
  BY RowsTyped DEF Tick, tables, history, TablesTyped
<1>2. HandlersFit'
  BY <1>1, RowsTyped DEF HandlersFit, Fits
<1>3. TypeOK'
  BY <1>1, <1>2, RowsTyped, TypePartsNext DEF TablesTyped
<1> QED
  BY <1>1, <1>3
  DEF AInv, ClosedOK, ClosingOK, Kept, AvatarOK, FreshCodes, DeadOK,
      LoggedOutStaysOut, CompletedHasNames, DeletedLeavesNothing

-----------------------------------------------------------------------------
(* Password resets                                                          *)

\* What ConsumeByUser and MarkConsumed make of the codes.
LEMMA VoidedCodes ==
  ASSUME AInv, NEW u \in Users
  PROVE  /\ Voided(u) \in [CodeIds -> CodeRow \cup {Null}]
         /\ \A c \in CodeIds : Voided(u)[c] # Null =>
              /\ codes[c] # Null
              /\ Voided(u)[c].user = codes[c].user
              /\ codes[c].consumed => Voided(u)[c].consumed
         /\ \A c \in CodeIds : codes[c] # Null /\ codes[c].user = u => Voided(u)[c].consumed
<1>1. \A c \in CodeIds :
        IF codes[c] # Null /\ codes[c].user = u
        THEN Voided(u)[c] = [codes[c] EXCEPT !.consumed = TRUE]
        ELSE Voided(u)[c] = codes[c]
  BY DEF Voided
<1>2. \A c \in CodeIds : codes[c] \in CodeRow \cup {Null}
  BY RowsTyped DEF TablesTyped
<1>3. ASSUME NEW c \in CodeIds, codes[c] # Null, codes[c].user = u
      PROVE  /\ Voided(u)[c] \in CodeRow
             /\ Voided(u)[c].user = codes[c].user
             /\ Voided(u)[c].consumed
  BY <1>1, <1>2, <1>3 DEF CodeRow
<1>4. \A c \in CodeIds : Voided(u)[c] \in CodeRow \cup {Null}
  BY <1>1, <1>2, <1>3
<1>5. Voided(u) = [c \in CodeIds |-> Voided(u)[c]]
  BY DEF Voided
<1> QED  BY <1>1, <1>3, <1>4, <1>5

LEMMA ConsumedCodes ==
  ASSUME AInv, NEW d \in CodeIds
  PROVE  /\ Consumed(d) \in [CodeIds -> CodeRow \cup {Null}]
         /\ \A c \in CodeIds : Consumed(d)[c] # Null =>
              /\ codes[c] # Null
              /\ Consumed(d)[c].user = codes[c].user
              /\ codes[c].consumed => Consumed(d)[c].consumed
<1>1. codes \in [CodeIds -> CodeRow \cup {Null}]
  BY RowsTyped DEF TablesTyped
<1> DEFINE row == IF codes[d] = Null THEN Null ELSE [codes[d] EXCEPT !.consumed = TRUE]
<1>2. /\ row \in CodeRow \cup {Null}
      /\ row # Null => codes[d] # Null /\ row.user = codes[d].user /\ row.consumed
  BY <1>1 DEF CodeRow
<1>3. Consumed(d) = [codes EXCEPT ![d] = row]
  BY DEF Consumed
<1> HIDE DEF row
<1> QED  BY <1>1, <1>2, <1>3

LEMMA RequestStep ==
  ASSUME AInv, NEW h \in Handlers, NEW u \in Users, RequestPasswordReset(h, u)
  PROVE  AInv'
<1> DEFINE q == [NoRequest EXCEPT !.user = u]
           D == {}
<1>1. /\ codes' = Voided(u) /\ Continue(h, "issue", q)
      /\ UNCHANGED <<accounts, roles, sessions, now, serving, issued, deleted, closed, spent>>
      /\ dead' = dead \cup D /\ mailed' \subseteq CodeIds
  BY RowsTyped DEF RequestPasswordReset, history, TablesTyped
<1>2. Fits("issue", q)
  BY EmptyRequest DEF Fits, NoRequest, Request, Steps
<1>3. D \in SUBSET CodeIds /\ \A c \in D : codes[c] # Null /\ (codes'[c] = Null \/ codes'[c].consumed)
  OBVIOUS
<1>4. "issue" \notin {"close", "upsert", "image"}
  OBVIOUS
<1> HIDE DEF q, D
<1> QED  BY <1>1, <1>2, <1>3, <1>4, VoidedCodes, CodesStep

LEMMA IssueStep ==
  ASSUME AInv, NEW h \in Handlers, IssueCode(h)
  PROVE  AInv'
<1>1. CASE Refused(h)
  BY <1>1, RefusedStep
<1>2. CASE ~ Refused(h)
  <2> DEFINE c == issued + 1
             row == [user |-> req[h].user, expires |-> now + ResetTTL, consumed |-> FALSE]
             q == [req[h] EXCEPT !.code = c]
  <2>1. /\ pc[h] = "issue" /\ issued < MaxCodes
        /\ accounts[req[h].user] # Null
        /\ codes' = [codes EXCEPT ![c] = row]
        /\ issued' = c
        /\ Continue(h, "mail", q)
        /\ UNCHANGED <<accounts, roles, sessions, now, serving, mailed,
                       deleted, closed, spent, dead>>
    BY <1>2 DEF IssueCode
  <2>2. issued \in Nat /\ now \in Nat /\ c \in CodeIds
    BY <2>1, RowsTyped, AuthTablesAssumption DEF TablesTyped, CodeIds
  <2>3. /\ req[h] \in Request /\ Fits("issue", req[h])
        /\ req[h].user \in Users /\ req[h].user \notin deleted
    BY <2>1, RowsTyped DEF Fits, AInv, DeletedLeavesNothing
  <2>4. row \in CodeRow /\ row.user = req[h].user
    BY <2>2, <2>3, AuthAssumption DEF CodeRow
  <2>5. Fits("mail", q)
    BY <2>2, <2>3 DEF Fits, Request, Steps, CodeIds
  <2> HIDE DEF row, q
  <2>6. /\ HandlersFit'
        /\ pc'[h] = "mail"
        /\ \A g \in Handlers \ {h} : pc'[g] = pc[g] /\ req'[g] = req[g]
    BY <2>1, <2>5, RowsTyped, ContinueStep
  <2>7. /\ codes' \in [CodeIds -> CodeRow \cup {Null}]
        /\ codes'[c] = row
        /\ \A d \in CodeIds \ {c} : codes'[d] = codes[d]
    BY <2>1, <2>2, <2>4, RowsTyped DEF TablesTyped
  <2>8. TypeOK'
    BY <2>1, <2>2, <2>6, <2>7, RowsTyped, TypePartsNext, AuthTablesAssumption
    DEF TablesTyped, CodeIds
  <2>9. c \notin dead
    BY <2>2 DEF AInv, FreshCodes
  <2>10. FreshCodes'
    <3>1. ASSUME NEW d \in CodeIds, d > c PROVE d # c /\ d > issued
      BY <2>2, <3>1 DEF CodeIds
    <3> HIDE DEF c
    <3> QED  BY <2>1, <2>7, <3>1 DEF AInv, FreshCodes
  <2> HIDE DEF c
  <2>11. DeadOK'
    BY <2>1, <2>7, <2>9, RowsTyped DEF AInv, DeadOK, TablesTyped
  <2>12. DeletedLeavesNothing'
    BY <2>1, <2>3, <2>4, <2>7 DEF AInv, DeletedLeavesNothing
  <2>13. ClosedOK' /\ ClosingOK' /\ AvatarOK' /\ LoggedOutStaysOut' /\ CompletedHasNames'
    BY <2>1, <2>6 DEF AInv, ClosedOK, ClosingOK, Kept, AvatarOK, LoggedOutStaysOut,
                      CompletedHasNames
  <2> QED  BY <2>8, <2>10, <2>11, <2>12, <2>13 DEF AInv
<1> QED  BY <1>1, <1>2

LEMMA MailStep ==
  ASSUME AInv, NEW h \in Handlers, SendPasswordReset(h)
  PROVE  AInv'
<1> DEFINE D == {}
<1>1. /\ pc[h] = "mail"
      /\ UNCHANGED <<codes, accounts, roles, sessions, now, serving, issued, deleted, closed, spent>>
      /\ dead' = dead \cup D
  BY DEF SendPasswordReset, tables
<1>2. req[h] \in Request /\ Fits("mail", req[h]) /\ req[h].code \in CodeIds
  BY <1>1, RowsTyped DEF Fits
<1>3. mailed' \subseteq CodeIds
  BY <1>2, RowsTyped DEF SendPasswordReset, TablesTyped
<1>4. PICK s \in {"idle", "unissue"} :
        Continue(h, s, IF s = "idle" THEN NoRequest ELSE req[h])
  BY DEF SendPasswordReset, Done
<1> DEFINE q == IF s = "idle" THEN NoRequest ELSE req[h]
<1>5. Fits(s, q) /\ s \notin {"close", "upsert", "image"}
  BY <1>2, EmptyRequest DEF Fits, Steps
<1>6. /\ codes' \in [CodeIds -> CodeRow \cup {Null}]
      /\ \A c \in CodeIds : codes'[c] # Null =>
           codes[c] # Null /\ codes'[c].user = codes[c].user
           /\ (codes[c].consumed => codes'[c].consumed)
  BY <1>1, RowsTyped DEF TablesTyped
<1>7. D \in SUBSET CodeIds /\ \A c \in D : codes[c] # Null /\ (codes'[c] = Null \/ codes'[c].consumed)
  OBVIOUS
<1>8. Continue(h, s, q)
  BY <1>4
<1> HIDE DEF q, D
<1> QED  BY <1>1, <1>3, <1>5, <1>6, <1>7, <1>8, CodesStep

\* Unissue and MarkConsumed.
LEMMA ConsumedStep ==
  ASSUME AInv, NEW h \in Handlers, NEW s \in {"idle", "void"}, NEW q, Fits(s, q),
         req[h].code \in CodeIds, codes' = Consumed(req[h].code), Continue(h, s, q),
         UNCHANGED <<accounts, roles, sessions, now, history>>
  PROVE  AInv'
<1> DEFINE D == {}
<1>1. /\ UNCHANGED <<accounts, roles, sessions, now, serving, issued, deleted, closed, spent>>
      /\ dead' = dead \cup D /\ mailed' \subseteq CodeIds
  BY RowsTyped DEF history, TablesTyped
<1>2. D \in SUBSET CodeIds /\ \A c \in D : codes[c] # Null /\ (codes'[c] = Null \/ codes'[c].consumed)
  OBVIOUS
<1>3. s \notin {"close", "upsert", "image"}
  OBVIOUS
<1> HIDE DEF D
<1> QED  BY <1>1, <1>2, <1>3, ConsumedCodes, CodesStep

LEMMA UnissueStep ==
  ASSUME AInv, NEW h \in Handlers, Unissue(h)
  PROVE  AInv'
<1>1. req[h].code \in CodeIds
  BY RowsTyped DEF Unissue, Fits
<1> QED  BY <1>1, EmptyRequest, ConsumedStep DEF Unissue, Done

LEMMA MarkStep ==
  ASSUME AInv, NEW h \in Handlers, MarkConsumed(h)
  PROVE  AInv'
<1>1. req[h].code \in CodeIds /\ Fits("void", req[h])
  BY RowsTyped DEF MarkConsumed, Fits, Steps
<1> QED  BY <1>1, ConsumedStep DEF MarkConsumed

LEMMA ConfirmStep ==
  ASSUME AInv, NEW h \in Handlers, NEW u \in Users, NEW c \in CodeIds, NEW new \in Passwords,
         ConfirmPasswordReset(h, u, c, new)
  PROVE  AInv'
<1> DEFINE q == [NoRequest EXCEPT !.user = u, !.code = c, !.password = new]
<1>1. Continue(h, "password", q) /\ UNCHANGED <<tables, now, history>>
  BY DEF ConfirmPasswordReset
<1>2. Fits("password", q)
  <2>1. c \in Nat
    BY AuthTablesAssumption DEF CodeIds
  <2>2. q \in Request /\ q.user = u /\ q.code = c /\ q.password = new
    BY <2>1 DEF NoRequest, Request
  <2> HIDE DEF q
  <2> QED  BY <2>2 DEF Fits, Steps
<1>3. "password" # "close" /\ "password" # "upsert" /\ "password" # "image"
  OBVIOUS
<1> HIDE DEF q
<1> QED  BY <1>1, <1>2, <1>3, QuietStep

LEMMA UpdatePasswordStep ==
  ASSUME AInv, NEW h \in Handlers, UpdatePassword(h)
  PROVE  AInv'
<1> DEFINE u   == req[h].user
           row == IF accounts[u] = Null THEN Null
                  ELSE [accounts[u] EXCEPT !.password = req[h].password]
           s   == IF req[h].code = 0 THEN "idle" ELSE "consume"
           q   == IF req[h].code = 0 THEN NoRequest ELSE req[h]
<1>1. /\ pc[h] = "password"
      /\ accounts' = [accounts EXCEPT ![u] = row]
      /\ Continue(h, s, q)
      /\ UNCHANGED <<roles, sessions, codes, now, serving, issued, mailed, deleted, closed, dead>>
      /\ spent' \subseteq spent \cup {req[h].code}
      /\ req[h].code = 0 => spent' = spent
  BY DEF UpdatePassword, Done
<1>2. /\ u \in Users /\ req[h].password \in Passwords /\ req[h] \in Request
      /\ Fits("password", req[h])
      /\ req[h].code \in CodeIds \cup {0}
  BY <1>1, RowsTyped DEF Fits
<1>3. accounts[u] # Null => accounts[u] \in AccountRow /\ u \notin deleted
  BY <1>2, RowsTyped DEF AInv, DeletedLeavesNothing
<1>4. /\ row \in AccountRow \cup {Null}
      /\ row # Null => u \notin deleted
      /\ row # Null /\ row.completed => row.named /\ row.username # Null
  <2>1. CASE accounts[u] = Null
    BY <2>1
  <2>2. CASE accounts[u] # Null
    <3>1. /\ row = [accounts[u] EXCEPT !.password = req[h].password]
          /\ accounts[u].completed => accounts[u].named /\ accounts[u].username # Null
      BY <1>2, <2>2 DEF AInv, CompletedHasNames
    <3> HIDE DEF row
    <3> QED  BY <1>2, <1>3, <2>2, <3>1 DEF AccountRow
  <2> QED  BY <2>1, <2>2
<1>5. Fits(s, q) /\ s \notin {"close", "upsert", "image"}
  BY <1>2, EmptyRequest DEF Fits, Steps
<1>6. spent' \subseteq CodeIds
  BY <1>1, <1>2, RowsTyped DEF TablesTyped
<1> HIDE DEF u, row, s, q
<1> QED  BY <1>1, <1>2, <1>4, <1>5, <1>6, AccountStep0

LEMMA VoidStep ==
  ASSUME AInv, NEW h \in Handlers, ConsumeByUser(h)
  PROVE  AInv'
<1> DEFINE u == req[h].user
           D == {c \in CodeIds : codes[c] # Null /\ codes[c].user = u}
<1>1. /\ pc[h] = "void" /\ codes' = Voided(u) /\ dead' = dead \cup D
      /\ Continue(h, "idle", NoRequest)
      /\ UNCHANGED <<accounts, roles, sessions, now, serving, issued, deleted, closed, spent>>
      /\ mailed' \subseteq CodeIds
  BY RowsTyped DEF ConsumeByUser, Done, TablesTyped
<1>2. u \in Users
  BY <1>1, RowsTyped DEF Fits
<1>3. /\ D \in SUBSET CodeIds
      /\ \A c \in D : codes[c] # Null /\ (codes'[c] = Null \/ codes'[c].consumed)
  BY <1>1, <1>2, VoidedCodes
<1>4. "idle" \notin {"close", "upsert", "image"}
  OBVIOUS
<1> HIDE DEF D, u
<1> QED  BY <1>1, <1>2, <1>3, <1>4, VoidedCodes, EmptyRequest, CodesStep

-----------------------------------------------------------------------------
(* The invariant                                                            *)

LEMMA InitHolds == Init => AInv
<1> SUFFICES ASSUME Init PROVE AInv
  OBVIOUS
<1>1. /\ accounts \in [Users -> AccountRow \cup {Null}]
      /\ roles \in [Users -> SUBSET Roles]
      /\ \A u \in Users : accounts[u] # Null => ~ accounts[u].completed
  <2>1. CASE "register" \in serving
    BY <2>1 DEF Init
  <2>2. CASE "register" \notin serving
    <3>1. PICK v \in Users, e \in Emails, p \in Passwords :
            /\ accounts = [u \in Users |-> IF u = v THEN EmailAccount(e, p) ELSE Null]
            /\ roles = [u \in Users |-> IF u = v THEN {"user"} ELSE {}]
      BY <2>2 DEF Init
    <3>2. EmailAccount(e, p) \in AccountRow /\ ~ EmailAccount(e, p).completed
      BY DEF EmailAccount, AccountRow
    <3> QED  BY <3>1, <3>2 DEF Roles
  <2> QED  BY <2>1, <2>2
<1>2. /\ serving \in Workloads /\ sessions = {} /\ codes = [c \in CodeIds |-> Null]
      /\ now = 0 /\ issued = 0 /\ mailed = {} /\ deleted = {} /\ closed = {}
      /\ spent = {} /\ dead = {}
      /\ pc = [h \in Handlers |-> "idle"] /\ req = [h \in Handlers |-> NoRequest]
  BY DEF Init
<1>3. TypeOK
  <2>1. TablesTyped
    BY <1>1, <1>2, AuthTablesAssumption DEF TablesTyped
  <2>2. HandlersFit
    BY <1>2, EmptyRequest DEF HandlersFit, Steps
  <2> QED  BY <2>1, <2>2, TypeParts
<1>4. FreshCodes /\ DeadOK /\ ClosedOK /\ ClosingOK /\ AvatarOK
  BY <1>2 DEF FreshCodes, DeadOK, ClosedOK, ClosingOK, AvatarOK
<1>5. LoggedOutStaysOut /\ CompletedHasNames /\ DeletedLeavesNothing
  BY <1>1, <1>2 DEF LoggedOutStaysOut, CompletedHasNames, DeletedLeavesNothing
<1> QED  BY <1>3, <1>4, <1>5 DEF AInv

LEMMA StepHolds == AInv /\ [Next]_vars => AInv'
<1> SUFFICES ASSUME AInv, [Next]_vars PROVE AInv'
  OBVIOUS
<1>1. CASE UNCHANGED vars
  BY <1>1
  DEF vars, AInv, TypeOK, FreshCodes, DeadOK, ClosedOK, ClosingOK, Kept, AvatarOK,
      LoggedOutStaysOut, CompletedHasNames, DeletedLeavesNothing
<1>2. CASE Tick
  BY <1>2, TickStep
<1>3. ASSUME NEW u \in Users, GrantAdmin(u) PROVE AInv'
  BY <1>3, GrantStep
<1>4. ASSUME NEW h \in Handlers, SignIn(h) PROVE AInv'
  BY <1>4, RegisterStep, LoginStep, GoogleStep, UpsertStep, RoleStep, ReloadStep,
     StoreImageStep, SessionStep DEF SignIn
<1>5. ASSUME NEW h \in Handlers, AccountStep(h) PROVE AInv'
  BY <1>5, EnterStep, LogoutStep, ProfileStep, DeleteStep DEF AccountStep
<1>6. ASSUME NEW h \in Handlers, PasswordStep(h) PROVE AInv'
  BY <1>6, ChangeStep, RequestStep, IssueStep, MailStep, UnissueStep, ConfirmStep,
     UpdatePasswordStep, MarkStep, VoidStep DEF PasswordStep
<1>7. ASSUME NEW h \in Handlers, Fail(h) PROVE AInv'
  BY <1>7, RefusedStep DEF Fail
<1> QED  BY <1>1, <1>2, <1>3, <1>4, <1>5, <1>6, <1>7 DEF Next

\* The inductive invariant holds however requests to AuthService interleave.
THEOREM AuthInvariance == Spec => []AInv
<1> QED  BY InitHolds, StepHolds, PTL DEF Spec

(* Rows and requests stay well-formed: a handler at a statement holds what  *)
(* that statement of auth_service.go needs.                                 *)
THEOREM AuthTypeCorrect == Spec => []TypeOK
<1>1. AInv => TypeOK  BY DEF AInv
<1> QED  BY <1>1, AuthInvariance, PTL

(* A token that Logout was answered for never authenticates again, although *)
(* a login in the same second signs the very same token.                    *)
THEOREM LogoutIsFinal == Spec => []LoggedOutStaysOut
<1>1. AInv => LoggedOutStaysOut  BY DEF AInv
<1> QED  BY <1>1, AuthInvariance, PTL

(* CompleteProfile and a Google login together never leave a profile marked *)
(* complete that lacks a name.                                              *)
THEOREM CompletedProfilesHaveNames == Spec => []CompletedHasNames
<1>1. AInv => CompletedHasNames  BY DEF AInv
<1> QED  BY <1>1, AuthInvariance, PTL

(* Whatever was in flight when DeleteUser committed, the account does not   *)
(* come back and no session, role or code refers to it.                     *)
THEOREM DeletionIsComplete == Spec => []DeletedLeavesNothing
<1>1. AInv => DeletedLeavesNothing  BY DEF AInv
<1> QED  BY <1>1, AuthInvariance, PTL

-----------------------------------------------------------------------------
(* What a step may not do                                                   *)

\* A step of one request starts no other.
LEMMA OneMoves ==
  ASSUME HandlersFit, NEW h \in Handlers, NEW s, NEW q, Continue(h, s, q),
         NEW g \in Handlers, pc[g] = "idle", pc'[g] = "password",
         pc[h] = "idle" => s # "password"
  PROVE  FALSE
<1>1. pc' = [pc EXCEPT ![h] = s] /\ pc \in [Handlers -> Steps]
  BY DEF Continue, HandlersFit
<1>2. g = h
  BY <1>1
<1> QED  BY <1>1, <1>2

\* A password is at hand at once only where a code was confirmed.
LEMMA OnlyConfirmStarts ==
  ASSUME AInv, Next, NEW g \in Handlers, pc[g] = "idle", pc'[g] = "password"
  PROVE  \E u \in Users, c \in CodeIds, p \in Passwords : ConfirmPasswordReset(g, u, c, p)
<1> USE RowsTyped
<1>1. "idle" # "password" /\ "role" # "password" /\ "session" # "password"
      /\ "upsert" # "password" /\ "issue" # "password"
  OBVIOUS
<1>2. ASSUME NEW h \in Handlers, SignIn(h) PROVE FALSE
  <2>1. PICK s, q : Continue(h, s, q) /\ (pc[h] = "idle" => s # "password")
    <3>1. ASSUME NEW e \in Emails, NEW p \in Passwords, RegisterWithEmail(h, e, p)
          PROVE  \E s, q : Continue(h, s, q) /\ (pc[h] = "idle" => s # "password")
      BY <1>1, <3>1 DEF RegisterWithEmail
    <3>2. ASSUME NEW e \in Emails, NEW p \in Passwords, LoginWithEmail(h, e, p)
          PROVE  \E s, q : Continue(h, s, q) /\ (pc[h] = "idle" => s # "password")
      BY <1>1, <3>2 DEF LoginWithEmail
    <3>3. ASSUME NEW e \in Emails, NEW named \in BOOLEAN, NEW picture \in BOOLEAN,
                 LoginWithGoogle(h, e, named, picture)
          PROVE  \E s, q : Continue(h, s, q) /\ (pc[h] = "idle" => s # "password")
      BY <1>1, <3>3 DEF LoginWithGoogle
    <3>4. UpsertGoogleUser(h) =>
            \E s, q : Continue(h, s, q) /\ (pc[h] = "idle" => s # "password")
      BY DEF UpsertGoogleUser
    <3>5. AssignUserRole(h) =>
            \E s, q : Continue(h, s, q) /\ (pc[h] = "idle" => s # "password")
      BY DEF AssignUserRole, Refused, Done
    <3>6. Reload(h) =>
            \E s, q : Continue(h, s, q) /\ (pc[h] = "idle" => s # "password")
      BY DEF Reload, Refused, Done
    <3>7. StoreGoogleImage(h) =>
            \E s, q : Continue(h, s, q) /\ (pc[h] = "idle" => s # "password")
      BY DEF StoreGoogleImage, Refused, Done
    <3>8. CreateSession(h) =>
            \E s, q : Continue(h, s, q) /\ (pc[h] = "idle" => s # "password")
      BY DEF CreateSession, Refused, Done
    <3> QED  BY <1>2, <3>1, <3>2, <3>3, <3>4, <3>5, <3>6, <3>7, <3>8 DEF SignIn
  <2> QED  BY <2>1, OneMoves
<1>3. ASSUME NEW h \in Handlers, AccountStep(h) PROVE FALSE
  <2>1. PICK s, q : Continue(h, s, q) /\ (pc[h] = "idle" => s # "password")
    <3>1. Enter(h) =>
            \E s, q : Continue(h, s, q) /\ (pc[h] = "idle" => s # "password")
      <4> SUFFICES ASSUME Enter(h)
                   PROVE \E s, q : Continue(h, s, q) /\ (pc[h] = "idle" => s # "password")
        OBVIOUS
      <4>1. PICK x \in sessions, step \in {"close", "verify", "profile", "delete"} :
              Authenticate(h, x, step)
        BY DEF Enter
      <4> QED  BY <4>1 DEF Authenticate
    <3>2. Logout(h) =>
            \E s, q : Continue(h, s, q) /\ (pc[h] = "idle" => s # "password")
      BY DEF Logout, Done
    <3>3. ASSUME NEW named \in BOOLEAN, NEW n \in Usernames \cup {Null},
                 NEW image \in {"custom", Null}, CompleteProfile(h, named, n, image)
          PROVE  \E s, q : Continue(h, s, q) /\ (pc[h] = "idle" => s # "password")
      BY <3>3 DEF CompleteProfile, Refused, Done
    <3>4. ASSUME NEW u \in Users, DeleteUser(h, u)
          PROVE  \E s, q : Continue(h, s, q) /\ (pc[h] = "idle" => s # "password")
      BY <3>4 DEF DeleteUser, Refused, Done
    <3> QED  BY <1>3, <3>1, <3>2, <3>3, <3>4 DEF AccountStep
  <2> QED  BY <2>1, OneMoves
<1>4. ASSUME NEW h \in Handlers, PasswordStep(h),
             ~ \E u \in Users, c \in CodeIds, p \in Passwords : ConfirmPasswordReset(h, u, c, p)
      PROVE  FALSE
  <2>1. PICK s, q : Continue(h, s, q) /\ (pc[h] = "idle" => s # "password")
    <3>1. ASSUME NEW current \in Passwords, NEW new \in Passwords, ChangePassword(h, current, new)
          PROVE  \E s, q : Continue(h, s, q) /\ (pc[h] = "idle" => s # "password")
      BY <3>1 DEF ChangePassword, Refused, Done
    <3>2. ASSUME NEW u \in Users, RequestPasswordReset(h, u)
          PROVE  \E s, q : Continue(h, s, q) /\ (pc[h] = "idle" => s # "password")
      BY <3>2 DEF RequestPasswordReset
    <3>3. IssueCode(h) =>
            \E s, q : Continue(h, s, q) /\ (pc[h] = "idle" => s # "password")
      BY DEF IssueCode, Refused, Done
    <3>4. SendPasswordReset(h) =>
            \E s, q : Continue(h, s, q) /\ (pc[h] = "idle" => s # "password")
      BY DEF SendPasswordReset, Done
    <3>5. Unissue(h) =>
            \E s, q : Continue(h, s, q) /\ (pc[h] = "idle" => s # "password")
      BY DEF Unissue, Done
    <3>6. UpdatePassword(h) =>
            \E s, q : Continue(h, s, q) /\ (pc[h] = "idle" => s # "password")
      BY DEF UpdatePassword, Done
    <3>7. MarkConsumed(h) =>
            \E s, q : Continue(h, s, q) /\ (pc[h] = "idle" => s # "password")
      BY DEF MarkConsumed
    <3>8. ConsumeByUser(h) =>
            \E s, q : Continue(h, s, q) /\ (pc[h] = "idle" => s # "password")
      BY DEF ConsumeByUser, Done
    <3> QED
      BY <1>4, <3>1, <3>2, <3>3, <3>4, <3>5, <3>6, <3>7, <3>8 DEF PasswordStep
  <2> QED  BY <2>1, OneMoves
<1>5. ASSUME NEW h \in Handlers, Fail(h) PROVE FALSE
  BY <1>5, OneMoves DEF Fail, Refused, Done
<1>6. ~ Tick /\ \A u \in Users : ~ GrantAdmin(u)
  BY DEF Tick, GrantAdmin
<1>7. PICK h \in Handlers :
        \E u \in Users, c \in CodeIds, p \in Passwords : ConfirmPasswordReset(h, u, c, p)
  BY <1>2, <1>3, <1>4, <1>5, <1>6 DEF Next
<1>8. PICK u \in Users, c \in CodeIds, p \in Passwords : ConfirmPasswordReset(h, u, c, p)
  BY <1>7
<1>9. pc' = [pc EXCEPT ![h] = "password"] /\ pc \in [Handlers -> Steps]
  BY <1>8 DEF ConfirmPasswordReset, Continue, HandlersFit
<1>10. g = h
  BY <1>1, <1>9
<1> QED  BY <1>7, <1>10

(* Once ConfirmPasswordReset has succeeded, no code that existed then is    *)
(* accepted again, however many requests ran beside it.                     *)
THEOREM SuccessfulResetVoidsCodes == Spec => SuccessVoidsCodes
<1>1. ASSUME AInv, [Next]_vars, NEW g \in Handlers, NEW d \in dead,
             pc[g] = "idle", pc'[g] = "password", req'[g].code = d
      PROVE  FALSE
  <2>1. Next
    BY <1>1 DEF vars
  <2>2. PICK u \in Users, c \in CodeIds, p \in Passwords : ConfirmPasswordReset(g, u, c, p)
    BY <1>1, <2>1, OnlyConfirmStarts
  <2>3. req' = [req EXCEPT ![g] =
          [NoRequest EXCEPT !.user = u, !.code = c, !.password = p]]
        /\ req \in [Handlers -> Request]
    BY <1>1, <2>2, RowsTyped DEF ConfirmPasswordReset, Continue, HandlersFit
  <2>4. c = d
    BY <1>1, <2>3 DEF NoRequest
  <2>5. codes[c] # Null /\ codes[c].consumed = FALSE
    BY <1>1, <2>2, RowsTyped DEF ConfirmPasswordReset, NewestActive, ActiveCodes, CodeRow
  <2> QED  BY <1>1, <2>4, <2>5 DEF AInv, DeadOK
<1>2. AInv /\ [Next]_vars =>
        [\A h \in Handlers, c \in dead :
           ~ (pc[h] = "idle" /\ pc'[h] = "password" /\ req'[h].code = c)]_vars
  BY <1>1
<1> QED  BY <1>2, AuthInvariance, PTL DEF Spec, SuccessVoidsCodes

\* The step that replaces an avatar the user uploaded.
AvatarReplaced(u) ==
  /\ accounts[u] # Null /\ accounts[u].image = "custom"
  /\ accounts'[u] # Null /\ accounts'[u].image # "custom"

LEMMA OnlyGoogleReplaces ==
  ASSUME AInv, Next, NEW u \in Users, AvatarReplaced(u)
  PROVE  \E h \in Handlers : UpsertGoogleUser(h) \/ (StoreGoogleImage(h) /\ ~ Refused(h))
<1> SUFFICES ASSUME \A h \in Handlers :
                      ~ UpsertGoogleUser(h) /\ ~ (StoreGoogleImage(h) /\ ~ Refused(h))
             PROVE  FALSE
  OBVIOUS
<1>1. accounts \in [Users -> AccountRow \cup {Null}] /\ accounts[u] \in AccountRow
  BY RowsTyped DEF TablesTyped, AvatarReplaced
<1>2. accounts' # accounts
  BY DEF AvatarReplaced
<1>3. ASSUME NEW h \in Handlers PROVE ~ Refused(h)
  BY <1>2 DEF Refused, tables
<1>4. ASSUME NEW h \in Handlers, SignIn(h) PROVE FALSE
  <2>1. PICK e \in Emails, p \in Passwords : RegisterWithEmail(h, e, p)
    BY <1>2, <1>3, <1>4
    DEF SignIn, LoginWithEmail, LoginWithGoogle, AssignUserRole, Reload, CreateSession, tables
  <2>2. PICK v \in Users : accounts[v] = Null /\ accounts' = [accounts EXCEPT ![v] = EmailAccount(e, p)]
    BY <2>1 DEF RegisterWithEmail, FreshUser
  <2> QED  BY <1>1, <2>2 DEF AvatarReplaced
<1>5. ASSUME NEW h \in Handlers, AccountStep(h) PROVE FALSE
  <2>1. ~ Enter(h) /\ ~ Logout(h)
    BY <1>2 DEF Enter, Authenticate, Logout, tables
  <2>2. ASSUME NEW v \in Users, DeleteUser(h, v) PROVE FALSE
    <3>1. accounts' = [accounts EXCEPT ![v] = Null]
      BY <1>3, <2>2 DEF DeleteUser
    <3> QED  BY <1>1, <3>1 DEF AvatarReplaced
  <2>3. ASSUME NEW named \in BOOLEAN, NEW n \in Usernames \cup {Null},
               NEW image \in {"custom", Null}, CompleteProfile(h, named, n, image)
        PROVE  FALSE
    <3> DEFINE v   == req[h].user
               row == ProfileUpdated(accounts[v], named, n, image, named /\ n # Null)
    <3>1. accounts' = [accounts EXCEPT ![v] = row] /\ v \in Users
      BY <1>3, <2>3, RowsTyped DEF CompleteProfile, Fits
    <3>2. accounts[v] \in AccountRow => row.image = Coalesce(image, accounts[v].image)
      BY DEF ProfileUpdated, AccountRow
    <3> HIDE DEF row, v
    <3>3. u = v
      BY <1>1, <3>1 DEF AvatarReplaced
    <3>4. accounts'[u] = row
      BY <1>1, <3>1, <3>3
    <3> QED  BY <1>1, <3>2, <3>3, <3>4 DEF AvatarReplaced, Coalesce
  <2> QED  BY <1>5, <2>1, <2>2, <2>3 DEF AccountStep
<1>6. ASSUME NEW h \in Handlers, PasswordStep(h) PROVE FALSE
  <2>1. UpdatePassword(h)
    BY <1>2, <1>3, <1>6
    DEF PasswordStep, ChangePassword, RequestPasswordReset, IssueCode, SendPasswordReset,
        Unissue, ConfirmPasswordReset, MarkConsumed, ConsumeByUser, tables
  <2> DEFINE v   == req[h].user
             row == IF accounts[v] = Null THEN Null
                    ELSE [accounts[v] EXCEPT !.password = req[h].password]
  <2>2. accounts' = [accounts EXCEPT ![v] = row]
    BY <2>1 DEF UpdatePassword
  <2>3. accounts[v] \in AccountRow => row = Null \/ row.image = accounts[v].image
    BY DEF AccountRow
  <2> HIDE DEF row, v
  <2>4. u = v
    BY <1>1, <2>2 DEF AvatarReplaced
  <2>5. accounts'[u] = row
    BY <1>1, <2>2, <2>4
  <2> QED  BY <1>1, <2>3, <2>4, <2>5 DEF AvatarReplaced
<1>7. ~ Tick /\ (\A v \in Users : ~ GrantAdmin(v)) /\ \A h \in Handlers : ~ Fail(h)
  BY <1>2, <1>3 DEF Tick, GrantAdmin, Fail, tables
<1> QED  BY <1>4, <1>5, <1>6, <1>7 DEF Next

(* A Google login replaces an avatar the user uploaded only if its own read *)
(* of the account had not found one yet.                                    *)
THEOREM UploadedAvatarIsKept == Spec => SeenAvatarIsKept
<1>1. ASSUME AInv, [Next]_vars, NEW u \in Users, AvatarReplaced(u)
      PROVE  \E h \in Handlers : pc[h] \in {"upsert", "image"} /\ pc'[h] # pc[h]
                               /\ req[h].known # "custom"
  <2>1. Next
    BY <1>1 DEF vars, AvatarReplaced
  <2>2. PICK h \in Handlers : UpsertGoogleUser(h) \/ (StoreGoogleImage(h) /\ ~ Refused(h))
    BY <1>1, <2>1, OnlyGoogleReplaces
  <2>3. accounts \in [Users -> AccountRow \cup {Null}] /\ accounts[u] \in AccountRow
        /\ pc \in [Handlers -> Steps] /\ req[h] \in Request
    BY <1>1, RowsTyped DEF TablesTyped, HandlersFit, AvatarReplaced
  <2>4. CASE StoreGoogleImage(h) /\ ~ Refused(h)
    <3>1. pc[h] = "image" /\ pc'[h] = "session"
      BY <2>3, <2>4 DEF StoreGoogleImage, Continue
    <3> QED  BY <1>1, <3>1 DEF AInv, AvatarOK
  <2>5. CASE UpsertGoogleUser(h)
    <3>1. pc[h] = "upsert" /\ pc'[h] = "role"
      BY <2>3, <2>5 DEF UpsertGoogleUser, Continue
    <3>2. req[h].image # Null
      <4>1. SUFFICES ASSUME req[h].image = Null PROVE FALSE
        OBVIOUS
      <4>2. PICK v, row :
              /\ v \in Users
              /\ accounts' = [accounts EXCEPT ![v] = row]
              /\ accounts[v] # Null =>
                   row = GoogleUpdated(accounts[v], req[h].named, req[h].image)
        BY <2>5 DEF UpsertGoogleUser, FreshUser
      <4>3. u = v /\ accounts'[u] = row
        BY <2>3, <4>2, <1>1 DEF AvatarReplaced
      <4>4. accounts'[u] = GoogleUpdated(accounts[u], req[h].named, Null)
        BY <1>1, <4>1, <4>2, <4>3 DEF AvatarReplaced
      <4>5. GoogleUpdated(accounts[u], req[h].named, Null).image = accounts[u].image
        BY <2>3 DEF GoogleUpdated, Coalesce, AccountRow
      <4> QED  BY <1>1, <4>4, <4>5 DEF AvatarReplaced
    <3> QED  BY <1>1, <3>1, <3>2 DEF AInv, AvatarOK
  <2> QED  BY <2>2, <2>4, <2>5
<1>2. AInv /\ [Next]_vars =>
        [\A u \in Users :
           accounts[u] # Null /\ accounts[u].image = "custom"
             /\ accounts'[u] # Null /\ accounts'[u].image # "custom" =>
               \E h \in Handlers : pc[h] \in {"upsert", "image"} /\ pc'[h] # pc[h]
                                   /\ req[h].known # "custom"]_vars
  BY <1>1 DEF AvatarReplaced
<1> QED  BY <1>2, AuthInvariance, PTL DEF Spec, SeenAvatarIsKept

-----------------------------------------------------------------------------
(* Confirmations that do not overlap                                        *)

\* A request that is about to set, or has set, a password with a code that it
\* has not consumed yet.
Confirming(h) == pc[h] = "consume" \/ (pc[h] = "password" /\ req[h].code # 0)

\* No two requests confirm one code at the same time.
CodesApart ==
  \A g, h \in Handlers : g # h /\ Confirming(g) /\ Confirming(h) => req[g].code # req[h].code

\* A code a password was set with is consumed, or about to be.
SpentOK ==
  \A c \in spent :
    /\ c <= issued
    /\ \/ codes[c] = Null \/ codes[c].consumed
       \/ \E h \in Handlers : pc[h] = "consume" /\ req[h].code = c

\* A code at hand is not spent, and a change of password has none.
AtHandOK ==
  \A h \in Handlers :
    /\ pc[h] = "verify" => req[h].code = 0
    /\ pc[h] = "password" /\ req[h].code # 0 => req[h].code \notin spent /\ req[h].code <= issued

\* A step that confirms nothing and spends no code.
Beside(h) ==
  /\ \E s, q :
       /\ Continue(h, s, q)
       /\ pc[h] \notin {"password", "consume"}
       /\ s # "consume"
       /\ s = "verify" => q.code = 0
       /\ s = "password" => pc[h] = "verify" /\ q.code = req[h].code
  /\ spent' = spent
  /\ issued <= issued'
  /\ \A c \in CodeIds : c <= issued /\ codes'[c] # Null =>
       codes[c] # Null /\ (codes[c].consumed => codes'[c].consumed)

\* Most statements do not look at codes.
LEMMA BesideStep ==
  ASSUME AInv, NEW h \in Handlers, NEW s, NEW q, Continue(h, s, q),
         pc[h] \notin {"password", "consume"},
         s \notin {"consume", "verify", "password"},
         UNCHANGED <<codes, spent, issued>>
  PROVE  Beside(h)
<1>1. issued <= issued'
  BY RowsTyped, AuthTablesAssumption DEF TablesTyped
<1> QED  BY <1>1 DEF Beside

\* Registration and logins.
LEMMA SignInBeside ==
  ASSUME AInv, NEW h \in Handlers, SignIn(h)
  PROVE  Beside(h)
<1> USE DEF history, tables
<1>1. ASSUME Refused(h), pc[h] \notin {"password", "consume"} PROVE Beside(h)
  BY <1>1, BesideStep DEF Refused, Done
<1>2. ASSUME NEW e \in Emails, NEW p \in Passwords, RegisterWithEmail(h, e, p) PROVE Beside(h)
  BY <1>2, BesideStep DEF RegisterWithEmail, Starting
<1>3. ASSUME NEW e \in Emails, NEW p \in Passwords, LoginWithEmail(h, e, p) PROVE Beside(h)
  BY <1>3, BesideStep DEF LoginWithEmail, Starting
<1>4. ASSUME NEW e \in Emails, NEW named \in BOOLEAN, NEW picture \in BOOLEAN,
             LoginWithGoogle(h, e, named, picture)
      PROVE  Beside(h)
  BY <1>4, BesideStep DEF LoginWithGoogle, Starting
<1>5. CASE UpsertGoogleUser(h)
  BY <1>5, BesideStep DEF UpsertGoogleUser
<1>6. CASE AssignUserRole(h)
  BY <1>1, <1>6, BesideStep DEF AssignUserRole
<1>7. CASE Reload(h)
  BY <1>1, <1>7, BesideStep DEF Reload
<1>8. CASE StoreGoogleImage(h)
  <2>1. /\ pc[h] = "image"
        /\ Refused(h) \/ /\ \E q : Continue(h, "session", q)
                         /\ UNCHANGED <<codes, spent, issued>>
    BY <1>8 DEF StoreGoogleImage
  <2>2. PICK q : Refused(h) \/ (Continue(h, "session", q) /\ UNCHANGED <<codes, spent, issued>>)
    BY <2>1
  <2> QED  BY <1>1, <2>1, <2>2, BesideStep
<1>9. CASE CreateSession(h)
  BY <1>1, <1>9, BesideStep DEF CreateSession, Done
<1> QED  BY <1>2, <1>3, <1>4, <1>5, <1>6, <1>7, <1>8, <1>9 DEF SignIn

\* Requests of a signed-in user; a deletion takes codes away, but brings none.
LEMMA AccountBeside ==
  ASSUME AInv, NEW h \in Handlers, AccountStep(h)
  PROVE  Beside(h)
<1> USE DEF history, tables
<1>1. ASSUME Refused(h), pc[h] \notin {"password", "consume"} PROVE Beside(h)
  BY <1>1, BesideStep DEF Refused, Done
<1>2. issued \in Nat
  BY RowsTyped, AuthTablesAssumption DEF TablesTyped
<1>3. CASE Enter(h)
  <2>1. PICK s \in sessions, step \in {"close", "verify", "profile", "delete"} :
          pc[h] = "idle" /\ Authenticate(h, s, step)
    BY <1>3 DEF Enter, Starting
  <2> DEFINE q == [NoRequest EXCEPT !.user = s.token.user, !.token = s.token,
                                    !.admin = "admin" \in roles[s.token.user]]
  <2>2. Continue(h, step, q) /\ UNCHANGED <<codes, spent, issued>>
    BY <2>1 DEF Authenticate
  <2>3. q.code = 0
    BY DEF NoRequest
  <2> HIDE DEF q
  <2> QED  BY <1>2, <2>1, <2>2, <2>3 DEF Beside
<1>4. CASE Logout(h)
  BY <1>4, BesideStep DEF Logout, Done
<1>5. ASSUME NEW named \in BOOLEAN, NEW n \in Usernames \cup {Null},
             NEW image \in {"custom", Null}, CompleteProfile(h, named, n, image)
      PROVE  Beside(h)
  BY <1>1, <1>5, BesideStep DEF CompleteProfile, Done
<1>6. ASSUME NEW u \in Users, DeleteUser(h, u) PROVE Beside(h)
  <2>1. CASE Refused(h)
    BY <1>1, <1>6, <2>1 DEF DeleteUser
  <2>2. CASE ~ Refused(h)
    <3>1. /\ pc[h] = "delete" /\ Continue(h, "idle", NoRequest)
          /\ UNCHANGED <<spent, issued>>
          /\ codes' = [c \in CodeIds |->
               IF codes[c] # Null /\ codes[c].user = u THEN Null ELSE codes[c]]
      BY <1>6, <2>2 DEF DeleteUser, Done
    <3>2. \A c \in CodeIds : codes'[c] # Null => codes'[c] = codes[c]
      BY <3>1
    <3> QED  BY <1>2, <3>1, <3>2 DEF Beside
  <2> QED  BY <2>1, <2>2
<1> QED  BY <1>3, <1>4, <1>5, <1>6 DEF AccountStep

\* Of the password steps, those that are not a confirmation's.
LEMMA PasswordBeside ==
  ASSUME AInv, NEW h \in Handlers, PasswordStep(h),
         ~ UpdatePassword(h), ~ MarkConsumed(h),
         ~ \E u \in Users, c \in CodeIds, p \in Passwords : ConfirmPasswordReset(h, u, c, p)
  PROVE  Beside(h)
<1> USE DEF history, tables
<1>1. issued \in Nat /\ codes \in [CodeIds -> CodeRow \cup {Null}]
  BY RowsTyped, AuthTablesAssumption DEF TablesTyped
<1>2. ASSUME NEW current \in Passwords, NEW new \in Passwords, ChangePassword(h, current, new)
      PROVE  Beside(h)
  <2>1. CASE Refused(h)
    BY <1>2, <2>1, BesideStep DEF ChangePassword, Refused, Done
  <2>2. CASE ~ Refused(h)
    <3> DEFINE q == [req[h] EXCEPT !.password = new]
    <3>1. pc[h] = "verify" /\ Continue(h, "password", q) /\ UNCHANGED <<codes, spent, issued>>
      BY <1>2, <2>2 DEF ChangePassword
    <3>2. q.code = req[h].code
      BY RowsTyped DEF HandlersFit, Request
    <3> HIDE DEF q
    <3> QED  BY <1>1, <3>1, <3>2 DEF Beside
  <2> QED  BY <2>1, <2>2
<1>3. ASSUME NEW u \in Users, RequestPasswordReset(h, u) PROVE Beside(h)
  <2>1. /\ pc[h] = "idle" /\ codes' = Voided(u) /\ UNCHANGED <<spent, issued>>
        /\ Continue(h, "issue", [NoRequest EXCEPT !.user = u])
    BY <1>3 DEF RequestPasswordReset, Starting
  <2> QED  BY <1>1, <2>1, VoidedCodes DEF Beside
<1>4. CASE IssueCode(h)
  <2>1. CASE Refused(h)
    BY <1>4, <2>1, BesideStep DEF IssueCode, Refused, Done
  <2>2. CASE ~ Refused(h)
    <3>1. /\ pc[h] = "issue" /\ UNCHANGED spent /\ issued' = issued + 1
          /\ Continue(h, "mail", [req[h] EXCEPT !.code = issued + 1])
          /\ \E row : codes' = [codes EXCEPT ![issued + 1] = row]
      BY <1>4, <2>2 DEF IssueCode
    <3>2. \A c \in CodeIds : c <= issued => codes'[c] = codes[c]
      BY <1>1, <3>1 DEF CodeIds
    <3> QED  BY <1>1, <3>1, <3>2 DEF Beside
  <2> QED  BY <2>1, <2>2
<1>5. CASE SendPasswordReset(h)
  BY <1>5, BesideStep DEF SendPasswordReset, Done
<1>6. CASE Unissue(h)
  <2>1. /\ pc[h] = "unissue" /\ codes' = Consumed(req[h].code) /\ UNCHANGED <<spent, issued>>
        /\ Continue(h, "idle", NoRequest)
    BY <1>6 DEF Unissue, Done
  <2>2. req[h].code \in CodeIds
    BY <2>1, RowsTyped DEF Fits
  <2> QED  BY <1>1, <2>1, <2>2, ConsumedCodes DEF Beside
<1>7. CASE ConsumeByUser(h)
  <2>1. /\ pc[h] = "void" /\ codes' = Voided(req[h].user) /\ UNCHANGED <<spent, issued>>
        /\ Continue(h, "idle", NoRequest)
    BY <1>7 DEF ConsumeByUser, Done
  <2>2. req[h].user \in Users
    BY <2>1, RowsTyped DEF Fits
  <2> QED  BY <1>1, <2>1, <2>2, VoidedCodes DEF Beside
<1> QED  BY <1>2, <1>3, <1>4, <1>5, <1>6, <1>7 DEF PasswordStep

\* What such a step leaves right.
LEMMA BesideKeeps ==
  ASSUME AInv, AInv', SpentOK, AtHandOK, NEW h \in Handlers, Beside(h)
  PROVE  SpentOK' /\ AtHandOK'
<1>1. PICK s, q :
        /\ Continue(h, s, q)
        /\ pc[h] \notin {"password", "consume"}
        /\ s # "consume"
        /\ s = "verify" => q.code = 0
        /\ s = "password" => pc[h] = "verify" /\ q.code = req[h].code
  BY DEF Beside
<1>2. /\ pc'[h] = s /\ req'[h] = q
      /\ \A g \in Handlers \ {h} : pc'[g] = pc[g] /\ req'[g] = req[g]
  BY <1>1, RowsTyped DEF Continue, HandlersFit
<1>3. /\ spent' = spent /\ spent \subseteq CodeIds /\ CodeIds \subseteq Nat
      /\ issued \in Nat /\ issued' \in Nat /\ issued <= issued'
      /\ \A g \in Handlers : req[g].code \in Nat
  <2>1. issued \in Nat /\ issued' \in Nat /\ CodeIds \subseteq Nat
    BY AuthTablesAssumption DEF AInv, TypeOK, CodeIds
  <2>2. \A g \in Handlers : req[g].code \in Nat
    BY RowsTyped DEF Request
  <2>3. spent' = spent /\ issued <= issued'
    BY DEF Beside
  <2>4. spent \subseteq CodeIds
    BY RowsTyped DEF TablesTyped
  <2> QED  BY <2>1, <2>2, <2>3, <2>4
<1>4. SpentOK'
  <2> SUFFICES ASSUME NEW c \in spent
               PROVE  /\ c <= issued'
                      /\ \/ codes'[c] = Null \/ codes'[c].consumed
                         \/ \E g \in Handlers : pc'[g] = "consume" /\ req'[g].code = c
    BY <1>3 DEF SpentOK
  <2>1. c \in CodeIds /\ c <= issued
    BY <1>3 DEF SpentOK
  <2>2. c <= issued'
    BY <1>3, <2>1
  <2>3. CASE codes[c] = Null \/ codes[c].consumed
    BY <2>1, <2>2, <2>3 DEF Beside
  <2>4. ASSUME NEW g \in Handlers, pc[g] = "consume", req[g].code = c
        PROVE  pc'[g] = "consume" /\ req'[g].code = c
    BY <1>1, <1>2, <2>4
  <2> QED  BY <2>2, <2>3, <2>4 DEF SpentOK
<1>5. AtHandOK'
  <2> SUFFICES ASSUME NEW g \in Handlers
               PROVE  /\ pc'[g] = "verify" => req'[g].code = 0
                      /\ pc'[g] = "password" /\ req'[g].code # 0 =>
                           req'[g].code \notin spent /\ req'[g].code <= issued'
    BY <1>3 DEF AtHandOK
  <2>1. CASE g = h
    BY <1>1, <1>2, <2>1 DEF AtHandOK
  <2>2. CASE g # h
    BY <1>2, <1>3, <2>2 DEF AtHandOK
  <2> QED  BY <2>1, <2>2
<1> QED  BY <1>4, <1>5

\* A confirmation begins with a code that is not consumed, so not spent:
\* whoever spent it would be confirming it still.
LEMMA ConfirmKeeps ==
  ASSUME AInv, SpentOK, AtHandOK, CodesApart', NEW h \in Handlers, NEW u \in Users,
         NEW c \in CodeIds, NEW p \in Passwords, ConfirmPasswordReset(h, u, c, p)
  PROVE  SpentOK' /\ AtHandOK'
<1> DEFINE q == [NoRequest EXCEPT !.user = u, !.code = c, !.password = p]
<1>1. /\ pc[h] = "idle" /\ Continue(h, "password", q)
      /\ UNCHANGED <<codes, spent, issued>>
      /\ codes[c] # Null /\ codes[c].consumed = FALSE
  <2>1. codes[c] # Null /\ codes[c] \in CodeRow /\ ~ codes[c].consumed
    BY RowsTyped DEF ConfirmPasswordReset, NewestActive, ActiveCodes, TablesTyped
  <2> QED  BY <2>1 DEF ConfirmPasswordReset, Starting, tables, history, CodeRow
<1>2. q.code = c
  BY DEF NoRequest
<1> HIDE DEF q
<1>3. /\ pc'[h] = "password" /\ req'[h] = q
      /\ \A g \in Handlers \ {h} : pc'[g] = pc[g] /\ req'[g] = req[g]
  BY <1>1, RowsTyped DEF Continue, HandlersFit
<1>4. c \in Nat /\ c # 0 /\ issued \in Nat /\ c <= issued
  <2>1. issued \in Nat /\ c \in Nat /\ c # 0
    BY RowsTyped, AuthTablesAssumption DEF TablesTyped, CodeIds
  <2> QED  BY <1>1, <2>1 DEF AInv, FreshCodes
<1>5. ASSUME NEW d \in spent
      PROVE  \/ codes[d] = Null \/ codes[d].consumed
             \/ \E g \in Handlers : pc'[g] = "consume" /\ req'[g].code = d /\ g # h
  BY <1>1, <1>3 DEF SpentOK
<1>6. c \notin spent
  <2>1. ASSUME NEW g \in Handlers, pc'[g] = "consume", req'[g].code = c, g # h PROVE FALSE
    BY <1>2, <1>3, <1>4, <2>1 DEF CodesApart, Confirming
  <2> QED  BY <1>1, <1>5, <2>1
<1>7. SpentOK'
  BY <1>1, <1>5 DEF SpentOK
<1>8. AtHandOK'
  <2> SUFFICES ASSUME NEW g \in Handlers
               PROVE  /\ pc'[g] = "verify" => req'[g].code = 0
                      /\ pc'[g] = "password" /\ req'[g].code # 0 =>
                           req'[g].code \notin spent /\ req'[g].code <= issued
    BY <1>1 DEF AtHandOK
  <2>1. CASE g = h
    BY <1>2, <1>3, <1>4, <1>6, <2>1
  <2>2. CASE g # h
    BY <1>3, <2>2 DEF AtHandOK
  <2> QED  BY <2>1, <2>2
<1> QED  BY <1>7, <1>8

\* The UPDATE of the account spends the code, which nobody else has at hand.
LEMMA UpdateKeeps ==
  ASSUME AInv, SpentOK, AtHandOK, CodesApart, NEW h \in Handlers, UpdatePassword(h)
  PROVE  SpentOK' /\ AtHandOK'
<1> DEFINE c == req[h].code
           s == IF c = 0 THEN "idle" ELSE "consume"
           q == IF c = 0 THEN NoRequest ELSE req[h]
<1>1. /\ pc[h] = "password" /\ Continue(h, s, q) /\ UNCHANGED <<codes, issued>>
      /\ spent' = IF c = 0 THEN spent ELSE spent \cup {c}
  BY DEF UpdatePassword, Done
<1>2. /\ pc'[h] = s /\ req'[h] = q
      /\ \A g \in Handlers \ {h} : pc'[g] = pc[g] /\ req'[g] = req[g]
  BY <1>1, RowsTyped DEF Continue, HandlersFit
<1>3. c # 0 => c <= issued /\ c \notin spent
  BY <1>1 DEF AtHandOK
<1>4. SpentOK'
  <2> SUFFICES ASSUME NEW d \in spent'
               PROVE  /\ d <= issued
                      /\ \/ codes[d] = Null \/ codes[d].consumed
                         \/ \E g \in Handlers : pc'[g] = "consume" /\ req'[g].code = d
    BY <1>1 DEF SpentOK
  <2>1. CASE d \in spent
    <3>1. \A g \in Handlers : pc[g] = "consume" => g # h
      BY <1>1
    <3> QED  BY <1>2, <2>1, <3>1 DEF SpentOK
  <2>2. CASE d = c /\ c # 0
    BY <1>2, <1>3, <2>2
  <2> QED  BY <1>1, <2>1, <2>2
<1>5. AtHandOK'
  <2> SUFFICES ASSUME NEW g \in Handlers
               PROVE  /\ pc'[g] = "verify" => req'[g].code = 0
                      /\ pc'[g] = "password" /\ req'[g].code # 0 =>
                           req'[g].code \notin spent' /\ req'[g].code <= issued
    BY <1>1 DEF AtHandOK
  <2>1. CASE g = h
    BY <1>2, <2>1
  <2>2. CASE g # h
    <3>1. pc'[g] = "password" /\ req'[g].code # 0 /\ c # 0 => req[g].code # c
      BY <1>1, <1>2, <2>2 DEF CodesApart, Confirming
    <3> HIDE DEF c
    <3> QED  BY <1>1, <1>2, <2>2, <3>1 DEF AtHandOK
  <2> QED  BY <2>1, <2>2
<1> QED  BY <1>4, <1>5

\* MarkConsumed settles what was spent.
LEMMA MarkKeeps ==
  ASSUME AInv, SpentOK, AtHandOK, NEW h \in Handlers, MarkConsumed(h)
  PROVE  SpentOK' /\ AtHandOK'
<1> DEFINE c == req[h].code
<1>1. /\ pc[h] = "consume" /\ Continue(h, "void", req[h]) /\ codes' = Consumed(c)
      /\ UNCHANGED <<spent, issued>>
  BY DEF MarkConsumed, history
<1>2. /\ pc'[h] = "void"
      /\ \A g \in Handlers \ {h} : pc'[g] = pc[g] /\ req'[g] = req[g]
  BY <1>1, RowsTyped DEF Continue, HandlersFit
<1>3. c \in CodeIds /\ codes \in [CodeIds -> CodeRow \cup {Null}] /\ spent \subseteq CodeIds
  BY <1>1, RowsTyped DEF Fits, TablesTyped
<1> HIDE DEF c
<1>4. codes'[c] = Null \/ codes'[c].consumed
  BY <1>1, <1>3 DEF Consumed, CodeRow
<1>5. ASSUME NEW d \in CodeIds, codes[d] = Null \/ codes[d].consumed
      PROVE  codes'[d] = Null \/ codes'[d].consumed
  BY <1>1, <1>3, <1>5, ConsumedCodes
<1>6. SpentOK'
  <2> SUFFICES ASSUME NEW d \in spent
               PROVE  /\ d <= issued
                      /\ \/ codes'[d] = Null \/ codes'[d].consumed
                         \/ \E g \in Handlers : pc'[g] = "consume" /\ req'[g].code = d
    BY <1>1 DEF SpentOK
  <2>1. ASSUME NEW g \in Handlers, pc[g] = "consume", req[g].code = d, d # c
        PROVE  pc'[g] = "consume" /\ req'[g].code = d
    BY <1>2, <2>1 DEF c
  <2> QED  BY <1>3, <1>4, <1>5, <2>1 DEF SpentOK
<1>7. AtHandOK'
  BY <1>1, <1>2 DEF AtHandOK
<1> QED  BY <1>6, <1>7

\* Every step, where no statement fails half-way.
LEMMA ApartStep ==
  ASSUME AInv, SpentOK, AtHandOK, CodesApart, CodesApart', ~ MayFail, [Next]_vars
  PROVE  SpentOK' /\ AtHandOK'
<1>1. AInv'
  BY StepHolds
<1>2. CASE UNCHANGED vars
  BY <1>2 DEF vars, SpentOK, AtHandOK
<1>3. CASE Tick
  BY <1>3 DEF Tick, tables, history, SpentOK, AtHandOK
<1>4. ASSUME NEW u \in Users, GrantAdmin(u) PROVE SpentOK' /\ AtHandOK'
  BY <1>4 DEF GrantAdmin, history, SpentOK, AtHandOK
<1>5. ASSUME NEW h \in Handlers, SignIn(h) \/ AccountStep(h) PROVE SpentOK' /\ AtHandOK'
  BY <1>1, <1>5, SignInBeside, AccountBeside, BesideKeeps
<1>6. ASSUME NEW h \in Handlers, PasswordStep(h) PROVE SpentOK' /\ AtHandOK'
  BY <1>1, <1>6, PasswordBeside, BesideKeeps, ConfirmKeeps, UpdateKeeps, MarkKeeps
<1>7. \A h \in Handlers : ~ Fail(h)
  BY DEF Fail
<1> QED  BY <1>2, <1>3, <1>4, <1>5, <1>6, <1>7 DEF Next

(* Where no two requests confirm one code at the same time and no statement *)
(* fails, a code sets a password once.  Without the first two confirmations *)
(* read the code before either consumes it; without the second the UPDATE   *)
(* of the account commits and MarkConsumed never comes (each statement of   *)
(* ConfirmPasswordReset commits on its own).                                *)
THEOREM ApartCodesAreSingleUse ==
  ASSUME ~ MayFail
  PROVE  Spec /\ []CodesApart => CodesAreSingleUse
<1>1. Init => SpentOK /\ AtHandOK
  BY DEF Init, SpentOK, AtHandOK
<1>2. AInv /\ SpentOK /\ AtHandOK /\ CodesApart /\ CodesApart' /\ [Next]_vars
        => SpentOK' /\ AtHandOK'
  BY ApartStep
<1>3. AInv /\ AtHandOK /\ [Next]_vars =>
        [\A h \in Handlers :
           pc[h] = "password" /\ pc'[h] = "consume" => req[h].code \notin spent]_vars
  <2> SUFFICES ASSUME AInv, AtHandOK, NEW h \in Handlers, pc[h] = "password", req[h].code \in spent
               PROVE  FALSE
    OBVIOUS
  <2>1. req[h].code # 0
    BY RowsTyped, AuthTablesAssumption DEF TablesTyped, CodeIds
  <2> QED  BY <2>1 DEF AtHandOK
<1> QED  BY <1>1, <1>2, <1>3, AuthInvariance, PTL DEF Spec, CodesAreSingleUse
=============================================================================
