----------------------------- MODULE LoggedRequests -----------------------------
(***************************************************************************)
(* The way from a request to a view count with what the log keeps of each  *)
(* request (RequestLog): the documents of ViewPipeline are those that      *)
(* sanitizeBody leaves, and a password in a body must not reach them.      *)
(***************************************************************************)
EXTENDS ViewPipeline, RequestLog

CONSTANT Detail  \* route, address, status and bodies of each request

\* The destination a request was answered with.
SubjectOf(req) ==
  IF req.route = "destination" /\ req.status = 200
  THEN DestinationOf(req.answer.value, None) ELSE None

ASSUME DocumentsAssumption ==
  /\ Document = [r \in Requests |-> LogDocument(Detail[r], None)]
  /\ Subject = [r \in Requests |-> SubjectOf(Detail[r])]

Steps == ({"key"} \X STRING) \cup ({"item"} \X (Nat \ {0}))

\* A body is JSON, the parts of a form, or one text.
IsBody(body) ==
  /\ body.content \in {"json", "multipart", "form", "binary", "text"}
  /\ DOMAIN body.value \subseteq Seq(Steps)
  /\ body.content = "text" => DOMAIN body.value = {<<>>}
  /\ Len(body.parts) \in Nat /\ DOMAIN body.parts = 1 .. Len(body.parts)
  /\ \A i \in DOMAIN body.parts : body.parts[i] =
       [name |-> body.parts[i].name, file |-> body.parts[i].file, value |-> body.parts[i].value]
  /\ \A i \in DOMAIN body.parts : body.parts[i].name \in STRING

\* A password stands where the API has passwords (password, new_password,
\* current_password in auth_handler.go): below a key or in a field whose name
\* contains "password", or in a text that contains the word.  The one-time
\* codes and tokens of the same API (otp, token, id_token) are no passwords.
IsMarked(body) ==
  CASE body.content = "json" ->
         \A p \in DOMAIN body.value : body.value[p] \in Passwords => Marked(p)
    [] body.content = "multipart" ->
         \A i \in DOMAIN body.parts : body.parts[i].value \in Passwords =>
           body.parts[i].name \in PasswordKeys \/ body.parts[i].file
    [] body.content = "form" ->
         \A i \in DOMAIN body.parts : body.parts[i].value \in Passwords =>
           body.parts[i].name \in PasswordKeys
    [] body.content = "binary" -> TRUE
    [] body.content = "text" -> body.value[<<>>] \in Passwords => body.value[<<>>] \in PasswordTexts

ASSUME PasswordsAssumption ==
  \A r \in Requests : \A body \in {Detail[r].body, Detail[r].answer} :
    IsBody(body) /\ IsMarked(body)

\* A destination is served as JSON, and neither its key nor that of its id
\* contains "password".
ASSUME AnswersAssumption ==
  /\ {"destination", "id"} \cap PasswordKeys = {}
  /\ Dests \cap Placeholders = {}
  /\ \A r \in Requests : Detail[r].route = "destination" /\ Detail[r].status = 200
                           => Detail[r].answer.content = "json"

\* What the log shows of the bodies of each request.
Bodies == [r \in Requests |-> LoggedBodies(Detail[r])]

-----------------------------------------------------------------------------
(* Properties                                                               *)

(* No password reaches the log index, whether it came in a JSON body at any *)
(* depth, in a form, in a part of a multipart body, or in a text that is    *)
(* none of these; and the preview of a large body has none either.  It is   *)
(* about passwords only: sanitizeJSON looks for no other key, so that the   *)
(* code of a password reset and the tokens of a login are logged as they    *)
(* are (OtherTextsAreLogged in ViewPipeline_proofs), although               *)
(* Self-Service-Password-Reset-High-Level-Design.md says that no plaintext  *)
(* OTP is logged (line 11, line 207).                                       *)
PasswordsStayOut ==
  \A e \in Entries : index[e] > 0 =>
    \A body \in Bodies[e.request] :
      \A p \in DOMAIN body : body[p] \notin Passwords

(* The views a search can find: those from outside whose answer is small    *)
(* enough to be logged whole.  The others are never counted.                *)
Findable ==
  [d \in Dests |-> {e \in Views[d] :
     /\ Detail[e.request].ip # "10."
     /\ Size(SanitizeJSON(Detail[e.request].answer.value)) <= MaxLoggedBody}]

(* With the rollup running, and while Logstash is there and the writer      *)
(* open, every view is counted in the end, and stays counted: the failures  *)
(* of searches and statements are made up for by the next tick, and so is a *)
(* slow refresh that overwrites newer counts with older ones.               *)
CountedInTheEnd ==
  /\ On("rollup")
  /\ [](link = "up" /\ ~ closed)
  => <>[](\A d \in Dests :
            /\ stats[d] # None
            /\ \A k \in RangeKeys : Duration[k] = 0 =>
                 stats[d].views[k] = Total(logged, Findable[d]))
=============================================================================
