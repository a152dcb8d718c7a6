------------------------------ MODULE RequestLog ------------------------------
(***************************************************************************)
(* What the request log keeps of a request (internal/transport/http/       *)
(* logging.go): sanitizeBody for JSON, form, multipart and other bodies,   *)
(* and the preview that replaces a large one.  A JSON value is the         *)
(* function from the paths of its leaves to their texts: what the code     *)
(* computes by recursion on maps and lists is what it does to each path.   *)
(* Texts are atoms, so a length is a number of nodes, and the clamping of  *)
(* single strings is left out; an empty map or list is a leaf.             *)
(***************************************************************************)
EXTENDS Naturals, Sequences, FiniteSets

CONSTANTS
  PasswordKeys,   \* the keys that contain "password"
  PasswordTexts,  \* the texts that contain it
  Passwords,      \* the passwords users send, alone or in such a text
  MaxLoggedBody,  \* maxLoggedBody, in nodes
  MaxDepth,       \* maxDepth of a preview
  MaxMapEntries   \* maxMapEntries of a preview

\* What the code writes in the place of what it does not log.
Placeholders == {"redacted", "omitted", "binary", "true"}

ASSUME RequestLogAssumption ==
  /\ PasswordKeys \subseteq STRING
  /\ Passwords \cap Placeholders = {}
  /\ {MaxLoggedBody, MaxDepth, MaxMapEntries} \subseteq Nat

\* The steps of a path: to the entry of a map, to an item of a list.
Key(k)  == <<"key", k>>
Item(i) == <<"item", i>>

\* A value that is one text, at the empty path.
Text(s) == [p \in {<<>>} |-> s]

\* The first n steps of path p.
Upto(p, n) == SubSeq(p, 1, n)

\* The length of the marshalled value: its leaves and all that is above them.
Size(v) == Cardinality(UNION {{Upto(p, n) : n \in 0 .. Len(p)} : p \in DOMAIN v})

\* Whether a key on the path p contains "password", and how far the path
\* goes in a sanitized value: to the first such key.
IsPasswordKey(step) == \E k \in PasswordKeys : step = Key(k)
Marked(p) == \E n \in DOMAIN p : IsPasswordKey(p[n])
Cut(p) ==
  IF Marked(p)
  THEN Upto(p, CHOOSE n \in DOMAIN p : IsPasswordKey(p[n]) /\ \A m \in 1 .. n - 1 : ~ IsPasswordKey(p[m]))
  ELSE p

\* sanitizeJSON.
SanitizeJSON(v) ==
  [p \in {Cut(q) : q \in DOMAIN v} |-> IF Marked(p) THEN "redacted" ELSE v[p]]

\* Of the entries of a map a few are kept, which ones is left open, and the
\* first items of a list.
Sample(steps) ==
  LET keys == {s \in steps : s[1] = "key"}
      few  == {K \in SUBSET keys : Cardinality(K) <= MaxMapEntries}
  IN (CHOOSE K \in few : \A L \in few : Cardinality(L) <= Cardinality(K))
     \cup {s \in steps : s[1] = "item" /\ s[2] <= 3}

\* The steps that lead from the value at p to those below.
Below(v, p) == {q[Len(p) + 1] : q \in {r \in DOMAIN v : Len(r) > Len(p) /\ Upto(r, Len(p)) = p}}

\* summarizeJSONPreview: nothing is shown at MaxDepth.
Preview(v) ==
  LET kept == {p \in DOMAIN v : \A n \in 1 .. Len(p) :
                 n <= MaxDepth => p[n] \in Sample(Below(v, Upto(p, n - 1)))}
  IN [p \in {IF Len(q) < MaxDepth THEN q ELSE Upto(q, MaxDepth) : q \in kept} |->
        IF Len(p) < MaxDepth THEN v[p] ELSE "omitted"]

\* limitJSONSize: a large value is replaced by its preview.
LimitJSONSize(v) ==
  LET preview == Preview(v)
      Shown(p) == <<Key("_preview")>> \o p
  IN IF Size(v) <= MaxLoggedBody THEN v
     ELSE [p \in {<<Key("_truncated")>>} \cup {Shown(q) : q \in DOMAIN preview} |->
             IF p = <<Key("_truncated")>> THEN "true" ELSE preview[Tail(p)]]

\* The fields of a form by name; addFormField makes a list of those that
\* have one name.
Fields(parts) ==
  LET Named(i) == {j \in DOMAIN parts : parts[j].name = parts[i].name}
      Place(i) == IF Named(i) = {i} THEN <<Key(parts[i].name)>>
                  ELSE <<Key(parts[i].name), Item(Cardinality(Named(i) \cap 1 .. i))>>
  IN [p \in {Place(i) : i \in DOMAIN parts} |->
        parts[CHOOSE i \in DOMAIN parts : Place(i) = p].value]

(* Variant of SanitizeMultipart for mutation checks: the values of the      *)
(* fields are kept as they are.                                             *)
SanitizeMultipartRaw(parts) ==
  LET Kept(p) == IF p.file THEN "binary" ELSE p.value
  IN IF parts = <<>> THEN Text("binary")
     ELSE LimitJSONSize(Fields([i \in DOMAIN parts |-> [parts[i] EXCEPT !.value = Kept(parts[i])]]))

\* sanitizeMultipart: files are left out, the fields treated like JSON texts.
SanitizeMultipart(parts) ==
  LET Kept(p) == IF p.file THEN "binary"
                 ELSE IF p.name \in PasswordKeys THEN "redacted" ELSE p.value
  IN IF parts = <<>> THEN Text("binary")
     ELSE LimitJSONSize(Fields([i \in DOMAIN parts |-> [parts[i] EXCEPT !.value = Kept(parts[i])]]))

\* sanitizeBody, by the kind of content it finds.  A form is treated like a
\* map: one text stands for all values of a password key.
SanitizeBody(body) ==
  CASE body.content = "json"      -> LimitJSONSize(SanitizeJSON(body.value))
    [] body.content = "multipart" -> SanitizeMultipart(body.parts)
    [] body.content = "form"      -> LimitJSONSize(SanitizeJSON(Fields(body.parts)))
    [] body.content = "binary"    -> Text("binary")
    [] body.content = "text"      ->
         IF body.value[<<>>] \in PasswordTexts THEN Text("redacted") ELSE body.value

\* What Elasticsearch indexes as response.body.destination.id, or none.
DestinationOf(summary, none) ==
  LET id == <<Key("destination"), Key("id")>>
  IN IF id \in DOMAIN summary THEN summary[id] ELSE none

\* The summaries of both bodies in the log line of a request.
LoggedBodies(req) == {SanitizeBody(req.body), SanitizeBody(req.answer)}

\* The document the line becomes: of its fields those that are selected by,
\* where the method and the URI are one.
LogDocument(req, none) ==
  [route       |-> req.route,
   ip          |-> req.ip,
   status      |-> req.status,
   destination |-> DestinationOf(SanitizeBody(req.answer), none)]
=============================================================================
