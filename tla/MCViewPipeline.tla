----------------------------- MODULE MCViewPipeline -----------------------------
(***************************************************************************)
(* A small instance of the way from a request to a view count for TLC.     *)
(* Activities that meet in the same state are looked at together: the      *)
(* goroutines that log with a Logstash that comes and goes, the rollup     *)
(* with views and with refreshes on request, and the bodies of requests    *)
(* of every kind.                                                          *)
(***************************************************************************)
EXTENDS LoggedRequests

CONSTANTS d1, d2, w1, w2, a1, rollup

MCRanges   == <<"1h", "all">>
MCDuration == [k \in {"1h", "all"} |-> IF k = "1h" THEN 1 ELSE 0]

Part(n, f, v) == [name |-> n, file |-> f, value |-> v]
Body(c, v, parts) == [content |-> c, value |-> v, parts |-> parts]
Json(v)  == Body("json", v, <<>>)
NoBody   == Body("binary", Text("none"), <<>>)

\* The answer of GET /destinations/d; a large one has many fields.
DestinationBody(d, more) ==
  Json([p \in {<<Key("destination"), Key(f)>> : f \in {"id"} \cup more} |->
          IF p[2] = Key("id") THEN d ELSE "any"])

Answered(d, ip, more) ==
  [route |-> "destination", ip |-> ip, status |-> 200, body |-> NoBody,
   answer |-> DestinationBody(d, more)]

Nested ==
  LET user == <<Key("user"), Key("name")>>
      first == <<Key("user"), Key("password")>>
      second == <<Key("passwords"), Item(2), Key("old")>>
  IN [p \in {user, first, <<Key("passwords"), Item(1)>>, second} |->
        IF p = user THEN "ann" ELSE IF p = second THEN "s2" ELSE "s1"]

\* The confirmation of a password reset, with its one-time code.
Confirmed ==
  [p \in {<<Key("otp")>>, <<Key("new_password")>>} |->
     IF p = <<Key("otp")>> THEN "123456" ELSE "s1"]

Submitted(body) ==
  [route |-> "account", ip |-> "outside", status |-> 200, body |-> body, answer |-> NoBody]

Form == <<Part("email", FALSE, "ann"), Part("password", FALSE, "s1"),
          Part("password", FALSE, "s2")>>

MCDetail ==
  [outside   |-> Answered(d1, "outside", {}),
   inside    |-> Answered(d1, "10.", {}),
   large     |-> Answered(d2, "outside", {"a", "b", "c", "d", "e", "f", "g", "h"}),
   json      |-> Submitted(Json(Nested)),
   reset     |-> Submitted(Json(Confirmed)),
   multipart |-> Submitted(Body("multipart", Text("none"), Form)),
   form      |-> Submitted(Body("form", Text("none"), Form)),
   text      |-> Submitted(Body("text", Text("password=s1"), <<>>))]

MCRequests == DOMAIN MCDetail

Indexed(route, ip, d) ==
  [route |-> route, ip |-> ip, status |-> 200, destination |-> d]

\* What Elasticsearch can select each by, and what was served.
MCDocument ==
  [outside   |-> Indexed("destination", "outside", d1),
   inside    |-> Indexed("destination", "10.", d1),
   large     |-> Indexed("destination", "outside", None),
   json      |-> Indexed("account", "outside", None),
   reset     |-> Indexed("account", "outside", None),
   multipart |-> Indexed("account", "outside", None),
   form      |-> Indexed("account", "outside", None),
   text      |-> Indexed("account", "outside", None)]

MCSubject ==
  [outside |-> d1, inside |-> d1, large |-> d2,
   json |-> None, reset |-> None, multipart |-> None, form |-> None, text |-> None]

MCEntries == [request: MCRequests, at: 0 .. MaxTime]
MCLines   == MCEntries \cup {Chatter}

With(activities, writers, requests, bound) ==
  [activities |-> activities, writers |-> writers, requests |-> requests, bound |-> bound]

MCWorkloads ==
  {With({"chatter", "outage", "close"}, {w1, w2}, {"outside"}, 2),
   With({"rollup", "clock"}, {w1}, {"outside"}, 1),
   With({"rollup"}, {w1}, {"outside", "inside", "large"}, 2),
   With({"rollup", "view"}, {w1}, {"outside"}, 1),
   With({"export", "trending"}, {w1}, {"outside"}, 1),
   With({"view", "clock"}, {}, {}, 0),
   With({}, {w1}, {"json", "reset", "multipart", "form", "text", "large"}, 1)}
=============================================================================
