-------------------------- MODULE ViewPipeline_proofs --------------------------
(***************************************************************************)
(* Proofs about the way from a logged request to a view count, for any     *)
(* number of goroutines, destinations, ranges and requests.  The writer    *)
(* first, alone: mutual exclusion with Close, and that no line arrives     *)
(* more often than it was written.  This needs to count the lines that are *)
(* on their way, because a Write adds to the history when it begins and    *)
(* the line arrives when it ends.  Then the pipeline, which implements the *)
(* writer, and what the refreshes find and store.  After that what the log *)
(* keeps of bodies: that no password is in it, that nothing else is held   *)
(* back, and which views it loses.  At the end the writer while Logstash   *)
(* answers, and the rollup by itself.                                      *)
(***************************************************************************)
EXTENDS LoggedRequests, FiniteSetTheorems, SequenceTheorems, WellFoundedInduction, TLAPS

-----------------------------------------------------------------------------
(* The Logstash writer                                                      *)

\* The goroutines that carry line l.
Carriers(l) == {w \in Writers : wpc[w] # "idle" /\ line[w] = l}

\* Every write of a line is still carried, has arrived, or was dropped.
Accounted == \A l \in Tracked : received[l] + Cardinality(Carriers(l)) <= logged[l]

\* Whoever is past the Lock holds the mutex.
Holding == \A w \in Writers : wpc[w] \in {"check", "dial", "send"} => lock = w

\* A closed writer has no connection and nobody on the way to one.
Shut == closed => conn = "none" /\ \A w \in Writers : wpc[w] \notin {"dial", "send"}

WriterIInv == WriterTypeOK /\ Holding /\ Shut /\ Accounted

-----------------------------------------------------------------------------
(* The lines on their way                                                   *)

\* Carriers can be counted (the goroutines that log).
LEMMA CarriersFinite ==
  ASSUME NEW l
  PROVE  IsFiniteSet(Carriers(l)) /\ Cardinality(Carriers(l)) \in Nat
BY LogstashAssumption, FS_Subset, FS_CardinalityType DEF Carriers

\* The count of a set of carriers that loses at most one member.
LEMMA OneLess ==
  ASSUME NEW S, IsFiniteSet(S), NEW w, NEW T, T = S \ {w}
  PROVE  /\ Cardinality(S) \in Nat
         /\ Cardinality(T) \in Nat
         /\ w \in S => Cardinality(T) = Cardinality(S) - 1
         /\ w \notin S => Cardinality(T) = Cardinality(S)
<1>1. CASE w \in S
  BY <1>1, FS_RemoveElement, FS_CardinalityType
<1>2. CASE w \notin S
  <2>1. T = S  BY <1>2
  <2> QED  BY <1>2, <2>1, FS_CardinalityType
<1> QED  BY <1>1, <1>2

\* The count of a set of carriers that gains a member.
LEMMA OneMore ==
  ASSUME NEW S, IsFiniteSet(S), NEW w, w \notin S, NEW T, T = S \cup {w}
  PROVE  Cardinality(S) \in Nat /\ Cardinality(T) = Cardinality(S) + 1
BY FS_AddElement, FS_CardinalityType

\* A Write that returns puts its line down, whether it arrived or was dropped.
LEMMA PutDown ==
  ASSUME WriterTypeOK, Accounted, NEW w \in Writers, wpc[w] # "idle", Return(w),
         logged' = logged,
         received' = received \/ received' = Counted(received, line[w])
  PROVE  Accounted'
<1> SUFFICES ASSUME NEW l \in Tracked
             PROVE  received'[l] + Cardinality(Carriers(l)') <= logged'[l]
  BY DEF Accounted
<1>1. Carriers(l)' = Carriers(l) \ {w}
  BY LogstashAssumption DEF Carriers, Return, WriterTypeOK
<1>2. w \in Carriers(l) <=> line[w] = l
  BY DEF Carriers
<1>3. received[l] \in Nat /\ logged[l] \in Nat
  BY DEF WriterTypeOK
<1>4. received[l] + Cardinality(Carriers(l)) <= logged[l]
  BY DEF Accounted
<1>5. received'[l] = received[l] \/ (line[w] = l /\ received'[l] = received[l] + 1)
  BY DEF Counted, WriterTypeOK
<1>6. /\ Cardinality(Carriers(l)) \in Nat
      /\ Cardinality(Carriers(l)') \in Nat
      /\ line[w] = l => Cardinality(Carriers(l)') = Cardinality(Carriers(l)) - 1
      /\ line[w] # l => Cardinality(Carriers(l)') = Cardinality(Carriers(l))
  BY <1>1, <1>2, CarriersFinite, OneLess
<1> QED  BY <1>3, <1>4, <1>5, <1>6

\* A step inside Write that returns nothing keeps the lines where they are.
LEMMA CarriedOn ==
  ASSUME WriterTypeOK, Accounted, line' = line, received' = received, logged' = logged,
         \A w \in Writers : wpc'[w] = "idle" <=> wpc[w] = "idle"
  PROVE  Accounted'
<1>1. \A l : Carriers(l)' = Carriers(l)
  BY DEF Carriers
<1> QED  BY <1>1 DEF Accounted

-----------------------------------------------------------------------------
(* The steps of the writer                                                  *)

\* Initially nobody writes and nothing was written.
LEMMA InitStep == WriterInit => WriterIInv
<1> SUFFICES ASSUME WriterInit PROVE WriterIInv  OBVIOUS
<1>1. WriterTypeOK
  BY DEF WriterInit, WriterTypeOK
<1>2. Holding /\ Shut
  BY DEF WriterInit, Holding, Shut
<1>3. \A l \in Tracked : Carriers(l) = {}
  BY DEF WriterInit, Carriers
<1>4. Accounted
  BY <1>3, FS_EmptySet DEF WriterInit, Accounted
<1> QED  BY <1>1, <1>2, <1>4 DEF WriterIInv

\* A goroutine that calls Write picks up its line.
LEMMA WriteKeeps ==
  ASSUME WriterIInv, NEW w \in Writers, NEW l \in Lines, Write(w, l)
  PROVE  WriterIInv'
<1> USE DEF WriterIInv
<1>1. WriterTypeOK'
  BY DEF Write, WriterTypeOK, Counted
<1>2. Holding' /\ Shut'
  BY DEF Write, WriterTypeOK, Holding, Shut
<1>3. ASSUME NEW k \in Tracked
      PROVE  received'[k] + Cardinality(Carriers(k)') <= logged'[k]
  <2>1. received'[k] = received[k] /\ received[k] \in Nat /\ logged[k] \in Nat
    BY DEF Write, WriterTypeOK
  <2>2. received[k] + Cardinality(Carriers(k)) <= logged[k]
    BY DEF Accounted
  <2>3. CASE k = l
    <3>1. Carriers(k)' = Carriers(k) \cup {w} /\ w \notin Carriers(k)
      BY <2>3 DEF Write, WriterTypeOK, Carriers
    <3>2. logged'[k] = logged[k] + 1
      BY <2>3 DEF Write, WriterTypeOK, Counted
    <3>3. Cardinality(Carriers(k)) \in Nat
          /\ Cardinality(Carriers(k)') = Cardinality(Carriers(k)) + 1
      BY <3>1, CarriersFinite, OneMore
    <3> QED  BY <2>1, <2>2, <3>2, <3>3
  <2>4. CASE k # l
    <3>1. Carriers(k)' = Carriers(k)
      BY <2>4 DEF Write, WriterTypeOK, Carriers
    <3>2. logged'[k] = logged[k]
      BY <2>4 DEF Write, WriterTypeOK, Counted
    <3> QED  BY <2>1, <2>2, <3>1, <3>2
  <2> QED  BY <2>3, <2>4
<1> QED  BY <1>1, <1>2, <1>3 DEF Accounted

\* The steps of a goroutine inside Write.
LEMMA WriteStepKeeps ==
  ASSUME WriterIInv, NEW w \in Writers, WriteStep(w)
  PROVE  WriterIInv'
<1> USE DEF WriterIInv
<1>1. CASE Lock(w)
  <2>1. WriterTypeOK'  BY <1>1 DEF Lock, WriterTypeOK
  <2>2. Holding' /\ Shut'
    BY <1>1, LogstashAssumption DEF Lock, WriterTypeOK, Holding, Shut
  <2>3. Accounted'  BY <1>1, CarriedOn DEF Lock, WriterTypeOK
  <2> QED  BY <2>1, <2>2, <2>3
<1>2. CASE EnsureConn(w)
  <2>1. WriterTypeOK'
    BY <1>2 DEF EnsureConn, Return, Goto, WriterTypeOK
  <2>2. Holding' /\ Shut'
    BY <1>2 DEF EnsureConn, Return, Goto, WriterTypeOK, Holding, Shut
  <2>3. CASE Return(w)
    BY <1>2, <2>1, <2>2, <2>3, PutDown DEF EnsureConn
  <2>4. CASE Goto(w, "send") \/ Goto(w, "dial")
    BY <1>2, <2>1, <2>2, <2>4, CarriedOn DEF EnsureConn, Goto, WriterTypeOK
  <2> QED  BY <1>2, <2>3, <2>4 DEF EnsureConn
<1>3. CASE Dial(w)
  <2>1. WriterTypeOK'
    BY <1>3 DEF Dial, Return, Goto, WriterTypeOK
  <2>2. Holding' /\ Shut'
    BY <1>3 DEF Dial, Return, Goto, WriterTypeOK, Holding, Shut
  <2>3. CASE Return(w)
    BY <1>3, <2>1, <2>2, <2>3, PutDown DEF Dial
  <2>4. CASE Goto(w, "send")
    BY <1>3, <2>1, <2>2, <2>4, CarriedOn DEF Dial, Goto, WriterTypeOK
  <2> QED  BY <1>3, <2>3, <2>4 DEF Dial
<1>4. CASE SendArrives(w)
  <2>1. WriterTypeOK'
    BY <1>4 DEF SendArrives, Return, Counted, WriterTypeOK
  <2>2. Holding' /\ Shut'
    BY <1>4 DEF SendArrives, Return, WriterTypeOK, Holding, Shut
  <2> QED  BY <1>4, <2>1, <2>2, PutDown DEF SendArrives
<1>5. CASE SendFails(w) \/ SendLost(w)
  <2>1. WriterTypeOK'
    BY <1>5 DEF SendFails, SendLost, Return, WriterTypeOK
  <2>2. Holding' /\ Shut'
    BY <1>5 DEF SendFails, SendLost, Return, WriterTypeOK, Holding, Shut
  <2> QED  BY <1>5, <2>1, <2>2, PutDown DEF SendFails, SendLost
<1> QED  BY <1>1, <1>2, <1>3, <1>4, <1>5 DEF WriteStep

\* Close, the clock, and what becomes of Logstash.
LEMMA OtherKeeps ==
  ASSUME WriterIInv, Close \/ CoolDownEnds \/ LinkDown \/ LinkUp
  PROVE  WriterIInv'
<1> USE DEF WriterIInv
<1>1. WriterTypeOK'
  BY DEF Close, CoolDownEnds, LinkDown, LinkUp, WriterTypeOK
<1>2. Holding' /\ Shut'
  <2>1. CASE Close
    BY <2>1, LogstashAssumption DEF Close, WriterTypeOK, Holding, Shut
  <2>2. CASE CoolDownEnds \/ LinkDown \/ LinkUp
    BY <2>2 DEF CoolDownEnds, LinkDown, LinkUp, Holding, Shut
  <2> QED  BY <2>1, <2>2
<1>3. Accounted'
  BY CarriedOn DEF Close, CoolDownEnds, LinkDown, LinkUp
<1> QED  BY <1>1, <1>2, <1>3

\* Every step keeps the invariant of the writer.
LEMMA WriterStep == WriterIInv /\ [WriterNext]_writerVars => WriterIInv'
<1> SUFFICES ASSUME WriterIInv, [WriterNext]_writerVars PROVE WriterIInv'
  OBVIOUS
<1>1. CASE UNCHANGED writerVars
  BY <1>1 DEF writerVars, WriterIInv, WriterTypeOK, Holding, Shut, Accounted, Carriers
<1> QED  BY <1>1, WriteKeeps, WriteStepKeeps, OtherKeeps DEF WriterNext

\* The invariant of the writer: the mutex and Close exclude each other, and
\* every line written is carried, arrived or dropped.
THEOREM WriterInvariance == WriterSpec => []WriterIInv
BY InitStep, WriterStep, PTL DEF WriterSpec

\* Nobody uses or opens a connection after Close (LogstashWriter.Close looks
\* at nothing, Write looks at closed under the same mutex).
THEOREM ClosedStaysClosed == WriterSpec => []ClosedForGood
<1>1. WriterIInv => ClosedForGood
  BY DEF WriterIInv, Holding, Shut, ClosedForGood
<1> QED  BY <1>1, WriterInvariance, PTL

\* No line arrives more often than it was written: Write drops, but never
\* repeats, a line.
THEOREM NothingArrivesTwice == WriterSpec => []NoDuplicates
<1>1. WriterIInv => NoDuplicates
  <2> SUFFICES ASSUME WriterIInv, NEW l \in Tracked PROVE received[l] <= logged[l]
    BY DEF NoDuplicates
  <2>1. received[l] \in Nat /\ logged[l] \in Nat
    BY DEF WriterIInv, WriterTypeOK
  <2>2. received[l] + Cardinality(Carriers(l)) <= logged[l]
    BY DEF WriterIInv, Accounted
  <2> QED  BY <2>1, <2>2, CarriersFinite
<1> QED  BY <1>1, WriterInvariance, PTL

-----------------------------------------------------------------------------
(* Counting occurrences                                                     *)

\* There are finitely many entries: requests, and times up to the bound.
LEMMA EntriesFinite == IsFiniteSet(Entries)
<1> DEFINE Stamped == Requests \X Times
           f == [p \in Stamped |-> [request |-> p[1], at |-> p[2]]]
<1>1. IsFiniteSet(Times)
  BY ViewStatsAssumption, FS_Interval DEF Times
<1>2. IsFiniteSet(Stamped)
  BY <1>1, ViewStatsAssumption, FS_Product
<1>3. f \in [Stamped -> Entries]
  BY DEF Entries
<1>4. ASSUME NEW e \in Entries PROVE \E p \in Stamped : f[p] = e
  <2>1. e = [request |-> e.request, at |-> e.at] /\ e.request \in Requests /\ e.at \in Times
    BY DEF Entries
  <2>2. <<e.request, e.at>> \in Stamped /\ f[<<e.request, e.at>>] = e
    BY <2>1
  <2> QED  BY <2>2
<1>5. f \in Surjection(Stamped, Entries)
  BY <1>3, <1>4 DEF Surjection
<1> QED  BY <1>2, <1>5, FS_Surjection

\* What occurs finitely often in finitely many entries can be counted.
LEMMA OccurrencesFinite ==
  ASSUME NEW E \in SUBSET Entries, NEW f, \A e \in E : f[e] \in Nat
  PROVE  IsFiniteSet(Occurrences(f, E))
<1> DEFINE g  == [e \in E |-> {e} \X (1 .. f[e])]
           Ss == {{e} \X (1 .. f[e]) : e \in E}
<1>1. IsFiniteSet(E)
  BY EntriesFinite, FS_Subset
<1>2. g \in Surjection(E, Ss)
  BY DEF Surjection
<1>3. IsFiniteSet(Ss)
  BY <1>1, <1>2, FS_Surjection
<1>4. ASSUME NEW S \in Ss PROVE IsFiniteSet(S)
  <2>1. PICK e \in E : S = {e} \X (1 .. f[e])
    OBVIOUS
  <2>2. IsFiniteSet({e})
    BY FS_Singleton
  <2>3. f[e] \in Int /\ 1 \in Int
    OBVIOUS
  <2>4. IsFiniteSet(1 .. f[e])
    BY <2>3, FS_Interval
  <2> QED  BY <2>1, <2>2, <2>4, FS_Product
<1>5. IsFiniteSet(UNION Ss)
  BY <1>3, <1>4, FS_UNION
<1> QED  BY <1>5 DEF Occurrences

\* A total grows with the counts and with the entries it is taken over (the
\* searches of fetchRangeStats, and the views that were served).
LEMMA TotalGrows ==
  ASSUME NEW F \in SUBSET Entries, NEW E \in SUBSET F, NEW f, NEW g,
         \A e \in E : f[e] \in Nat, \A e \in F : g[e] \in Nat,
         \A e \in E : f[e] <= g[e]
  PROVE  Total(f, E) \in Nat /\ Total(g, F) \in Nat /\ Total(f, E) <= Total(g, F)
<1>1. IsFiniteSet(Occurrences(f, E)) /\ IsFiniteSet(Occurrences(g, F))
  BY OccurrencesFinite
<1>2. Occurrences(f, E) \subseteq Occurrences(g, F)
  <2> SUFFICES ASSUME NEW e \in E, NEW n \in 1 .. f[e]
               PROVE  <<e, n>> \in Occurrences(g, F)
    BY DEF Occurrences
  <2>1. e \in F /\ n \in 1 .. g[e]
    OBVIOUS
  <2> QED  BY <2>1 DEF Occurrences
<1> QED  BY <1>1, <1>2, FS_Subset, FS_CardinalityType DEF Total

-----------------------------------------------------------------------------
(* Type correctness of the statistics                                       *)

\* The parts of StatsTypeOK about refreshes and about answers.
WorkOK ==
  /\ spc \in [Refreshers -> {"idle", "fetch", "upsert", "read"}]
  /\ job \in [Refreshers -> Job \cup {None}]
  /\ \A r \in Refreshers :
       /\ spc[r] = "idle" <=> job[r] = None
       /\ spc[r] \in {"fetch", "upsert"} => job[r].chunk # {}
       /\ spc[r] = "fetch" => job[r].at \in DOMAIN Ranges

AnswersOK ==
  /\ answers = [h \in Askers |-> answers[h]]
  /\ \A h \in Askers : IsAnswer(answers[h])

\* A refresher that takes up a well-formed job.
LEMMA AdvanceTyped ==
  ASSUME WorkOK, NEW r \in Refreshers,
         NEW s \in {"idle", "fetch", "upsert", "read"}, NEW j \in Job \cup {None},
         s = "idle" <=> j = None,
         s \in {"fetch", "upsert"} => j.chunk # {},
         s = "fetch" => j.at \in DOMAIN Ranges,
         Advance(r, s, j)
  PROVE  WorkOK'
<1>1. spc' \in [Refreshers -> {"idle", "fetch", "upsert", "read"}]
  BY DEF WorkOK, Advance
<1>2. job' \in [Refreshers -> Job \cup {None}]
  BY DEF WorkOK, Advance
<1>3. ASSUME NEW x \in Refreshers
      PROVE  /\ spc'[x] = "idle" <=> job'[x] = None
             /\ spc'[x] \in {"fetch", "upsert"} => job'[x].chunk # {}
             /\ spc'[x] = "fetch" => job'[x].at \in DOMAIN Ranges
  <2>1. CASE x = r
    <3>1. spc'[x] = s /\ job'[x] = j
      BY <2>1 DEF WorkOK, Advance
    <3> QED  BY <3>1
  <2>2. CASE x # r
    <3>1. spc'[x] = spc[x] /\ job'[x] = job[x]
      BY <2>2 DEF WorkOK, Advance
    <3> QED  BY <3>1 DEF WorkOK
  <2> QED  BY <2>1, <2>2
<1> QED  BY <1>1, <1>2, <1>3 DEF WorkOK

\* A request that ends with a well-formed answer.
LEMMA AnswerTyped ==
  ASSUME WorkOK, AnswersOK, NEW h \in Refreshers, NEW a, IsAnswer(a), Answer(h, a)
  PROVE  WorkOK' /\ AnswersOK'
<1>1. WorkOK'
  BY AdvanceTyped DEF Answer
<1>2. answers' = [x \in Askers |-> answers'[x]]
  BY DEF Answer, AnswersOK
<1>3. ASSUME NEW x \in Askers PROVE IsAnswer(answers'[x])
  <2>1. answers'[x] = a \/ answers'[x] = answers[x]
    BY DEF Answer, AnswersOK
  <2> QED  BY <2>1 DEF AnswersOK
<1>4. AnswersOK'
  BY <1>2, <1>3 DEF AnswersOK, IsAnswer
<1> QED  BY <1>1, <1>4

\* Rows, or none, for some destinations are an answer.
LEMMA RowsAnswer ==
  ASSUME NEW ids \in SUBSET Dests, NEW a, a = [d \in ids |-> a[d]],
         \A d \in ids : a[d] \in StatsRow \cup {None}
  PROVE  IsAnswer(a)
BY DEF IsAnswer

\* Nothing found yet, for every destination and range.
LEMMA NoViewsTyped == NoViews \in [Dests -> [RangeKeys -> Nat]]
BY DEF NoViews

\* The next chunk of a well-formed job.
LEMMA NextChunkTyped ==
  ASSUME WorkOK, NEW r \in Refreshers, NEW j \in Job, NextChunk(r, j)
  PROVE  WorkOK'
<1>1. PICK chunk \in SUBSET j.todo :
        /\ chunk # {}
        /\ Advance(r, "fetch", [j EXCEPT !.chunk = chunk, !.todo = @ \ chunk,
                                         !.at = 1, !.found = NoViews])
  BY DEF NextChunk
<1> DEFINE k == [j EXCEPT !.chunk = chunk, !.todo = @ \ chunk, !.at = 1, !.found = NoViews]
<1>2. k \in Job /\ k.chunk = chunk /\ k.at = 1
  BY NoViewsTyped DEF Job
<1>3. 1 \in DOMAIN Ranges
  BY RangesAssumption
<1>4. k # None
  BY <1>2, NoneAssumption
<1> HIDE DEF k
<1>5. Advance(r, "fetch", k)
  BY <1>1 DEF k
<1> QED  BY <1>1, <1>2, <1>3, <1>4, <1>5, AdvanceTyped

\* The start of a refresh.
LEMMA RefreshTyped ==
  ASSUME WorkOK, AnswersOK, now \in Times, NEW r \in Refreshers,
         NEW op \in {"rollup", "get", "export"}, NEW ids \in SUBSET Dests,
         NEW old \in StatsRow \cup {None}, Refresh(r, op, ids, old)
  PROVE  WorkOK' /\ AnswersOK'
<1> DEFINE j == [op |-> op, ids |-> ids, todo |-> ids, chunk |-> {}, asof |-> now,
                 at |-> 1, found |-> NoViews, old |-> old]
<1>1. j \in Job
  BY NoViewsTyped DEF Job
<1>2. NextChunk(r, j)
  BY DEF Refresh
<1> HIDE DEF j
<1>3. WorkOK'
  BY <1>1, <1>2, NextChunkTyped
<1>4. AnswersOK'
  BY <1>2 DEF NextChunk, AnswersOK
<1> QED  BY <1>3, <1>4

\* The documents a search counts.
Window(d, k, asof) ==
  {e \in Matches[d] : Duration[k] = 0 \/ e.at + Duration[k] >= asof}

\* A window holds logged requests only.
LEMMA WindowOfEntries ==
  ASSUME NEW d \in Dests, NEW k, NEW asof
  PROVE  Window(d, k, asof) \subseteq Entries
BY DEF Window, Matches

\* A search returns a number, the documents of its window.
LEMMA FoundType ==
  ASSUME index \in [Entries -> Nat], NEW d \in Dests, NEW k, NEW asof
  PROVE  Found(d, k, asof) \in Nat /\ Found(d, k, asof) = Total(index, Window(d, k, asof))
<1>1. Found(d, k, asof) = Total(index, Window(d, k, asof))
  BY DEF Found, Window
<1> DEFINE E == Window(d, k, asof)
<1>2. E \in SUBSET Entries /\ \A e \in E : index[e] \in Nat /\ index[e] <= index[e]
  BY WindowOfEntries
<1> HIDE DEF E
<1>3. Total(index, E) \in Nat
  BY <1>2, TotalGrows
<1> QED  BY <1>1, <1>3 DEF E

\* What a search leaves in the local variables of a refresh.
WithFound(j) ==
  [d \in Dests |-> IF d \in j.chunk
     THEN [j.found[d] EXCEPT ![Ranges[j.at]] = Found(d, Ranges[j.at], j.asof)]
     ELSE j.found[d]]

\* The results of a search are a number for each destination and range.
LEMMA WithFoundTyped ==
  ASSUME index \in [Entries -> Nat], NEW j \in Job, j.at \in DOMAIN Ranges
  PROVE  WithFound(j) \in [Dests -> [RangeKeys -> Nat]]
<1>1. Ranges[j.at] \in RangeKeys
  BY DEF RangeKeys
<1>2. \A d \in Dests : Found(d, Ranges[j.at], j.asof) \in Nat
  BY FoundType
<1>3. j.found \in [Dests -> [RangeKeys -> Nat]]
  BY DEF Job
<1> QED  BY <1>1, <1>2, <1>3 DEF WithFound

\* The two outcomes of a search: the next range, or the upsert.
LEMMA FetchCases ==
  ASSUME WorkOK, NEW r \in Refreshers, Fetch(r)
  PROVE  LET j == job[r]
         IN \/ j.at < Len(Ranges)
               /\ Advance(r, "fetch", [j EXCEPT !.at = @ + 1, !.found = WithFound(j)])
            \/ j.at = Len(Ranges)
               /\ Advance(r, "upsert", [j EXCEPT !.found = WithFound(j)])
<1>1. job[r].at \in DOMAIN Ranges /\ DOMAIN Ranges = 1 .. Len(Ranges) /\ Len(Ranges) \in Nat
  BY RangesAssumption DEF Fetch, WorkOK
<1> QED  BY <1>1 DEF Fetch, WithFound

\* A search leaves a well-formed job (fetchRangeStats).
LEMMA FetchTyped ==
  ASSUME StatsTypeOK, NEW r \in Refreshers, Fetch(r)
  PROVE  WorkOK'
<1>1. WorkOK
  BY DEF StatsTypeOK, WorkOK
<1> DEFINE j == job[r]
           next == [j EXCEPT !.at = @ + 1, !.found = WithFound(j)]
           last == [j EXCEPT !.found = WithFound(j)]
<1>2. j \in Job /\ j.at \in DOMAIN Ranges /\ j.chunk # {}
  BY <1>1 DEF Fetch, WorkOK
<1>3. WithFound(j) \in [Dests -> [RangeKeys -> Nat]]
  BY <1>2, WithFoundTyped DEF StatsTypeOK
<1>4. DOMAIN Ranges = 1 .. Len(Ranges) /\ Len(Ranges) \in Nat
  BY RangesAssumption
<1>5. /\ next \in Job /\ next.chunk = j.chunk /\ next.at = j.at + 1
      /\ last \in Job /\ last.chunk = j.chunk
  <2> DEFINE f == WithFound(j)
  <2>1. f \in [Dests -> [RangeKeys -> Nat]]
    BY <1>3
  <2> HIDE DEF f, j
  <2>2. [j EXCEPT !.at = @ + 1, !.found = f] \in Job
    <3>1. j.at + 1 \in Nat
      BY <1>2, <1>4
    <3> QED  BY <1>2, <2>1, <3>1, Zenon DEF Job
  <2>3. [j EXCEPT !.at = @ + 1, !.found = f].chunk = j.chunk
        /\ [j EXCEPT !.at = @ + 1, !.found = f].at = j.at + 1
    BY <1>2, <2>1 DEF Job
  <2>4. [j EXCEPT !.found = f] \in Job /\ [j EXCEPT !.found = f].chunk = j.chunk
    BY <1>2, <2>1 DEF Job
  <2> QED  BY <2>2, <2>3, <2>4 DEF f
<1>6. next # None /\ last # None
  BY <1>5, NoneAssumption
<1>7. \/ j.at < Len(Ranges) /\ Advance(r, "fetch", next)
      \/ Advance(r, "upsert", last)
  BY <1>1, FetchCases
<1> HIDE DEF j, next, last
<1>8. CASE j.at < Len(Ranges) /\ Advance(r, "fetch", next)
  <2>1. next.at \in DOMAIN Ranges
    BY <1>2, <1>4, <1>5, <1>8
  <2> QED  BY <1>1, <1>2, <1>5, <1>6, <1>8, <2>1, AdvanceTyped
<1>9. CASE Advance(r, "upsert", last)
  BY <1>1, <1>2, <1>5, <1>6, <1>9, AdvanceTyped
<1> QED  BY <1>7, <1>8, <1>9

\* A refresh that is over, or failed.
LEMMA RefreshedTyped ==
  ASSUME WorkOK, AnswersOK, NEW r \in Refreshers, spc[r] # "idle", Refreshed(r)
  PROVE  WorkOK' /\ AnswersOK'
<1>1. job[r] \in Job /\ job[r] # None
  BY DEF WorkOK
<1>2. CASE Advance(r, "idle", None) /\ UNCHANGED answers
  BY <1>2, AdvanceTyped DEF AnswersOK
<1>3. CASE Reading(r, job[r])
  BY <1>1, <1>3, AdvanceTyped DEF Reading, AnswersOK
<1> QED  BY <1>2, <1>3 DEF Refreshed

\* A refresh that fails leaves a well-formed job or answer.
LEMMA RefreshFailedTyped ==
  ASSUME WorkOK, AnswersOK, NEW r \in Refreshers, spc[r] # "idle", RefreshFailed(r)
  PROVE  WorkOK' /\ AnswersOK'
<1>1. job[r] \in Job /\ job[r] # None
  BY DEF WorkOK
<1> DEFINE a == IF job[r].old = None THEN None ELSE [d \in job[r].ids |-> job[r].old]
<1>2. IsAnswer(a)
  BY <1>1 DEF Job, IsAnswer
<1>3. job[r].op \in {"rollup", "get", "export"}
  BY <1>1 DEF Job
<1>4. CASE job[r].op = "get"
  <2>1. Answer(r, a)
    BY <1>4 DEF RefreshFailed
  <2> HIDE DEF a
  <2> QED  BY <1>2, <2>1, AnswerTyped
<1>5. CASE job[r].op = "rollup"
  <2>1. Advance(r, "idle", None) /\ UNCHANGED answers
    BY <1>5 DEF RefreshFailed
  <2> QED  BY <2>1, AdvanceTyped DEF AnswersOK
<1>6. CASE job[r].op = "export"
  <2>1. Reading(r, job[r])
    BY <1>6 DEF RefreshFailed
  <2> QED  BY <1>1, <2>1, AdvanceTyped DEF Reading, AnswersOK
<1> QED  BY <1>3, <1>4, <1>5, <1>6

\* An upsert writes whole rows.
LEMMA UpsertTyped ==
  ASSUME StatsTypeOK, NEW r \in Refreshers, Upsert(r)
  PROVE  stats' \in [Dests -> StatsRow \cup {None}] /\ WorkOK' /\ AnswersOK'
<1>1. WorkOK /\ AnswersOK
  BY DEF StatsTypeOK, WorkOK, AnswersOK
<1>2. job[r] \in Job /\ spc[r] # "idle"
  BY <1>1 DEF Upsert, WorkOK
<1>3. \A d \in Dests : [bucket_end |-> job[r].asof, views |-> job[r].found[d]] \in StatsRow
  BY <1>2 DEF Job, StatsRow
<1>4. stats' \in [Dests -> StatsRow \cup {None}]
  BY <1>3 DEF Upsert, StatsTypeOK
<1>5. CASE Refreshed(r)
  BY <1>1, <1>2, <1>4, <1>5, RefreshedTyped
<1>6. CASE NextChunk(r, job[r])
  <2>1. UNCHANGED answers
    BY <1>6 DEF NextChunk
  <2> QED  BY <1>1, <1>2, <1>4, <1>6, <2>1, NextChunkTyped DEF AnswersOK
<1> QED  BY <1>5, <1>6 DEF Upsert

\* The SELECT that follows a refresh.
LEMMA ReadTyped ==
  ASSUME StatsTypeOK, NEW h \in Refreshers, spc[h] = "read",
         Read(h) \/ ReadFails(h)
  PROVE  WorkOK' /\ AnswersOK'
<1>1. WorkOK /\ AnswersOK
  BY DEF StatsTypeOK, WorkOK, AnswersOK
<1>2. job[h] \in Job
  BY <1>1 DEF WorkOK
<1>3. CASE Read(h)
  <2> DEFINE a == [d \in job[h].ids |-> stats[d]]
  <2>1. IsAnswer(a)
    BY <1>2 DEF Job, StatsTypeOK, IsAnswer
  <2>2. Answer(h, a)
    BY <1>3 DEF Read
  <2> HIDE DEF a
  <2> QED  BY <1>1, <2>1, <2>2, AnswerTyped
<1>4. CASE ReadFails(h)
  <2>1. Answer(h, None) /\ IsAnswer(None)
    BY <1>4 DEF ReadFails, IsAnswer
  <2> QED  BY <1>1, <2>1, AnswerTyped
<1> QED  BY <1>3, <1>4

\* The requests for statistics.
LEMMA AskTyped ==
  ASSUME StatsTypeOK, NEW h \in Askers, View(h) \/ Export(h) \/ Rank(h)
  PROVE  WorkOK' /\ AnswersOK'
<1>1. WorkOK /\ AnswersOK /\ now \in Times /\ h \in Refreshers
  BY DEF StatsTypeOK, WorkOK, AnswersOK, Refreshers
<1>2. stats \in [Dests -> StatsRow \cup {None}]
  BY DEF StatsTypeOK
<1>3. ASSUME NEW d \in Dests, NEW force \in BOOLEAN, GetViewStats(h, d, force)
      PROVE  WorkOK' /\ AnswersOK'
  <2>1. CASE Refresh(h, "get", {d}, stats[d])
    BY <1>1, <1>2, <2>1, RefreshTyped
  <2>2. CASE Answer(h, [x \in {d} |-> stats[x]])
    <3> DEFINE a == [x \in {d} |-> stats[x]]
    <3>1. IsAnswer(a)
      BY <1>2 DEF IsAnswer
    <3> HIDE DEF a
    <3>2. Answer(h, a)
      BY <2>2 DEF a
    <3> QED  BY <1>1, <3>1, <3>2, AnswerTyped
  <2> QED  BY <1>3, <2>1, <2>2 DEF GetViewStats
<1>4. ASSUME NEW ids \in SUBSET Dests \ {{}}, ExportPopularity(h, ids)
      PROVE  WorkOK' /\ AnswersOK'
  BY <1>1, <1>4, RefreshTyped DEF ExportPopularity
<1>5. ASSUME NEW k \in RangeKeys, NEW limit, Trending(h, k, limit)
      PROVE  WorkOK' /\ AnswersOK'
  <2>1. PICK top \in SUBSET Dests : Answer(h, [d \in top |-> stats[d]])
    BY <1>5 DEF Trending
  <2> DEFINE a == [d \in top |-> stats[d]]
  <2>2. IsAnswer(a)
    BY <1>2 DEF IsAnswer
  <2> HIDE DEF a
  <2>3. Answer(h, a)
    BY <2>1 DEF a
  <2> QED  BY <1>1, <2>2, <2>3, AnswerTyped
<1> QED  BY <1>3, <1>4, <1>5 DEF View, Export, Rank

\* What leaves the workers and the answers well-formed.
LEMMA StatsTypeFrom ==
  ASSUME StatsTypeOK, now' \in Times, index' \in [Entries -> Nat],
         stats' \in [Dests -> StatsRow \cup {None}], faults' \in 0 .. MaxFaults,
         WorkOK', AnswersOK'
  PROVE  StatsTypeOK'
BY DEF StatsTypeOK, WorkOK, AnswersOK, IsAnswer

\* Every step of the statistics keeps their types.
LEMMA StatsActsTyped ==
  ASSUME StatsTypeOK, StatsActs
  PROVE  StatsTypeOK'
<1>1. /\ WorkOK /\ AnswersOK /\ now \in Times /\ index \in [Entries -> Nat]
      /\ stats \in [Dests -> StatsRow \cup {None}] /\ faults \in 0 .. MaxFaults
  BY DEF StatsTypeOK, WorkOK, AnswersOK
<1>2. Rollup \in Refreshers /\ Askers \subseteq Refreshers
  BY DEF Refreshers
<1>3. ASSUME Fault PROVE faults' \in 0 .. MaxFaults
  BY <1>1, <1>3, ViewStatsAssumption DEF Fault
<1>4. CASE RollupTick
  <2>1. WorkOK' /\ AnswersOK'
    BY <1>1, <1>2, <1>4, RefreshTyped DEF RollupTick
  <2> QED  BY <1>1, <1>4, <2>1, StatsTypeFrom DEF RollupTick
<1>5. ASSUME NEW r \in Refreshers, Fetch(r) PROVE StatsTypeOK'
  <2>1. WorkOK'
    BY <1>5, FetchTyped
  <2>2. AnswersOK'
    BY <1>1, <1>5 DEF Fetch, AnswersOK
  <2> QED  BY <1>1, <1>5, <2>1, <2>2, StatsTypeFrom DEF Fetch
<1>6. ASSUME NEW r \in Refreshers, Upsert(r) PROVE StatsTypeOK'
  BY <1>1, <1>6, UpsertTyped, StatsTypeFrom DEF Upsert
<1>7. ASSUME NEW r \in Refreshers, Read(r) PROVE StatsTypeOK'
  <2>1. WorkOK' /\ AnswersOK'
    BY <1>7, ReadTyped DEF Read
  <2> QED  BY <1>1, <1>7, <2>1, StatsTypeFrom DEF Read
<1>8. ASSUME NEW r \in Refreshers, RefreshFails(r) PROVE StatsTypeOK'
  <2>1. spc[r] # "idle"
    BY <1>8 DEF RefreshFails
  <2>2. WorkOK' /\ AnswersOK'
    BY <1>1, <1>8, <2>1, RefreshFailedTyped DEF RefreshFails
  <2> QED  BY <1>1, <1>3, <1>8, <2>2, StatsTypeFrom DEF RefreshFails
<1>9. ASSUME NEW h \in Askers, ReadFails(h) PROVE StatsTypeOK'
  <2>1. WorkOK' /\ AnswersOK'
    BY <1>2, <1>9, ReadTyped DEF ReadFails
  <2> QED  BY <1>1, <1>3, <1>9, <2>1, StatsTypeFrom DEF ReadFails
<1>10. ASSUME NEW h \in Askers, View(h) \/ Export(h) \/ Rank(h) PROVE StatsTypeOK'
  <2>1. WorkOK' /\ AnswersOK'
    BY <1>10, AskTyped
  <2>2. UNCHANGED <<now, index, stats, faults>>
    BY <1>10 DEF View, Export, Rank, GetViewStats, ExportPopularity, Trending
  <2> QED  BY <1>1, <2>1, <2>2, StatsTypeFrom
<1>11. CASE Tick
  <2>1. now' \in Times
    BY <1>1, <1>11, ViewStatsAssumption DEF Tick, Times
  <2>2. WorkOK' /\ AnswersOK'
    BY <1>1, <1>11 DEF Tick, WorkOK, AnswersOK
  <2> QED  BY <1>1, <1>11, <2>1, <2>2, StatsTypeFrom DEF Tick
<1> QED  BY <1>4, <1>5, <1>6, <1>7, <1>8, <1>9, <1>10, <1>11 DEF StatsActs, RefreshStep

-----------------------------------------------------------------------------
(* The pipeline implements the writer                                       *)

\* What the statistics and the workload are, whatever the writer does.
StatsWellTyped == StatsTypeOK /\ serving \in Workloads

\* The migrated schema and the idle process are well-formed.
LEMMA StatsInitTyped == PipelineInit => StatsWellTyped
<1> SUFFICES ASSUME PipelineInit PROVE StatsWellTyped  OBVIOUS
<1>1. now \in Times /\ faults \in 0 .. MaxFaults /\ index \in [Entries -> Nat]
  BY ViewStatsAssumption DEF PipelineInit, StatsInit, Times
<1>2. stats \in [Dests -> StatsRow \cup {None}]
  BY DEF PipelineInit, StatsInit
<1>3. WorkOK
  BY DEF PipelineInit, StatsInit, WorkOK
<1>4. AnswersOK
  BY DEF PipelineInit, StatsInit, AnswersOK, IsAnswer
<1> QED
  BY <1>1, <1>2, <1>3, <1>4
  DEF StatsWellTyped, StatsTypeOK, WorkOK, AnswersOK, PipelineInit

\* A step elsewhere leaves the types alone.
LEMMA UntouchedTyped ==
  ASSUME StatsTypeOK, UNCHANGED statsVars
  PROVE  StatsTypeOK'
<1>1. UNCHANGED now /\ UNCHANGED index /\ UNCHANGED stats /\ UNCHANGED spc
      /\ UNCHANGED job /\ UNCHANGED answers /\ UNCHANGED faults
  BY DEF statsVars
<1> QED  BY <1>1 DEF StatsTypeOK, IsAnswer

\* Every step of the pipeline keeps the types of the statistics.
LEMMA StatsTyped ==
  ASSUME StatsWellTyped, [PipelineNext]_pipelineVars
  PROVE  StatsWellTyped'
<1>1. serving' = serving
  BY DEF PipelineNext, pipelineVars
<1>2. StatsTypeOK
  BY DEF StatsWellTyped
<1>3. CASE UNCHANGED statsVars
  BY <1>1, <1>2, <1>3, UntouchedTyped DEF StatsWellTyped
<1>4. ASSUME NEW e \in Entries, Ingest(e) PROVE StatsWellTyped'
  <2>1. index' \in [Entries -> Nat]
    BY <1>2, <1>4 DEF Ingest, StatsTypeOK
  <2>2. WorkOK' /\ AnswersOK'
    BY <1>2, <1>4 DEF Ingest, StatsTypeOK, WorkOK, AnswersOK
  <2>3. StatsTypeOK'
    BY <1>2, <1>4, <2>1, <2>2, StatsTypeFrom DEF Ingest, StatsTypeOK
  <2> QED  BY <1>1, <2>3 DEF StatsWellTyped
<1>5. CASE StatsActs
  BY <1>1, <1>2, <1>5, StatsActsTyped DEF StatsWellTyped
<1>6. CASE UNCHANGED pipelineVars
  BY <1>3, <1>6 DEF pipelineVars
<1> QED
  BY <1>3, <1>4, <1>5, <1>6 DEF PipelineNext, LogRequest, LogChatter, WriterActs

\* A request, a line of anybody else, and what the writer does by itself are
\* steps of the writer; the others leave it alone.
LEMMA WriterSteps ==
  ASSUME StatsWellTyped, [PipelineNext]_pipelineVars
  PROVE  [WriterNext]_writerVars
<1>1. serving.writers \subseteq Writers /\ serving.requests \subseteq Requests
  BY PipelineAssumption DEF StatsWellTyped
<1>2. ASSUME NEW w \in serving.writers, LogRequest(w) PROVE WriterNext
  <2>1. PICK r \in serving.requests : Write(w, [request |-> r, at |-> now])
    BY <1>2 DEF LogRequest
  <2>2. [request |-> r, at |-> now] \in Lines
    BY <1>1, PipelineAssumption DEF Entries, StatsWellTyped, StatsTypeOK
  <2> QED  BY <1>1, <2>1, <2>2 DEF WriterNext
<1>3. ASSUME NEW w \in serving.writers, LogChatter(w) PROVE WriterNext
  BY <1>1, <1>3, PipelineAssumption DEF LogChatter, WriterNext
<1>4. ASSUME WriterActs PROVE WriterNext
  BY <1>4 DEF WriterActs, WriterNext
<1>5. ASSUME (\E e \in Entries : Ingest(e)) \/ StatsActs \/ UNCHANGED pipelineVars
      PROVE  UNCHANGED writerVars
  BY <1>5 DEF Ingest, StatsActs, pipelineVars
<1> QED  BY <1>2, <1>3, <1>4, <1>5 DEF PipelineNext

\* The types of the statistics are an invariant of the pipeline.
LEMMA StatsTypes == PipelineSpec => []StatsWellTyped
BY StatsInitTyped, StatsTyped, PTL DEF PipelineSpec

\* The pipeline implements the writer: whatever the request log, the ingest
\* and the view statistics do, LogstashWriter behaves as it does alone.
THEOREM PipelineImplementsWriter == PipelineSpec => WriterSpec
<1>1. PipelineInit => WriterInit
  BY DEF PipelineInit
<1>2. StatsWellTyped /\ [PipelineNext]_pipelineVars => [WriterNext]_writerVars
  BY WriterSteps
<1> QED  BY <1>1, <1>2, StatsTypes, PTL DEF PipelineSpec, WriterSpec

\* Nothing is sent after Close and no line arrives twice, whatever is logged
\* and counted around the writer.
THEOREM PipelineKeepsWriter == PipelineSpec => [](ClosedForGood /\ NoDuplicates)
BY PipelineImplementsWriter, ClosedStaysClosed, NothingArrivesTwice, PTL

\* Type correctness of the pipeline (the tables, the local variables of
\* every refresh, the answers and the writer).
THEOREM PipelineTypeCorrect == PipelineSpec => []PipelineTypeOK
<1>1. StatsWellTyped /\ WriterIInv => PipelineTypeOK
  BY DEF StatsWellTyped, WriterIInv, PipelineTypeOK
<1> QED  BY <1>1, StatsTypes, PipelineImplementsWriter, WriterInvariance, PTL

-----------------------------------------------------------------------------
(* What a refresh finds                                                     *)

\* A row whose shorter ranges do not exceed its longer ones.
NestedRow(row) ==
  row # None => \A i, j \in DOMAIN Ranges : i < j =>
                  row.views[Ranges[i]] <= row.views[Ranges[j]]

\* The ranges a refresh at step s with the local variables j has searched for
\* the chunk at hand.
Searched(s, j) == {i \in DOMAIN Ranges : s = "upsert" \/ i < j.at}

\* What it has found there is nested, and no more than what a search of the
\* same window would find in ix.
SearchOK(s, j, ix) ==
  s \in {"fetch", "upsert"} => \A d \in j.chunk, n \in Searched(s, j) :
    /\ j.found[d][Ranges[n]] <= Total(ix, Window(d, Ranges[n], j.asof))
    /\ \A m \in Searched(s, j) : m < n => j.found[d][Ranges[m]] <= j.found[d][Ranges[n]]

\* It has counted no view that was not served, as lg has it.
ServedOK(j, lg) ==
  \A d \in Dests, k \in RangeKeys : j.found[d][k] <= Total(lg, Matches[d])

\* Besides, the row it may fall back to is nested.
JobOK(s, j, ix, lg) ==
  j # None => SearchOK(s, j, ix) /\ ServedOK(j, lg) /\ NestedRow(j.old)

JobsOK == \A r \in Refreshers : JobOK(spc[r], job[r], index, logged)

\* Nothing is in the index that did not arrive in Logstash.
Ingested == \A e \in Entries : index[e] <= received[e]

StatsNested == \A d \in Dests : NestedRow(stats[d])

AnswersNested ==
  \A h \in Askers : answers[h] # None =>
    \A d \in DOMAIN answers[h] : NestedRow(answers[h][d])

\* A row counts requests that match, each of them once.
OnlyMatching ==
  \A d \in Dests : stats[d] # None =>
    \A k \in RangeKeys : stats[d].views[k] <= Total(logged, Matches[d])

CountInv ==
  /\ Ingested
  /\ JobsOK
  /\ StatsNested /\ AnswersNested
  /\ OnlyMatching

\* A search of a longer range finds no less.
LEMMA WindowsNested ==
  ASSUME NEW i \in DOMAIN Ranges, NEW j \in DOMAIN Ranges, i < j,
         NEW d \in Dests, NEW t \in Times
  PROVE  Window(d, Ranges[i], t) \subseteq Window(d, Ranges[j], t)
<1>1. NoLonger(Duration[Ranges[i]], Duration[Ranges[j]])
  BY RangesAssumption
<1>2. Duration[Ranges[i]] \in Nat /\ Duration[Ranges[j]] \in Nat
  BY RangesAssumption DEF RangeKeys
<1>3. ASSUME NEW e \in Matches[d] PROVE e.at \in Nat
  BY <1>3, ViewStatsAssumption DEF Matches, Entries, Times
<1>4. t \in Nat
  BY ViewStatsAssumption DEF Times
<1> QED  BY <1>1, <1>2, <1>3, <1>4 DEF Window, NoLonger

\* The requests a search can find.
LEMMA WindowMatches ==
  ASSUME NEW d \in Dests, NEW k, NEW t
  PROVE  Window(d, k, t) \subseteq Matches[d] /\ Matches[d] \subseteq Entries
BY DEF Window, Matches

\* The index is fed by what arrived, and that by what was logged.
LEMMA IndexLogged ==
  ASSUME StatsWellTyped, WriterIInv, Ingested, NEW e \in Entries
  PROVE  /\ index[e] \in Nat /\ received[e] \in Nat /\ logged[e] \in Nat
         /\ index[e] <= logged[e]
<1>1. e \in Tracked
  BY PipelineAssumption
<1>2. index[e] \in Nat /\ received[e] \in Nat /\ logged[e] \in Nat
  BY <1>1 DEF StatsWellTyped, StatsTypeOK, WriterIInv, WriterTypeOK
<1>3. received[e] + Cardinality(Carriers(e)) <= logged[e]
  BY <1>1 DEF WriterIInv, Accounted
<1>4. Cardinality(Carriers(e)) \in Nat
  BY CarriersFinite
<1>5. index[e] <= received[e]
  BY DEF Ingested
<1> QED  BY <1>2, <1>3, <1>4, <1>5

\* A search finds no more than was served.
LEMMA FoundServed ==
  ASSUME StatsWellTyped, WriterIInv, Ingested,
         NEW d \in Dests, NEW k, NEW t
  PROVE  Total(index, Window(d, k, t)) <= Total(logged, Matches[d])
<1> DEFINE E == Window(d, k, t)
           F == Matches[d]
<1>1. E \subseteq F /\ F \subseteq Entries
  BY WindowMatches
<1>2. \A e \in Entries : index[e] \in Nat /\ logged[e] \in Nat /\ index[e] <= logged[e]
  BY IndexLogged
<1> HIDE DEF E, F
<1>3. Total(index, E) <= Total(logged, F)
  BY <1>1, <1>2, TotalGrows
<1> QED  BY <1>3 DEF E, F

-----------------------------------------------------------------------------
(* The index and the histories only grow                                    *)

\* The writer takes back neither a write nor an arrival.
LEMMA HistoriesGrow ==
  ASSUME WriterTypeOK, [WriterNext]_writerVars, NEW l \in Tracked
  PROVE  received[l] <= received'[l] /\ logged[l] <= logged'[l]
<1>1. received[l] \in Nat /\ logged[l] \in Nat
  BY DEF WriterTypeOK
<1>2. CASE UNCHANGED <<received, logged>>
  BY <1>1, <1>2
<1>3. ASSUME NEW w \in Writers, NEW k \in Lines, Write(w, k)
      PROVE  received[l] <= received'[l] /\ logged[l] <= logged'[l]
  BY <1>1, <1>3 DEF Write, Counted, WriterTypeOK
<1>4. ASSUME NEW w \in Writers, SendArrives(w)
      PROVE  received[l] <= received'[l] /\ logged[l] <= logged'[l]
  BY <1>1, <1>4 DEF SendArrives, Counted, WriterTypeOK
<1>5. ASSUME NEW w \in Writers,
             Lock(w) \/ EnsureConn(w) \/ Dial(w) \/ SendFails(w) \/ SendLost(w)
      PROVE  UNCHANGED <<received, logged>>
  BY <1>5 DEF Lock, EnsureConn, Dial, SendFails, SendLost
<1>6. ASSUME Close \/ CoolDownEnds \/ LinkDown \/ LinkUp \/ UNCHANGED writerVars
      PROVE  UNCHANGED <<received, logged>>
  BY <1>6 DEF Close, CoolDownEnds, LinkDown, LinkUp, writerVars
<1> QED  BY <1>2, <1>3, <1>4, <1>5, <1>6 DEF WriterNext, WriteStep

\* Of the statistics, the index is written by Ingest alone, and the rest by
\* StatsActs alone.
LEMMA WhoWrites ==
  ASSUME [PipelineNext]_pipelineVars
  PROVE  \/ \E e \in Entries : Ingest(e)
         \/ StatsActs
         \/ UNCHANGED statsVars
BY DEF PipelineNext, LogRequest, LogChatter, WriterActs, pipelineVars

\* No request for statistics writes to the log index.
LEMMA StatsActsKeepIndex ==
  ASSUME StatsActs
  PROVE  UNCHANGED index
BY DEF StatsActs, RollupTick, RefreshStep, Fetch, Upsert, Read, RefreshFails, ReadFails,
       View, GetViewStats, Export, ExportPopularity, Rank, Trending, Tick

\* Documents and writes become more, and no document is ahead of its arrival.
LEMMA CountsGrow ==
  ASSUME StatsWellTyped, WriterIInv, Ingested, [PipelineNext]_pipelineVars,
         NEW e \in Entries
  PROVE  /\ index[e] <= index'[e]
         /\ logged[e] <= logged'[e]
         /\ index'[e] <= received'[e]
<1>1. e \in Tracked
  BY PipelineAssumption
<1>2. index[e] \in Nat /\ received[e] \in Nat /\ logged[e] \in Nat
  BY <1>1, IndexLogged
<1>3. received[e] <= received'[e] /\ logged[e] <= logged'[e]
  BY <1>1, WriterSteps, HistoriesGrow DEF WriterIInv
<1>4. received'[e] \in Nat
  <2>1. WriterTypeOK'
    <3>1. [WriterNext]_writerVars
      BY WriterSteps
    <3> QED  BY <3>1, WriterStep DEF WriterIInv
  <2> QED  BY <1>1, <2>1 DEF WriterTypeOK
<1>5. index[e] <= received[e]
  BY DEF Ingested
<1>6. CASE UNCHANGED index
  BY <1>2, <1>3, <1>4, <1>5, <1>6
<1>7. ASSUME NEW x \in Entries, Ingest(x)
      PROVE  index[e] <= index'[e] /\ index'[e] <= received'[e]
  <2>1. received' = received
    BY <1>7 DEF Ingest, writerVars
  <2>2. index'[e] = IF e = x THEN index[e] + 1 ELSE index[e]
    BY <1>7 DEF Ingest, StatsWellTyped, StatsTypeOK
  <2>3. e = x => index[e] < received[e]
    BY <1>7 DEF Ingest
  <2> QED  BY <1>2, <1>5, <2>1, <2>2, <2>3
<1> QED  BY <1>3, <1>6, <1>7, WhoWrites, StatsActsKeepIndex DEF statsVars

\* And so do their totals over any set of entries.
LEMMA TotalsGrow ==
  ASSUME StatsWellTyped, WriterIInv, Ingested, [PipelineNext]_pipelineVars,
         NEW E \in SUBSET Entries
  PROVE  /\ Total(index, E) \in Nat /\ Total(index', E) \in Nat
         /\ Total(index, E) <= Total(index', E)
         /\ Total(logged, E) \in Nat /\ Total(logged', E) \in Nat
         /\ Total(logged, E) <= Total(logged', E)
<1>1. \A e \in E : /\ index[e] \in Nat /\ logged[e] \in Nat
                   /\ index[e] <= index'[e] /\ logged[e] <= logged'[e]
  BY IndexLogged, CountsGrow
<1>2. \A e \in E : index'[e] \in Nat
  BY StatsTyped DEF StatsWellTyped, StatsTypeOK
<1>3. \A e \in E : logged'[e] \in Nat
  <2>1. [WriterNext]_writerVars
    BY WriterSteps
  <2>2. WriterTypeOK'
    BY <2>1, WriterStep DEF WriterIInv
  <2> QED  BY <2>2, PipelineAssumption DEF WriterTypeOK
<1>4. Total(index, E) \in Nat /\ Total(index', E) \in Nat /\ Total(index, E) <= Total(index', E)
  BY <1>1, <1>2, TotalGrows
<1>5. Total(logged, E) \in Nat /\ Total(logged', E) \in Nat /\ Total(logged, E) <= Total(logged', E)
  BY <1>1, <1>3, TotalGrows
<1> QED  BY <1>4, <1>5

-----------------------------------------------------------------------------
(* Refreshes                                                                *)

\* What a refresh has found stays right while the index and the log grow.
LEMMA JobKept ==
  ASSUME StatsWellTyped, WriterIInv, Ingested, [PipelineNext]_pipelineVars,
         NEW s, NEW j \in Job, JobOK(s, j, index, logged)
  PROVE  JobOK(s, j, index', logged')
<1>1. j # None
  BY NoneAssumption
<1>2. SearchOK(s, j, index) /\ ServedOK(j, logged) /\ NestedRow(j.old)
  BY <1>1 DEF JobOK
<1>3. j.chunk \subseteq Dests /\ j.found \in [Dests -> [RangeKeys -> Nat]]
  BY DEF Job
<1>4. ASSUME NEW d \in j.chunk, NEW n \in Searched(s, j), s \in {"fetch", "upsert"}
      PROVE  j.found[d][Ranges[n]] <= Total(index', Window(d, Ranges[n], j.asof))
  <2> DEFINE W == Window(d, Ranges[n], j.asof)
  <2>1. W \subseteq Entries
    BY <1>3, WindowOfEntries
  <2>2. j.found[d][Ranges[n]] \in Nat
    BY <1>3 DEF Searched, RangeKeys
  <2>3. j.found[d][Ranges[n]] <= Total(index, W)
    BY <1>2, <1>4 DEF SearchOK
  <2> HIDE DEF W
  <2>4. Total(index, W) \in Nat /\ Total(index', W) \in Nat /\ Total(index, W) <= Total(index', W)
    BY <2>1, TotalsGrow
  <2>5. j.found[d][Ranges[n]] <= Total(index', W)
    BY <2>2, <2>3, <2>4
  <2> QED  BY <2>5 DEF W
<1>5. SearchOK(s, j, index')
  BY <1>2, <1>4 DEF SearchOK
<1>6. ASSUME NEW d \in Dests, NEW k \in RangeKeys
      PROVE  j.found[d][k] <= Total(logged', Matches[d])
  <2>1. Matches[d] \subseteq Entries
    BY WindowMatches
  <2>2. /\ Total(logged, Matches[d]) \in Nat /\ Total(logged', Matches[d]) \in Nat
        /\ Total(logged, Matches[d]) <= Total(logged', Matches[d])
    BY <2>1, TotalsGrow
  <2>3. j.found[d][k] \in Nat
    BY <1>3
  <2>4. j.found[d][k] <= Total(logged, Matches[d])
    BY <1>2 DEF ServedOK
  <2> QED  BY <2>2, <2>3, <2>4
<1> QED  BY <1>2, <1>5, <1>6 DEF JobOK, ServedOK

\* The jobs stay right when one refresher takes up a job that is.
LEMMA JobsKept ==
  ASSUME StatsWellTyped, WriterIInv, Ingested, JobsOK, [PipelineNext]_pipelineVars,
         NEW r \in Refreshers, NEW s, NEW j, JobOK(s, j, index', logged'),
         Advance(r, s, j)
  PROVE  JobsOK'
<1> SUFFICES ASSUME NEW x \in Refreshers
             PROVE  JobOK(spc'[x], job'[x], index', logged')
  BY DEF JobsOK
<1>1. spc \in [Refreshers -> {"idle", "fetch", "upsert", "read"}]
      /\ job \in [Refreshers -> Job \cup {None}]
  BY DEF StatsWellTyped, StatsTypeOK
<1>2. CASE x = r
  <2>1. spc'[x] = s /\ job'[x] = j
    BY <1>1, <1>2 DEF Advance
  <2> QED  BY <2>1
<1>3. CASE x # r
  <2>1. spc'[x] = spc[x] /\ job'[x] = job[x]
    BY <1>1, <1>3 DEF Advance
  <2>2. CASE job[x] = None
    BY <2>1, <2>2 DEF JobOK
  <2>3. CASE job[x] # None
    <3>1. job[x] \in Job /\ JobOK(spc[x], job[x], index, logged)
      BY <1>1, <2>3 DEF JobsOK
    <3> QED  BY <2>1, <3>1, JobKept
  <2> QED  BY <2>2, <2>3
<1> QED  BY <1>2, <1>3

\* A step that leaves the refreshes alone.
LEMMA JobsUntouched ==
  ASSUME StatsWellTyped, WriterIInv, Ingested, JobsOK, [PipelineNext]_pipelineVars,
         UNCHANGED <<spc, job>>
  PROVE  JobsOK'
<1> SUFFICES ASSUME NEW x \in Refreshers
             PROVE  JobOK(spc'[x], job'[x], index', logged')
  BY DEF JobsOK
<1>1. job[x] \in Job \cup {None} /\ JobOK(spc[x], job[x], index, logged)
  BY DEF StatsWellTyped, StatsTypeOK, JobsOK
<1>2. CASE job[x] = None
  BY <1>2 DEF JobOK
<1>3. CASE job[x] # None
  BY <1>1, <1>3, JobKept
<1> QED  BY <1>2, <1>3

\* A step of the statistics, as the lemmas below see it.
Context ==
  /\ StatsWellTyped /\ WriterIInv /\ CountInv
  /\ [PipelineNext]_pipelineVars
  /\ StatsActs

\* A chunk nothing was searched for yet.
LEMMA NextChunkKeeps ==
  ASSUME Context, NEW r \in Refreshers, NEW j \in Job, NestedRow(j.old), NextChunk(r, j)
  PROVE  JobsOK'
<1>1. PICK chunk \in SUBSET j.todo :
        Advance(r, "fetch", [j EXCEPT !.chunk = chunk, !.todo = @ \ chunk,
                                      !.at = 1, !.found = NoViews])
  BY DEF NextChunk
<1> DEFINE k == [j EXCEPT !.chunk = chunk, !.todo = @ \ chunk, !.at = 1, !.found = NoViews]
<1>2. k.at = 1 /\ k.found = NoViews /\ k.old = j.old
  BY DEF Job
<1>3. Advance(r, "fetch", k)
  BY <1>1
<1> HIDE DEF k
<1>4. Searched("fetch", k) = {}
  BY <1>2, RangesAssumption DEF Searched
<1>5. SearchOK("fetch", k, index')
  BY <1>4 DEF SearchOK
<1>6. ASSUME NEW d \in Dests, NEW key \in RangeKeys
      PROVE  k.found[d][key] <= Total(logged', Matches[d])
  <2>1. Total(logged', Matches[d]) \in Nat
    BY WindowMatches, TotalsGrow DEF Context, CountInv
  <2>2. k.found[d][key] = 0
    BY <1>2 DEF NoViews
  <2> QED  BY <2>1, <2>2
<1>7. JobOK("fetch", k, index', logged')
  BY <1>2, <1>5, <1>6 DEF JobOK, ServedOK
<1> QED  BY <1>3, <1>7, JobsKept DEF Context, CountInv

\* A refresh begins with nothing found.
LEMMA RefreshKeeps ==
  ASSUME Context, NEW r \in Refreshers, NEW op \in {"rollup", "get", "export"},
         NEW ids \in SUBSET Dests, NEW old \in StatsRow \cup {None}, NestedRow(old),
         Refresh(r, op, ids, old)
  PROVE  JobsOK' /\ UNCHANGED answers
<1> DEFINE j == [op |-> op, ids |-> ids, todo |-> ids, chunk |-> {}, asof |-> now,
                 at |-> 1, found |-> NoViews, old |-> old]
<1>1. j \in Job /\ j.old = old
  BY NoViewsTyped DEF Job, Context, StatsWellTyped, StatsTypeOK
<1>2. NextChunk(r, j)
  BY DEF Refresh
<1> HIDE DEF j
<1>3. UNCHANGED answers
  BY <1>2 DEF NextChunk
<1> QED  BY <1>1, <1>2, <1>3, NextChunkKeeps

\* A refresher that stops, or has the rows left to read.
LEMMA IdleKeeps ==
  ASSUME Context, NEW r \in Refreshers, Advance(r, "idle", None)
  PROVE  JobsOK'
<1>1. JobOK("idle", None, index', logged')
  BY DEF JobOK
<1> QED  BY <1>1, JobsKept DEF Context, CountInv

\* A refresh that is over still has what it found.
LEMMA ReadingKeeps ==
  ASSUME Context, NEW r \in Refreshers, spc[r] # "idle", Reading(r, job[r])
  PROVE  JobsOK'
<1>1. job[r] \in Job /\ JobOK(spc[r], job[r], index, logged)
  BY DEF Context, StatsWellTyped, StatsTypeOK, CountInv, JobsOK
<1> DEFINE j == job[r]
<1>2. JobOK(spc[r], j, index', logged')
  BY <1>1, JobKept DEF Context, CountInv
<1>3. JobOK("read", j, index', logged')
  BY <1>2 DEF JobOK, SearchOK
<1>4. Advance(r, "read", j)
  BY DEF Reading
<1> HIDE DEF j
<1> QED  BY <1>3, <1>4, JobsKept DEF Context, CountInv

\* An answer of nested rows.
LEMMA AnswerKeeps ==
  ASSUME Context, NEW h \in Refreshers, NEW a,
         a # None => \A d \in DOMAIN a : NestedRow(a[d]), Answer(h, a)
  PROVE  JobsOK' /\ AnswersNested'
<1>1. JobsOK'
  BY IdleKeeps DEF Answer
<1>2. answers = [x \in Askers |-> answers[x]]
  BY DEF Context, StatsWellTyped, StatsTypeOK
<1>3. ASSUME NEW x \in Askers, answers'[x] # None, NEW d \in DOMAIN answers'[x]
      PROVE  NestedRow(answers'[x][d])
  <2>1. answers'[x] = a \/ answers'[x] = answers[x]
    BY <1>2 DEF Answer
  <2> QED  BY <1>3, <2>1 DEF Context, CountInv, AnswersNested
<1>4. AnswersNested'
  BY <1>3 DEF AnswersNested, NestedRow
<1> QED  BY <1>1, <1>4

\* A search of the next range: what it finds is no less than what was found
\* in the shorter ones, although views arrived in between.
LEMMA SearchKeeps ==
  ASSUME StatsWellTyped, WriterIInv, Ingested,
         NEW j \in Job, j.at \in DOMAIN Ranges, JobOK("fetch", j, index, logged),
         NEW s \in {"fetch", "upsert"}, NEW k \in Job,
         k.found = WithFound(j), k.chunk = j.chunk, k.asof = j.asof, k.old = j.old,
         \A n \in Searched(s, k) : n <= j.at
  PROVE  JobOK(s, k, index, logged)
<1>1. SearchOK("fetch", j, index) /\ ServedOK(j, logged) /\ NestedRow(j.old)
  BY NoneAssumption DEF JobOK
<1>2. /\ j.chunk \subseteq Dests /\ j.asof \in Times
      /\ j.found \in [Dests -> [RangeKeys -> Nat]]
  BY DEF Job
<1>3. DOMAIN Ranges = 1 .. Len(Ranges) /\ Len(Ranges) \in Nat
  BY RangesAssumption
<1> DEFINE W(d, n) == Window(d, Ranges[n], j.asof)
<1>4. ASSUME NEW d \in j.chunk, NEW n \in DOMAIN Ranges
      PROVE  Total(index, W(d, n)) \in Nat /\ j.found[d][Ranges[n]] \in Nat
  <2>1. Total(index, W(d, n)) \in Nat
    BY <1>2, FoundType DEF StatsWellTyped, StatsTypeOK
  <2>2. Ranges[n] \in RangeKeys
    BY DEF RangeKeys
  <2> QED  BY <1>2, <2>1, <2>2
<1>5. ASSUME NEW d \in j.chunk, NEW n \in DOMAIN Ranges
      PROVE  k.found[d][Ranges[n]] = IF n = j.at THEN Total(index, W(d, n))
                                     ELSE j.found[d][Ranges[n]]
  <2>1. d \in Dests /\ Ranges[n] \in RangeKeys
    BY <1>2 DEF RangeKeys
  <2>2. n # j.at => Ranges[n] # Ranges[j.at]
    BY <1>3, RangesAssumption
  <2>3. Found(d, Ranges[j.at], j.asof) = Total(index, W(d, j.at))
    BY <1>2, FoundType DEF StatsWellTyped, StatsTypeOK
  <2>4. k.found[d] = [j.found[d] EXCEPT ![Ranges[j.at]] = Found(d, Ranges[j.at], j.asof)]
    BY <2>1 DEF WithFound
  <2> HIDE DEF W
  <2>5. DOMAIN j.found[d] = RangeKeys
    BY <1>2, <2>1
  <2> QED  BY <2>1, <2>2, <2>3, <2>4, <2>5
<1>6. ASSUME NEW d \in j.chunk, NEW m \in DOMAIN Ranges, NEW n \in DOMAIN Ranges, m < n
      PROVE  Total(index, W(d, m)) <= Total(index, W(d, n))
  <2>1. W(d, m) \subseteq W(d, n) /\ W(d, n) \subseteq Entries
    BY <1>2, <1>6, WindowsNested, WindowOfEntries
  <2>2. \A e \in Entries : index[e] \in Nat /\ index[e] <= index[e]
    BY DEF StatsWellTyped, StatsTypeOK
  <2> HIDE DEF W
  <2> QED  BY <2>1, <2>2, TotalGrows
<1> HIDE DEF W
<1>7. ASSUME NEW d \in j.chunk, NEW n \in DOMAIN Ranges, n < j.at
      PROVE  /\ j.found[d][Ranges[n]] <= Total(index, W(d, n))
             /\ \A m \in DOMAIN Ranges : m < n => j.found[d][Ranges[m]] <= j.found[d][Ranges[n]]
  <2>1. n \in Searched("fetch", j) /\ \A m \in DOMAIN Ranges : m < n => m \in Searched("fetch", j)
    BY <1>3, <1>7 DEF Searched
  <2> QED  BY <1>1, <2>1 DEF SearchOK, W
<1>8. ASSUME NEW d \in k.chunk, NEW n \in Searched(s, k)
      PROVE  k.found[d][Ranges[n]] <= Total(index, W(d, n))
  <2>1. d \in j.chunk /\ n \in DOMAIN Ranges /\ n <= j.at
    BY DEF Searched
  <2>2. CASE n = j.at
    BY <1>4, <1>5, <2>1, <2>2
  <2>3. CASE n # j.at
    <3>1. n < j.at
      BY <1>3, <2>1, <2>3
    <3> QED  BY <1>5, <1>7, <2>1, <2>3, <3>1
  <2> QED  BY <2>2, <2>3
<1>9. ASSUME NEW d \in k.chunk, NEW n \in Searched(s, k), NEW m \in Searched(s, k), m < n
      PROVE  k.found[d][Ranges[m]] <= k.found[d][Ranges[n]]
  <2>1. /\ d \in j.chunk
        /\ n \in DOMAIN Ranges /\ n <= j.at
        /\ m \in DOMAIN Ranges /\ m <= j.at
    BY DEF Searched
  <2>2. m < j.at /\ m # j.at
    BY <1>3, <1>9, <2>1
  <2>3. k.found[d][Ranges[m]] = j.found[d][Ranges[m]]
    BY <1>5, <2>1, <2>2
  <2>4. CASE n = j.at
    <3>1. k.found[d][Ranges[n]] = Total(index, W(d, n))
      BY <1>5, <2>1, <2>4
    <3>2. j.found[d][Ranges[m]] <= Total(index, W(d, m))
      BY <1>7, <2>1, <2>2
    <3>3. Total(index, W(d, m)) <= Total(index, W(d, n))
      BY <1>6, <1>9, <2>1
    <3>4. j.found[d][Ranges[m]] \in Nat /\ Total(index, W(d, m)) \in Nat
          /\ Total(index, W(d, n)) \in Nat
      BY <1>4, <2>1
    <3> QED  BY <2>3, <3>1, <3>2, <3>3, <3>4
  <2>5. CASE n # j.at
    <3>1. n < j.at
      BY <1>3, <2>1, <2>5
    <3>2. k.found[d][Ranges[n]] = j.found[d][Ranges[n]]
      BY <1>5, <2>1, <2>5
    <3> QED  BY <1>7, <1>9, <2>1, <2>3, <3>1, <3>2
  <2> QED  BY <2>4, <2>5
<1>10. SearchOK(s, k, index)
  BY <1>8, <1>9 DEF SearchOK, W
<1>11. ASSUME NEW d \in Dests, NEW key \in RangeKeys
       PROVE  k.found[d][key] <= Total(logged, Matches[d])
  <2>1. j.found[d][key] <= Total(logged, Matches[d])
    BY <1>1 DEF ServedOK
  <2>2. k.found[d][key] = j.found[d][key]
        \/ k.found[d][key] = Found(d, Ranges[j.at], j.asof)
    BY <1>2 DEF WithFound
  <2>3. Found(d, Ranges[j.at], j.asof) <= Total(logged, Matches[d])
    BY FoundServed, FoundType DEF StatsWellTyped, StatsTypeOK
  <2> QED  BY <2>1, <2>2, <2>3
<1> QED  BY <1>1, <1>10, <1>11 DEF JobOK, ServedOK

\* A search of the next range, as the step of a refresh.
LEMMA FetchKeeps ==
  ASSUME Context, NEW r \in Refreshers, Fetch(r)
  PROVE  JobsOK'
<1>1. WorkOK /\ StatsWellTyped /\ WriterIInv /\ Ingested /\ [PipelineNext]_pipelineVars
  BY DEF Context, StatsWellTyped, StatsTypeOK, WorkOK, CountInv
<1> DEFINE j == job[r]
           f == WithFound(j)
           next == [j EXCEPT !.at = @ + 1, !.found = f]
           last == [j EXCEPT !.found = f]
<1>2. j \in Job /\ j.at \in DOMAIN Ranges /\ spc[r] = "fetch"
  BY <1>1 DEF Fetch, WorkOK
<1>3. JobOK("fetch", j, index, logged)
  BY <1>2 DEF Context, CountInv, JobsOK
<1>4. f \in [Dests -> [RangeKeys -> Nat]]
  BY <1>1, <1>2, WithFoundTyped DEF StatsWellTyped, StatsTypeOK
<1>5. DOMAIN Ranges = 1 .. Len(Ranges) /\ Len(Ranges) \in Nat
  BY RangesAssumption
<1>6. \/ j.at < Len(Ranges) /\ Advance(r, "fetch", next)
      \/ j.at = Len(Ranges) /\ Advance(r, "upsert", last)
  BY <1>1, FetchCases
<1> HIDE DEF j, f
<1>7. CASE j.at < Len(Ranges) /\ Advance(r, "fetch", next)
  <2>1. next \in Job
    <3>1. j.at + 1 \in Nat
      BY <1>2, <1>5
    <3> QED  BY <1>2, <1>4, <3>1, Zenon DEF Job
  <2>2. next.found = f /\ next.chunk = j.chunk /\ next.asof = j.asof /\ next.old = j.old
        /\ next.at = j.at + 1
    BY <1>2 DEF Job
  <2> HIDE DEF next
  <2>3. \A n \in Searched("fetch", next) : n <= j.at
    BY <1>2, <1>5, <2>2 DEF Searched
  <2>4. JobOK("fetch", next, index, logged)
    BY <1>1, <1>2, <1>3, <2>1, <2>2, <2>3, SearchKeeps DEF f
  <2>5. JobOK("fetch", next, index', logged')
    BY <1>1, <2>1, <2>4, JobKept
  <2> QED  BY <1>1, <1>7, <2>5, JobsKept DEF Context, CountInv
<1>8. CASE j.at = Len(Ranges) /\ Advance(r, "upsert", last)
  <2>1. last \in Job
    BY <1>2, <1>4, Zenon DEF Job
  <2>2. last.found = f /\ last.chunk = j.chunk /\ last.asof = j.asof /\ last.old = j.old
    BY <1>2 DEF Job
  <2> HIDE DEF last
  <2>3. \A n \in Searched("upsert", last) : n <= j.at
    BY <1>5, <1>8 DEF Searched
  <2>4. JobOK("upsert", last, index, logged)
    BY <1>1, <1>2, <1>3, <2>1, <2>2, <2>3, SearchKeeps DEF f
  <2>5. JobOK("upsert", last, index', logged')
    BY <1>1, <2>1, <2>4, JobKept
  <2> QED  BY <1>1, <1>8, <2>5, JobsKept DEF Context, CountInv
<1> QED  BY <1>6, <1>7, <1>8

\* What an upsert writes is nested and no more than was served, because every
\* range was searched and the chunk is written by one statement.
LEMMA UpsertKeeps ==
  ASSUME Context, NEW r \in Refreshers, Upsert(r)
  PROVE  JobsOK' /\ StatsNested' /\ AnswersNested' /\ OnlyMatching'
<1>1. WorkOK /\ spc[r] = "upsert" /\ job[r] \in Job /\ job[r] # None
  BY DEF Context, StatsWellTyped, StatsTypeOK, WorkOK, Upsert
<1>2. JobOK("upsert", job[r], index, logged)
  BY <1>1 DEF Context, CountInv, JobsOK
<1>3. SearchOK("upsert", job[r], index) /\ ServedOK(job[r], logged) /\ NestedRow(job[r].old)
  BY <1>1, <1>2 DEF JobOK
<1>4. /\ job[r].chunk \subseteq Dests
      /\ job[r].found \in [Dests -> [RangeKeys -> Nat]]
  BY <1>1 DEF Job
<1>5. ASSUME NEW d \in Dests
      PROVE  \/ d \in job[r].chunk
                /\ stats'[d] = [bucket_end |-> job[r].asof, views |-> job[r].found[d]]
             \/ stats'[d] = stats[d]
  BY DEF Upsert
<1>6. StatsNested'
  <2> SUFFICES ASSUME NEW d \in Dests PROVE NestedRow(stats'[d])
    BY DEF StatsNested, NestedRow
  <2>1. CASE d \in job[r].chunk
             /\ stats'[d] = [bucket_end |-> job[r].asof, views |-> job[r].found[d]]
    <3>1. stats'[d].views = job[r].found[d]
      BY <2>1
    <3>2. Searched("upsert", job[r]) = DOMAIN Ranges
      BY DEF Searched
    <3> QED  BY <1>3, <2>1, <3>1, <3>2 DEF SearchOK, NestedRow
  <2>2. CASE stats'[d] = stats[d]
    BY <2>2 DEF Context, CountInv, StatsNested
  <2> QED  BY <1>5, <2>1, <2>2
<1>7. ASSUME NEW d \in Dests, stats'[d] # None, NEW k \in RangeKeys
      PROVE  stats'[d].views[k] <= Total(logged', Matches[d])
  <2>1. UNCHANGED logged
    BY DEF Context, StatsActs, writerVars
  <2>2. CASE d \in job[r].chunk
             /\ stats'[d] = [bucket_end |-> job[r].asof, views |-> job[r].found[d]]
    BY <1>3, <2>1, <2>2 DEF ServedOK
  <2>3. CASE stats'[d] = stats[d]
    BY <1>7, <2>1, <2>3 DEF Context, CountInv, OnlyMatching
  <2> QED  BY <1>5, <2>2, <2>3
<1>8. OnlyMatching'
  BY <1>7 DEF OnlyMatching
<1>9. JobsOK' /\ UNCHANGED answers
  <2>1. CASE NextChunk(r, job[r])
    BY <1>1, <1>3, <2>1, NextChunkKeeps DEF NextChunk
  <2>2. CASE Refreshed(r)
    BY <1>1, <2>2, IdleKeeps, ReadingKeeps DEF Refreshed, Reading
  <2> QED  BY <2>1, <2>2 DEF Upsert
<1>10. AnswersNested'
  BY <1>9 DEF Context, CountInv, AnswersNested, NestedRow
<1> QED  BY <1>6, <1>8, <1>9, <1>10

\* A refresh that fails: GetViewStats answers with the row it had read.
LEMMA RefreshFailsKeeps ==
  ASSUME Context, NEW r \in Refreshers, RefreshFails(r)
  PROVE  JobsOK' /\ AnswersNested'
<1>1. spc[r] # "idle" /\ job[r] \in Job /\ job[r] # None
  BY DEF Context, StatsWellTyped, StatsTypeOK, RefreshFails
<1>2. NestedRow(job[r].old)
  BY <1>1 DEF Context, CountInv, JobsOK, JobOK
<1>3. job[r].op \in {"rollup", "get", "export"}
  BY <1>1 DEF Job
<1>4. ASSUME UNCHANGED answers PROVE AnswersNested'
  BY <1>4 DEF Context, CountInv, AnswersNested, NestedRow
<1> DEFINE a == IF job[r].old = None THEN None ELSE [d \in job[r].ids |-> job[r].old]
<1>5. CASE job[r].op = "get"
  <2>1. Answer(r, a)
    BY <1>5 DEF RefreshFails, RefreshFailed
  <2>2. a # None => \A d \in DOMAIN a : NestedRow(a[d])
    BY <1>2
  <2> HIDE DEF a
  <2> QED  BY <2>1, <2>2, AnswerKeeps
<1>6. CASE job[r].op = "rollup"
  <2>1. Advance(r, "idle", None) /\ UNCHANGED answers
    BY <1>6 DEF RefreshFails, RefreshFailed
  <2> QED  BY <1>4, <2>1, IdleKeeps
<1>7. CASE job[r].op = "export"
  <2>1. Reading(r, job[r])
    BY <1>7 DEF RefreshFails, RefreshFailed
  <2> QED  BY <1>1, <1>4, <2>1, ReadingKeeps DEF Reading
<1> QED  BY <1>3, <1>5, <1>6, <1>7

\* The SELECT after a refresh, and the answers that need none.
LEMMA ReadKeeps ==
  ASSUME Context, NEW h \in Refreshers, Read(h) \/ ReadFails(h)
  PROVE  JobsOK' /\ AnswersNested'
<1>1. spc[h] = "read" /\ job[h] \in Job
  BY DEF Context, StatsWellTyped, StatsTypeOK, Read, ReadFails
<1>2. job[h].ids \subseteq Dests
  BY <1>1 DEF Job
<1>3. CASE Read(h)
  <2> DEFINE a == [d \in job[h].ids |-> stats[d]]
  <2>1. Answer(h, a)
    BY <1>3 DEF Read
  <2>2. \A d \in DOMAIN a : NestedRow(a[d])
    BY <1>2 DEF Context, CountInv, StatsNested
  <2> HIDE DEF a
  <2> QED  BY <2>1, <2>2, AnswerKeeps
<1>4. CASE ReadFails(h)
  BY <1>4, AnswerKeeps DEF ReadFails
<1> QED  BY <1>3, <1>4

\* The requests for statistics up to a refresh or an answer.
LEMMA AskKeeps ==
  ASSUME Context, NEW h \in Askers, View(h) \/ Export(h) \/ Rank(h)
  PROVE  JobsOK' /\ AnswersNested'
<1>1. h \in Refreshers
  BY DEF Refreshers
<1>2. \A d \in Dests : NestedRow(stats[d]) /\ stats[d] \in StatsRow \cup {None}
  BY DEF Context, CountInv, StatsNested, StatsWellTyped, StatsTypeOK
<1>3. ASSUME UNCHANGED answers PROVE AnswersNested'
  BY <1>3 DEF Context, CountInv, AnswersNested, NestedRow
<1>4. ASSUME NEW d \in Dests, NEW force \in BOOLEAN, GetViewStats(h, d, force)
      PROVE  JobsOK' /\ AnswersNested'
  <2>1. CASE Refresh(h, "get", {d}, stats[d])
    BY <1>1, <1>2, <1>3, <2>1, RefreshKeeps
  <2>2. CASE Answer(h, [x \in {d} |-> stats[x]])
    <3> DEFINE a == [x \in {d} |-> stats[x]]
    <3>1. Answer(h, a)
      BY <2>2
    <3>2. \A x \in DOMAIN a : NestedRow(a[x])
      BY <1>2
    <3> HIDE DEF a
    <3> QED  BY <1>1, <3>1, <3>2, AnswerKeeps
  <2> QED  BY <1>4, <2>1, <2>2 DEF GetViewStats
<1>5. ASSUME NEW ids \in SUBSET Dests \ {{}}, ExportPopularity(h, ids)
      PROVE  JobsOK' /\ AnswersNested'
  <2>1. Refresh(h, "export", ids, None)
    BY <1>5 DEF ExportPopularity
  <2>2. NestedRow(None)
    BY DEF NestedRow
  <2> QED  BY <1>1, <1>3, <2>1, <2>2, RefreshKeeps
<1>6. ASSUME NEW k \in RangeKeys, NEW limit, Trending(h, k, limit)
      PROVE  JobsOK' /\ AnswersNested'
  <2>1. PICK top \in SUBSET Dests : Answer(h, [d \in top |-> stats[d]])
    BY <1>6 DEF Trending
  <2> DEFINE a == [d \in top |-> stats[d]]
  <2>2. Answer(h, a)
    BY <2>1
  <2>3. \A d \in DOMAIN a : NestedRow(a[d])
    BY <1>2
  <2> HIDE DEF a
  <2> QED  BY <1>1, <2>2, <2>3, AnswerKeeps
<1> QED  BY <1>4, <1>5, <1>6 DEF View, Export, Rank

\* The tables, where a step does not write them.
LEMMA StatsUntouched ==
  ASSUME StatsWellTyped, WriterIInv, CountInv, [PipelineNext]_pipelineVars, UNCHANGED stats
  PROVE  StatsNested' /\ OnlyMatching'
<1>1. StatsNested'
  BY DEF CountInv, StatsNested, NestedRow
<1>2. ASSUME NEW d \in Dests, stats[d] # None, NEW k \in RangeKeys
      PROVE  stats[d].views[k] <= Total(logged', Matches[d])
  <2>1. Total(logged, Matches[d]) \in Nat /\ Total(logged', Matches[d]) \in Nat
        /\ Total(logged, Matches[d]) <= Total(logged', Matches[d])
    BY WindowMatches, TotalsGrow DEF CountInv
  <2>2. stats[d].views[k] \in Nat
    BY <1>2 DEF StatsWellTyped, StatsTypeOK, StatsRow
  <2>3. stats[d].views[k] <= Total(logged, Matches[d])
    BY <1>2 DEF CountInv, OnlyMatching
  <2> QED  BY <2>1, <2>2, <2>3
<1>3. OnlyMatching'
  BY <1>2 DEF OnlyMatching
<1> QED  BY <1>1, <1>3

\* Every step of the statistics keeps what is found, stored and answered right.
LEMMA StatsActsKeep ==
  ASSUME StatsWellTyped, WriterIInv, CountInv, [PipelineNext]_pipelineVars, StatsActs
  PROVE  JobsOK' /\ StatsNested' /\ AnswersNested' /\ OnlyMatching'
<1>1. Context
  BY DEF Context
<1>2. ASSUME UNCHANGED answers PROVE AnswersNested'
  BY <1>2 DEF CountInv, AnswersNested, NestedRow
<1>3. CASE RollupTick
  <2>1. Rollup \in Refreshers /\ NestedRow(None)
    BY DEF Refreshers, NestedRow
  <2>2. JobsOK' /\ UNCHANGED answers
    BY <1>1, <1>3, <2>1, RefreshKeeps DEF RollupTick
  <2> QED  BY <1>2, <1>3, <2>2, StatsUntouched DEF RollupTick
<1>4. ASSUME NEW r \in Refreshers, Fetch(r)
      PROVE  JobsOK' /\ StatsNested' /\ AnswersNested' /\ OnlyMatching'
  BY <1>1, <1>2, <1>4, FetchKeeps, StatsUntouched DEF Fetch
<1>5. ASSUME NEW r \in Refreshers, Upsert(r)
      PROVE  JobsOK' /\ StatsNested' /\ AnswersNested' /\ OnlyMatching'
  BY <1>1, <1>5, UpsertKeeps
<1>6. ASSUME NEW r \in Refreshers, Read(r) \/ ReadFails(r)
      PROVE  JobsOK' /\ StatsNested' /\ AnswersNested' /\ OnlyMatching'
  BY <1>1, <1>6, ReadKeeps, StatsUntouched DEF Read, ReadFails
<1>7. ASSUME NEW r \in Refreshers, RefreshFails(r)
      PROVE  JobsOK' /\ StatsNested' /\ AnswersNested' /\ OnlyMatching'
  BY <1>1, <1>7, RefreshFailsKeeps, StatsUntouched DEF RefreshFails
<1>8. ASSUME NEW h \in Askers, View(h) \/ Export(h) \/ Rank(h)
      PROVE  JobsOK' /\ StatsNested' /\ AnswersNested' /\ OnlyMatching'
  <2>1. UNCHANGED stats
    BY <1>8 DEF View, Export, Rank, GetViewStats, ExportPopularity, Trending
  <2> QED  BY <1>1, <1>8, <2>1, AskKeeps, StatsUntouched
<1>9. CASE Tick
  BY <1>2, <1>9, JobsUntouched, StatsUntouched DEF Tick, CountInv
<1>10. Askers \subseteq Refreshers
  BY DEF Refreshers
<1> QED
  BY <1>3, <1>4, <1>5, <1>6, <1>7, <1>8, <1>9, <1>10 DEF StatsActs, RefreshStep

-----------------------------------------------------------------------------
(* The counts                                                               *)

\* Initially nothing is indexed, searched for, stored or answered.
LEMMA CountInit == PipelineInit => CountInv
<1> SUFFICES ASSUME PipelineInit PROVE CountInv  OBVIOUS
<1>1. Ingested
  BY PipelineAssumption DEF PipelineInit, WriterInit, StatsInit, Ingested
<1>2. JobsOK
  BY DEF PipelineInit, StatsInit, JobsOK, JobOK
<1>3. StatsNested /\ AnswersNested /\ OnlyMatching
  BY DEF PipelineInit, StatsInit, StatsNested, NestedRow, AnswersNested, OnlyMatching
<1> QED  BY <1>1, <1>2, <1>3 DEF CountInv

\* Every step of the pipeline keeps the invariant of the counts.
LEMMA CountStep ==
  ASSUME StatsWellTyped, WriterIInv, CountInv, [PipelineNext]_pipelineVars
  PROVE  CountInv'
<1>1. Ingested'
  BY CountsGrow DEF CountInv, Ingested
<1>2. CASE StatsActs
  BY <1>1, <1>2, StatsActsKeep DEF CountInv
<1>3. CASE UNCHANGED <<stats, spc, job, answers>>
  <2>1. JobsOK'
    BY <1>3, JobsUntouched DEF CountInv
  <2>2. AnswersNested'
    BY <1>3 DEF CountInv, AnswersNested, NestedRow
  <2> QED  BY <1>1, <1>3, <2>1, <2>2, StatsUntouched DEF CountInv
<1> QED  BY <1>2, <1>3, WhoWrites DEF Ingest, statsVars

\* The invariant of the counts: the index holds what was logged at most, and
\* what a refresh has found so far is nested, was served, and would be found
\* again.
THEOREM CountInvariance == PipelineSpec => []CountInv
<1>1. StatsWellTyped /\ WriterIInv /\ CountInv /\ [PipelineNext]_pipelineVars => CountInv'
  BY CountStep
<1> QED
  BY <1>1, CountInit, StatsTypes, PipelineImplementsWriter, WriterInvariance, PTL
  DEF PipelineSpec

\* A row claims no more views of a shorter range than of a longer one, in the
\* table and in every answer, for any number of concurrent refreshes, any
\* ranges listed by length and any chunk size (refreshDestinations).
THEOREM RangesAreNested == PipelineSpec => []RangesNested
<1>1. CountInv => RangesNested
  <2> SUFFICES ASSUME CountInv, NEW row \in Rows \ {None} PROVE NestedRow(row)
    BY DEF RangesNested, NestedRow
  <2>1. CASE \E d \in Dests : row = stats[d]
    BY <2>1 DEF CountInv, StatsNested
  <2>2. CASE \E h \in Askers : answers[h] # None /\ \E d \in DOMAIN answers[h] : row = answers[h][d]
    BY <2>2 DEF CountInv, AnswersNested
  <2> QED  BY <2>1, <2>2 DEF Rows
<1> QED  BY <1>1, CountInvariance, PTL

\* A row counts no more than the requests of any set that has all that match.
LEMMA CountedAmong ==
  ASSUME StatsWellTyped, WriterIInv, CountInv,
         NEW d \in Dests, NEW F \in SUBSET Entries, Matches[d] \subseteq F,
         stats[d] # None, NEW k \in RangeKeys
  PROVE  stats[d].views[k] <= Total(logged, F)
<1> DEFINE E == Matches[d]
<1>1. \A e \in Entries : logged[e] \in Nat
  BY IndexLogged DEF CountInv
<1>2. stats[d].views[k] \in Nat
  BY DEF StatsWellTyped, StatsTypeOK, StatsRow
<1>3. stats[d].views[k] <= Total(logged, E)
  BY DEF CountInv, OnlyMatching
<1>4. E \in SUBSET F
  OBVIOUS
<1> HIDE DEF E
<1>5. Total(logged, E) \in Nat /\ Total(logged, F) \in Nat /\ Total(logged, E) <= Total(logged, F)
  <2>1. \A e \in E : logged[e] \in Nat /\ logged[e] <= logged[e]
    BY <1>1, <1>4
  <2>2. \A e \in F : logged[e] \in Nat
    BY <1>1
  <2> QED  BY <1>4, <2>1, <2>2, TotalGrows
<1> QED  BY <1>2, <1>3, <1>5

\* What is counted as a view was one (the filters of fetchRangeStats and the
\* id sanitizeBody keeps of an answer).
LEMMA MatchesAreViews ==
  ASSUME NEW d \in Dests
  PROVE  Matches[d] \subseteq Views[d] /\ Views[d] \subseteq Entries
<1>1. ASSUME NEW e \in Matches[d] PROVE e \in Views[d]
  <2>1. e \in Entries /\ e.request \in Requests
    BY <1>1 DEF Matches, Entries
  <2>2. /\ Document[e.request].route = "destination"
        /\ Document[e.request].status = 200
        /\ Document[e.request].destination = d
    BY <1>1 DEF Matches
  <2>3. Subject[e.request] = d
    BY <2>1, <2>2, SubjectAssumption
  <2> QED  BY <2>1, <2>3 DEF Views
<1> QED  BY <1>1 DEF Views

\* No count exceeds the views that were served, whatever is refreshed at the
\* same time and however often the connection breaks (UpsertBuckets, Write).
THEOREM ViewsAreNotOvercounted == PipelineSpec => []NeverOvercounted
<1>1. StatsWellTyped /\ WriterIInv /\ CountInv => NeverOvercounted
  BY MatchesAreViews, CountedAmong DEF NeverOvercounted
<1> QED
  BY <1>1, CountInvariance, StatsTypes, PipelineImplementsWriter, WriterInvariance, PTL

-----------------------------------------------------------------------------
(* What the log keeps of a body                                             *)

\* A non-empty set of numbers has a least one.
LEMMA LeastNumber ==
  ASSUME NEW S \in SUBSET Nat, S # {}
  PROVE  \E n \in S : \A m \in S : n <= m
<1>1. PICK n \in S : \A m \in S : <<m, n>> \notin OpToRel(<, Nat)
  BY WFMin, NatLessThanWellFounded
<1>2. \A m \in S : ~ (m < n)
  BY <1>1 DEF OpToRel
<1> QED  BY <1>2

\* A path with a key that contains "password" has a first one.
LEMMA FirstPasswordKey ==
  ASSUME NEW q \in Seq(Steps), Marked(q)
  PROVE  \E n \in DOMAIN q : IsPasswordKey(q[n]) /\ \A m \in 1 .. n - 1 : ~ IsPasswordKey(q[m])
<1> DEFINE S == {n \in DOMAIN q : IsPasswordKey(q[n])}
<1>1. DOMAIN q = 1 .. Len(q) /\ Len(q) \in Nat
  BY LenProperties
<1>2. S \subseteq Nat /\ S # {}
  BY <1>1 DEF Marked
<1>3. PICK n \in S : \A m \in S : n <= m
  BY <1>2, LeastNumber
<1> QED  BY <1>1, <1>3

\* A path that has a key containing "password" is cut at it, no earlier: it
\* still shows that key, so what was found there is redacted (sanitizeJSON).
LEMMA CutStaysMarked ==
  ASSUME NEW q \in Seq(Steps)
  PROVE  Marked(Cut(q)) <=> Marked(q)
<1> SUFFICES ASSUME Marked(q) PROVE Marked(Cut(q))
  BY DEF Cut
<1> DEFINE First(n) == IsPasswordKey(q[n]) /\ \A m \in 1 .. n - 1 : ~ IsPasswordKey(q[m])
           n0 == CHOOSE n \in DOMAIN q : First(n)
<1>1. DOMAIN q = 1 .. Len(q) /\ Len(q) \in Nat
  BY LenProperties
<1>2. \E n \in DOMAIN q : First(n)
  BY FirstPasswordKey
<1>3. n0 \in DOMAIN q /\ First(n0)
  BY <1>2
<1>4. Cut(q) = Upto(q, n0)
  BY DEF Cut
<1> HIDE DEF n0
<1>5. /\ Upto(q, n0) \in Seq(Steps) /\ Len(Upto(q, n0)) = n0
      /\ Upto(q, n0)[n0] = q[n0]
  BY <1>1, <1>3, SubSeqProperties DEF Upto
<1>6. n0 \in DOMAIN Upto(q, n0)
  BY <1>1, <1>3, <1>5, LenProperties
<1> QED  BY <1>3, <1>4, <1>5, <1>6 DEF Marked
\* A sanitized value has paths like any other.
LEMMA CutIsPath ==
  ASSUME NEW q \in Seq(Steps)
  PROVE  Cut(q) \in Seq(Steps)
<1>1. CASE ~ Marked(q)
  BY <1>1 DEF Cut
<1>2. CASE Marked(q)
  <2> DEFINE First(n) == IsPasswordKey(q[n]) /\ \A m \in 1 .. n - 1 : ~ IsPasswordKey(q[m])
             n0 == CHOOSE n \in DOMAIN q : First(n)
  <2>1. \E n \in DOMAIN q : First(n)
    BY <1>2, FirstPasswordKey
  <2>2. n0 \in DOMAIN q
    BY <2>1
  <2>3. Cut(q) = Upto(q, n0)
    BY <1>2 DEF Cut
  <2> HIDE DEF n0
  <2> QED  BY <2>2, <2>3, LenProperties, SubSeqProperties DEF Upto
<1> QED  BY <1>1, <1>2

\* A leaf of a sanitized value is redacted, or it is one of the value below
\* no key that contains "password".
LEMMA SanitizedLeaf ==
  ASSUME NEW v, DOMAIN v \subseteq Seq(Steps), NEW p \in DOMAIN SanitizeJSON(v)
  PROVE  /\ p \in Seq(Steps)
         /\ Marked(p) => SanitizeJSON(v)[p] = "redacted"
         /\ ~ Marked(p) => p \in DOMAIN v /\ SanitizeJSON(v)[p] = v[p]
<1>1. PICK q \in DOMAIN v : p = Cut(q)
  BY DEF SanitizeJSON
<1>2. q \in Seq(Steps)
  OBVIOUS
<1>3. SanitizeJSON(v)[p] = IF Marked(p) THEN "redacted" ELSE v[p]
  BY <1>1 DEF SanitizeJSON
<1>4. ~ Marked(p) => p = q
  BY <1>1, <1>2, CutStaysMarked DEF Cut
<1> QED  BY <1>1, <1>2, <1>3, <1>4, CutIsPath

\* A preview shows leaves of the value, or that something is left out.
LEMMA PreviewLeaf ==
  ASSUME NEW v, DOMAIN v \subseteq Seq(Steps), NEW p \in DOMAIN Preview(v)
  PROVE  /\ p \in Seq(Steps)
         /\ \/ Preview(v)[p] = "omitted"
            \/ p \in DOMAIN v /\ Preview(v)[p] = v[p]
<1>1. Preview(v)[p] = IF Len(p) < MaxDepth THEN v[p] ELSE "omitted"
  BY DEF Preview
<1>2. PICK q \in DOMAIN v : p = IF Len(q) < MaxDepth THEN q ELSE Upto(q, MaxDepth)
  BY DEF Preview
<1>3. q \in Seq(Steps) /\ Len(q) \in Nat /\ DOMAIN q = 1 .. Len(q) /\ MaxDepth \in Nat
  BY LenProperties, RequestLogAssumption
<1>4. CASE Len(q) < MaxDepth
  BY <1>1, <1>2, <1>3, <1>4
<1>5. CASE ~ Len(q) < MaxDepth
  <2>1. \A i \in 1 .. MaxDepth : q[i] \in Steps
    BY <1>3, <1>5, LenProperties
  <2>2. Upto(q, MaxDepth) \in Seq(Steps) /\ Len(Upto(q, MaxDepth)) = MaxDepth
    BY <1>3, <2>1, SubSeqProperties DEF Upto
  <2> QED  BY <1>1, <1>2, <1>3, <1>5, <2>2
<1> QED  BY <1>4, <1>5

\* The path of a leaf inside a preview.
LEMMA TailOfShown ==
  ASSUME NEW q \in Seq(Steps), NEW s
  PROVE  Tail(<<s>> \o q) = q
OBVIOUS

\* And so does what is logged of a value, whatever its length.
LEMMA LimitedLeaf ==
  ASSUME NEW v, DOMAIN v \subseteq Seq(Steps), NEW p \in DOMAIN LimitJSONSize(v)
  PROVE  \/ LimitJSONSize(v)[p] \in {"true", "omitted"}
         \/ \E q \in DOMAIN v : LimitJSONSize(v)[p] = v[q]
<1> DEFINE Shown(q) == <<Key("_preview")>> \o q
           mark == <<Key("_truncated")>>
<1>1. CASE Size(v) <= MaxLoggedBody
  BY <1>1 DEF LimitJSONSize
<1>2. CASE ~ Size(v) <= MaxLoggedBody
  <2>1. LimitJSONSize(v) = [x \in {mark} \cup {Shown(q) : q \in DOMAIN Preview(v)} |->
                              IF x = mark THEN "true" ELSE Preview(v)[Tail(x)]]
    BY <1>2 DEF LimitJSONSize
  <2>2. CASE p = mark
    BY <2>1, <2>2
  <2>3. CASE p # mark
    <3>1. PICK q \in DOMAIN Preview(v) : p = Shown(q)
      BY <2>1, <2>3
    <3>2. q \in Seq(Steps)
      BY PreviewLeaf
    <3>3. Tail(p) = q
      BY <3>1, <3>2, TailOfShown
    <3>4. LimitJSONSize(v)[p] = Preview(v)[q]
      BY <2>1, <2>3, <3>3
    <3> QED  BY <3>4, PreviewLeaf
  <2> QED  BY <2>2, <2>3
<1> QED  BY <1>1, <1>2
\* A field of a form has the value of a part, below the name of that part
\* (addFormField).
LEMMA FieldLeaf ==
  ASSUME NEW parts, NEW len \in Nat, DOMAIN parts = 1 .. len, NEW p \in DOMAIN Fields(parts)
  PROVE  \E i \in DOMAIN parts :
           /\ Fields(parts)[p] = parts[i].value
           /\ \/ p = <<Key(parts[i].name)>>
              \/ \E n \in Nat \ {0} : p = <<Key(parts[i].name), Item(n)>>
<1> DEFINE Named(i) == {j \in DOMAIN parts : parts[j].name = parts[i].name}
           Place(i) == IF Named(i) = {i} THEN <<Key(parts[i].name)>>
                       ELSE <<Key(parts[i].name), Item(Cardinality(Named(i) \cap 1 .. i))>>
           i0 == CHOOSE i \in DOMAIN parts : Place(i) = p
<1>1. Fields(parts) = [x \in {Place(i) : i \in DOMAIN parts} |->
                         parts[CHOOSE i \in DOMAIN parts : Place(i) = x].value]
  BY DEF Fields
<1>2. \E i \in DOMAIN parts : Place(i) = p
  BY <1>1
<1>3. i0 \in DOMAIN parts /\ Place(i0) = p
  BY <1>2
<1>4. Fields(parts)[p] = parts[i0].value
  BY <1>1
<1> HIDE DEF i0
<1>5. \/ p = <<Key(parts[i0].name)>>
      \/ \E n \in Nat \ {0} : p = <<Key(parts[i0].name), Item(n)>>
  <2> DEFINE same == Named(i0) \cap 1 .. i0
  <2>1. i0 \in same /\ same \subseteq 1 .. len
    BY <1>3
  <2>2. IsFiniteSet(same)
    BY <2>1, FS_Interval, FS_Subset
  <2>3. Cardinality(same) \in Nat \ {0}
    BY <2>1, <2>2, FS_CardinalityType, FS_EmptySet
  <2> QED  BY <1>3, <2>3
<1> QED  BY <1>3, <1>4, <1>5

\* The path of a field is a path, and marked if the name of the field is.
LEMMA FieldPath ==
  ASSUME NEW name \in STRING, NEW p,
         p = <<Key(name)>> \/ \E n \in Nat \ {0} : p = <<Key(name), Item(n)>>
  PROVE  p \in Seq(Steps) /\ (name \in PasswordKeys => Marked(p))
<1>1. Key(name) \in Steps /\ \A n \in Nat \ {0} : Item(n) \in Steps
  BY DEF Steps, Key, Item
<1> DEFINE k == Key(name)
<1>2. k \in Steps
  BY <1>1
<1>3. name \in PasswordKeys => IsPasswordKey(k)
  BY DEF IsPasswordKey
<1> HIDE DEF k
<1>4. ASSUME p = <<k>> PROVE p \in Seq(Steps) /\ 1 \in DOMAIN p /\ p[1] = k
  <2>1. <<k>> \in Seq(Steps) /\ Len(<<k>>) = 1
    BY <1>2
  <2>2. 1 \in DOMAIN <<k>>
    BY <2>1, LenProperties
  <2>3. <<k>>[1] = k
    OBVIOUS
  <2> QED  BY <1>4, <2>1, <2>2, <2>3
<1>5. ASSUME NEW s \in Steps, p = <<k, s>>
      PROVE  p \in Seq(Steps) /\ 1 \in DOMAIN p /\ p[1] = k
  BY <1>2, <1>5
<1>6. p \in Seq(Steps) /\ 1 \in DOMAIN p /\ p[1] = k
  BY <1>1, <1>4, <1>5 DEF k
<1> QED  BY <1>3, <1>6 DEF Marked

(* No password is logged of a body, of whatever content and length, whose   *)
(* passwords stand where the API has them (sanitizeBody).                   *)
THEOREM NoPasswordIsLogged ==
  ASSUME NEW body, IsBody(body), IsMarked(body),
         NEW p \in DOMAIN SanitizeBody(body)
  PROVE  SanitizeBody(body)[p] \notin Passwords
<1>1. Passwords \cap {"redacted", "omitted", "binary", "true"} = {}
  BY RequestLogAssumption DEF Placeholders
<1>2. ASSUME NEW v, DOMAIN v \subseteq Seq(Steps),
             \A q \in DOMAIN v : v[q] \notin Passwords,
             NEW q \in DOMAIN LimitJSONSize(v)
      PROVE  LimitJSONSize(v)[q] \notin Passwords
  BY <1>1, <1>2, LimitedLeaf
<1>3. ASSUME NEW v, DOMAIN v \subseteq Seq(Steps),
             \A q \in DOMAIN v : v[q] \in Passwords => Marked(q)
      PROVE  /\ DOMAIN SanitizeJSON(v) \subseteq Seq(Steps)
             /\ \A q \in DOMAIN SanitizeJSON(v) : SanitizeJSON(v)[q] \notin Passwords
  BY <1>1, <1>3, SanitizedLeaf
<1>4. ASSUME NEW v, SanitizeBody(body) = LimitJSONSize(SanitizeJSON(v)),
             DOMAIN v \subseteq Seq(Steps),
             \A q \in DOMAIN v : v[q] \in Passwords => Marked(q)
      PROVE  SanitizeBody(body)[p] \notin Passwords
  BY <1>2, <1>3, <1>4
<1>5. CASE body.content = "json"
  <2>1. SanitizeBody(body) = LimitJSONSize(SanitizeJSON(body.value))
    BY <1>5 DEF SanitizeBody
  <2>2. \A q \in DOMAIN body.value : body.value[q] \in Passwords => Marked(q)
    BY <1>5 DEF IsMarked
  <2> QED  BY <1>4, <2>1, <2>2 DEF IsBody
<1>6. CASE body.content = "form"
  <2> DEFINE v == Fields(body.parts)
  <2>1. SanitizeBody(body) = LimitJSONSize(SanitizeJSON(v))
    BY <1>6 DEF SanitizeBody
  <2>2. ASSUME NEW q \in DOMAIN v
        PROVE  q \in Seq(Steps) /\ (v[q] \in Passwords => Marked(q))
    <3>1. PICK i \in DOMAIN body.parts :
            /\ v[q] = body.parts[i].value
            /\ \/ q = <<Key(body.parts[i].name)>>
               \/ \E n \in Nat \ {0} : q = <<Key(body.parts[i].name), Item(n)>>
      BY FieldLeaf DEF IsBody
    <3>2. body.parts[i].name \in STRING
      BY DEF IsBody
    <3>3. body.parts[i].value \in Passwords => body.parts[i].name \in PasswordKeys
      BY <1>6 DEF IsMarked
    <3> QED  BY <3>1, <3>2, <3>3, FieldPath
  <2> HIDE DEF v
  <2> QED  BY <1>4, <2>1, <2>2
<1>7. CASE body.content = "multipart"
  <2> DEFINE Kept(part) == IF part.file THEN "binary"
                           ELSE IF part.name \in PasswordKeys THEN "redacted" ELSE part.value
             kept == [i \in DOMAIN body.parts |->
                        [body.parts[i] EXCEPT !.value = Kept(body.parts[i])]]
             v == Fields(kept)
  <2>1. SanitizeBody(body) = IF body.parts = <<>> THEN Text("binary") ELSE LimitJSONSize(v)
    BY <1>7 DEF SanitizeBody, SanitizeMultipart
  <2>2. ASSUME NEW i \in DOMAIN body.parts
        PROVE  /\ kept[i].name = body.parts[i].name /\ kept[i].name \in STRING
               /\ kept[i].value \notin Passwords
    <3>1. body.parts[i] = [name |-> body.parts[i].name, file |-> body.parts[i].file,
                           value |-> body.parts[i].value]
          /\ body.parts[i].name \in STRING
      BY DEF IsBody
    <3>2. kept[i].name = body.parts[i].name /\ kept[i].value = Kept(body.parts[i])
      BY <3>1
    <3>3. body.parts[i].value \in Passwords => body.parts[i].name \in PasswordKeys \/ body.parts[i].file
      BY <1>7 DEF IsMarked
    <3> QED  BY <1>1, <3>1, <3>2, <3>3
  <2>3. ASSUME NEW q \in DOMAIN v
        PROVE  q \in Seq(Steps) /\ v[q] \notin Passwords
    <3>1. DOMAIN kept = DOMAIN body.parts
      OBVIOUS
    <3>2. \A i \in DOMAIN kept : kept[i].name \in STRING /\ kept[i].value \notin Passwords
      BY <2>2, <3>1
    <3>3. Len(body.parts) \in Nat /\ DOMAIN kept = 1 .. Len(body.parts)
      BY <3>1 DEF IsBody
    <3> HIDE DEF kept
    <3>4. PICK i \in DOMAIN kept :
            /\ v[q] = kept[i].value
            /\ \/ q = <<Key(kept[i].name)>>
               \/ \E n \in Nat \ {0} : q = <<Key(kept[i].name), Item(n)>>
      BY <3>3, FieldLeaf
    <3> QED  BY <3>2, <3>4, FieldPath
  <2> HIDE DEF v
  <2> QED  BY <1>1, <1>2, <2>1, <2>3 DEF Text
<1>8. CASE body.content = "binary"
  <2>1. SanitizeBody(body) = Text("binary")
    BY <1>8 DEF SanitizeBody
  <2> QED  BY <1>1, <2>1 DEF Text
<1>9. CASE body.content = "text"
  <2>1. /\ DOMAIN body.value = {<<>>}
        /\ body.value[<<>>] \in Passwords => body.value[<<>>] \in PasswordTexts
    BY <1>9 DEF IsBody, IsMarked
  <2>2. SanitizeBody(body) =
          IF body.value[<<>>] \in PasswordTexts THEN Text("redacted") ELSE body.value
    BY <1>9 DEF SanitizeBody
  <2> QED  BY <1>1, <2>1, <2>2 DEF Text
<1> QED  BY <1>5, <1>6, <1>7, <1>8, <1>9 DEF IsBody

(* And nothing but passwords is held back from a JSON body that is logged   *)
(* whole: every leaf with no such key above it is logged as it is, a        *)
(* one-time code and a token like any other text (sanitizeJSON).            *)
THEOREM OtherTextsAreLogged ==
  ASSUME NEW body, body.content = "json", DOMAIN body.value \subseteq Seq(Steps),
         Size(SanitizeJSON(body.value)) <= MaxLoggedBody,
         NEW p \in DOMAIN body.value, ~ Marked(p)
  PROVE  p \in DOMAIN SanitizeBody(body) /\ SanitizeBody(body)[p] = body.value[p]
<1> DEFINE clean == SanitizeJSON(body.value)
<1>1. SanitizeBody(body) = clean
  BY DEF SanitizeBody, LimitJSONSize
<1>2. Cut(p) \in DOMAIN clean /\ Cut(p) = p
  BY DEF SanitizeJSON, Cut
<1>3. clean[p] = body.value[p]
  BY <1>2, SanitizedLeaf
<1> QED  BY <1>1, <1>2, <1>3

\* No password reaches the log index (registerLogging, sanitizeBody).
THEOREM PasswordsAreKeptOut == PipelineSpec => []PasswordsStayOut
<1>1. PasswordsStayOut
  <2> SUFFICES ASSUME NEW e \in Entries, NEW body \in Bodies[e.request],
                      NEW p \in DOMAIN body
               PROVE  body[p] \notin Passwords
    BY DEF PasswordsStayOut
  <2>1. e.request \in Requests
    BY DEF Entries
  <2>2. PICK b \in {Detail[e.request].body, Detail[e.request].answer} : body = SanitizeBody(b)
    BY <2>1 DEF Bodies, LoggedBodies
  <2> QED  BY <2>1, <2>2, PasswordsAssumption, NoPasswordIsLogged
<1> QED  BY <1>1, PTL
-----------------------------------------------------------------------------
(* What the log keeps of an answer                                          *)

IdPath == <<Key("destination"), Key("id")>>

\* Of an answer that is logged whole the id is kept as it is, and of another
\* there is none where the searches look for it (limitJSONSize).
LEMMA IdOfSummary ==
  ASSUME NEW r \in Requests, Detail[r].route = "destination", Detail[r].status = 200
  PROVE  LET v == Detail[r].answer.value
             small == Size(SanitizeJSON(v)) <= MaxLoggedBody
         IN Document[r].destination = IF small /\ IdPath \in DOMAIN v THEN v[IdPath] ELSE None
<1> DEFINE v == Detail[r].answer.value
           clean == SanitizeJSON(v)
           summary == SanitizeBody(Detail[r].answer)
<1>1. DOMAIN v \subseteq Seq(Steps)
  BY PasswordsAssumption DEF IsBody
<1>2. summary = LimitJSONSize(clean)
  BY AnswersAssumption DEF SanitizeBody
<1>3. Document[r].destination = IF IdPath \in DOMAIN summary THEN summary[IdPath] ELSE None
  BY DocumentsAssumption DEF LogDocument, DestinationOf, IdPath
<1>4. ~ Marked(IdPath)
  <2>1. \A n \in DOMAIN IdPath : IdPath[n] \in {Key("destination"), Key("id")}
    BY DEF IdPath
  <2>2. ~ IsPasswordKey(Key("destination")) /\ ~ IsPasswordKey(Key("id"))
    BY AnswersAssumption DEF IsPasswordKey, Key
  <2> QED  BY <2>1, <2>2 DEF Marked
<1>5. IdPath \in DOMAIN clean <=> IdPath \in DOMAIN v
  <2>1. IdPath \in DOMAIN clean => IdPath \in DOMAIN v
    BY <1>1, <1>4, SanitizedLeaf
  <2>2. IdPath \in DOMAIN v => Cut(IdPath) \in DOMAIN clean
    BY DEF SanitizeJSON
  <2> QED  BY <1>4, <2>1, <2>2 DEF Cut
<1>6. IdPath \in DOMAIN clean => clean[IdPath] = v[IdPath]
  BY <1>1, <1>4, SanitizedLeaf
<1>7. CASE Size(clean) <= MaxLoggedBody
  <2>1. summary = clean
    BY <1>2, <1>7 DEF LimitJSONSize
  <2> QED  BY <1>3, <1>5, <1>6, <1>7, <2>1
<1>8. CASE ~ Size(clean) <= MaxLoggedBody
  <2>1. DOMAIN summary = {<<Key("_truncated")>>}
                         \cup {<<Key("_preview")>> \o q : q \in DOMAIN Preview(clean)}
    BY <1>2, <1>8 DEF LimitJSONSize
  <2>2. DOMAIN clean \subseteq Seq(Steps)
    BY <1>1, SanitizedLeaf
  <2>3. \A q \in DOMAIN Preview(clean) : q \in Seq(Steps)
    BY <2>2, PreviewLeaf
  <2>4. IdPath \notin DOMAIN summary
    <3>1. IdPath[1] = Key("destination") /\ IdPath # <<Key("_truncated")>>
      BY DEF IdPath, Key
    <3>2. ASSUME NEW q \in Seq(Steps) PROVE (<<Key("_preview")>> \o q)[1] = Key("_preview")
      OBVIOUS
    <3>3. Key("_preview") # Key("destination")
      BY DEF Key
    <3> QED  BY <2>1, <2>3, <3>1, <3>2, <3>3
  <2> QED  BY <1>3, <1>8, <2>4
<1> QED  BY <1>7, <1>8

\* The fields of a document that are not of the body.
LEMMA DocumentFields ==
  ASSUME NEW r \in Requests
  PROVE  /\ Document[r].route = Detail[r].route
         /\ Document[r].status = Detail[r].status
         /\ Document[r].ip = Detail[r].ip
         /\ Subject[r] = SubjectOf(Detail[r])
BY DocumentsAssumption DEF LogDocument

(* What is logged of a request names the destination it was answered with   *)
(* or none: the assumption on documents under which the counts were proved  *)
(* (SubjectAssumption) is what sanitizeBody does to every answer.           *)
THEOREM DocumentsNameTheirSubject ==
  \A r \in Requests :
    /\ Document[r].route = "destination"
    /\ Document[r].status = 200
    /\ Document[r].destination \in Dests
    => Subject[r] = Document[r].destination
<1> SUFFICES ASSUME NEW r \in Requests,
                    Document[r].route = "destination", Document[r].status = 200,
                    Document[r].destination \in Dests
             PROVE  Subject[r] = Document[r].destination
  OBVIOUS
<1> DEFINE v == Detail[r].answer.value
<1>1. Detail[r].route = "destination" /\ Detail[r].status = 200
  BY DocumentFields
<1>2. Document[r].destination # None
  BY NoneAssumption
<1>3. IdPath \in DOMAIN v /\ Document[r].destination = v[IdPath]
  BY <1>1, <1>2, IdOfSummary
<1> QED  BY <1>1, <1>3, DocumentFields DEF SubjectOf, DestinationOf, IdPath

(* What the searches of fetchRangeStats match are exactly the views from    *)
(* outside whose answer was logged whole.                                   *)
THEOREM MatchesAreFindable == \A d \in Dests : Matches[d] = Findable[d]
<1> SUFFICES ASSUME NEW d \in Dests, NEW e \in Entries
             PROVE  e \in Matches[d] <=> e \in Findable[d]
  BY DEF Matches, Findable, Views
<1> DEFINE req == Detail[e.request]
           v == req.answer.value
           small == Size(SanitizeJSON(v)) <= MaxLoggedBody
<1>1. e.request \in Requests
  BY DEF Entries
<1>2. e \in Matches[d] <=>
        /\ req.route = "destination" /\ req.status = 200 /\ req.ip # "10."
        /\ Document[e.request].destination = d
  BY <1>1, DocumentFields DEF Matches
<1>3. e \in Findable[d] <=> Subject[e.request] = d /\ req.ip # "10." /\ small
  BY DEF Findable, Views
<1>4. Subject[e.request] = d <=>
        /\ req.route = "destination" /\ req.status = 200
        /\ IdPath \in DOMAIN v /\ v[IdPath] = d
  BY <1>1, DocumentFields, NoneAssumption DEF SubjectOf, DestinationOf, IdPath
<1>5. req.route = "destination" /\ req.status = 200 =>
        (Document[e.request].destination = d <=> small /\ IdPath \in DOMAIN v /\ v[IdPath] = d)
  BY <1>1, IdOfSummary, NoneAssumption
<1> QED  BY <1>2, <1>3, <1>4, <1>5

(* The views a search cannot find, from inside or with an answer too large  *)
(* to be logged whole, are never counted, for this destination or another.  *)
THEOREM OnlyFindableCounted ==
  PipelineSpec => [](\A d \in Dests : stats[d] # None =>
                       \A k \in RangeKeys : stats[d].views[k] <= Total(logged, Findable[d]))
<1>1. ASSUME NEW d \in Dests
      PROVE  Matches[d] \subseteq Findable[d] /\ Findable[d] \subseteq Entries
  BY MatchesAreFindable DEF Findable, Views
<1>2. StatsWellTyped /\ WriterIInv /\ CountInv =>
        \A d \in Dests : stats[d] # None =>
          \A k \in RangeKeys : stats[d].views[k] <= Total(logged, Findable[d])
  BY <1>1, CountedAmong
<1> QED
  BY <1>2, CountInvariance, StatsTypes, PipelineImplementsWriter, WriterInvariance, PTL

-----------------------------------------------------------------------------
(* What a goroutine in Write can rely on                                    *)

\* A locked mutex has a holder, who is on the way to unlock it, and who sends
\* has a connection: no line is written to one that closeConnLocked or Close
\* has taken away, and nobody waits for a goroutine that has gone.
NobodyStuck ==
  /\ lock # Null => lock \in Writers /\ wpc[lock] \in {"check", "dial", "send"}
  /\ \A w \in Writers : wpc[w] = "send" => conn # "none"

\* A step of the writer keeps it: the connection is taken away only under the
\* mutex.
LEMMA NobodyStuckStep ==
  WriterIInv /\ NobodyStuck /\ [WriterNext]_writerVars => NobodyStuck'
<1> SUFFICES ASSUME WriterIInv, NobodyStuck, [WriterNext]_writerVars
             PROVE  NobodyStuck'
  OBVIOUS
<1> USE DEF WriterIInv, WriterTypeOK, Holding, NobodyStuck
<1>1. ASSUME NEW w \in Writers, NEW l \in Lines, Write(w, l) PROVE NobodyStuck'
  BY <1>1 DEF Write
<1>2. ASSUME NEW w \in Writers, WriteStep(w) PROVE NobodyStuck'
  <2>1. CASE Lock(w)
    BY <2>1, LogstashAssumption DEF Lock
  <2>2. CASE EnsureConn(w)
    BY <2>2, LogstashAssumption DEF EnsureConn, Return, Goto
  <2>3. CASE Dial(w)
    BY <2>3, LogstashAssumption DEF Dial, Return, Goto
  <2>4. CASE SendArrives(w) \/ SendFails(w) \/ SendLost(w)
    BY <2>4, LogstashAssumption DEF SendArrives, SendFails, SendLost, Return
  <2> QED  BY <1>2, <2>1, <2>2, <2>3, <2>4 DEF WriteStep
<1>3. CASE Close
  BY <1>3, LogstashAssumption DEF Close
<1>4. CASE CoolDownEnds \/ LinkDown \/ LinkUp
  BY <1>4 DEF CoolDownEnds, LinkDown, LinkUp
<1>5. CASE UNCHANGED writerVars
  BY <1>5 DEF writerVars
<1> QED  BY <1>1, <1>2, <1>3, <1>4, <1>5 DEF WriterNext

\* The mutex never stays locked behind a goroutine that returned, and nobody
\* sends without a connection, for any number of goroutines and however often
\* Logstash goes away (Write, closeConnLocked, Close).
THEOREM NobodyIsStuck == WriterSpec => []NobodyStuck
<1>1. WriterInit => NobodyStuck
  BY DEF WriterInit, NobodyStuck
<1> QED  BY <1>1, NobodyStuckStep, WriterInvariance, PTL DEF WriterSpec

-----------------------------------------------------------------------------
(* While Logstash is there                                                  *)

Reachable == link = "up" /\ ~ closed

\* Every line written is carried or has arrived: none was dropped.
NothingDropped == \A l \in Tracked : received[l] + Cardinality(Carriers(l)) = logged[l]

\* Why no line is dropped: whoever finds no connection may dial.
Steady ==
  /\ conn \in {"none", "open"}
  /\ ~ cooling
  /\ NothingDropped

\* A goroutine that calls Write carries its line.
LEMMA PickUp ==
  ASSUME WriterIInv, Steady, NEW w \in Writers, NEW l \in Lines, Write(w, l)
  PROVE  NothingDropped'
<1> SUFFICES ASSUME NEW k \in Tracked
             PROVE  received'[k] + Cardinality(Carriers(k)') = logged'[k]
  BY DEF NothingDropped
<1> USE DEF WriterIInv, WriterTypeOK
<1>1. received'[k] = received[k] /\ received[k] \in Nat /\ logged[k] \in Nat
  BY DEF Write
<1>2. received[k] + Cardinality(Carriers(k)) = logged[k]
  BY DEF Steady, NothingDropped
<1>3. CASE k = l
  <2>1. Carriers(k)' = Carriers(k) \cup {w} /\ w \notin Carriers(k)
    BY <1>3 DEF Write, Carriers
  <2>2. logged'[k] = logged[k] + 1
    BY <1>3 DEF Write, Counted
  <2>3. Cardinality(Carriers(k)) \in Nat
        /\ Cardinality(Carriers(k)') = Cardinality(Carriers(k)) + 1
    BY <2>1, CarriersFinite, OneMore
  <2> QED  BY <1>1, <1>2, <2>2, <2>3
<1>4. CASE k # l
  <2>1. Carriers(k)' = Carriers(k)
    BY <1>4 DEF Write, Carriers
  <2>2. logged'[k] = logged[k]
    BY <1>4 DEF Write, Counted
  <2> QED  BY <1>1, <1>2, <2>1, <2>2
<1> QED  BY <1>3, <1>4

\* A line that arrives is no longer carried.
LEMMA Delivered ==
  ASSUME WriterIInv, Steady, NEW w \in Writers, SendArrives(w)
  PROVE  NothingDropped'
<1> SUFFICES ASSUME NEW k \in Tracked
             PROVE  received'[k] + Cardinality(Carriers(k)') = logged'[k]
  BY DEF NothingDropped
<1> USE DEF WriterIInv, WriterTypeOK
<1>1. Carriers(k)' = Carriers(k) \ {w}
  BY LogstashAssumption DEF Carriers, SendArrives, Return
<1>2. w \in Carriers(k) <=> line[w] = k
  BY DEF Carriers, SendArrives
<1>3. received[k] \in Nat /\ logged[k] \in Nat /\ logged'[k] = logged[k]
  BY DEF SendArrives
<1>4. received[k] + Cardinality(Carriers(k)) = logged[k]
  BY DEF Steady, NothingDropped
<1>5. received'[k] = IF line[w] = k THEN received[k] + 1 ELSE received[k]
  BY DEF SendArrives, Counted
<1>6. /\ Cardinality(Carriers(k)) \in Nat
      /\ Cardinality(Carriers(k)') \in Nat
      /\ line[w] = k => Cardinality(Carriers(k)') = Cardinality(Carriers(k)) - 1
      /\ line[w] # k => Cardinality(Carriers(k)') = Cardinality(Carriers(k))
  BY <1>1, <1>2, CarriersFinite, OneLess
<1> QED  BY <1>3, <1>4, <1>5, <1>6

\* Steps that return nothing and write nothing.
LEMMA NothingDroppedOn ==
  ASSUME Steady, received' = received, logged' = logged, line' = line,
         \A w \in Writers : wpc'[w] = "idle" <=> wpc[w] = "idle"
  PROVE  NothingDropped'
<1>1. \A l : Carriers(l)' = Carriers(l)
  BY DEF Carriers
<1> QED  BY <1>1 DEF Steady, NothingDropped

\* While Logstash is reachable and the writer open, a step drops nothing.
LEMMA SteadyStep ==
  ASSUME WriterIInv, Steady, NobodyStuck, Reachable, Reachable', [WriterNext]_writerVars
  PROVE  Steady'
<1> USE DEF WriterIInv, WriterTypeOK, Reachable
<1>1. ASSUME NEW w \in Writers, NEW l \in Lines, Write(w, l) PROVE Steady'
  BY <1>1, PickUp DEF Steady, Write
<1>2. ASSUME NEW w \in Writers, WriteStep(w) PROVE Steady'
  <2>1. CASE Lock(w)
    BY <2>1, NothingDroppedOn DEF Lock, Steady
  <2>2. CASE EnsureConn(w)
    BY <2>2, NothingDroppedOn DEF EnsureConn, Goto, Steady
  <2>3. CASE Dial(w)
    BY <2>3, NothingDroppedOn DEF Dial, Goto, Steady
  <2>4. CASE SendArrives(w)
    BY <2>4, Delivered DEF SendArrives, Steady
  <2>5. ~ SendFails(w) /\ ~ SendLost(w)
    BY DEF SendFails, SendLost, Steady
  <2> QED  BY <1>2, <2>1, <2>2, <2>3, <2>4, <2>5 DEF WriteStep
<1>3. ~ Close /\ ~ LinkDown /\ ~ LinkUp /\ ~ CoolDownEnds
  BY DEF Close, LinkDown, LinkUp, CoolDownEnds, Steady
<1>4. CASE UNCHANGED writerVars
  BY <1>4, NothingDroppedOn DEF writerVars, Steady
<1> QED  BY <1>1, <1>2, <1>3, <1>4 DEF WriterNext

\* As long as Logstash stays reachable and the writer open, no line is dropped:
\* each Write carries its line until it has arrived.  Lines are lost only
\* through a broken connection, a cool-down or Close.
THEOREM NothingIsDropped == WriterSpec /\ []Reachable => []NothingDropped
<1>1. WriterInit => Steady
  <2> SUFFICES ASSUME WriterInit PROVE Steady  OBVIOUS
  <2>1. \A l \in Tracked : Carriers(l) = {}
    BY DEF WriterInit, Carriers
  <2> QED  BY <2>1, FS_EmptySet DEF WriterInit, Steady, NothingDropped
<1>2. WriterIInv /\ NobodyStuck /\ Reachable /\ Reachable' /\ Steady
        /\ [WriterNext]_writerVars => Steady'
  BY SteadyStep
<1>3. Steady => NothingDropped
  BY DEF Steady
<1> QED  BY <1>1, <1>2, <1>3, WriterInvariance, NobodyIsStuck, PTL DEF WriterSpec

-----------------------------------------------------------------------------
(* The rollup by itself                                                     *)

\* Nobody but the rollup refreshes.
RollupOnly == ~ On("view") /\ ~ On("export")

\* What a row counts of all times does not become less, nor does the time up
\* to which it does.
NoLess(row, next) ==
  row # None =>
    /\ next # None
    /\ row.bucket_end <= next.bucket_end
    /\ \A k \in RangeKeys : Duration[k] = 0 => row.views[k] <= next.views[k]

\* A row is not ahead of the clock and of the index, ix.
InTime(row, d, t, ix) ==
  row # None =>
    /\ row.bucket_end <= t
    /\ \A k \in RangeKeys : Duration[k] = 0 => row.views[k] <= Total(ix, Matches[d])

\* Nor of the refresh at step s with the local variables j, which will
\* replace it.
Behind(row, d, s, j) ==
  row # None =>
    /\ row.bucket_end <= j.asof
    /\ d \in j.chunk => \A n \in Searched(s, j) :
         Duration[Ranges[n]] = 0 => row.views[Ranges[n]] <= j.found[d][Ranges[n]]

\* The refresh the rollup is in, at step s with the local variables j.
RollupOK(s, j) ==
  s \in {"fetch", "upsert"} =>
    /\ j.op = "rollup"
    /\ j.asof <= now
    /\ \A d \in Dests : Behind(stats[d], d, s, j)

Undisturbed ==
  RollupOnly =>
    /\ \A h \in Askers : spc[h] = "idle"
    /\ \A d \in Dests : InTime(stats[d], d, now, index)
    /\ RollupOK(spc[Rollup], job[Rollup])

\* All that is known of a step of the pipeline where nobody else refreshes.
Alone ==
  /\ StatsWellTyped /\ WriterIInv /\ CountInv /\ Undisturbed
  /\ [PipelineNext]_pipelineVars
  /\ RollupOnly

\* The clock does not go back, and rows the index was not ahead of stay so.
LEMMA InTimeKept ==
  ASSUME Alone, NEW d \in Dests, now' = now \/ now' = now + 1
  PROVE  InTime(stats[d], d, now', index')
<1> SUFFICES ASSUME stats[d] # None
             PROVE  /\ stats[d].bucket_end <= now'
                    /\ \A k \in RangeKeys : Duration[k] = 0 =>
                         stats[d].views[k] <= Total(index', Matches[d])
  BY DEF InTime
<1>1. stats[d] \in StatsRow /\ now \in Times
  BY DEF Alone, StatsWellTyped, StatsTypeOK
<1>2. InTime(stats[d], d, now, index)
  BY DEF Alone, Undisturbed
<1>3. stats[d].bucket_end <= now'
  <2>1. stats[d].bucket_end \in Nat /\ now \in Nat
    BY <1>1, ViewStatsAssumption DEF StatsRow, Times
  <2> QED  BY <1>2, <2>1 DEF InTime
<1>4. ASSUME NEW k \in RangeKeys, Duration[k] = 0
      PROVE  stats[d].views[k] <= Total(index', Matches[d])
  <2>1. stats[d].views[k] \in Nat
    BY <1>1 DEF StatsRow
  <2>2. stats[d].views[k] <= Total(index, Matches[d])
    BY <1>2, <1>4 DEF InTime
  <2>3. /\ Total(index, Matches[d]) \in Nat /\ Total(index', Matches[d]) \in Nat
        /\ Total(index, Matches[d]) <= Total(index', Matches[d])
    BY WindowMatches, TotalsGrow DEF Alone, CountInv
  <2> QED  BY <2>1, <2>2, <2>3
<1> QED  BY <1>3, <1>4

\* A step that leaves the rows and the rollup alone.
LEMMA RollupUntouched ==
  ASSUME Alone, now' = now \/ now' = now + 1, UNCHANGED <<stats, spc, job, serving>>
  PROVE  Undisturbed'
<1>1. \A d \in Dests : InTime(stats[d], d, now, index)'
  BY InTimeKept DEF InTime
<1>2. RollupOK(spc[Rollup], job[Rollup])'
  <2> SUFFICES ASSUME spc[Rollup] \in {"fetch", "upsert"} PROVE job[Rollup].asof <= now'
    BY DEF RollupOK, Behind, Alone, Undisturbed
  <2>1. job[Rollup] \in Job
    BY DEF Alone, StatsWellTyped, StatsTypeOK, Refreshers
  <2>2. job[Rollup].asof \in Nat /\ now \in Nat
    BY <2>1, ViewStatsAssumption DEF Job, Times, Alone, StatsWellTyped, StatsTypeOK
  <2>3. job[Rollup].asof <= now
    BY DEF Alone, Undisturbed, RollupOK
  <2> QED  BY <2>2, <2>3
<1>3. \A h \in Askers : spc'[h] = "idle"
  BY DEF Alone, Undisturbed
<1> QED  BY <1>1, <1>2, <1>3 DEF Undisturbed

\* The rollup takes up the next chunk of a refresh nobody is ahead of.
LEMMA RollupNextChunk ==
  ASSUME Alone, UNCHANGED now, NEW j \in Job, j.op = "rollup", j.asof <= now,
         \A d \in Dests : stats'[d] # None => stats'[d].bucket_end <= j.asof,
         NextChunk(Rollup, j)
  PROVE  RollupOK(spc[Rollup], job[Rollup])'
<1>1. PICK chunk \in SUBSET j.todo :
        Advance(Rollup, "fetch", [j EXCEPT !.chunk = chunk, !.todo = @ \ chunk,
                                           !.at = 1, !.found = NoViews])
  BY DEF NextChunk
<1> DEFINE k == [j EXCEPT !.chunk = chunk, !.todo = @ \ chunk, !.at = 1, !.found = NoViews]
<1>2. k.at = 1 /\ k.asof = j.asof /\ k.op = j.op
  BY DEF Job
<1>3. Advance(Rollup, "fetch", k)
  BY <1>1
<1> HIDE DEF k
<1>4. Searched("fetch", k) = {}
  BY <1>2, RangesAssumption DEF Searched
<1>5. spc'[Rollup] = "fetch" /\ job'[Rollup] = k
  BY <1>3 DEF Advance, Alone, StatsWellTyped, StatsTypeOK, Refreshers
<1> QED  BY <1>2, <1>4, <1>5 DEF RollupOK, Behind

\* A tick of the rollup: no row is ahead of the clock.
LEMMA RollupTickAlone ==
  ASSUME Alone, RollupTick, UNCHANGED serving
  PROVE  Undisturbed' /\ \A d \in Dests : NoLess(stats[d], stats'[d])
<1>1. UNCHANGED <<now, index, stats>> /\ Refresh(Rollup, "rollup", Dests, None)
  BY DEF RollupTick
<1> DEFINE j == [op |-> "rollup", ids |-> Dests, todo |-> Dests, chunk |-> {}, asof |-> now,
                 at |-> 1, found |-> NoViews, old |-> None]
<1>2. j \in Job /\ j.op = "rollup" /\ j.asof = now
  BY NoViewsTyped DEF Job, Alone, StatsWellTyped, StatsTypeOK
<1>3. NextChunk(Rollup, j)
  BY <1>1 DEF Refresh
<1> HIDE DEF j
<1>4. now \in Nat
  BY ViewStatsAssumption DEF Times, Alone, StatsWellTyped, StatsTypeOK
<1>5. RollupOK(spc[Rollup], job[Rollup])'
  <2>1. \A d \in Dests : stats'[d] # None => stats'[d].bucket_end <= j.asof
    BY <1>1, <1>2 DEF Alone, Undisturbed, InTime
  <2> QED  BY <1>1, <1>2, <1>3, <1>4, <2>1, RollupNextChunk
<1>6. \A d \in Dests : InTime(stats[d], d, now, index)'
  BY <1>1 DEF Alone, Undisturbed, InTime
<1>7. \A h \in Askers : spc'[h] = "idle"
  BY <1>3, ViewStatsAssumption DEF NextChunk, Advance, Alone, Undisturbed,
     StatsWellTyped, StatsTypeOK, Refreshers
<1>8. \A d \in Dests : NoLess(stats[d], stats'[d])
  <2> SUFFICES ASSUME NEW d \in Dests, stats[d] # None PROVE NoLess(stats[d], stats[d])
    BY <1>1 DEF NoLess
  <2>1. stats[d] \in StatsRow
    BY DEF Alone, StatsWellTyped, StatsTypeOK
  <2>2. stats[d].bucket_end \in Nat /\ \A k \in RangeKeys : stats[d].views[k] \in Nat
    BY <2>1, ViewStatsAssumption DEF StatsRow, Times
  <2> QED  BY <2>2 DEF NoLess
<1> QED  BY <1>5, <1>6, <1>7, <1>8 DEF Undisturbed

\* A search of the rollup: what it finds is no less than what is in the row,
\* which only a refresh that has ended has written.
LEMMA RollupFetchAlone ==
  ASSUME Alone, Fetch(Rollup), UNCHANGED serving
  PROVE  Undisturbed'
<1>1. UNCHANGED <<now, index, stats>>
  BY DEF Fetch
<1>2. Rollup \in Refreshers /\ WorkOK /\ index \in [Entries -> Nat]
  BY DEF Refreshers, Alone, StatsWellTyped, StatsTypeOK, WorkOK
<1> DEFINE j == job[Rollup]
           f == WithFound(j)
           next == [j EXCEPT !.at = @ + 1, !.found = f]
           last == [j EXCEPT !.found = f]
<1>3. j \in Job /\ j.at \in DOMAIN Ranges /\ spc[Rollup] = "fetch"
  BY <1>2 DEF Fetch, WorkOK
<1>4. f \in [Dests -> [RangeKeys -> Nat]]
  BY <1>2, <1>3, WithFoundTyped
<1>5. DOMAIN Ranges = 1 .. Len(Ranges) /\ Len(Ranges) \in Nat
  BY RangesAssumption
<1>6. /\ RollupOK("fetch", j)
      /\ \A d \in Dests : InTime(stats[d], d, now, index)
      /\ \A h \in Askers : spc[h] = "idle"
  BY <1>3 DEF Alone, Undisturbed
<1>7. \/ j.at < Len(Ranges) /\ Advance(Rollup, "fetch", next)
      \/ j.at = Len(Ranges) /\ Advance(Rollup, "upsert", last)
  BY <1>2, FetchCases
<1> HIDE DEF j
<1>8. ASSUME NEW d \in Dests, d \in j.chunk, stats[d] # None,
             NEW n \in DOMAIN Ranges, n <= j.at, Duration[Ranges[n]] = 0
      PROVE  stats[d].views[Ranges[n]] <= f[d][Ranges[n]]
  <2>1. Ranges[n] \in RangeKeys /\ Ranges[j.at] \in RangeKeys
    BY <1>3 DEF RangeKeys
  <2>2. /\ j.found \in [Dests -> [RangeKeys -> Nat]]
        /\ j.asof \in Times
    BY <1>3 DEF Job
  <2>3. CASE n = j.at
    <3>1. f[d][Ranges[n]] = Found(d, Ranges[n], j.asof)
      BY <1>8, <2>1, <2>2, <2>3 DEF WithFound
    <3>2. Found(d, Ranges[n], j.asof) = Total(index, Matches[d])
      BY <1>8 DEF Found
    <3> QED  BY <1>6, <1>8, <2>1, <3>1, <3>2 DEF InTime
  <2>4. CASE n # j.at
    <3>1. n < j.at /\ Ranges[n] # Ranges[j.at]
      BY <1>3, <1>5, <1>8, <2>4, RangesAssumption
    <3>2. f[d][Ranges[n]] = j.found[d][Ranges[n]]
      BY <1>8, <2>1, <2>2, <3>1 DEF WithFound
    <3>3. n \in Searched("fetch", j)
      BY <3>1 DEF Searched
    <3> QED  BY <1>6, <1>8, <3>2, <3>3 DEF RollupOK, Behind
  <2> QED  BY <2>3, <2>4
<1>9. ASSUME NEW s \in {"fetch", "upsert"}, NEW k, Advance(Rollup, s, k),
             k.found = f, k.chunk = j.chunk, k.asof = j.asof, k.op = j.op,
             \A n \in Searched(s, k) : n <= j.at
      PROVE  RollupOK(spc[Rollup], job[Rollup])'
  <2>1. spc'[Rollup] = s /\ job'[Rollup] = k
    BY <1>2, <1>9 DEF Advance, WorkOK
  <2>2. k.op = "rollup" /\ k.asof <= now
    BY <1>6, <1>9 DEF RollupOK
  <2>3. ASSUME NEW d \in Dests PROVE Behind(stats[d], d, s, k)
    <3>1. stats[d] # None => stats[d].bucket_end <= k.asof
      BY <1>6, <1>9 DEF RollupOK, Behind
    <3>2. Searched(s, k) \subseteq DOMAIN Ranges
      BY DEF Searched
    <3> HIDE DEF f
    <3> QED  BY <1>8, <1>9, <3>1, <3>2 DEF Behind
  <2> QED  BY <1>1, <2>1, <2>2, <2>3 DEF RollupOK, Behind
<1> HIDE DEF f
<1>10. RollupOK(spc[Rollup], job[Rollup])'
  <2>1. CASE j.at < Len(Ranges) /\ Advance(Rollup, "fetch", next)
    <3>1. next.found = f /\ next.chunk = j.chunk /\ next.asof = j.asof /\ next.op = j.op
          /\ next.at = j.at + 1
      BY <1>3 DEF Job
    <3> HIDE DEF next
    <3>2. \A n \in Searched("fetch", next) : n <= j.at
      BY <1>3, <1>5, <3>1 DEF Searched
    <3> QED  BY <1>9, <2>1, <3>1, <3>2
  <2>2. CASE j.at = Len(Ranges) /\ Advance(Rollup, "upsert", last)
    <3>1. last.found = f /\ last.chunk = j.chunk /\ last.asof = j.asof /\ last.op = j.op
      BY <1>3 DEF Job
    <3> HIDE DEF last
    <3>2. \A n \in Searched("upsert", last) : n <= j.at
      BY <1>5, <2>2 DEF Searched
    <3> QED  BY <1>9, <2>2, <3>1, <3>2
  <2> QED  BY <1>7, <2>1, <2>2
<1>11. \A h \in Askers : spc'[h] = "idle"
  BY <1>2, <1>6, <1>7, ViewStatsAssumption DEF Advance, WorkOK, Refreshers
<1> QED  BY <1>1, <1>6, <1>10, <1>11 DEF Undisturbed, InTime

\* The statement that writes a chunk: each row was behind it.
LEMMA RollupUpsertAlone ==
  ASSUME Alone, Upsert(Rollup), UNCHANGED serving
  PROVE  Undisturbed' /\ \A d \in Dests : NoLess(stats[d], stats'[d])
<1> DEFINE j == job[Rollup]
           row(d) == [bucket_end |-> j.asof, views |-> j.found[d]]
<1>1. /\ Rollup \in Refreshers /\ WorkOK /\ index \in [Entries -> Nat]
      /\ j \in Job /\ j # None /\ spc[Rollup] = "upsert" /\ UNCHANGED <<now, index>>
  BY DEF Refreshers, Alone, StatsWellTyped, StatsTypeOK, WorkOK, Upsert
<1>2. SearchOK("upsert", j, index) /\ Searched("upsert", j) = DOMAIN Ranges
  BY <1>1 DEF Alone, CountInv, JobsOK, JobOK, Searched
<1>3. /\ RollupOK("upsert", j)
      /\ \A d \in Dests : InTime(stats[d], d, now, index)
      /\ \A h \in Askers : spc[h] = "idle"
  BY <1>1 DEF Alone, Undisturbed
<1>4. ASSUME NEW d \in Dests
      PROVE  \/ d \in j.chunk /\ stats'[d] = row(d)
             \/ stats'[d] = stats[d]
  BY DEF Upsert
<1>5. \/ NextChunk(Rollup, j)
      \/ Advance(Rollup, "idle", None)
  BY <1>3 DEF Upsert, Refreshed, RollupOK
<1> HIDE DEF j
<1>6. j.asof \in Nat /\ now \in Nat /\ j.chunk \subseteq Dests
      /\ j.found \in [Dests -> [RangeKeys -> Nat]] /\ j.asof <= now
  BY <1>1, <1>3, ViewStatsAssumption DEF Job, Times, RollupOK, Alone, StatsWellTyped, StatsTypeOK
<1>7. ASSUME NEW d \in Dests, stats[d] # None
      PROVE  /\ stats[d].bucket_end \in Nat /\ stats[d].bucket_end <= j.asof
             /\ \A k \in RangeKeys : stats[d].views[k] \in Nat
  <2>1. stats[d] \in StatsRow
    BY <1>7 DEF Alone, StatsWellTyped, StatsTypeOK
  <2> QED  BY <1>3, <1>7, <2>1, ViewStatsAssumption DEF StatsRow, Times, RollupOK, Behind
<1>8. ASSUME NEW d \in Dests PROVE NoLess(stats[d], stats'[d])
  <2>1. CASE stats'[d] = stats[d]
    BY <1>7, <2>1 DEF NoLess
  <2>2. CASE d \in j.chunk /\ stats'[d] = row(d)
    <3>1. row(d) \in StatsRow /\ row(d).bucket_end = j.asof /\ row(d).views = j.found[d]
      BY <1>1, <1>6 DEF StatsRow, Job
    <3> HIDE DEF row
    <3>2. ASSUME stats[d] # None, NEW k \in RangeKeys, Duration[k] = 0
          PROVE  stats[d].views[k] <= j.found[d][k]
      <4>1. PICK n \in DOMAIN Ranges : k = Ranges[n]
        BY DEF RangeKeys
      <4> QED  BY <1>2, <1>3, <2>2, <3>2, <4>1 DEF RollupOK, Behind
    <3>3. row(d) # None
      BY <3>1, NoneAssumption
    <3> QED  BY <1>7, <2>2, <3>1, <3>2, <3>3 DEF NoLess
  <2> QED  BY <1>4, <2>1, <2>2
<1>9. ASSUME NEW d \in Dests PROVE InTime(stats'[d], d, now, index)
  <2>1. CASE stats'[d] = stats[d]
    BY <1>3, <2>1
  <2>2. CASE d \in j.chunk /\ stats'[d] = row(d)
    <3>1. stats'[d].bucket_end = j.asof /\ stats'[d].views = j.found[d]
      BY <2>2
    <3>2. ASSUME NEW k \in RangeKeys, Duration[k] = 0
          PROVE  j.found[d][k] <= Total(index, Matches[d])
      <4>1. PICK n \in DOMAIN Ranges : k = Ranges[n]
        BY DEF RangeKeys
      <4>2. Window(d, k, j.asof) = Matches[d]
        BY <3>2 DEF Window
      <4> QED  BY <1>2, <2>2, <4>1, <4>2 DEF SearchOK
    <3> QED  BY <1>6, <3>1, <3>2 DEF InTime
  <2> QED  BY <1>4, <2>1, <2>2
<1>10. RollupOK(spc[Rollup], job[Rollup])'
  <2>1. CASE NextChunk(Rollup, j)
    <3>1. ASSUME NEW d \in Dests, stats'[d] # None PROVE stats'[d].bucket_end <= j.asof
      <4>1. CASE stats'[d] = stats[d]
        BY <1>7, <3>1, <4>1
      <4>2. CASE stats'[d] = row(d)
        BY <1>6, <4>2
      <4> QED  BY <1>4, <4>1, <4>2
    <3>2. j.op = "rollup"
      BY <1>3 DEF RollupOK
    <3> QED  BY <1>1, <1>6, <2>1, <3>1, <3>2, RollupNextChunk
  <2>2. CASE Advance(Rollup, "idle", None)
    <3>1. spc'[Rollup] = "idle"
      BY <1>1, <2>2 DEF Advance, WorkOK
    <3> QED  BY <3>1 DEF RollupOK
  <2> QED  BY <1>5, <2>1, <2>2
<1>11. \A h \in Askers : spc'[h] = "idle"
  BY <1>1, <1>3, <1>5, ViewStatsAssumption DEF NextChunk, Advance, WorkOK, Refreshers
<1> QED  BY <1>1, <1>8, <1>9, <1>10, <1>11 DEF Undisturbed, InTime

\* The other steps the rollup may take, and those of the requests, of which
\* none refreshes.
LEMMA OthersAlone ==
  ASSUME Alone, StatsActs, ~ RollupTick, ~ Fetch(Rollup), ~ Upsert(Rollup), UNCHANGED serving
  PROVE  Undisturbed' /\ UNCHANGED stats
<1>1. \A h \in Askers : spc[h] = "idle" /\ h # Rollup /\ h \in Refreshers
  BY ViewStatsAssumption DEF Alone, Undisturbed, Refreshers
<1>2. /\ Rollup \in Refreshers
      /\ spc \in [Refreshers -> {"idle", "fetch", "upsert", "read"}]
      /\ now \in Nat
  BY ViewStatsAssumption DEF Refreshers, Times, Alone, StatsWellTyped, StatsTypeOK
<1>3. ASSUME UNCHANGED <<now, index, stats>>, NEW r \in Refreshers, NEW s \in {"idle", "read"}, NEW j,
             Advance(r, s, j), r \in Askers => s = "idle"
      PROVE  Undisturbed'
  <2>1. \A x \in Refreshers : spc'[x] = IF x = r THEN s ELSE spc[x]
    BY <1>2, <1>3 DEF Advance
  <2>2. \A h \in Askers : spc'[h] = "idle"
    BY <1>1, <1>3, <2>1
  <2>3. \A d \in Dests : InTime(stats[d], d, now, index)'
    BY <1>3 DEF Alone, Undisturbed, InTime
  <2>4. RollupOK(spc[Rollup], job[Rollup])'
    <3>1. CASE r = Rollup
      BY <1>2, <2>1, <3>1 DEF RollupOK
    <3>2. CASE r # Rollup
      <4>1. spc'[Rollup] = spc[Rollup] /\ job'[Rollup] = job[Rollup]
        BY <1>2, <1>3, <3>2 DEF Advance, Alone, StatsWellTyped, StatsTypeOK
      <4> QED  BY <1>3, <4>1 DEF RollupOK, Behind, Alone, Undisturbed
    <3> QED  BY <3>1, <3>2
  <2> QED  BY <2>2, <2>3, <2>4 DEF Undisturbed
<1>4. CASE Tick
  BY <1>4, RollupUntouched DEF Tick
<1>5. ASSUME NEW r \in Refreshers, RefreshFails(r)
      PROVE  Undisturbed' /\ UNCHANGED stats
  <2>1. r = Rollup /\ UNCHANGED <<now, index, stats>>
    BY <1>1, <1>5 DEF RefreshFails, Refreshers
  <2>2. job[Rollup].op = "rollup"
    BY <1>5, <2>1 DEF RefreshFails, Alone, Undisturbed, RollupOK
  <2>3. Advance(Rollup, "idle", None)
    BY <1>5, <2>1, <2>2 DEF RefreshFails, RefreshFailed
  <2> QED  BY <1>1, <1>2, <1>3, <2>1, <2>3
<1>6. ASSUME NEW h \in Refreshers, Read(h) \/ ReadFails(h)
      PROVE  Undisturbed' /\ UNCHANGED stats
  <2>1. UNCHANGED <<now, index, stats>> /\ Advance(h, "idle", None)
    BY <1>6 DEF Read, ReadFails, Answer
  <2> QED  BY <1>3, <2>1
<1>7. ASSUME NEW h \in Askers, Rank(h)
      PROVE  Undisturbed' /\ UNCHANGED stats
  <2>1. UNCHANGED <<now, index, stats>> /\ Advance(h, "idle", None)
    BY <1>7 DEF Rank, Trending, Answer
  <2> QED  BY <1>1, <1>3, <2>1
<1>8. \A r \in Refreshers : (Fetch(r) \/ Upsert(r)) => r = Rollup
  BY <1>1 DEF Fetch, Upsert, Refreshers
<1> QED
  BY <1>1, <1>4, <1>5, <1>6, <1>7, <1>8 DEF StatsActs, RefreshStep, RollupOnly, Alone

\* Every step where nobody else refreshes.
LEMMA AloneStep ==
  ASSUME Alone
  PROVE  Undisturbed' /\ \A d \in Dests : NoLess(stats[d], stats'[d])
<1>1. ASSUME NEW d \in Dests PROVE NoLess(stats[d], stats[d])
  <2> SUFFICES ASSUME stats[d] # None PROVE NoLess(stats[d], stats[d])
    BY DEF NoLess
  <2>1. stats[d] \in StatsRow
    BY DEF Alone, StatsWellTyped, StatsTypeOK
  <2>2. stats[d].bucket_end \in Nat /\ \A k \in RangeKeys : stats[d].views[k] \in Nat
    BY <2>1, ViewStatsAssumption DEF StatsRow, Times
  <2> QED  BY <2>2 DEF NoLess
<1>2. UNCHANGED serving
  BY DEF Alone, PipelineNext, pipelineVars
<1>3. CASE StatsActs
  <2>1. CASE RollupTick
    BY <1>2, <2>1, RollupTickAlone
  <2>2. CASE Fetch(Rollup)
    BY <1>1, <1>2, <2>2, RollupFetchAlone DEF Fetch
  <2>3. CASE Upsert(Rollup)
    BY <1>2, <2>3, RollupUpsertAlone
  <2>4. CASE ~ RollupTick /\ ~ Fetch(Rollup) /\ ~ Upsert(Rollup)
    BY <1>1, <1>2, <1>3, <2>4, OthersAlone
  <2> QED  BY <2>1, <2>2, <2>3, <2>4
<1>4. CASE UNCHANGED <<now, stats, spc, job>>
  BY <1>1, <1>2, <1>4, RollupUntouched
<1> QED  BY <1>3, <1>4, WhoWrites DEF Alone, Ingest, statsVars

\* Where only the rollup refreshes, no row ever loses a view of all times or
\* the time it was counted: the overwriting of newer counts by older ones
\* (UpsertBuckets writes whatever is there) takes a second refresh.
THEOREM RollupTakesNothingBack ==
  PipelineSpec => [][RollupOnly => \A d \in Dests : NoLess(stats[d], stats'[d])]_pipelineVars
<1>1. PipelineInit => Undisturbed
  BY NoneAssumption DEF PipelineInit, StatsInit, Undisturbed, InTime, RollupOK, Refreshers
<1>2. StatsWellTyped /\ WriterIInv /\ CountInv /\ Undisturbed /\ [PipelineNext]_pipelineVars
        => Undisturbed' /\ (RollupOnly => \A d \in Dests : NoLess(stats[d], stats'[d]))
  <2> SUFFICES ASSUME StatsWellTyped, WriterIInv, CountInv, Undisturbed,
                      [PipelineNext]_pipelineVars
               PROVE  Undisturbed' /\ (RollupOnly => \A d \in Dests : NoLess(stats[d], stats'[d]))
    OBVIOUS
  <2>1. RollupOnly' <=> RollupOnly
    BY DEF RollupOnly, On, PipelineNext, pipelineVars
  <2>2. CASE RollupOnly
    BY <2>2, AloneStep DEF Alone
  <2>3. CASE ~ RollupOnly
    BY <2>1, <2>3 DEF Undisturbed
  <2> QED  BY <2>2, <2>3
<1> QED
  BY <1>1, <1>2, CountInvariance, StatsTypes, PipelineImplementsWriter, WriterInvariance, PTL
     DEF PipelineSpec
================================================================================
