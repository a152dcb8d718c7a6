------------------------------- MODULE ViewStats -------------------------------
(***************************************************************************)
(* DestinationViewStatsService (internal/service/destination_view_stats_   *)
(* service.go): view counts, read from the request log in Elasticsearch    *)
(* and kept in Postgres.  The rollup goroutine, and the requests that find *)
(* the kept counts stale or want new ones, refresh them in the same way    *)
(* and without knowing of each other: the time is taken once, then one     *)
(* search per range and chunk of destinations, then one upsert per chunk.  *)
(* The unique users and addresses are counted like the views and left out. *)
(***************************************************************************)
EXTENDS Naturals, Sequences, FiniteSets

CONSTANTS
  Dests,      \* the published destinations
  Requests,   \* the requests that are served and logged
  Document,   \* what the log index selects by of each: route, ip, status, destination
  Ranges,     \* DestinationViewRangesOrdered
  Duration,   \* the length of each range, 0 for "all"
  ChunkSize,  \* chunkSize
  CacheTTL,   \* DEST_VIEW_STATS_CACHE_TTL, 0 for never stale
  Rollup,     \* the goroutine of RunRollup
  Askers,     \* requests for statistics in flight at the same time
  MaxTime,    \* bound on the clock
  MaxFaults,  \* bound on the statements and searches that fail
  None        \* no row, no destination, no answer

Times      == 0 .. MaxTime
Refreshers == Askers \cup {Rollup}
RangeKeys  == {Ranges[i] : i \in DOMAIN Ranges}

\* A window of length m is no longer than one of length n.
NoLonger(m, n) == n = 0 \/ (m # 0 /\ m <= n)

\* DestinationViewRangesOrdered lists different ranges, shorter ones first.
ASSUME RangesAssumption ==
  /\ Ranges \in Seq(STRING) /\ Ranges # <<>>
  /\ \A k \in RangeKeys : Duration[k] \in Nat
  /\ \A i, j \in DOMAIN Ranges : i < j =>
       Ranges[i] # Ranges[j] /\ NoLonger(Duration[Ranges[i]], Duration[Ranges[j]])

ASSUME ViewStatsAssumption ==
  /\ ChunkSize \in Nat \ {0}
  /\ CacheTTL \in Nat
  /\ Rollup \notin Askers
  /\ IsFiniteSet(Requests)
  /\ MaxTime \in Nat
  /\ MaxFaults \in Nat

\* Requests as they are logged.
Entries == [request: Requests, at: Times]

\* The rows of destination_view_stats of one destination: total_views of
\* each range, and the bucket_end they share.
StatsRow == [bucket_end: Times, views: [RangeKeys -> Nat]]

VARIABLES
  now,     \* the clock
  index,   \* the documents of the log index in Elasticsearch
  stats,   \* destination_view_stats
  spc,     \* what each refresher does next
  job,     \* its local variables
  answers, \* what each request answered with, None for an error
  faults   \* the failures so far

statsVars == <<now, index, stats, spc, job, answers, faults>>

(***************************************************************************)
(* The local variables of a refresh: ids is what it is asked for and todo  *)
(* the part in no chunk yet, asof the time taken at the beginning, chunk   *)
(* the destinations searched for, at the range searched next, and found    *)
(* what the searches returned.  old is what GetViewStats had read before.  *)
(***************************************************************************)
Job ==
  [op: {"rollup", "get", "export"}, ids: SUBSET Dests, todo: SUBSET Dests,
   chunk: SUBSET Dests, asof: Times, at: Nat, found: [Dests -> [RangeKeys -> Nat]],
   old: StatsRow \cup {None}]

\* What a request may answer with: a row or none for each destination.
IsAnswer(a) ==
  a = None \/ \E ids \in SUBSET Dests : a \in [ids -> StatsRow \cup {None}]

\* None is nothing else.
ASSUME NoneAssumption ==
  None \notin Dests /\ None \notin StatsRow /\ None \notin Job

StatsTypeOK ==
  /\ now \in Times
  /\ index \in [Entries -> Nat]
  /\ stats \in [Dests -> StatsRow \cup {None}]
  /\ spc \in [Refreshers -> {"idle", "fetch", "upsert", "read"}]
  /\ job \in [Refreshers -> Job \cup {None}]
  /\ answers = [h \in Askers |-> answers[h]]
  /\ \A h \in Askers : IsAnswer(answers[h])
  /\ faults \in 0 .. MaxFaults
  /\ \A r \in Refreshers :
       /\ spc[r] = "idle" <=> job[r] = None
       /\ spc[r] \in {"fetch", "upsert"} => job[r].chunk # {}
       /\ spc[r] = "fetch" => job[r].at \in DOMAIN Ranges

NoViews == [d \in Dests |-> [k \in RangeKeys |-> 0]]

StatsInit ==
  /\ now = 0
  /\ index = [e \in Entries |-> 0]
  /\ stats = [d \in Dests |-> None]
  /\ spc = [r \in Refreshers |-> "idle"]
  /\ job = [r \in Refreshers |-> None]
  /\ answers = [h \in Askers |-> None]
  /\ faults = 0

-----------------------------------------------------------------------------
(* Helpers                                                                  *)

\* The occurrences of the entries of E, as f counts them, and their number.
Occurrences(f, E) == UNION {{e} \X (1 .. f[e]) : e \in E}
Total(f, E)       == Cardinality(Occurrences(f, E))

\* The filters of fetchRangeStats but for the time: answered reads below
\* /api/v1/destinations/, from elsewhere than 10.*, that say which it was.
Matches ==
  [d \in Dests |-> {e \in Entries : LET doc == Document[e.request] IN
     /\ doc.route = "destination"
     /\ doc.status = 200
     /\ doc.ip # "10."
     /\ doc.destination = d}]

(* Variant of Found for mutation checks: "all" is a window of no length.    *)
FoundSince(d, k, asof) ==
  Total(index, {e \in Matches[d] : e.at + Duration[k] >= asof})

\* What fetchRangeStats finds for one destination: the window has a
\* beginning, and no end.
Found(d, k, asof) ==
  Total(index, {e \in Matches[d] : Duration[k] = 0 \/ e.at + Duration[k] >= asof})

\* isStale.
Stale(row) == CacheTTL > 0 /\ (row = None \/ now - row.bucket_end > CacheTTL)

Advance(r, s, j) ==
  /\ spc' = [spc EXCEPT ![r] = s]
  /\ job' = [job EXCEPT ![r] = j]

\* The request ends.
Answer(h, a) ==
  /\ Advance(h, "idle", None)
  /\ answers' = [answers EXCEPT ![h] = a]

Reading(h, j) == Advance(h, "read", j) /\ UNCHANGED answers

\* The next chunk of what is to be refreshed; the list has no fixed order.
NextChunk(r, j) ==
  /\ \E chunk \in SUBSET j.todo :
       /\ chunk # {} /\ Cardinality(chunk) <= ChunkSize
       /\ Cardinality(chunk) < ChunkSize => chunk = j.todo
       /\ Advance(r, "fetch", [j EXCEPT !.chunk = chunk, !.todo = @ \ chunk,
                                        !.at = 1, !.found = NoViews])
  /\ UNCHANGED answers

\* refreshDestinations up to the first search.
Refresh(r, op, ids, old) ==
  NextChunk(r, [op |-> op, ids |-> ids, todo |-> ids, chunk |-> {}, asof |-> now,
                at |-> 1, found |-> NoViews, old |-> old])

\* refreshDestinations returns nil: the rollup waits for the next tick, a
\* request reads the rows.
Refreshed(r) ==
  IF job[r].op = "rollup" THEN Advance(r, "idle", None) /\ UNCHANGED answers
  ELSE Reading(r, job[r])

\* It returns an error: the rollup logs it and waits for the next tick,
\* GetViewStats falls back to what it had read, ExportPopularity goes on.
RefreshFailed(r) ==
  CASE job[r].op = "rollup" -> Advance(r, "idle", None) /\ UNCHANGED answers
    [] job[r].op = "get"    -> Answer(r, IF job[r].old = None THEN None
                                         ELSE [d \in job[r].ids |-> job[r].old])
    [] job[r].op = "export" -> Reading(r, job[r])

Fault == faults < MaxFaults /\ faults' = faults + 1

-----------------------------------------------------------------------------
(* Actions                                                                  *)

\* A tick of RunRollup with the list of the published destinations.  When
\* the list cannot be read, nothing happens until the next tick.
RollupTick ==
  /\ spc[Rollup] = "idle"
  /\ Refresh(Rollup, "rollup", Dests, None)
  /\ UNCHANGED <<now, index, stats, faults>>

\* GetViewStats of getDestinationViews, and of adminDestinationStats with
\* force, up to the refresh.
GetViewStats(h, d, force) ==
  /\ spc[h] = "idle"
  /\ IF force \/ Stale(stats[d]) \/ stats[d] = None
     THEN Refresh(h, "get", {d}, stats[d])
     ELSE Answer(h, [x \in {d} |-> stats[x]])
  /\ UNCHANGED <<now, index, stats, faults>>

\* ExportPopularity of exportDestinationPopularity, which always refreshes.
ExportPopularity(h, ids) ==
  /\ spc[h] = "idle"
  /\ Refresh(h, "export", ids, None)
  /\ UNCHANGED <<now, index, stats, faults>>

\* Trending: the destinations with the most views in a range.
Trending(h, k, limit) ==
  /\ spc[h] = "idle"
  /\ \E top \in SUBSET {d \in Dests : stats[d] # None} :
       /\ Cardinality(top) <= limit
       /\ \A d \in Dests \ top : stats[d] # None =>
            /\ Cardinality(top) = limit
            /\ \A t \in top : stats[t].views[k] >= stats[d].views[k]
       /\ Answer(h, [d \in top |-> stats[d]])
  /\ UNCHANGED <<now, index, stats, faults>>

(* Variant of Fetch for mutation checks: the longest range is searched      *)
(* first.                                                                   *)
FetchDescending(r) ==
  /\ spc[r] = "fetch"
  /\ LET j     == job[r]
         key   == Ranges[Len(Ranges) + 1 - j.at]
         found == [d \in Dests |-> IF d \in j.chunk
                     THEN [j.found[d] EXCEPT ![key] = Found(d, key, j.asof)]
                     ELSE j.found[d]]
     IN IF j.at < Len(Ranges)
        THEN Advance(r, "fetch", [j EXCEPT !.at = @ + 1, !.found = found])
        ELSE Advance(r, "upsert", [j EXCEPT !.found = found])
  /\ UNCHANGED <<now, index, stats, answers, faults>>

(* Variant of Fetch for mutation checks: one search more than there are     *)
(* ranges.                                                                  *)
FetchBeyond(r) ==
  /\ spc[r] = "fetch"
  /\ LET j     == job[r]
         key   == Ranges[j.at]
         found == [d \in Dests |-> IF d \in j.chunk
                     THEN [j.found[d] EXCEPT ![key] = Found(d, key, j.asof)]
                     ELSE j.found[d]]
     IN IF j.at <= Len(Ranges)
        THEN Advance(r, "fetch", [j EXCEPT !.at = @ + 1, !.found = found])
        ELSE Advance(r, "upsert", [j EXCEPT !.found = found])
  /\ UNCHANGED <<now, index, stats, answers, faults>>

\* fetchRangeStats of one range for the chunk.
Fetch(r) ==
  /\ spc[r] = "fetch"
  /\ LET j     == job[r]
         key   == Ranges[j.at]
         found == [d \in Dests |-> IF d \in j.chunk
                     THEN [j.found[d] EXCEPT ![key] = Found(d, key, j.asof)]
                     ELSE j.found[d]]
     IN IF j.at < Len(Ranges)
        THEN Advance(r, "fetch", [j EXCEPT !.at = @ + 1, !.found = found])
        ELSE Advance(r, "upsert", [j EXCEPT !.found = found])
  /\ UNCHANGED <<now, index, stats, answers, faults>>

(* Variant of Upsert for mutation checks: the counts are added to the ones  *)
(* that are there.                                                          *)
UpsertAdds(r) ==
  /\ spc[r] = "upsert"
  /\ stats' = [d \in Dests |-> IF d \in job[r].chunk
                 THEN [bucket_end |-> job[r].asof,
                       views |-> [k \in RangeKeys |-> job[r].found[d][k]
                                    + (IF stats[d] = None THEN 0 ELSE stats[d].views[k])]]
                 ELSE stats[d]]
  /\ IF job[r].todo = {} THEN Refreshed(r) ELSE NextChunk(r, job[r])
  /\ UNCHANGED <<now, index, faults>>

\* UpsertBuckets: the rows of the chunk in one statement, whatever is there.
Upsert(r) ==
  /\ spc[r] = "upsert"
  /\ stats' = [d \in Dests |-> IF d \in job[r].chunk
                 THEN [bucket_end |-> job[r].asof, views |-> job[r].found[d]]
                 ELSE stats[d]]
  /\ IF job[r].todo = {} THEN Refreshed(r) ELSE NextChunk(r, job[r])
  /\ UNCHANGED <<now, index, faults>>

\* A search or the upsert fails.
RefreshFails(r) ==
  /\ spc[r] \in {"fetch", "upsert"}
  /\ Fault
  /\ RefreshFailed(r)
  /\ UNCHANGED <<now, index, stats>>

\* The second GetStats, or the SELECT of the export.
Read(h) ==
  /\ spc[h] = "read"
  /\ Answer(h, [d \in job[h].ids |-> stats[d]])
  /\ UNCHANGED <<now, index, stats, faults>>

ReadFails(h) ==
  /\ spc[h] = "read"
  /\ Fault
  /\ Answer(h, None)
  /\ UNCHANGED <<now, index, stats>>

Tick ==
  /\ now < MaxTime
  /\ now' = now + 1
  /\ UNCHANGED <<index, stats, spc, job, answers, faults>>

-----------------------------------------------------------------------------
\* What a refresh does by itself.
RefreshStep(r) == Fetch(r) \/ Upsert(r) \/ Read(r)

View(h) == \E d \in Dests, force \in BOOLEAN : GetViewStats(h, d, force)

Export(h) == \E ids \in SUBSET Dests \ {{}} : ExportPopularity(h, ids)

Rank(h) == \E k \in RangeKeys, limit \in 1 .. Cardinality(Dests) : Trending(h, k, limit)

-----------------------------------------------------------------------------
(* Properties                                                               *)

Rows == {stats[d] : d \in Dests}
        \cup UNION {{answers[h][d] : d \in DOMAIN answers[h]} :
                    h \in {a \in Askers : answers[a] # None}}

(* A row never claims more views of the last hour than of the last day, in  *)
(* the table and in every answer: the ranges are searched one after the     *)
(* other while views keep arriving, so this holds because the shorter one   *)
(* comes first and because a chunk is written in one statement, which two   *)
(* refreshes at the same time cannot mix.                                   *)
RangesNested ==
  \A row \in Rows \ {None} : \A i, j \in DOMAIN Ranges :
    i < j => row.views[Ranges[i]] <= row.views[Ranges[j]]
=============================================================================
