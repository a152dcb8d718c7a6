------------------------------ MODULE ViewPipeline ------------------------------
(***************************************************************************)
(* From a logged request to a view count: the log is mirrored to Logstash  *)
(* (LogstashWriter), which hands it to Elasticsearch, and the view         *)
(* statistics are counted there (ViewStats).  The goroutines that log know *)
(* nothing of those that count; what holds from one end to the other is    *)
(* stated here and, where it depends on what the log keeps of a request,   *)
(* in LoggedRequests.                                                      *)
(***************************************************************************)
EXTENDS LogstashWriter, ViewStats

CONSTANTS
  Subject,   \* the destination each request was answered with, None for no view
  Chatter,   \* any log line that is not a request
  Workloads  \* what is looked at together: activities, goroutines that serve
             \* requests, the requests, and a bound on their number

Activities == {"chatter", "rollup", "view", "export", "trending", "clock", "outage", "close"}

\* What is indexed as a view of a destination was one.
ASSUME SubjectAssumption ==
  \A r \in Requests :
    /\ Document[r].route = "destination"
    /\ Document[r].status = 200
    /\ Document[r].destination \in Dests
    => Subject[r] = Document[r].destination

ASSUME PipelineAssumption ==
  /\ Tracked = Entries
  /\ Lines = Entries \cup {Chatter}
  /\ Workloads \subseteq 
       [activities: SUBSET Activities, writers: SUBSET Writers,
        requests: SUBSET Requests, bound: Nat]

VARIABLE serving  \* the workload of this behaviour

On(activity) == activity \in serving.activities

pipelineVars == <<writerVars, statsVars, serving>>

PipelineTypeOK ==
  /\ WriterTypeOK
  /\ StatsTypeOK
  /\ serving \in Workloads

PipelineInit ==
  /\ WriterInit
  /\ StatsInit
  /\ serving \in Workloads

-----------------------------------------------------------------------------
\* Logstash and Elasticsearch: a received line becomes a document, later.
Ingest(e) ==
  /\ index[e] < received[e]
  /\ index' = [index EXCEPT ![e] = @ + 1]
  /\ UNCHANGED <<writerVars, now, stats, spc, job, answers, faults>>

\* registerLogging: the goroutine that served a request logs it.
LogRequest(w) ==
  /\ Total(logged, Entries) < serving.bound
  /\ \E r \in serving.requests : Write(w, [request |-> r, at |-> now])
  /\ UNCHANGED statsVars

\* The standard log of everybody, the rollup included.
LogChatter(w) ==
  /\ On("chatter")
  /\ Write(w, Chatter)
  /\ UNCHANGED statsVars

WriterActs ==
  /\ \/ \E w \in Writers : WriteStep(w)
     \/ CoolDownEnds
     \/ On("close") /\ Close
     \/ On("outage") /\ (LinkDown \/ LinkUp)
  /\ UNCHANGED statsVars

StatsActs ==
  /\ \/ On("rollup") /\ RollupTick
     \/ \E r \in Refreshers : RefreshStep(r) \/ RefreshFails(r)
     \/ \E h \in Askers :
          \/ On("view") /\ View(h)
          \/ On("export") /\ Export(h)
          \/ On("trending") /\ Rank(h)
          \/ ReadFails(h)
     \/ On("clock") /\ Tick
  /\ UNCHANGED writerVars

PipelineNext ==
  /\ \/ \E e \in Entries : Ingest(e)
     \/ \E w \in serving.writers : LogRequest(w) \/ LogChatter(w)
     \/ WriterActs
     \/ StatsActs
  /\ UNCHANGED serving

(* The writer is scheduled as in LogstashWriter; Elasticsearch indexes what *)
(* it gets; a refresh that runs goes on; the ticker ticks, and the rollup   *)
(* is enabled where it is looked at.  Nobody has to ask for anything.       *)
PipelineFairness ==
  /\ \A w \in Writers :
       /\ SF_pipelineVars(Lock(w) /\ UNCHANGED <<statsVars, serving>>)
       /\ WF_pipelineVars(WriteStep(w) /\ UNCHANGED <<statsVars, serving>>)
       /\ SF_pipelineVars(SendFails(w) /\ UNCHANGED <<statsVars, serving>>)
  /\ WF_pipelineVars(CoolDownEnds /\ UNCHANGED <<statsVars, serving>>)
  /\ WF_pipelineVars(\E e \in Entries : Ingest(e) /\ UNCHANGED serving)
  /\ \A r \in Refreshers : WF_pipelineVars(RefreshStep(r) /\ UNCHANGED <<writerVars, serving>>)
  /\ WF_pipelineVars(On("rollup") /\ RollupTick /\ UNCHANGED <<writerVars, serving>>)

PipelineSpec == PipelineInit /\ [][PipelineNext]_pipelineVars /\ PipelineFairness

-----------------------------------------------------------------------------
(* Properties                                                               *)

\* The answered requests for a destination, by what was served and not by
\* what was logged of it.
Views == [d \in Dests |-> {e \in Entries : Subject[e.request] = d}]

(* No count exceeds the views that were served, from the request to the row *)
(* in Postgres, whatever is refreshed at the same time, and however often   *)
(* the connection breaks: nothing is sent twice, nothing is added up twice, *)
(* and what is no view of the destination is not counted as one.            *)
NeverOvercounted ==
  \A d \in Dests : stats[d] # None =>
    \A k \in RangeKeys : stats[d].views[k] <= Total(logged, Views[d])
=============================================================================
