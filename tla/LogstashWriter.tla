----------------------------- MODULE LogstashWriter -----------------------------
(***************************************************************************)
(* LogstashWriter (internal/logging/logstash_writer.go), the io.Writer     *)
(* that mirrors the standard log to Logstash.  A mutex is held for the     *)
(* whole of a Write, the dial included; lines are dropped while Logstash   *)
(* cannot be reached, and after a failure nothing is dialled until a       *)
(* cool-down is over.  Time is abstracted: a cool-down ends at some time.  *)
(***************************************************************************)
EXTENDS Naturals, FiniteSets

CONSTANTS
  Writers,   \* goroutines that log
  Lines,     \* log lines
  Tracked,   \* the lines whose arrival somebody looks at
  MaxLines,  \* bound on the writes of a tracked line
  Null       \* no goroutine, no line

ASSUME LogstashAssumption ==
  /\ Tracked \subseteq Lines
  /\ Null \notin Lines \cup Writers
  /\ IsFiniteSet(Writers)
  /\ MaxLines \in Nat

VARIABLES
  conn,      \* the connection: none, open, or broken without anybody knowing
  cooling,   \* nextRetry lies in the future
  closed,    \* Close has been called
  lock,      \* who holds mu
  wpc,       \* what each goroutine does next in Write
  line,      \* the line it writes
  link,      \* whether Logstash can be reached
  logged,    \* history: the writes of each tracked line
  received   \* history: its arrivals in Logstash

writerVars == <<conn, cooling, closed, lock, wpc, line, link, logged, received>>

WriterTypeOK ==
  /\ conn \in {"none", "open", "broken"}
  /\ cooling \in BOOLEAN
  /\ closed \in BOOLEAN
  /\ lock \in Writers \cup {Null}
  /\ wpc \in [Writers -> {"idle", "wait", "check", "dial", "send"}]
  /\ line \in [Writers -> Lines \cup {Null}]
  /\ link \in {"up", "down"}
  /\ logged \in [Tracked -> Nat]
  /\ received \in [Tracked -> Nat]

WriterInit ==
  /\ conn = "none"
  /\ cooling = FALSE
  /\ closed = FALSE
  /\ lock = Null
  /\ wpc = [w \in Writers |-> "idle"]
  /\ line = [w \in Writers |-> Null]
  /\ link = "up"
  /\ logged = [l \in Tracked |-> 0]
  /\ received = [l \in Tracked |-> 0]

-----------------------------------------------------------------------------
\* One more of line l, if it is tracked.
Counted(f, l) == IF l \in Tracked THEN [f EXCEPT ![l] = @ + 1] ELSE f

\* Goroutine w calls Write.
Write(w, l) ==
  /\ wpc[w] = "idle"
  /\ l \in Tracked => logged[l] < MaxLines
  /\ wpc' = [wpc EXCEPT ![w] = "wait"]
  /\ line' = [line EXCEPT ![w] = l]
  /\ logged' = Counted(logged, l)
  /\ UNCHANGED <<conn, cooling, closed, lock, link, received>>

Lock(w) ==
  /\ wpc[w] = "wait"
  /\ lock = Null
  /\ lock' = w
  /\ wpc' = [wpc EXCEPT ![w] = "check"]
  /\ UNCHANGED <<conn, cooling, closed, line, link, logged, received>>

(* Variant of Return for mutation checks: the mutex stays locked when a     *)
(* line is dropped.                                                         *)
ReturnLocked(w) ==
  /\ lock' = IF wpc[w] = "send" THEN Null ELSE lock
  /\ wpc' = [wpc EXCEPT ![w] = "idle"]
  /\ line' = [line EXCEPT ![w] = Null]

\* The deferred Unlock, and the return.
Return(w) ==
  /\ lock' = Null
  /\ wpc' = [wpc EXCEPT ![w] = "idle"]
  /\ line' = [line EXCEPT ![w] = Null]

Goto(w, s) ==
  /\ wpc' = [wpc EXCEPT ![w] = s]
  /\ UNCHANGED <<lock, line>>

(* Variant of EnsureConn for mutation checks: a closed writer is not        *)
(* noticed before the connection is looked at.                              *)
EnsureConnUnchecked(w) ==
  /\ wpc[w] = "check"
  /\ IF conn # "none" THEN Goto(w, "send")
     ELSE IF cooling THEN Return(w)
     ELSE Goto(w, "dial")
  /\ UNCHANGED <<conn, cooling, closed, link, logged, received>>

\* Write and ensureConnLocked up to the dial: a closed writer and one that
\* cools down drop the line.
EnsureConn(w) ==
  /\ wpc[w] = "check"
  /\ IF closed THEN Return(w)
     ELSE IF conn # "none" THEN Goto(w, "send")
     ELSE IF cooling THEN Return(w)
     ELSE Goto(w, "dial")
  /\ UNCHANGED <<conn, cooling, closed, link, logged, received>>

\* net.DialTimeout, and scheduleRetryLocked when it fails.
Dial(w) ==
  /\ wpc[w] = "dial"
  /\ IF link = "up"
     THEN conn' = "open" /\ cooling' = FALSE /\ Goto(w, "send")
     ELSE cooling' = TRUE /\ UNCHANGED conn /\ Return(w)
  /\ UNCHANGED <<closed, link, logged, received>>

(* Variant of SendArrives for mutation checks: the line is written twice.   *)
SendArrivesTwice(w) ==
  /\ wpc[w] = "send"
  /\ conn = "open"
  /\ received' = Counted(Counted(received, line[w]), line[w])
  /\ Return(w)
  /\ UNCHANGED <<conn, cooling, closed, link, logged>>

\* conn.Write over a sound connection.
SendArrives(w) ==
  /\ wpc[w] = "send"
  /\ conn = "open"
  /\ received' = Counted(received, line[w])
  /\ Return(w)
  /\ UNCHANGED <<conn, cooling, closed, link, logged>>

(* Variant of SendFails for mutation checks: the connection is kept.        *)
SendFailsKeeping(w) ==
  /\ wpc[w] = "send"
  /\ conn = "broken"
  /\ cooling' = TRUE
  /\ Return(w)
  /\ UNCHANGED <<conn, closed, link, logged, received>>

\* conn.Write over a broken connection fails: closeConnLocked and
\* scheduleRetryLocked, and the line is dropped.
SendFails(w) ==
  /\ wpc[w] = "send"
  /\ conn = "broken"
  /\ conn' = "none"
  /\ cooling' = TRUE
  /\ Return(w)
  /\ UNCHANGED <<closed, link, logged, received>>

\* Or the kernel takes the line before it knows, and the line is lost.
SendLost(w) ==
  /\ wpc[w] = "send"
  /\ conn = "broken"
  /\ Return(w)
  /\ UNCHANGED <<conn, cooling, closed, link, logged, received>>

\* Close, under the mutex from beginning to end.
Close ==
  /\ lock = Null
  /\ ~ closed
  /\ closed' = TRUE
  /\ conn' = "none"
  /\ UNCHANGED <<cooling, lock, wpc, line, link, logged, received>>

\* The retry interval passes.
CoolDownEnds ==
  /\ cooling
  /\ cooling' = FALSE
  /\ UNCHANGED <<conn, closed, lock, wpc, line, link, logged, received>>

\* Logstash goes away, which breaks the connection; the peer finds out late.
LinkDown ==
  /\ link = "up"
  /\ link' = "down"
  /\ conn' = IF conn = "open" THEN "broken" ELSE conn
  /\ UNCHANGED <<cooling, closed, lock, wpc, line, logged, received>>

LinkUp ==
  /\ link = "down"
  /\ link' = "up"
  /\ UNCHANGED <<conn, cooling, closed, lock, wpc, line, logged, received>>

-----------------------------------------------------------------------------
WriteStep(w) ==
  \/ Lock(w) \/ EnsureConn(w) \/ Dial(w)
  \/ SendArrives(w) \/ SendFails(w) \/ SendLost(w)

WriterNext ==
  \/ \E w \in Writers, l \in Lines : Write(w, l)
  \/ \E w \in Writers : WriteStep(w)
  \/ Close
  \/ CoolDownEnds
  \/ LinkDown
  \/ LinkUp

WriterSpec == WriterInit /\ [][WriterNext]_writerVars

(* A goroutine that is inside Write goes on; sync.Mutex hands itself to one *)
(* that has waited for long; the clock runs; and a connection that is gone  *)
(* does not take lines for ever, TCP gives it up.                           *)
WriterFairness ==
  /\ \A w \in Writers : SF_writerVars(Lock(w))
  /\ \A w \in Writers : WF_writerVars(WriteStep(w))
  /\ \A w \in Writers : SF_writerVars(SendFails(w))
  /\ WF_writerVars(CoolDownEnds)

-----------------------------------------------------------------------------
(* Properties                                                               *)

(* Mutual exclusion is what keeps the connection whole: whoever is past the *)
(* Lock holds the mutex, so nobody is in Write when Close has returned      *)
(* unless he will notice, and no connection is opened or used after that:   *)
(* Write looks at closed under the same mutex that Close holds.             *)
ClosedForGood ==
  /\ \A w \in Writers : wpc[w] \in {"check", "dial", "send"} => lock = w
  /\ closed => conn = "none" /\ \A w \in Writers : wpc[w] \notin {"dial", "send"}

(* A line is dropped or arrives, but never arrives more often than it was   *)
(* written, however connections break: Write does not retry.                *)
NoDuplicates == \A l \in Tracked : received[l] <= logged[l]

(* Every Write returns, whatever becomes of Logstash: the mutex is released *)
(* on each path and nobody waits for a connection.                          *)
WriteReturns == \A w \in Writers : wpc[w] # "idle" ~> wpc[w] = "idle"

(* Once Logstash stays reachable and lines keep coming, the writer comes to *)
(* have a sound connection again, unless it was closed: a broken connection *)
(* is noticed and given up, the cool-down ends, and the next line dials.    *)
Reconnects ==
  <>[](link = "up") /\ []<>(\E w \in Writers : wpc[w] = "check")
    => []<>(conn = "open" \/ closed)
=============================================================================
