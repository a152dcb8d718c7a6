------------------------- MODULE ImportAccounts_proofs -------------------------
(***************************************************************************)
(* Proofs about the accounts of an import, for any number of imports and   *)
(* of other requests.  Import counts in a local variable what it inserts   *)
(* row by row, and collects the ids of its answer on the way; the job row  *)
(* is written from these once, at the end.  CountInv relates the variables *)
(* to the rows that are there at every step in between, HandInv the change *)
(* an import has in hand to what the other requests may do to it.          *)
(***************************************************************************)
EXTENDS DestinationImport_proofs, FiniteSetTheorems

Numbers(R) == {r.number : r \in R}
Pending(R) == {r \in R : r.status = "pending_review"}
Failed(R)  == {r \in R : r.status = "failed"}

\* The position of n among the numbers N, counted from 1.
Rank(N, n) == Cardinality({m \in N : m <= n})

\* The rows R are those of records 1 to n, one each.
Numbered(R, n) == Numbers(R) = 2 .. n + 1 /\ Cardinality(R) = n

\* p names the changes of the first pending rows of R, in order.
Lists(p, R) ==
  LET N == Numbers(Pending(R))
  IN /\ Len(p) = IF Cardinality(N) < MaxPendingIDs THEN Cardinality(N) ELSE MaxPendingIDs
     /\ \A i \in 1 .. Cardinality(N) : \E n \in N : Rank(N, n) = i
     /\ \A r \in Pending(R) :
          Rank(N, r.number) <= Len(p) => p[Rank(N, r.number)] = r.change

\* The row of the record at hand.
NextRow(t) ==
  [job |-> t.id, number |-> t.at + 1, status |-> RowStatus(t),
   change |-> IF t.ok THEN t.change ELSE Null, payload |-> t.job.file[t.at].fields]

\* A submitted change is counted and listed ahead of its row.
Ahead(s, t) == s = "row" /\ t.ok /\ ~ t.job.dry_run

Expected(R, s, t) == IF Ahead(s, t) THEN R \cup {NextRow(t)} ELSE R

\* The counters of a job are those of its rows R, exactly or but for one row.
Accounts(R, job) ==
  /\ Numbered(R, Len(job.file))
  /\ job.processed_rows = Len(job.file)
  /\ job.rows_failed = Cardinality(Failed(R))
  /\ job.changes_created = Cardinality(Pending(R))

Close(R, job) ==
  /\ Numbers(R) = 2 .. Cardinality(R) + 1
  /\ Cardinality(R) - job.processed_rows \in {0, 1}
  /\ job.rows_failed - Cardinality(Failed(R)) \in {0, 1}
  /\ job.changes_created - Cardinality(Pending(R)) \in {0, 1}

\* Local variables t that are right for step s and the rows R of the job.
CountsFit(R, s, t) ==
  /\ s \in AtRecord => Numbered(R, t.at - 1) /\ t.job.processed_rows = t.at - 1
  /\ s = "finish" => Numbered(R, Len(t.job.file)) /\ t.job.processed_rows = Len(t.job.file)
  /\ s \in AtRecord \cup {"finish"} =>
       /\ t.job.rows_failed = Cardinality(Failed(R))
       /\ t.job.changes_created = Cardinality(Pending(Expected(R, s, t)))
       /\ Lists(t.pending, Expected(R, s, t))
  /\ s = "fail" => Close(R, t.job)
  /\ s \in {"draft", "find", "submit"} => t.ok

\* A job is open until its import has tried to close it.
OpenJob(s, t) ==
  s \notin {"idle", "fail"} => jobs[t.id].status = "processing" /\ answers[t.id] = Null

\* What the properties say of one job.
JobRight(j) ==
  /\ jobs[j] # Null /\ jobs[j].status = "completed" => Accounts(RowsOf(j), jobs[j])
  /\ jobs[j] # Null /\ jobs[j].status = "failed" => Close(RowsOf(j), jobs[j])
  /\ answers[j] # Null => jobs[j] # Null /\ answers[j] = ExtractPendingIDs(j)

CountInv ==
  /\ IsFiniteSet(rows)
  /\ \A h \in Importers : task[h] # Null =>
       CountsFit(RowsOf(task[h].id), step[h], task[h]) /\ OpenJob(step[h], task[h])
  /\ \A j \in JobIds : JobRight(j)

-----------------------------------------------------------------------------
(* Sets of rows                                                             *)

LEMMA RowsFinite ==
  ASSUME IsFiniteSet(rows), NEW j
  PROVE  IsFiniteSet(RowsOf(j))
<1>1. RowsOf(j) \in SUBSET rows
  BY DEF RowsOf
<1> QED  BY <1>1, FS_Subset

LEMMA PartsFinite ==
  ASSUME NEW R, IsFiniteSet(R)
  PROVE  /\ IsFiniteSet(Pending(R)) /\ Cardinality(Pending(R)) \in Nat
         /\ IsFiniteSet(Failed(R)) /\ Cardinality(Failed(R)) \in Nat
         /\ Cardinality(R) \in Nat
<1>1. Pending(R) \in SUBSET R /\ Failed(R) \in SUBSET R
  BY DEF Pending, Failed
<1> QED  BY <1>1, FS_Subset, FS_CardinalityType

\* The row of the record after the first n.
LEMMA RowAdded ==
  ASSUME NEW R, IsFiniteSet(R), NEW n \in Nat, Numbered(R, n), NEW new, new.number = n + 2
  PROVE  /\ new \notin R
         /\ IsFiniteSet(R \cup {new})
         /\ Numbered(R \cup {new}, n + 1)
<1>1. new \notin R
  <2>1. new.number \notin 2 .. n + 1
    OBVIOUS
  <2> QED  BY <2>1 DEF Numbered, Numbers
<1>2. IsFiniteSet(R \cup {new}) /\ Cardinality(R \cup {new}) = n + 1
  BY <1>1, FS_AddElement DEF Numbered
<1>3. Numbers(R \cup {new}) = Numbers(R) \cup {n + 2}
  BY DEF Numbers
<1>4. (2 .. n + 1) \cup {n + 2} = 2 .. (n + 1) + 1
  OBVIOUS
<1> QED  BY <1>1, <1>2, <1>3, <1>4 DEF Numbered

\* How many rows there are with each outcome once it is there.
LEMMA OutcomeCounted ==
  ASSUME NEW R, IsFiniteSet(R), NEW new, new \notin R
  PROVE  /\ Pending(R \cup {new}) =
              IF new.status = "pending_review" THEN Pending(R) \cup {new} ELSE Pending(R)
         /\ Cardinality(Pending(R \cup {new})) =
              IF new.status = "pending_review" THEN Cardinality(Pending(R)) + 1
                                               ELSE Cardinality(Pending(R))
         /\ Cardinality(Failed(R \cup {new})) =
              IF new.status = "failed" THEN Cardinality(Failed(R)) + 1
                                       ELSE Cardinality(Failed(R))
<1>1. /\ Pending(R \cup {new}) =
           IF new.status = "pending_review" THEN Pending(R) \cup {new} ELSE Pending(R)
      /\ Failed(R \cup {new}) =
           IF new.status = "failed" THEN Failed(R) \cup {new} ELSE Failed(R)
      /\ new \notin Pending(R) /\ new \notin Failed(R)
  BY DEF Pending, Failed
<1>2. IsFiniteSet(Pending(R)) /\ IsFiniteSet(Failed(R))
  BY PartsFinite
<1>3. /\ Cardinality(Pending(R) \cup {new}) = Cardinality(Pending(R)) + 1
      /\ Cardinality(Failed(R) \cup {new}) = Cardinality(Failed(R)) + 1
  BY <1>1, <1>2, FS_AddElement
<1> QED  BY <1>1, <1>3

\* The numbers of pending rows, and their positions.
LEMMA NumbersFinite ==
  ASSUME NEW R, NEW n \in Nat, Numbered(R, n)
  PROVE  /\ Numbers(Pending(R)) \in SUBSET (2 .. n + 1)
         /\ IsFiniteSet(Numbers(Pending(R)))
         /\ Cardinality(Numbers(Pending(R))) \in Nat
<1>1. Numbers(Pending(R)) \in SUBSET (2 .. n + 1)
  BY DEF Numbers, Pending, Numbered
<1>2. IsFiniteSet(2 .. n + 1)
  BY FS_Interval
<1> QED  BY <1>1, <1>2, FS_Subset, FS_CardinalityType

LEMMA RankPositive ==
  ASSUME NEW N, IsFiniteSet(N), NEW n \in N, n \in Nat
  PROVE  Rank(N, n) \in Nat \ {0}
<1> DEFINE S == {m \in N : m <= n}
<1>1. S \in SUBSET N /\ n \in S
  OBVIOUS
<1>2. IsFiniteSet(S) /\ S # {}
  BY <1>1, FS_Subset
<1> HIDE DEF S
<1>3. Cardinality(S) \in Nat /\ Cardinality(S) # 0
  BY <1>2, FS_CardinalityType, FS_EmptySet
<1> QED  BY <1>3 DEF Rank, S

\* A number after all others leaves their positions what they are.
LEMMA RankAppended ==
  ASSUME NEW n \in Nat, NEW N \in SUBSET (2 .. n), IsFiniteSet(N)
  PROVE  /\ \A m \in N : Rank(N \cup {n + 1}, m) = Rank(N, m)
         /\ Rank(N \cup {n + 1}, n + 1) = Cardinality(N) + 1
         /\ Cardinality(N \cup {n + 1}) = Cardinality(N) + 1
         /\ Cardinality(N) \in Nat
<1>1. n + 1 \notin N /\ Cardinality(N) \in Nat
  BY FS_CardinalityType
<1>2. Cardinality(N \cup {n + 1}) = Cardinality(N) + 1
  BY <1>1, FS_AddElement
<1>3. {k \in N \cup {n + 1} : k <= n + 1} = N \cup {n + 1}
  <2>1. \A k \in N \cup {n + 1} : k <= n + 1
    OBVIOUS
  <2> QED  BY <2>1
<1>4. ASSUME NEW m \in N PROVE Rank(N \cup {n + 1}, m) = Rank(N, m)
  <2>1. {k \in N \cup {n + 1} : k <= m} = {k \in N : k <= m}
    OBVIOUS
  <2> QED  BY <2>1 DEF Rank
<1> QED  BY <1>1, <1>2, <1>3, <1>4 DEF Rank

\* The list once the next row is expected to be pending.
LEMMA ListGrows ==
  ASSUME NEW R, NEW n \in Nat, Numbered(R, n), IsFiniteSet(R), \A r \in R : r.number \in Nat,
         NEW p \in Seq(ChangeIds), Lists(p, R),
         NEW new, new.number = n + 2, new.status = "pending_review", new.change \in ChangeIds
  PROVE  Lists(Collected(p, new.change), R \cup {new})
<1> DEFINE N == Numbers(Pending(R))
           M == N \cup {n + 2}
           q == Collected(p, new.change)
           k == Cardinality(N)
<1>1. N \in SUBSET (2 .. n + 1) /\ IsFiniteSet(N)
  BY NumbersFinite
<1>2. new \notin R
  BY RowAdded
<1>3. Pending(R \cup {new}) = Pending(R) \cup {new}
  BY <1>2, OutcomeCounted
<1>4. Numbers(Pending(R \cup {new})) = M
  BY <1>3 DEF Numbers
<1>5. /\ Len(p) = IF k < MaxPendingIDs THEN k ELSE MaxPendingIDs
      /\ \A i \in 1 .. k : \E m \in N : Rank(N, m) = i
      /\ \A r \in Pending(R) : Rank(N, r.number) <= Len(p) => p[Rank(N, r.number)] = r.change
  BY DEF Lists
<1>6. \A r \in Pending(R) : r.number \in N
  BY DEF Numbers
<1> HIDE DEF N
<1>7. /\ \A m \in N : Rank(M, m) = Rank(N, m)
      /\ Rank(M, n + 2) = k + 1
      /\ Cardinality(M) = k + 1
      /\ k \in Nat
  <2>1. n + 1 \in Nat /\ (n + 1) + 1 = n + 2
    OBVIOUS
  <2> QED  BY <1>1, <2>1, RankAppended
<1> HIDE DEF M, k
<1>8. MaxPendingIDs \in Nat \ {0}
  BY ImportAssumption
<1>9. /\ Len(q) = IF k + 1 < MaxPendingIDs THEN k + 1 ELSE MaxPendingIDs
      /\ Len(q) = IF k < MaxPendingIDs THEN k + 1 ELSE Len(p)
      /\ \A i \in 1 .. Len(p) : q[i] = p[i]
      /\ k < MaxPendingIDs => q[k + 1] = new.change
  BY <1>5, <1>7, <1>8 DEF Collected
<1>10. \A i \in 1 .. (k + 1) : \E m \in M : Rank(M, m) = i
  <2>1. ASSUME NEW i \in 1 .. (k + 1) PROVE \E m \in M : Rank(M, m) = i
    <3>1. CASE i = k + 1
      BY <1>7, <3>1 DEF M
    <3>2. CASE i # k + 1
      <4>1. i \in 1 .. k
        BY <1>7, <3>2
      <4> QED  BY <1>5, <1>7, <4>1 DEF M
    <3> QED  BY <3>1, <3>2
  <2> QED  BY <2>1
<1>11. ASSUME NEW r \in Pending(R) \cup {new}, Rank(M, r.number) <= Len(q)
       PROVE  q[Rank(M, r.number)] = r.change
  <2>1. CASE r = new
    BY <1>5, <1>7, <1>8, <1>9, <1>11, <2>1
  <2>2. CASE r \in Pending(R)
    <3>1. r.number \in N /\ r.number \in Nat /\ Rank(M, r.number) = Rank(N, r.number)
      BY <1>6, <1>7, <2>2 DEF Pending
    <3>2. Rank(N, r.number) \in Nat \ {0}
      BY <1>1, <3>1, RankPositive
    <3>3. Rank(N, r.number) <= k
      <4>1. {m \in N : m <= r.number} \in SUBSET N
        OBVIOUS
      <4> QED  BY <1>1, <4>1, FS_Subset DEF Rank, k
    <3>4. Rank(N, r.number) <= Len(p)
      BY <1>5, <1>7, <1>8, <1>9, <1>11, <3>1, <3>2, <3>3
    <3>5. Rank(N, r.number) \in 1 .. Len(p)
      BY <3>2, <3>4
    <3> QED  BY <1>5, <1>9, <2>2, <3>1, <3>4, <3>5
  <2> QED  BY <2>1, <2>2
<1> HIDE DEF q
<1> QED  BY <1>3, <1>4, <1>7, <1>9, <1>10, <1>11 DEF Lists, q

\* What such a list holds is what GetJob extracts.
LEMMA ListExtracted ==
  ASSUME NEW j, NEW n \in Nat, Numbered(RowsOf(j), n),
         NEW p \in Seq(ChangeIds), Lists(p, RowsOf(j))
  PROVE  p = ExtractPendingIDs(j)
<1> DEFINE P      == WithStatus(j, "pending_review")
           N      == {r.number : r \in P}
           Nth(i) == CHOOSE m \in N : Cardinality({l \in N : l <= m}) = i
           limit  == IF Cardinality(N) < MaxPendingIDs THEN Cardinality(N) ELSE MaxPendingIDs
           e      == [i \in 1 .. limit |-> (CHOOSE r \in P : r.number = Nth(i)).change]
<1>1. ExtractPendingIDs(j) = e
  BY DEF ExtractPendingIDs
<1>2. P = Pending(RowsOf(j)) /\ N = Numbers(Pending(RowsOf(j)))
  BY DEF WithStatus, Pending, Numbers
<1>3. Cardinality(N) \in Nat /\ MaxPendingIDs \in Nat
  BY <1>2, NumbersFinite, ImportAssumption
<1>4. /\ Len(p) = limit
      /\ \A i \in 1 .. Cardinality(N) : \E m \in N : Rank(N, m) = i
      /\ \A r \in P : Rank(N, r.number) <= Len(p) => p[Rank(N, r.number)] = r.change
  BY <1>2 DEF Lists
<1>5. ASSUME NEW i \in 1 .. limit PROVE p[i] = e[i]
  <2>1. i \in 1 .. Cardinality(N)
    BY <1>3
  <2>2. Nth(i) \in N /\ Cardinality({l \in N : l <= Nth(i)}) = i
    <3>1. \E m \in N : Cardinality({l \in N : l <= m}) = i
      BY <1>4, <2>1 DEF Rank
    <3> QED  BY <3>1
  <2> DEFINE m == Nth(i)
  <2>3. m \in N /\ Rank(N, m) = i
    BY <2>2 DEF Rank
  <2> HIDE DEF m, Nth
  <2> DEFINE r == CHOOSE x \in P : x.number = m
  <2>4. r \in P /\ r.number = m
    BY <2>3
  <2>5. e[i] = r.change
    BY DEF m
  <2> HIDE DEF r, e, P, N
  <2> QED  BY <1>4, <2>3, <2>4, <2>5
<1>6. limit \in Nat /\ DOMAIN p = 1 .. limit /\ DOMAIN e = 1 .. limit
  BY <1>3, <1>4
<1>7. p = [i \in 1 .. limit |-> p[i]]
  BY <1>6
<1>8. e = [i \in 1 .. limit |-> e[i]]
  OBVIOUS
<1> HIDE DEF e, limit
<1>9. p = e
  BY <1>5, <1>7, <1>8
<1> QED  BY <1>1, <1>9

-----------------------------------------------------------------------------
(* The steps of an import                                                   *)

\* A step that concerns job k alone, the one its import goes on with.
LEMMA CountStep ==
  ASSUME ImportInv, CountInv, NEW h \in Importers, NEW s, NEW t, Proceed(h, s, t),
         IsFiniteSet(rows'), NEW k \in JobIds,
         \A j \in JobIds \ {k} :
           jobs'[j] = jobs[j] /\ answers'[j] = answers[j] /\ RowsOf(j)' = RowsOf(j),
         \A g \in Importers \ {h} : task[g] # Null => task[g].id # k,
         t # Null => /\ t.id = k
                     /\ CountsFit(RowsOf(k)', s, t)
                     /\ s \notin {"idle", "fail"} =>
                          jobs'[k].status = "processing" /\ answers'[k] = Null,
         JobRight(k)'
  PROVE  CountInv'
<1>1. /\ step'[h] = s /\ task'[h] = t
      /\ \A g \in Importers \ {h} : step'[g] = step[g] /\ task'[g] = task[g]
  BY DEF ImportInv, TasksFit, Proceed
<1>2. ASSUME NEW g \in Importers, task'[g] # Null
      PROVE  (CountsFit(RowsOf(task[g].id), step[g], task[g]) /\ OpenJob(step[g], task[g]))'
  <2>1. CASE g = h
    <3>1. step'[g] = s /\ task'[g] = t /\ t # Null /\ t.id = k
      BY <1>1, <1>2, <2>1
    <3>2. RowsOf(task[g].id)' = RowsOf(k)'
      BY <3>1 DEF RowsOf
    <3> QED  BY <3>1, <3>2 DEF OpenJob
  <2>2. CASE g # h
    <3>1. task'[g] = task[g] /\ step'[g] = step[g] /\ task[g] # Null
      BY <1>1, <1>2, <2>2
    <3>2. PICK i \in JobIds \ {k} : i = task[g].id
      BY <2>2, <3>1, TaskParts DEF ImportInv, TasksFit
    <3>3. CountsFit(RowsOf(i), step[g], task[g]) /\ OpenJob(step[g], task[g])
      BY <3>1, <3>2 DEF CountInv
    <3>4. RowsOf(task[g].id)' = RowsOf(i)
      BY <3>1, <3>2 DEF RowsOf
    <3> QED  BY <3>1, <3>2, <3>3, <3>4 DEF OpenJob
  <2> QED  BY <2>1, <2>2
<1>3. ASSUME NEW j \in JobIds, j # k PROVE JobRight(j)'
  <2>1. JobRight(j) /\ RowsOf(j)' = RowsOf(j) /\ jobs'[j] = jobs[j] /\ answers'[j] = answers[j]
    BY <1>3 DEF CountInv
  <2>2. ExtractPendingIDs(j)' = ExtractPendingIDs(j)
    BY <2>1 DEF ExtractPendingIDs, WithStatus
  <2> QED  BY <2>1, <2>2 DEF JobRight, Accounts, Close, Numbered
<1> QED  BY <1>2, <1>3 DEF CountInv

\* What the invariants say of one import and its job.
LEMMA CountParts ==
  ASSUME ImportInv, CountInv, NEW h \in Importers, step[h] # "idle"
  PROVE  /\ task[h] \in Task /\ task[h] # Null /\ task[h].id \in JobIds
         /\ CountsFit(RowsOf(task[h].id), step[h], task[h])
         /\ OpenJob(step[h], task[h])
         /\ JobRight(task[h].id)
         /\ IsFiniteSet(RowsOf(task[h].id))
         /\ \A g \in Importers \ {h} : task[g] # Null => task[g].id # task[h].id
         /\ jobs[task[h].id] # Null
BY ImportParts, TaskParts, RowsFinite DEF CountInv, ImportInv, JobsApart

\* A step that leaves the tables of imports alone.
LEMMA CountLocalStep ==
  ASSUME ImportInv, CountInv, NEW h \in Importers, step[h] # "idle",
         NEW s, NEW t, Proceed(h, s, t), UNCHANGED <<jobs, rows, answers>>,
         step[h] = "fail" => t = Null,
         t # Null => t.id = task[h].id /\ CountsFit(RowsOf(task[h].id), s, t)
  PROVE  CountInv'
<1>1. PICK k \in JobIds : k = task[h].id
  BY CountParts
<1>2. /\ JobRight(k) /\ OpenJob(step[h], task[h])
      /\ \A g \in Importers \ {h} : task[g] # Null => task[g].id # k
  BY <1>1, CountParts
<1>3. \A j : RowsOf(j)' = RowsOf(j)
  BY DEF RowsOf
<1>4. JobRight(k)'
  <2>1. RowsOf(k)' = RowsOf(k)
    BY <1>3
  <2>2. ExtractPendingIDs(k)' = ExtractPendingIDs(k)
    BY <2>1 DEF ExtractPendingIDs, WithStatus
  <2> QED  BY <1>2, <2>1, <2>2 DEF JobRight, Accounts, Close, Numbered
<1>5. t # Null /\ s \notin {"idle", "fail"} => jobs'[k].status = "processing" /\ answers'[k] = Null
  BY <1>1, <1>2 DEF OpenJob
<1>6. IsFiniteSet(rows')
  BY DEF CountInv
<1>7. t # Null => t.id = k /\ CountsFit(RowsOf(k)', s, t)
  BY <1>1, <1>3
<1>8. \A j \in JobIds \ {k} :
        jobs'[j] = jobs[j] /\ answers'[j] = answers[j] /\ RowsOf(j)' = RowsOf(j)
  BY <1>3
<1> QED  BY <1>2, <1>4, <1>5, <1>6, <1>7, <1>8, CountStep

\* Nothing is counted between two rows.
LEMMA CountsSame ==
  ASSUME NEW R, NEW s \in AtRecord, NEW t, CountsFit(R, s, t), ~ Ahead(s, t),
         NEW next \in AtRecord, NEW u, ~ Ahead(next, u),
         u.at = t.at, u.job = t.job, u.pending = t.pending,
         next \in {"draft", "find", "submit"} => u.ok
  PROVE  CountsFit(R, next, u)
<1>1. Expected(R, s, t) = R /\ Expected(R, next, u) = R
  BY DEF Expected
<1>2. next # "finish" /\ next # "fail"
  BY DEF AtRecord
<1> QED  BY <1>1, <1>2 DEF CountsFit

\* An import may give up between two rows.
LEMMA CountsClose ==
  ASSUME NEW R, IsFiniteSet(R), NEW s \in AtRecord \cup {"finish"},
         NEW t \in Task, CountsFit(R, s, t), ~ Ahead(s, t)
  PROVE  Close(R, t.job)
<1>1. Expected(R, s, t) = R
  BY DEF Expected
<1>2. /\ Numbers(R) = 2 .. Cardinality(R) + 1 /\ t.job.processed_rows = Cardinality(R)
      /\ t.job.rows_failed = Cardinality(Failed(R))
      /\ t.job.changes_created = Cardinality(Pending(R))
  BY <1>1 DEF CountsFit, Numbered, AtRecord
<1> QED  BY <1>2, PartsFinite DEF Close

LEMMA ImportCounts ==
  ASSUME ImportInv, CountInv, NEW h \in Importers, NEW a \in Admins, NEW sheet \in Sheets,
         NEW dry \in BOOLEAN, Import(h, a, sheet, dry)
  PROVE  CountInv'
<1> DEFINE row  == [uploaded_by |-> a, status |-> "processing", dry_run |-> dry,
                    file |-> ParseCSV(sheet), processed_rows |-> 0, rows_failed |-> 0,
                    changes_created |-> 0]
           T(j) == [id |-> j, job |-> row, at |-> 1, seen |-> {}, ok |-> TRUE,
                    change |-> Null, pending |-> <<>>]
<1>1. PICK k \in JobIds :
        /\ jobs[k] = Null
        /\ jobs' = [jobs EXCEPT ![k] = row]
        /\ Proceed(h, "check", T(k))
        /\ UNCHANGED <<rows, answers>>
  BY DEF Import, Put
<1> DEFINE t == T(k)
<1>2. /\ t.id = k /\ t.at = 1 /\ t.job.processed_rows = 0 /\ t.job.rows_failed = 0
      /\ t.job.changes_created = 0 /\ t.pending = <<>> /\ row.status = "processing"
  OBVIOUS
<1> HIDE DEF t, T, row
<1>3. jobs'[k] = row /\ \A j \in JobIds \ {k} : jobs'[j] = jobs[j]
  BY <1>1 DEF ImportInv, JobTables
<1>4. \A j : RowsOf(j)' = RowsOf(j)
  BY <1>1 DEF RowsOf
<1>5. RowsOf(k) = {}
  BY <1>1 DEF RowsOf, ImportInv, JobsThere
<1>6. answers[k] = Null
  BY <1>1 DEF CountInv, JobRight
<1>7. CountsFit({}, "check", t)
  <2>1. Numbers({}) = {} /\ Pending({}) = {} /\ Failed({}) = {} /\ Cardinality({}) = 0
    BY FS_EmptySet DEF Numbers, Pending, Failed
  <2>2. Expected({}, "check", t) = {}
    BY DEF Expected, Ahead
  <2>3. MaxPendingIDs \in Nat \ {0} /\ 1 .. 0 = {} /\ 2 .. 0 + 1 = {}
    BY ImportAssumption
  <2>4. Lists(<<>>, {})
    <3>1. Len(<<>>) = 0
      OBVIOUS
    <3>2. Numbers(Pending({})) = {} /\ Cardinality(Numbers(Pending({}))) = 0
      BY <2>1
    <3> QED  BY <2>1, <2>3, <3>1, <3>2 DEF Lists
  <2>5. Numbered({}, t.at - 1) /\ t.job.processed_rows = t.at - 1
    BY <1>2, <2>1, <2>3 DEF Numbered
  <2>6. Lists(t.pending, {})
    BY <1>2, <2>4
  <2>7. "check" \notin {"finish", "fail", "draft", "find", "submit"}
    OBVIOUS
  <2> QED  BY <1>2, <2>1, <2>2, <2>5, <2>6, <2>7 DEF CountsFit
<1>8. JobRight(k)'
  BY <1>1, <1>2, <1>3, <1>6 DEF JobRight
<1>9. \A g \in Importers \ {h} : task[g] # Null => task[g].id # k
  BY <1>1 DEF ImportInv, JobsThere
<1>10. /\ IsFiniteSet(rows')
       /\ \A j \in JobIds \ {k} :
            jobs'[j] = jobs[j] /\ answers'[j] = answers[j] /\ RowsOf(j)' = RowsOf(j)
       /\ jobs'[k].status = "processing" /\ answers'[k] = Null
       /\ CountsFit(RowsOf(k)', "check", t)
       /\ Proceed(h, "check", t)
  BY <1>1, <1>2, <1>3, <1>4, <1>5, <1>6, <1>7 DEF CountInv, t
<1> QED  BY <1>2, <1>8, <1>9, <1>10, CountStep

LEMMA CheckRecordCounts ==
  ASSUME ImportInv, CountInv, NEW h \in Importers, CheckRecord(h)
  PROVE  CountInv'
<1> DEFINE t == task[h]
           R == RowsOf(t.id)
<1>1. PICK good, seen :
        /\ good \in BOOLEAN /\ step[h] = "check"
        /\ \/ Proceed(h, IF good /\ ~ t.job.dry_run THEN "draft" ELSE "row",
                      [t EXCEPT !.ok = good, !.change = Null, !.seen = seen])
           \/ Proceed(h, "fail", t)
        /\ UNCHANGED <<jobs, rows, answers>>
  BY DEF CheckRecord
<1>2. t \in Task /\ CountsFit(R, "check", t) /\ IsFiniteSet(R) /\ ~ Ahead("check", t)
  BY <1>1, CountParts DEF Ahead
<1> DEFINE u == [t EXCEPT !.ok = good, !.change = Null, !.seen = seen]
           s == IF good /\ ~ t.job.dry_run THEN "draft" ELSE "row"
<1>3. CASE Proceed(h, "fail", t)
  <2>1. CountsFit(R, "fail", t)
    BY <1>2, CountsClose DEF CountsFit, AtRecord
  <2> QED  BY <1>1, <1>3, <2>1, CountLocalStep
<1>4. CASE Proceed(h, s, u)
  <2>1. /\ u.id = t.id /\ u.at = t.at /\ u.job = t.job /\ u.pending = t.pending /\ u.ok = good
    BY <1>2 DEF Task
  <2>2. s \in AtRecord /\ ~ Ahead(s, u) /\ (s \in {"draft", "find", "submit"} => u.ok)
    BY <2>1 DEF AtRecord, Ahead
  <2> HIDE DEF s, u
  <2>3. CountsFit(R, s, u)
    BY <1>2, <2>1, <2>2, CountsSame DEF AtRecord
  <2> QED  BY <1>1, <1>4, <2>1, <2>3, CountLocalStep
<1> QED  BY <1>1, <1>3, <1>4

LEMMA DraftRecordCounts ==
  ASSUME ImportInv, CountInv, NEW h \in Importers, DraftRecord(h) \/ FindDraft(h)
  PROVE  CountInv'
<1> DEFINE t == task[h]
           R == RowsOf(t.id)
<1>1. PICK s, ok, c :
        /\ s \in {"find", "submit", "row"} /\ ok \in BOOLEAN
        /\ step[h] \in {"draft", "find"}
        /\ Proceed(h, s, [t EXCEPT !.ok = ok, !.change = c])
        /\ IF s = "row" THEN ok = FALSE ELSE ok = t.ok
        /\ UNCHANGED <<jobs, rows, answers>>
  <2>1. step[h] \in {"draft", "find"} /\ UNCHANGED <<jobs, rows, answers>>
    BY DEF DraftRecord, FindDraft
  <2>2. t \in Task /\ t.ok \in BOOLEAN
    BY <2>1, CountParts, TaskParts
  <2>3. \A c : [t EXCEPT !.change = c] = [t EXCEPT !.ok = t.ok, !.change = c]
    BY <2>2 DEF Task
  <2>4. /\ t = [t EXCEPT !.ok = t.ok, !.change = t.change]
        /\ [t EXCEPT !.ok = FALSE] = [t EXCEPT !.ok = FALSE, !.change = t.change]
    BY <2>2 DEF Task
  <2>5. \/ \E c : Proceed(h, "find", [t EXCEPT !.change = c])
        \/ Proceed(h, "submit", t)
        \/ Proceed(h, "row", [t EXCEPT !.ok = FALSE])
        \/ Proceed(h, "row", [t EXCEPT !.ok = FALSE, !.change = Null])
    BY DEF DraftRecord, FindDraft
  <2> DEFINE Is(s, ok, c) == Proceed(h, s, [t EXCEPT !.ok = ok, !.change = c])
  <2>6. \/ \E c : Is("find", t.ok, c) \/ Is("submit", t.ok, c)
        \/ \E c : Is("row", FALSE, c)
    BY <2>3, <2>4, <2>5
  <2> HIDE DEF Is
  <2>7. PICK s \in {"find", "submit", "row"}, ok \in BOOLEAN :
          /\ \E c : Is(s, ok, c)
          /\ IF s = "row" THEN ok = FALSE ELSE ok = t.ok
    BY <2>2, <2>6
  <2>8. PICK c : Is(s, ok, c)
    BY <2>7
  <2>9. Proceed(h, s, [t EXCEPT !.ok = ok, !.change = c])
    BY <2>8 DEF Is
  <2> HIDE DEF t
  <2> QED  BY <2>1, <2>7, <2>9
<1> DEFINE u == [t EXCEPT !.ok = ok, !.change = c]
<1>2. t \in Task /\ CountsFit(R, step[h], t) /\ ~ Ahead(step[h], t) /\ t.ok
  BY <1>1, CountParts DEF Ahead, CountsFit
<1>3. u.id = t.id /\ u.at = t.at /\ u.job = t.job /\ u.pending = t.pending /\ u.ok = ok
  BY <1>2 DEF Task
<1> HIDE DEF u
<1>4. ~ Ahead(s, u) /\ (s \in {"draft", "find", "submit"} => u.ok)
  BY <1>1, <1>2, <1>3 DEF Ahead
<1>5. CountsFit(R, s, u)
  BY <1>1, <1>2, <1>3, <1>4, CountsSame DEF AtRecord
<1> QED  BY <1>1, <1>3, <1>5, CountLocalStep DEF u

\* What a submission does to the variables that count.
LEMMA SubmittedCounts ==
  ASSUME NEW t \in Task, t.change \in ChangeIds
  PROVE  /\ Submitted(t).pending = Collected(t.pending, t.change)
         /\ Submitted(t).change = t.change
         /\ Submitted(t).job.changes_created = t.job.changes_created + 1
         /\ Submitted(t).job.rows_failed = t.job.rows_failed
         /\ Submitted(t).job.processed_rows = t.job.processed_rows
         /\ Submitted(t).job.dry_run = t.job.dry_run
         /\ Submitted(t).job.uploaded_by = t.job.uploaded_by
<1> DEFINE pending == Collected(t.pending, t.change)
           n       == t.job.changes_created + 1
           job     == [t.job EXCEPT !.changes_created = n]
<1>1. /\ job.changes_created = n /\ job.rows_failed = t.job.rows_failed
      /\ job.processed_rows = t.job.processed_rows /\ job.dry_run = t.job.dry_run
      /\ job.uploaded_by = t.job.uploaded_by
  BY TaskParts DEF JobRow
<1>2. Submitted(t) = [t EXCEPT !.pending = pending, !.job = job]
  BY DEF Submitted, Task
<1> HIDE DEF pending, job
<1>3. Submitted(t).pending = pending /\ Submitted(t).job = job /\ Submitted(t).change = t.change
  BY <1>2 DEF Task
<1> QED  BY <1>1, <1>3 DEF pending

LEMMA SubmitRecordCounts ==
  ASSUME ImportInv, CountInv, NEW h \in Importers, SubmitRecord(h)
  PROVE  CountInv'
<1> DEFINE t == task[h]
           v == [t EXCEPT !.ok = FALSE, !.change = Null]
           u == Submitted(t)
           R == RowsOf(t.id)
<1>1. /\ step[h] = "submit" /\ UNCHANGED <<jobs, rows, answers>>
      /\ Proceed(h, "row", u) \/ Proceed(h, "row", v)
  BY DEF SubmitRecord
<1>2. /\ t \in Task /\ CountsFit(R, "submit", t) /\ IsFiniteSet(R) /\ t.ok
      /\ t.change \in ChangeIds /\ ~ t.job.dry_run
  BY <1>1, CountParts, ImportParts DEF Fit, CountsFit
<1>3. CASE Proceed(h, "row", v)
  <2>1. v.id = t.id /\ v.at = t.at /\ v.job = t.job /\ v.pending = t.pending /\ v.ok = FALSE
    BY <1>2 DEF Task
  <2> HIDE DEF v
  <2>2. ~ Ahead("submit", t) /\ ~ Ahead("row", v)
    BY <2>1 DEF Ahead
  <2>3. CountsFit(R, "row", v)
    BY <1>2, <2>1, <2>2, CountsSame DEF AtRecord
  <2> QED  BY <1>1, <1>3, <2>1, <2>3, CountLocalStep
<1>4. CASE Proceed(h, "row", u)
  <2> DEFINE new == NextRow(u)
  <2>1. /\ u.id = t.id /\ u.at = t.at /\ u.ok /\ u.pending = Collected(t.pending, t.change)
        /\ u.change = t.change /\ ~ u.job.dry_run
        /\ u.job.changes_created = t.job.changes_created + 1
        /\ u.job.rows_failed = t.job.rows_failed
        /\ u.job.processed_rows = t.job.processed_rows
    BY <1>2, SubmittedTyped, SubmittedCounts
  <2>2. t.at \in Nat \ {0} /\ t.pending \in Seq(ChangeIds) /\ t.job.changes_created \in Nat
    BY <1>2, TaskParts
  <2> HIDE DEF u
  <2>3. Ahead("row", u) /\ Expected(R, "row", u) = R \cup {new}
    BY <2>1 DEF Ahead, Expected
  <2>4. new.number = t.at + 1 /\ new.status = "pending_review" /\ new.change = t.change
    BY <2>1 DEF NextRow, RowStatus
  <2> HIDE DEF new
  <2>5. /\ Numbered(R, t.at - 1) /\ t.job.processed_rows = t.at - 1
        /\ t.job.rows_failed = Cardinality(Failed(R))
        /\ t.job.changes_created = Cardinality(Pending(R)) /\ Lists(t.pending, R)
    <3>1. Expected(R, "submit", t) = R
      BY DEF Expected, Ahead
    <3> QED  BY <1>2, <3>1 DEF CountsFit, AtRecord
  <2>6. t.at - 1 \in Nat /\ t.at - 1 + 1 = t.at
    BY <2>2
  <2>7. new \notin R
    BY <1>2, <2>4, <2>5, <2>6, RowAdded
  <2>8. Cardinality(Pending(R \cup {new})) = u.job.changes_created
    BY <1>2, <2>1, <2>4, <2>5, <2>7, OutcomeCounted
  <2>9. \A r \in R : r.number \in Nat
    BY DEF RowsOf, ImportInv, JobTables, ImportRow
  <2>10. Lists(u.pending, R \cup {new})
    <3>1. new.number = (t.at - 1) + 2 /\ new.change \in ChangeIds
      BY <1>2, <2>4, <2>6
    <3>2. Lists(Collected(t.pending, new.change), R \cup {new})
      BY <1>2, <2>2, <2>4, <2>5, <2>6, <2>9, <3>1, ListGrows
    <3> QED  BY <2>1, <2>4, <3>2
  <2>11. CountsFit(R, "row", u)
    BY <2>1, <2>3, <2>5, <2>8, <2>10 DEF CountsFit
  <2> QED  BY <1>1, <1>4, <2>1, <2>11, CountLocalStep
<1> QED  BY <1>1, <1>3, <1>4

\* What counting a row does to the variables that count.
LEMMA RowCountedCounts ==
  ASSUME NEW t \in Task
  PROVE  /\ RowCounted(t).pending = t.pending
         /\ RowCounted(t).job.changes_created = t.job.changes_created
         /\ RowCounted(t).job.rows_failed =
              IF t.ok THEN t.job.rows_failed ELSE t.job.rows_failed + 1
         /\ RowCounted(t).job.processed_rows = t.job.processed_rows
         /\ RowCounted(t).job.dry_run = t.job.dry_run
         /\ RowCounted(t).job.uploaded_by = t.job.uploaded_by
         /\ RowCounted(t).change = t.change
<1> DEFINE n   == t.job.rows_failed + 1
           job == [t.job EXCEPT !.rows_failed = n]
<1>1. /\ job.changes_created = t.job.changes_created /\ job.rows_failed = n
      /\ job.processed_rows = t.job.processed_rows /\ job.dry_run = t.job.dry_run
      /\ job.uploaded_by = t.job.uploaded_by
  BY TaskParts DEF JobRow
<1>2. RowCounted(t) = IF t.ok THEN t ELSE [t EXCEPT !.job = job]
  BY DEF RowCounted, Task
<1> HIDE DEF job
<1> QED  BY <1>1, <1>2 DEF Task

LEMMA ProcessedCounts ==
  ASSUME NEW t \in Task
  PROVE  /\ Processed(t).pending = t.pending
         /\ Processed(t).job.changes_created = t.job.changes_created
         /\ Processed(t).job.rows_failed = RowCounted(t).job.rows_failed
         /\ Processed(t).job.processed_rows = t.job.processed_rows + 1
         /\ Processed(t).job.dry_run = t.job.dry_run
         /\ Processed(t).job.uploaded_by = t.job.uploaded_by
         /\ Processed(t).change = t.change
<1> DEFINE c   == RowCounted(t)
           n   == c.job.processed_rows + 1
           at  == c.at + 1
           job == [c.job EXCEPT !.processed_rows = n]
<1>1. c \in Task
  BY RowCountedTyped
<1>2. /\ c.pending = t.pending /\ c.job.changes_created = t.job.changes_created
      /\ c.job.processed_rows = t.job.processed_rows /\ c.job.dry_run = t.job.dry_run
      /\ c.job.uploaded_by = t.job.uploaded_by /\ c.change = t.change
  BY RowCountedCounts
<1> HIDE DEF c
<1>3. /\ job.changes_created = c.job.changes_created /\ job.rows_failed = c.job.rows_failed
      /\ job.processed_rows = n /\ job.dry_run = c.job.dry_run
      /\ job.uploaded_by = c.job.uploaded_by
  BY <1>1, TaskParts DEF JobRow
<1>4. Processed(t) = [c EXCEPT !.at = at, !.job = job]
  BY <1>1 DEF Processed, Task, c
<1> HIDE DEF job, at
<1>5. Processed(t).job = job /\ Processed(t).pending = c.pending /\ Processed(t).change = c.change
  BY <1>1, <1>4 DEF Task
<1> QED  BY <1>2, <1>3, <1>5 DEF c

\* The counters before and after the row of the record at hand is inserted.
LEMMA RowCounts ==
  ASSUME NEW t \in Task, NEW R, IsFiniteSet(R), CountsFit(R, "row", t)
  PROVE  LET S == R \cup {NextRow(t)}  c == RowCounted(t)
         IN /\ Close(R, c.job)
            /\ Close(S, c.job)
            /\ IsFiniteSet(S) /\ Numbered(S, t.at)
            /\ c.job.rows_failed = Cardinality(Failed(S))
            /\ c.job.changes_created = Cardinality(Pending(S))
            /\ Lists(c.pending, S)
<1> DEFINE new == NextRow(t)
           S   == R \cup {new}
           c   == RowCounted(t)
<1>1. /\ Numbered(R, t.at - 1) /\ t.job.processed_rows = t.at - 1
      /\ t.job.rows_failed = Cardinality(Failed(R))
      /\ t.job.changes_created = Cardinality(Pending(Expected(R, "row", t)))
      /\ Lists(t.pending, Expected(R, "row", t))
  BY DEF CountsFit, AtRecord
<1>2. t.at \in Nat \ {0} /\ t.at - 1 \in Nat /\ (t.at - 1) + 1 = t.at /\ t.ok \in BOOLEAN
  BY TaskParts
<1>3. /\ new.number = (t.at - 1) + 2
      /\ new.status = "pending_review" <=> Ahead("row", t)
      /\ new.status = "failed" <=> ~ t.ok
  BY <1>2 DEF NextRow, RowStatus, Ahead
<1> HIDE DEF new
<1>4. new \notin R /\ IsFiniteSet(S) /\ Numbered(S, t.at)
  BY <1>1, <1>2, <1>3, RowAdded
<1>5. /\ Pending(S) = IF Ahead("row", t) THEN Pending(R) \cup {new} ELSE Pending(R)
      /\ Cardinality(Pending(S)) = IF Ahead("row", t) THEN Cardinality(Pending(R)) + 1
                                                     ELSE Cardinality(Pending(R))
      /\ Cardinality(Failed(S)) = IF t.ok THEN Cardinality(Failed(R))
                                          ELSE Cardinality(Failed(R)) + 1
  BY <1>3, <1>4, OutcomeCounted
<1>6. /\ Cardinality(Pending(S)) = t.job.changes_created
      /\ Lists(t.pending, S)
  <2>1. CASE Ahead("row", t)
    <3>1. Expected(R, "row", t) = S
      BY <2>1 DEF Expected, new
    <3> QED  BY <1>1, <3>1
  <2>2. CASE ~ Ahead("row", t)
    <3>1. Expected(R, "row", t) = R /\ Pending(S) = Pending(R)
      BY <1>5, <2>2 DEF Expected
    <3> QED  BY <1>1, <3>1 DEF Lists
  <2> QED  BY <2>1, <2>2
<1>7. /\ c.pending = t.pending /\ c.job.changes_created = t.job.changes_created
      /\ c.job.rows_failed = IF t.ok THEN t.job.rows_failed ELSE t.job.rows_failed + 1
      /\ c.job.processed_rows = t.job.processed_rows
  BY RowCountedCounts
<1>8. c.job.rows_failed = Cardinality(Failed(S))
  BY <1>1, <1>5, <1>7
<1>9. /\ Cardinality(Pending(R)) \in Nat /\ Cardinality(Failed(R)) \in Nat
      /\ Cardinality(R) = t.at - 1 /\ Cardinality(S) = t.at
      /\ Numbers(R) = 2 .. (t.at - 1) + 1 /\ Numbers(S) = 2 .. t.at + 1
  BY <1>1, <1>4, PartsFinite DEF Numbered
<1> HIDE DEF S, c
<1>10. Close(R, c.job)
  <2>1. Cardinality(R) - c.job.processed_rows = 0
    BY <1>1, <1>2, <1>7, <1>9
  <2>2. c.job.rows_failed - Cardinality(Failed(R)) \in {0, 1}
    BY <1>1, <1>7, <1>9
  <2>3. c.job.changes_created - Cardinality(Pending(R)) \in {0, 1}
    BY <1>5, <1>6, <1>7, <1>9
  <2> QED  BY <1>9, <2>1, <2>2, <2>3 DEF Close
<1>11. Close(S, c.job)
  <2>1. Cardinality(S) - c.job.processed_rows = 1
    BY <1>1, <1>2, <1>7, <1>9
  <2>2. Cardinality(Failed(S)) \in Nat /\ Cardinality(Pending(S)) \in Nat
    BY <1>4, PartsFinite
  <2> QED  BY <1>6, <1>7, <1>8, <1>9, <2>1, <2>2 DEF Close
<1> QED  BY <1>4, <1>6, <1>7, <1>8, <1>10, <1>11 DEF S, c, new

LEMMA InsertRowCounts ==
  ASSUME ImportInv, CountInv, NEW h \in Importers, InsertRow(h)
  PROVE  CountInv'
<1> DEFINE t   == task[h]
           new == NextRow(t)
           c   == RowCounted(t)
<1>1. /\ step[h] = "row" /\ UNCHANGED <<jobs, answers>>
      /\ \/ rows' = rows /\ Proceed(h, "fail", c)
         \/ rows' = rows \cup {new} /\ Proceed(h, "fail", c)
         \/ /\ rows' = rows \cup {new}
            /\ Proceed(h, IF MoreRecords(t) THEN "check" ELSE "finish", Processed(t))
  <2>1. PICK outcome \in {"done", "failed", "lost"} :
          /\ rows' = IF outcome = "failed" THEN rows ELSE rows \cup {new}
          /\ IF outcome = "done"
             THEN Proceed(h, IF MoreRecords(t) THEN "check" ELSE "finish", Processed(t))
             ELSE Proceed(h, "fail", c)
    BY DEF InsertRow, Outcomes, RowOf, RowNumber, NextRow, At
  <2> QED  BY <2>1 DEF InsertRow
<1>2. PICK k \in JobIds : k = t.id
  BY <1>1, CountParts
<1> DEFINE R == RowsOf(k)
           S == R \cup {new}
<1>3. /\ t \in Task /\ CountsFit(R, "row", t) /\ IsFiniteSet(R) /\ JobRight(k)
      /\ jobs[k].status = "processing" /\ answers[k] = Null
      /\ \A g \in Importers \ {h} : task[g] # Null => task[g].id # k
      /\ t.at <= Len(t.job.file)
  BY <1>1, <1>2, CountParts, ImportParts DEF OpenJob, AtRecord
<1>4. new.job = k
  BY <1>2 DEF NextRow
<1>5. /\ Close(R, c.job)
      /\ Close(S, c.job)
      /\ IsFiniteSet(S) /\ Numbered(S, t.at)
      /\ c.job.rows_failed = Cardinality(Failed(S))
      /\ c.job.changes_created = Cardinality(Pending(S))
      /\ Lists(c.pending, S)
  BY <1>3, RowCounts
<1>6. c.id = k /\ Processed(t).id = k
  BY <1>2, <1>3, RowCountedTyped, ProcessedTyped
<1> HIDE DEF new, c
<1>7. /\ IsFiniteSet(rows')
      /\ \A j \in JobIds \ {k} : RowsOf(j)' = RowsOf(j)
      /\ rows' = rows => RowsOf(k)' = R
      /\ rows' = rows \cup {new} => RowsOf(k)' = S
  <2>1. IsFiniteSet(rows) /\ IsFiniteSet(rows \cup {new})
    BY FS_AddElement DEF CountInv
  <2> QED  BY <1>1, <1>4, <2>1 DEF RowsOf
<1>8. JobRight(k)'
  BY <1>1, <1>3 DEF JobRight
<1>9. \A j \in JobIds \ {k} :
        jobs'[j] = jobs[j] /\ answers'[j] = answers[j] /\ RowsOf(j)' = RowsOf(j)
  BY <1>1, <1>7
<1>10. CASE Proceed(h, "fail", c) /\ rows' \in {rows, rows \cup {new}}
  <2>1. RowsOf(k)' \in {R, S}
    BY <1>7, <1>10
  <2>2. CountsFit(RowsOf(k)', "fail", c)
    BY <1>5, <2>1 DEF CountsFit, AtRecord
  <2> HIDE DEF t
  <2> QED  BY <1>3, <1>6, <1>7, <1>8, <1>9, <1>10, <2>2, CountStep DEF t
<1>11. CASE /\ rows' = rows \cup {new}
            /\ Proceed(h, IF MoreRecords(t) THEN "check" ELSE "finish", Processed(t))
  <2> DEFINE u == Processed(t)
             s == IF MoreRecords(t) THEN "check" ELSE "finish"
  <2>1. /\ u.at = t.at + 1 /\ u.job.file = t.job.file /\ u.pending = c.pending
        /\ u.job.processed_rows = t.job.processed_rows + 1
        /\ u.job.rows_failed = c.job.rows_failed
        /\ u.job.changes_created = c.job.changes_created
    BY <1>3, ProcessedTyped, ProcessedCounts, RowCountedCounts DEF c
  <2>2. /\ t.at \in Nat \ {0} /\ Len(t.job.file) \in Nat /\ t.job.processed_rows = t.at - 1
    BY <1>3, TaskParts DEF CountsFit, AtRecord
  <2>3. /\ u.at - 1 = t.at /\ u.job.processed_rows = t.at
        /\ s = "finish" => t.at = Len(u.job.file)
    BY <1>3, <2>1, <2>2 DEF MoreRecords
  <2>4. s \in {"check", "finish"}
    OBVIOUS
  <2> HIDE DEF u, s
  <2>5. Expected(S, s, u) = S
    BY <2>4 DEF Expected, Ahead
  <2>6. CountsFit(S, s, u)
    BY <1>5, <2>1, <2>3, <2>4, <2>5 DEF CountsFit, AtRecord
  <2>7. Proceed(h, s, u) /\ u.id = k /\ CountsFit(RowsOf(k)', s, u)
    BY <1>6, <1>7, <1>11, <2>6 DEF s, u
  <2> QED  BY <1>1, <1>3, <1>7, <1>8, <1>9, <2>7, CountStep
<1> QED  BY <1>1, <1>10, <1>11

\* The last statements of an import.
LEMMA CompleteJobCounts ==
  ASSUME ImportInv, CountInv, NEW h \in Importers, CompleteJob(h)
  PROVE  CountInv'
<1> DEFINE t   == task[h]
           row == [t.job EXCEPT !.status = "completed"]
           u   == [t EXCEPT !.job = row]
<1>1. /\ step[h] = "finish" /\ UNCHANGED rows
      /\ \/ /\ jobs' \in {jobs, [jobs EXCEPT ![t.id] = row]}
            /\ Proceed(h, "fail", u) /\ UNCHANGED answers
         \/ /\ jobs' = [jobs EXCEPT ![t.id] = row]
            /\ Leave(h) /\ answers' = [answers EXCEPT ![t.id] = t.pending]
  BY DEF CompleteJob, Put
<1>2. PICK k \in JobIds : k = t.id
  BY <1>1, CountParts
<1> DEFINE R == RowsOf(k)
<1>3. /\ t \in Task /\ CountsFit(R, "finish", t) /\ IsFiniteSet(R) /\ JobRight(k)
      /\ jobs[k].status = "processing" /\ answers[k] = Null /\ jobs[k] # Null
      /\ \A g \in Importers \ {h} : task[g] # Null => task[g].id # k
  BY <1>1, <1>2, CountParts DEF OpenJob
<1>4. /\ row \in JobRow /\ row # Null /\ row.status = "completed" /\ row.file = t.job.file
      /\ row.processed_rows = t.job.processed_rows /\ row.rows_failed = t.job.rows_failed
      /\ row.changes_created = t.job.changes_created
  <2>1. row \in JobRow
    BY <1>3, TaskParts DEF JobRow
  <2> QED  BY <1>3, <2>1, TaskParts, FilesAssumption DEF JobRow
<1>5. u.job = row /\ u.id = k
  BY <1>2, <1>3 DEF Task
<1> HIDE DEF row, u
<1>6. Accounts(R, row) /\ Lists(t.pending, R) /\ Numbered(R, Len(t.job.file))
  <2>1. Expected(R, "finish", t) = R
    BY DEF Expected, Ahead
  <2> QED  BY <1>3, <1>4, <2>1 DEF CountsFit, Accounts
<1>7. Close(R, row)
  <2>1. Close(R, t.job)
    BY <1>3, CountsClose DEF Ahead
  <2> QED  BY <1>4, <2>1 DEF Close
<1>8. /\ \A j : RowsOf(j)' = RowsOf(j)
      /\ IsFiniteSet(rows')
  BY <1>1 DEF RowsOf, CountInv
<1>9. RowsOf(k)' = R /\ ExtractPendingIDs(k)' = ExtractPendingIDs(k)
  <2>1. RowsOf(k)' = R
    BY <1>8
  <2> QED  BY <2>1 DEF ExtractPendingIDs, WithStatus
<1>10. t.pending = ExtractPendingIDs(k)
  <2>1. Len(t.job.file) \in Nat /\ t.pending \in Seq(ChangeIds)
    BY <1>3, TaskParts
  <2> HIDE DEF t
  <2> QED  BY <1>6, <2>1, ListExtracted
<1>11. /\ jobs' \in {jobs, [jobs EXCEPT ![k] = row]}
       /\ answers' \in {answers, [answers EXCEPT ![k] = t.pending]}
       /\ answers' # answers => jobs' = [jobs EXCEPT ![k] = row]
  BY <1>1, <1>2
<1> DEFINE list == t.pending
<1>12. /\ \A j \in JobIds \ {k} :
            jobs'[j] = jobs[j] /\ answers'[j] = answers[j] /\ RowsOf(j)' = RowsOf(j)
       /\ jobs'[k] \in {jobs[k], row} /\ answers'[k] \in {Null, list}
  <2> HIDE DEF list
  <2>1. answers' \in {answers, [answers EXCEPT ![k] = list]}
    BY <1>11 DEF list
  <2> HIDE DEF t
  <2> QED  BY <1>3, <1>8, <1>11, <2>1 DEF ImportInv, JobTables
<1>13. JobRight(k)'
  <2>1. jobs'[k] # Null
    BY <1>3, <1>4, <1>12
  <2>2. answers'[k] # Null => answers'[k] = ExtractPendingIDs(k)'
    BY <1>9, <1>10, <1>12
  <2>3. jobs'[k].status = "completed" => Accounts(RowsOf(k)', jobs'[k])
    BY <1>3, <1>6, <1>9, <1>12
  <2>4. jobs'[k].status # "failed"
    BY <1>3, <1>4, <1>12
  <2> QED  BY <2>1, <2>2, <2>3, <2>4 DEF JobRight
<1>14. CASE Proceed(h, "fail", u)
  <2>1. CountsFit(RowsOf(k)', "fail", u)
    BY <1>5, <1>7, <1>9 DEF CountsFit, AtRecord
  <2> QED  BY <1>3, <1>5, <1>8, <1>12, <1>13, <1>14, <2>1, CountStep
<1>15. CASE Leave(h)
  <2>1. Proceed(h, "idle", Null)
    BY <1>15 DEF Leave
  <2> QED  BY <1>3, <1>8, <1>12, <1>13, <2>1, CountStep
<1> QED  BY <1>1, <1>14, <1>15

LEMMA FailJobCounts ==
  ASSUME ImportInv, CountInv, NEW h \in Importers, FailJob(h)
  PROVE  CountInv'
<1> DEFINE t   == task[h]
           row == [t.job EXCEPT !.status = "failed"]
<1>1. /\ step[h] = "fail" /\ UNCHANGED <<rows, answers>> /\ Proceed(h, "idle", Null)
      /\ jobs' \in {jobs, [jobs EXCEPT ![t.id] = row]}
  BY DEF FailJob, Put, Leave
<1>2. PICK k \in JobIds : k = t.id
  BY <1>1, CountParts
<1> DEFINE R == RowsOf(k)
<1>3. /\ t \in Task /\ CountsFit(R, "fail", t) /\ JobRight(k) /\ jobs[k] # Null
      /\ \A g \in Importers \ {h} : task[g] # Null => task[g].id # k
  BY <1>1, <1>2, CountParts
<1>4. /\ row # Null /\ row.status = "failed" /\ row.processed_rows = t.job.processed_rows
      /\ row.rows_failed = t.job.rows_failed /\ row.changes_created = t.job.changes_created
  <2>1. row \in JobRow
    BY <1>3, TaskParts DEF JobRow
  <2> QED  BY <1>3, <2>1, TaskParts, FilesAssumption DEF JobRow
<1> HIDE DEF row
<1>5. Close(R, row)
  BY <1>3, <1>4 DEF CountsFit, Close
<1>6. /\ \A j : RowsOf(j)' = RowsOf(j)
      /\ IsFiniteSet(rows')
  BY <1>1 DEF RowsOf, CountInv
<1>7. RowsOf(k)' = R /\ ExtractPendingIDs(k)' = ExtractPendingIDs(k)
  <2>1. RowsOf(k)' = R
    BY <1>6
  <2> QED  BY <2>1 DEF ExtractPendingIDs, WithStatus
<1>8. /\ \A j \in JobIds \ {k} :
           jobs'[j] = jobs[j] /\ answers'[j] = answers[j] /\ RowsOf(j)' = RowsOf(j)
      /\ jobs'[k] \in {jobs[k], row}
  BY <1>1, <1>2, <1>6 DEF ImportInv, JobTables
<1>9. JobRight(k)'
  BY <1>1, <1>3, <1>4, <1>5, <1>7, <1>8 DEF JobRight
<1> QED  BY <1>1, <1>3, <1>6, <1>8, <1>9, CountStep

LEMMA CountInitHolds == ImportInit => CountInv
<1> SUFFICES ASSUME ImportInit PROVE CountInv
  OBVIOUS
<1>1. /\ rows = {} /\ jobs = [j \in JobIds |-> Null] /\ answers = [j \in JobIds |-> Null]
      /\ task = [h \in Importers |-> Null]
  BY DEF ImportInit
<1>2. IsFiniteSet(rows)
  BY <1>1, FS_EmptySet
<1> QED  BY <1>1, <1>2 DEF CountInv, JobRight

LEMMA CountStepHolds ==
  ImportInv /\ CountInv /\ [ImportNext]_allVars => CountInv'
<1> SUFFICES ASSUME ImportInv, CountInv, [ImportNext]_allVars PROVE CountInv'
  OBVIOUS
<1>1. CASE UNCHANGED importVars
  <2>1. UNCHANGED <<jobs, rows, step, task, answers>>
    BY <1>1 DEF importVars
  <2>2. \A j : RowsOf(j)' = RowsOf(j)
    BY <2>1 DEF RowsOf
  <2>3. ASSUME NEW j \in JobIds PROVE JobRight(j)'
    <3>1. RowsOf(j)' = RowsOf(j) /\ JobRight(j)
      BY <2>2 DEF CountInv
    <3>2. ExtractPendingIDs(j)' = ExtractPendingIDs(j)
      BY <3>1 DEF ExtractPendingIDs, WithStatus
    <3> QED  BY <2>1, <3>1, <3>2 DEF JobRight
  <2>4. ASSUME NEW h \in Importers, task'[h] # Null
        PROVE  (CountsFit(RowsOf(task[h].id), step[h], task[h]) /\ OpenJob(step[h], task[h]))'
    <3>1. RowsOf(task[h].id)' = RowsOf(task[h].id)
      BY <2>1 DEF RowsOf
    <3> QED  BY <2>1, <2>4, <3>1 DEF CountInv, OpenJob
  <2> QED  BY <2>1, <2>3, <2>4 DEF CountInv
<1>2. ASSUME NEW h \in Importers, ImportStep(h) PROVE CountInv'
  <2>1. CASE Die(h)
    <3>1. step[h] # "idle" /\ Proceed(h, "idle", Null) /\ UNCHANGED <<jobs, rows, answers>>
      BY <2>1 DEF Die, Leave
    <3> QED  BY <3>1, CountLocalStep
  <2> QED
    BY <1>2, <2>1, ImportCounts, CheckRecordCounts, DraftRecordCounts, SubmitRecordCounts,
       InsertRowCounts, CompleteJobCounts, FailJobCounts
    DEF ImportStep
<1> QED  BY <1>1, <1>2 DEF ImportNext, OtherStep, allVars

\* The counters fit the rows at every step.
THEOREM CountsInvariance == ImportSpec => []CountInv
<1> QED  BY CountInitHolds, CountStepHolds, ImportInvariance, PTL DEF ImportSpec

(* A completed job accounts for every record of its file, however many      *)
(* imports run and whatever the other requests do to their changes.         *)
THEOREM CompletedJobsAccount == ImportSpec => []CompletedAccounts
<1>1. CountInv => CompletedAccounts
  BY DEF CountInv, JobRight, Accounts, Numbered, CompletedAccounts, Numbers, Failed, Pending,
         WithStatus
<1> QED  BY <1>1, CountsInvariance, PTL

(* The partial counters of a failed job are off by one record at most, also *)
(* when an answer of the database was lost.                                 *)
THEOREM FailedJobsAreClose == ImportSpec => []FailedCountersClose
<1>1. CountInv => FailedCountersClose
  BY DEF CountInv, JobRight, Close, FailedCountersClose, Numbers, Failed, Pending, WithStatus
<1> QED  BY <1>1, CountsInvariance, PTL

(* GetJob extracts from the table the very list the import answered with.   *)
THEOREM AnswersMatchJobs == ImportSpec => []AnswerMatchesJob
<1>1. CountInv => AnswerMatchesJob
  BY DEF CountInv, JobRight, AnswerMatchesJob
<1> QED  BY <1>1, CountsInvariance, PTL

-----------------------------------------------------------------------------
(* The change an import has in hand                                         *)

\* From its draft to its row a change is the import's own.
InHand(s, t) == s \in {"find", "submit"} \/ Ahead(s, t)

\* The uploader may edit it in the meantime and nobody else, which its
\* draft version shows; no row names it yet.
HandFits(s, t) ==
  InHand(s, t) =>
    /\ t.change \in ChangeIds /\ changes[t.change] # Null
    /\ changes[t.change].submitted_by = t.job.uploaded_by
    /\ changes[t.change].draft_version = 1 =>
         /\ changes[t.change].payload = t.job.file[t.at].fields
         /\ s = "row" => changes[t.change].status # "draft"
    /\ \A r \in rows : r.change # t.change

\* No two imports have one change in hand.
HandsApart ==
  \A g, h \in Importers :
    g # h /\ InHand(step[g], task[g]) /\ InHand(step[h], task[h]) =>
      task[g].change # task[h].change

\* A dry run has no change, and a job keeps its uploader.
UploaderFits(t) ==
  /\ t.job.dry_run => t.change = Null
  /\ jobs[t.id].uploaded_by = t.job.uploaded_by

\* What PendingRowsAreSubmitted says of one row.
RowRight(r) ==
  r.status = "pending_review" =>
    /\ r.change # Null
    /\ changes[r.change].submitted_by = jobs[r.job].uploaded_by
    /\ \A q \in rows : q.change = r.change => q = r
    /\ changes[r.change].draft_version = 1 =>
         changes[r.change].status # "draft" /\ changes[r.change].payload = r.payload

HandInv ==
  /\ \A h \in Importers : task[h] # Null =>
       HandFits(step[h], task[h]) /\ UploaderFits(task[h])
  /\ HandsApart
  /\ \A r \in rows : r.change # Null => changes[r.change] # Null
  /\ \A r \in rows : RowRight(r)

\* A change is never removed and stays its author's; while its draft version
\* stays, its payload does too and it does not become a draft again.
KeptAs(old, new) ==
  /\ new # Null
  /\ new.submitted_by = old.submitted_by
  /\ new.draft_version >= old.draft_version
  /\ new.draft_version = old.draft_version =>
       new.payload = old.payload /\ (old.status # "draft" => new.status # "draft")

LEMMA ChangeKept ==
  ASSUME IInv, [Next]_vars, NEW c \in ChangeIds, changes[c] # Null
  PROVE  KeptAs(changes[c], changes'[c])
<1>1. changes[c] \in ChangeRow /\ changes[c].draft_version \in Nat
  BY DEF IInv, TypeOK, ChangeRow
<1>2. CASE changes'[c] = changes[c]
  BY <1>1, <1>2 DEF KeptAs
<1>3. CASE \E a \in Admins, action \in Actions, d \in DestIds \cup {Null},
             fields \in Inputs : CreateDraft(a, action, d, fields)
  BY <1>2, <1>3 DEF CreateDraft, IInv, TypeOK
<1>4. ASSUME NEW h \in Handlers, SaveDraft(h) PROVE KeptAs(changes[c], changes'[c])
  <2> DEFINE mine == req[h].row
             row  == [changes[c] EXCEPT
                        !.payload = mine.payload, !.draft_version = mine.draft_version,
                        !.status = mine.status, !.reviewed_by = mine.reviewed_by,
                        !.published_version = mine.published_version]
  <2>1. req[h].id \in ChangeIds /\ mine \in ChangeRow
    BY <1>4, HeldTyped DEF SaveDraft
  <2>2. \/ changes'[c] = changes[c]
        \/ changes'[c] = row /\ changes[c].draft_version = mine.draft_version - 1
    BY <1>4, <2>1 DEF SaveDraft, IInv, TypeOK
  <2>3. row \in ChangeRow
    BY <1>1, <2>1, SavedRowType
  <2>4. /\ row.submitted_by = changes[c].submitted_by
        /\ row.draft_version = mine.draft_version
    BY <1>1 DEF ChangeRow
  <2>5. row # Null /\ mine.draft_version \in Nat
    BY <2>1, <2>3, WorkflowAssumption DEF ChangeRow
  <2> HIDE DEF row, mine
  <2> QED  BY <1>1, <1>2, <2>2, <2>4, <2>5 DEF KeptAs
<1>5. ASSUME NEW h \in Handlers, MarkSubmitted(h) PROVE KeptAs(changes[c], changes'[c])
  <2> DEFINE row == [changes[c] EXCEPT !.status = "pending_review"]
  <2>1. req[h].id \in ChangeIds
    BY <1>5, HeldTyped DEF MarkSubmitted
  <2>2. changes'[c] = changes[c] \/ changes'[c] = row
    BY <1>5, <2>1 DEF MarkSubmitted, IInv, TypeOK
  <2>3. row \in ChangeRow
    BY <1>1 DEF ChangeRow, ChangeStatuses
  <2>4. /\ row.submitted_by = changes[c].submitted_by
        /\ row.draft_version = changes[c].draft_version
        /\ row.payload = changes[c].payload /\ row.status = "pending_review"
    BY <1>1 DEF ChangeRow
  <2>5. row # Null
    BY <2>3, WorkflowAssumption
  <2> HIDE DEF row
  <2> QED  BY <1>1, <1>2, <2>2, <2>4, <2>5 DEF KeptAs
<1>6. ASSUME NEW h \in Handlers, MarkApproved(h) \/ MarkRejected(h)
      PROVE  KeptAs(changes[c], changes'[c])
  <2>1. PICK s \in {"approved", "rejected"}, n \in Nat : SetStatus(h, s, n)
    <3>1. pc[h] = "approve" => out[h].row.version \in Nat
      BY DEF IInv, TypeOK, Publication, DestRow
    <3> QED  BY <1>6, <3>1 DEF MarkApproved, MarkRejected
  <2> DEFINE row == [changes[c] EXCEPT !.status = s, !.reviewed_by = req[h].actor,
                                       !.published_version = n]
  <2>2. req[h].id \in ChangeIds /\ req[h].actor \in Admins
    BY <1>6, HeldTyped DEF MarkApproved, MarkRejected
  <2>3. changes'[c] = changes[c] \/ changes'[c] = row
    BY <2>1, <2>2 DEF SetStatus, IInv, TypeOK
  <2>4. row \in ChangeRow
    BY <1>1, <2>2, DecidedRowType DEF ChangeStatuses
  <2>5. /\ row.submitted_by = changes[c].submitted_by
        /\ row.draft_version = changes[c].draft_version
        /\ row.payload = changes[c].payload /\ row.status = s
    BY <1>1 DEF ChangeRow
  <2>6. row # Null
    BY <2>4, WorkflowAssumption
  <2> HIDE DEF row
  <2> QED  BY <1>1, <1>2, <2>1, <2>3, <2>5, <2>6 DEF KeptAs
<1>7. CASE UNCHANGED changes
  BY <1>2, <1>7
<1>8. ASSUME NEW h \in Handlers, AuthorStep(h) PROVE KeptAs(changes[c], changes'[c])
  BY <1>4, <1>5, <1>7, <1>8
  DEF AuthorStep, OpenForm, CloseForm, UpdateDraft, UploadHeroImage,
      UploadGalleryImages, Upload, SubmitDraft, Begin, tables
<1>9. ASSUME NEW h \in Handlers, ReviewerStep(h) PROVE KeptAs(changes[c], changes'[c])
  BY <1>6, <1>7, <1>9
  DEF ReviewerStep, Approve, ApplyCreate, ApplyUpdate, ApplyArchive, ApplyHardDelete,
      RecordVersion, Reject, Begin, Publish, Refused, tables
<1>10. CASE \E h \in Handlers : Fail(h)
  BY <1>7, <1>10 DEF Fail, Refused, tables
<1>11. CASE UNCHANGED vars
  BY <1>7, <1>11 DEF vars
<1> QED  BY <1>3, <1>8, <1>9, <1>10, <1>11 DEF Next

\* Rows and hands that a step leaves alone stay right whatever it does to the
\* changes: a row it adds may only name a change its own import had in hand.
LEMMA HandStep ==
  ASSUME IInv, ImportInv, HandInv, [Next]_vars, NEW h, NEW s, NEW t,
         h \in Importers => Proceed(h, s, t),
         h \notin Importers => UNCHANGED <<step, task>>,
         \A j \in JobIds : jobs[j] # Null =>
           jobs'[j] # Null /\ jobs'[j].uploaded_by = jobs[j].uploaded_by,
         rows \subseteq rows',
         \A r \in rows' \ rows :
           /\ r.change # Null =>
                /\ h \in Importers /\ InHand(step[h], task[h]) /\ r.change = task[h].change
                /\ changes'[r.change] # Null
           /\ RowRight(r)',
         t # Null => /\ HandFits(s, t)' /\ UploaderFits(t)'
                     /\ InHand(s, t) => \/ changes[t.change] = Null
                                        \/ /\ h \in Importers /\ InHand(step[h], task[h])
                                           /\ t.change = task[h].change,
         t = Null => ~ InHand(s, t)
  PROVE  HandInv'
<1>1. /\ h \in Importers => step'[h] = s /\ task'[h] = t
      /\ \A g \in Importers \ {h} : step'[g] = step[g] /\ task'[g] = task[g]
  BY DEF ImportInv, TasksFit, Proceed
<1>2. \A g \in Importers : InHand(step[g], task[g]) =>
        /\ task[g] # Null /\ task[g] \in Task
        /\ task[g].change \in ChangeIds /\ changes[task[g].change] # Null
        /\ \A r \in rows : r.change # task[g].change
  <2>1. ASSUME NEW g \in Importers, InHand(step[g], task[g])
        PROVE  task[g] # Null /\ task[g] \in Task
    <3>1. step[g] # "idle"
      BY <2>1 DEF InHand, Ahead
    <3> QED  BY <3>1, ImportParts
  <2> QED  BY <2>1 DEF HandInv, HandFits
<1>3. \A c \in ChangeIds : changes[c] # Null => KeptAs(changes[c], changes'[c])
  BY ChangeKept
<1>4. ASSUME NEW g \in Importers, task'[g] # Null
      PROVE  (HandFits(step[g], task[g]) /\ UploaderFits(task[g]))'
  <2>1. CASE g = h
    BY <1>1, <1>4, <2>1 DEF HandFits, UploaderFits
  <2>2. CASE g # h
    <3>1. task'[g] = task[g] /\ step'[g] = step[g] /\ task[g] # Null
      BY <1>1, <1>4, <2>2
    <3>2. task[g] \in Task /\ task[g].id \in JobIds /\ jobs[task[g].id] # Null
      BY <3>1, TaskParts DEF ImportInv, TasksFit, JobsThere
    <3>3. HandFits(step[g], task[g]) /\ UploaderFits(task[g])
      BY <3>1 DEF HandInv
    <3>4. UploaderFits(task[g])'
      BY <3>1, <3>2, <3>3 DEF UploaderFits
    <3>5. ASSUME InHand(step[g], task[g]) PROVE HandFits(step[g], task[g])'
      <4>1. PICK c \in ChangeIds : c = task[g].change /\ changes[c] # Null
        BY <1>2, <3>5
      <4>2. KeptAs(changes[c], changes'[c])
        BY <1>3, <4>1
      <4>3. changes[c].draft_version \in Nat \ {0} /\ changes'[c].draft_version \in Nat \ {0}
        <5>1. TypeOK /\ TypeOK'
          BY StepInv DEF IInv
        <5>2. changes'[c] # Null
          BY <4>2 DEF KeptAs
        <5> QED  BY <4>1, <5>1, <5>2 DEF TypeOK, ChangeRow
      <4>4. \A r \in rows' : r.change # c
        <5>1. \A r \in rows : r.change # c
          BY <1>2, <3>5, <4>1
        <5>2. h \in Importers /\ InHand(step[h], task[h]) => task[h].change # c
          BY <2>2, <3>5, <4>1 DEF HandInv, HandsApart
        <5>3. c # Null
          BY TablesAssumption
        <5> QED  BY <5>1, <5>2, <5>3
      <4>5. /\ changes[c].submitted_by = task[g].job.uploaded_by
            /\ changes[c].draft_version = 1 =>
                 /\ changes[c].payload = task[g].job.file[task[g].at].fields
                 /\ step[g] = "row" => changes[c].status # "draft"
        BY <3>3, <3>5, <4>1 DEF HandFits
      <4>6. /\ changes'[c] # Null
            /\ changes'[c].submitted_by = task[g].job.uploaded_by
            /\ changes'[c].draft_version = 1 =>
                 /\ changes'[c].payload = task[g].job.file[task[g].at].fields
                 /\ step[g] = "row" => changes'[c].status # "draft"
        BY <4>2, <4>3, <4>5 DEF KeptAs
      <4> QED  BY <3>1, <4>1, <4>4, <4>6 DEF HandFits
    <3>6. ~ InHand(step[g], task[g]) => HandFits(step[g], task[g])'
      BY <3>1 DEF HandFits
    <3> QED  BY <3>4, <3>5, <3>6
  <2> QED  BY <2>1, <2>2
<1>5. HandsApart'
  <2>1. ASSUME NEW g \in Importers, g # h, h \in Importers, InHand(step[g], task[g]), InHand(s, t)
        PROVE  task[g].change # t.change
    <3>1. task[g].change \in ChangeIds /\ changes[task[g].change] # Null
      BY <1>2, <2>1
    <3>2. \/ changes[t.change] = Null
          \/ h \in Importers /\ InHand(step[h], task[h]) /\ t.change = task[h].change
      BY <2>1
    <3> QED  BY <2>1, <3>1, <3>2 DEF HandInv, HandsApart
  <2>2. ASSUME NEW f \in Importers, NEW g \in Importers, f # g,
               InHand(step'[f], task'[f]), InHand(step'[g], task'[g])
        PROVE  task'[f].change # task'[g].change
    <3>1. CASE f = h
      BY <1>1, <2>1, <2>2, <3>1
    <3>2. CASE g = h
      BY <1>1, <2>1, <2>2, <3>2
    <3>3. CASE f # h /\ g # h
      BY <1>1, <2>2, <3>3 DEF HandInv, HandsApart
    <3> QED  BY <3>1, <3>2, <3>3
  <2> QED  BY <2>2 DEF HandsApart, InHand, Ahead
<1>6. ASSUME NEW r \in rows PROVE (r.change # Null => changes'[r.change] # Null) /\ RowRight(r)'
  <2>1. r \in ImportRow /\ r.change \in ChangeIds \cup {Null} /\ r.job \in JobIds
    BY DEF ImportInv, JobTables, ImportRow
  <2>2. jobs[r.job] # Null /\ jobs'[r.job].uploaded_by = jobs[r.job].uploaded_by
    BY <2>1 DEF ImportInv, JobsThere
  <2>3. ASSUME r.change # Null
        PROVE  /\ KeptAs(changes[r.change], changes'[r.change])
               /\ changes[r.change] \in ChangeRow /\ changes'[r.change] \in ChangeRow
    <3>1. changes[r.change] # Null
      BY <2>3 DEF HandInv
    <3>2. KeptAs(changes[r.change], changes'[r.change])
      BY <1>3, <2>1, <2>3, <3>1
    <3>3. TypeOK /\ TypeOK'
      BY StepInv DEF IInv
    <3> QED  BY <2>1, <2>3, <3>1, <3>2, <3>3 DEF TypeOK, KeptAs
  <2>4. ASSUME r.status = "pending_review"
        PROVE  /\ r.change # Null
               /\ changes'[r.change].submitted_by = jobs'[r.job].uploaded_by
               /\ \A q \in rows' : q.change = r.change => q = r
               /\ changes'[r.change].draft_version = 1 =>
                    /\ changes'[r.change].status # "draft"
                    /\ changes'[r.change].payload = r.payload
    <3>1. /\ r.change # Null
          /\ changes[r.change].submitted_by = jobs[r.job].uploaded_by
          /\ \A q \in rows : q.change = r.change => q = r
          /\ changes[r.change].draft_version = 1 =>
               changes[r.change].status # "draft" /\ changes[r.change].payload = r.payload
      BY <2>4 DEF HandInv, RowRight
    <3>2. h \in Importers /\ InHand(step[h], task[h]) => task[h].change # r.change
      BY <1>2
    <3>3. \A q \in rows' : q.change = r.change => q = r
      BY <3>1, <3>2
    <3>4. changes[r.change].draft_version \in Nat \ {0}
          /\ changes'[r.change].draft_version \in Nat \ {0}
      BY <2>3, <3>1 DEF ChangeRow
    <3> QED  BY <2>2, <2>3, <3>1, <3>3, <3>4 DEF KeptAs
  <2> QED  BY <2>3, <2>4 DEF KeptAs, RowRight
<1>7. ASSUME NEW r \in rows' PROVE (r.change # Null => changes'[r.change] # Null) /\ RowRight(r)'
  BY <1>6, <1>7
<1> QED  BY <1>4, <1>5, <1>7 DEF HandInv

\* A step that adds no row, after which the import has no change in hand.
LEMMA EmptyHandStep ==
  ASSUME IInv, ImportInv, HandInv, [ImportNext]_allVars, NEW h \in Importers,
         NEW s, NEW t, Proceed(h, s, t), ~ InHand(s, t),
         \A j \in JobIds : jobs[j] # Null =>
           jobs'[j] # Null /\ jobs'[j].uploaded_by = jobs[j].uploaded_by,
         UNCHANGED rows,
         t # Null => UploaderFits(t)'
  PROVE  HandInv'
<1>1. rows \subseteq rows' /\ rows' \ rows = {}
  OBVIOUS
<1>2. HandFits(s, t)'
  BY DEF HandFits
<1> QED  BY <1>1, <1>2, ImportNextRefines, HandStep

LEMMA ImportHands ==
  ASSUME IInv, ImportInv, HandInv, [ImportNext]_allVars, NEW h \in Importers,
         NEW a \in Admins, NEW sheet \in Sheets, NEW dry \in BOOLEAN, Import(h, a, sheet, dry)
  PROVE  HandInv'
<1> DEFINE row  == [uploaded_by |-> a, status |-> "processing", dry_run |-> dry,
                    file |-> ParseCSV(sheet), processed_rows |-> 0, rows_failed |-> 0,
                    changes_created |-> 0]
           T(j) == [id |-> j, job |-> row, at |-> 1, seen |-> {}, ok |-> TRUE,
                    change |-> Null, pending |-> <<>>]
<1>1. PICK k \in JobIds :
        /\ jobs[k] = Null
        /\ jobs' = [jobs EXCEPT ![k] = row]
        /\ Proceed(h, "check", T(k))
        /\ UNCHANGED <<rows, answers>>
  BY DEF Import, Put
<1> DEFINE t == T(k)
<1>2. /\ t.id = k /\ t.change = Null /\ t.job.uploaded_by = a /\ row.uploaded_by = a
  OBVIOUS
<1> HIDE DEF t, T, row
<1>3. jobs'[k] = row /\ \A j \in JobIds \ {k} : jobs'[j] = jobs[j]
  BY <1>1 DEF ImportInv, JobTables
<1>4. UploaderFits(t)'
  BY <1>2, <1>3 DEF UploaderFits
<1>5. ~ InHand("check", t)
  BY DEF InHand, Ahead
<1>6. Proceed(h, "check", t)
  BY <1>1 DEF t
<1> QED  BY <1>1, <1>3, <1>4, <1>5, <1>6, EmptyHandStep

\* What the invariants say of the hand of one import.
LEMMA HandParts ==
  ASSUME ImportInv, HandInv, NEW h \in Importers, step[h] # "idle"
  PROVE  /\ task[h] \in Task /\ task[h] # Null /\ task[h].id \in JobIds
         /\ Fit(step[h], task[h]) /\ HandFits(step[h], task[h]) /\ UploaderFits(task[h])
         /\ jobs[task[h].id] # Null
BY ImportParts, TaskParts DEF HandInv

LEMMA CheckRecordHands ==
  ASSUME IInv, ImportInv, HandInv, [ImportNext]_allVars, NEW h \in Importers, CheckRecord(h)
  PROVE  HandInv'
<1> DEFINE t == task[h]
<1>1. PICK good, seen :
        /\ good \in BOOLEAN /\ step[h] = "check"
        /\ \/ Proceed(h, IF good /\ ~ t.job.dry_run THEN "draft" ELSE "row",
                      [t EXCEPT !.ok = good, !.change = Null, !.seen = seen])
           \/ Proceed(h, "fail", t)
        /\ UNCHANGED <<jobs, rows, answers>>
  BY DEF CheckRecord
<1>2. t \in Task /\ UploaderFits(t)
  BY <1>1, HandParts
<1>3. PICK u, s :
        /\ Proceed(h, s, u) /\ ~ InHand(s, u)
        /\ u.id = t.id /\ u.job = t.job /\ u.change \in {t.change, Null}
  <2> DEFINE v == [t EXCEPT !.ok = good, !.change = Null, !.seen = seen]
             n == IF good /\ ~ t.job.dry_run THEN "draft" ELSE "row"
  <2>1. v.id = t.id /\ v.job = t.job /\ v.change = Null /\ v.ok = good
    BY <1>2 DEF Task
  <2>2. ~ InHand("fail", t) /\ ~ InHand(n, v)
    BY <2>1 DEF InHand, Ahead
  <2> QED  BY <1>1, <2>1, <2>2
<1>4. UploaderFits(u)'
  BY <1>1, <1>2, <1>3 DEF UploaderFits
<1> QED  BY <1>1, <1>3, <1>4, EmptyHandStep

LEMMA DraftRecordHands ==
  ASSUME IInv, ImportInv, HandInv, [ImportNext]_allVars, NEW h \in Importers, DraftRecord(h)
  PROVE  HandInv'
<1> DEFINE t == task[h]
<1>1. step[h] = "draft" /\ UNCHANGED <<jobs, rows, answers>>
  BY DEF DraftRecord
<1>2. /\ t \in Task /\ UploaderFits(t) /\ ~ t.job.dry_run /\ t.at <= Len(t.job.file)
  BY <1>1, HandParts, ImportParts DEF Fit, AtRecord
<1>3. CASE Proceed(h, "row", [t EXCEPT !.ok = FALSE])
  <2>1. PICK u : u = [t EXCEPT !.ok = FALSE]
    OBVIOUS
  <2>2. u.id = t.id /\ u.job = t.job /\ u.change = t.change /\ u.ok = FALSE
    BY <1>2, <2>1 DEF Task
  <2>3. ~ InHand("row", u) /\ UploaderFits(u)'
    BY <1>1, <1>2, <2>2 DEF InHand, Ahead, UploaderFits
  <2> QED  BY <1>1, <1>3, <2>1, <2>3, EmptyHandStep
<1>4. CASE /\ CreateDraft(t.job.uploaded_by, "create", Null, At(h).fields)
           /\ \E c \in ChangeIds : /\ changes[c] = Null /\ changes'[c] # Null
                                   /\ Proceed(h, "find", [t EXCEPT !.change = c])
  <2>1. PICK c \in ChangeIds : /\ changes[c] = Null /\ changes'[c] # Null
                               /\ Proceed(h, "find", [t EXCEPT !.change = c])
    BY <1>4
  <2> DEFINE row == [destination_id |-> Null, action |-> "create", payload |-> At(h).fields,
                     status |-> "draft", draft_version |-> 1,
                     submitted_by |-> t.job.uploaded_by, reviewed_by |-> Null,
                     published_version |-> 0]
  <2>2. changes'[c] = row
    <3>1. PICK b \in ChangeIds : changes[b] = Null /\ changes' = [changes EXCEPT ![b] = row]
      BY <1>4 DEF CreateDraft
    <3> HIDE DEF row
    <3> QED  BY <2>1, <3>1 DEF IInv, TypeOK
  <2>3. PICK u : u = [t EXCEPT !.change = c]
    OBVIOUS
  <2>4. u.id = t.id /\ u.job = t.job /\ u.change = c /\ u.at = t.at
    BY <1>2, <2>3 DEF Task
  <2>5. \A r \in rows : r.change # c
    BY <2>1, TablesAssumption DEF HandInv
  <2>6. HandFits("find", u)'
    BY <1>1, <2>1, <2>2, <2>4, <2>5 DEF HandFits, At
  <2>7. UploaderFits(u)'
    BY <1>1, <1>2, <2>4 DEF UploaderFits
  <2>8. Proceed(h, "find", u) /\ changes[u.change] = Null /\ u # Null
    BY <1>2, <2>1, <2>3, <2>4, TaskParts DEF Task
  <2>9. rows \subseteq rows' /\ rows' \ rows = {}
    BY <1>1
  <2> QED  BY <1>1, <2>6, <2>7, <2>8, <2>9, ImportNextRefines, HandStep
<1> QED  BY <1>3, <1>4 DEF DraftRecord

LEMMA FindDraftHands ==
  ASSUME IInv, ImportInv, HandInv, [ImportNext]_allVars, NEW h \in Importers, FindDraft(h)
  PROVE  HandInv'
<1>1. PICK t : t = task[h]
  OBVIOUS
<1>2. /\ step[h] = "find" /\ UNCHANGED <<jobs, rows, answers>> /\ UNCHANGED changes
      /\ \/ Proceed(h, "submit", t)
         \/ Proceed(h, "row", [t EXCEPT !.ok = FALSE, !.change = Null])
  BY <1>1 DEF FindDraft, SubmitDraft, Begin, tables, vars
<1>3. t \in Task /\ t # Null /\ UploaderFits(t) /\ HandFits("find", t)
  BY <1>1, <1>2, HandParts
<1>4. CASE Proceed(h, "submit", t)
  <2>1. HandFits("submit", t)' /\ UploaderFits(t)'
    BY <1>2, <1>3 DEF HandFits, InHand, UploaderFits
  <2>2. InHand(step[h], task[h]) /\ t.change = task[h].change
    BY <1>1, <1>2 DEF InHand
  <2>3. rows \subseteq rows' /\ rows' \ rows = {}
    BY <1>2
  <2> QED  BY <1>2, <1>3, <1>4, <2>1, <2>2, <2>3, ImportNextRefines, HandStep
<1>5. CASE Proceed(h, "row", [t EXCEPT !.ok = FALSE, !.change = Null])
  <2>1. PICK u : u = [t EXCEPT !.ok = FALSE, !.change = Null]
    OBVIOUS
  <2>2. u.id = t.id /\ u.job = t.job /\ u.change = Null /\ u.ok = FALSE
    BY <1>3, <2>1 DEF Task
  <2>3. ~ InHand("row", u) /\ UploaderFits(u)'
    BY <1>2, <1>3, <2>2 DEF InHand, Ahead, UploaderFits
  <2> QED  BY <1>2, <1>5, <2>1, <2>3, EmptyHandStep
<1> QED  BY <1>2, <1>4, <1>5

LEMMA SubmitRecordHands ==
  ASSUME IInv, ImportInv, HandInv, [ImportNext]_allVars, NEW h \in Importers, SubmitRecord(h)
  PROVE  HandInv'
<1>1. PICK t : t = task[h]
  OBVIOUS
<1> DEFINE v == [t EXCEPT !.ok = FALSE, !.change = Null]
<1>2. /\ step[h] = "submit" /\ UNCHANGED <<jobs, rows, answers>>
      /\ \/ Proceed(h, "row", v)
         \/ /\ Proceed(h, "row", Submitted(t)) /\ MarkSubmitted(h)
            /\ Editable(changes[t.change])
  BY <1>1 DEF SubmitRecord
<1>3. /\ t \in Task /\ t # Null /\ UploaderFits(t) /\ HandFits("submit", t)
      /\ t.change \in ChangeIds /\ ~ t.job.dry_run /\ InHand("submit", t)
  BY <1>1, <1>2, HandParts DEF Fit, InHand
<1>4. CASE Proceed(h, "row", v)
  <2>1. PICK u : u = v
    OBVIOUS
  <2>2. u.id = t.id /\ u.job = t.job /\ u.change = Null /\ u.ok = FALSE
    BY <1>3, <2>1 DEF Task
  <2>3. ~ InHand("row", u) /\ UploaderFits(u)'
    BY <1>2, <1>3, <2>2 DEF InHand, Ahead, UploaderFits
  <2> QED  BY <1>2, <1>4, <2>1, <2>3, EmptyHandStep
<1>5. CASE /\ Proceed(h, "row", Submitted(t)) /\ MarkSubmitted(h)
           /\ Editable(changes[t.change])
  <2>1. PICK u : u = Submitted(t)
    OBVIOUS
  <2>2. /\ u \in Task /\ u # Null /\ u.id = t.id /\ u.change = t.change /\ u.at = t.at
        /\ u.job.file = t.job.file /\ u.job.dry_run = t.job.dry_run
        /\ u.job.uploaded_by = t.job.uploaded_by
    BY <1>3, <2>1, SubmittedTyped, SubmittedCounts, TaskParts
  <2>3. req[h].id = t.change
    BY <1>1, <1>2 DEF ImportInv, WaitsOK
  <2>4. changes[t.change] # Null /\ changes[t.change] \in ChangeRow
    BY <1>3 DEF HandFits, IInv, TypeOK
  <2>5. changes'[t.change] = [changes[t.change] EXCEPT !.status = "pending_review"]
    BY <1>3, <1>5, <2>3 DEF MarkSubmitted, IInv, TypeOK
  <2>6. /\ changes'[t.change].submitted_by = changes[t.change].submitted_by
        /\ changes'[t.change].draft_version = changes[t.change].draft_version
        /\ changes'[t.change].payload = changes[t.change].payload
        /\ changes'[t.change].status # "draft"
    BY <2>4, <2>5 DEF ChangeRow
  <2>7. changes'[t.change] # Null
    BY <1>3, <2>4, ImportNextRefines, ChangeKept DEF KeptAs
  <2>8. HandFits("row", u)'
    BY <1>2, <1>3, <2>2, <2>6, <2>7 DEF HandFits
  <2>9. UploaderFits(u)'
    BY <1>2, <1>3, <2>2 DEF UploaderFits
  <2>10. InHand(step[h], task[h]) /\ u.change = task[h].change
    BY <1>1, <1>2, <1>3, <2>2
  <2>11. rows \subseteq rows' /\ rows' \ rows = {}
    BY <1>2
  <2> QED  BY <1>2, <1>5, <2>1, <2>2, <2>8, <2>9, <2>10, <2>11, ImportNextRefines, HandStep
<1> QED  BY <1>2, <1>4, <1>5

LEMMA InsertRowHands ==
  ASSUME IInv, ImportInv, HandInv, [ImportNext]_allVars, NEW h \in Importers, InsertRow(h)
  PROVE  HandInv'
<1>1. PICK t : t = task[h]
  OBVIOUS
<1>2. PICK new : new = NextRow(t)
  OBVIOUS
<1>3. /\ step[h] = "row" /\ UNCHANGED <<jobs, answers>> /\ UNCHANGED changes
      /\ rows' \in {rows, rows \cup {new}}
      /\ \/ Proceed(h, IF MoreRecords(t) THEN "check" ELSE "finish", Processed(t))
         \/ Proceed(h, "fail", RowCounted(t))
  BY <1>1, <1>2 DEF InsertRow, vars, RowOf, RowNumber, NextRow, At
<1>4. /\ t \in Task /\ t # Null /\ UploaderFits(t) /\ HandFits("row", t)
      /\ t.id \in JobIds /\ jobs[t.id] # Null
  BY <1>1, <1>3, HandParts
<1>5. PICK u, s : /\ Proceed(h, s, u) /\ u.id = t.id /\ u.change = t.change
                  /\ u.job.dry_run = t.job.dry_run
                  /\ u.job.uploaded_by = t.job.uploaded_by
                  /\ s \in {"check", "finish", "fail"}
  <2>1. /\ Processed(t).id = t.id /\ Processed(t).change = t.change
        /\ Processed(t).job.dry_run = t.job.dry_run
        /\ Processed(t).job.uploaded_by = t.job.uploaded_by
    BY <1>4, ProcessedTyped, ProcessedCounts
  <2>2. /\ RowCounted(t).id = t.id /\ RowCounted(t).change = t.change
        /\ RowCounted(t).job.dry_run = t.job.dry_run
        /\ RowCounted(t).job.uploaded_by = t.job.uploaded_by
    BY <1>4, RowCountedTyped, RowCountedCounts
  <2> QED  BY <1>3, <2>1, <2>2
<1>6. ~ InHand(s, u) /\ HandFits(s, u)' /\ UploaderFits(u)'
  BY <1>3, <1>4, <1>5 DEF InHand, Ahead, HandFits, UploaderFits
<1>7. /\ new.job = t.id /\ new.status = RowStatus(t) /\ new.payload = t.job.file[t.at].fields
      /\ new.change = IF t.ok THEN t.change ELSE Null
  BY <1>2 DEF NextRow
<1>8. /\ new.change # Null => InHand("row", t) /\ new.change = t.change
      /\ new.status = "pending_review" => InHand("row", t) /\ new.change = t.change
  BY <1>4, <1>7 DEF UploaderFits, InHand, Ahead, RowStatus
<1>9. ASSUME InHand("row", t)
      PROVE  /\ t.change # Null /\ changes'[t.change] # Null
             /\ changes'[t.change].submitted_by = jobs'[t.id].uploaded_by
             /\ \A q \in rows : q.change # t.change
             /\ changes'[t.change].draft_version = 1 =>
                  /\ changes'[t.change].status # "draft"
                  /\ changes'[t.change].payload = new.payload
  BY <1>3, <1>4, <1>7, <1>9, TablesAssumption DEF HandFits, UploaderFits
<1>10. RowRight(new)'
  <2>1. ASSUME new.status = "pending_review"
        PROVE  \A q \in rows' : q.change = new.change => q = new
    BY <1>3, <1>8, <1>9, <2>1
  <2> QED  BY <1>7, <1>8, <1>9, <2>1 DEF RowRight
<1>11. /\ rows \subseteq rows'
       /\ \A r \in rows' \ rows :
            /\ r.change # Null =>
                 /\ h \in Importers /\ InHand(step[h], task[h]) /\ r.change = task[h].change
                 /\ changes'[r.change] # Null
            /\ RowRight(r)'
  BY <1>1, <1>3, <1>8, <1>9, <1>10
<1> QED  BY <1>3, <1>5, <1>6, <1>11, ImportNextRefines, HandStep

LEMMA JobHands ==
  ASSUME IInv, ImportInv, HandInv, [ImportNext]_allVars, NEW h \in Importers,
         CompleteJob(h) \/ FailJob(h) \/ Die(h)
  PROVE  HandInv'
<1>1. PICK t : t = task[h]
  OBVIOUS
<1>2. PICK row : \E status \in {"completed", "failed"} : row = [t.job EXCEPT !.status = status]
  OBVIOUS
<1>3. /\ step[h] # "idle" /\ UNCHANGED rows
      /\ t \in Task /\ UploaderFits(t) /\ t.id \in JobIds /\ jobs[t.id] # Null
  BY <1>1, HandParts DEF CompleteJob, FailJob, Die
<1>4. \A status \in {"completed", "failed"} :
        LET r == [t.job EXCEPT !.status = status]
        IN r # Null /\ r.uploaded_by = t.job.uploaded_by /\ r.dry_run = t.job.dry_run
  <2> SUFFICES ASSUME NEW status \in {"completed", "failed"}
               PROVE  LET r == [t.job EXCEPT !.status = status]
                      IN r # Null /\ r.uploaded_by = t.job.uploaded_by
                         /\ r.dry_run = t.job.dry_run
    OBVIOUS
  <2>1. [t.job EXCEPT !.status = status] \in JobRow
    BY <1>3, TaskParts DEF JobRow
  <2> QED  BY <1>3, <2>1, TaskParts, FilesAssumption DEF JobRow
<1>5. \/ jobs' = jobs
      \/ \E status \in {"completed", "failed"} :
           jobs' = [jobs EXCEPT ![t.id] = [t.job EXCEPT !.status = status]]
  BY <1>1 DEF CompleteJob, FailJob, Die, Put
<1>6. \A j \in JobIds : jobs[j] # Null =>
        jobs'[j] # Null /\ jobs'[j].uploaded_by = jobs[j].uploaded_by
  BY <1>3, <1>4, <1>5 DEF ImportInv, JobTables, UploaderFits
<1>7. CASE Leave(h)
  <2>1. Proceed(h, "idle", Null) /\ ~ InHand("idle", Null)
    BY <1>7 DEF Leave, InHand, Ahead
  <2> QED  BY <1>3, <1>6, <2>1, EmptyHandStep
<1>8. CASE Proceed(h, "fail", [t EXCEPT !.job = [t.job EXCEPT !.status = "completed"]])
  <2>1. PICK u : u = [t EXCEPT !.job = [t.job EXCEPT !.status = "completed"]]
    OBVIOUS
  <2>2. /\ u.id = t.id /\ u.change = t.change /\ u.job.uploaded_by = t.job.uploaded_by
        /\ u.job.dry_run = t.job.dry_run
    BY <1>3, <1>4, <2>1 DEF Task
  <2>3. ~ InHand("fail", u) /\ UploaderFits(u)'
    BY <1>3, <1>6, <2>2 DEF InHand, Ahead, UploaderFits
  <2> QED  BY <1>3, <1>6, <1>8, <2>1, <2>3, EmptyHandStep
<1> QED  BY <1>1, <1>7, <1>8 DEF CompleteJob, FailJob, Die

LEMMA OtherHands ==
  ASSUME IInv, ImportInv, HandInv, [ImportNext]_allVars, UNCHANGED importVars
  PROVE  HandInv'
<1>1. UNCHANGED <<jobs, rows, step, task>>
  BY DEF importVars
<1>2. PICK h : h \notin Importers  \* any value will do, and no set has them all
  <2> DEFINE R == {x \in Importers : x \notin x}
  <2>1. R \notin Importers
    OBVIOUS
  <2> QED  BY <2>1
<1>3. rows \subseteq rows' /\ rows' \ rows = {} /\ ~ InHand("idle", Null)
  BY <1>1 DEF InHand, Ahead
<1>4. \A j \in JobIds : jobs[j] # Null =>
        jobs'[j] # Null /\ jobs'[j].uploaded_by = jobs[j].uploaded_by
  BY <1>1
<1> QED  BY <1>1, <1>2, <1>3, <1>4, ImportNextRefines, HandStep

LEMMA HandInitHolds == ImportInit => HandInv
BY DEF ImportInit, HandInv, HandsApart, InHand, Ahead

LEMMA HandStepHolds ==
  IInv /\ ImportInv /\ HandInv /\ [ImportNext]_allVars => HandInv'
<1> SUFFICES ASSUME IInv, ImportInv, HandInv, [ImportNext]_allVars PROVE HandInv'
  OBVIOUS
<1>1. CASE UNCHANGED importVars
  BY <1>1, OtherHands
<1>2. ASSUME NEW h \in Importers, ImportStep(h) PROVE HandInv'
  BY <1>2, ImportHands, CheckRecordHands, DraftRecordHands, FindDraftHands,
     SubmitRecordHands, InsertRowHands, JobHands
  DEF ImportStep
<1> QED  BY <1>1, <1>2 DEF ImportNext, OtherStep, allVars

\* The change in hand stays the import's own at every step.
THEOREM HandsInvariance == ImportSpec => []HandInv
<1> QED  BY HandInitHolds, HandStepHolds, ImportInvariance, PTL DEF ImportSpec

(* Whatever the other requests do to the changes of an import, a row that   *)
(* reports a pending review names one of the uploader's own that no other   *)
(* row names, submitted as the record has it unless its draft was edited.   *)
THEOREM PendingRowsSubmitted == ImportSpec => []PendingRowsAreSubmitted
<1>1. HandInv => PendingRowsAreSubmitted
  BY DEF HandInv, RowRight, PendingRowsAreSubmitted
<1> QED  BY <1>1, HandsInvariance, PTL
=============================================================================
