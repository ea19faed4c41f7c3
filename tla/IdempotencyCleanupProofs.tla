----------------------- MODULE IdempotencyCleanupProofs -----------------------
(***************************************************************************)
(* The cleanup job, running beside the API, does to the table only what    *)
(* Idempotency allows; so everything IdempotencyProofs establishes holds   *)
(* with the job running, whatever the batch size and the cap on batches.   *)
(***************************************************************************)
EXTENDS IdempotencyCleanup, IdempotencyProofs, FiniteSetTheorems

\* What the job has read stays true of the rows that are still there: an id
\* never comes back with a later expiry.
JobInv ==
  /\ job.step \in {"idle", "select", "delete"}
  /\ job.before \in Nat /\ job.before <= clock
  /\ job.ids \subseteq Requests
  /\ \A i \in job.ids : computeExpiry(now[i]) < job.before /\ pc[i] \notin Early

\* An idle job knows no rows.
LEMMA JobInit == CInit => JobInv
  BY DEF CInit, Init, JobInv, IdleJob

\* A step of the service leaves what the job has read true.
LEMMA ServiceKeepsJob ==
  ASSUME IInv, JobInv, Next, UNCHANGED job
  PROVE  JobInv'
  <1>1. TypeOK
    BY DEF IInv
  <1>2. ASSUME NEW r \in Requests, Serve(r) \/ Crash(r)
        PROVE  JobInv'
    BY <1>1, <1>2, Frame, OwnProgress DEF JobInv
  <1>3. CASE Tick
    BY <1>1, <1>3 DEF Tick, JobInv, TypeOK
  <1>4. ASSUME NEW ks \in SUBSET Keys, PurgeExpired(ks)
        PROVE  JobInv'
    BY <1>4 DEF PurgeExpired, JobInv
  <1>5. QED
    BY <1>2, <1>3, <1>4 DEF Next

\* What findMany returns are ids of expired rows.
LEMMA BatchExpired ==
  ASSUME IInv, JobInv, NEW ids \in Batches
  PROVE  /\ ids \subseteq Requests
         /\ \A i \in ids : computeExpiry(now[i]) < job.before /\ pc[i] \notin Early
  <1>1. \A i \in ids : i \in Requests /\ table[KeyOf[i]].id = i
                       /\ table[KeyOf[i]].expiresAt < job.before
    BY DEF Batches, ExpiredIds, OwnsRow, RowOf
  <1>2. ASSUME NEW i \in ids
        PROVE  computeExpiry(now[i]) < job.before /\ pc[i] \notin Early
    <2>1. KeyOf[i] \in Keys /\ i \in Requests
      BY <1>1, IdempotencyAssumption
    <2>2. table[KeyOf[i]] # NoRow
      BY <1>1, <2>1, RowFacts DEF IInv
    <2>3. QED
      BY <1>1, <2>1, <2>2 DEF IInv, RowsOfCreators
  <1>3. QED
    BY <1>1, <1>2

\* The deleteMany removes rows whose time is over.
LEMMA DeleteIsPurge ==
  ASSUME IInv, JobInv, JobDelete
  PROVE  PurgeExpired({k \in Keys : table[k].id \in job.ids})
  <1> DEFINE hit == {k \in Keys : table[k].id \in job.ids}
  <1>1. \A k \in hit : table[k] # NoRow /\ table[k].expiresAt < clock
    <2> SUFFICES ASSUME NEW k \in hit
                 PROVE  table[k] # NoRow /\ table[k].expiresAt < clock
      OBVIOUS
    <2>1. k \in Keys /\ TypeOK /\ table[k].id \in Requests
      BY DEF IInv, JobInv
    <2>2. table[k] # NoRow
      BY <2>1, RowFacts
    <2>3. table[k].expiresAt < job.before
      BY <2>1, <2>2 DEF IInv, RowsOfCreators, JobInv
    <2>4. table[k].expiresAt \in Nat /\ clock \in Nat /\ job.before \in Nat
          /\ job.before <= clock
      BY <2>1, RowFacts DEF TypeOK, JobInv
    <2>5. QED
      BY <2>2, <2>3, <2>4
  <1>2. QED
    BY <1>1 DEF JobDelete, PurgeExpired

\* Every step keeps the job's invariant and is a step of the service.
LEMMA JobStep ==
  IInv /\ JobInv /\ [CNext]_cvars => [Next]_vars /\ JobInv'
  <1> SUFFICES ASSUME IInv, JobInv, [CNext]_cvars
               PROVE  [Next]_vars /\ JobInv'
    OBVIOUS
  <1>1. CASE (\E r \in Requests : Serve(r) \/ Crash(r)) /\ UNCHANGED job
    BY <1>1, ServiceKeepsJob DEF Next
  <1>2. CASE Tick /\ UNCHANGED job
    BY <1>2, ServiceKeepsJob DEF Next
  <1>3. ASSUME NEW dryRun \in BOOLEAN, JobStart(dryRun)
        PROVE  [Next]_vars /\ JobInv'
    <2>1. /\ job'.step = "select"
          /\ job'.before = clock
          /\ job'.ids = {}
          /\ UNCHANGED vars
      BY <1>3 DEF JobStart, IdleJob
    <2>2. QED
      BY <2>1 DEF JobInv, vars, IInv, TypeOK
  <1>4. CASE JobSelect
    <2>1. PICK ids \in Batches :
            job' = [job EXCEPT !.batches = @ + 1,
                               !.found = @ + Cardinality(ids),
                               !.ids = IF job.dryRun THEN {} ELSE ids,
                               !.step = IF job.dryRun THEN "select" ELSE "delete"]
      BY <1>4 DEF JobSelect
    <2>2. QED
      BY <1>4, <2>1, BatchExpired DEF JobSelect, JobInv, vars
  <1>5. CASE JobDelete
    <2>1. {k \in Keys : table[k].id \in job.ids} \in SUBSET Keys
      OBVIOUS
    <2>2. Next
      BY <1>5, <2>1, DeleteIsPurge DEF Next
    <2>3. JobInv'
      BY <1>5 DEF JobDelete, JobInv
    <2>4. QED
      BY <2>2, <2>3
  <1>6. CASE JobDone
    BY <1>6 DEF JobDone, JobInv, IdleJob, IInv, TypeOK, vars
  <1>7. CASE JobFails
    BY <1>7 DEF JobFails, JobInv, IdleJob, IInv, TypeOK, vars
  <1>8. CASE UNCHANGED cvars
    BY <1>8 DEF cvars, vars, JobInv
  <1>9. QED
    BY <1>1, <1>2, <1>3, <1>4, <1>5, <1>6, <1>7, <1>8 DEF CNext

\* The deleteMany of ids read earlier never hits a row that the API created
\* for the same key in the meantime: the API and the job together refine
\* Idempotency, and with it the promise of ReplayStore.
THEOREM CleanupIsSafe == CSpec => RefinesService
  <1>1. CInit => Init /\ IInv /\ JobInv
    BY JobInit, IInvInit DEF CInit
  <1>2. IInv /\ JobInv /\ [CNext]_cvars => [Next]_vars /\ IInv' /\ JobInv'
    BY JobStep, IInvStep
  <1>3. QED
    BY <1>1, <1>2, PTL DEF CSpec, Spec, RefinesService

-----------------------------------------------------------------------------
(***************************************************************************)
(* What the job counts.  The table holds finitely many rows at any time,   *)
(* whatever the set of requests, so a batch has a size.                    *)
(***************************************************************************)
Rows == {k \in Keys : table[k] # NoRow}

FiniteTable == IsFiniteSet(Rows)

\* One statement of the service adds one row at most.
LEMMA FiniteTableStep ==
  ASSUME IInv, FiniteTable, [Next]_vars
  PROVE  FiniteTable'
  <1>1. ASSUME NEW r \in Requests, Serve(r) \/ Crash(r)
        PROVE  FiniteTable'
    <2>1. Rows' \subseteq Rows \cup {KeyOf[r]}
      BY <1>1, Frame DEF IInv, Rows
    <2>2. IsFiniteSet(Rows \cup {KeyOf[r]})
      BY FS_AddElement DEF FiniteTable
    <2>3. QED
      BY <2>1, <2>2, FS_Subset DEF FiniteTable
  <1>2. CASE Tick \/ UNCHANGED vars
    BY <1>2 DEF Tick, vars, FiniteTable, Rows
  <1>3. ASSUME NEW ks \in SUBSET Keys, PurgeExpired(ks)
        PROVE  FiniteTable'
    <2>1. Rows' \subseteq Rows
      BY <1>3 DEF PurgeExpired, Rows
    <2>2. QED
      BY <2>1, FS_Subset DEF FiniteTable
  <1>4. QED
    BY <1>1, <1>2, <1>3 DEF Next

\* Requests that own a row are as finitely many as the rows.
LEMMA OwnersFinite ==
  ASSUME IInv, FiniteTable, NEW ids \in SUBSET Requests, \A i \in ids : OwnsRow(i)
  PROVE  IsFiniteSet(ids) /\ Cardinality(ids) \in Nat
  <1> DEFINE key == [i \in ids |-> KeyOf[i]]
  <1>1. \A i \in ids : KeyOf[i] \in Rows /\ table[KeyOf[i]].id = i
    BY IdempotencyAssumption, RowFacts DEF IInv, OwnsRow, RowOf, Rows
  <1>2. key \in Injection(ids, Rows)
    BY <1>1 DEF Injection, IsInjective
  <1> HIDE DEF key
  <1>3. QED
    BY <1>2, FS_Injection, FS_CardinalityType DEF FiniteTable

\* The deleteMany finds at most one row for each id it was given.
LEMMA HitsAreIds ==
  ASSUME IInv, FiniteTable, JobInv, IsFiniteSet(job.ids)
  PROVE  LET hit == {k \in Keys : table[k].id \in job.ids}
         IN  Cardinality(hit) \in Nat /\ Cardinality(hit) <= Cardinality(job.ids)
  <1> DEFINE hit == {k \in Keys : table[k].id \in job.ids}
             owner == [k \in hit |-> table[k].id]
  <1>1. \A k \in hit : table[k].id \in job.ids /\ KeyOf[table[k].id] = k
    BY RowFacts DEF IInv, JobInv, RowsOfCreators
  <1>2. owner \in Injection(hit, job.ids)
    BY <1>1 DEF Injection, IsInjective
  <1> HIDE DEF owner, hit
  <1>3. IsFiniteSet(hit) /\ Cardinality(hit) <= Cardinality(job.ids)
    BY <1>2, FS_Injection
  <1>4. Cardinality(hit) \in Nat
    BY <1>3, FS_CardinalityType
  <1>5. QED
    BY <1>3, <1>4 DEF hit

\* The ids of a batch are finitely many and belong to rows.
LEMMA BatchFinite ==
  ASSUME IInv, FiniteTable, NEW ids \in Batches
  PROVE  /\ ids \in SUBSET Requests
         /\ \A i \in ids : OwnsRow(i)
         /\ IsFiniteSet(ids)
         /\ Cardinality(ids) \in Nat
  <1>1. ids \in SUBSET Requests /\ \A i \in ids : OwnsRow(i)
    BY DEF Batches, ExpiredIds
  <1>2. QED
    BY <1>1, OwnersFinite

\* Ids are held between the findMany and the deleteMany only; a row is
\* counted as removed after it was counted as found, and by no dry run.
JobTally ==
  /\ JobTypeOK
  /\ IsFiniteSet(job.ids)
  /\ job.step # "delete" => job.ids = {}
  /\ job.removed + Cardinality(job.ids) <= job.found
  /\ job.dryRun => job.removed = 0 /\ job.ids = {}
  /\ job.batches = 0 => job.found = 0

LEMMA JobTallyInit == CInit => JobTally
  <1> SUFFICES ASSUME CInit
               PROVE  JobTally
    OBVIOUS
  <1>1. JobTypeOK
    BY CleanupAssumption DEF CInit, Init, IdleJob, JobTypeOK
  <1>2. IsFiniteSet({}) /\ Cardinality({}) = 0
    BY FS_EmptySet
  <1>3. QED
    BY <1>1, <1>2 DEF CInit, IdleJob, JobTally

\* The clock never goes back.
LEMMA ClockGrows ==
  ASSUME IInv, [Next]_vars
  PROVE  clock \in Nat /\ clock' \in Nat /\ clock <= clock'
  <1>1. clock \in Nat
    BY DEF IInv, TypeOK
  <1>2. ASSUME NEW r \in Requests, Serve(r) \/ Crash(r)
        PROVE  clock' = clock
    BY <1>2, Frame DEF IInv
  <1>3. clock' = clock \/ clock' = clock + 1
    BY <1>2 DEF Next, Tick, PurgeExpired, vars
  <1>4. QED
    BY <1>1, <1>3

\* A findMany adds its batch to the rows found.
LEMMA SelectTally ==
  ASSUME IInv, FiniteTable, JobTally, JobSelect
  PROVE  JobTally'
  <1>1. PICK ids \in Batches :
          job' = [job EXCEPT !.batches = @ + 1,
                             !.found = @ + Cardinality(ids),
                             !.ids = IF job.dryRun THEN {} ELSE ids,
                             !.step = IF job.dryRun THEN "select" ELSE "delete"]
    BY DEF JobSelect
  <1>2. /\ ids \in SUBSET Requests
        /\ IsFiniteSet(ids)
        /\ Cardinality(ids) \in Nat
    BY BatchFinite
  <1>3. IsFiniteSet({}) /\ Cardinality({}) = 0
    BY FS_EmptySet
  <1>4. /\ job'.step = IF job.dryRun THEN "select" ELSE "delete"
        /\ job'.ids = IF job.dryRun THEN {} ELSE ids
        /\ job'.batches = job.batches + 1
        /\ job'.found = job.found + Cardinality(ids)
        /\ job'.removed = job.removed
        /\ job'.dryRun = job.dryRun
    BY <1>1 DEF JobTally, JobTypeOK
  <1>5. JobTypeOK'
    <2>1. job.batches + 1 \in 0 .. MaxBatches
      BY CleanupAssumption DEF JobSelect, JobTally, JobTypeOK
    <2>2. job.found + Cardinality(ids) \in Nat
      BY <1>2 DEF JobTally, JobTypeOK
    <2>3. (IF job.dryRun THEN {} ELSE ids) \in SUBSET Requests
      BY <1>2
    <2>4. clock' = clock
      BY DEF JobSelect, vars
    <2>5. QED
      BY <1>1, <2>1, <2>2, <2>3, <2>4 DEF JobTally, JobTypeOK
  <1>6. job.ids = {} /\ job.removed \in Nat /\ job.found \in Nat
        /\ job.batches \in Nat /\ job.removed <= job.found
    BY <1>3 DEF JobSelect, JobTally, JobTypeOK
  <1>7. QED
    BY <1>2, <1>3, <1>4, <1>5, <1>6 DEF JobTally

\* A deleteMany counts as removed no more than what it was given.
LEMMA DeleteTally ==
  ASSUME IInv, FiniteTable, JobInv, JobTally, JobDelete
  PROVE  JobTally'
  <1> DEFINE hit == {k \in Keys : table[k].id \in job.ids}
             n == Cardinality(hit)
  <1>1. n \in Nat /\ n <= Cardinality(job.ids) /\ Cardinality(job.ids) \in Nat
    BY HitsAreIds, FS_CardinalityType DEF JobTally
  <1>2. IsFiniteSet({}) /\ Cardinality({}) = 0
    BY FS_EmptySet
  <1>3. job' = [job EXCEPT !.step = "select", !.ids = {}, !.removed = @ + n]
        /\ clock' = clock
    BY DEF JobDelete
  <1> HIDE DEF n
  <1>4. /\ job'.step = "select"
        /\ job'.ids = {}
        /\ job'.batches = job.batches
        /\ job'.found = job.found
        /\ job'.removed = job.removed + n
        /\ job'.dryRun = job.dryRun
    BY <1>3 DEF JobTally, JobTypeOK
  <1>5. JobTypeOK'
    <2>1. job.removed + n \in Nat /\ {} \in SUBSET Requests
      BY <1>1 DEF JobTally, JobTypeOK
    <2>2. QED
      BY <1>3, <2>1 DEF JobTally, JobTypeOK
  <1>6. job.removed \in Nat /\ job.found \in Nat
        /\ job.removed + Cardinality(job.ids) <= job.found
        /\ (job.dryRun => job.removed = 0 /\ job.ids = {})
        /\ (job.batches = 0 => job.found = 0)
    BY DEF JobTally, JobTypeOK
  <1>7. job'.removed + Cardinality(job'.ids) <= job'.found
    BY <1>1, <1>2, <1>4, <1>6
  <1>8. job.dryRun => job'.removed = 0
    <2> SUFFICES ASSUME job.dryRun
                 PROVE  job'.removed = 0
      OBVIOUS
    <2>1. job.ids = {} /\ job.removed = 0
      BY <1>6
    <2>2. n = 0
      BY <1>1, <1>2, <2>1
    <2>3. QED
      BY <1>4, <2>1, <2>2
  <1>9. QED
    BY <1>2, <1>4, <1>5, <1>6, <1>7, <1>8 DEF JobTally

LEMMA JobTallyStep ==
  ASSUME IInv, FiniteTable, JobInv, JobTally, [CNext]_cvars
  PROVE  JobTally'
  <1>1. [Next]_vars
    BY JobStep
  <1>2. clock \in Nat /\ clock' \in Nat /\ clock <= clock'
    BY <1>1, ClockGrows
  <1>3. CASE UNCHANGED job
    BY <1>2, <1>3 DEF JobTally, JobTypeOK
  <1>4. ASSUME NEW dryRun \in BOOLEAN, JobStart(dryRun)
        PROVE  JobTally'
    <2>1. job' = [step |-> "select", dryRun |-> dryRun, before |-> clock, ids |-> {},
                  batches |-> 0, found |-> 0, removed |-> 0]
          /\ clock' = clock
      BY <1>4 DEF JobStart, IdleJob, vars
    <2>2. IsFiniteSet({}) /\ Cardinality({}) = 0
      BY FS_EmptySet
    <2>3. JobTypeOK'
      BY <1>2, <2>1, CleanupAssumption DEF JobTypeOK
    <2>4. QED
      BY <2>1, <2>2, <2>3 DEF JobTally
  <1>5. CASE JobDone \/ JobFails
    <2>1. job' = IdleJob
      BY <1>5 DEF JobDone, JobFails
    <2>2. IsFiniteSet({}) /\ Cardinality({}) = 0
      BY FS_EmptySet
    <2>3. JobTypeOK'
      BY <1>2, <2>1, CleanupAssumption DEF JobTypeOK, IdleJob
    <2>4. QED
      BY <2>1, <2>2, <2>3 DEF JobTally, IdleJob
  <1>6. CASE UNCHANGED cvars
    BY <1>3, <1>6 DEF cvars
  <1>7. QED
    BY <1>3, <1>4, <1>5, <1>6, SelectTally, DeleteTally DEF CNext

\* Everything the proofs know of the service and the job together.
CIInv == IInv /\ JobInv /\ FiniteTable /\ JobTally

LEMMA CIInvInit == CInit => CIInv
  <1> SUFFICES ASSUME CInit
               PROVE  CIInv
    OBVIOUS
  <1>1. IInv /\ JobInv /\ JobTally
    BY JobInit, JobTallyInit, IInvInit DEF CInit
  <1>2. Rows = {}
    BY DEF CInit, Init, Rows
  <1>3. QED
    BY <1>1, <1>2, FS_EmptySet DEF CIInv, FiniteTable

LEMMA CIInvStep == CIInv /\ [CNext]_cvars => CIInv'
  BY JobStep, IInvStep, FiniteTableStep, JobTallyStep DEF CIInv

\* The inductive invariant holds in every reachable state.
THEOREM CInvariance == CSpec => []CIInv
  BY CIInvInit, CIInvStep, PTL DEF CSpec

\* The locals of main have their types however many rows there are, and the
\* loop stops at its cap on batches.
THEOREM JobTypeCorrect == CSpec => []JobTypeOK
  <1>1. CIInv => JobTypeOK
    BY DEF CIInv, JobTally
  <1>2. QED
    BY <1>1, CInvariance, PTL

\* With the job running beside the API the service still keeps the promise of
\* ReplayStore, a key executes or takes effect again only as SingleExecutor
\* allows, replays are originals and live rows stay.
THEOREM PromiseWithCleanup ==
  CSpec => PromiseKept /\ []SingleExecutor /\ []ReplayIsOriginal /\ LiveRowKept
  <1>1. CSpec => Spec
    BY CleanupIsSafe DEF RefinesService
  <1>2. QED
    BY <1>1, KeepsPromise, OneExecutor, ReplaysAreOriginal, LiveRowsStay, PTL

\* totalRemoved never exceeds totalFound, and a dry run removes nothing.
TotalsAgree ==
  /\ job.removed <= job.found
  /\ job.dryRun => job.removed = 0

\* What main() prints at the end agrees: it never reports more rows removed
\* than found, though the API may have deleted rows of the batch before it.
THEOREM TotalsAlwaysAgree == CSpec => []TotalsAgree
  <1>1. ASSUME CIInv
        PROVE  TotalsAgree
    <2>1. Cardinality(job.ids) \in Nat /\ job.removed \in Nat /\ job.found \in Nat
      BY <1>1, FS_CardinalityType DEF CIInv, JobTally, JobTypeOK
    <2>2. QED
      BY <1>1, <2>1 DEF CIInv, JobTally, TotalsAgree
  <1>2. QED
    BY <1>1, CInvariance, PTL

-----------------------------------------------------------------------------
(***************************************************************************)
(* Counting twice.  A run that deletes what it reads finds no row again:   *)
(* the rows it may still find, with those it has found, are never more     *)
(* than there are requests.  So only a dry run of two batches or more can  *)
(* report more rows than there are.                                        *)
(***************************************************************************)
\* The requests whose row may be found, now or later, and is not in the batch.
Uncounted == {r \in Requests : pc[r] \in Early \/ OwnsRow(r)} \ job.ids

FoundOnce ==
  ~job.dryRun =>
    /\ job.found <= Cardinality(Requests)
    /\ job.step # "idle" =>
         job.found + Cardinality(Uncounted) <= Cardinality(Requests)

\* The first batch of a dry run counts each row once.
FirstBatchOnce ==
  job.dryRun /\ job.batches <= 1 => job.found <= Cardinality(Requests)

\* A request of the service owns a row only by creating it.
LEMMA OwnersWereEarly ==
  ASSUME IInv, [Next]_vars, NEW r \in Requests, pc'[r] \in Early \/ OwnsRow(r)'
  PROVE  pc[r] \in Early \/ OwnsRow(r)
  <1>1. TypeOK /\ KeyOf[r] \in Keys
    BY IdempotencyAssumption DEF IInv
  <1>2. ASSUME NEW s \in Requests, Serve(s) \/ Crash(s)
        PROVE  pc[r] \in Early \/ OwnsRow(r)
    <2>1. CASE pc'[r] \in Early
      BY <1>1, <1>2, <2>1, Frame, OwnProgress
    <2>2. CASE table'[KeyOf[r]].id = r /\ KeyOf[r] # KeyOf[s]
      BY <1>1, <1>2, <2>2, Frame DEF OwnsRow, RowOf
    <2>3. CASE table'[KeyOf[r]].id = r /\ KeyOf[r] = KeyOf[s]
      <3>1. NoRow.id # r
        BY IdempotencyAssumption DEF NoRow
      <3>2. CASE table'[KeyOf[r]] = table[KeyOf[r]]
        BY <2>3, <3>2 DEF OwnsRow, RowOf
      <3>3. CASE pc[s] = "create" /\ table'[KeyOf[r]].id = s
        BY <2>3, <3>3 DEF Early
      <3>4. CASE pc[s] = "store" /\ table'[KeyOf[r]] = [table[KeyOf[r]] EXCEPT !.responseBody = s]
        <4>1. table[KeyOf[r]] \in Row \cup {NoRow}
          BY <1>1 DEF TypeOK
        <4>2. table'[KeyOf[r]].id = table[KeyOf[r]].id
          BY <3>4, <4>1 DEF Row, NoRow
        <4>3. QED
          BY <2>3, <4>2 DEF OwnsRow, RowOf
      <3>5. \/ table'[KeyOf[s]] = table[KeyOf[s]]
            \/ table'[KeyOf[s]] = NoRow
            \/ /\ pc[s] = "create"
               /\ table'[KeyOf[s]] = [id |-> s, requestHash |-> HashOf[s],
                                      responseBody |-> None, expiresAt |-> computeExpiry(now[s])]
            \/ pc[s] = "store" /\ table'[KeyOf[s]] = [table[KeyOf[s]] EXCEPT !.responseBody = s]
        BY <1>1, <1>2, RowMoves
      <3>6. QED
        BY <2>3, <3>1, <3>2, <3>3, <3>4, <3>5
    <2>4. QED
      BY <2>1, <2>2, <2>3 DEF OwnsRow, RowOf
  <1>3. CASE Tick \/ UNCHANGED vars
    BY <1>3 DEF Tick, vars, OwnsRow, RowOf
  <1>4. ASSUME NEW ks \in SUBSET Keys, PurgeExpired(ks)
        PROVE  pc[r] \in Early \/ OwnsRow(r)
    BY <1>1, <1>4, IdempotencyAssumption DEF PurgeExpired, OwnsRow, RowOf, NoRow
  <1>5. QED
    BY <1>2, <1>3, <1>4 DEF Next

\* The sizes the counting argument is about.
LEMMA UncountedFinite ==
  ASSUME IsFiniteSet(Requests)
  PROVE  /\ IsFiniteSet(Uncounted)
         /\ Cardinality(Uncounted) \in Nat
         /\ Cardinality(Requests) \in Nat
         /\ Cardinality(Uncounted) <= Cardinality(Requests)
  BY FS_Subset, FS_CardinalityType DEF Uncounted

LEMMA UncountedFinitePrimed ==
  ASSUME IsFiniteSet(Requests)
  PROVE  /\ IsFiniteSet(Uncounted')
         /\ Cardinality(Uncounted') \in Nat
         /\ Cardinality(Uncounted') <= Cardinality(Requests)
  BY FS_Subset, FS_CardinalityType DEF Uncounted

\* No step of the service, and no deleteMany, gives the job more to find.
LEMMA UncountedShrinks ==
  ASSUME CIInv, [CNext]_cvars, job' = job \/ JobDelete
  PROVE  Uncounted' \subseteq Uncounted
  <1>1. IInv /\ JobInv /\ [Next]_vars
    BY JobStep DEF CIInv
  <1> SUFFICES ASSUME NEW r \in Requests,
                      pc'[r] \in Early \/ OwnsRow(r)', r \notin job'.ids
               PROVE  r \in Uncounted
    BY DEF Uncounted
  <1>2. pc[r] \in Early \/ OwnsRow(r)
    BY <1>1, OwnersWereEarly
  <1>3. r \notin job.ids
    <2>1. CASE job' = job
      BY <2>1
    <2>2. CASE JobDelete /\ r \in job.ids
      <3>1. pc'[r] \notin Early
        BY <1>1, <2>2 DEF JobInv, JobDelete
      <3>2. table'[KeyOf[r]].id = r /\ KeyOf[r] \in Keys
        BY <3>1, IdempotencyAssumption DEF OwnsRow, RowOf
      <3>3. table'[KeyOf[r]] = NoRow
        BY <1>2, <1>1, <2>2, <3>2 DEF JobDelete, OwnsRow, RowOf, JobInv
      <3>4. QED
        BY <3>2, <3>3, IdempotencyAssumption DEF NoRow
    <2>3. QED
      BY <2>1, <2>2
  <1>4. QED
    BY <1>2, <1>3 DEF Uncounted

\* A batch that will be deleted moves its rows from those that may be found
\* to those that were.
LEMMA FoundOnceSelect ==
  ASSUME IsFiniteSet(Requests), CIInv, FoundOnce, FirstBatchOnce, JobSelect
  PROVE  FoundOnce' /\ FirstBatchOnce'
  <1>1. IInv /\ FiniteTable /\ JobTally
    BY DEF CIInv
  <1>2. PICK ids \in Batches :
          job' = [job EXCEPT !.batches = @ + 1,
                             !.found = @ + Cardinality(ids),
                             !.ids = IF job.dryRun THEN {} ELSE ids,
                             !.step = IF job.dryRun THEN "select" ELSE "delete"]
    BY DEF JobSelect
  <1>3. /\ ids \in SUBSET Requests
        /\ \A i \in ids : OwnsRow(i)
        /\ IsFiniteSet(ids)
        /\ Cardinality(ids) \in Nat
    BY <1>1, BatchFinite
  <1>4. /\ job'.ids = IF job.dryRun THEN {} ELSE ids
        /\ job'.batches = job.batches + 1
        /\ job'.found = job.found + Cardinality(ids)
        /\ job'.dryRun = job.dryRun
    BY <1>1, <1>2 DEF JobTally, JobTypeOK
  <1>5. /\ job.found \in Nat
        /\ job.batches \in Nat
        /\ job.ids = {}
        /\ job.step # "idle"
        /\ job.batches = 0 => job.found = 0
    BY <1>1, CleanupAssumption DEF JobTally, JobTypeOK, JobSelect
  <1>6. Cardinality(ids) <= Cardinality(Requests) /\ Cardinality(Requests) \in Nat
    BY <1>3, FS_Subset, FS_CardinalityType
  <1>7. FirstBatchOnce'
    BY <1>3, <1>4, <1>5, <1>6 DEF FirstBatchOnce
  <1>8. ASSUME ~job.dryRun
        PROVE  job'.found + Cardinality(Uncounted') <= Cardinality(Requests)
    <2>1. /\ ids \subseteq Uncounted
          /\ Uncounted' = Uncounted \ ids
      BY <1>3, <1>4, <1>5, <1>8 DEF Uncounted, JobSelect, vars, OwnsRow, RowOf
    <2>2. ids \cup Uncounted' = Uncounted /\ ids \cap Uncounted' = {}
      BY <2>1
    <2>3. Cardinality(ids \cup Uncounted')
            = Cardinality(ids) + Cardinality(Uncounted') - Cardinality(ids \cap Uncounted')
      BY <1>3, UncountedFinitePrimed, FS_Union
    <2>4. Cardinality(ids \cap Uncounted') = 0
      BY <2>2, FS_EmptySet
    <2>5. Cardinality(Uncounted) = Cardinality(ids) + Cardinality(Uncounted')
      <3>1. Cardinality(ids) \in Nat /\ Cardinality(Uncounted') \in Nat
        BY <1>3, UncountedFinitePrimed
      <3>2. Cardinality(ids \cup Uncounted') = Cardinality(Uncounted)
        BY <2>2
      <3>3. QED
        BY <2>3, <2>4, <3>1, <3>2
    <2>6. job.found + Cardinality(Uncounted) <= Cardinality(Requests)
      BY <1>5, <1>8 DEF FoundOnce
    <2>7. QED
      BY <1>3, <1>4, <1>5, <1>6, <2>5, <2>6, UncountedFinitePrimed
  <1>9. FoundOnce'
    <2>1. job'.found \in Nat
      BY <1>3, <1>4, <1>5
    <2>2. QED
      BY <1>4, <1>6, <1>8, <2>1, UncountedFinitePrimed DEF FoundOnce
  <1>10. QED
    BY <1>7, <1>9

LEMMA FoundOnceStep ==
  ASSUME IsFiniteSet(Requests), CIInv, FoundOnce, FirstBatchOnce, [CNext]_cvars
  PROVE  FoundOnce' /\ FirstBatchOnce'
  <1>1. job \in [step : {"idle", "select", "delete"}, dryRun : BOOLEAN,
                 before : 0 .. clock, ids : SUBSET Requests,
                 batches : 0 .. MaxBatches, found : Nat, removed : Nat]
    BY DEF CIInv, JobTally, JobTypeOK
  <1>2. CASE job' = job \/ JobDelete
    <2>1. /\ job'.dryRun = job.dryRun
          /\ job'.found = job.found
          /\ job'.batches = job.batches
          /\ job'.step # "idle" => job.step # "idle"
      BY <1>1, <1>2 DEF JobDelete
    <2>2. Cardinality(Uncounted') <= Cardinality(Uncounted)
      BY <1>2, UncountedShrinks, UncountedFinite, FS_Subset
    <2>3. job.found \in Nat
      BY <1>1
    <2>4. FirstBatchOnce'
      BY <2>1 DEF FirstBatchOnce
    <2>5. FoundOnce'
      BY <2>1, <2>2, <2>3, UncountedFinite, UncountedFinitePrimed DEF FoundOnce
    <2>6. QED
      BY <2>4, <2>5
  <1>3. ASSUME NEW dryRun \in BOOLEAN, JobStart(dryRun)
        PROVE  FoundOnce' /\ FirstBatchOnce'
    <2>1. job'.found = 0
      BY <1>3 DEF JobStart, IdleJob
    <2>2. QED
      BY <2>1, UncountedFinite, UncountedFinitePrimed DEF FoundOnce, FirstBatchOnce
  <1>4. CASE JobDone \/ JobFails
    <2>1. job'.found = 0 /\ job'.step = "idle"
      BY <1>4 DEF JobDone, JobFails, IdleJob
    <2>2. QED
      BY <2>1, UncountedFinite, UncountedFinitePrimed DEF FoundOnce, FirstBatchOnce
  <1>5. CASE UNCHANGED cvars
    BY <1>2, <1>5 DEF cvars
  <1>6. QED
    BY <1>2, <1>3, <1>4, <1>5, FoundOnceSelect DEF CNext

\* The count of a run exceeds the rows there ever were only in a dry run that
\* has read two batches or more: a dry run skips nothing on its next findMany
\* and reads the same rows again, while a run that deletes finds each row once
\* ("Only counts expired keys", scripts/idempotency-cleanup.ts:68).
THEOREM OnlyDryRunsOvercount ==
  ASSUME IsFiniteSet(Requests)
  PROVE  CSpec => []((job.dryRun => job.batches <= 1) => DryRunCountsKeys)
  <1> DEFINE CountInv == CIInv /\ FoundOnce /\ FirstBatchOnce
             Claim == (job.dryRun => job.batches <= 1) => DryRunCountsKeys
  <1>1. CInit => CountInv
    <2>1. CInit => job.found = 0
      BY DEF CInit, IdleJob
    <2>2. QED
      BY <2>1, CIInvInit, UncountedFinite DEF FoundOnce, FirstBatchOnce
  <1>2. CountInv /\ [CNext]_cvars => CountInv'
    BY CIInvStep, FoundOnceStep
  <1>3. CountInv => Claim
    BY DEF FoundOnce, FirstBatchOnce, DryRunCountsKeys
  <1>4. QED
    BY <1>1, <1>2, <1>3, PTL DEF CSpec

=============================================================================
