-------------------------- MODULE IdempotencyProofs --------------------------
(***************************************************************************)
(* Proofs about Idempotency, for any number of requests, keys and          *)
(* payloads and any TTL.                                                   *)
(***************************************************************************)
EXTENDS Idempotency, TLAPS

\* A request that has not created a row.
Early == {"start", "find", "delete", "create", "raced"}

\* A row is what its creator wrote, and its creator is past the create.
RowsOfCreators ==
  \A k \in Keys : table[k] # NoRow =>
    LET row == table[k]
    IN  /\ KeyOf[row.id] = k
        /\ row.requestHash = HashOf[row.id]
        /\ row.expiresAt = computeExpiry(now[row.id])
        /\ pc[row.id] \notin Early

\* A request runs the use case under its own row, which stays there when it
\* has taken effect, unless its window is over or it has failed.
ExecutorHoldsRow ==
  \A r \in Executing \cup effects :
    OwnsRow(r) \/ WindowOver(r) \/ outcome[r].kind = "failed"

\* The row a request is about to delete is an expired row of its key.
DoomedExpired ==
  \A r \in Requests : pc[r] = "delete" =>
    /\ doomed[r] \in Requests
    /\ computeExpiry(now[doomed[r]]) <= clock
    /\ pc[doomed[r]] \notin Early

\* A stored response is its creator's, which took effect and answered it.
StoredIsFresh ==
  \A k \in Keys : table[k].responseBody # None =>
    LET row == table[k]
    IN  /\ row.responseBody = row.id
        /\ row.id \in effects
        /\ outcome[row.id] = [kind |-> "fresh", body |-> row.id]

\* The use case returns only after its effect, which comes after the create.
ReturnedTookEffect ==
  \A r \in Requests :
    /\ pc[r] \in {"effected", "store"} => r \in effects
    /\ r \in effects => pc[r] \notin Early

\* A request is answered once, as its last step.
AnsweredLast ==
  \A r \in Requests : pc[r] # "answered" => outcome[r] = NoOutcome

IInv ==
  /\ TypeOK
  /\ RowsOfCreators
  /\ ExecutorHoldsRow
  /\ DoomedExpired
  /\ StoredIsFresh
  /\ ReturnedTookEffect
  /\ AnsweredLast
  /\ ReplayIsOriginal

-----------------------------------------------------------------------------
\* The rows that are there are those with an id; what their fields hold.
LEMMA RowFacts ==
  ASSUME TypeOK, NEW k \in Keys
  PROVE  /\ table[k] # NoRow <=> table[k].id \in Requests
         /\ table[k] = NoRow <=> table[k].id = None
         /\ table[k].id \in Requests \cup {None}
         /\ table[k].responseBody \in Requests \cup {None}
         /\ table[k].expiresAt \in Nat
  BY IdempotencyAssumption DEF TypeOK, NoRow, Row

\* An answer and a move of the program counter keep their types.
LEMMA AnswerType ==
  ASSUME TypeOK, NEW r \in Requests, NEW kind \in OutcomeKinds,
         NEW body \in Requests \cup {None}, Answer(r, kind, body)
  PROVE  /\ pc' \in [Requests -> Steps]
         /\ outcome' \in [Requests -> [kind : OutcomeKinds, body : Requests \cup {None}]]
  BY DEF TypeOK, Answer, Goto, Steps

\* Moving to another await changes one control point and keeps their type.
LEMMA GotoType ==
  ASSUME TypeOK, NEW r \in Requests, NEW step \in Steps, Goto(r, step)
  PROVE  pc' \in [Requests -> Steps]
  BY DEF TypeOK, Goto

\* Reading a row that blocks the request only answers it.
LEMMA ResolveType ==
  ASSUME TypeOK, NEW r \in Requests, resolveExistingRecord(r, RowOf(r))
  PROVE  /\ pc' \in [Requests -> Steps]
         /\ outcome' \in [Requests -> [kind : OutcomeKinds, body : Requests \cup {None}]]
  <1>1. KeyOf[r] \in Keys
    BY IdempotencyAssumption
  <1>2. RowOf(r).responseBody \in Requests \cup {None}
    BY <1>1, RowFacts DEF RowOf
  <1>3. CASE Answer(r, "replay", RowOf(r).responseBody)
    BY <1>2, <1>3, AnswerType DEF OutcomeKinds
  <1>4. CASE Answer(r, "conflict", None)
    BY <1>4, AnswerType DEF OutcomeKinds
  <1>5. QED
    BY <1>3, <1>4 DEF resolveExistingRecord

\* Removing a row, or writing a request's row, keeps the type of the table.
LEMMA TableType ==
  ASSUME TypeOK, NEW k \in Keys, NEW row \in Row \cup {NoRow},
         row.expiresAt <= computeExpiry(clock),
         table' = [table EXCEPT ![k] = row]
  PROVE  /\ table' \in [Keys -> Row \cup {NoRow}]
         /\ \A j \in Keys : table'[j].expiresAt <= computeExpiry(clock)
  BY DEF TypeOK

-----------------------------------------------------------------------------
(***************************************************************************)
(* Type correctness.                                                       *)
(***************************************************************************)
LEMMA TypeInit == Init => TypeOK
  BY IdempotencyAssumption
  DEF Init, TypeOK, NoRow, Row, Steps, OutcomeKinds, NoOutcome, computeExpiry

\* Every await of a request keeps the type invariant.
LEMMA TypeServe ==
  ASSUME TypeOK, NEW r \in Requests, Serve(r)
  PROVE  TypeOK'
  <1>0. /\ KeyOf[r] \in Keys
        /\ HashOf[r] \in Hashes
        /\ NoRow.expiresAt <= computeExpiry(clock)
    BY IdempotencyAssumption DEF TypeOK, NoRow, computeExpiry
  <1>1. CASE Start(r)
    BY <1>1, GotoType DEF Start, TypeOK, Steps
  <1>2. CASE FindExisting(r)
    <2>1. /\ pc' \in [Requests -> Steps]
          /\ outcome' \in [Requests -> [kind : OutcomeKinds, body : Requests \cup {None}]]
      BY <1>2, GotoType, ResolveType DEF FindExisting, TypeOK, Steps
    <2>2. doomed' \in [Requests -> Requests \cup {None}]
      BY <1>0, <1>2, RowFacts DEF FindExisting, RowOf, TypeOK
    <2>3. QED
      BY <1>2, <2>1, <2>2 DEF FindExisting, TypeOK
  <1>3. CASE DeleteExpired(r)
    <2>1. /\ pc' \in [Requests -> Steps]
          /\ outcome' \in [Requests -> [kind : OutcomeKinds, body : Requests \cup {None}]]
      BY <1>3, GotoType, AnswerType DEF DeleteExpired, TypeOK, Steps, OutcomeKinds
    <2>2. /\ table' \in [Keys -> Row \cup {NoRow}]
          /\ \A j \in Keys : table'[j].expiresAt <= computeExpiry(clock)
      BY <1>0, <1>3, TableType DEF DeleteExpired, TypeOK
    <2>3. doomed' \in [Requests -> Requests \cup {None}]
      BY <1>3 DEF DeleteExpired, TypeOK
    <2>4. QED
      BY <1>3, <2>1, <2>2, <2>3 DEF DeleteExpired, TypeOK
  <1>4. CASE CreateRow(r)
    <2> DEFINE row == [id |-> r, requestHash |-> HashOf[r],
                       responseBody |-> None, expiresAt |-> computeExpiry(now[r])]
    <2>1. row \in Row /\ row.expiresAt <= computeExpiry(clock)
      BY <1>0, IdempotencyAssumption DEF TypeOK, Row, computeExpiry
    <2>2. /\ table' \in [Keys -> Row \cup {NoRow}]
          /\ \A j \in Keys : table'[j].expiresAt <= computeExpiry(clock)
      <3>1. CASE table' = [table EXCEPT ![KeyOf[r]] = row]
        BY <1>0, <2>1, <3>1, TableType
      <3>2. CASE UNCHANGED table
        BY <3>2 DEF TypeOK
      <3>3. QED
        BY <1>4, <3>1, <3>2 DEF CreateRow
    <2>3. QED
      BY <1>4, <2>2, GotoType DEF CreateRow, TypeOK, Steps
  <1>5. CASE FindRaced(r)
    BY <1>5, ResolveType, AnswerType DEF FindRaced, TypeOK, OutcomeKinds
  <1>6. CASE ExecuteEffect(r)
    BY <1>6, GotoType DEF ExecuteEffect, TypeOK, Steps
  <1>7. CASE ExecuteThrows(r)
    BY <1>7, GotoType DEF ExecuteThrows, TypeOK, Steps
  <1>8. CASE ExecuteReturns(r)
    BY <1>8, GotoType DEF ExecuteReturns, TypeOK, Steps
  <1>9. CASE StoreResponse(r)
    <2>1. /\ pc' \in [Requests -> Steps]
          /\ outcome' \in [Requests -> [kind : OutcomeKinds, body : Requests \cup {None}]]
      BY <1>9, GotoType, AnswerType DEF StoreResponse, TypeOK, Steps, OutcomeKinds
    <2>2. /\ table' \in [Keys -> Row \cup {NoRow}]
          /\ \A j \in Keys : table'[j].expiresAt <= computeExpiry(clock)
      <3> DEFINE row == [table[KeyOf[r]] EXCEPT !.responseBody = r]
      <3>1. CASE OwnsRow(r) /\ table' = [table EXCEPT ![KeyOf[r]] = row]
        <4>1. table[KeyOf[r]] \in Row
          BY <1>0, <3>1, RowFacts DEF TypeOK, OwnsRow, RowOf
        <4>2. row \in Row /\ row.expiresAt <= computeExpiry(clock)
          BY <1>0, <4>1 DEF Row, TypeOK
        <4>3. QED
          BY <1>0, <3>1, <4>2, TableType
      <3>2. CASE UNCHANGED table
        BY <3>2 DEF TypeOK
      <3>3. QED
        BY <1>9, <3>1, <3>2 DEF StoreResponse
    <2>3. QED
      BY <1>9, <2>1, <2>2 DEF StoreResponse, TypeOK
  <1>10. CASE StoreFails(r)
    BY <1>10, GotoType DEF StoreFails, TypeOK, Steps
  <1>11. CASE Release(r)
    <2>1. /\ table' \in [Keys -> Row \cup {NoRow}]
          /\ \A j \in Keys : table'[j].expiresAt <= computeExpiry(clock)
      BY <1>0, <1>11, TableType DEF Release, TypeOK
    <2>2. QED
      BY <1>11, <2>1, AnswerType DEF Release, TypeOK, OutcomeKinds
  <1>12. QED
    BY <1>1, <1>2, <1>3, <1>4, <1>5, <1>6, <1>7, <1>8, <1>9, <1>10, <1>11
    DEF Serve

\* So does every step.
LEMMA TypeStep == TypeOK /\ [Next]_vars => TypeOK'
  <1> SUFFICES ASSUME TypeOK, [Next]_vars
               PROVE  TypeOK'
    OBVIOUS
  <1>1. CASE \E r \in Requests : Serve(r)
    BY <1>1, TypeServe
  <1>2. CASE \E r \in Requests : Crash(r)
    BY <1>2 DEF TypeOK, Steps, OutcomeKinds, Crash, Answer, Goto
  <1>3. CASE Tick
    BY <1>3, IdempotencyAssumption DEF TypeOK, Tick, Row, NoRow, computeExpiry
  <1>4. CASE \E ks \in SUBSET Keys : PurgeExpired(ks)
    BY <1>4, IdempotencyAssumption DEF TypeOK, PurgeExpired, NoRow, computeExpiry
  <1>5. CASE UNCHANGED vars
    BY <1>5 DEF TypeOK, vars
  <1>6. QED
    BY <1>1, <1>2, <1>3, <1>4, <1>5 DEF Next

\* Every reachable state has the types that executeWithPrisma's locals and
\* the idempotency_keys table have.
THEOREM TypeCorrect == Spec => []TypeOK
  BY TypeInit, TypeStep, PTL DEF Spec

-----------------------------------------------------------------------------
(***************************************************************************)
(* What a step of one request does, in the terms the invariant needs.      *)
(***************************************************************************)
\* It leaves the other requests and the rows of other keys alone.
LEMMA Frame ==
  ASSUME TypeOK, NEW r \in Requests, Serve(r) \/ Crash(r)
  PROVE  /\ clock' = clock
         /\ effects \subseteq effects'
         /\ \A s \in Requests : s # r =>
              /\ pc'[s] = pc[s]
              /\ now'[s] = now[s]
              /\ doomed'[s] = doomed[s]
              /\ outcome'[s] = outcome[s]
         /\ \A k \in Keys : k # KeyOf[r] => table'[k] = table[k]
  <1>0. KeyOf[r] \in Keys
    BY IdempotencyAssumption
  <1>1. CASE Start(r)
    BY <1>0, <1>1 DEF Start, TypeOK, Goto, Answer
  <1>2. CASE FindExisting(r)
    BY <1>0, <1>2 DEF FindExisting, resolveExistingRecord, TypeOK, Goto, Answer
  <1>3. CASE DeleteExpired(r)
    BY <1>0, <1>3 DEF DeleteExpired, TypeOK, Goto, Answer
  <1>4. CASE CreateRow(r)
    BY <1>0, <1>4 DEF CreateRow, TypeOK, Goto, Answer
  <1>5. CASE FindRaced(r)
    BY <1>0, <1>5 DEF FindRaced, resolveExistingRecord, TypeOK, Goto, Answer
  <1>6. CASE ExecuteEffect(r)
    BY <1>0, <1>6 DEF ExecuteEffect, TypeOK, Goto, Answer
  <1>7. CASE ExecuteThrows(r)
    BY <1>0, <1>7 DEF ExecuteThrows, TypeOK, Goto, Answer
  <1>8. CASE ExecuteReturns(r)
    BY <1>0, <1>8 DEF ExecuteReturns, TypeOK, Goto, Answer
  <1>9. CASE StoreResponse(r)
    BY <1>0, <1>9 DEF StoreResponse, TypeOK, Goto, Answer
  <1>10. CASE StoreFails(r)
    BY <1>0, <1>10 DEF StoreFails, TypeOK, Goto, Answer
  <1>11. CASE Release(r)
    BY <1>0, <1>11 DEF Release, TypeOK, Goto, Answer
  <1>12. CASE Crash(r)
    BY <1>0, <1>12 DEF Crash, TypeOK, Goto, Answer
  <1>13. QED
    BY <1>1, <1>2, <1>3, <1>4, <1>5, <1>6, <1>7,
       <1>8, <1>9, <1>10, <1>11, <1>12 DEF Serve

\* It changes the row of its key in one of four ways.
LEMMA RowMoves ==
  ASSUME TypeOK, NEW r \in Requests, Serve(r) \/ Crash(r)
  PROVE  LET row == table[KeyOf[r]]
             row2 == table'[KeyOf[r]]
         IN  \/ row2 = row
             \/ /\ row2 = NoRow
                /\ \/ pc[r] = "delete" /\ row.id = doomed[r]
                   \/ /\ pc[r] = "release"
                      /\ row.id = r
                      /\ outcome'[r].kind = "failed"
             \/ /\ pc[r] = "create"
                /\ row = NoRow
                /\ pc'[r] = "execute"
                /\ now'[r] = now[r]
                /\ row2 = [id |-> r, requestHash |-> HashOf[r],
                           responseBody |-> None, expiresAt |-> computeExpiry(now[r])]
             \/ /\ pc[r] = "store"
                /\ row.id = r
                /\ row2 = [row EXCEPT !.responseBody = r]
                /\ outcome'[r] = [kind |-> "fresh", body |-> r]
  <1>0. KeyOf[r] \in Keys
    BY IdempotencyAssumption
  <1>1. CASE Start(r)
    BY <1>0, <1>1 DEF Start, TypeOK, Goto, Answer, RowOf, OwnsRow
  <1>2. CASE FindExisting(r)
    BY <1>0, <1>2 DEF FindExisting, TypeOK, Goto, Answer, RowOf, OwnsRow
  <1>3. CASE DeleteExpired(r)
    BY <1>0, <1>3 DEF DeleteExpired, TypeOK, Goto, Answer, RowOf, OwnsRow
  <1>4. CASE CreateRow(r)
    BY <1>0, <1>4 DEF CreateRow, TypeOK, Goto, Answer, RowOf, OwnsRow
  <1>5. CASE FindRaced(r)
    BY <1>0, <1>5 DEF FindRaced, TypeOK, Goto, Answer, RowOf, OwnsRow
  <1>6. CASE ExecuteEffect(r)
    BY <1>0, <1>6 DEF ExecuteEffect, TypeOK, Goto, Answer, RowOf, OwnsRow
  <1>7. CASE ExecuteThrows(r)
    BY <1>0, <1>7 DEF ExecuteThrows, TypeOK, Goto, Answer, RowOf, OwnsRow
  <1>8. CASE ExecuteReturns(r)
    BY <1>0, <1>8 DEF ExecuteReturns, TypeOK, Goto, Answer, RowOf, OwnsRow
  <1>9. CASE StoreResponse(r)
    BY <1>0, <1>9 DEF StoreResponse, TypeOK, Goto, Answer, RowOf, OwnsRow
  <1>10. CASE StoreFails(r)
    BY <1>0, <1>10 DEF StoreFails, TypeOK, Goto, Answer, RowOf, OwnsRow
  <1>11. CASE Release(r)
    BY <1>0, <1>11 DEF Release, TypeOK, Goto, Answer, RowOf, OwnsRow
  <1>12. CASE Crash(r)
    BY <1>0, <1>12 DEF Crash, TypeOK, Goto, Answer, RowOf, OwnsRow
  <1>13. QED
    BY <1>1, <1>2, <1>3, <1>4, <1>5, <1>6, <1>7,
       <1>8, <1>9, <1>10, <1>11, <1>12 DEF Serve

\* It moves the request forward: past the create only by creating a row.
LEMMA OwnProgress ==
  ASSUME TypeOK, NEW r \in Requests, Serve(r) \/ Crash(r)
  PROVE  /\ pc[r] # "answered"
         /\ pc[r] \notin Early => pc'[r] \notin Early /\ now'[r] = now[r]
         /\ pc'[r] = "delete" =>
              /\ RowOf(r) # NoRow
              /\ RowOf(r).expiresAt <= now[r]
              /\ doomed'[r] = RowOf(r).id
         /\ pc'[r] \in {"effected", "store"} =>
              r \in effects' \/ pc[r] \in {"effected", "store"}
         /\ effects' = effects \/ (pc[r] = "execute" /\ effects' = effects \cup {r})
  <1>0. KeyOf[r] \in Keys
    BY IdempotencyAssumption
  <1>1. CASE Start(r)
    BY <1>0, <1>1 DEF Start, TypeOK, Goto, Answer, Early, RowOf
  <1>2. CASE FindExisting(r)
    BY <1>0, <1>2 DEF FindExisting, resolveExistingRecord, TypeOK, Goto, Answer, Early, RowOf
  <1>3. CASE DeleteExpired(r)
    BY <1>0, <1>3 DEF DeleteExpired, TypeOK, Goto, Answer, Early, RowOf
  <1>4. CASE CreateRow(r)
    BY <1>0, <1>4 DEF CreateRow, TypeOK, Goto, Answer, Early, RowOf
  <1>5. CASE FindRaced(r)
    BY <1>0, <1>5 DEF FindRaced, resolveExistingRecord, TypeOK, Goto, Answer, Early, RowOf
  <1>6. CASE ExecuteEffect(r)
    BY <1>0, <1>6 DEF ExecuteEffect, TypeOK, Goto, Answer, Early, RowOf
  <1>7. CASE ExecuteThrows(r)
    BY <1>0, <1>7 DEF ExecuteThrows, TypeOK, Goto, Answer, Early, RowOf
  <1>8. CASE ExecuteReturns(r)
    BY <1>0, <1>8 DEF ExecuteReturns, TypeOK, Goto, Answer, Early, RowOf
  <1>9. CASE StoreResponse(r)
    BY <1>0, <1>9 DEF StoreResponse, TypeOK, Goto, Answer, Early, RowOf
  <1>10. CASE StoreFails(r)
    BY <1>0, <1>10 DEF StoreFails, TypeOK, Goto, Answer, Early, RowOf
  <1>11. CASE Release(r)
    BY <1>0, <1>11 DEF Release, TypeOK, Goto, Answer, Early, RowOf
  <1>12. CASE Crash(r)
    BY <1>0, <1>12 DEF Crash, TypeOK, Goto, Answer, Early, RowOf
  <1>13. QED
    BY <1>1, <1>2, <1>3, <1>4, <1>5, <1>6, <1>7,
       <1>8, <1>9, <1>10, <1>11, <1>12 DEF Serve

\* It executes only what it was executing or has just claimed.
LEMMA OwnExecution ==
  ASSUME TypeOK, NEW r \in Requests, Serve(r) \/ Crash(r)
  PROVE  /\ pc'[r] \in ExecutingSteps =>
              pc[r] \in ExecutingSteps \/ (pc[r] = "create" /\ OwnsRow(r)')
         /\ pc[r] = "release" => pc'[r] = "answered"
  <1>0. KeyOf[r] \in Keys
    BY IdempotencyAssumption
  <1>1. CASE Start(r)
    BY <1>0, <1>1 DEF Start, TypeOK, Goto, Answer, ExecutingSteps, RowOf, OwnsRow
  <1>2. CASE FindExisting(r)
    BY <1>0, <1>2 DEF FindExisting, resolveExistingRecord, TypeOK, Goto, Answer, ExecutingSteps, RowOf, OwnsRow
  <1>3. CASE DeleteExpired(r)
    BY <1>0, <1>3 DEF DeleteExpired, TypeOK, Goto, Answer, ExecutingSteps, RowOf, OwnsRow
  <1>4. CASE CreateRow(r)
    BY <1>0, <1>4 DEF CreateRow, TypeOK, Goto, Answer, ExecutingSteps, RowOf, OwnsRow
  <1>5. CASE FindRaced(r)
    BY <1>0, <1>5 DEF FindRaced, resolveExistingRecord, TypeOK, Goto, Answer, ExecutingSteps, RowOf, OwnsRow
  <1>6. CASE ExecuteEffect(r)
    BY <1>0, <1>6 DEF ExecuteEffect, TypeOK, Goto, Answer, ExecutingSteps, RowOf, OwnsRow
  <1>7. CASE ExecuteThrows(r)
    BY <1>0, <1>7 DEF ExecuteThrows, TypeOK, Goto, Answer, ExecutingSteps, RowOf, OwnsRow
  <1>8. CASE ExecuteReturns(r)
    BY <1>0, <1>8 DEF ExecuteReturns, TypeOK, Goto, Answer, ExecutingSteps, RowOf, OwnsRow
  <1>9. CASE StoreResponse(r)
    BY <1>0, <1>9 DEF StoreResponse, TypeOK, Goto, Answer, ExecutingSteps, RowOf, OwnsRow
  <1>10. CASE StoreFails(r)
    BY <1>0, <1>10 DEF StoreFails, TypeOK, Goto, Answer, ExecutingSteps, RowOf, OwnsRow
  <1>11. CASE Release(r)
    BY <1>0, <1>11 DEF Release, TypeOK, Goto, Answer, ExecutingSteps, RowOf, OwnsRow
  <1>12. CASE Crash(r)
    BY <1>0, <1>12 DEF Crash, TypeOK, Goto, Answer, ExecutingSteps, RowOf, OwnsRow
  <1>13. QED
    BY <1>1, <1>2, <1>3, <1>4, <1>5, <1>6, <1>7,
       <1>8, <1>9, <1>10, <1>11, <1>12 DEF Serve

\* It answers at most once, and a replay is of the stored response.
LEMMA OwnAnswer ==
  ASSUME TypeOK, NEW r \in Requests, Serve(r) \/ Crash(r)
  PROVE  /\ pc'[r] # "answered" => outcome'[r] = outcome[r]
         /\ outcome'[r] # outcome[r] /\ outcome'[r].kind = "replay" =>
              /\ pc[r] \in Early
              /\ RowOf(r).requestHash = HashOf[r]
              /\ RowOf(r).responseBody # None
              /\ outcome'[r].body = RowOf(r).responseBody
  <1>0. KeyOf[r] \in Keys
    BY IdempotencyAssumption
  <1>1. CASE Start(r)
    BY <1>0, <1>1 DEF Start, TypeOK, Goto, Answer, Early
  <1>2. CASE FindExisting(r)
    BY <1>0, <1>2 DEF FindExisting, resolveExistingRecord, TypeOK, Goto, Answer, Early
  <1>3. CASE DeleteExpired(r)
    BY <1>0, <1>3 DEF DeleteExpired, TypeOK, Goto, Answer, Early
  <1>4. CASE CreateRow(r)
    BY <1>0, <1>4 DEF CreateRow, TypeOK, Goto, Answer, Early
  <1>5. CASE FindRaced(r)
    BY <1>0, <1>5 DEF FindRaced, resolveExistingRecord, TypeOK, Goto, Answer, Early
  <1>6. CASE ExecuteEffect(r)
    BY <1>0, <1>6 DEF ExecuteEffect, TypeOK, Goto, Answer, Early
  <1>7. CASE ExecuteThrows(r)
    BY <1>0, <1>7 DEF ExecuteThrows, TypeOK, Goto, Answer, Early
  <1>8. CASE ExecuteReturns(r)
    BY <1>0, <1>8 DEF ExecuteReturns, TypeOK, Goto, Answer, Early
  <1>9. CASE StoreResponse(r)
    BY <1>0, <1>9 DEF StoreResponse, TypeOK, Goto, Answer, Early
  <1>10. CASE StoreFails(r)
    BY <1>0, <1>10 DEF StoreFails, TypeOK, Goto, Answer, Early
  <1>11. CASE Release(r)
    BY <1>0, <1>11 DEF Release, TypeOK, Goto, Answer, Early
  <1>12. CASE Crash(r)
    BY <1>0, <1>12 DEF Crash, TypeOK, Goto, Answer, Early
  <1>13. QED
    BY <1>1, <1>2, <1>3, <1>4, <1>5, <1>6, <1>7,
       <1>8, <1>9, <1>10, <1>11, <1>12 DEF Serve

-----------------------------------------------------------------------------
(***************************************************************************)
(* A step of a request preserves the invariant: one lemma per conjunct.    *)
(***************************************************************************)
LEMMA RowsOfCreatorsStep ==
  ASSUME IInv, NEW r \in Requests, Serve(r) \/ Crash(r), TypeOK'
  PROVE  RowsOfCreators'
  <1>1. TypeOK /\ KeyOf[r] \in Keys
    BY IdempotencyAssumption DEF IInv
  <1> SUFFICES ASSUME NEW k \in Keys, table'[k] # NoRow
               PROVE  /\ KeyOf[table'[k].id] = k
                      /\ table'[k].requestHash = HashOf[table'[k].id]
                      /\ table'[k].expiresAt = computeExpiry(now'[table'[k].id])
                      /\ pc'[table'[k].id] \notin Early
    BY DEF RowsOfCreators
  <1>2. table[k] # NoRow =>
          /\ table[k].id \in Requests
          /\ KeyOf[table[k].id] = k
          /\ table[k].requestHash = HashOf[table[k].id]
          /\ table[k].expiresAt = computeExpiry(now[table[k].id])
          /\ pc'[table[k].id] \notin Early
          /\ now'[table[k].id] = now[table[k].id]
    BY <1>1, RowFacts, Frame, OwnProgress DEF IInv, RowsOfCreators
  <1>3. CASE table'[k] = table[k]
    BY <1>2, <1>3
  <1>4. CASE k = KeyOf[r] /\ table'[k] = [id |-> r, requestHash |-> HashOf[r],
                responseBody |-> None, expiresAt |-> computeExpiry(now[r])]
             /\ pc'[r] = "execute" /\ now'[r] = now[r]
    BY <1>4 DEF Early
  <1>5. CASE k = KeyOf[r] /\ table[k].id = r /\ table'[k] = [table[k] EXCEPT !.responseBody = r]
    <2>1. table[k] \in Row /\ table[k] # NoRow
      BY <1>1, <1>5, RowFacts DEF TypeOK
    <2>2. /\ table'[k].id = table[k].id
          /\ table'[k].requestHash = table[k].requestHash
          /\ table'[k].expiresAt = table[k].expiresAt
      BY <1>5, <2>1 DEF Row
    <2>3. QED
      BY <1>2, <2>1, <2>2
  <1>6. CASE k # KeyOf[r]
    BY <1>1, <1>3, <1>6, Frame
  <1>7. CASE k = KeyOf[r]
    <2>1. \/ table'[k] = table[k]
          \/ table'[k] = NoRow
          \/ /\ table'[k] = [id |-> r, requestHash |-> HashOf[r],
                            responseBody |-> None, expiresAt |-> computeExpiry(now[r])]
             /\ pc'[r] = "execute"
             /\ now'[r] = now[r]
          \/ table[k].id = r /\ table'[k] = [table[k] EXCEPT !.responseBody = r]
      BY <1>1, <1>7, RowMoves
    <2>2. QED
      BY <2>1, <1>3, <1>4, <1>5, <1>7
  <1>8. QED
    BY <1>6, <1>7

\* A request that executes, or has taken effect, still holds its row, or its
\* window is over, or it has failed.
LEMMA ExecutorHoldsRowStep ==
  ASSUME IInv, NEW r \in Requests, Serve(r) \/ Crash(r), RowsOfCreators'
  PROVE  ExecutorHoldsRow'
  <1>1. TypeOK /\ KeyOf[r] \in Keys /\ clock \in Nat
    BY IdempotencyAssumption DEF IInv, TypeOK
  <1> SUFFICES ASSUME NEW s \in Requests, pc'[s] \in ExecutingSteps \/ s \in effects'
               PROVE  \/ table'[KeyOf[s]].id = s
                      \/ computeExpiry(now'[s]) <= clock'
                      \/ outcome'[s].kind = "failed"
    <2>1. effects' \subseteq Requests
      BY <1>1, OwnProgress DEF TypeOK
    <2>2. QED
      BY <2>1 DEF ExecutorHoldsRow, Executing, OwnsRow, RowOf, WindowOver
  <1>2. CASE pc[s] \notin ExecutingSteps /\ s \notin effects
    <2>1. s \notin effects'
      BY <1>1, <1>2, OwnProgress DEF ExecutingSteps
    <2>2. QED
      BY <1>1, <1>2, <2>1, Frame, OwnExecution DEF OwnsRow, RowOf
  <1>3. CASE pc[s] \in ExecutingSteps \/ s \in effects
    <2>1. /\ table[KeyOf[s]].id = s \/ computeExpiry(now[s]) <= clock
             \/ outcome[s].kind = "failed"
          /\ pc[s] \notin Early
      BY <1>3 DEF IInv, ExecutorHoldsRow, Executing, OwnsRow, RowOf, WindowOver,
                  ReturnedTookEffect, Early, ExecutingSteps
    <2>2. KeyOf[s] \in Keys /\ now'[s] = now[s] /\ clock' = clock
      BY <1>1, <2>1, Frame, OwnProgress, IdempotencyAssumption
    <2>3. CASE computeExpiry(now[s]) <= clock
      BY <2>2, <2>3
    <2>4. CASE outcome[s].kind = "failed"
      <3>1. pc[s] = "answered"
        BY <2>4 DEF IInv, AnsweredLast, NoOutcome
      <3>2. s # r
        BY <1>1, <3>1, OwnProgress
      <3>3. QED
        BY <1>1, <2>4, <3>2, Frame
    <2>5. CASE table[KeyOf[s]].id = s
      <3>1. CASE table'[KeyOf[s]] = table[KeyOf[s]]
        BY <2>5, <3>1
      <3>2. CASE KeyOf[s] = KeyOf[r] /\ pc[r] = "delete" /\ table[KeyOf[r]].id = doomed[r]
        BY <2>2, <2>5, <3>2 DEF IInv, DoomedExpired
      <3>3. CASE /\ KeyOf[s] = KeyOf[r]
                 /\ table[KeyOf[r]].id = r
                 /\ outcome'[r].kind = "failed"
        BY <2>5, <3>3
      <3>4. table[KeyOf[s]] # NoRow
        BY <1>1, <2>2, <2>5, RowFacts
      <3>5. CASE table'[KeyOf[s]] = [table[KeyOf[s]] EXCEPT !.responseBody = r]
        BY <1>1, <2>2, <2>5, <3>4, <3>5 DEF TypeOK, Row
      <3>6. CASE KeyOf[s] # KeyOf[r]
        BY <1>1, <2>2, <2>5, <3>6, Frame
      <3>7. CASE KeyOf[s] = KeyOf[r]
        BY <1>1, <3>1, <3>2, <3>3, <3>4, <3>5, <3>7, RowMoves
      <3>8. QED
        BY <3>6, <3>7
    <2>6. QED
      BY <2>1, <2>3, <2>4, <2>5
  <1>4. QED
    BY <1>2, <1>3

\* A row a request is about to delete, if still there, is expired by the clock.
LEMMA DoomedExpiredStep ==
  ASSUME IInv, NEW r \in Requests, Serve(r) \/ Crash(r)
  PROVE  DoomedExpired'
  <1>1. TypeOK /\ KeyOf[r] \in Keys /\ clock' = clock
    BY IdempotencyAssumption, Frame DEF IInv
  <1> SUFFICES ASSUME NEW s \in Requests, pc'[s] = "delete"
               PROVE  /\ doomed'[s] \in Requests
                      /\ computeExpiry(now'[doomed'[s]]) <= clock'
                      /\ pc'[doomed'[s]] \notin Early
    BY DEF DoomedExpired
  <1>2. doomed'[s] \in Requests /\ computeExpiry(now[doomed'[s]]) <= clock
        /\ pc[doomed'[s]] \notin Early
    <2>1. CASE s = r
      <3>1. table[KeyOf[r]] # NoRow /\ doomed'[r] = table[KeyOf[r]].id
            /\ table[KeyOf[r]].expiresAt <= now[r]
        BY <1>1, <2>1, OwnProgress DEF RowOf
      <3>2. /\ doomed'[r] \in Requests
            /\ table[KeyOf[r]].expiresAt = computeExpiry(now[doomed'[r]])
            /\ pc[doomed'[r]] \notin Early
        BY <1>1, <3>1, RowFacts DEF IInv, RowsOfCreators
      <3>3. now[r] <= clock /\ now[r] \in Nat /\ clock \in Nat
            /\ table[KeyOf[r]].expiresAt \in Nat
        BY <1>1, RowFacts DEF TypeOK
      <3>4. QED
        BY <2>1, <3>1, <3>2, <3>3
    <2>2. CASE s # r
      BY <1>1, <2>2, Frame DEF IInv, DoomedExpired
    <2>3. QED
      BY <2>1, <2>2
  <1>3. now'[doomed'[s]] = now[doomed'[s]] /\ pc'[doomed'[s]] \notin Early
    BY <1>1, <1>2, Frame, OwnProgress
  <1>4. QED
    BY <1>1, <1>2, <1>3

\* A stored response is the answer its creator gave.
LEMMA StoredIsFreshStep ==
  ASSUME IInv, NEW r \in Requests, Serve(r) \/ Crash(r)
  PROVE  StoredIsFresh'
  <1>1. TypeOK /\ KeyOf[r] \in Keys
    BY IdempotencyAssumption DEF IInv
  <1> SUFFICES ASSUME NEW k \in Keys, table'[k].responseBody # None
               PROVE  /\ table'[k].responseBody = table'[k].id
                      /\ table'[k].id \in effects'
                      /\ outcome'[table'[k].id] = [kind |-> "fresh", body |-> table'[k].id]
    BY DEF StoredIsFresh
  <1>2. CASE table'[k] = table[k]
    <2>1. /\ table[k].responseBody = table[k].id
          /\ table[k].id \in effects
          /\ outcome[table[k].id] = [kind |-> "fresh", body |-> table[k].id]
      BY <1>2 DEF IInv, StoredIsFresh
    <2>2. table[k].id \in Requests /\ table[k].id # r
      <3>1. table[k].id \in Requests
        BY <1>1, <2>1 DEF TypeOK
      <3>2. pc[table[k].id] = "answered"
        BY <2>1, <3>1 DEF IInv, AnsweredLast, NoOutcome
      <3>3. QED
        BY <1>1, <3>1, <3>2, OwnProgress
    <2>3. QED
      BY <1>1, <1>2, <2>1, <2>2, Frame
  <1>3. CASE k = KeyOf[r] /\ pc[r] = "store" /\ table[k].id = r
             /\ table'[k] = [table[k] EXCEPT !.responseBody = r]
             /\ outcome'[r] = [kind |-> "fresh", body |-> r]
    <2>1. table[k] \in Row
      BY <1>1, <1>3, RowFacts DEF TypeOK
    <2>2. table'[k].id = r /\ table'[k].responseBody = r
      BY <1>3, <2>1 DEF Row
    <2>3. r \in effects'
      BY <1>1, <1>3, Frame DEF IInv, ReturnedTookEffect
    <2>4. QED
      BY <1>3, <2>2, <2>3
  <1>4. CASE table'[k] = NoRow
    BY <1>4 DEF NoRow
  <1>5. CASE k = KeyOf[r] /\ table'[k] = [id |-> r, requestHash |-> HashOf[r],
                responseBody |-> None, expiresAt |-> computeExpiry(now[r])]
    BY <1>5
  <1>6. QED
    BY <1>1, <1>2, <1>3, <1>4, <1>5, Frame, RowMoves

\* What a request has done by its control point stays recorded.
LEMMA HistoryStep ==
  ASSUME IInv, NEW r \in Requests, Serve(r) \/ Crash(r)
  PROVE  ReturnedTookEffect' /\ AnsweredLast'
  <1>1. TypeOK /\ r \in Requests
    BY DEF IInv
  <1>2. ReturnedTookEffect'
    <2> SUFFICES ASSUME NEW s \in Requests
                 PROVE  /\ pc'[s] \in {"effected", "store"} => s \in effects'
                        /\ s \in effects' => pc'[s] \notin Early
      BY DEF ReturnedTookEffect
    <2>1. pc'[s] \in {"effected", "store"} => s \in effects'
      BY <1>1, Frame, OwnProgress DEF IInv, ReturnedTookEffect
    <2>2. pc[s] \notin Early => pc'[s] \notin Early
      BY <1>1, Frame, OwnProgress
    <2>3. s \in effects' => s \in effects \/ (s = r /\ pc[s] = "execute")
      BY <1>1, OwnProgress
    <2>4. QED
      BY <2>1, <2>2, <2>3 DEF IInv, ReturnedTookEffect, Early
  <1>3. AnsweredLast'
    BY <1>1, Frame, OwnProgress, OwnAnswer DEF IInv, AnsweredLast
  <1>4. QED
    BY <1>2, <1>3

\* A replay, old or new, is the answer of the row's creator.
LEMMA ReplayIsOriginalStep ==
  ASSUME IInv, NEW r \in Requests, Serve(r) \/ Crash(r)
  PROVE  ReplayIsOriginal'
  <1>1. TypeOK /\ KeyOf[r] \in Keys
    BY IdempotencyAssumption DEF IInv
  <1> SUFFICES ASSUME NEW s \in Requests, outcome'[s].kind = "replay"
               PROVE  /\ outcome'[s].body \in effects' \ {s}
                      /\ KeyOf[outcome'[s].body] = KeyOf[s]
                      /\ HashOf[outcome'[s].body] = HashOf[s]
                      /\ outcome'[outcome'[s].body] =
                           [kind |-> "fresh", body |-> outcome'[s].body]
    BY DEF ReplayIsOriginal
  <1> DEFINE origin == outcome'[s].body
  <1>2. /\ origin \in effects \ {s}
        /\ KeyOf[origin] = KeyOf[s]
        /\ HashOf[origin] = HashOf[s]
        /\ outcome[origin] = [kind |-> "fresh", body |-> origin]
    <2>1. CASE outcome'[s] = outcome[s]
      BY <2>1 DEF IInv, ReplayIsOriginal
    <2>2. CASE outcome'[s] # outcome[s]
      <3>1. s = r
        BY <1>1, <2>2, Frame
      <3>2. /\ pc[r] \in Early
            /\ table[KeyOf[r]].requestHash = HashOf[r]
            /\ table[KeyOf[r]].responseBody # None
            /\ origin = table[KeyOf[r]].responseBody
        BY <1>1, <2>2, <3>1, OwnAnswer DEF RowOf
      <3>3. /\ origin = table[KeyOf[r]].id
            /\ origin \in effects
            /\ outcome[origin] = [kind |-> "fresh", body |-> origin]
        BY <1>1, <3>2 DEF IInv, StoredIsFresh
      <3>4. table[KeyOf[r]] # NoRow
        BY <3>2 DEF NoRow
      <3>5. /\ KeyOf[origin] = KeyOf[r]
            /\ HashOf[origin] = HashOf[r]
            /\ pc[origin] \notin Early
        BY <1>1, <3>2, <3>3, <3>4 DEF IInv, RowsOfCreators
      <3>6. QED
        BY <3>1, <3>2, <3>3, <3>5
    <2>3. QED
      BY <2>1, <2>2
  <1>3. origin \in Requests /\ origin # r
    <2>1. origin \in Requests
      BY <1>1, <1>2 DEF TypeOK
    <2>2. pc[origin] = "answered"
      BY <1>2, <2>1 DEF IInv, AnsweredLast, NoOutcome
    <2>3. QED
      BY <1>1, <2>1, <2>2, OwnProgress
  <1>4. effects \subseteq effects' /\ outcome'[origin] = outcome[origin]
    BY <1>1, <1>3, Frame
  <1>5. QED
    BY <1>2, <1>4

-----------------------------------------------------------------------------
(***************************************************************************)
(* The invariant, and what follows from it.                                *)
(***************************************************************************)
LEMMA IInvInit == Init => IInv
  <1> SUFFICES ASSUME Init
               PROVE  IInv
    OBVIOUS
  <1>1. TypeOK
    BY TypeInit
  <1>2. RowsOfCreators /\ StoredIsFresh
    BY DEF Init, RowsOfCreators, StoredIsFresh, NoRow
  <1>3. ExecutorHoldsRow /\ DoomedExpired /\ ReturnedTookEffect
    BY DEF Init, ExecutorHoldsRow, Executing, ExecutingSteps, DoomedExpired, ReturnedTookEffect
  <1>4. AnsweredLast /\ ReplayIsOriginal
    BY DEF Init, AnsweredLast, ReplayIsOriginal, NoOutcome
  <1>5. QED
    BY <1>1, <1>2, <1>3, <1>4 DEF IInv

\* Time passing and the cleanup of expired rows preserve it too.
LEMMA IInvTick == IInv /\ Tick => IInv'
  <1> SUFFICES ASSUME IInv, Tick
               PROVE  IInv'
    OBVIOUS
  <1>1. TypeOK'
    BY TypeStep DEF IInv, Next
  <1>2. clock \in Nat /\ clock' = clock + 1
        /\ UNCHANGED <<table, pc, now, doomed, effects, outcome>>
    BY DEF Tick, IInv, TypeOK
  <1>3. RowsOfCreators' /\ StoredIsFresh' /\ ReturnedTookEffect'
        /\ AnsweredLast' /\ ReplayIsOriginal'
    BY <1>2 DEF IInv, RowsOfCreators, StoredIsFresh, ReturnedTookEffect,
                AnsweredLast, ReplayIsOriginal
  <1>4. \A s \in Requests : computeExpiry(now[s]) \in Nat
    BY IdempotencyAssumption DEF IInv, TypeOK, computeExpiry
  <1>5. ExecutorHoldsRow'
    <2> SUFFICES ASSUME NEW s \in Requests, pc[s] \in ExecutingSteps \/ s \in effects
                 PROVE  \/ table[KeyOf[s]].id = s
                        \/ computeExpiry(now[s]) <= clock + 1
                        \/ outcome[s].kind = "failed"
      BY <1>2 DEF IInv, TypeOK, ExecutorHoldsRow, Executing, OwnsRow, RowOf, WindowOver
    <2>1. \/ table[KeyOf[s]].id = s
          \/ computeExpiry(now[s]) <= clock
          \/ outcome[s].kind = "failed"
      BY DEF IInv, ExecutorHoldsRow, Executing, OwnsRow, RowOf, WindowOver
    <2>2. QED
      BY <1>2, <1>4, <2>1
  <1>6. DoomedExpired'
    BY <1>2, <1>4 DEF IInv, DoomedExpired
  <1>7. QED
    BY <1>1, <1>3, <1>5, <1>6 DEF IInv

\* The cleanup's deletes keep the invariant: they remove expired rows only.
LEMMA IInvPurge ==
  ASSUME IInv, NEW ks \in SUBSET Keys, PurgeExpired(ks)
  PROVE  IInv'
  <1>1. TypeOK'
    BY TypeStep DEF IInv, Next
  <1>2. /\ UNCHANGED <<clock, pc, now, doomed, effects, outcome>>
        /\ \A k \in Keys : table'[k] = IF k \in ks THEN NoRow ELSE table[k]
        /\ \A k \in ks : table[k] # NoRow /\ table[k].expiresAt < clock
    BY DEF PurgeExpired
  <1>3. RowsOfCreators' /\ StoredIsFresh'
    BY <1>2 DEF IInv, RowsOfCreators, StoredIsFresh, NoRow
  <1>4. DoomedExpired' /\ ReturnedTookEffect' /\ AnsweredLast' /\ ReplayIsOriginal'
    BY <1>2 DEF IInv, DoomedExpired, ReturnedTookEffect, AnsweredLast, ReplayIsOriginal
  <1>5. ExecutorHoldsRow'
    <2> SUFFICES ASSUME NEW s \in Requests, pc[s] \in ExecutingSteps \/ s \in effects,
                        outcome[s].kind # "failed"
                 PROVE  table'[KeyOf[s]].id = s \/ computeExpiry(now[s]) <= clock
      BY <1>2 DEF IInv, TypeOK, ExecutorHoldsRow, Executing, OwnsRow, RowOf, WindowOver
    <2>1. KeyOf[s] \in Keys /\ TypeOK
      BY IdempotencyAssumption DEF IInv
    <2>2. table[KeyOf[s]].id = s \/ computeExpiry(now[s]) <= clock
      BY DEF IInv, ExecutorHoldsRow, Executing, OwnsRow, RowOf, WindowOver
    <2>3. CASE KeyOf[s] \in ks /\ table[KeyOf[s]].id = s
      <3>1. computeExpiry(now[s]) < clock
        BY <1>2, <2>1, <2>3 DEF IInv, RowsOfCreators
      <3>2. QED
        BY <2>1, <3>1, IdempotencyAssumption DEF TypeOK, computeExpiry
    <2>4. QED
      BY <1>2, <2>1, <2>2, <2>3
  <1>6. QED
    BY <1>1, <1>3, <1>4, <1>5 DEF IInv

\* Every step keeps the invariant.
LEMMA IInvStep == IInv /\ [Next]_vars => IInv'
  <1> SUFFICES ASSUME IInv, [Next]_vars
               PROVE  IInv'
    OBVIOUS
  <1>0. TypeOK'
    BY TypeStep DEF IInv
  <1>1. ASSUME NEW r \in Requests, Serve(r) \/ Crash(r)
        PROVE  IInv'
    <2>1. RowsOfCreators'
      BY <1>0, <1>1, RowsOfCreatorsStep
    <2>2. ExecutorHoldsRow'
      BY <1>1, <2>1, ExecutorHoldsRowStep
    <2>3. QED
      BY <1>0, <1>1, <2>1, <2>2, DoomedExpiredStep, StoredIsFreshStep,
         HistoryStep, ReplayIsOriginalStep DEF IInv
  <1>2. CASE UNCHANGED vars
    BY <1>2
    DEF vars, IInv, TypeOK, RowsOfCreators, ExecutorHoldsRow, Executing, OwnsRow,
        RowOf, WindowOver, DoomedExpired, StoredIsFresh, ReturnedTookEffect,
        AnsweredLast, ReplayIsOriginal
  <1>3. QED
    BY <1>1, <1>2, IInvTick, IInvPurge DEF Next

\* The inductive invariant holds in every reachable state.
THEOREM Invariance == Spec => []IInv
  BY IInvInit, IInvStep, PTL DEF Spec

\* Two requests never run the use case under one key, at the same time or one
\* after the other, unless one of them has outlived its TTL or has failed: the
\* row in the table has one creator, and each of them is that creator, is
\* late, or has given the row back in its own catch block.
THEOREM OneExecutor == Spec => []SingleExecutor
  <1>1. IInv => SingleExecutor
    BY DEF IInv, ExecutorHoldsRow, SingleExecutor, OwnsRow, RowOf
  <1>2. QED
    BY <1>1, Invariance, PTL

\* What a retry is given is what the first request answered.
THEOREM ReplaysAreOriginal == Spec => []ReplayIsOriginal
  <1>1. IInv => ReplayIsOriginal
    BY DEF IInv
  <1>2. QED
    BY <1>1, Invariance, PTL

\* No step takes a row away from a request that is still entitled to it.
THEOREM LiveRowsStay == Spec => LiveRowKept
  <1> DEFINE Kept == \A k \in Keys :
               table[k] # NoRow /\ table'[k].id # table[k].id =>
                 table[k].expiresAt <= clock \/ pc[table[k].id] = "release"
  <1>1. IInv /\ [Next]_vars => [Kept]_vars
    <2> SUFFICES ASSUME IInv, Next, NEW k \in Keys,
                        table[k] # NoRow, table'[k].id # table[k].id
                 PROVE  table[k].expiresAt <= clock \/ pc[table[k].id] = "release"
      OBVIOUS
    <2>1. TypeOK
      BY DEF IInv
    <2>2. ASSUME NEW r \in Requests, Serve(r) \/ Crash(r)
          PROVE  table[k].expiresAt <= clock \/ pc[table[k].id] = "release"
      <3>1. k = KeyOf[r] /\ KeyOf[r] \in Keys
        BY <2>1, <2>2, Frame
      <3>2. CASE pc[r] = "delete" /\ table[k].id = doomed[r]
        BY <3>2 DEF IInv, DoomedExpired, RowsOfCreators
      <3>3. CASE pc[r] = "release" /\ table[k].id = r
        BY <3>3
      <3>4. CASE table'[k] = [table[k] EXCEPT !.responseBody = r]
        BY <2>1, <3>4 DEF TypeOK, Row
      <3>5. QED
        BY <2>1, <2>2, <3>1, <3>2, <3>3, <3>4, RowMoves
    <2>3. CASE Tick
      BY <2>3 DEF Tick
    <2>4. ASSUME NEW ks \in SUBSET Keys, PurgeExpired(ks)
          PROVE  table[k].expiresAt <= clock
      <3>1. k \in ks
        BY <2>4 DEF PurgeExpired
      <3>2. table[k].expiresAt < clock /\ table[k].expiresAt \in Nat /\ clock \in Nat
        BY <2>1, <2>4, <3>1, RowFacts DEF PurgeExpired, TypeOK
      <3>3. QED
        BY <3>2
    <2>5. QED
      BY <2>2, <2>3, <2>4 DEF Next
  <1>2. QED
    BY <1>1, Invariance, PTL DEF Spec, LiveRowKept

-----------------------------------------------------------------------------
(***************************************************************************)
(* The service keeps the promise of ReplayStore: every step is a step of   *)
(* the store or changes nothing that the store shows.                      *)
(***************************************************************************)
WindowOf(row) == [owner |-> row.id, response |-> row.responseBody,
                  closesAt |-> row.expiresAt]

Window == [k \in Keys |-> WindowOf(table[k])]

\* Init: an empty table is a store with every window closed.
LEMMA PromiseInit == Init => Promise!StoreInit
  BY DEF Init, Promise!StoreInit, Promise!Closed, Promise!NoOutcome, NoRow, NoOutcome

\* A request that answers without touching the table.
LEMMA PromiseAnswer ==
  ASSUME IInv, NEW r \in Requests, NEW kind \in {"conflict", "failed", "uncaught", "lost"},
         pc[r] # "answered", Answer(r, kind, None), UNCHANGED <<clock, table>>
  PROVE  Promise!Refuse(r) \/ Promise!Break(r)
  BY DEF IInv, AnsweredLast, Answer, NoOutcome,
         Promise!Refuse, Promise!Break, Promise!Answer, Promise!NoOutcome

\* A request that reads a row that blocks it.
LEMMA PromiseResolve ==
  ASSUME IInv, NEW r \in Requests, pc[r] # "answered",
         resolveExistingRecord(r, RowOf(r)), UNCHANGED <<clock, table>>
  PROVE  Promise!Replay(r) \/ Promise!Refuse(r)
  <1>1. KeyOf[r] \in Keys /\ TypeOK /\ outcome[r] = NoOutcome
    BY IdempotencyAssumption DEF IInv, AnsweredLast
  <1>2. CASE /\ RowOf(r).requestHash = HashOf[r]
             /\ RowOf(r).responseBody # None
             /\ Answer(r, "replay", RowOf(r).responseBody)
    <2>1. RowOf(r) # NoRow /\ RowOf(r).responseBody = RowOf(r).id
      <3>1. RowOf(r) # NoRow
        BY <1>2 DEF NoRow
      <3>2. RowOf(r).responseBody = RowOf(r).id
        BY <1>1, <1>2 DEF RowOf, IInv, StoredIsFresh
      <3>3. QED
        BY <3>1, <3>2
    <2>2. HashOf[RowOf(r).id] = HashOf[r]
      BY <1>1, <1>2, <2>1 DEF RowOf, IInv, RowsOfCreators
    <2>3. QED
      BY <1>1, <1>2, <2>1, <2>2
      DEF RowOf, Answer, NoOutcome, Promise!Replay, Promise!Answer, Promise!NoOutcome
  <1>3. CASE Answer(r, "conflict", None)
    BY <1>1, <1>3 DEF Answer, NoOutcome, Promise!Refuse, Promise!Answer, Promise!NoOutcome
  <1>4. QED
    BY <1>2, <1>3 DEF resolveExistingRecord

\* CreateRow opens a window, or loses a race, which the store does not see.
LEMMA PromiseCreate ==
  ASSUME IInv, NEW r \in Requests, CreateRow(r)
  PROVE  Promise!Open(r) \/ UNCHANGED Promise!storeVars
  <1>1. KeyOf[r] \in Keys /\ TypeOK /\ outcome[r] = NoOutcome
    BY IdempotencyAssumption DEF IInv, AnsweredLast, CreateRow
  <1>2. CASE RowOf(r) = NoRow
    <2> DEFINE row == [id |-> r, requestHash |-> HashOf[r],
                       responseBody |-> None, expiresAt |-> computeExpiry(now[r])]
    <2>1. table[KeyOf[r]] = NoRow /\ table' = [table EXCEPT ![KeyOf[r]] = row]
          /\ UNCHANGED <<clock, outcome>>
      BY <1>2 DEF CreateRow, RowOf
    <2>2. computeExpiry(now[r]) \in 0 .. clock + TTL
      BY <1>1, IdempotencyAssumption DEF TypeOK, computeExpiry
    <2>3. Window[KeyOf[r]] = Promise!Closed
      BY <1>1, <2>1 DEF Window, WindowOf, NoRow, Promise!Closed
    <2>4. Window' = [Window EXCEPT ![KeyOf[r]] =
             [owner |-> r, response |-> None, closesAt |-> computeExpiry(now[r])]]
      BY <1>1, <2>1 DEF Window, WindowOf, TypeOK
    <2>5. QED
      BY <1>1, <2>1, <2>2, <2>3, <2>4
      DEF Window, WindowOf, NoOutcome, Promise!Open, Promise!NoOutcome
  <1>3. CASE RowOf(r) # NoRow
    BY <1>3 DEF CreateRow, Promise!storeVars
  <1>4. QED
    BY <1>2, <1>3

\* StoreResponse completes the window of a request that still owns it.
LEMMA PromiseStore ==
  ASSUME IInv, NEW r \in Requests, StoreResponse(r)
  PROVE  Promise!Complete(r) \/ UNCHANGED Promise!storeVars
  <1>1. KeyOf[r] \in Keys /\ TypeOK /\ outcome[r] = NoOutcome
    BY IdempotencyAssumption DEF IInv, AnsweredLast, StoreResponse
  <1>2. CASE OwnsRow(r)
    <2>1. /\ table[KeyOf[r]].id = r
          /\ table' = [table EXCEPT ![KeyOf[r]].responseBody = r]
          /\ outcome' = [outcome EXCEPT ![r] = [kind |-> "fresh", body |-> r]]
          /\ clock' = clock
      BY <1>2 DEF StoreResponse, OwnsRow, RowOf, Answer
    <2>2. table[KeyOf[r]] \in Row /\ table[KeyOf[r]].responseBody = None
      BY <1>1, <2>1, RowFacts DEF TypeOK, IInv, StoredIsFresh, NoOutcome
    <2>3. Window[KeyOf[r]].owner = r /\ Window[KeyOf[r]].response = None
      BY <1>1, <2>1, <2>2 DEF Window, WindowOf
    <2>4. Window' = [Window EXCEPT ![KeyOf[r]].response = r]
      BY <1>1, <2>1, <2>2, IdempotencyAssumption DEF Window, WindowOf, TypeOK, Row
    <2>5. QED
      BY <1>1, <2>1, <2>3, <2>4
      DEF Window, WindowOf, NoOutcome, Promise!Complete, Promise!Answer, Promise!NoOutcome
  <1>3. CASE ~OwnsRow(r)
    BY <1>3 DEF StoreResponse, Promise!storeVars
  <1>4. QED
    BY <1>2, <1>3

\* Release abandons the window, or breaks without one.
LEMMA PromiseRelease ==
  ASSUME IInv, NEW r \in Requests, Release(r)
  PROVE  Promise!Abandon(r) \/ Promise!Break(r)
  <1>1. KeyOf[r] \in Keys /\ TypeOK /\ outcome[r] = NoOutcome
    BY IdempotencyAssumption DEF IInv, AnsweredLast, Release
  <1>2. CASE OwnsRow(r) /\ table' = [table EXCEPT ![KeyOf[r]] = NoRow]
    <2>1. table[KeyOf[r]].id = r
      BY <1>2 DEF OwnsRow, RowOf
    <2>2. table[KeyOf[r]].responseBody = None
      <3>1. outcome[r] # [kind |-> "fresh", body |-> r]
        BY <1>1 DEF NoOutcome
      <3>2. QED
        BY <1>1, <2>1, <3>1 DEF IInv, StoredIsFresh
    <2>3. Window[KeyOf[r]].owner = r /\ Window[KeyOf[r]].response = None
      BY <1>1, <2>1, <2>2 DEF Window, WindowOf
    <2>4. Window' = [Window EXCEPT ![KeyOf[r]] = Promise!Closed]
      BY <1>1, <1>2 DEF Window, WindowOf, NoRow, Promise!Closed, TypeOK
    <2>5. QED
      BY <1>1, <2>3, <2>4
      DEF Window, WindowOf, NoOutcome, Release, Answer,
          Promise!Abandon, Promise!Answer, Promise!NoOutcome
  <1>3. CASE UNCHANGED table
    BY <1>1, <1>3
    DEF Release, Answer, NoOutcome, Promise!Break, Promise!Answer, Promise!NoOutcome
  <1>4. QED
    BY <1>2, <1>3 DEF Release

\* Rows whose time is over may go, one or several at a time.
LEMMA PromiseExpire ==
  ASSUME TypeOK, NEW ks \in SUBSET Keys,
         \A k \in ks : table[k].expiresAt <= clock,
         table' = [k \in Keys |-> IF k \in ks THEN NoRow ELSE table[k]],
         UNCHANGED <<clock, outcome>>
  PROVE  Promise!Expire(ks)
  <1>1. \A k \in ks : Window[k].closesAt <= clock
    BY DEF Window, WindowOf
  <1>2. Window' = [k \in Keys |-> IF k \in ks THEN Promise!Closed ELSE Window[k]]
    BY DEF Window, WindowOf, NoRow, Promise!Closed
  <1>3. QED
    BY <1>1, <1>2 DEF Window, WindowOf, Promise!Expire

\* DeleteExpired closes a window whose time is over.
LEMMA PromiseDelete ==
  ASSUME IInv, NEW r \in Requests, DeleteExpired(r)
  PROVE  Promise!Expire({KeyOf[r]}) \/ Promise!Break(r)
  <1>1. KeyOf[r] \in Keys /\ TypeOK /\ pc[r] = "delete"
    BY IdempotencyAssumption DEF IInv, DeleteExpired
  <1>2. CASE RowOf(r).id = doomed[r]
    <2>1. table[KeyOf[r]] # NoRow /\ table[KeyOf[r]].id = doomed[r]
      BY <1>1, <1>2, RowFacts DEF RowOf, IInv, DoomedExpired
    <2>2. table[KeyOf[r]].expiresAt <= clock
      BY <1>1, <2>1 DEF IInv, DoomedExpired, RowsOfCreators
    <2>3. table' = [k \in Keys |-> IF k \in {KeyOf[r]} THEN NoRow ELSE table[k]]
      BY <1>1, <1>2 DEF DeleteExpired, TypeOK
    <2>4. UNCHANGED <<clock, outcome>>
      BY <1>2 DEF DeleteExpired
    <2>5. QED
      BY <1>1, <2>2, <2>3, <2>4, PromiseExpire
  <1>3. CASE RowOf(r).id # doomed[r]
    BY <1>1, <1>3
    DEF DeleteExpired, Answer, IInv, AnsweredLast, NoOutcome,
        Promise!Break, Promise!Answer, Promise!NoOutcome
  <1>4. QED
    BY <1>2, <1>3

\* Every step of the service is a step of the store or a stutter.
LEMMA PromiseStep == IInv /\ [Next]_vars => [Promise!StoreNext]_(Promise!storeVars)
  <1> SUFFICES ASSUME IInv, [Next]_vars
               PROVE  Promise!StoreNext \/ UNCHANGED Promise!storeVars
    OBVIOUS
  <1>0. TypeOK
    BY DEF IInv
  <1>1. ASSUME NEW r \in Requests, Serve(r)
        PROVE  Promise!StoreNext \/ UNCHANGED Promise!storeVars
    <2>1. CASE Start(r) \/ ExecuteEffect(r) \/ ExecuteThrows(r)
               \/ ExecuteReturns(r) \/ StoreFails(r)
      BY <2>1
      DEF Start, ExecuteEffect, ExecuteThrows, ExecuteReturns, StoreFails, Promise!storeVars
    <2>2. CASE FindExisting(r)
      <3>1. CASE resolveExistingRecord(r, RowOf(r))
        BY <2>2, <3>1, PromiseResolve DEF FindExisting, Promise!StoreNext
      <3>2. CASE UNCHANGED outcome
        BY <2>2, <3>2 DEF FindExisting, Promise!storeVars
      <3>3. QED
        BY <2>2, <3>1, <3>2 DEF FindExisting
    <2>3. CASE FindRaced(r)
      <3>1. CASE resolveExistingRecord(r, RowOf(r))
        BY <2>3, <3>1, PromiseResolve DEF FindRaced, Promise!StoreNext
      <3>2. CASE Answer(r, "conflict", None)
        BY <2>3, <3>2, PromiseAnswer DEF FindRaced, Promise!StoreNext
      <3>3. QED
        BY <2>3, <3>1, <3>2 DEF FindRaced
    <2>4. CASE DeleteExpired(r)
      <3>1. KeyOf[r] \in Keys
        BY IdempotencyAssumption
      <3>2. QED
        BY <2>4, <3>1, PromiseDelete DEF Promise!StoreNext
    <2>5. QED
      BY <1>1, <2>1, <2>2, <2>3, <2>4, PromiseCreate, PromiseStore, PromiseRelease
      DEF Serve, Promise!StoreNext
  <1>2. ASSUME NEW r \in Requests, Crash(r)
        PROVE  Promise!StoreNext
    BY <1>2, PromiseAnswer DEF Crash, Promise!StoreNext
  <1>3. CASE Tick
    BY <1>0, <1>3 DEF Tick, TypeOK, Promise!StoreNext, Promise!Pass
  <1>4. ASSUME NEW ks \in SUBSET Keys, PurgeExpired(ks)
        PROVE  Promise!StoreNext
    <2>1. \A k \in ks : table[k].expiresAt <= clock
      BY <1>0, <1>4, RowFacts DEF PurgeExpired, TypeOK
    <2>2. QED
      BY <1>0, <1>4, <2>1, PromiseExpire DEF PurgeExpired, Promise!StoreNext
  <1>5. CASE UNCHANGED vars
    BY <1>5 DEF vars, Promise!storeVars
  <1>6. QED
    BY <1>1, <1>2, <1>3, <1>4, <1>5 DEF Next

\* Seen from its answers, the service is a ReplayStore: windows open once,
\* answer with their owner's response and close on failure or expiry only.
THEOREM KeepsPromise == Spec => PromiseKept
  BY PromiseInit, PromiseStep, Invariance, PTL DEF Spec, PromiseKept, Promise!StoreSpec

=============================================================================
