----------------------------- MODULE Idempotency -----------------------------
(***************************************************************************)
(* The Prisma path of the idempotency service                              *)
(* (apps/api/src/common/idempotency/idempotency.service.ts): one action    *)
(* per await, because no transaction spans two of them and requests that   *)
(* carry the same key interleave between any two.  What a request does     *)
(* under the key (activate, transfer, an admin mutation) is one effect     *)
(* that may or may not have happened when the use case throws.             *)
(***************************************************************************)
EXTENDS Naturals

CONSTANTS Requests,   \* the HTTP requests that carry an Idempotency-Key
          Keys,       \* the (idempotency key, endpoint) pairs
          Hashes,     \* the sha256 hashes of canonical payloads
          None,       \* no request, no hash
          KeyOf,      \* the pair a request carries
          HashOf,     \* the hash of its payload
          TTL,        \* IDEMPOTENCY_TTL_HOURS
          MaxClock    \* bound on the wall clock, for model checking only

ASSUME IdempotencyAssumption ==
  /\ None \notin Requests
  /\ KeyOf \in [Requests -> Keys]
  /\ HashOf \in [Requests -> Hashes]
  /\ TTL \in Nat \ {0}
  /\ MaxClock \in Nat

VARIABLES clock,      \* wall clock, shared by the API and the database
          table,      \* idempotency_keys: the row of each pair, or NoRow
          pc,         \* the await each request is at
          now,        \* the Date each request captured when it started
          doomed,     \* id of the expired row a request is about to delete
          effects,    \* history: the requests whose use case took effect
          outcome     \* what each request was answered

vars == <<clock, table, pc, now, doomed, effects, outcome>>

\* A row's id is the request that created it: the uuid default is fresh and
\* a request creates at most one row.  responseBody is the request whose
\* execution produced the stored response.
NoRow == [id |-> None, requestHash |-> None, responseBody |-> None, expiresAt |-> 0]

Row == [id : Requests, requestHash : Hashes,
        responseBody : Requests \cup {None}, expiresAt : Nat]

Steps == {"start", "find", "delete", "create", "raced",
          "execute", "effected", "store", "release", "answered"}

OutcomeKinds == {"none", "fresh", "replay", "conflict", "failed", "uncaught", "lost"}

NoOutcome == [kind |-> "none", body |-> None]

computeExpiry(date) == date + TTL

\* Rows, outcomes and steps have their type, no row outlives the TTL counted
\* from the present, and no request has captured a Date of the future.
TypeOK ==
  /\ clock \in 0 .. MaxClock
  /\ table \in [Keys -> Row \cup {NoRow}]
  /\ \A k \in Keys : table[k].expiresAt <= computeExpiry(clock)
  /\ pc \in [Requests -> Steps]
  /\ now \in [Requests -> 0 .. clock]
  /\ doomed \in [Requests -> Requests \cup {None}]
  /\ effects \in SUBSET Requests
  /\ outcome \in [Requests -> [kind : OutcomeKinds, body : Requests \cup {None}]]

RowOf(r) == table[KeyOf[r]]

\* Whether the row a request created is still there.
OwnsRow(r) == RowOf(r).id = r

Init ==
  /\ clock = 0
  /\ table = [k \in Keys |-> NoRow]
  /\ pc = [r \in Requests |-> "start"]
  /\ now = [r \in Requests |-> 0]
  /\ doomed = [r \in Requests |-> None]
  /\ effects = {}
  /\ outcome = [r \in Requests |-> NoOutcome]

-----------------------------------------------------------------------------
Goto(r, step) == pc' = [pc EXCEPT ![r] = step]

Answer(r, kind, body) ==
  /\ Goto(r, "answered")
  /\ outcome' = [outcome EXCEPT ![r] = [kind |-> kind, body |-> body]]

\* Mutant: the hash of the payload is not compared.
resolveAnyPayload(r, row) ==
  IF row.responseBody # None
  THEN Answer(r, "replay", row.responseBody)
  ELSE Answer(r, "conflict", None)

\* A row that blocks the request: another payload, or no response yet, is a
\* conflict; a stored response is replayed.
resolveExistingRecord(r, row) ==
  IF row.requestHash = HashOf[r] /\ row.responseBody # None
  THEN Answer(r, "replay", row.responseBody)
  ELSE Answer(r, "conflict", None)

\* `const now = new Date()`, before the first await.
Start(r) ==
  /\ pc[r] = "start"
  /\ now' = [now EXCEPT ![r] = clock]
  /\ Goto(r, "find")
  /\ UNCHANGED <<clock, table, doomed, effects, outcome>>

\* findUnique: no row, an expired one (by the Date captured at the start) or
\* an active one.
FindExisting(r) ==
  /\ pc[r] = "find"
  /\ \/ /\ RowOf(r) = NoRow
        /\ Goto(r, "create")
        /\ UNCHANGED <<doomed, outcome>>
     \/ /\ RowOf(r) # NoRow
        /\ RowOf(r).expiresAt <= now[r]
        /\ doomed' = [doomed EXCEPT ![r] = RowOf(r).id]
        /\ Goto(r, "delete")
        /\ UNCHANGED outcome
     \/ /\ RowOf(r) # NoRow
        /\ RowOf(r).expiresAt > now[r]
        /\ resolveExistingRecord(r, RowOf(r))
        /\ UNCHANGED doomed
  /\ UNCHANGED <<clock, table, now, effects>>

\* Mutant: the delete is by key and endpoint.
DeleteExpiredByKey(r) ==
  /\ pc[r] = "delete"
  /\ table' = [table EXCEPT ![KeyOf[r]] = NoRow]
  /\ doomed' = [doomed EXCEPT ![r] = None]
  /\ Goto(r, "create")
  /\ UNCHANGED <<clock, now, effects, outcome>>

\* Delete of the expired row by its id.  When somebody else has deleted it
\* Prisma raises P2025, which nothing catches.
DeleteExpired(r) ==
  /\ pc[r] = "delete"
  /\ \/ /\ RowOf(r).id = doomed[r]
        /\ table' = [table EXCEPT ![KeyOf[r]] = NoRow]
        /\ Goto(r, "create")
        /\ UNCHANGED outcome
     \/ /\ RowOf(r).id # doomed[r]
        /\ Answer(r, "uncaught", None)
        /\ UNCHANGED table
  /\ doomed' = [doomed EXCEPT ![r] = None]
  /\ UNCHANGED <<clock, now, effects>>

\* Mutant: no unique index, the create always succeeds.
CreateRowUnguarded(r) ==
  /\ pc[r] = "create"
  /\ table' = [table EXCEPT ![KeyOf[r]] =
                 [id |-> r, requestHash |-> HashOf[r],
                  responseBody |-> None, expiresAt |-> computeExpiry(now[r])]]
  /\ Goto(r, "execute")
  /\ UNCHANGED <<clock, now, doomed, effects, outcome>>

\* Create of the pending row; the unique index on (key, endpoint) turns the
\* loser of a race to P2002.
CreateRow(r) ==
  /\ pc[r] = "create"
  /\ \/ /\ RowOf(r) = NoRow
        /\ table' = [table EXCEPT ![KeyOf[r]] =
                       [id |-> r, requestHash |-> HashOf[r],
                        responseBody |-> None, expiresAt |-> computeExpiry(now[r])]]
        /\ Goto(r, "execute")
     \/ /\ RowOf(r) # NoRow
        /\ Goto(r, "raced")
        /\ UNCHANGED table
  /\ UNCHANGED <<clock, now, doomed, effects, outcome>>

\* The loser reads the winner's row, whose expiry it does not look at.
FindRaced(r) ==
  /\ pc[r] = "raced"
  /\ IF RowOf(r) = NoRow
     THEN Answer(r, "conflict", None)
     ELSE resolveExistingRecord(r, RowOf(r))
  /\ UNCHANGED <<clock, table, now, doomed, effects>>

\* The use case commits what it does.
ExecuteEffect(r) ==
  /\ pc[r] = "execute"
  /\ effects' = effects \cup {r}
  /\ Goto(r, "effected")
  /\ UNCHANGED <<clock, table, now, doomed, outcome>>

\* The use case throws, before or after what it does is committed.
ExecuteThrows(r) ==
  /\ pc[r] \in {"execute", "effected"}
  /\ Goto(r, "release")
  /\ UNCHANGED <<clock, table, now, doomed, effects, outcome>>

\* The use case returns a response.
ExecuteReturns(r) ==
  /\ pc[r] = "effected"
  /\ Goto(r, "store")
  /\ UNCHANGED <<clock, table, now, doomed, effects, outcome>>

\* Mutant: the update is by key and endpoint, whoever's row is there.
StoreResponseByKey(r) ==
  /\ pc[r] = "store"
  /\ table' = [table EXCEPT ![KeyOf[r]].responseBody = r]
  /\ Answer(r, "fresh", r)
  /\ UNCHANGED <<clock, now, doomed, effects>>

\* Update of the row by its id; a row that is gone raises P2025 into the
\* catch block.
StoreResponse(r) ==
  /\ pc[r] = "store"
  /\ \/ /\ OwnsRow(r)
        /\ table' = [table EXCEPT ![KeyOf[r]].responseBody = r]
        /\ Answer(r, "fresh", r)
     \/ /\ ~OwnsRow(r)
        /\ Goto(r, "release")
        /\ UNCHANGED <<table, outcome>>
  /\ UNCHANGED <<clock, now, doomed, effects>>

\* The update itself fails (the database refuses it).
StoreFails(r) ==
  /\ pc[r] = "store"
  /\ Goto(r, "release")
  /\ UNCHANGED <<clock, table, now, doomed, effects, outcome>>

\* Mutant: the catch block deletes by key and endpoint (as executeInMemory does).
ReleaseByKey(r) ==
  /\ pc[r] = "release"
  /\ table' = [table EXCEPT ![KeyOf[r]] = NoRow]
  /\ Answer(r, "failed", None)
  /\ UNCHANGED <<clock, now, doomed, effects>>

\* The catch block deletes the row by its id, whatever the use case has
\* done, ignores a failure of the delete, and rethrows.
Release(r) ==
  /\ pc[r] = "release"
  /\ \/ /\ OwnsRow(r)
        /\ table' = [table EXCEPT ![KeyOf[r]] = NoRow]
     \/ UNCHANGED table
  /\ Answer(r, "failed", None)
  /\ UNCHANGED <<clock, now, doomed, effects>>

-----------------------------------------------------------------------------
\* The process that serves the request dies between two awaits.
Crash(r) ==
  /\ pc[r] \notin {"start", "answered"}
  /\ Answer(r, "lost", None)
  /\ UNCHANGED <<clock, table, now, doomed, effects>>

Tick ==
  /\ clock < MaxClock
  /\ clock' = clock + 1
  /\ UNCHANGED <<table, pc, now, doomed, effects, outcome>>

\* What the cleanup script may do to the table in one statement: delete rows
\* whose expiry has passed (IdempotencyCleanup has the script's own steps).
PurgeExpired(ks) ==
  /\ \A k \in ks : table[k] # NoRow /\ table[k].expiresAt < clock
  /\ table' = [k \in Keys |-> IF k \in ks THEN NoRow ELSE table[k]]
  /\ UNCHANGED <<clock, pc, now, doomed, effects, outcome>>

-----------------------------------------------------------------------------
\* The awaits of one request, without failures of the environment.
Serve(r) ==
  \/ Start(r)
  \/ FindExisting(r)
  \/ DeleteExpired(r)
  \/ CreateRow(r)
  \/ FindRaced(r)
  \/ ExecuteEffect(r)
  \/ ExecuteThrows(r)
  \/ ExecuteReturns(r)
  \/ StoreResponse(r)
  \/ StoreFails(r)
  \/ Release(r)

Next ==
  \/ \E r \in Requests : Serve(r) \/ Crash(r)
  \/ Tick
  \/ \E ks \in SUBSET Keys : PurgeExpired(ks)

Spec == Init /\ [][Next]_vars

-----------------------------------------------------------------------------
\* The requests between the create of their row and their answer.
ExecutingSteps == {"execute", "effected", "store", "release"}

Executing == {r \in Requests : pc[r] \in ExecutingSteps}

\* The window of a request that has started to execute is over.
WindowOver(r) == computeExpiry(now[r]) <= clock

\* While one request runs the use case under a key, and after it has run it
\* with effect, no other request of the key does, unless one of the two has
\* outlived its window or has failed after its effect: deleting expired rows,
\* racing creates and crashes never let two in (executeWithPrisma).
SingleExecutor ==
  \A r, s \in Executing \cup effects :
    r # s /\ KeyOf[r] = KeyOf[s] =>
      \E q \in {r, s} : WindowOver(q) \/ outcome[q].kind = "failed"

\* A replayed body is the response of a request with the same key and the
\* same payload, whose use case took effect and which answered with it
\* itself (or died after storing it): a late executor never overwrites the
\* row of its successor and no payload reads another's response.
ReplayIsOriginal ==
  \A r \in Requests : outcome[r].kind = "replay" =>
    LET origin == outcome[r].body
    IN  /\ origin \in effects \ {r}
        /\ KeyOf[origin] = KeyOf[r]
        /\ HashOf[origin] = HashOf[r]
        /\ outcome[origin] = [kind |-> "fresh", body |-> origin]

\* A live row is never taken away from a request that has not failed: the
\* row a request is working under, or has completed, leaves the table only
\* in the request's own catch block or once its window is over.
LiveRowKept ==
  [][\A k \in Keys :
       LET row == table[k]
       IN  row # NoRow /\ table'[k].id # row.id =>
             row.expiresAt <= clock \/ pc[row.id] = "release"]_vars

\* The promise of ReplayStore, with the row as the window.
Promise == INSTANCE ReplayStore WITH
  window <- [k \in Keys |-> [owner |-> table[k].id,
                             response |-> table[k].responseBody,
                             closesAt |-> table[k].expiresAt]]

\* The service implements that promise, step by step: rows, crashes and races
\* never show a client anything ReplayStore does not allow.
PromiseKept == Promise!StoreSpec

-----------------------------------------------------------------------------
\* "mesma chave + mesmo payload -> replay da resposta original"
\* (docs/security/rate-limiting.md:25): within the window of a request that
\* took effect, another request with its key and payload takes no effect.
EffectOncePerWindow ==
  \A r, s \in effects :
    r # s /\ KeyOf[r] = KeyOf[s] /\ HashOf[r] = HashOf[s] =>
      \/ computeExpiry(now[r]) <= now[s]
      \/ computeExpiry(now[s]) <= now[r]

=============================================================================
