-------------------------- MODULE IdempotencyCleanup --------------------------
(***************************************************************************)
(* The batch job that removes expired rows                                 *)
(* (apps/api/scripts/idempotency-cleanup.ts, scheduled daily by            *)
(* .github/workflows/idempotency-cleanup.yml), running beside the API: it  *)
(* reads a batch of ids and deletes them by id in a later statement, and   *)
(* the API deletes and recreates rows of the same keys in between.         *)
(***************************************************************************)
EXTENDS Idempotency, FiniteSets

CONSTANTS BatchSize,   \* --batch-size
          MaxBatches   \* --max-batches

ASSUME CleanupAssumption ==
  /\ BatchSize \in Nat \ {0}
  /\ MaxBatches \in Nat \ {0}

VARIABLE job           \* the locals of main()

cvars == <<vars, job>>

IdleJob == [step |-> "idle", dryRun |-> FALSE, before |-> 0, ids |-> {},
            batches |-> 0, found |-> 0, removed |-> 0]

\* The locals of main have their type, and the loop stays within its cap on
\* batches.
JobTypeOK ==
  job \in [step : {"idle", "select", "delete"}, dryRun : BOOLEAN,
           before : 0 .. clock, ids : SUBSET Requests,
           batches : 0 .. MaxBatches, found : Nat, removed : Nat]

CInit == Init /\ job = IdleJob

-----------------------------------------------------------------------------
\* Mutant: only rows that hold a response are looked for.
ExpiredCompletedIds ==
  {r \in Requests : /\ OwnsRow(r)
                    /\ RowOf(r).responseBody # None
                    /\ RowOf(r).expiresAt < job.before}

\* The ids of the rows that were expired when the job started.
ExpiredIds == {r \in Requests : OwnsRow(r) /\ RowOf(r).expiresAt < job.before}

\* The answers findMany may give: as many of them as `take` lets through,
\* those that expired first before the others.
Batches ==
  {ids \in SUBSET ExpiredIds :
     /\ Cardinality(ids) = IF Cardinality(ExpiredIds) < BatchSize
                           THEN Cardinality(ExpiredIds) ELSE BatchSize
     /\ \A i \in ids, j \in ExpiredIds \ ids :
          RowOf(i).expiresAt <= RowOf(j).expiresAt}

JobStart(dryRun) ==
  /\ job.step = "idle"
  /\ job' = [IdleJob EXCEPT !.step = "select", !.dryRun = dryRun, !.before = clock]
  /\ UNCHANGED vars

\* Mutant: the loop allows one batch too many.
JobSelectOneMore ==
  /\ job.step = "select"
  /\ job.batches <= MaxBatches
  /\ \E ids \in Batches :
       /\ ids # {}
       /\ job' = [job EXCEPT !.batches = @ + 1,
                             !.found = @ + Cardinality(ids),
                             !.ids = IF job.dryRun THEN {} ELSE ids,
                             !.step = IF job.dryRun THEN "select" ELSE "delete"]
  /\ UNCHANGED vars

\* One findMany; a dry run only adds to its count and goes round again.
JobSelect ==
  /\ job.step = "select"
  /\ job.batches < MaxBatches
  /\ \E ids \in Batches :
       /\ ids # {}
       /\ job' = [job EXCEPT !.batches = @ + 1,
                             !.found = @ + Cardinality(ids),
                             !.ids = IF job.dryRun THEN {} ELSE ids,
                             !.step = IF job.dryRun THEN "select" ELSE "delete"]
  /\ UNCHANGED vars

\* Mutant: the rows are deleted by key and endpoint, whoever's they are now.
JobDeleteByKey ==
  LET hit == {k \in Keys : table[k] # NoRow /\ \E r \in job.ids : KeyOf[r] = k}
  IN  /\ job.step = "delete"
      /\ table' = [k \in Keys |-> IF k \in hit THEN NoRow ELSE table[k]]
      /\ job' = [job EXCEPT !.step = "select", !.ids = {},
                            !.removed = @ + Cardinality(hit)]
      /\ UNCHANGED <<clock, pc, now, doomed, effects, outcome>>

\* deleteMany of the ids read before, those that are still there.
JobDelete ==
  LET hit == {k \in Keys : table[k].id \in job.ids}
  IN  /\ job.step = "delete"
      /\ table' = [k \in Keys |-> IF k \in hit THEN NoRow ELSE table[k]]
      /\ job' = [job EXCEPT !.step = "select", !.ids = {},
                            !.removed = @ + Cardinality(hit)]
      /\ UNCHANGED <<clock, pc, now, doomed, effects, outcome>>

\* No more expired rows, or the cap on batches is reached: the process prints
\* its counts and ends.
JobDone ==
  /\ job.step = "select"
  /\ ExpiredIds = {} \/ job.batches = MaxBatches
  /\ job' = IdleJob
  /\ UNCHANGED vars

\* A statement fails and the process exits with status 1.
JobFails ==
  /\ job.step # "idle"
  /\ job' = IdleJob
  /\ UNCHANGED vars

-----------------------------------------------------------------------------
CNext ==
  \/ (\E r \in Requests : Serve(r) \/ Crash(r)) /\ UNCHANGED job
  \/ Tick /\ UNCHANGED job
  \/ \E dryRun \in BOOLEAN : JobStart(dryRun)
  \/ JobSelect
  \/ JobDelete
  \/ JobDone
  \/ JobFails

CSpec == CInit /\ [][CNext]_cvars

\* Time goes on; the schedule starts the job again and again and not every
\* run of it fails at the same statement.  Nothing is assumed of requests.
CFairness ==
  /\ WF_cvars(Tick /\ UNCHANGED job)
  /\ SF_cvars(JobStart(FALSE))
  /\ SF_cvars(~job.dryRun /\ JobSelect)
  /\ SF_cvars(JobDelete)
  /\ WF_cvars(JobSelect \/ JobDone)

FairCSpec == CSpec /\ CFairness

-----------------------------------------------------------------------------
\* The job and the API together do to the table only what Idempotency lets
\* them do: a batch that was read as expired never deletes a row that was
\* created for the same key between the findMany and the deleteMany.
RefinesService == Spec

\* The rows that can expire within the bound on the clock.
Expiring == {r \in Requests : OwnsRow(r) /\ RowOf(r).expiresAt < MaxClock}

\* Rows left by a crash or completed long ago do not stay for ever, however
\* many and however small the batches: whenever there are some that can expire,
\* a time comes when runs of the job and requests have removed them all.
ExpiredRowsRemoved == Expiring # {} ~> Expiring = {}

\* "--dry-run  Only counts expired keys, does not delete."
\* (apps/api/scripts/idempotency-cleanup.ts:68): the count of a dry run is
\* not more than the rows there ever were.
DryRunCountsKeys == job.found <= Cardinality(Requests)

=============================================================================
