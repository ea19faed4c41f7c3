--------------------------- MODULE LegacyLicense ---------------------------
(* The licence service of the legacy system (legacy/sistema-licencas/src):  *)
(* one licence, its subscription and plan, and the table license_devices    *)
(* with the aliases of its rows.  Clients validate (activate, heartbeat and *)
(* authenticate are the same call), transfer and deactivate; administrators *)
(* block, unblock, delete devices, cancel and renew the subscription and    *)
(* change the plan.  Nothing of this runs in a transaction: every query is  *)
(* a step of its own, and calls interleave between the queries.             *)
(*                                                                          *)
(* A machine sends a v1 hash (machine id, disk and MAC) and a v2 hash       *)
(* (machine id and disk only): a new MAC changes the first and not the      *)
(* second.  A machine therefore stands for its v2 hash, and each v1 hash    *)
(* belongs to one machine.                                                  *)
EXTENDS Naturals, FiniteSets

CONSTANTS
  Calls,         \* requests served at the same time
  Rows,          \* identifiers of rows of license_devices
  NoRow,         \* no row (the null of licenseDeviceId)
  Machines,      \* machines; each stands for its v2 hash
  Hashes,        \* v1 hashes
  MachineOf,     \* the machine each v1 hash is computed on
  LegacyRow,     \* the row each v1 hash had in the old system, if any
  PlanSizes,     \* values of planos.max_dispositivos
  Threshold,     \* suspicious failures in an hour that block (30 in the code)
  MaxTransfers,  \* transfers allowed in a month (3 in the code)
  MaxRequests,   \* bound: requests of clients in one behaviour
  MaxActs        \* bound: acts of administrators, hours and months in one behaviour

ASSUME LegacyAssumption ==
  /\ IsFiniteSet(Calls) /\ Calls # {}
  /\ IsFiniteSet(Rows)
  /\ NoRow \notin Rows
  /\ Hashes # {} /\ Machines \cap Hashes = {}
  /\ MachineOf \in [Hashes -> Machines]
  /\ LegacyRow \in [Hashes -> Rows]
  /\ PlanSizes \subseteq Nat \ {0}
  /\ Threshold \in Nat \ {0}
  /\ MaxTransfers \in Nat \ {0}
  /\ MaxRequests \in Nat /\ MaxActs \in Nat

VARIABLES
  status,        \* licencas.status
  max,           \* max_dispositivos of the plan, as committed
  fallback,      \* whether v1 hashes are accepted: the cutoff has not passed
  device,        \* license_devices with the unexpired aliases of each row
  failures,      \* suspicious failures of the last hour, up to Threshold
  transfers,     \* transfers of this month
  call,          \* the locals of each call being served
  change,        \* the locals of the plan change under way
  twins,         \* history: machines that had two v1 rows from the start
  peak,          \* history: the largest plan the licence has had
  requests, acts,  \* history: how many so far, for the bounds
  abused         \* history: a malformed request, or an administrator who
                 \* blocked or stopped the licence

license == <<status, max, fallback>>
counts == <<failures, transfers>>
history == <<twins, peak, abused>>
bounds == <<requests, acts>>
lvars == <<license, device, counts, call, change, history, bounds>>

\* transferida passes the checks like ativa, which stands for both.
Statuses == {"ativa", "inativa", "bloqueada"}
Prints == Machines \cup Hashes
Owner(x) == IF x \in Hashes THEN MachineOf[x] ELSE x

AnyHash == CHOOSE f \in Hashes : TRUE
NoDevice == [state |-> "none", primary |-> AnyHash, aliases |-> {}]
Devices == [state : {"none", "active", "inactive"}, primary : Prints, aliases : SUBSET Hashes]

Exists(r) == device[r].state # "none"
Active(r) == device[r].state = "active"
ActiveRows == {r \in Rows : Active(r)}
Holders(x) == {r \in Rows : Exists(r) /\ device[r].primary = x}
Answering(x) == {r \in Rows : Exists(r) /\ (device[r].primary = x \/ x \in device[r].aliases)}

Steps == {"idle", "counted", "subscription", "exact", "legacy", "reconcile",
          "alias", "promote", "limit", "register", "registerAlias", "record",
          "suspect", "autoblock", "tryV1", "resolve", "deactivate"}

\* hash is the v1 hash of the request; accepts and plan are read once, early;
\* target is the row matched or written; old the v1 hashes to keep as aliases;
\* key the hash a deactivation goes by.
Locals == [pc : Steps, hash : Hashes, accepts : {"v1 and v2", "v2"}, plan : {0} \cup PlanSizes,
           target : Rows \cup {NoRow}, old : SUBSET Hashes, key : Prints,
           op : {"validate", "transfer"}]
Idle == [pc |-> "idle", hash |-> AnyHash, accepts |-> "v1 and v2", plan |-> 0, target |-> NoRow,
         old |-> {}, key |-> AnyHash, op |-> "validate"]
V2(p) == MachineOf[call[p].hash]

\* todo holds the devices still to deactivate, each with the hash it had
\* when it was listed; listed is the one being worked on.
NoChange == [pc |-> "idle", new |-> 0, todo |-> {}, listed |-> NoRow, found |-> NoRow]
Changes == [pc : {"idle", "list", "next", "deactivate"}, new : {0} \cup PlanSizes,
            todo : SUBSET (Rows \X Prints), listed : Rows \cup {NoRow},
            found : Rows \cup {NoRow}]

\* Rows left by the old system have a v1 hash as primary and no alias.  A
\* machine whose MAC changed has two of them.
LInit ==
  /\ status = "ativa" /\ fallback = TRUE
  /\ max \in PlanSizes
  /\ device \in [Rows -> {NoDevice} \cup
                   [state : {"active", "inactive"}, primary : Hashes, aliases : {{}}]]
  /\ \A r \in Rows : Exists(r) => LegacyRow[device[r].primary] = r
  /\ Cardinality(ActiveRows) <= max
  /\ failures = 0 /\ transfers \in 0 .. MaxTransfers
  /\ call = [p \in Calls |-> Idle]
  /\ change = NoChange
  /\ twins = {m \in Machines : \E r, s \in Rows :
                /\ Exists(r) /\ Exists(s) /\ r # s
                /\ Owner(device[r].primary) = m /\ Owner(device[s].primary) = m}
  /\ peak = max /\ abused = FALSE
  /\ requests = 0 /\ acts = 0

\* Helpers of the steps.
At(p, step) == call[p].pc = step
Now(p, locals) == call' = [call EXCEPT ![p] = locals]
Goto(p, step) == Now(p, [call[p] EXCEPT !.pc = step])
Finish(p) == Now(p, Idle)
Put(r, row) == device' = [device EXCEPT ![r] = row]

Ask == requests < MaxRequests /\ requests' = requests + 1 /\ UNCHANGED acts
Act == acts < MaxActs /\ acts' = acts + 1 /\ UNCHANGED requests

\* Mutant: every refusal counts as suspicious.
LogFailureOfAnyReason(p, suspicious) ==
  /\ Now(p, [Idle EXCEPT !.pc = "suspect"])
  /\ failures' = IF failures < Threshold THEN failures + 1 ELSE failures
  /\ UNCHANGED transfers

\* logValidation: the failure is stored, and counts unless its reason is one
\* of the legitimate ones; the count is read in the next step.
LogFailure(p, suspicious) ==
  /\ Now(p, [Idle EXCEPT !.pc = "suspect"])
  /\ failures' = IF suspicious /\ failures < Threshold THEN failures + 1 ELSE failures
  /\ UNCHANGED transfers

----------------------------------------------------------------------------
(* Validation.                                                              *)

\* accepts is evaluated right before the licence is read, after the transfer's
\* own queries if the validation is part of one.  A licence that is not active
\* is refused, as a suspicious failure.
Request(f) == [Idle EXCEPT !.hash = f, !.key = f]

Start(p, request) ==
  IF status = "ativa"
  THEN Now(p, [request EXCEPT !.pc = "subscription", !.accepts =
                                 IF fallback THEN "v1 and v2" ELSE "v2"]) /\ UNCHANGED counts
  ELSE LogFailure(p, TRUE)

Validate(p) ==
  /\ At(p, "idle") /\ Ask
  /\ \E f \in Hashes : Start(p, Request(f))
  /\ UNCHANGED <<license, device, change, history>>

\* No fingerprint, or one whose components do not pass validation.
Malformed(p) ==
  /\ At(p, "idle") /\ Ask
  /\ LogFailure(p, TRUE)
  /\ abused' = TRUE
  /\ UNCHANGED <<license, device, change, twins, peak>>

\* A subscription that is cancelled or has run out, or whose plan lacks the
\* program, refuses: none of the steps below depends on which.
ReadSubscription(p) ==
  /\ At(p, "subscription")
  /\ \/ Now(p, [call[p] EXCEPT !.pc = "exact", !.plan = max]) /\ UNCHANGED counts
     \/ LogFailure(p, FALSE)
  /\ UNCHANGED <<license, device, change, history, bounds>>

\* An active row with the v2 hash as primary.
MatchExact(p) ==
  /\ At(p, "exact")
  /\ \/ \E r \in Holders(V2(p)) \cap ActiveRows :
          Now(p, [call[p] EXCEPT !.pc = "limit", !.target = r])
     \/ Holders(V2(p)) \cap ActiveRows = {} /\ Goto(p, "legacy")
  /\ UNCHANGED <<license, device, counts, change, history, bounds>>

\* An active row that answers to the v1 hash; the primary is preferred.  The
\* hashes the row answers to are kept as aliases when it is promoted.
LegacyMatches(p) ==
  LET f == call[p].hash
  IN IF Holders(f) \cap ActiveRows # {} THEN Holders(f) \cap ActiveRows
                                        ELSE Answering(f) \cap ActiveRows

\* Mutant: the primary that is replaced does not become an alias.
MatchedForgetsPrimary(p, r) ==
  Now(p, [call[p] EXCEPT !.pc = "alias", !.target = r, !.old = {call[p].hash}])

Matched(p, r) ==
  Now(p, [call[p] EXCEPT !.pc = "alias", !.target = r,
            !.old = ({device[r].primary} \cap Hashes) \cup {call[p].hash}])

\* After the cutoff such a row refuses the call, unless the v2 hash was
\* registered meanwhile: the query for it is repeated.
MatchLegacy(p) ==
  /\ At(p, "legacy")
  /\ \/ call[p].accepts = "v1 and v2" /\ UNCHANGED counts
        /\ \/ \E r \in LegacyMatches(p) : Matched(p, r)
           \/ LegacyMatches(p) = {} /\ Goto(p, "reconcile")
     \/ call[p].accepts = "v2"
        /\ \/ /\ LegacyMatches(p) # {} /\ Holders(V2(p)) \cap ActiveRows = {}
              /\ LogFailure(p, FALSE)
           \/ /\ LegacyMatches(p) = {} \/ Holders(V2(p)) \cap ActiveRows # {}
              /\ Goto(p, "limit") /\ UNCHANGED counts
  /\ UNCHANGED <<license, device, change, history, bounds>>

\* Mutant: reconciliation finds nothing.
ReconcileNothing(p) ==
  /\ At(p, "reconcile") /\ Goto(p, "limit")
  /\ UNCHANGED <<license, device, counts, change, history, bounds>>

\* tryReconcileDeviceByStableComponents: the stable components of a row's
\* fingerprints are those of its machine.
Reconcile(p) ==
  /\ At(p, "reconcile")
  /\ LET rows == {r \in ActiveRows : \E x \in {device[r].primary} \cup device[r].aliases :
                                       Owner(x) = V2(p)}
     IN \/ \E r \in rows : Matched(p, r)
        \/ rows = {} /\ Goto(p, "limit")
  /\ UNCHANGED <<license, device, counts, change, history, bounds>>

\* promoteMatchedDeviceToV2, first the aliases (a foreign key refuses them
\* when the row has been deleted; they expire at the cutoff) ...
AddAliases(p, r, hashes, next) ==
  \/ /\ Exists(r)
     /\ Put(r, [device[r] EXCEPT !.aliases = @ \cup (IF fallback THEN hashes ELSE {})])
     /\ Goto(p, next) /\ UNCHANGED counts
  \/ ~Exists(r) /\ LogFailure(p, FALSE) /\ UNCHANGED device

PromoteAliases(p) ==
  /\ At(p, "alias")
  /\ AddAliases(p, call[p].target, call[p].old, "promote")
  /\ UNCHANGED <<license, change, history, bounds>>

\* ... then the primary.  The row becomes active, and a second row with the
\* same v2 hash is refused by the unique key.
Promote(p) ==
  /\ At(p, "promote")
  /\ LET r == call[p].target
         Promoted == Now(p, [call[p] EXCEPT !.pc = "limit", !.old = {}])
     IN \/ /\ Exists(r) /\ Holders(V2(p)) \subseteq {r}
           /\ Put(r, [device[r] EXCEPT !.primary = V2(p), !.state = "active"])
           /\ Promoted /\ UNCHANGED counts
        \/ ~Exists(r) /\ Promoted /\ UNCHANGED <<device, counts>>
        \/ /\ Exists(r) /\ ~(Holders(V2(p)) \subseteq {r})
           /\ LogFailure(p, FALSE) /\ UNCHANGED device
  /\ UNCHANGED <<license, change, history, bounds>>

\* checkDeviceLimit, with the plan as it was when the subscription was read.
\* A matched row is then only touched.
Served(p) ==
  IF call[p].op = "transfer" THEN Now(p, [Idle EXCEPT !.pc = "record", !.op = "transfer"])
                             ELSE Finish(p)

\* Mutant: only devices already registered are held to the limit.
CheckLimitOfKnown(p) ==
  /\ At(p, "limit")
  /\ \/ /\ call[p].target # NoRow /\ Cardinality(ActiveRows) <= call[p].plan
        /\ Served(p) /\ UNCHANGED counts
     \/ call[p].target = NoRow /\ Goto(p, "register") /\ UNCHANGED counts
     \/ /\ call[p].target # NoRow /\ Cardinality(ActiveRows) > call[p].plan
        /\ LogFailure(p, FALSE)
  /\ UNCHANGED <<license, device, change, history, bounds>>

CheckDeviceLimit(p) ==
  /\ At(p, "limit")
  /\ LET current == Cardinality(ActiveRows)
         plan == call[p].plan
     IN \/ call[p].target # NoRow /\ current <= plan /\ Served(p) /\ UNCHANGED counts
        \/ call[p].target = NoRow /\ current < plan /\ Goto(p, "register") /\ UNCHANGED counts
        \/ /\ IF call[p].target # NoRow THEN current > plan ELSE current >= plan
           /\ LogFailure(p, FALSE)
  /\ UNCHANGED <<license, device, change, history, bounds>>

\* registerDevice is an upsert on the v2 hash: a row that exists becomes
\* active again.  A new row gets an identifier nobody refers to.
FreshRows ==
  {r \in Rows : /\ ~Exists(r)
                /\ \A p \in Calls : call[p].target # r
                /\ \A x \in Prints : <<r, x>> \notin change.todo
                /\ r \notin {change.listed, change.found}}

Register(p) ==
  /\ At(p, "register")
  /\ \E r \in Rows :
       /\ IF Holders(V2(p)) # {} THEN r \in Holders(V2(p))
          ELSE FreshRows # {} /\ r = CHOOSE x \in FreshRows : TRUE
       /\ Put(r, IF Exists(r) THEN [device[r] EXCEPT !.state = "active"]
                 ELSE [state |-> "active", primary |-> V2(p), aliases |-> {}])
       /\ Now(p, [call[p] EXCEPT !.pc = "registerAlias", !.target = r])
  /\ UNCHANGED <<license, counts, change, history, bounds>>

RegisterAlias(p) ==
  /\ At(p, "registerAlias")
  /\ LET r == call[p].target
     IN \/ /\ Exists(r)
           /\ Put(r, [device[r] EXCEPT !.aliases =
                        @ \cup (IF fallback THEN {call[p].hash} ELSE {})])
           /\ Served(p) /\ UNCHANGED counts
        \/ ~Exists(r) /\ LogFailure(p, FALSE) /\ UNCHANGED device
  /\ UNCHANGED <<license, change, history, bounds>>

\* checkSuspiciousActivity runs after every refusal, whatever its reason.
CheckSuspiciousActivity(p) ==
  /\ At(p, "suspect")
  /\ IF failures >= Threshold THEN Goto(p, "autoblock") ELSE Finish(p)
  /\ UNCHANGED <<license, device, counts, change, history, bounds>>

BlockAutomatically(p) ==
  /\ At(p, "autoblock")
  /\ status' = "bloqueada"
  /\ Finish(p)
  /\ UNCHANGED <<max, fallback, device, counts, change, history, bounds>>

----------------------------------------------------------------------------
(* Transfer and deactivation by the client.                                 *)

\* Mutant: an attempt is recorded when it is made, one that the limit refuses
\* included.
TransferOnAttempt(p) ==
  /\ At(p, "idle") /\ Ask /\ status # "bloqueada"
  /\ transfers' = transfers + 1
  /\ \/ /\ transfers < MaxTransfers
        /\ \E f \in Hashes : Now(p, [Request(f) EXCEPT !.pc = "counted", !.op = "transfer"])
     \/ transfers >= MaxTransfers /\ UNCHANGED call
  /\ UNCHANGED <<license, device, failures, change, history>>

\* transferLicense: the count of the month, a whole validation, the record.
Transfer(p) ==
  /\ At(p, "idle") /\ Ask /\ status # "bloqueada"
  /\ transfers < MaxTransfers
  /\ \E f \in Hashes : Now(p, [Request(f) EXCEPT !.pc = "counted", !.op = "transfer"])
  /\ UNCHANGED <<license, device, counts, change, history>>

ValidateTransfer(p) ==
  /\ At(p, "counted")
  /\ Start(p, call[p])
  /\ UNCHANGED <<license, device, change, history, bounds>>

RecordTransfer(p) ==
  /\ At(p, "record")
  /\ transfers' = transfers + 1
  /\ Finish(p)
  /\ UNCHANGED <<license, device, failures, change, history, bounds>>

\* clearDeviceFingerprint asks for the v2 hash, then for the v1 hash, and
\* deactivates a row that answers to the first one registered.
Registered(x) == Answering(x) \cap ActiveRows # {}

Deactivate(p) ==
  /\ At(p, "idle") /\ Ask
  /\ \E f \in Hashes :
       IF Registered(MachineOf[f])
       THEN Now(p, [Request(f) EXCEPT !.pc = "resolve", !.key = MachineOf[f]])
       ELSE Now(p, [Request(f) EXCEPT !.pc = "tryV1"])
  /\ UNCHANGED <<license, device, counts, change, history>>

TryV1(p) ==
  /\ At(p, "tryV1")
  /\ IF Registered(call[p].hash) THEN Goto(p, "resolve") ELSE Finish(p)
  /\ UNCHANGED <<license, device, counts, change, history, bounds>>

\* resolveDeviceByAnyHash looks at inactive rows too and takes any one row.
Resolved(x) == IF Answering(x) = {} THEN {NoRow} ELSE Answering(x)
Deactivated(r) ==
  IF r \in Rows /\ Exists(r) THEN Put(r, [device[r] EXCEPT !.state = "inactive"])
                             ELSE UNCHANGED device

ResolveDevice(p) ==
  /\ At(p, "resolve")
  /\ \E r \in Resolved(call[p].key) : Now(p, [call[p] EXCEPT !.pc = "deactivate", !.target = r])
  /\ UNCHANGED <<license, device, counts, change, history, bounds>>

DeactivateDevice(p) ==
  /\ At(p, "deactivate")
  /\ Deactivated(call[p].target)
  /\ Finish(p)
  /\ UNCHANGED <<license, counts, change, history, bounds>>

----------------------------------------------------------------------------
(* Administration.                                                          *)

\* update writes any status, block and unblock write theirs unconditionally.
SetStatus ==
  /\ Act
  /\ \E s \in Statuses \ {status} :
       /\ status' = s
       /\ abused' = (abused \/ s # "ativa")
  /\ UNCHANGED <<max, fallback, device, counts, call, change, twins, peak>>

\* deactivateDeviceByFingerprint deletes one row that answers to the hash.
DeleteDevice ==
  /\ Act
  /\ \E x \in Prints : \E r \in Answering(x) : Put(r, NoDevice)
  /\ UNCHANGED <<license, counts, call, change, history>>

Commit(size) ==
  /\ max' = size
  /\ peak' = IF size > peak THEN size ELSE peak
  /\ UNCHANGED <<status, fallback, twins, abused>>

\* A plan at least as large, or a smaller one on a subscription that
\* planos.update does not reach (not active): committed and nothing else.
ResizePlan ==
  /\ Act
  /\ change.pc = "idle"
  /\ \E size \in PlanSizes :
       /\ size # max
       /\ Commit(size)
  /\ UNCHANGED <<device, counts, call, change>>

\* assinaturas.update commits the smaller plan first; planos.update holds it
\* in an open transaction while handlePlanChange works outside of it.
StartDowngrade ==
  /\ Act
  /\ change.pc = "idle"
  /\ \E size \in PlanSizes : size < max /\
       \/ /\ Commit(size)
          /\ change' = [NoChange EXCEPT !.pc = "list"]
       \/ /\ change' = [NoChange EXCEPT !.pc = "list", !.new = size]
          /\ UNCHANGED <<license, history>>
  /\ UNCHANGED <<device, counts, call>>

ListActiveDevices ==
  /\ change.pc = "list"
  /\ change' = [change EXCEPT !.pc = "next",
                  !.todo = {<<r, device[r].primary>> : r \in ActiveRows}]
  /\ UNCHANGED <<license, device, counts, call, history, bounds>>

\* deactivateDevice goes by the hash that was listed, not by the row.
ResolveListed ==
  /\ change.pc = "next"
  /\ \E entry \in change.todo : \E r \in Resolved(entry[2]) :
       change' = [change EXCEPT !.pc = "deactivate", !.todo = @ \ {entry},
                    !.listed = entry[1], !.found = r]
  /\ UNCHANGED <<license, device, counts, call, history, bounds>>

DeactivateListed ==
  /\ change.pc = "deactivate"
  /\ Deactivated(change.found)
  /\ change' = [change EXCEPT !.pc = "next", !.listed = NoRow, !.found = NoRow]
  /\ UNCHANGED <<license, counts, call, history, bounds>>

\* Mutant: the plan size is written even if the request carried none.
FinishCommitsAlways ==
  /\ change.pc = "next" /\ change.todo = {}
  /\ change' = NoChange
  /\ Commit(change.new)
  /\ UNCHANGED <<device, counts, call, bounds>>

\* The end: nothing to commit, or COMMIT, or ROLLBACK.
FinishDowngrade ==
  /\ change.pc = "next" /\ change.todo = {}
  /\ change' = NoChange
  /\ \/ change.new # 0 /\ Commit(change.new)
     \/ UNCHANGED <<license, history>>
  /\ UNCHANGED <<device, counts, call, bounds>>

----------------------------------------------------------------------------
(* Time.                                                                    *)

\* FINGERPRINT_V1_FALLBACK_UNTIL_UTC passes, once: every alias expires with it.
Cutoff ==
  /\ fallback
  /\ fallback' = FALSE
  /\ device' = [r \in Rows |-> [device[r] EXCEPT !.aliases = {}]]
  /\ UNCHANGED <<status, max, counts, call, change, history, bounds>>

HourPasses ==
  /\ Act
  /\ failures > 0
  /\ \E n \in 0 .. failures - 1 : failures' = n
  /\ UNCHANGED <<license, device, transfers, call, change, history>>

MonthPasses ==
  /\ Act
  /\ transfers > 0
  /\ transfers' = 0
  /\ UNCHANGED <<license, device, failures, call, change, history>>

LNext ==
  \/ \E p \in Calls :
       \/ Validate(p) \/ Malformed(p) \/ ReadSubscription(p)
       \/ MatchExact(p) \/ MatchLegacy(p) \/ Reconcile(p)
       \/ PromoteAliases(p) \/ Promote(p) \/ CheckDeviceLimit(p)
       \/ Register(p) \/ RegisterAlias(p)
       \/ CheckSuspiciousActivity(p) \/ BlockAutomatically(p)
       \/ Transfer(p) \/ ValidateTransfer(p) \/ RecordTransfer(p)
       \/ Deactivate(p) \/ TryV1(p) \/ ResolveDevice(p) \/ DeactivateDevice(p)
  \/ SetStatus \/ DeleteDevice
  \/ ResizePlan \/ StartDowngrade \/ ListActiveDevices \/ ResolveListed
  \/ DeactivateListed \/ FinishDowngrade
  \/ Cutoff \/ HourPasses \/ MonthPasses

LSpec == LInit /\ [][LNext]_lvars

----------------------------------------------------------------------------
(* Properties.                                                              *)

\* The values every variable may take.
TypeOK ==
  /\ status \in Statuses /\ fallback \in BOOLEAN
  /\ max \in PlanSizes /\ peak \in PlanSizes
  /\ device \in [Rows -> Devices]
  /\ failures \in 0 .. Threshold /\ transfers \in Nat
  /\ call \in [Calls -> Locals]
  /\ change \in Changes
  /\ twins \subseteq Machines /\ abused \in BOOLEAN
  /\ requests \in 0 .. MaxRequests /\ acts \in 0 .. MaxActs

\* The limit is checked and the row written in different queries, and a
\* promotion activates without a check.  Still the devices in use exceed the
\* largest plan the licence has had by less than the calls served at once
\* (checkDeviceLimit, registerDevice, promotePrimaryFingerprint).
DeviceOvershoot == Cardinality(ActiveRows) < peak + Cardinality(Calls)

\* The same of the transfers of a month, counted before the validation and
\* recorded after it (transferLicense).
TransferOvershoot == transfers < MaxTransfers + Cardinality(Calls)

\* While v1 hashes are accepted a machine takes one place of the plan, however
\* its MAC changes and its calls interleave, and its v1 row, while in use,
\* has no v2 row beside it, which would refuse its promotion for ever
\* (resolveDeviceForValidation).  Two v1 rows from the start are the exception.
OneSlotPerMachine ==
  fallback => \A r, s \in Rows :
    (Active(r) /\ Exists(s) /\ r # s /\ Owner(device[r].primary) = Owner(device[s].primary)
       /\ Owner(device[r].primary) \notin twins)
    => ~Active(s) /\ device[r].primary \notin Hashes

\* A downgrade goes by the hashes it listed, while promotions replace them and
\* the cutoff passes.  It never deactivates another row in place of a listed
\* one that is still in use, and it misses a listed row in one case only: the
\* row was promoted since, and the cutoff has ended the alias that its v1 hash
\* had become, so that it stays in use (deactivateAllDevices,
\* resolveDeviceByAnyHash, addFingerprintAlias).  While v1 hashes are accepted
\* nothing is said of machines with two v1 rows from the start: each of their
\* rows may answer to the hash of the other.
DowngradeReaches ==
  [][ResolveListed =>
       LET listed == change'.listed
           machine == Owner(device[listed].primary)
       IN Active(listed) /\ (fallback => machine \notin twins) =>
            \/ change'.found = listed
            \/ ~fallback /\ device[listed].primary = machine /\ change'.found = NoRow]_lvars

\* A licence whose clients send well-formed requests, and which no
\* administrator stopped, is never blocked: limits, races, lost promotions and
\* expired plans do not count as suspicious (checkSuspiciousActivity).
HonestNeverBlocked == abused \/ status = "ativa"

=============================================================================
