---------------------------- MODULE LicenseRuntime ----------------------------
(***************************************************************************)
(* The runtime endpoints of one license: validate, activate, heartbeat,    *)
(* transfer and deactivate                                                 *)
(* (license-runtime/adapters/prisma-license-engine.adapter.ts) and the     *)
(* statements they run on license_devices and audit_logs                   *)
(* (device-trust/services/prisma-device-trust.service.ts,                  *)
(* audit-security/services/prisma-audit-security.service.ts).  A handler   *)
(* reads the license with its devices in one query and the plan in a later *)
(* one, decides from what it has read, and writes in later statements; no  *)
(* transaction spans two of them, and license_devices has no unique index. *)
(* An administrator resizes the plan at any time                           *)
(* (admin-backoffice/services/prisma/prisma-admin-catalog.operations.ts).  *)
(*                                                                         *)
(* Left out, because no decision reads them: last_seen_at and match_source *)
(* of a device, transfer_count of the license, the audit row of a          *)
(* deactivation, validation_history.  The upsert of the fingerprint before *)
(* a write has no effect here either: a fingerprint is its hash.           *)
(***************************************************************************)
EXTENDS Naturals, FiniteSets

CONSTANTS Calls,          \* the calls the API can be serving at a time
          Fingerprints,   \* fingerprint hashes of machines
          DeviceIds,      \* ids of license_devices rows: a bound on rows
          None,           \* no fingerprint, no device
          PlanSizes,      \* the values max_devices of the plan may have
          TransferLimit,  \* transfers a month, 3 in the code
          MaxMissed       \* bound on the bookkeeping writes and reads lost

ASSUME LicenseAssumption ==
  /\ IsFiniteSet(Calls)
  /\ IsFiniteSet(DeviceIds)
  /\ None \notin Fingerprints \cup DeviceIds
  /\ PlanSizes \subseteq Nat \ {0}
  /\ TransferLimit \in Nat \ {0}
  /\ MaxMissed \in Nat

VARIABLES fingerprint,    \* per device id: the fingerprint, None without a row
          active,         \* the device ids whose row has is_active
          pc,             \* the await each call is at
          input,          \* the fingerprint each call was sent
          target,         \* the device row a call has picked
          maxDevices,     \* max_devices of the plan of the license
          seen,           \* the active devices an activation has counted
          audits,         \* license_transfer rows in audit_logs this month
          moves,          \* history: devices replaced this month
          missed,         \* history: moves this month that no later count sees,
                          \* and counts that failed
          alone,          \* history: calls that have had no company so far,
                          \* and a plan that has stayed as it was
          peak            \* history: the largest the plan has been

limits == <<maxDevices, seen, peak>>

lvars == <<fingerprint, active, pc, input, target, audits, moves, missed, alone, limits>>

Steps == {"idle", "plan", "register", "touch", "deactivate", "count", "wipe",
          "findExisting", "reactivate", "replace", "bump", "audit"}

\* Everything has its type, only ids that have a row are active, and the plan
\* is no larger than its history says.
TypeOK ==
  /\ fingerprint \in [DeviceIds -> Fingerprints \cup {None}]
  /\ active \in SUBSET DeviceIds
  /\ \A d \in active : fingerprint[d] # None
  /\ pc \in [Calls -> Steps]
  /\ input \in [Calls -> Fingerprints \cup {None}]
  /\ target \in [Calls -> DeviceIds \cup {None}]
  /\ audits \in Nat
  /\ moves \in Nat
  /\ missed \in 0 .. MaxMissed
  /\ alone \in SUBSET Calls
  /\ maxDevices \in PlanSizes
  /\ seen \in [Calls -> Nat]
  /\ peak \in PlanSizes
  /\ maxDevices <= peak

LInit ==
  /\ fingerprint = [d \in DeviceIds |-> None]
  /\ active = {}
  /\ pc = [c \in Calls |-> "idle"]
  /\ input = [c \in Calls |-> None]
  /\ target = [c \in Calls |-> None]
  /\ audits = 0
  /\ moves = 0
  /\ missed = 0
  /\ alone = {}
  /\ maxDevices \in PlanSizes
  /\ seen = [c \in Calls |-> 0]
  /\ peak = maxDevices

-----------------------------------------------------------------------------
ActiveOf(f) == {d \in active : fingerprint[d] = f}

Goto(c, step) == pc' = [pc EXCEPT ![c] = step]

\* A call reads its context and goes on to its first write, for fingerprint f
\* and (when it has matched one) device d.  A rejected call (license, program
\* or plan not eligible, fingerprint that does not parse or match, too many
\* devices) answers without a write, which is a step that changes nothing.
Load(c, f, d, step) ==
  /\ pc[c] = "idle"
  /\ Goto(c, step)
  /\ input' = [input EXCEPT ![c] = f]
  /\ target' = [target EXCEPT ![c] = d]
  /\ alone' = IF \A b \in Calls \ {c} : pc[b] = "idle" THEN {c} ELSE {}
  /\ UNCHANGED <<fingerprint, active, audits, moves, missed, maxDevices, peak>>

\* What the other calls read of the plan decides nothing.
LoadOnly(c, f, d, step) == Load(c, f, d, step) /\ UNCHANGED seen

\* An active device with the fingerprint is touched, whatever the limits.
Match(c, f) == \E d \in ActiveOf(f) : LoadOnly(c, f, d, "touch")

\* The first device is registered, any other but an active one is refused.
Validate(c, f) ==
  \/ Match(c, f)
  \/ active = {} /\ LoadOnly(c, f, None, "register")

\* The devices are counted before the plan is read.
CountDevices(c, f) ==
  /\ Load(c, f, None, "plan")
  /\ seen' = [seen EXCEPT ![c] = Cardinality(active)]

\* Mutant: an active device with the fingerprint is not looked for.
ActivateUnmatched(c, f) == CountDevices(c, f)

\* A device that is not active is registered if the plan, read next, has room.
Activate(c, f) ==
  \/ Match(c, f)
  \/ ActiveOf(f) = {} /\ CountDevices(c, f)

Heartbeat(c, f) == Match(c, f)

Transfer(c, f) == LoadOnly(c, f, None, "count")

Deactivate(c, f) == \E d \in ActiveOf(f) : LoadOnly(c, f, d, "deactivate")

-----------------------------------------------------------------------------
Return(c) ==
  /\ Goto(c, "idle")
  /\ input' = [input EXCEPT ![c] = None]
  /\ target' = [target EXCEPT ![c] = None]

\* Mutant: the limit is off by one.
ResolvePolicyOneMore(c) ==
  /\ pc[c] = "plan"
  /\ \/ /\ seen[c] <= maxDevices
        /\ Goto(c, "register")
        /\ UNCHANGED <<input, target>>
     \/ /\ seen[c] > maxDevices
        /\ Return(c)
  /\ seen' = [seen EXCEPT ![c] = 0]
  /\ UNCHANGED <<fingerprint, active, audits, moves, missed, alone, maxDevices, peak>>

\* resolveProgramPolicy and the comparison after it: the devices counted
\* before against the plan as it is now.
ResolvePolicy(c) ==
  /\ pc[c] = "plan"
  /\ \/ /\ seen[c] < maxDevices
        /\ Goto(c, "register")
        /\ UNCHANGED <<input, target>>
     \/ /\ seen[c] >= maxDevices
        /\ Return(c)
  /\ seen' = [seen EXCEPT ![c] = 0]
  /\ UNCHANGED <<fingerprint, active, audits, moves, missed, alone, maxDevices, peak>>

\* A new row, with the fingerprint of the call, active.
CreateDevice(c, d) ==
  /\ fingerprint[d] = None
  /\ fingerprint' = [fingerprint EXCEPT ![d] = input[c]]
  /\ active' = active \cup {d}

\* registerDevice: always a new row, also when an inactive one has the
\* fingerprint.
RegisterDevice(c) ==
  /\ pc[c] = "register"
  /\ \E d \in DeviceIds : CreateDevice(c, d)
  /\ Return(c)
  /\ UNCHANGED <<audits, moves, missed, alone, limits>>

\* touchDevice by id, whether or not the device is still active.
TouchDevice(c) ==
  /\ pc[c] = "touch"
  /\ Return(c)
  /\ UNCHANGED <<fingerprint, active, audits, moves, missed, alone, limits>>

\* Mutant: every device of the license is deactivated.
DeactivateAll(c) ==
  /\ pc[c] = "deactivate"
  /\ active' = {}
  /\ Return(c)
  /\ UNCHANGED <<fingerprint, audits, moves, missed, alone, limits>>

\* deactivateDevice by id, whether or not the device is still active.
DeactivateDevice(c) ==
  /\ pc[c] = "deactivate"
  /\ active' = active \ {target[c]}
  /\ Return(c)
  /\ UNCHANGED <<fingerprint, audits, moves, missed, alone, limits>>

\* Mutant: the limit is off by one.
CountOneMore(c) ==
  /\ pc[c] = "count"
  /\ \/ /\ audits <= TransferLimit
        /\ Goto(c, "wipe")
        /\ UNCHANGED <<input, target>>
     \/ /\ audits > TransferLimit
        /\ Return(c)
  /\ UNCHANGED <<fingerprint, active, audits, moves, missed, alone, limits>>

\* countAuditLogsSince the start of the month; at the limit the transfer is
\* refused.
CountTransfers(c) ==
  /\ pc[c] = "count"
  /\ \/ /\ audits < TransferLimit
        /\ Goto(c, "wipe")
        /\ UNCHANGED <<input, target>>
     \/ /\ audits >= TransferLimit
        /\ Return(c)
  /\ UNCHANGED <<fingerprint, active, audits, moves, missed, alone, limits>>

\* A count that fails is taken for zero.
CountFails(c) ==
  /\ pc[c] = "count"
  /\ missed < MaxMissed
  /\ missed' = missed + 1
  /\ Goto(c, "wipe")
  /\ UNCHANGED <<fingerprint, active, input, target, audits, moves, alone, limits>>

\* Mutant: devices with the fingerprint of the call are left active.
WipeOthers(c) ==
  /\ pc[c] = "wipe"
  /\ active' = ActiveOf(input[c])
  /\ Goto(c, "findExisting")
  /\ UNCHANGED <<fingerprint, input, target, audits, moves, missed, alone, limits>>

\* replaceActiveDevice, first statement: all devices of the license.
WipeDevices(c) ==
  /\ pc[c] = "wipe"
  /\ active' = {}
  /\ Goto(c, "findExisting")
  /\ UNCHANGED <<fingerprint, input, target, audits, moves, missed, alone, limits>>

\* Mutant: that no row was found is not checked.
FindExistingUnchecked(c) ==
  /\ pc[c] = "findExisting"
  /\ \/ \E d \in DeviceIds :
          /\ fingerprint[d] = input[c]
          /\ target' = [target EXCEPT ![c] = d]
     \/ /\ \A d \in DeviceIds : fingerprint[d] # input[c]
        /\ UNCHANGED target
  /\ Goto(c, "reactivate")
  /\ UNCHANGED <<fingerprint, active, input, audits, moves, missed, alone, limits>>

\* findFirst: any row with the fingerprint, or none.
FindExisting(c) ==
  /\ pc[c] = "findExisting"
  /\ \/ \E d \in DeviceIds :
          /\ fingerprint[d] = input[c]
          /\ target' = [target EXCEPT ![c] = d]
          /\ Goto(c, "reactivate")
     \/ /\ \A d \in DeviceIds : fingerprint[d] # input[c]
        /\ Goto(c, "replace")
        /\ UNCHANGED target
  /\ UNCHANGED <<fingerprint, active, input, audits, moves, missed, alone, limits>>

\* The device found is made active.
ReactivateDevice(c) ==
  /\ pc[c] = "reactivate"
  /\ active' = active \cup {target[c]}
  /\ moves' = moves + 1
  /\ Goto(c, "bump")
  /\ UNCHANGED <<fingerprint, input, target, audits, missed, alone, limits>>

\* No device was found: a new row.
ReplaceDevice(c) ==
  /\ pc[c] = "replace"
  /\ \E d \in DeviceIds :
       /\ CreateDevice(c, d)
       /\ target' = [target EXCEPT ![c] = d]
  /\ moves' = moves + 1
  /\ Goto(c, "bump")
  /\ UNCHANGED <<input, audits, missed, alone, limits>>

\* license.update of transfer_count, which no decision reads.
BumpTransferCount(c) ==
  /\ pc[c] = "bump"
  /\ Goto(c, "audit")
  /\ UNCHANGED <<fingerprint, active, input, target, audits, moves, missed, alone, limits>>

\* writeAuditLog of the transfer, which later counts see.
AuditTransfer(c) ==
  /\ pc[c] = "audit"
  /\ audits' = audits + 1
  /\ Return(c)
  /\ UNCHANGED <<fingerprint, active, moves, missed, alone, limits>>

\* A transfer that has moved the device and is not audited yet.
MovedSteps == {"bump", "audit"}

\* A statement of the call fails, or the process that serves it dies: what
\* the call has written stays.  A failed audit write is swallowed, with the
\* same effect.  After the move it leaves a transfer that is never counted.
Fail(c) ==
  /\ pc[c] # "idle"
  /\ \/ /\ pc[c] \in MovedSteps
        /\ missed < MaxMissed
        /\ missed' = missed + 1
     \/ /\ pc[c] \notin MovedSteps
        /\ UNCHANGED missed
  /\ Return(c)
  /\ seen' = [seen EXCEPT ![c] = 0]
  /\ UNCHANGED <<fingerprint, active, audits, moves, alone, maxDevices, peak>>

\* A new month: monthStart moves on and nothing has been counted yet.
MonthTurns ==
  /\ audits' = 0
  /\ moves' = 0
  /\ missed' = 0
  /\ UNCHANGED <<fingerprint, active, pc, input, target, alone, limits>>

\* updatePlan: max_devices of the plan, written beside whatever calls are in
\* flight and whatever devices are active.
UpdatePlan ==
  /\ \E size \in PlanSizes \ {maxDevices} :
       /\ maxDevices' = size
       /\ peak' = IF size > peak THEN size ELSE peak
  /\ alone' = {}
  /\ UNCHANGED <<fingerprint, active, pc, input, target, seen, audits, moves, missed>>

-----------------------------------------------------------------------------
Arrive(c) ==
  \E f \in Fingerprints :
    \/ Validate(c, f)
    \/ Activate(c, f)
    \/ Heartbeat(c, f)
    \/ Transfer(c, f)
    \/ Deactivate(c, f)

Proceed(c) ==
  \/ ResolvePolicy(c)
  \/ RegisterDevice(c)
  \/ TouchDevice(c)
  \/ DeactivateDevice(c)
  \/ CountTransfers(c)
  \/ CountFails(c)
  \/ WipeDevices(c)
  \/ FindExisting(c)
  \/ ReactivateDevice(c)
  \/ ReplaceDevice(c)
  \/ BumpTransferCount(c)
  \/ AuditTransfer(c)
  \/ Fail(c)

LNext ==
  \/ \E c \in Calls : Arrive(c) \/ Proceed(c)
  \/ MonthTurns
  \/ UpdatePlan

LSpec == LInit /\ [][LNext]_lvars

-----------------------------------------------------------------------------
At(steps) == {c \in Calls : pc[c] \in steps}

\* The calls that will add an active device.
AddingSteps == {"register", "findExisting", "reactivate", "replace"}

\* The calls for one machine that will or may add a device.
AddingOf(f) == {c \in At(AddingSteps \cup {"plan"}) : input[c] = f}

\* The transfers that have been let through and have not moved the device.
MovingSteps == {"wipe", "findExisting", "reactivate", "replace"}

\* The devices are counted before the plan is read and registered later still,
\* and nothing deactivates devices when the plan is made smaller.  Still the
\* devices active, and those about to be, exceed the largest plan there has
\* been by no more than the calls that run beside the one that took its last
\* place (activate, registerDevice, updatePlan).
DeviceOvershoot ==
  Cardinality(active) + Cardinality(At(AddingSteps)) <= peak - 1 + Cardinality(Calls)

\* One machine is an active device at most once for each concurrent call: a
\* fingerprint is registered again only by a call that has seen it inactive.
DuplicateOvershoot ==
  \A f \in Fingerprints :
    Cardinality(ActiveOf(f)) + Cardinality(AddingOf(f)) <= Cardinality(Calls)

\* The devices really moved in a month exceed the monthly limit by no more
\* than the calls that count at the same time, the counts that failed and
\* the moves whose audit row was never written (transfer).
TransferOvershoot ==
  moves + Cardinality(At(MovingSteps))
    <= TransferLimit - 1 + Cardinality(Calls) + missed

\* "Ao transferir, dispositivos ativos anteriores da licenca sao desativados"
\* (docs/api/license/transfer.md:34): a transfer that has the license to itself
\* ends with its machine as the one active device, through one row only,
\* whatever earlier calls and failures have left in the table.
LoneTransferMoves ==
  \A c \in alone :
    pc[c] \in MovedSteps =>
      active = {target[c]} /\ fingerprint[target[c]] = input[c]

\* A device stops being active only because all devices are replaced or
\* because its own fingerprint is deactivated: a deactivation that acts on a
\* row read earlier never hits another machine.
StrangersKept ==
  [][\A d \in active \ active' :
       \E c \in Calls :
         \/ pc[c] = "wipe"
         \/ pc[c] = "deactivate" /\ input[c] = fingerprint[d]]_lvars

-----------------------------------------------------------------------------
\* The transfers between the two statements of replaceActiveDevice.
Replacing == At({"findExisting", "reactivate", "replace"})

\* The same license in the engine without a database, where a transfer is one
\* step: the one that deactivates the devices here.
Fake == INSTANCE FakeLicenseEngine WITH
  devices <- IF Replacing = {} THEN {fingerprint[d] : d \in active}
             ELSE {input[c] : c \in Replacing},
  transferCountMonth <- moves + Cardinality(Replacing)

\* The calls in flight have had no company (so there is one at most) and no
\* change of the plan, and the audits of the month have all been written and
\* counted.
ServedAlone ==
  /\ \A c \in Calls : pc[c] # "idle" => c \in alone
  /\ missed = 0

\* A replacement is broken off, or the month ends in the middle of it.
ReplacementTorn == \E c \in Replacing : Fail(c) \/ MonthTurns

\* What the contract test asks of the engine without a database holds of the
\* one with it whenever a call has the license to itself, whatever races and
\* crashes have left in the table before: it does to the devices and to the
\* month what one step of the other does, or nothing (a machine that a race has
\* left with two active rows is still active after one deactivation).
LoneCallsMatchFake ==
  [][ServedAlone /\ ServedAlone' /\ ~ReplacementTorn =>
       [Fake!EngineNext]_(Fake!engineVars)]_lvars

-----------------------------------------------------------------------------
\* "`activate`: respeita limite de dispositivos do plano"
\* (docs/security/fingerprint.md:51): the license never has more machines than
\* its plan allows.  Said of a plan that keeps its size: a smaller one leaves
\* the devices as they are.
PlanLimitRespected == Cardinality({fingerprint[d] : d \in active}) <= maxDevices

=============================================================================
