------------------------- MODULE LicenseRuntimeProofs -------------------------
(***************************************************************************)
(* Proofs about LicenseRuntime, for any finite set of concurrent calls and *)
(* of device rows, any sizes of the plan and any monthly limit.            *)
(***************************************************************************)
EXTENDS LicenseRuntime, FiniteSetTheorems, TLAPS

USE DEF limits

\* A call in flight has a fingerprint; the row it has picked exists and, for
\* a call that will deactivate or has found it, has that fingerprint.
CallsKnowRows ==
  \A c \in Calls :
    /\ pc[c] # "idle" => input[c] \in Fingerprints
    /\ pc[c] \in {"deactivate", "reactivate", "bump", "audit"} =>
         target[c] \in DeviceIds /\ fingerprint[target[c]] = input[c]

\* The moves of the month are audited, about to be, or missed.
MovesAccounted ==
  moves <= audits + Cardinality(At(MovedSteps)) + missed

\* A call that is alone has seen no other in flight since it began, and its
\* wipe has left no device active.
AloneIsAlone ==
  \A c \in alone :
    pc[c] # "idle" =>
      /\ \A b \in Calls \ {c} : pc[b] = "idle"
      /\ pc[c] \in {"findExisting", "reactivate", "replace"} => active = {}

\* What such a call has read is still so when it writes, a count excepted
\* that failed.
LoneReads ==
  \A c \in alone :
    /\ pc[c] = "plan" => seen[c] = Cardinality(active)
    /\ pc[c] = "register" => Cardinality(active) < maxDevices
    /\ pc[c] = "wipe" => audits < TransferLimit \/ missed > 0

\* The calls in flight, and that they are never more than some number.
Busy == {c \in Calls : pc[c] # "idle"}
Crowd(n) == Cardinality(Busy) <= n

\* The three bounds of LicenseRuntime, for a number of calls at a time.
DeviceBound(n) ==
  Cardinality(active) + Cardinality(At(AddingSteps)) <= peak - 1 + n

DuplicateBound(n) ==
  \A f \in Fingerprints : Cardinality(ActiveOf(f)) + Cardinality(AddingOf(f)) <= n

TransferBound(n) ==
  moves + Cardinality(At(MovingSteps)) <= TransferLimit - 1 + n + missed

Bounds(n) == DeviceBound(n) /\ DuplicateBound(n) /\ TransferBound(n)

\* The calls that will add a device, and those that have counted fewer than m
\* and so will if they find a plan of m.
Claims(m) == At(AddingSteps) \cup {c \in At({"plan"}) : seen[c] < m}

\* The plan may grow while such calls are in flight, so the bound on devices
\* has to hold already for every size that it may grow to.
Room(n, m) == Cardinality(active) + Cardinality(Claims(m)) <= m - 1 + n
RoomBound(n) == \A m \in Nat : m >= peak => Room(n, m)

Rooms(n) == RoomBound(n) /\ DuplicateBound(n) /\ TransferBound(n)

IInv ==
  /\ TypeOK
  /\ CallsKnowRows
  /\ MovesAccounted
  /\ AloneIsAlone
  /\ LoneReads
  /\ LoneTransferMoves
  /\ Rooms(Cardinality(Calls))

-----------------------------------------------------------------------------
(***************************************************************************)
(* Counting calls and devices.                                             *)
(***************************************************************************)
LEMMA SubsetCount ==
  ASSUME NEW S, IsFiniteSet(S), NEW T \in SUBSET S
  PROVE  /\ IsFiniteSet(T)
         /\ Cardinality(T) \in Nat
         /\ Cardinality(S) \in Nat
         /\ Cardinality(T) <= Cardinality(S)
  BY FS_Subset, FS_CardinalityType

\* The calls at some steps, and the active devices, are finitely many.
LEMMA AtCount ==
  ASSUME NEW steps
  PROVE  /\ IsFiniteSet(At(steps))
         /\ Cardinality(At(steps)) \in Nat
         /\ Cardinality(Calls) \in Nat
         /\ Cardinality(At(steps)) <= Cardinality(Calls)
  <1>1. At(steps) \in SUBSET Calls
    BY DEF At
  <1>2. QED
    BY <1>1, SubsetCount, LicenseAssumption

\* The calls that add a device for one machine: no more than all the calls.
LEMMA AddingOfCount ==
  ASSUME NEW f
  PROVE  /\ IsFiniteSet(AddingOf(f))
         /\ Cardinality(AddingOf(f)) \in Nat
         /\ Cardinality(Calls) \in Nat
         /\ Cardinality(AddingOf(f)) <= Cardinality(Calls)
  <1>1. AddingOf(f) \in SUBSET Calls
    BY DEF AddingOf, At
  <1>2. QED
    BY <1>1, SubsetCount, LicenseAssumption

\* The active devices, and those of one machine, are finite in number.
LEMMA ActiveCount ==
  ASSUME TypeOK
  PROVE  /\ IsFiniteSet(active)
         /\ Cardinality(active) \in Nat
         /\ \A f : IsFiniteSet(ActiveOf(f)) /\ Cardinality(ActiveOf(f)) \in Nat
  <1>1. IsFiniteSet(active) /\ Cardinality(active) \in Nat
    BY SubsetCount, LicenseAssumption DEF TypeOK
  <1>2. \A f : ActiveOf(f) \in SUBSET active
    BY DEF ActiveOf
  <1>3. QED
    BY <1>1, <1>2, SubsetCount

\* The calls at some steps after a step are among the calls in flight then.
LEMMA CrowdCount ==
  ASSUME NEW n \in Nat, Crowd(n)', NEW S \in SUBSET (Busy')
  PROVE  IsFiniteSet(S) /\ Cardinality(S) \in Nat /\ Cardinality(S) <= n
  <1>1. Busy' \in SUBSET Calls
    BY DEF Busy
  <1>2. IsFiniteSet(Busy') /\ Cardinality(Busy') \in Nat /\ Cardinality(Busy') <= n
    BY <1>1, SubsetCount, LicenseAssumption DEF Crowd
  <1>3. IsFiniteSet(S) /\ Cardinality(S) \in Nat /\ Cardinality(S) <= Cardinality(Busy')
    BY <1>2, SubsetCount
  <1>4. QED
    BY <1>2, <1>3

\* How the number of calls at some steps follows one call that moves.
LEMMA AtMoves ==
  ASSUME NEW steps, NEW c \in Calls, NEW step, TypeOK, Goto(c, step)
  PROVE  /\ step \in steps /\ pc[c] \notin steps =>
              Cardinality(At(steps))' = Cardinality(At(steps)) + 1
         /\ step \notin steps /\ pc[c] \in steps =>
              Cardinality(At(steps))' = Cardinality(At(steps)) - 1
         /\ (step \in steps <=> pc[c] \in steps) =>
              Cardinality(At(steps))' = Cardinality(At(steps))
  <1>1. IsFiniteSet(At(steps))
    BY AtCount
  <1>2. \A b \in Calls : pc'[b] = IF b = c THEN step ELSE pc[b]
    BY DEF Goto, TypeOK
  <1>3. CASE step \in steps /\ pc[c] \notin steps
    <2>1. At(steps)' = At(steps) \cup {c} /\ c \notin At(steps)
      BY <1>2, <1>3 DEF At
    <2>2. QED
      BY <1>1, <1>3, <2>1, FS_AddElement
  <1>4. CASE step \notin steps /\ pc[c] \in steps
    <2>1. At(steps)' = At(steps) \ {c} /\ c \in At(steps)
      BY <1>2, <1>4 DEF At
    <2>2. QED
      BY <1>1, <1>4, <2>1, FS_RemoveElement
  <1>5. CASE step \in steps <=> pc[c] \in steps
    <2>1. At(steps)' = At(steps)
      BY <1>2, <1>5 DEF At
    <2>2. QED
      BY <1>5, <2>1
  <1>6. QED
    BY <1>3, <1>4, <1>5

\* One more active device, or fewer.
LEMMA ActiveGrows ==
  ASSUME TypeOK, NEW d, active' = active \cup {d}
  PROVE  Cardinality(active)' <= Cardinality(active) + 1
  <1>1. IsFiniteSet(active) /\ Cardinality(active) \in Nat
    BY ActiveCount
  <1>2. Cardinality(active \cup {d}) = IF d \in active THEN Cardinality(active)
                                                      ELSE Cardinality(active) + 1
    BY <1>1, FS_AddElement
  <1>3. Cardinality(active)' = Cardinality(active \cup {d})
    OBVIOUS
  <1>4. QED
    BY <1>1, <1>2, <1>3

\* A set of active devices that shrinks does not count more.
LEMMA ActiveShrinks ==
  ASSUME TypeOK, active' \in SUBSET active
  PROVE  Cardinality(active)' <= Cardinality(active)
  BY ActiveCount, FS_Subset

-----------------------------------------------------------------------------
(***************************************************************************)
(* The effect of the actions, as the proofs below use it.                  *)
(***************************************************************************)
\* How a call begins: what it has read when it goes on.
LEMMA ArriveLoads ==
  ASSUME TypeOK, NEW c \in Calls, Arrive(c)
  PROVE  \E f \in Fingerprints, d \in DeviceIds \cup {None},
            step \in {"plan", "register", "touch", "deactivate", "count"} :
           /\ Load(c, f, d, step)
           /\ step = "deactivate" => d \in DeviceIds /\ fingerprint[d] = f
           /\ step = "register" => active = {}
           /\ step \in {"plan", "register"} => ActiveOf(f) = {}
           /\ seen' = IF step = "plan" THEN [seen EXCEPT ![c] = Cardinality(active)] ELSE seen
  <1>1. PICK f \in Fingerprints :
          Validate(c, f) \/ Activate(c, f) \/ Heartbeat(c, f) \/ Transfer(c, f)
          \/ Deactivate(c, f)
    BY DEF Arrive
  <1>2. ActiveOf(f) \in SUBSET DeviceIds /\ \A d \in ActiveOf(f) : fingerprint[d] = f
    BY DEF ActiveOf, TypeOK
  <1>3. CASE Match(c, f)
    BY <1>2, <1>3 DEF Match, LoadOnly
  <1>4. CASE LoadOnly(c, f, None, "register") /\ active = {}
    <2>1. ActiveOf(f) = {}
      BY <1>4 DEF ActiveOf
    <2>2. QED
      BY <1>4, <2>1 DEF LoadOnly
  <1>5. CASE CountDevices(c, f) /\ ActiveOf(f) = {}
    BY <1>5 DEF CountDevices
  <1>6. CASE Transfer(c, f)
    BY <1>6 DEF Transfer, LoadOnly
  <1>7. CASE Deactivate(c, f)
    BY <1>2, <1>7 DEF Deactivate, LoadOnly
  <1>8. QED
    BY <1>1, <1>3, <1>4, <1>5, <1>6, <1>7 DEF Validate, Activate, Heartbeat

\* Moving to another await keeps the type of the control points.
LEMMA GotoType ==
  ASSUME TypeOK, NEW c \in Calls, NEW step \in Steps, Goto(c, step)
  PROVE  /\ pc' \in [Calls -> Steps]
         /\ pc'[c] = step
         /\ \A b \in Calls \ {c} : pc'[b] = pc[b]
  BY DEF TypeOK, Goto

\* Returning resets one call and keeps the types.
LEMMA ReturnType ==
  ASSUME TypeOK, NEW c \in Calls, Return(c)
  PROVE  /\ pc' \in [Calls -> Steps]
         /\ input' \in [Calls -> Fingerprints \cup {None}]
         /\ target' \in [Calls -> DeviceIds \cup {None}]
         /\ pc'[c] = "idle"
         /\ \A b \in Calls \ {c} :
              pc'[b] = pc[b] /\ input'[b] = input[b] /\ target'[b] = target[b]
  BY DEF TypeOK, Return, Goto, Steps

\* A created row is new; rows that were there keep their fingerprint.
LEMMA CreateType ==
  ASSUME TypeOK, NEW c \in Calls, NEW d \in DeviceIds, CreateDevice(c, d),
         input[c] \in Fingerprints
  PROVE  /\ fingerprint' \in [DeviceIds -> Fingerprints \cup {None}]
         /\ active' \in SUBSET DeviceIds
         /\ d \notin active
         /\ fingerprint'[d] = input[c]
         /\ \A e \in DeviceIds : fingerprint[e] # None => fingerprint'[e] = fingerprint[e]
         /\ \A e \in active' : fingerprint'[e] # None
  BY LicenseAssumption DEF TypeOK, CreateDevice

-----------------------------------------------------------------------------
(***************************************************************************)
(* Type correctness, with what a call knows of the rows.                   *)
(***************************************************************************)
LEMMA BasicInit == LInit => TypeOK /\ CallsKnowRows
  BY LicenseAssumption DEF LInit, TypeOK, CallsKnowRows, Steps

\* A call that arrives keeps the types, and knows the row it has matched.
LEMMA BasicArrive ==
  ASSUME TypeOK, CallsKnowRows, NEW c \in Calls, Arrive(c)
  PROVE  (TypeOK /\ CallsKnowRows)'
  <1>1. PICK f \in Fingerprints, d \in DeviceIds \cup {None},
             step \in {"plan", "register", "touch", "deactivate", "count"} :
          /\ Load(c, f, d, step)
          /\ step = "deactivate" => d \in DeviceIds /\ fingerprint[d] = f
          /\ seen' = IF step = "plan" THEN [seen EXCEPT ![c] = Cardinality(active)] ELSE seen
    BY ArriveLoads
  <1>2. TypeOK'
    <2>1. seen' \in [Calls -> Nat]
      BY <1>1, ActiveCount DEF TypeOK
    <2>2. QED
      BY <1>1, <2>1 DEF Load, Goto, TypeOK, Steps
  <1>3. CallsKnowRows'
    BY <1>1 DEF Load, Goto, TypeOK, CallsKnowRows
  <1>4. QED
    BY <1>2, <1>3

\* So does every later await of a call.
LEMMA BasicProceed ==
  ASSUME TypeOK, CallsKnowRows, NEW c \in Calls, Proceed(c)
  PROVE  (TypeOK /\ CallsKnowRows)'
  <1>0. pc[c] # "idle" => input[c] \in Fingerprints
    BY DEF CallsKnowRows
  <1>1. CASE RegisterDevice(c)
    <2>1. PICK d \in DeviceIds : CreateDevice(c, d)
      BY <1>1 DEF RegisterDevice
    <2>2. input[c] \in Fingerprints
      BY <1>0, <1>1 DEF RegisterDevice
    <2>3. TypeOK'
      BY <1>1, <2>1, <2>2, CreateType, ReturnType DEF RegisterDevice, TypeOK
    <2>4. CallsKnowRows'
      BY <1>1, <2>1, <2>2, CreateType, ReturnType, LicenseAssumption
      DEF RegisterDevice, TypeOK, CallsKnowRows
    <2>5. QED
      BY <2>3, <2>4
  <1>11. CASE ResolvePolicy(c)
    <2>0. seen' \in [Calls -> Nat]
      BY <1>11 DEF ResolvePolicy, TypeOK
    <2>1. CASE Return(c)
      <3>1. TypeOK'
        BY <1>11, <2>0, <2>1, ReturnType DEF ResolvePolicy, TypeOK
      <3>2. CallsKnowRows'
        BY <1>11, <2>1, ReturnType DEF ResolvePolicy, CallsKnowRows
      <3>3. QED
        BY <3>1, <3>2
    <2>2. CASE Goto(c, "register") /\ UNCHANGED <<input, target>>
      BY <1>0, <1>11, <2>0, <2>2 DEF ResolvePolicy, TypeOK, CallsKnowRows, Goto, Steps
    <2>3. QED
      BY <1>11, <2>1, <2>2 DEF ResolvePolicy
  <1>2. CASE TouchDevice(c) \/ DeactivateDevice(c) \/ AuditTransfer(c) \/ Fail(c)
    <2>1. TypeOK'
      BY <1>2, ReturnType, LicenseAssumption
      DEF TouchDevice, DeactivateDevice, AuditTransfer, Fail, TypeOK
    <2>2. CallsKnowRows'
      BY <1>2, ReturnType DEF TouchDevice, DeactivateDevice, AuditTransfer, Fail, CallsKnowRows
    <2>3. QED
      BY <2>1, <2>2
  <1>3. CASE CountTransfers(c)
    <2>1. CASE Return(c)
      <3>1. TypeOK'
        BY <1>3, <2>1, ReturnType DEF CountTransfers, TypeOK
      <3>2. CallsKnowRows'
        BY <1>3, <2>1, ReturnType DEF CountTransfers, CallsKnowRows
      <3>3. QED
        BY <3>1, <3>2
    <2>2. CASE Goto(c, "wipe") /\ UNCHANGED <<input, target>>
      BY <1>0, <1>3, <2>2 DEF CountTransfers, TypeOK, CallsKnowRows, Goto, Steps
    <2>3. QED
      BY <1>3, <2>1, <2>2 DEF CountTransfers
  <1>4. CASE CountFails(c)
    BY <1>0, <1>4, LicenseAssumption DEF CountFails, TypeOK, CallsKnowRows, Goto, Steps
  <1>5. CASE WipeDevices(c)
    BY <1>0, <1>5 DEF WipeDevices, TypeOK, CallsKnowRows, Goto, Steps
  <1>6. CASE FindExisting(c)
    <2>1. TypeOK'
      BY <1>6 DEF FindExisting, TypeOK, Goto, Steps
    <2>2. CallsKnowRows'
      BY <1>0, <1>6 DEF FindExisting, TypeOK, CallsKnowRows, Goto, Steps
    <2>3. QED
      BY <2>1, <2>2
  <1>7. CASE ReactivateDevice(c)
    <2>1. target[c] \in DeviceIds /\ fingerprint[target[c]] # None
      BY <1>0, <1>7, LicenseAssumption DEF ReactivateDevice, CallsKnowRows
    <2>2. TypeOK'
      BY <1>7, <2>1 DEF ReactivateDevice, TypeOK, Goto, Steps
    <2>3. CallsKnowRows'
      BY <1>0, <1>7 DEF ReactivateDevice, TypeOK, CallsKnowRows, Goto
    <2>4. QED
      BY <2>2, <2>3
  <1>8. CASE ReplaceDevice(c)
    <2>1. PICK d \in DeviceIds : CreateDevice(c, d) /\ target' = [target EXCEPT ![c] = d]
      BY <1>8 DEF ReplaceDevice
    <2>2. input[c] \in Fingerprints
      BY <1>0, <1>8 DEF ReplaceDevice
    <2>3. pc' \in [Calls -> Steps] /\ pc'[c] = "bump" /\ \A b \in Calls \ {c} : pc'[b] = pc[b]
      BY <1>8, GotoType DEF ReplaceDevice, Steps
    <2>4. TypeOK'
      <3>1. /\ fingerprint' \in [DeviceIds -> Fingerprints \cup {None}]
            /\ active' \in SUBSET DeviceIds
            /\ \A e \in active' : fingerprint'[e] # None
        BY <2>1, <2>2, CreateType
      <3>2. target' \in [Calls -> DeviceIds \cup {None}]
        BY <2>1 DEF TypeOK
      <3>3. QED
        BY <1>8, <2>3, <3>1, <3>2 DEF ReplaceDevice, TypeOK
    <2>5. CallsKnowRows'
      <3>1. fingerprint'[d] = input[c] /\ target'[c] = d /\ input' = input
        BY <1>8, <2>1, <2>2, CreateType DEF ReplaceDevice, TypeOK
      <3>2. \A e \in DeviceIds : fingerprint[e] # None => fingerprint'[e] = fingerprint[e]
        BY <2>1, <2>2, CreateType
      <3>3. \A b \in Calls \ {c} : target'[b] = target[b]
        BY <2>1 DEF TypeOK
      <3>4. QED
        BY <2>2, <2>3, <3>1, <3>2, <3>3, LicenseAssumption DEF CallsKnowRows
    <2>6. QED
      BY <2>4, <2>5
  <1>9. CASE BumpTransferCount(c)
    BY <1>0, <1>9 DEF BumpTransferCount, TypeOK, CallsKnowRows, Goto, Steps
  <1>10. QED
    BY <1>1, <1>2, <1>3, <1>4, <1>5, <1>6, <1>7, <1>8, <1>9, <1>11 DEF Proceed

\* The plan is resized.
LEMMA BasicUpdate ==
  ASSUME TypeOK, CallsKnowRows, UpdatePlan
  PROVE  /\ (TypeOK /\ CallsKnowRows)'
         /\ peak' >= peak
  <1>1. PICK size \in PlanSizes :
          maxDevices' = size /\ peak' = IF size > peak THEN size ELSE peak
    BY DEF UpdatePlan
  <1>2. size \in Nat /\ peak \in Nat
    BY LicenseAssumption DEF TypeOK
  <1>3. peak' \in PlanSizes /\ maxDevices' <= peak' /\ peak' >= peak
    BY <1>1, <1>2 DEF TypeOK
  <1>4. QED
    BY <1>1, <1>3 DEF UpdatePlan, TypeOK, CallsKnowRows

\* And every step.
LEMMA BasicStep ==
  ASSUME TypeOK, CallsKnowRows, [LNext]_lvars
  PROVE  (TypeOK /\ CallsKnowRows)'
  <1>1. CASE MonthTurns
    BY <1>1, LicenseAssumption DEF MonthTurns, TypeOK, CallsKnowRows
  <1>2. CASE UNCHANGED lvars
    BY <1>2 DEF lvars, TypeOK, CallsKnowRows
  <1>3. QED
    BY <1>1, <1>2, BasicArrive, BasicProceed, BasicUpdate DEF LNext

\* Every reachable state is well typed, whatever the calls interleave.
THEOREM TypeCorrect == LSpec => []TypeOK
  <1>1. LInit => TypeOK /\ CallsKnowRows
    BY BasicInit
  <1>2. TypeOK /\ CallsKnowRows /\ [LNext]_lvars => (TypeOK /\ CallsKnowRows)'
    BY BasicStep
  <1>3. QED
    BY <1>1, <1>2, PTL DEF LSpec

-----------------------------------------------------------------------------
(***************************************************************************)
(* How far the active devices can go over the limit of the plan.           *)
(***************************************************************************)
\* The calls that claim a place, after a step too, are finitely many.
LEMMA ClaimsCount ==
  ASSUME NEW m
  PROVE  /\ IsFiniteSet(Claims(m)) /\ Cardinality(Claims(m)) \in Nat
         /\ IsFiniteSet(Claims(m)') /\ Cardinality(Claims(m)') \in Nat
  <1>1. Claims(m) \in SUBSET Calls /\ Claims(m)' \in SUBSET Calls
    BY DEF Claims, At
  <1>2. QED
    BY <1>1, SubsetCount, LicenseAssumption

\* A call that adds a device gives up its claim.
LEMMA AddsOne ==
  ASSUME NEW n \in Nat, NEW m \in Nat, TypeOK, Room(n, m), NEW c, NEW d,
         active' = active \cup {d}, c \in Claims(m), Claims(m)' = Claims(m) \ {c}
  PROVE  Room(n, m)'
  <1>1. Cardinality(Claims(m)') = Cardinality(Claims(m)) - 1
    BY ClaimsCount, FS_RemoveElement
  <1>2. Cardinality(active') <= Cardinality(active) + 1
    BY ActiveGrows
  <1>3. Cardinality(active) \in Nat /\ Cardinality(Claims(m)) \in Nat
    BY ActiveCount, ClaimsCount
  <1>4. IsFiniteSet(active \cup {d})
    BY ActiveCount, FS_AddElement
  <1>5. Cardinality(active') \in Nat
    BY <1>4, FS_CardinalityType
  <1>6. QED
    BY <1>1, <1>2, <1>3, <1>5 DEF Room

\* No step that adds no device and makes no claim takes up more room.
LEMMA AddsNone ==
  ASSUME NEW n \in Nat, NEW m \in Nat, TypeOK, Room(n, m), active' \in SUBSET active,
         Claims(m)' \in SUBSET Claims(m)
  PROVE  Room(n, m)'
  <1>1. Cardinality(active') <= Cardinality(active) /\ Cardinality(active') \in Nat
    BY ActiveCount, FS_Subset, FS_CardinalityType
  <1>2. Cardinality(Claims(m)') <= Cardinality(Claims(m))
    BY ClaimsCount, FS_Subset
  <1>3. Cardinality(active) \in Nat /\ Cardinality(Claims(m)) \in Nat
        /\ Cardinality(Claims(m)') \in Nat
    BY ActiveCount, ClaimsCount
  <1>4. QED
    BY <1>1, <1>2, <1>3 DEF Room

\* Any number of calls may claim a place below the limit.
LEMMA RoomForAll ==
  ASSUME NEW n \in Nat, NEW m \in Nat, Crowd(n)', TypeOK, active' \in SUBSET active,
         Cardinality(active') < m
  PROVE  Room(n, m)'
  <1>1. Claims(m)' \in SUBSET (Busy')
    BY DEF Claims, At, AddingSteps, Busy
  <1>2. Cardinality(Claims(m)') <= n /\ Cardinality(Claims(m)') \in Nat
    BY <1>1, CrowdCount
  <1>3. Cardinality(active') \in Nat
    BY ActiveCount, FS_Subset, FS_CardinalityType
  <1>4. QED
    BY <1>2, <1>3 DEF Room

\* How one call that moves on changes the claims.
LEMMA ClaimsMove ==
  ASSUME NEW m, NEW c \in Calls,
         \A b \in Calls \ {c} : pc'[b] = pc[b] /\ seen'[b] = seen[b]
  PROVE  /\ pc'[c] \notin AddingSteps \cup {"plan"} => Claims(m)' = Claims(m) \ {c}
         /\ (c \in Claims(m)' => c \in Claims(m)) => Claims(m)' \in SUBSET Claims(m)
  BY DEF Claims, At

\* No await after the first takes up more room below any size that the plan
\* has not passed.
LEMMA RoomProceed ==
  ASSUME NEW n \in Nat, Crowd(n)', NEW m \in Nat, m >= peak, IInv, Room(n, m),
         NEW c \in Calls, Proceed(c)
  PROVE  Room(n, m)'
  <1>0. TypeOK
    BY DEF IInv
  <1>1. CASE RegisterDevice(c) \/ ReplaceDevice(c) \/ ReactivateDevice(c)
    <2>1. PICK d : active' = active \cup {d}
      BY <1>1 DEF RegisterDevice, ReplaceDevice, ReactivateDevice, CreateDevice
    <2>2. /\ pc'[c] \in {"idle", "bump"}
          /\ \A b \in Calls \ {c} : pc'[b] = pc[b] /\ seen'[b] = seen[b]
      BY <1>0, <1>1, GotoType, ReturnType
      DEF RegisterDevice, ReplaceDevice, ReactivateDevice, Steps
    <2>3. c \in Claims(m)
      BY <1>1 DEF RegisterDevice, ReplaceDevice, ReactivateDevice, Claims, At, AddingSteps
    <2>4. Claims(m)' = Claims(m) \ {c}
      BY <2>2, ClaimsMove DEF AddingSteps
    <2>5. QED
      BY <1>0, <2>1, <2>3, <2>4, AddsOne
  <1>2. CASE TouchDevice(c) \/ DeactivateDevice(c) \/ AuditTransfer(c) \/ Fail(c)
             \/ CountTransfers(c) \/ CountFails(c) \/ BumpTransferCount(c)
    <2>1. /\ active' \in SUBSET active
          /\ \A b \in Calls \ {c} : seen'[b] = seen[b]
      BY <1>0, <1>2 DEF TouchDevice, DeactivateDevice, AuditTransfer, Fail, CountTransfers,
                        CountFails, BumpTransferCount, TypeOK
    <2>2. /\ pc'[c] \in {"idle", "wipe", "audit"}
          /\ \A b \in Calls \ {c} : pc'[b] = pc[b]
      BY <1>0, <1>2, GotoType
      DEF TouchDevice, DeactivateDevice, AuditTransfer, Fail, CountTransfers, CountFails,
          BumpTransferCount, Return, Steps
    <2>3. Claims(m)' \in SUBSET Claims(m)
      BY <2>1, <2>2, ClaimsMove DEF AddingSteps
    <2>4. QED
      BY <1>0, <2>1, <2>3, AddsNone
  <1>3. CASE FindExisting(c)
    <2>1. c \in Claims(m)
      BY <1>3 DEF FindExisting, Claims, At, AddingSteps
    <2>2. active' = active /\ \A b \in Calls \ {c} : pc'[b] = pc[b] /\ seen'[b] = seen[b]
      BY <1>0, <1>3, GotoType DEF FindExisting, Steps
    <2>3. QED
      BY <1>0, <2>1, <2>2, ClaimsMove, AddsNone
  <1>4. CASE ResolvePolicy(c)
    <2>1. active' = active /\ \A b \in Calls \ {c} : pc'[b] = pc[b] /\ seen'[b] = seen[b]
      BY <1>0, <1>4, GotoType, ReturnType DEF ResolvePolicy, Steps, TypeOK
    <2>2. c \in Claims(m)' => c \in Claims(m)
      <3>1. CASE Return(c)
        <4>1. pc'[c] = "idle"
          BY <1>0, <3>1, ReturnType
        <4>2. QED
          BY <4>1 DEF Claims, At, AddingSteps
      <3>2. CASE seen[c] < maxDevices
        <4>1. maxDevices \in Nat /\ peak \in Nat /\ seen[c] \in Nat /\ maxDevices <= peak
          BY <1>0, LicenseAssumption DEF TypeOK
        <4>2. seen[c] < m
          BY <3>2, <4>1
        <4>3. QED
          BY <1>4, <4>2 DEF ResolvePolicy, Claims, At
      <3>3. QED
        BY <1>4, <3>1, <3>2 DEF ResolvePolicy
    <2>3. QED
      BY <1>0, <2>1, <2>2, ClaimsMove, AddsNone
  <1>5. CASE WipeDevices(c)
    <2>1. active' = {} /\ Cardinality({}) = 0
      BY <1>5, FS_EmptySet DEF WipeDevices
    <2>2. 0 < m
      BY <1>0, LicenseAssumption DEF TypeOK
    <2>3. QED
      BY <1>0, <2>1, <2>2, RoomForAll
  <1>6. QED
    BY <1>1, <1>2, <1>3, <1>4, <1>5 DEF Proceed

\* A first await claims a place only below the size it may be let through by.
LEMMA RoomArrive ==
  ASSUME NEW n \in Nat, Crowd(n)', NEW m \in Nat, m >= peak, IInv, Room(n, m),
         NEW c \in Calls, Arrive(c)
  PROVE  Room(n, m)'
  <1>0. TypeOK
    BY DEF IInv
  <1>1. PICK f \in Fingerprints, d \in DeviceIds \cup {None},
             step \in {"plan", "register", "touch", "deactivate", "count"} :
          /\ Load(c, f, d, step)
          /\ step = "register" => active = {}
          /\ seen' = IF step = "plan" THEN [seen EXCEPT ![c] = Cardinality(active)] ELSE seen
    BY <1>0, ArriveLoads
  <1>2. /\ active' = active
        /\ pc'[c] = step
        /\ \A b \in Calls \ {c} : pc'[b] = pc[b] /\ seen'[b] = seen[b]
        /\ step = "plan" => seen'[c] = Cardinality(active)
    BY <1>0, <1>1 DEF Load, Goto, TypeOK
  <1>3. CASE step = "register"
    <2>1. Cardinality(active') = 0
      BY <1>1, <1>2, <1>3, FS_EmptySet
    <2>2. 0 < m
      BY <1>0, LicenseAssumption DEF TypeOK
    <2>3. QED
      BY <1>0, <1>2, <2>1, <2>2, RoomForAll
  <1>4. CASE step = "plan" /\ Cardinality(active) < m
    BY <1>0, <1>2, <1>4, RoomForAll
  <1>5. CASE step = "plan" /\ ~(Cardinality(active) < m)
    <2>1. c \notin Claims(m)'
      BY <1>2, <1>5 DEF Claims, At, AddingSteps
    <2>2. QED
      BY <1>0, <1>2, <2>1, ClaimsMove, AddsNone
  <1>6. CASE step \notin {"plan", "register"}
    <2>1. c \notin Claims(m)'
      BY <1>1, <1>2, <1>6 DEF Claims, At, AddingSteps
    <2>2. QED
      BY <1>0, <1>2, <2>1, ClaimsMove, AddsNone
  <1>7. QED
    BY <1>3, <1>4, <1>5, <1>6

\* Every step keeps the room for every size the plan may grow to.
LEMMA DeviceStep ==
  ASSUME NEW n \in Nat, Crowd(n)', IInv, RoomBound(n), [LNext]_lvars
  PROVE  RoomBound(n)'
  <1>0. TypeOK /\ CallsKnowRows
    BY DEF IInv
  <1>1. peak \in Nat /\ peak' \in Nat /\ peak' >= peak
    <2>1. peak \in Nat /\ peak' \in Nat
      BY <1>0, BasicStep, LicenseAssumption DEF TypeOK
    <2>2. CASE UpdatePlan
      BY <1>0, <2>1, <2>2, BasicUpdate
    <2>3. peak' = peak \/ UpdatePlan
      BY ArriveLoads, <1>0
      DEF LNext, lvars, MonthTurns, Load, Proceed, ResolvePolicy, RegisterDevice, TouchDevice,
          DeactivateDevice, CountTransfers, CountFails, WipeDevices, FindExisting,
          ReactivateDevice, ReplaceDevice, BumpTransferCount, AuditTransfer, Fail
    <2>4. QED
      BY <2>1, <2>2, <2>3
  <1> SUFFICES ASSUME NEW m \in Nat, m >= peak' PROVE Room(n, m)'
    BY DEF RoomBound
  <1>2. m >= peak /\ Room(n, m)
    BY <1>1 DEF RoomBound
  <1>3. CASE MonthTurns \/ UpdatePlan \/ UNCHANGED lvars
    BY <1>2, <1>3 DEF MonthTurns, UpdatePlan, lvars, Room, Claims, At
  <1>4. QED
    BY <1>2, <1>3, RoomArrive, RoomProceed DEF LNext

-----------------------------------------------------------------------------
(***************************************************************************)
(* How often one machine can be an active device.                          *)
(***************************************************************************)
\* The counts of one fingerprint after a step are numbers.
LEMMA NextCounts ==
  ASSUME TypeOK', NEW f
  PROVE  /\ Cardinality(ActiveOf(f)') \in Nat
         /\ Cardinality(AddingOf(f)') \in Nat
  <1>1. ActiveOf(f)' \in SUBSET DeviceIds
    BY DEF ActiveOf, TypeOK
  <1>2. AddingOf(f)' \in SUBSET Calls
    BY DEF AddingOf, At
  <1>3. QED
    BY <1>1, <1>2, SubsetCount, LicenseAssumption

\* The call that adds a device of a fingerprint leaves the calls that will.
LEMMA DuplicateAdds ==
  ASSUME NEW n \in Nat, TypeOK, TypeOK', DuplicateBound(n), NEW c \in Calls, NEW d \in DeviceIds,
         active' = active \cup {d}, fingerprint'[d] = input[c],
         \A e \in active : fingerprint'[e] = fingerprint[e],
         pc[c] \in AddingSteps, pc'[c] \notin AddingSteps \cup {"plan"},
         \A b \in Calls \ {c} : pc'[b] = pc[b] /\ input'[b] = input[b]
  PROVE  DuplicateBound(n)'
  <1> SUFFICES ASSUME NEW f \in Fingerprints
               PROVE  Cardinality(ActiveOf(f)') + Cardinality(AddingOf(f)') <= n
    BY DEF DuplicateBound
  <1>0. /\ IsFiniteSet(ActiveOf(f))
        /\ Cardinality(ActiveOf(f)) \in Nat
        /\ IsFiniteSet(AddingOf(f))
        /\ Cardinality(AddingOf(f)) \in Nat
        /\ Cardinality(ActiveOf(f)') \in Nat
        /\ Cardinality(AddingOf(f)') \in Nat
        /\ Cardinality(ActiveOf(f)) + Cardinality(AddingOf(f)) <= n
    BY ActiveCount, AddingOfCount, NextCounts DEF DuplicateBound
  <1>1. AddingOf(f)' = AddingOf(f) \ {c}
    BY DEF AddingOf, At
  <1>2. CASE f = input[c]
    <2>1. c \in AddingOf(f)
      BY <1>2 DEF AddingOf, At
    <2>2. Cardinality(AddingOf(f)') = Cardinality(AddingOf(f)) - 1
      BY <1>0, <1>1, <2>1, FS_RemoveElement
    <2>3. ActiveOf(f)' = ActiveOf(f) \cup {d}
      BY <1>2 DEF ActiveOf
    <2>4. Cardinality(ActiveOf(f) \cup {d}) <= Cardinality(ActiveOf(f)) + 1
      <3>1. Cardinality(ActiveOf(f) \cup {d})
              = IF d \in ActiveOf(f) THEN Cardinality(ActiveOf(f))
                                     ELSE Cardinality(ActiveOf(f)) + 1
        BY <1>0, FS_AddElement
      <3>2. QED
        BY <1>0, <3>1
    <2>5. Cardinality(ActiveOf(f)') <= Cardinality(ActiveOf(f)) + 1
      BY <2>3, <2>4
    <2>6. QED
      BY <1>0, <2>2, <2>5
  <1>3. CASE f # input[c]
    <2>1. c \notin AddingOf(f)
      BY <1>3 DEF AddingOf
    <2>2. AddingOf(f)' = AddingOf(f)
      BY <1>1, <2>1
    <2>3. ActiveOf(f)' \in SUBSET ActiveOf(f)
      BY <1>3 DEF ActiveOf
    <2>4. Cardinality(ActiveOf(f)') <= Cardinality(ActiveOf(f))
      BY <1>0, <2>3, FS_Subset
    <2>5. QED
      BY <1>0, <2>2, <2>4
  <1>4. QED
    BY <1>2, <1>3

\* Steps that add no device and lead no call to add one.
LEMMA DuplicateKeeps ==
  ASSUME NEW n \in Nat, TypeOK, TypeOK', DuplicateBound(n),
         active' \in SUBSET active, fingerprint' = fingerprint,
         \A f \in Fingerprints : AddingOf(f)' \in SUBSET AddingOf(f)
  PROVE  DuplicateBound(n)'
  <1> SUFFICES ASSUME NEW f \in Fingerprints
               PROVE  Cardinality(ActiveOf(f)') + Cardinality(AddingOf(f)') <= n
    BY DEF DuplicateBound
  <1>1. ActiveOf(f)' \in SUBSET ActiveOf(f)
    BY DEF ActiveOf
  <1>2. /\ Cardinality(ActiveOf(f)') <= Cardinality(ActiveOf(f))
        /\ Cardinality(ActiveOf(f)) \in Nat
    BY <1>1, ActiveCount, FS_Subset
  <1>3. /\ Cardinality(AddingOf(f)') <= Cardinality(AddingOf(f))
        /\ Cardinality(AddingOf(f)) \in Nat
    BY AddingOfCount, FS_Subset
  <1>4. QED
    BY <1>2, <1>3, NextCounts DEF DuplicateBound

\* A fingerprint without an active device may be added by every call.
LEMMA DuplicateFree ==
  ASSUME NEW n \in Nat, Crowd(n)', TypeOK', NEW f, ActiveOf(f)' = {}
  PROVE  Cardinality(ActiveOf(f)') + Cardinality(AddingOf(f)') <= n
  <1>1. AddingOf(f)' \in SUBSET (Busy')
    BY DEF AddingOf, At, AddingSteps, Busy
  <1>2. Cardinality(AddingOf(f)') \in Nat /\ Cardinality(AddingOf(f)') <= n
    BY <1>1, CrowdCount
  <1>3. Cardinality(ActiveOf(f)') = 0
    BY FS_EmptySet
  <1>4. QED
    BY <1>2, <1>3

\* No await after the first adds to a machine's devices active or about to be.
LEMMA DuplicateProceed ==
  ASSUME NEW n \in Nat, Crowd(n)', IInv, DuplicateBound(n), TypeOK',
         NEW c \in Calls, Proceed(c)
  PROVE  DuplicateBound(n)'
  <1>0. TypeOK /\ CallsKnowRows
    BY DEF IInv
  <1>1. CASE RegisterDevice(c)
    <2>1. PICK d \in DeviceIds : CreateDevice(c, d)
      BY <1>1 DEF RegisterDevice
    <2>2. /\ input[c] \in Fingerprints
          /\ pc[c] \in AddingSteps
          /\ "idle" \notin AddingSteps \cup {"plan"}
      BY <1>0, <1>1 DEF RegisterDevice, CallsKnowRows, AddingSteps
    <2>3. /\ fingerprint'[d] = input[c]
          /\ \A e \in active : fingerprint'[e] = fingerprint[e]
          /\ active' = active \cup {d}
      BY <1>0, <2>1, <2>2, CreateType DEF TypeOK, CreateDevice
    <2>4. /\ pc'[c] = "idle"
          /\ \A b \in Calls \ {c} : pc'[b] = pc[b] /\ input'[b] = input[b]
      BY <1>0, <1>1, ReturnType DEF RegisterDevice
    <2>5. QED
      BY <1>0, <2>2, <2>3, <2>4, DuplicateAdds
  <1>2. CASE ReactivateDevice(c)
    <2>1. /\ target[c] \in DeviceIds
          /\ fingerprint[target[c]] = input[c]
          /\ pc[c] \in AddingSteps
          /\ "bump" \notin AddingSteps \cup {"plan"}
      BY <1>0, <1>2 DEF ReactivateDevice, CallsKnowRows, AddingSteps
    <2>2. /\ active' = active \cup {target[c]}
          /\ fingerprint' = fingerprint
          /\ input' = input
          /\ pc'[c] = "bump"
          /\ \A b \in Calls \ {c} : pc'[b] = pc[b]
      BY <1>0, <1>2, GotoType DEF ReactivateDevice, Steps
    <2>3. QED
      BY <1>0, <2>1, <2>2, DuplicateAdds
  <1>3. CASE ReplaceDevice(c)
    <2>1. PICK d \in DeviceIds : CreateDevice(c, d)
      BY <1>3 DEF ReplaceDevice
    <2>2. /\ input[c] \in Fingerprints
          /\ pc[c] \in AddingSteps
          /\ "bump" \notin AddingSteps \cup {"plan"}
      BY <1>0, <1>3 DEF ReplaceDevice, CallsKnowRows, AddingSteps
    <2>3. /\ fingerprint'[d] = input[c]
          /\ \A e \in active : fingerprint'[e] = fingerprint[e]
          /\ active' = active \cup {d}
      BY <1>0, <2>1, <2>2, CreateType DEF TypeOK, CreateDevice
    <2>4. /\ pc'[c] = "bump"
          /\ \A b \in Calls \ {c} : pc'[b] = pc[b]
          /\ input' = input
      BY <1>0, <1>3, GotoType DEF ReplaceDevice, Steps
    <2>5. QED
      BY <1>0, <2>2, <2>3, <2>4, DuplicateAdds
  <1>4. CASE TouchDevice(c) \/ DeactivateDevice(c) \/ AuditTransfer(c) \/ Fail(c)
             \/ (CountTransfers(c) /\ Return(c)) \/ (ResolvePolicy(c) /\ Return(c))
    <2>1. Return(c) /\ active' \in SUBSET active /\ fingerprint' = fingerprint
      BY <1>4 DEF TouchDevice, DeactivateDevice, AuditTransfer, Fail, CountTransfers,
                  ResolvePolicy
    <2>2. \A f \in Fingerprints : AddingOf(f)' \in SUBSET AddingOf(f)
      BY <1>0, <2>1, ReturnType DEF AddingOf, At, AddingSteps
    <2>3. QED
      BY <1>0, <2>1, <2>2, DuplicateKeeps
  <1>5. CASE (CountTransfers(c) /\ ~Return(c)) \/ CountFails(c) \/ FindExisting(c)
             \/ BumpTransferCount(c) \/ (ResolvePolicy(c) /\ ~Return(c))
    <2>1. active' \in SUBSET active /\ fingerprint' = fingerprint /\ input' = input
      BY <1>5 DEF CountTransfers, CountFails, FindExisting, BumpTransferCount, ResolvePolicy
    <2>2. PICK step \in Steps :
            /\ Goto(c, step)
            /\ step \in AddingSteps \cup {"plan"} <=> pc[c] \in AddingSteps \cup {"plan"}
      BY <1>5 DEF CountTransfers, CountFails, FindExisting, BumpTransferCount, ResolvePolicy,
                  AddingSteps, Steps
    <2>3. \A f \in Fingerprints : AddingOf(f)' \in SUBSET AddingOf(f)
      BY <1>0, <2>1, <2>2, GotoType DEF AddingOf, At
    <2>4. QED
      BY <1>0, <2>1, <2>3, DuplicateKeeps
  <1>6. CASE WipeDevices(c)
    <2>1. \A f \in Fingerprints : ActiveOf(f)' = {}
      BY <1>6 DEF WipeDevices, ActiveOf
    <2>2. QED
      BY <2>1, DuplicateFree DEF DuplicateBound
  <1>7. QED
    BY <1>1, <1>2, <1>3, <1>4, <1>5, <1>6 DEF Proceed

\* A first await adds one only when the machine has none active.
LEMMA DuplicateArrive ==
  ASSUME NEW n \in Nat, Crowd(n)', IInv, DuplicateBound(n), TypeOK',
         NEW c \in Calls, Arrive(c)
  PROVE  DuplicateBound(n)'
  <1>0. TypeOK
    BY DEF IInv
  <1>1. PICK f \in Fingerprints, d \in DeviceIds \cup {None},
             step \in {"plan", "register", "touch", "deactivate", "count"} :
          /\ Load(c, f, d, step)
          /\ step \in {"plan", "register"} => ActiveOf(f) = {}
    BY <1>0, ArriveLoads
  <1>2. /\ active' = active
        /\ fingerprint' = fingerprint
        /\ pc[c] = "idle"
        /\ pc'[c] = step
        /\ input'[c] = f
        /\ \A b \in Calls \ {c} : pc'[b] = pc[b] /\ input'[b] = input[b]
    BY <1>0, <1>1 DEF Load, Goto, TypeOK
  <1>3. \A g : ActiveOf(g)' = ActiveOf(g)
    BY <1>2 DEF ActiveOf
  <1>4. CASE step \in {"plan", "register"}
    <2>1. ASSUME NEW g \in Fingerprints, g # f
          PROVE  AddingOf(g)' = AddingOf(g)
      BY <1>2, <2>1 DEF AddingOf, At, AddingSteps
    <2>2. ASSUME NEW g \in Fingerprints
          PROVE  Cardinality(ActiveOf(g)') + Cardinality(AddingOf(g)') <= n
      <3>1. CASE g = f
        BY <1>1, <1>3, <1>4, <3>1, DuplicateFree
      <3>2. CASE g # f
        BY <1>0, <1>3, <2>1, <3>2 DEF DuplicateBound
      <3>3. QED
        BY <3>1, <3>2
    <2>3. QED
      BY <2>2 DEF DuplicateBound
  <1>5. CASE step \notin {"plan", "register"}
    <2>1. \A g \in Fingerprints : AddingOf(g)' \in SUBSET AddingOf(g)
      BY <1>1, <1>2, <1>5 DEF AddingOf, At, AddingSteps
    <2>2. QED
      BY <1>0, <1>2, <2>1, DuplicateKeeps
  <1>6. QED
    BY <1>4, <1>5

\* Every step keeps the bound on duplicates.
LEMMA DuplicateStep ==
  ASSUME NEW n \in Nat, Crowd(n)', IInv, DuplicateBound(n), TypeOK', [LNext]_lvars
  PROVE  DuplicateBound(n)'
  <1>1. CASE MonthTurns \/ UpdatePlan \/ UNCHANGED lvars
    BY <1>1 DEF MonthTurns, UpdatePlan, lvars, DuplicateBound, ActiveOf, AddingOf, At
  <1>2. QED
    BY <1>1, DuplicateProceed, DuplicateArrive DEF LNext

-----------------------------------------------------------------------------
(***************************************************************************)
(* How many devices are moved in a month.                                  *)
(***************************************************************************)
LEMMA TransferProceed ==
  ASSUME NEW n \in Nat, Crowd(n)', IInv, TransferBound(n), NEW c \in Calls, Proceed(c)
  PROVE  (MovesAccounted /\ TransferBound(n))'
  <1> DEFINE Moving == Cardinality(At(MovingSteps))
             Moved == Cardinality(At(MovedSteps))
  <1>0. /\ TypeOK
        /\ moves <= audits + Moved + missed
        /\ moves + Moving <= TransferLimit - 1 + n + missed
    BY DEF IInv, MovesAccounted, TransferBound
  <1>a. Moving \in Nat /\ Moved \in Nat
    BY AtCount
  <1>c. moves \in Nat /\ audits \in Nat /\ missed \in Nat
    BY <1>0 DEF TypeOK
  <1>d. TransferLimit \in Nat
    BY LicenseAssumption
  <1> SUFFICES /\ moves' <= audits' + Moved' + missed'
               /\ moves' + Moving' <= TransferLimit - 1 + n + missed'
    BY DEF MovesAccounted, TransferBound
  <1> HIDE DEF Moving, Moved
  <1>e. ASSUME NEW step, Goto(c, step)
        PROVE  /\ step \in MovingSteps /\ pc[c] \notin MovingSteps => Moving' = Moving + 1
               /\ step \notin MovingSteps /\ pc[c] \in MovingSteps => Moving' = Moving - 1
               /\ (step \in MovingSteps <=> pc[c] \in MovingSteps) => Moving' = Moving
               /\ step \in MovedSteps /\ pc[c] \notin MovedSteps => Moved' = Moved + 1
               /\ step \notin MovedSteps /\ pc[c] \in MovedSteps => Moved' = Moved - 1
               /\ (step \in MovedSteps <=> pc[c] \in MovedSteps) => Moved' = Moved
    BY <1>0, <1>e, AtMoves DEF Moving, Moved
  <1>1. CASE ResolvePolicy(c) \/ RegisterDevice(c) \/ TouchDevice(c) \/ DeactivateDevice(c)
             \/ (CountTransfers(c) /\ Return(c))
    <2>1. Moving' = Moving /\ Moved' = Moved
      BY <1>1, <1>e DEF ResolvePolicy, RegisterDevice, TouchDevice, DeactivateDevice,
                        CountTransfers, Return, MovingSteps, MovedSteps
    <2>2. UNCHANGED <<audits, moves, missed>>
      BY <1>1 DEF ResolvePolicy, RegisterDevice, TouchDevice, DeactivateDevice, CountTransfers
    <2>3. QED
      BY <1>0, <2>1, <2>2
  <1>2. CASE CountTransfers(c) /\ ~Return(c)
    <2>1. /\ Goto(c, "wipe")
          /\ audits <= TransferLimit - 1
          /\ UNCHANGED <<audits, moves, missed>>
      BY <1>2, <1>c, <1>d DEF CountTransfers
    <2>2. Moving' = Moving + 1 /\ Moved' = Moved
      BY <1>2, <1>e, <2>1 DEF CountTransfers, MovingSteps, MovedSteps
    <2>3. Moving' + Moved' <= n
      <3>1. /\ At(MovingSteps)' \in SUBSET (Busy')
            /\ At(MovedSteps)' \in SUBSET (Busy')
            /\ At(MovingSteps)' \cup At(MovedSteps)' \in SUBSET (Busy')
        BY DEF At, Busy, MovingSteps, MovedSteps
      <3>2. At(MovingSteps)' \cap At(MovedSteps)' = {}
        BY DEF At, MovingSteps, MovedSteps
      <3>3. /\ IsFiniteSet(At(MovingSteps)')
            /\ IsFiniteSet(At(MovedSteps)')
            /\ Cardinality(At(MovingSteps)') \in Nat
            /\ Cardinality(At(MovedSteps)') \in Nat
        BY <3>1, CrowdCount
      <3>4. Cardinality(At(MovingSteps)' \cup At(MovedSteps)')
              = Cardinality(At(MovingSteps)') + Cardinality(At(MovedSteps)')
                - Cardinality(At(MovingSteps)' \cap At(MovedSteps)')
        BY <3>3, FS_Union
      <3>5. Cardinality(At(MovingSteps)' \cap At(MovedSteps)') = 0
        BY <3>2, FS_EmptySet
      <3>6. Cardinality(At(MovingSteps)' \cup At(MovedSteps)') <= n
        BY <3>1, CrowdCount
      <3>7. QED
        BY <3>3, <3>4, <3>5, <3>6 DEF Moving, Moved
    <2>4. QED
      BY <1>0, <1>a, <1>c, <1>d, <2>1, <2>2, <2>3
  <1>3. CASE CountFails(c)
    <2>1. Moving' = Moving + 1 /\ Moved' = Moved
      BY <1>3, <1>e DEF CountFails, MovingSteps, MovedSteps
    <2>2. QED
      BY <1>0, <1>a, <1>c, <1>d, <1>3, <2>1 DEF CountFails
  <1>4. CASE WipeDevices(c) \/ FindExisting(c) \/ BumpTransferCount(c)
    <2>1. Moving' = Moving /\ Moved' = Moved
      BY <1>4, <1>e DEF WipeDevices, FindExisting, BumpTransferCount, MovingSteps, MovedSteps
    <2>2. UNCHANGED <<audits, moves, missed>>
      BY <1>4 DEF WipeDevices, FindExisting, BumpTransferCount
    <2>3. QED
      BY <1>0, <2>1, <2>2
  <1>5. CASE ReactivateDevice(c) \/ ReplaceDevice(c)
    <2>1. Moving' = Moving - 1 /\ Moved' = Moved + 1
      BY <1>5, <1>e DEF ReactivateDevice, ReplaceDevice, MovingSteps, MovedSteps
    <2>2. moves' = moves + 1 /\ UNCHANGED <<audits, missed>>
      BY <1>5 DEF ReactivateDevice, ReplaceDevice
    <2>3. QED
      BY <1>0, <1>a, <1>c, <1>d, <2>1, <2>2
  <1>6. CASE AuditTransfer(c)
    <2>1. Moving' = Moving /\ Moved' = Moved - 1
      BY <1>6, <1>e DEF AuditTransfer, Return, MovingSteps, MovedSteps
    <2>2. QED
      BY <1>0, <1>a, <1>c, <1>d, <1>6, <2>1 DEF AuditTransfer
  <1>7. CASE Fail(c)
    <2>1. CASE pc[c] \in MovedSteps
      <3>1. Moving' = Moving /\ Moved' = Moved - 1
        BY <1>7, <1>e, <2>1 DEF Fail, Return, MovingSteps, MovedSteps
      <3>2. QED
        BY <1>0, <1>a, <1>c, <1>d, <1>7, <2>1, <3>1 DEF Fail
    <2>2. CASE pc[c] \notin MovedSteps
      <3>1. (Moving' = Moving \/ Moving' = Moving - 1) /\ Moved' = Moved
        BY <1>7, <1>e, <2>2 DEF Fail, Return, MovingSteps, MovedSteps
      <3>2. QED
        BY <1>0, <1>a, <1>c, <1>d, <1>7, <2>2, <3>1 DEF Fail
    <2>3. QED
      BY <2>1, <2>2
  <1>8. QED
    BY <1>1, <1>2, <1>3, <1>4, <1>5, <1>6, <1>7 DEF Proceed

\* Every step keeps the bound on transfers and the account of moves.
LEMMA TransferStep ==
  ASSUME NEW n \in Nat, Crowd(n)', IInv, TransferBound(n), [LNext]_lvars
  PROVE  (MovesAccounted /\ TransferBound(n))'
  <1>0. TypeOK /\ MovesAccounted
    BY DEF IInv
  <1>1. ASSUME NEW c \in Calls, Arrive(c)
        PROVE  (MovesAccounted /\ TransferBound(n))'
    <2>1. PICK step \in {"plan", "register", "touch", "deactivate", "count"} : Goto(c, step)
      BY <1>0, <1>1, ArriveLoads DEF Load
    <2>2. pc[c] = "idle" /\ UNCHANGED <<audits, moves, missed>>
      BY <1>0, <1>1, ArriveLoads DEF Load
    <2>3. /\ Cardinality(At(MovingSteps))' = Cardinality(At(MovingSteps))
          /\ Cardinality(At(MovedSteps))' = Cardinality(At(MovedSteps))
      BY <1>0, <2>1, <2>2, AtMoves DEF MovingSteps, MovedSteps
    <2>4. QED
      BY <1>0, <2>2, <2>3 DEF MovesAccounted, TransferBound
  <1>2. CASE MonthTurns
    <2>1. /\ At(MovingSteps)' = At(MovingSteps)
          /\ At(MovedSteps)' = At(MovedSteps)
          /\ moves' = 0 /\ audits' = 0 /\ missed' = 0
      BY <1>2 DEF MonthTurns, At
    <2>2. At(MovingSteps)' \in SUBSET (Busy')
      BY DEF At, Busy, MovingSteps
    <2>3. /\ Cardinality(At(MovingSteps)') \in Nat
          /\ Cardinality(At(MovingSteps)') <= n
          /\ Cardinality(At(MovedSteps)) \in Nat
      BY <2>2, CrowdCount, AtCount
    <2>4. QED
      BY <2>1, <2>3, LicenseAssumption DEF MovesAccounted, TransferBound
  <1>3. CASE UpdatePlan \/ UNCHANGED lvars
    BY <1>0, <1>3 DEF UpdatePlan, lvars, MovesAccounted, TransferBound, At
  <1>4. QED
    BY <1>1, <1>2, <1>3, TransferProceed DEF LNext

-----------------------------------------------------------------------------
(***************************************************************************)
(* A transfer that has the license to itself.                              *)
(***************************************************************************)
LEMMA AloneProceed ==
  ASSUME IInv, TypeOK', CallsKnowRows', NEW c \in Calls, Proceed(c)
  PROVE  (AloneIsAlone /\ LoneTransferMoves)'
  <1>0. TypeOK /\ CallsKnowRows /\ AloneIsAlone /\ LoneTransferMoves
    BY DEF IInv
  <1>1. /\ alone' = alone
        /\ pc[c] # "idle"
        /\ \A b \in Calls \ {c} : pc'[b] = pc[b]
    <2>1. alone' = alone /\ pc[c] # "idle"
      BY DEF Proceed, ResolvePolicy, RegisterDevice, TouchDevice, DeactivateDevice, CountTransfers, CountFails,
             WipeDevices, FindExisting, ReactivateDevice, ReplaceDevice, BumpTransferCount,
             AuditTransfer, Fail
    <2>2. \E step : Goto(c, step)
      BY DEF Proceed, ResolvePolicy, RegisterDevice, TouchDevice, DeactivateDevice, CountTransfers, CountFails,
             WipeDevices, FindExisting, ReactivateDevice, ReplaceDevice, BumpTransferCount,
             AuditTransfer, Fail, Return
    <2>3. QED
      BY <1>0, <2>1, <2>2 DEF Goto, TypeOK
  <1>2. \A a \in alone : a # c => pc'[a] = "idle"
    BY <1>0, <1>1 DEF AloneIsAlone, TypeOK
  <1>3. c \in alone => \A b \in Calls \ {c} : pc'[b] = "idle"
    BY <1>0, <1>1 DEF AloneIsAlone, TypeOK
  <1>4. ASSUME c \in alone
        PROVE  /\ pc'[c] \in {"findExisting", "reactivate", "replace"} => active' = {}
               /\ pc'[c] \in MovedSteps =>
                    active' = {target'[c]} /\ fingerprint'[target'[c]] = input'[c]
    <2>1. CASE ResolvePolicy(c) \/ RegisterDevice(c) \/ TouchDevice(c) \/ DeactivateDevice(c)
               \/ AuditTransfer(c) \/ Fail(c) \/ (CountTransfers(c) /\ Return(c))
      <3>1. pc'[c] \in {"idle", "register"}
        BY <1>0, <2>1, ReturnType, GotoType
        DEF Steps, ResolvePolicy, RegisterDevice, TouchDevice, DeactivateDevice, AuditTransfer, Fail
      <3>2. QED
        BY <3>1 DEF MovedSteps
    <2>2. CASE (CountTransfers(c) /\ ~Return(c)) \/ CountFails(c)
      <3>1. pc'[c] = "wipe"
        BY <1>0, <2>2 DEF CountTransfers, CountFails, Goto, TypeOK
      <3>2. QED
        BY <3>1 DEF MovedSteps
    <2>3. CASE WipeDevices(c)
      BY <1>0, <2>3 DEF WipeDevices, Goto, TypeOK, MovedSteps
    <2>4. CASE FindExisting(c)
      <3>1. active = {} /\ active' = active
        BY <1>0, <1>4, <2>4 DEF FindExisting, AloneIsAlone
      <3>2. pc'[c] \notin MovedSteps
        BY <1>0, <2>4 DEF FindExisting, Goto, TypeOK, MovedSteps
      <3>3. QED
        BY <3>1, <3>2
    <2>5. CASE ReactivateDevice(c)
      <3>1. active = {}
        BY <1>0, <1>4, <2>5 DEF ReactivateDevice, AloneIsAlone
      <3>2. fingerprint[target[c]] = input[c] /\ pc'[c] = "bump"
        BY <1>0, <2>5 DEF ReactivateDevice, CallsKnowRows, Goto, TypeOK
      <3>3. QED
        BY <2>5, <3>1, <3>2 DEF ReactivateDevice
    <2>6. CASE ReplaceDevice(c)
      <3>1. active = {}
        BY <1>0, <1>4, <2>6 DEF ReplaceDevice, AloneIsAlone
      <3>2. PICK d \in DeviceIds : CreateDevice(c, d) /\ target' = [target EXCEPT ![c] = d]
        BY <2>6 DEF ReplaceDevice
      <3>3. /\ active' = {d}
            /\ target'[c] = d
            /\ fingerprint'[d] = input[c]
            /\ input' = input
            /\ pc'[c] = "bump"
        BY <1>0, <2>6, <3>1, <3>2 DEF ReplaceDevice, CreateDevice, Goto, TypeOK
      <3>4. QED
        BY <3>3
    <2>7. CASE BumpTransferCount(c)
      <3>1. active = {target[c]} /\ fingerprint[target[c]] = input[c]
        BY <1>0, <1>4, <2>7 DEF BumpTransferCount, LoneTransferMoves, MovedSteps
      <3>2. pc'[c] = "audit"
        BY <1>0, <2>7 DEF BumpTransferCount, Goto, TypeOK
      <3>3. QED
        BY <2>7, <3>1, <3>2 DEF BumpTransferCount
    <2>8. QED
      BY <2>1, <2>2, <2>3, <2>4, <2>5, <2>6, <2>7 DEF Proceed
  <1>5. AloneIsAlone'
    BY <1>1, <1>2, <1>3, <1>4 DEF AloneIsAlone
  <1>6. LoneTransferMoves'
    BY <1>1, <1>2, <1>4 DEF LoneTransferMoves, MovedSteps
  <1>7. QED
    BY <1>5, <1>6

\* Every step keeps what a call that has been alone knows of the table.
LEMMA AloneStep ==
  ASSUME IInv, TypeOK', CallsKnowRows', [LNext]_lvars
  PROVE  (AloneIsAlone /\ LoneTransferMoves)'
  <1>0. TypeOK /\ AloneIsAlone /\ LoneTransferMoves
    BY DEF IInv
  <1>1. ASSUME NEW c \in Calls, Arrive(c)
        PROVE  (AloneIsAlone /\ LoneTransferMoves)'
    <2>1. PICK f \in Fingerprints, d \in DeviceIds \cup {None},
               step \in {"plan", "register", "touch", "deactivate", "count"} : Load(c, f, d, step)
      BY <1>0, <1>1, ArriveLoads
    <2>2. /\ pc'[c] \in {"plan", "register", "touch", "deactivate", "count"}
          /\ \A b \in Calls \ {c} : pc'[b] = pc[b]
          /\ alone' # {} => alone' = {c} /\ \A b \in Calls \ {c} : pc[b] = "idle"
      BY <1>0, <2>1 DEF Load, Goto, TypeOK
    <2>3. QED
      BY <2>2 DEF AloneIsAlone, LoneTransferMoves, MovedSteps
  <1>2. CASE MonthTurns \/ UpdatePlan \/ UNCHANGED lvars
    BY <1>0, <1>2 DEF MonthTurns, UpdatePlan, lvars, AloneIsAlone, LoneTransferMoves
  <1>3. QED
    BY <1>1, <1>2, AloneProceed DEF LNext

\* Every step keeps what such a call has read.
LEMMA LoneReadsStep ==
  ASSUME IInv, TypeOK', [LNext]_lvars
  PROVE  LoneReads'
  <1>0. TypeOK /\ AloneIsAlone /\ LoneReads
    BY DEF IInv
  <1>1. ASSUME NEW c \in Calls, Arrive(c)
        PROVE  LoneReads'
    <2>1. PICK f \in Fingerprints, d \in DeviceIds \cup {None},
               step \in {"plan", "register", "touch", "deactivate", "count"} :
            /\ Load(c, f, d, step)
            /\ step = "register" => active = {}
            /\ seen' = IF step = "plan" THEN [seen EXCEPT ![c] = Cardinality(active)] ELSE seen
      BY <1>0, <1>1, ArriveLoads
    <2>2. /\ pc'[c] = step
          /\ active' = active
          /\ maxDevices' = maxDevices
          /\ alone' \in SUBSET {c}
          /\ step = "plan" => seen'[c] = Cardinality(active)
      BY <1>0, <2>1 DEF Load, Goto, TypeOK
    <2>3. step = "register" => Cardinality(active) < maxDevices
      BY <1>0, <2>1, FS_EmptySet, LicenseAssumption DEF TypeOK
    <2>4. QED
      BY <2>2, <2>3 DEF LoneReads
  <1>2. ASSUME NEW c \in Calls, Proceed(c)
        PROVE  LoneReads'
    <2>1. alone' = alone /\ pc[c] # "idle"
      BY <1>2 DEF Proceed, ResolvePolicy, RegisterDevice, TouchDevice, DeactivateDevice, CountTransfers,
             CountFails, WipeDevices, FindExisting, ReactivateDevice, ReplaceDevice,
             BumpTransferCount, AuditTransfer, Fail
    <2>2. PICK step \in Steps : Goto(c, step)
      BY <1>2 DEF Proceed, ResolvePolicy, RegisterDevice, TouchDevice, DeactivateDevice, CountTransfers,
             CountFails, WipeDevices, FindExisting, ReactivateDevice, ReplaceDevice,
             BumpTransferCount, AuditTransfer, Fail, Return, Steps
    <2>3. pc'[c] = step /\ \A b \in Calls \ {c} : pc'[b] = pc[b]
      BY <1>0, <2>2, GotoType
    <2>4. \A a \in alone : a # c => pc'[a] = "idle"
      BY <1>0, <2>1, <2>3 DEF AloneIsAlone, TypeOK
    <2>5. CASE (CountTransfers(c) /\ ~Return(c)) \/ CountFails(c)
      <3>1. pc'[c] = "wipe"
        BY <1>0, <2>5 DEF CountTransfers, CountFails, Goto, TypeOK
      <3>2. audits' < TransferLimit \/ missed' > 0
        BY <1>0, <2>5 DEF CountTransfers, CountFails, TypeOK
      <3>3. QED
        BY <2>1, <2>4, <3>1, <3>2 DEF LoneReads
    <2>6. CASE pc'[c] \notin {"plan", "register", "wipe"}
      BY <2>1, <2>4, <2>6 DEF LoneReads
    <2>7. CASE ResolvePolicy(c)
      <3>1. c \in alone /\ pc'[c] = "register" => Cardinality(active') < maxDevices'
        BY <1>0, <2>7, ReturnType DEF ResolvePolicy, LoneReads
      <3>2. pc'[c] \in {"idle", "register"}
        BY <1>0, <2>7, GotoType, ReturnType DEF ResolvePolicy, Steps
      <3>3. QED
        BY <2>1, <2>4, <3>1, <3>2 DEF LoneReads
    <2>8. QED
      BY <1>0, <1>2, <2>5, <2>6, <2>7
      DEF Proceed, ResolvePolicy, RegisterDevice, TouchDevice, DeactivateDevice, CountTransfers, WipeDevices,
          FindExisting, ReactivateDevice, ReplaceDevice, BumpTransferCount, AuditTransfer, Fail,
          Return, Goto, TypeOK
  <1>3. CASE MonthTurns
    BY <1>0, <1>3, LicenseAssumption DEF MonthTurns, LoneReads
  <1>4. CASE UpdatePlan
    BY <1>4 DEF UpdatePlan, LoneReads
  <1>5. CASE UNCHANGED lvars
    BY <1>0, <1>5 DEF lvars, LoneReads
  <1>6. QED
    BY <1>1, <1>2, <1>3, <1>4, <1>5 DEF LNext

-----------------------------------------------------------------------------
(***************************************************************************)
(* The theorems.                                                           *)
(***************************************************************************)
LEMMA RoomsInit ==
  ASSUME NEW n \in Nat, LInit
  PROVE  Rooms(n) /\ MovesAccounted
  <1>1. \A steps : "idle" \notin steps => At(steps) = {}
    BY DEF LInit, At
  <1>2. /\ At(AddingSteps) = {}
        /\ At({"plan"}) = {}
        /\ At(AddingSteps \cup {"plan"}) = {}
        /\ At(MovingSteps) = {}
        /\ At(MovedSteps) = {}
    BY <1>1 DEF AddingSteps, MovingSteps, MovedSteps
  <1>3. Cardinality({}) = 0
    BY FS_EmptySet
  <1>4. \A f : ActiveOf(f) = {} /\ AddingOf(f) = {}
    BY <1>2 DEF LInit, ActiveOf, AddingOf
  <1>5. /\ 0 + 0 <= TransferLimit - 1 + n + 0
        /\ 0 + 0 <= n
    BY LicenseAssumption
  <1>6. active = {} /\ moves = 0 /\ audits = 0 /\ missed = 0
    BY DEF LInit
  <1>7. RoomBound(n)
    <2>1. peak \in Nat \ {0}
      BY LicenseAssumption DEF LInit
    <2> SUFFICES ASSUME NEW m \in Nat, m >= peak PROVE Room(n, m)
      BY DEF RoomBound
    <2>2. Claims(m) = {}
      BY <1>2 DEF Claims
    <2>3. Cardinality(active) = 0 /\ Cardinality(Claims(m)) = 0
      BY <1>3, <1>6, <2>2
    <2>4. 0 + 0 <= m - 1 + n
      BY <2>1
    <2>5. QED
      BY <2>3, <2>4 DEF Room
  <1>8. DuplicateBound(n)
    BY <1>3, <1>4, <1>5 DEF DuplicateBound
  <1>9. TransferBound(n) /\ MovesAccounted
    BY <1>2, <1>3, <1>5, <1>6 DEF MovesAccounted, TransferBound
  <1>10. QED
    BY <1>7, <1>8, <1>9 DEF Rooms

\* Room for every size the plan may grow to is room for the largest so far.
LEMMA RoomsBound ==
  ASSUME NEW n \in Nat, TypeOK, Rooms(n)
  PROVE  Bounds(n)
  <1>1. peak \in Nat
    BY LicenseAssumption DEF TypeOK
  <1>2. Room(n, peak)
    BY <1>1 DEF Rooms, RoomBound
  <1>3. At(AddingSteps) \in SUBSET Claims(peak)
    BY DEF Claims
  <1>4. /\ Cardinality(At(AddingSteps)) <= Cardinality(Claims(peak))
        /\ Cardinality(At(AddingSteps)) \in Nat
        /\ Cardinality(Claims(peak)) \in Nat
    BY <1>3, ClaimsCount, SubsetCount
  <1>5. Cardinality(active) \in Nat
    BY ActiveCount
  <1>6. DeviceBound(n)
    BY <1>1, <1>2, <1>4, <1>5 DEF Room, DeviceBound
  <1>7. QED
    BY <1>6 DEF Rooms, Bounds

\* The initial state satisfies the invariant.
LEMMA InvInit == LInit => IInv
  <1> SUFFICES ASSUME LInit PROVE IInv
    OBVIOUS
  <1>1. TypeOK /\ CallsKnowRows
    BY BasicInit
  <1>2. Cardinality(Calls) \in Nat
    BY FS_CardinalityType, LicenseAssumption
  <1>3. Rooms(Cardinality(Calls)) /\ MovesAccounted
    BY <1>2, RoomsInit
  <1>4. AloneIsAlone /\ LoneReads /\ LoneTransferMoves
    BY DEF LInit, AloneIsAlone, LoneReads, LoneTransferMoves
  <1>5. QED
    BY <1>1, <1>3, <1>4 DEF IInv

\* While no more than n calls are in flight, the bounds for n are kept.
LEMMA RoomsStep ==
  ASSUME NEW n \in Nat, Crowd(n)', IInv, Rooms(n), [LNext]_lvars
  PROVE  (Rooms(n) /\ MovesAccounted)'
  <1>1. TypeOK'
    BY BasicStep DEF IInv
  <1>2. RoomBound(n) /\ DuplicateBound(n) /\ TransferBound(n)
    BY DEF Rooms
  <1>3. QED
    BY <1>1, <1>2, DeviceStep, DuplicateStep, TransferStep DEF Rooms

\* Every step keeps the invariant.
LEMMA InvStep == IInv /\ [LNext]_lvars => IInv'
  <1> SUFFICES ASSUME IInv, [LNext]_lvars PROVE IInv'
    OBVIOUS
  <1>1. (TypeOK /\ CallsKnowRows)'
    BY BasicStep DEF IInv
  <1>2. Cardinality(Calls) \in Nat /\ Crowd(Cardinality(Calls))'
    <2>1. Busy' \in SUBSET Calls
      BY DEF Busy
    <2>2. QED
      BY <2>1, SubsetCount, LicenseAssumption DEF Crowd
  <1>3. Rooms(Cardinality(Calls))
    BY DEF IInv
  <1>4. (Rooms(Cardinality(Calls)) /\ MovesAccounted)'
    BY <1>2, <1>3, RoomsStep
  <1>5. QED
    BY <1>1, <1>4, AloneStep, LoneReadsStep DEF IInv

\* The inductive invariant holds in every reachable state.
THEOREM Invariance == LSpec => []IInv
  BY InvInit, InvStep, PTL DEF LSpec

\* And with it the bounds for all the calls.
LEMMA AllBounds == IInv => Bounds(Cardinality(Calls))
  BY RoomsBound, FS_CardinalityType, LicenseAssumption DEF IInv

\* However calls, failures, crashes and resizings of the plan interleave, a
\* license has at most P - 1 + |Calls| active devices, P the largest the plan
\* has been: it may be over a plan that was made smaller by any number.
THEOREM DevicesBounded == LSpec => []DeviceOvershoot
  <1>1. IInv => DeviceOvershoot
    BY AllBounds DEF Bounds, DeviceBound, DeviceOvershoot
  <1>2. QED
    BY <1>1, Invariance, PTL

\* A machine is an active device at most once for each concurrent call.
THEOREM DuplicatesBounded == LSpec => []DuplicateOvershoot
  <1>1. IInv => DuplicateOvershoot
    BY AllBounds DEF Bounds, DuplicateBound, DuplicateOvershoot
  <1>2. QED
    BY <1>1, Invariance, PTL

\* The devices moved in a month exceed the limit by at most the concurrent
\* counts and the bookkeeping that failed.
THEOREM TransfersBounded == LSpec => []TransferOvershoot
  <1>1. IInv => TransferOvershoot
    BY AllBounds DEF Bounds, TransferBound, TransferOvershoot
  <1>2. QED
    BY <1>1, Invariance, PTL

\* What counts is the calls really in flight together, not those the API
\* could serve: as long as there are never more than n, the largest plan so
\* far and the other limits are passed by less than n, whatever fails or
\* crashes on the way.
THEOREM CrowdBounds ==
  ASSUME NEW CONSTANT n \in Nat
  PROVE  LSpec /\ []Crowd(n) => []Bounds(n)
  <1>1. LInit => Rooms(n)
    BY RoomsInit
  <1>2. IInv /\ Crowd(n)' /\ Rooms(n) /\ [LNext]_lvars => Rooms(n)'
    BY RoomsStep
  <1>3. IInv /\ Rooms(n) => Bounds(n)
    BY RoomsBound DEF IInv
  <1>4. QED
    BY <1>1, <1>2, <1>3, Invariance, PTL DEF LSpec

\* No two calls are in flight together.
OneAtATime == \A b, c \in Calls : pc[b] # "idle" /\ pc[c] # "idle" => b = c

\* There are no more devices than the largest plan so far allowed, a machine
\* has one of them, and the month no more transfers than its limit and those
\* that lost their bookkeeping.
LimitsKept ==
  /\ Cardinality(active) <= peak
  /\ \A d, e \in active : fingerprint[d] = fingerprint[e] => d = e
  /\ moves <= TransferLimit + missed

\* With the calls of a license served one after the other its devices pass no
\* size the plan has had, also when calls die between two statements or the
\* plan is resized in between: a plan that has not been made smaller is
\* never passed, so what breaks it in the run plan_limit is the interleaving.
THEOREM SerialCallsKeepLimits == LSpec /\ []OneAtATime => []LimitsKept
  <1>1. LInit => Rooms(1)
    BY RoomsInit
  <1>2. OneAtATime => Crowd(1)
    <2> SUFFICES ASSUME OneAtATime PROVE Crowd(1)
      OBVIOUS
    <2>1. CASE Busy = {}
      BY <2>1, FS_EmptySet DEF Crowd
    <2>2. CASE Busy # {}
      <3>1. PICK c \in Calls : c \in Busy
        BY <2>2 DEF Busy
      <3>2. Busy = {c}
        BY <3>1 DEF OneAtATime, Busy
      <3>3. QED
        BY <3>2, FS_Singleton DEF Crowd
    <2>3. QED
      BY <2>1, <2>2
  <1>3. IInv /\ Crowd(1)' /\ Rooms(1) /\ [LNext]_lvars => Rooms(1)'
    BY RoomsStep
  <1>4. IInv /\ Rooms(1) => LimitsKept
    <2> SUFFICES ASSUME IInv, Rooms(1) PROVE LimitsKept
      OBVIOUS
    <2>0. TypeOK /\ Bounds(1) /\ peak \in Nat
      BY RoomsBound, LicenseAssumption DEF IInv, TypeOK
    <2>1. Cardinality(active) <= peak
      BY <2>0, ActiveCount, AtCount DEF Bounds, DeviceBound
    <2>2. ASSUME NEW d \in active, NEW e \in active, fingerprint[d] = fingerprint[e]
          PROVE  d = e
      <3> DEFINE f == fingerprint[d]
      <3>1. f \in Fingerprints /\ {d, e} \in SUBSET ActiveOf(f)
        BY <2>0, <2>2 DEF TypeOK, ActiveOf
      <3>2. IsFiniteSet(ActiveOf(f)) /\ Cardinality(ActiveOf(f)) \in Nat
        BY <2>0, ActiveCount
      <3>3. Cardinality(ActiveOf(f)) <= 1
        BY <2>0, <3>1, <3>2, AddingOfCount DEF Bounds, DuplicateBound
      <3>4. Cardinality({d, e}) <= Cardinality(ActiveOf(f)) /\ Cardinality({d, e}) \in Nat
        BY <3>1, <3>2, SubsetCount
      <3>5. ASSUME d # e PROVE Cardinality({d, e}) = 2
        <4> DEFINE One == {d}
        <4>1. IsFiniteSet(One) /\ Cardinality(One) = 1 /\ e \notin One
          BY <3>5, FS_Singleton
        <4> HIDE DEF One
        <4>2. Cardinality(One \cup {e}) = 2
          BY <4>1, FS_AddElement
        <4>3. One \cup {e} = {d, e}
          BY DEF One
        <4>4. QED
          BY <4>2, <4>3
      <3>6. QED
        BY <3>2, <3>3, <3>4, <3>5
    <2>3. moves <= TransferLimit + missed
      BY <2>0, AtCount, LicenseAssumption DEF Bounds, TransferBound, TypeOK
    <2>4. QED
      BY <2>1, <2>2, <2>3 DEF LimitsKept
  <1>5. QED
    BY <1>1, <1>2, <1>3, <1>4, Invariance, PTL DEF LSpec

\* And while neither another call nor a resizing comes in between, a device is
\* registered only if it fits the plan as it is: a license that is over a
\* plan made smaller gets no further device.
THEOREM LoneRegistrationsFit ==
  LSpec => [][\A c \in Calls :
                c \in alone /\ RegisterDevice(c) => Cardinality(active') <= maxDevices]_lvars
  <1> DEFINE Fits == \A c \in Calls :
                       c \in alone /\ RegisterDevice(c) => Cardinality(active') <= maxDevices
  <1>1. ASSUME IInv, NEW c \in Calls, c \in alone, RegisterDevice(c)
        PROVE  Cardinality(active') <= maxDevices
    <2>0. TypeOK /\ maxDevices \in Nat
      BY <1>1, LicenseAssumption DEF IInv, TypeOK
    <2>1. Cardinality(active) < maxDevices
      BY <1>1 DEF IInv, LoneReads, RegisterDevice
    <2>2. PICK d : active' = active \cup {d}
      BY <1>1 DEF RegisterDevice, CreateDevice
    <2>3. /\ Cardinality(active') <= Cardinality(active) + 1
          /\ Cardinality(active) \in Nat
          /\ Cardinality(active') \in Nat
      BY <2>0, <2>2, ActiveGrows, ActiveCount, FS_AddElement, FS_CardinalityType
    <2>4. QED
      BY <2>0, <2>1, <2>3
  <1>2. IInv /\ [LNext]_lvars => [Fits]_lvars
    BY <1>1
  <1>3. QED
    BY <1>2, Invariance, PTL DEF LSpec

\* An undisturbed transfer leaves its machine as the one active device.
THEOREM TransferMoves == LSpec => []LoneTransferMoves
  BY Invariance, PTL DEF IInv

-----------------------------------------------------------------------------
(***************************************************************************)
(* The engine without a database.                                          *)
(***************************************************************************)
\* What its two variables stand for here.
Machines == {fingerprint[d] : d \in active}
FakeDevices == IF Replacing = {} THEN Machines ELSE {input[c] : c \in Replacing}
FakeCount == moves + Cardinality(Replacing)

\* The instance counts sets like everyone else.
LEMMA FakeCardinality ==
  ASSUME NEW S
  PROVE  Fake!Cardinality(S) = Cardinality(S)
  BY DEF Fake!Cardinality, Cardinality

\* Its steps in these terms.
LEMMA FakeSteps ==
  /\ FakeDevices' = FakeDevices /\ FakeCount' = FakeCount => UNCHANGED Fake!engineVars
  /\ FakeDevices' = FakeDevices /\ FakeCount' = 0 => Fake!EngineNext
  /\ \A f \in Fingerprints :
       FakeCount' = FakeCount =>
         /\ /\ Cardinality(FakeDevices) < maxDevices
            /\ FakeDevices' = FakeDevices \cup {f}
            => Fake!EngineNext
         /\ /\ f \in FakeDevices
            /\ FakeDevices' = FakeDevices \ {f}
            => Fake!EngineNext
  /\ \A f \in Fingerprints :
       FakeCount < TransferLimit /\ FakeDevices' = {f} /\ FakeCount' = FakeCount + 1
         => Fake!EngineNext
  BY FakeCardinality
  DEF FakeDevices, FakeCount, Machines, Fake!engineVars, Fake!EngineNext, Fake!Activate,
         Fake!Deactivate, Fake!Transfer, Fake!NewMonth

\* A license has no more machines than active device rows.
LEMMA MachinesCount ==
  ASSUME TypeOK
  PROVE  Cardinality(Machines) \in Nat /\ Cardinality(Machines) <= Cardinality(active)
  <1> DEFINE hash == [d \in active |-> fingerprint[d]]
  <1>1. IsFiniteSet(active)
    BY ActiveCount
  <1>2. hash \in Surjection(active, Machines)
    BY DEF Machines, Surjection
  <1> HIDE DEF hash
  <1>3. IsFiniteSet(Machines) /\ Cardinality(Machines) <= Cardinality(active)
    BY <1>1, <1>2, FS_Surjection
  <1>4. QED
    BY <1>3, FS_CardinalityType

\* One call in flight that has been alone: every step of it, failures of the
\* replacement excepted, is one of the other engine or none.
LEMMA FakeProceed ==
  ASSUME IInv, TypeOK', ServedAlone, missed' = 0, NEW c \in Calls, Proceed(c),
         c \in Replacing => ~Fail(c)
  PROVE  [Fake!EngineNext]_(Fake!engineVars)
  <1>0. TypeOK /\ CallsKnowRows /\ MovesAccounted /\ AloneIsAlone /\ LoneReads
    BY DEF IInv
  <1>1. pc[c] # "idle"
    BY DEF Proceed, ResolvePolicy, RegisterDevice, TouchDevice, DeactivateDevice, CountTransfers, CountFails,
           WipeDevices, FindExisting, ReactivateDevice, ReplaceDevice, BumpTransferCount,
           AuditTransfer, Fail
  <1>2. /\ c \in alone
        /\ \A b \in Calls \ {c} : pc[b] = "idle"
        /\ input[c] \in Fingerprints
        /\ missed = 0
    BY <1>0, <1>1 DEF ServedAlone, AloneIsAlone, CallsKnowRows
  <1>3. PICK step \in Steps : Goto(c, step)
    BY DEF Proceed, ResolvePolicy, RegisterDevice, TouchDevice, DeactivateDevice, CountTransfers, CountFails,
           WipeDevices, FindExisting, ReactivateDevice, ReplaceDevice, BumpTransferCount,
           AuditTransfer, Fail, Return, Steps
  <1>4. pc'[c] = step /\ \A b \in Calls \ {c} : pc'[b] = "idle"
    BY <1>0, <1>2, <1>3, GotoType
  <1> DEFINE Replaces == {"findExisting", "reactivate", "replace"}
  <1>5. /\ Replacing = IF pc[c] \in Replaces THEN {c} ELSE {}
        /\ Replacing' = IF step \in Replaces THEN {c} ELSE {}
    BY <1>2, <1>4 DEF Replacing, At
  <1>6. Cardinality({}) = 0 /\ Cardinality({c}) = 1
    BY FS_EmptySet, FS_Singleton
  <1>7. moves \in Nat /\ audits \in Nat
    BY <1>0 DEF TypeOK
  <1>8. /\ pc[c] \notin Replaces => FakeDevices = Machines /\ FakeCount = moves
        /\ pc[c] \in Replaces => FakeDevices = {input[c]} /\ FakeCount = moves + 1
    BY <1>5, <1>6, <1>7 DEF FakeDevices, FakeCount
  <1>9. moves' \in Nat
    BY DEF TypeOK
  <1>10. /\ step \notin Replaces => FakeDevices' = Machines' /\ FakeCount' = moves'
         /\ step \in Replaces => FakeDevices' = {input'[c]} /\ FakeCount' = moves' + 1
    BY <1>5, <1>6, <1>9 DEF FakeDevices, FakeCount
  <1>11. CASE RegisterDevice(c)
    <2>1. PICK d \in DeviceIds : CreateDevice(c, d)
      BY <1>11 DEF RegisterDevice
    <2>2. /\ d \notin active
          /\ active' = active \cup {d}
          /\ fingerprint'[d] = input[c]
          /\ \A e \in active : fingerprint'[e] = fingerprint[e]
      BY <1>0, <1>2, <2>1, CreateType DEF CreateDevice, TypeOK
    <2>3. Machines' = Machines \cup {input[c]}
      BY <2>2 DEF Machines
    <2>4. Cardinality(Machines) < maxDevices
      <3>1. Cardinality(active) < maxDevices
        BY <1>0, <1>2, <1>11 DEF LoneReads, RegisterDevice
      <3>2. maxDevices \in Nat
        BY <1>0, LicenseAssumption DEF TypeOK
      <3>3. QED
        BY <1>0, <3>1, <3>2, MachinesCount, ActiveCount
    <2>5. pc[c] \notin Replaces /\ step \notin Replaces /\ moves' = moves
      BY <1>0, <1>4, <1>11, ReturnType DEF RegisterDevice
    <2>6. QED
      BY <1>2, <1>8, <1>10, <2>3, <2>4, <2>5, FakeSteps
  <1>12. CASE DeactivateDevice(c)
    <2>1. pc[c] \notin Replaces /\ step \notin Replaces /\ moves' = moves
      BY <1>0, <1>4, <1>12, ReturnType DEF DeactivateDevice
    <2>2. /\ active' = active \ {target[c]}
          /\ fingerprint' = fingerprint
          /\ fingerprint[target[c]] = input[c]
      BY <1>0, <1>12 DEF DeactivateDevice, CallsKnowRows
    <2>3. \/ Machines' = Machines
          \/ input[c] \in Machines /\ Machines' = Machines \ {input[c]}
      BY <2>2 DEF Machines
    <2>4. QED
      BY <1>2, <1>8, <1>10, <2>1, <2>3, FakeSteps
  <1>13. CASE WipeDevices(c)
    <2>1. /\ pc[c] = "wipe"
          /\ step = "findExisting"
          /\ moves' = moves
          /\ input' = input
      BY <1>0, <1>4, <1>13 DEF WipeDevices, Goto, TypeOK
    <2>2. Cardinality(At(MovedSteps)) = 0
      <3>1. At(MovedSteps) = {}
        BY <1>2, <2>1 DEF At, MovedSteps
      <3>2. QED
        BY <3>1, FS_EmptySet
    <2>3. audits < TransferLimit
      BY <1>0, <1>2, <2>1 DEF LoneReads
    <2>4. moves < TransferLimit
      BY <1>0, <1>2, <1>7, <2>2, <2>3, LicenseAssumption DEF MovesAccounted
    <2>5. QED
      BY <1>2, <1>8, <1>10, <2>1, <2>4, FakeSteps
  <1>14. CASE FindExisting(c)
    <2>1. /\ pc[c] \in Replaces
          /\ step \in Replaces
          /\ moves' = moves
          /\ input' = input
      BY <1>0, <1>4, <1>14 DEF FindExisting, Goto, TypeOK
    <2>2. QED
      BY <1>8, <1>10, <2>1, FakeSteps
  <1>15. CASE ReactivateDevice(c) \/ ReplaceDevice(c)
    <2>1. /\ pc[c] \in Replaces
          /\ step \notin Replaces
          /\ moves' = moves + 1
      BY <1>0, <1>4, <1>15 DEF ReactivateDevice, ReplaceDevice, Goto, TypeOK
    <2>2. active = {}
      BY <1>1, <1>2, <1>0, <2>1 DEF AloneIsAlone
    <2>3. Machines' = {input[c]}
      <3>1. CASE ReactivateDevice(c)
        <4>1. active' = {target[c]} /\ fingerprint' = fingerprint
          BY <2>2, <3>1 DEF ReactivateDevice
        <4>2. fingerprint[target[c]] = input[c]
          BY <1>0, <3>1 DEF ReactivateDevice, CallsKnowRows
        <4>3. QED
          BY <4>1, <4>2 DEF Machines
      <3>2. CASE ReplaceDevice(c)
        <4>1. PICK d \in DeviceIds : CreateDevice(c, d)
          BY <3>2 DEF ReplaceDevice
        <4>2. active' = {d} /\ fingerprint'[d] = input[c]
          BY <1>0, <2>2, <4>1 DEF CreateDevice, TypeOK
        <4>3. QED
          BY <4>2 DEF Machines
      <3>3. QED
        BY <1>15, <3>1, <3>2
    <2>4. QED
      BY <1>8, <1>10, <2>1, <2>3, FakeSteps
  <1>16. CASE ResolvePolicy(c) \/ TouchDevice(c) \/ CountTransfers(c) \/ BumpTransferCount(c)
              \/ AuditTransfer(c) \/ (Fail(c) /\ c \notin Replacing)
    <2>1. pc[c] \notin Replaces /\ step \notin Replaces
      BY <1>0, <1>4, <1>5, <1>16
      DEF ResolvePolicy, TouchDevice, CountTransfers, BumpTransferCount, AuditTransfer, Fail,
          Return, Goto, TypeOK
    <2>2. UNCHANGED <<fingerprint, active, moves>>
      BY <1>16 DEF ResolvePolicy, TouchDevice, CountTransfers, BumpTransferCount, AuditTransfer, Fail
    <2>3. Machines' = Machines
      BY <2>2 DEF Machines
    <2>4. QED
      BY <1>8, <1>10, <2>1, <2>2, <2>3, FakeSteps
  <1>17. ~CountFails(c)
    BY <1>2 DEF CountFails
  <1>18. QED
    BY <1>11, <1>12, <1>13, <1>14, <1>15, <1>16, <1>17 DEF Proceed

\* Every other step is none of the other engine, or its month turns too.
LEMMA FakeStep ==
  ASSUME IInv, TypeOK', [LNext]_lvars, ServedAlone, ServedAlone', ~ReplacementTorn
  PROVE  [Fake!EngineNext]_(Fake!engineVars)
  <1>0. TypeOK
    BY DEF IInv
  <1>1. ASSUME NEW c \in Calls, Arrive(c)
        PROVE  [Fake!EngineNext]_(Fake!engineVars)
    <2>1. PICK f \in Fingerprints, d \in DeviceIds \cup {None},
               step \in {"plan", "register", "touch", "deactivate", "count"} : Load(c, f, d, step)
      BY <1>0, <1>1, ArriveLoads
    <2>2. /\ pc[c] = "idle"
          /\ pc'[c] = step
          /\ \A b \in Calls \ {c} : pc'[b] = pc[b] /\ input'[b] = input[b]
          /\ UNCHANGED <<fingerprint, active, moves>>
      BY <1>0, <2>1 DEF Load, Goto, TypeOK
    <2>3. Replacing' = Replacing /\ c \notin Replacing
      BY <2>2 DEF Replacing, At
    <2>4. Machines' = Machines
      BY <2>2 DEF Machines
    <2>5. {input'[b] : b \in Replacing'} = {input[b] : b \in Replacing}
      BY <2>2, <2>3 DEF Replacing, At
    <2>6. FakeDevices' = FakeDevices /\ FakeCount' = FakeCount
      BY <2>2, <2>3, <2>4, <2>5 DEF FakeDevices, FakeCount
    <2>7. QED
      BY <2>6, FakeSteps
  <1>2. ASSUME NEW c \in Calls, Proceed(c)
        PROVE  [Fake!EngineNext]_(Fake!engineVars)
    <2>1. missed' = 0 /\ (c \in Replacing => ~Fail(c))
      BY DEF ServedAlone, ReplacementTorn
    <2>2. QED
      BY <1>2, <2>1, FakeProceed
  <1>3. CASE MonthTurns
    <2>1. Replacing = {}
      BY <1>3 DEF ReplacementTorn
    <2>2. UNCHANGED <<fingerprint, active, input, pc>> /\ moves' = 0
      BY <1>3 DEF MonthTurns
    <2>3. Replacing' = {} /\ Machines' = Machines
      BY <2>1, <2>2 DEF Replacing, At, Machines
    <2>4. FakeDevices' = FakeDevices /\ FakeCount' = 0
      BY <2>1, <2>2, <2>3, FS_EmptySet DEF FakeDevices, FakeCount
    <2>5. QED
      BY <2>4, FakeSteps
  <1>4. CASE UpdatePlan \/ UNCHANGED lvars
    <2>1. Replacing' = Replacing /\ Machines' = Machines /\ input' = input /\ moves' = moves
      BY <1>4 DEF UpdatePlan, lvars, Replacing, At, Machines
    <2>2. FakeDevices' = FakeDevices /\ FakeCount' = FakeCount
      BY <2>1 DEF FakeDevices, FakeCount
    <2>3. QED
      BY <2>2, FakeSteps
  <1>5. QED
    BY <1>1, <1>2, <1>3, <1>4 DEF LNext

\* A call that has the license to itself does to it what the engine without a
\* database does, whatever races and crashes have left in the table before.
THEOREM LoneCallsConform == LSpec => LoneCallsMatchFake
  <1> DEFINE Matches == ServedAlone /\ ServedAlone' /\ ~ReplacementTorn =>
                          [Fake!EngineNext]_(Fake!engineVars)
  <1>1. IInv /\ IInv' /\ [LNext]_lvars => [Matches]_lvars
    BY FakeStep DEF IInv
  <1>2. QED
    BY <1>1, Invariance, PTL DEF LSpec, LoneCallsMatchFake

\* A license that is served one call at a time, and whose statements do not
\* fail in the middle of a transfer, cannot be told from one of the engine
\* without a database: the whole history is one of that engine.
THEOREM SerialLicenseIsFake ==
  LSpec /\ [][ServedAlone /\ ServedAlone' /\ ~ReplacementTorn]_lvars => Fake!EngineSpec
  <1>1. LInit => Fake!EngineInit
    <2> SUFFICES ASSUME LInit PROVE Fake!EngineInit
      OBVIOUS
    <2>1. Replacing = {} /\ active = {} /\ moves = 0
      BY DEF LInit, Replacing, At
    <2>2. QED
      BY <2>1, FS_EmptySet DEF Fake!EngineInit
  <1>2. /\ IInv /\ IInv' /\ [LNext]_lvars
        /\ [ServedAlone /\ ServedAlone' /\ ~ReplacementTorn]_lvars
        => [Fake!EngineNext]_(Fake!engineVars)
    <2> SUFFICES ASSUME IInv, IInv', [LNext]_lvars,
                        [ServedAlone /\ ServedAlone' /\ ~ReplacementTorn]_lvars
                 PROVE  [Fake!EngineNext]_(Fake!engineVars)
      OBVIOUS
    <2>1. CASE UNCHANGED lvars
      <3>1. Replacing' = Replacing /\ Machines' = Machines /\ input' = input /\ moves' = moves
        BY <2>1 DEF lvars, Replacing, At, Machines
      <3>2. FakeDevices' = FakeDevices /\ FakeCount' = FakeCount
        BY <3>1 DEF FakeDevices, FakeCount
      <3>3. QED
        BY <3>2, FakeSteps
    <2>2. CASE ServedAlone /\ ServedAlone' /\ ~ReplacementTorn
      BY <2>2, FakeStep DEF IInv
    <2>3. QED
      BY <2>1, <2>2
  <1>3. QED
    BY <1>1, <1>2, Invariance, PTL DEF LSpec, Fake!EngineSpec

\* Devices are deactivated by a replacement of all of them or by a
\* deactivation of their own fingerprint only.
THEOREM StrangersStay == LSpec => StrangersKept
  <1> DEFINE Named == \A d \in active \ active' :
                        \E c \in Calls :
                          \/ pc[c] = "wipe"
                          \/ pc[c] = "deactivate" /\ input[c] = fingerprint[d]
  <1>1. IInv /\ [LNext]_lvars => [Named]_lvars
    <2> SUFFICES ASSUME IInv, LNext PROVE Named
      OBVIOUS
    <2>1. CASE MonthTurns \/ UpdatePlan
      BY <2>1 DEF MonthTurns, UpdatePlan
    <2>2. ASSUME NEW c \in Calls, Arrive(c)
          PROVE  Named
      BY <2>2, ArriveLoads DEF Load, IInv
    <2>3. ASSUME NEW c \in Calls, Proceed(c)
          PROVE  Named
      <3>1. CASE DeactivateDevice(c)
        BY <3>1 DEF DeactivateDevice, IInv, CallsKnowRows
      <3>2. CASE WipeDevices(c)
        BY <3>2 DEF WipeDevices
      <3>3. CASE active \in SUBSET active'
        BY <3>3
      <3>4. QED
        BY <2>3, <3>1, <3>2, <3>3
        DEF Proceed, ResolvePolicy, RegisterDevice, TouchDevice, CountTransfers, CountFails, FindExisting,
            ReactivateDevice, ReplaceDevice, CreateDevice, BumpTransferCount, AuditTransfer, Fail
    <2>4. QED
      BY <2>1, <2>2, <2>3 DEF LNext
  <1>2. QED
    BY <1>1, Invariance, PTL DEF LSpec, StrangersKept

=============================================================================
