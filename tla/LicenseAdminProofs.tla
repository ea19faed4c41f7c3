-------------------------- MODULE LicenseAdminProofs --------------------------
(***************************************************************************)
(* Proofs about LicenseAdmin, for any number of concurrent calls and any   *)
(* dates.                                                                  *)
(***************************************************************************)
EXTENDS LicenseAdmin, TLAPS

\* What a call has decided to write: an edit statuses of the schema, and never
\* a license that is expired beside a subscription that is not; a renewal an
\* active subscription.
DecisionsMade ==
  \A c \in Calls :
    /\ pc[c] \in UpdateSteps =>
         /\ decided[c] \in Decisions
         /\ decided[c].license \in LicenseStatuses
         /\ decided[c].license = "expired" => decided[c].subscription = "expired"
    /\ pc[c] = "renew" => decided[c] \in Decisions /\ decided[c].subscription = "active"

\* What a call whose read is up to date knows of the rows.
ReadsCurrent ==
  \A c \in Calls \ stale :
    /\ pc[c] \in UpdateSteps =>
         /\ subscription = "cancelled" <=> decided[c].subscription = "cancelled"
         /\ decided[c].license =
              resolveLicenseStatusForEdit(license, decided[c].subscription)
    /\ pc[c] = "unblock" => subscription = "active"

IInv ==
  /\ TypeOK
  /\ DecisionsMade
  /\ ReadsCurrent
  /\ OnlyPairs

-----------------------------------------------------------------------------
\* The invariant holds of a license just provisioned.
LEMMA InvInit == AInit => IInv
  <1> SUFFICES ASSUME AInit PROVE IInv
    OBVIOUS
  <1>1. TypeOK
    <2>1. clock \in 0 .. MaxClock /\ endAt \in EndDates
      BY AdminAssumption DEF AInit
    <2>2. owner \in [Rows -> Calls \cup {None}] /\ pc \in [Calls -> Steps]
      BY DEF AInit, Steps
    <2>3. decided \in [Calls -> Decisions \cup {Nothing}]
      BY DEF AInit
    <2>4. QED
      BY <2>1, <2>2, <2>3 DEF AInit, TypeOK, LicenseStatuses, SubscriptionStatuses
  <1>2. DecisionsMade /\ ReadsCurrent
    BY DEF AInit, DecisionsMade, ReadsCurrent, UpdateSteps
  <1>3. OnlyPairs
    BY DEF AInit, OnlyPairs, Pairs
  <1>4. QED
    BY <1>1, <1>2, <1>3 DEF IInv

-----------------------------------------------------------------------------
(***************************************************************************)
(* What edits decide.                                                      *)
(***************************************************************************)
\* An edit keeps a subscription cancelled and otherwise makes it active or
\* expired.
LEMMA EditedSubscription ==
  ASSUME NEW s \in SubscriptionStatuses, NEW end
  PROVE  /\ resolveSubscriptionStatusForEdit(s, end) \in SubscriptionStatuses
         /\ resolveSubscriptionStatusForEdit(s, end) = "cancelled" <=> s = "cancelled"
  BY DEF resolveSubscriptionStatusForEdit, SubscriptionStatuses

\* An edit keeps a license shut, and expires another exactly when its
\* subscription has expired.
LEMMA EditedLicense ==
  ASSUME NEW l \in LicenseStatuses, NEW s \in SubscriptionStatuses
  PROVE  /\ resolveLicenseStatusForEdit(l, s) \in LicenseStatuses
         /\ resolveLicenseStatusForEdit(l, s) = "expired" => s = "expired"
         /\ l \in Shut => resolveLicenseStatusForEdit(l, s) = l
         /\ l \notin Shut =>
              resolveLicenseStatusForEdit(l, s) = IF s = "expired" THEN "expired" ELSE "active"
  BY DEF resolveLicenseStatusForEdit, LicenseStatuses, Shut

-----------------------------------------------------------------------------
(***************************************************************************)
(* What the steps of a call are and what they write.                       *)
(***************************************************************************)
\* How a call arrives.
LEMMA Arrivals ==
  ASSUME TypeOK, NEW c \in Calls, Arrive(c)
  PROVE  \E step \in Steps, d \in Decisions \cup {Nothing} :
           /\ Load(c, step, d)
           /\ step \in {"renew", "update", "block", "unblock", "cancel"}
           /\ step = "renew" => d \in Decisions /\ d.subscription = "active"
           /\ step = "unblock" => subscription = "active"
           /\ step = "update" =>
                /\ d \in Decisions
                /\ subscription = "cancelled" <=> d.subscription = "cancelled"
                /\ d.license = resolveLicenseStatusForEdit(license, d.subscription)
                /\ d.license \in LicenseStatuses
                /\ d.license = "expired" => d.subscription = "expired"
  <1>1. CASE Renew(c)
    <2>1. PICK newEndAt \in EndDates :
            Load(c, "renew", [license |-> "none", subscription |-> "active",
                              endAt |-> newEndAt])
      BY <1>1 DEF Renew
    <2>2. [license |-> "none", subscription |-> "active", endAt |-> newEndAt] \in Decisions
      BY DEF Decisions, SubscriptionStatuses
    <2>3. "renew" \in Steps
      BY DEF Steps
    <2>4. QED
      BY <2>1, <2>2, <2>3
  <1>2. CASE Update(c)
    <2>1. PICK nextEndAt \in EndDates :
            LET status == resolveSubscriptionStatusForEdit(subscription, nextEndAt)
            IN  Load(c, "update", [license |-> resolveLicenseStatusForEdit(license, status),
                                   subscription |-> status, endAt |-> nextEndAt])
      BY <1>2 DEF Update
    <2> DEFINE s == resolveSubscriptionStatusForEdit(subscription, nextEndAt)
               l == resolveLicenseStatusForEdit(license, s)
               d == [license |-> l, subscription |-> s, endAt |-> nextEndAt]
    <2>2. /\ s \in SubscriptionStatuses
          /\ s = "cancelled" <=> subscription = "cancelled"
      BY EditedSubscription DEF TypeOK
    <2>3. l \in LicenseStatuses /\ (l = "expired" => s = "expired")
      BY <2>2, EditedLicense DEF TypeOK
    <2> HIDE DEF s, l
    <2>4. d \in Decisions
      BY <2>2, <2>3 DEF Decisions
    <2>5. /\ d.subscription = s /\ d.license = l
          /\ l = resolveLicenseStatusForEdit(license, s)
      BY DEF l
    <2>6. Load(c, "update", d)
      BY <2>1 DEF s, l
    <2>7. "update" \in Steps
      BY DEF Steps
    <2> HIDE DEF d
    <2>8. QED
      BY <2>2, <2>3, <2>4, <2>5, <2>6, <2>7
  <1>3. CASE Block(c) \/ Cancel(c)
    BY <1>3 DEF Block, Cancel, Steps
  <1>4. CASE Unblock(c)
    BY <1>4 DEF Unblock, Steps
  <1>5. QED
    BY <1>1, <1>2, <1>3, <1>4 DEF Arrive

\* What a call that proceeds writes, and when.
Written(c, l, s, e) ==
  \/ pc[c] = "renew" /\ l = license /\ s = decided[c].subscription /\ e = decided[c].endAt
  \/ pc[c] = "block" /\ l = "blocked" /\ s = subscription /\ e = endAt
  \/ pc[c] = "unblock" /\ l = "active" /\ s = subscription /\ e = endAt
  \/ /\ pc[c] = "updateLicense"
     /\ l = decided[c].license /\ s = decided[c].subscription /\ e = decided[c].endAt
  \/ pc[c] = "cancelSubscription" /\ l = "inactive" /\ s = "cancelled" /\ e = endAt

\* A call proceeds by a commit or by the first statement of a transaction.
LEMMA Proceeds ==
  ASSUME NEW c \in Calls, Proceed(c)
  PROVE  \/ UpdateSubscription(c)
         \/ CancelLicense(c)
         \/ \E l, s, e : Written(c, l, s, e) /\ Commit(c, l, s, e)
  BY DEF Proceed, RenewSubscription, BlockLicense, UnblockLicense, CommitUpdate,
         CommitCancel, Written

\* What is written has its type.
LEMMA WrittenTypes ==
  ASSUME IInv, NEW c \in Calls, NEW l, NEW s, NEW e, Written(c, l, s, e)
  PROVE  /\ l \in LicenseStatuses /\ s \in SubscriptionStatuses /\ e \in EndDates
         /\ <<l, s>> # <<"expired", "cancelled">>
  <1>1. pc[c] \in {"renew", "updateLicense"} =>
          decided[c].subscription \in SubscriptionStatuses /\ decided[c].endAt \in EndDates
    BY DEF IInv, DecisionsMade, Decisions, UpdateSteps
  <1>2. pc[c] = "updateLicense" =>
          /\ decided[c].license \in LicenseStatuses
          /\ decided[c].license = "expired" => decided[c].subscription = "expired"
    BY DEF IInv, DecisionsMade, UpdateSteps
  <1>3. pc[c] = "renew" => decided[c].subscription = "active"
    BY DEF IInv, DecisionsMade
  <1>4. /\ license \in LicenseStatuses /\ subscription \in SubscriptionStatuses
        /\ endAt \in EndDates
    BY DEF IInv, TypeOK
  <1>5. QED
    BY <1>1, <1>2, <1>3, <1>4 DEF Written, LicenseStatuses, SubscriptionStatuses

\* A write keeps the statuses to the pairs if it does not depend on a read that
\* is out of date.
LEMMA WrittenPairs ==
  ASSUME IInv, NEW c \in Calls, NEW l, NEW s, NEW e, Written(c, l, s, e), ~raced,
         c \notin stale \/ pc[c] \notin Deciding
  PROVE  <<l, s>> \in Pairs
  <1>1. l \in LicenseStatuses /\ s \in SubscriptionStatuses
    BY WrittenTypes
  <1>2. /\ license \in LicenseStatuses
        /\ license \in Shut \/ subscription # "cancelled"
    BY DEF IInv, TypeOK, OnlyPairs, Pairs, Shut
  <1>3. CASE pc[c] = "renew"
    <2>1. s = "active"
      BY <1>3 DEF Written, IInv, DecisionsMade
    <2>2. QED
      BY <1>1, <2>1 DEF Pairs, LicenseStatuses, SubscriptionStatuses
  <1>4. CASE pc[c] \in {"block", "cancelSubscription"}
    BY <1>1, <1>4 DEF Written, Pairs, SubscriptionStatuses
  <1>5. CASE pc[c] = "unblock"
    <2>1. l = "active" /\ s = "active"
      BY <1>5 DEF Written, IInv, ReadsCurrent, Deciding
    <2>2. QED
      BY <2>1 DEF Pairs
  <1>6. CASE pc[c] = "updateLicense"
    <2>1. /\ subscription = "cancelled" <=> s = "cancelled"
          /\ l = resolveLicenseStatusForEdit(license, s)
      BY <1>6 DEF Written, IInv, ReadsCurrent, UpdateSteps, Deciding
    <2>2. CASE license \in Shut
      <3>1. l \in Shut
        BY <1>1, <1>2, <2>1, <2>2, EditedLicense
      <3>2. QED
        BY <1>1, <3>1 DEF Pairs, Shut
    <2>3. CASE license \notin Shut
      <3>1. s # "cancelled" /\ l = IF s = "expired" THEN "expired" ELSE "active"
        BY <1>1, <1>2, <2>1, <2>3, EditedLicense
      <3>2. QED
        BY <1>1, <3>1 DEF Pairs, SubscriptionStatuses
    <2>4. QED
      BY <2>2, <2>3
  <1>7. QED
    BY <1>3, <1>4, <1>5, <1>6 DEF Written

-----------------------------------------------------------------------------
(***************************************************************************)
(* The invariant is kept.                                                  *)
(***************************************************************************)
\* A call that arrives.
LEMMA ArriveStep ==
  ASSUME IInv, NEW c \in Calls, Arrive(c)
  PROVE  IInv'
  <1>1. PICK step \in Steps, d \in Decisions \cup {Nothing} :
           /\ Load(c, step, d)
           /\ step \in {"renew", "update", "block", "unblock", "cancel"}
           /\ step = "renew" => d \in Decisions /\ d.subscription = "active"
           /\ step = "unblock" => subscription = "active"
           /\ step = "update" =>
                /\ d \in Decisions
                /\ subscription = "cancelled" <=> d.subscription = "cancelled"
                /\ d.license = resolveLicenseStatusForEdit(license, d.subscription)
                /\ d.license \in LicenseStatuses
                /\ d.license = "expired" => d.subscription = "expired"
    BY Arrivals DEF IInv
  <1>2. TypeOK'
    BY <1>1 DEF IInv, Load, TypeOK
  <1>3. /\ pc'[c] = step /\ decided'[c] = d
        /\ \A b \in Calls \ {c} : pc'[b] = pc[b] /\ decided'[b] = decided[b]
        /\ UNCHANGED <<license, subscription, raced>>
        /\ stale' = stale \ {c}
    BY <1>1 DEF Load, IInv, TypeOK
  <1>4. step \in UpdateSteps => step = "update"
    BY <1>1 DEF UpdateSteps
  <1>5. DecisionsMade'
    BY <1>1, <1>3, <1>4 DEF IInv, DecisionsMade
  <1>6. ReadsCurrent'
    <2>1. \A k : resolveLicenseStatusForEdit(license, k)' = resolveLicenseStatusForEdit(license, k')
      BY <1>3 DEF resolveLicenseStatusForEdit
    <2>2. SUFFICES ASSUME NEW b \in Calls \ stale'
                   PROVE  /\ pc'[b] \in UpdateSteps =>
                               /\ subscription' = "cancelled" <=>
                                    decided'[b].subscription = "cancelled"
                               /\ decided'[b].license =
                                    resolveLicenseStatusForEdit(license', decided'[b].subscription)
                          /\ pc'[b] = "unblock" => subscription' = "active"
      BY DEF ReadsCurrent, UpdateSteps, resolveLicenseStatusForEdit
    <2>3. CASE b = c
      BY <1>1, <1>3, <1>4, <2>3
    <2>4. CASE b # c
      BY <1>3, <2>4 DEF IInv, ReadsCurrent
    <2>5. QED
      BY <2>3, <2>4
  <1>7. OnlyPairs'
    BY <1>3 DEF IInv, OnlyPairs, Pairs, SubscriptionStatuses
  <1>8. QED
    BY <1>2, <1>5, <1>6, <1>7 DEF IInv

\* The first statement of a transaction.
LEMMA LockStep ==
  ASSUME IInv, NEW c \in Calls, UpdateSubscription(c) \/ CancelLicense(c)
  PROVE  IInv'
  <1>1. TypeOK'
    BY DEF IInv, TypeOK, UpdateSubscription, CancelLicense, Lock, Steps, Rows
  <1>2. /\ \/ pc[c] = "update" /\ pc'[c] = "updateLicense"
           \/ pc[c] = "cancel" /\ pc'[c] = "cancelSubscription"
        /\ \A b \in Calls \ {c} : pc'[b] = pc[b]
        /\ UNCHANGED <<decided, license, subscription, stale, raced>>
    BY DEF IInv, TypeOK, UpdateSubscription, CancelLicense, Lock
  <1>3. \A b \in Calls : /\ pc'[b] \in UpdateSteps <=> pc[b] \in UpdateSteps
                         /\ pc'[b] = "renew" => pc[b] = "renew"
                         /\ pc'[b] = "unblock" => pc[b] = "unblock"
    BY <1>2 DEF UpdateSteps
  <1>4. DecisionsMade'
    BY <1>2, <1>3 DEF IInv, DecisionsMade, UpdateSteps
  <1>5. ReadsCurrent'
    BY <1>2, <1>3 DEF IInv, ReadsCurrent, UpdateSteps, resolveLicenseStatusForEdit
  <1>6. OnlyPairs'
    BY <1>2 DEF IInv, OnlyPairs, Pairs, SubscriptionStatuses
  <1>7. QED
    BY <1>1, <1>4, <1>5, <1>6 DEF IInv

\* A commit.
LEMMA CommitStep ==
  ASSUME IInv, NEW c \in Calls, NEW l, NEW s, NEW e, Written(c, l, s, e), Commit(c, l, s, e)
  PROVE  IInv'
  <1>1. /\ l \in LicenseStatuses /\ s \in SubscriptionStatuses /\ e \in EndDates
        /\ <<l, s>> # <<"expired", "cancelled">>
    BY WrittenTypes
  <1>2. TypeOK'
    BY <1>1 DEF IInv, TypeOK, Commit, Finish, Steps
  <1>3. /\ license' = l /\ subscription' = s
        /\ pc'[c] = "idle"
        /\ \A b \in Calls \ {c} : pc'[b] = pc[b] /\ decided'[b] = decided[b]
        /\ raced' = (raced \/ (c \in stale /\ pc[c] \in Deciding))
    BY DEF IInv, TypeOK, Commit, Finish
  <1>4. pc'[c] \notin UpdateSteps \cup {"renew", "unblock"}
    BY <1>3 DEF UpdateSteps
  <1>5. DecisionsMade'
    BY <1>3, <1>4 DEF IInv, DecisionsMade
  <1>6. ReadsCurrent'
    <2>1. SUFFICES ASSUME NEW b \in Calls \ stale', b # c,
                          pc[b] \in UpdateSteps \cup {"unblock"}
                   PROVE  /\ pc[b] \in UpdateSteps =>
                               /\ subscription' = "cancelled" <=>
                                    decided[b].subscription = "cancelled"
                               /\ decided[b].license =
                                    resolveLicenseStatusForEdit(license', decided[b].subscription)
                          /\ pc[b] = "unblock" => subscription' = "active"
      BY <1>3, <1>4 DEF ReadsCurrent, UpdateSteps, resolveLicenseStatusForEdit
    <2>2. pc[b] # "idle"
      BY <2>1 DEF UpdateSteps
    <2>3. /\ <<license, subscription, endAt>> = <<l, s, e>>
          /\ stale' = stale \ {c}
      BY <2>1, <2>2 DEF Commit
    <2>4. b \in Calls \ stale /\ license' = license /\ subscription' = subscription
      BY <1>3, <2>1, <2>3
    <2>5. QED
      BY <2>1, <2>4 DEF IInv, ReadsCurrent
  <1>7. OnlyPairs'
    <2>1. raced' \/ <<l, s>> \in Pairs
      BY <1>3, WrittenPairs
    <2>2. QED
      BY <1>1, <1>3, <2>1 DEF OnlyPairs, Pairs, SubscriptionStatuses
  <1>8. QED
    BY <1>2, <1>5, <1>6, <1>7 DEF IInv

\* A call that ends without a commit.
LEMMA RollbackStep ==
  ASSUME IInv, NEW c \in Calls, Fail(c) \/ AbortDeadlocked(c)
  PROVE  IInv'
  <1>1. Finish(c) /\ UNCHANGED <<license, subscription, endAt, stale, raced>>
    BY DEF Fail, AbortDeadlocked
  <1>2. TypeOK'
    BY <1>1 DEF IInv, TypeOK, Finish, Steps
  <1>3. /\ pc'[c] = "idle"
        /\ \A b \in Calls \ {c} : pc'[b] = pc[b] /\ decided'[b] = decided[b]
    BY <1>1 DEF IInv, TypeOK, Finish
  <1>4. DecisionsMade'
    BY <1>3 DEF IInv, DecisionsMade, UpdateSteps
  <1>5. ReadsCurrent'
    BY <1>1, <1>3 DEF IInv, ReadsCurrent, UpdateSteps, resolveLicenseStatusForEdit
  <1>6. OnlyPairs'
    BY <1>1 DEF IInv, OnlyPairs, Pairs, SubscriptionStatuses
  <1>7. QED
    BY <1>2, <1>4, <1>5, <1>6 DEF IInv

\* Every step keeps the invariant.
LEMMA InvStep ==
  ASSUME IInv, [ANext]_avars
  PROVE  IInv'
  <1>1. ASSUME NEW c \in Calls, Proceed(c)
        PROVE  IInv'
    BY <1>1, Proceeds, LockStep, CommitStep
  <1>2. CASE Tick \/ UNCHANGED avars
    <2>1. /\ clock' \in 0 .. MaxClock
          /\ UNCHANGED <<license, subscription, endAt, owner, pc, decided, stale, raced>>
      BY <1>2, AdminAssumption DEF Tick, avars, IInv, TypeOK
    <2>2. TypeOK'
      BY <2>1 DEF IInv, TypeOK
    <2>3. DecisionsMade' /\ OnlyPairs'
      BY <2>1 DEF IInv, DecisionsMade, OnlyPairs, Pairs, UpdateSteps
    <2>4. ReadsCurrent'
      BY <2>1 DEF IInv, ReadsCurrent, UpdateSteps, resolveLicenseStatusForEdit
    <2>5. QED
      BY <2>2, <2>3, <2>4 DEF IInv
  <1>3. QED
    BY <1>1, <1>2, ArriveStep, RollbackStep DEF ANext

\* The invariant holds throughout.
THEOREM Invariance == ASpec => []IInv
  <1>1. AInit => IInv
    BY InvInit
  <1>2. IInv /\ [ANext]_avars => IInv'
    BY InvStep
  <1>3. QED
    BY <1>1, <1>2, PTL DEF ASpec

\* Everything has its type; an edit decides on statuses of the schema only.
THEOREM TypeCorrect == ASpec => []TypeOK
  BY Invariance, PTL DEF IInv

\* In any sequence and overlap, operations keep license and subscription to the
\* intended pairs of statuses until an unblock or an update writes from a read
\* that is out of date; even then a cancelled subscription never has an expired
\* license.
THEOREM PairsKept == ASpec => []OnlyPairs
  BY Invariance, PTL DEF IInv

-----------------------------------------------------------------------------
(***************************************************************************)
(* What is shut stays shut and what is cancelled stays cancelled.          *)
(***************************************************************************)
\* The edit that a call has under way, if it has one, is one it had before or
\* one decided from the present rows.
LEMMA EditsUnderWay ==
  ASSUME TypeOK, NEW c \in Calls, Arrive(c) \/ Proceed(c) \/ Fail(c) \/ AbortDeadlocked(c),
         NEW b \in Calls, pc'[b] \in UpdateSteps
  PROVE  \/ pc[b] \in UpdateSteps /\ decided'[b] = decided[b]
         \/ /\ UNCHANGED <<license, subscription>>
            /\ license \in Shut => decided'[b].license \in Shut
            /\ subscription = "cancelled" => decided'[b].subscription = "cancelled"
  <1>1. CASE Arrive(c)
    <2>1. PICK step \in Steps, d \in Decisions \cup {Nothing} :
             /\ Load(c, step, d)
             /\ step \in {"renew", "update", "block", "unblock", "cancel"}
             /\ step = "update" =>
                  /\ d \in Decisions
                  /\ subscription = "cancelled" <=> d.subscription = "cancelled"
                  /\ d.license = resolveLicenseStatusForEdit(license, d.subscription)
      BY <1>1, Arrivals
    <2>2. CASE b = c
      <3>1. pc'[c] = step /\ decided'[c] = d /\ UNCHANGED <<license, subscription>>
        BY <2>1 DEF Load, TypeOK
      <3>2. step = "update"
        BY <2>1, <2>2, <3>1 DEF UpdateSteps
      <3>3. license \in Shut => d.license = license
        BY <2>1, <3>2 DEF resolveLicenseStatusForEdit, Shut
      <3>4. QED
        BY <2>1, <2>2, <3>1, <3>2, <3>3
    <2>3. CASE b # c
      BY <2>1, <2>3 DEF Load, TypeOK
    <2>4. QED
      BY <2>2, <2>3
  <1>2. CASE UpdateSubscription(c) \/ CancelLicense(c)
    BY <1>2 DEF UpdateSubscription, CancelLicense, Lock, TypeOK, UpdateSteps
  <1>3. CASE Finish(c)
    BY <1>3 DEF Finish, TypeOK, UpdateSteps
  <1>4. QED
    BY <1>1, <1>2, <1>3, Proceeds DEF Commit, Fail, AbortDeadlocked

\* A step of a call changes the rows only by a commit.
LEMMA RowsChange ==
  ASSUME NEW c \in Calls, Arrive(c) \/ Proceed(c) \/ Fail(c) \/ AbortDeadlocked(c)
  PROVE  \/ UNCHANGED <<license, subscription>>
         \/ \E l, s, e : Written(c, l, s, e) /\ Commit(c, l, s, e)
  <1>1. Arrive(c) => UNCHANGED <<license, subscription>>
    BY DEF Arrive, Renew, Update, Block, Unblock, Cancel, Load
  <1>2. UpdateSubscription(c) \/ CancelLicense(c) => UNCHANGED <<license, subscription>>
    BY DEF UpdateSubscription, CancelLicense, Lock
  <1>3. Fail(c) \/ AbortDeadlocked(c) => UNCHANGED <<license, subscription>>
    BY DEF Fail, AbortDeadlocked
  <1>4. QED
    BY <1>1, <1>2, <1>3, Proceeds

\* Only an unblock reopens a license that is shut, once the edits that read it
\* before have ended.
LEMMA ShutStep ==
  ASSUME TypeOK, [ANext]_avars, Reopening = {}, license \in Shut
  PROVE  \/ license' \in Shut /\ Reopening' = {}
         \/ \E c \in Calls : pc[c] = "unblock" /\ pc'[c] = "idle"
  <1>1. CASE Tick \/ UNCHANGED avars
    BY <1>1 DEF Tick, avars, Reopening
  <1>2. ASSUME NEW c \in Calls, Arrive(c) \/ Proceed(c) \/ Fail(c) \/ AbortDeadlocked(c),
               ~(pc[c] = "unblock" /\ pc'[c] = "idle")
        PROVE  license' \in Shut /\ Reopening' = {}
    <2>1. license' \in Shut
      <3>1. CASE UNCHANGED <<license, subscription>>
        BY <3>1
      <3>2. ASSUME NEW l, NEW s, NEW e, Written(c, l, s, e), Commit(c, l, s, e)
            PROVE  license' \in Shut
        <4>1. license' = l /\ pc'[c] = "idle"
          BY <3>2 DEF Commit, Finish, TypeOK
        <4>2. pc[c] = "updateLicense" => decided[c].license \in Shut
          BY DEF Reopening, UpdateSteps
        <4>3. QED
          BY <1>2, <3>2, <4>1, <4>2 DEF Written, Shut
      <3>3. QED
        BY <1>2, <3>1, <3>2, RowsChange
    <2>2. ASSUME NEW b \in Calls, pc'[b] \in UpdateSteps
          PROVE  decided'[b].license \in Shut
      <3>1. pc[b] \in UpdateSteps => decided[b].license \in Shut
        BY DEF Reopening
      <3>2. QED
        BY <1>2, <2>2, <3>1, EditsUnderWay
    <2>3. QED
      BY <2>1, <2>2 DEF Reopening, UpdateSteps, Shut
  <1>3. QED
    BY <1>1, <1>2 DEF ANext

\* Only a renewal brings a cancelled subscription back, once the edits that read
\* it before have ended.
LEMMA CancelledStep ==
  ASSUME TypeOK, [ANext]_avars, Reviving = {}, subscription = "cancelled"
  PROVE  \/ subscription' = "cancelled" /\ Reviving' = {}
         \/ \E c \in Calls : pc[c] = "renew" /\ pc'[c] = "idle"
  <1>1. CASE Tick \/ UNCHANGED avars
    BY <1>1 DEF Tick, avars, Reviving
  <1>2. ASSUME NEW c \in Calls, Arrive(c) \/ Proceed(c) \/ Fail(c) \/ AbortDeadlocked(c),
               ~(pc[c] = "renew" /\ pc'[c] = "idle")
        PROVE  subscription' = "cancelled" /\ Reviving' = {}
    <2>1. subscription' = "cancelled"
      <3>1. CASE UNCHANGED <<license, subscription>>
        BY <3>1
      <3>2. ASSUME NEW l, NEW s, NEW e, Written(c, l, s, e), Commit(c, l, s, e)
            PROVE  subscription' = "cancelled"
        <4>1. subscription' = s /\ pc'[c] = "idle"
          BY <3>2 DEF Commit, Finish, TypeOK
        <4>2. pc[c] = "updateLicense" => decided[c].subscription = "cancelled"
          BY DEF Reviving, UpdateSteps
        <4>3. QED
          BY <1>2, <3>2, <4>1, <4>2 DEF Written
      <3>3. QED
        BY <1>2, <3>1, <3>2, RowsChange
    <2>2. ASSUME NEW b \in Calls, pc'[b] \in UpdateSteps
          PROVE  decided'[b].subscription = "cancelled"
      <3>1. pc[b] \in UpdateSteps => decided[b].subscription = "cancelled"
        BY DEF Reviving
      <3>2. QED
        BY <1>2, <2>2, <3>1, EditsUnderWay
    <2>3. QED
      BY <2>1, <2>2 DEF Reviving, UpdateSteps
  <1>3. QED
    BY <1>1, <1>2 DEF ANext

\* A blocked or cancelled license, once the edits that read it open have ended,
\* is reopened only by an unblock, and a cancelled subscription comes back only
\* by a renewal, whatever calls overlap.
THEOREM EndingsAreKept == ASpec => EndingsStay
  <1>1. TypeOK /\ [ANext]_avars => StaysShut /\ StaysCancelled
    BY ShutStep, CancelledStep DEF StaysShut, StaysCancelled
  <1>2. TypeOK /\ [ANext]_avars => [StaysShut /\ StaysCancelled]_avars
    BY <1>1
  <1>3. QED
    BY <1>2, TypeCorrect, PTL DEF ASpec, EndingsStay

-----------------------------------------------------------------------------
(***************************************************************************)
(* The back office without a database.                                     *)
(***************************************************************************)
\* The end date comes after some time read up to `by'.
After(e, by) == \E now \in 0 .. by : e > now

\* An edit to the end date finds that status at some time read up to `by'.
EditFinds(newStatus, currentStatus, e, by) ==
  \E now \in 0 .. by :
    newStatus = Store!resolveSubscriptionStatusForEdit(currentStatus, e, now)

\* What a call has decided holds by a time it has read, and for a call whose
\* read is up to date of the rows as they are.
Timely ==
  \A c \in Calls :
    /\ pc[c] = "renew" => After(decided[c].endAt, clock)
    /\ pc[c] \in UpdateSteps => decided[c].endAt > StartAt
    /\ c \notin stale /\ pc[c] = "unblock" => After(endAt, clock)
    /\ c \notin stale /\ pc[c] \in UpdateSteps =>
         EditFinds(decided[c].subscription, subscription, decided[c].endAt, clock)

\* What a call that arrives decides by the present time.
LEMMA ArrivesTimely ==
  ASSUME IInv, Timely, NEW c \in Calls, Arrive(c)
  PROVE  Timely'
  <1>0. TypeOK /\ clock \in Nat /\ clock \in 0 .. clock
    BY AdminAssumption DEF IInv, TypeOK
  <1>1. PICK step \in Steps, d \in Decisions \cup {Nothing} : Load(c, step, d)
    BY <1>0, Arrivals
  <1>2. /\ \A b \in Calls \ {c} : pc'[b] = pc[b] /\ decided'[b] = decided[b]
        /\ clock' = clock /\ subscription' = subscription /\ endAt' = endAt
        /\ stale' = stale \ {c}
    BY <1>0, <1>1 DEF Load, TypeOK
  <1>3. /\ pc'[c] = "renew" => After(decided'[c].endAt, clock)
        /\ pc'[c] \in UpdateSteps =>
             /\ decided'[c].endAt > StartAt
             /\ EditFinds(decided'[c].subscription, subscription, decided'[c].endAt, clock)
        /\ pc'[c] = "unblock" => After(endAt, clock)
    <2>1. CASE Renew(c)
      BY <1>0, <2>1 DEF Renew, Load, TypeOK, UpdateSteps, After
    <2>2. CASE Update(c)
      <3>1. PICK e \in EndDates :
              LET status == resolveSubscriptionStatusForEdit(subscription, e)
              IN  /\ e > StartAt
                  /\ pc'[c] = "update"
                  /\ decided'[c] = [license |-> resolveLicenseStatusForEdit(license, status),
                                    subscription |-> status, endAt |-> e]
        BY <1>0, <2>2 DEF Update, Load, TypeOK
      <3>2. EditFinds(resolveSubscriptionStatusForEdit(subscription, e), subscription, e, clock)
        BY <1>0 DEF EditFinds, resolveSubscriptionStatusForEdit,
                    Store!resolveSubscriptionStatusForEdit
      <3>3. QED
        BY <3>1, <3>2
    <2>3. CASE Block(c) \/ Unblock(c) \/ Cancel(c)
      BY <1>0, <2>3 DEF Block, Unblock, Cancel, Load, TypeOK, UpdateSteps, After
    <2>4. QED
      BY <2>1, <2>2, <2>3 DEF Arrive
  <1>4. QED
    BY <1>2, <1>3 DEF Timely

\* Other steps keep it: what is overwritten makes the reads of the others out
\* of date, and time only goes on.
LEMMA TimelyStep ==
  ASSUME IInv, Timely, [ANext]_avars
  PROVE  Timely'
  <1>0. TypeOK
    BY DEF IInv
  <1>1. CASE Tick \/ UNCHANGED avars
    <2>1. /\ clock' \in Nat /\ clock \in Nat /\ clock <= clock'
          /\ pc' = pc /\ decided' = decided /\ stale' = stale
          /\ subscription' = subscription /\ endAt' = endAt
      BY <1>0, <1>1, AdminAssumption DEF Tick, avars, TypeOK
    <2>2. \A now \in 0 .. clock : now \in 0 .. clock'
      BY <2>1
    <2>3. \A e : After(e, clock) => After(e, clock')
      BY <2>2 DEF After
    <2>4. \A s, old, e : EditFinds(s, old, e, clock) => EditFinds(s, old, e, clock')
      BY <2>2 DEF EditFinds
    <2>5. QED
      BY <2>1, <2>3, <2>4 DEF Timely, UpdateSteps
  <1>2. ASSUME NEW c \in Calls, UpdateSubscription(c) \/ CancelLicense(c)
        PROVE  Timely'
    <2>1. /\ \A b \in Calls : /\ pc'[b] \in UpdateSteps <=> pc[b] \in UpdateSteps
                              /\ pc'[b] = "renew" => pc[b] = "renew"
                              /\ pc'[b] = "unblock" => pc[b] = "unblock"
          /\ clock' = clock /\ decided' = decided /\ subscription' = subscription
          /\ endAt' = endAt /\ stale' = stale
      BY <1>0, <1>2 DEF UpdateSubscription, CancelLicense, Lock, TypeOK, UpdateSteps
    <2>2. QED
      BY <2>1 DEF Timely
  <1>3. ASSUME NEW c \in Calls, Finish(c),
               \A b \in Calls \ {c} :
                 b \notin stale' /\ pc[b] # "idle" =>
                   b \notin stale /\ subscription' = subscription /\ endAt' = endAt
        PROVE  Timely'
    <2>1. /\ pc'[c] = "idle"
          /\ \A b \in Calls \ {c} : pc'[b] = pc[b] /\ decided'[b] = decided[b]
          /\ clock' = clock
      BY <1>0, <1>3 DEF Finish, TypeOK
    <2>2. \A b \in Calls : /\ pc[b] \in UpdateSteps => pc[b] # "idle"
                           /\ pc'[b] \in UpdateSteps => pc'[b] # "idle"
      BY DEF UpdateSteps
    <2>3. QED
      BY <1>3, <2>1, <2>2 DEF Timely
  <1>4. ASSUME NEW c \in Calls, NEW l, NEW s, NEW e, Commit(c, l, s, e)
        PROVE  Timely'
    BY <1>3, <1>4 DEF Commit
  <1>5. ASSUME NEW c \in Calls, Fail(c) \/ AbortDeadlocked(c)
        PROVE  Timely'
    BY <1>3, <1>5 DEF Fail, AbortDeadlocked
  <1>6. ASSUME NEW c \in Calls, Proceed(c)
        PROVE  Timely'
    BY <1>2, <1>4, <1>6, Proceeds
  <1>7. QED
    BY <1>1, <1>5, <1>6, ArrivesTimely DEF ANext

\* A commit that does not depend on a read that is out of date is an operation
\* of the store.
LEMMA CommitInTurn ==
  ASSUME IInv, Timely, NEW c \in Calls, NEW l, NEW s, NEW e, Written(c, l, s, e),
         Commit(c, l, s, e), ~raced'
  PROVE  \E now \in 0 .. clock : Store!StoreNext(now)
  <1>0. /\ license' = l /\ subscription' = s /\ endAt' = e
        /\ e \in EndDates
        /\ pc[c] \in Deciding => c \notin stale
        /\ clock \in 0 .. clock
    <2>1. license' = l /\ subscription' = s /\ endAt' = e
      BY DEF Commit
    <2>2. pc[c] \in Deciding => c \notin stale
      BY DEF Commit
    <2>3. e \in EndDates
      BY WrittenTypes
    <2>4. clock \in 0 .. clock
      BY AdminAssumption DEF IInv, TypeOK
    <2>5. QED
      BY <2>1, <2>2, <2>3, <2>4
  <1>1. CASE pc[c] = "renew"
    <2>1. l = license /\ s = "active" /\ e = decided[c].endAt
      BY <1>1 DEF Written, IInv, DecisionsMade
    <2>2. PICK now \in 0 .. clock : e > now
      BY <1>1, <2>1 DEF Timely, After
    <2>3. Store!renewLicense(now)
      BY <1>0, <2>1, <2>2 DEF Store!renewLicense
    <2>4. QED
      BY <2>3 DEF Store!StoreNext
  <1>2. CASE pc[c] = "updateLicense"
    <2>1. /\ l = decided[c].license
          /\ s = decided[c].subscription
          /\ e = decided[c].endAt
          /\ c \notin stale
          /\ pc[c] \in UpdateSteps
      BY <1>0, <1>2 DEF Written, Deciding, UpdateSteps
    <2>2. PICK now \in 0 .. clock :
            s = Store!resolveSubscriptionStatusForEdit(subscription, e, now)
      BY <2>1 DEF Timely, EditFinds
    <2>3. l = Store!resolveLicenseStatusForEdit(license, s)
      BY <2>1 DEF IInv, ReadsCurrent, resolveLicenseStatusForEdit,
                  Store!resolveLicenseStatusForEdit
    <2>4. e > StartAt
      BY <2>1 DEF Timely
    <2>5. Store!updateLicense(now)
      BY <1>0, <2>2, <2>3, <2>4 DEF Store!updateLicense
    <2>6. QED
      BY <2>5 DEF Store!StoreNext
  <1>3. CASE pc[c] = "unblock"
    <2>1. subscription = "active" /\ c \notin stale
      BY <1>0, <1>3 DEF Deciding, IInv, ReadsCurrent
    <2>2. PICK now \in 0 .. clock : endAt > now
      BY <1>3, <2>1 DEF Timely, After
    <2>3. Store!unblockLicense(now)
      BY <1>0, <1>3, <2>1, <2>2 DEF Written, Store!unblockLicense
    <2>4. QED
      BY <2>3 DEF Store!StoreNext
  <1>4. CASE pc[c] \in {"block", "cancelSubscription"}
    <2>1. Store!blockLicense \/ Store!cancelLicense
      BY <1>0, <1>4 DEF Written, Store!blockLicense, Store!cancelLicense
    <2>2. QED
      BY <1>0, <2>1 DEF Store!StoreNext
  <1>5. QED
    BY <1>1, <1>2, <1>3, <1>4 DEF Written

\* Every step is one of the store or none, by a time not later than now, unless
\* it writes from a read that is out of date.
LEMMA StepInTurn ==
  ASSUME IInv, Timely, [ANext]_avars, ~raced'
  PROVE  \E now \in 0 .. clock : [Store!StoreNext(now)]_(Store!storeVars)
  <1>1. clock \in 0 .. clock
    BY DEF IInv, TypeOK
  <1>2. ASSUME UNCHANGED <<license, subscription, endAt>>
        PROVE  \E now \in 0 .. clock : [Store!StoreNext(now)]_(Store!storeVars)
    BY <1>1, <1>2 DEF Store!storeVars
  <1>3. ASSUME NEW c \in Calls, Proceed(c)
        PROVE  \E now \in 0 .. clock : [Store!StoreNext(now)]_(Store!storeVars)
    <2>1. CASE UpdateSubscription(c) \/ CancelLicense(c)
      BY <1>2, <2>1 DEF UpdateSubscription, CancelLicense, Lock
    <2>2. ASSUME NEW l, NEW s, NEW e, Written(c, l, s, e), Commit(c, l, s, e)
          PROVE  \E now \in 0 .. clock : [Store!StoreNext(now)]_(Store!storeVars)
      BY <2>2, CommitInTurn
    <2>3. QED
      BY <1>3, <2>1, <2>2, Proceeds
  <1>4. ASSUME NEW c \in Calls, Arrive(c) \/ Fail(c) \/ AbortDeadlocked(c)
        PROVE  UNCHANGED <<license, subscription, endAt>>
    BY <1>4 DEF Arrive, Renew, Update, Block, Unblock, Cancel, Load, Fail, AbortDeadlocked
  <1>5. CASE Tick \/ UNCHANGED avars
    BY <1>2, <1>5 DEF Tick, avars
  <1>6. QED
    BY <1>2, <1>3, <1>4, <1>5 DEF ANext

\* The first state, and that no decision is without its time.
LEMMA TimelyInit == AInit => Timely
  BY DEF AInit, Timely, UpdateSteps

\* Operations that overlap do what they would do one after the other in the
\* store without a database, until an unblock or an update is stale.
THEOREM ActInTurn == ASpec => ActsInTurn
  <1> DEFINE Turn == raced' \/ \E now \in 0 .. clock : [Store!StoreNext(now)]_(Store!storeVars)
  <1>1. IInv /\ Timely /\ [ANext]_avars => Timely'
    BY TimelyStep
  <1>2. IInv /\ Timely /\ [ANext]_avars => [Turn]_avars
    BY StepInTurn
  <1>3. QED
    BY <1>1, <1>2, TimelyInit, Invariance, PTL DEF ASpec, ActsInTurn

\* No two calls are served together.
OneAtATime == \A b, c \in Calls : pc[b] # "idle" /\ pc[c] # "idle" => b = c

\* With one administrator at a time, whose calls may fail at any statement, the
\* whole history of the license is one of the store without a database.
THEOREM SerialLicenseIsStored == ASpec /\ []OneAtATime => Store!StoreSpec
  <1> DEFINE Fresh == stale = {} /\ ~raced
  <1>1. AInit => Fresh /\ Store!StoreInit
    BY DEF AInit, Store!StoreInit
  <1>2. IInv /\ OneAtATime /\ Fresh /\ [ANext]_avars => Fresh'
    <2> SUFFICES ASSUME IInv, OneAtATime, Fresh, [ANext]_avars PROVE Fresh'
      OBVIOUS
    <2>1. ASSUME NEW c \in Calls, Arrive(c) \/ Fail(c) \/ AbortDeadlocked(c)
          PROVE  Fresh'
      BY <2>1 DEF Arrive, Renew, Update, Block, Unblock, Cancel, Load, Fail, AbortDeadlocked
    <2>2. ASSUME NEW c \in Calls, Proceed(c)
          PROVE  Fresh'
      <3>1. CASE UpdateSubscription(c) \/ CancelLicense(c)
        BY <3>1 DEF UpdateSubscription, CancelLicense, Lock
      <3>2. ASSUME NEW l, NEW s, NEW e, Written(c, l, s, e), Commit(c, l, s, e)
            PROVE  Fresh'
        <4>1. pc[c] # "idle"
          BY <3>2 DEF Written
        <4>2. {b \in Calls \ {c} : pc[b] # "idle"} = {}
          BY <4>1 DEF OneAtATime
        <4>3. QED
          BY <3>2, <4>2 DEF Commit
      <3>3. QED
        BY <2>2, <3>1, <3>2, Proceeds
    <2>3. CASE Tick \/ UNCHANGED avars
      BY <2>3 DEF Tick, avars
    <2>4. QED
      BY <2>1, <2>2, <2>3 DEF ANext
  <1>3. IInv /\ Timely /\ [ANext]_avars => Timely'
    BY TimelyStep
  <1>4. IInv /\ Timely /\ [ANext]_avars /\ Fresh' =>
          [\E now \in Nat : Store!StoreNext(now)]_(Store!storeVars)
    <2> SUFFICES ASSUME IInv, Timely, [ANext]_avars, ~raced'
                 PROVE  [\E now \in Nat : Store!StoreNext(now)]_(Store!storeVars)
      OBVIOUS
    <2>1. PICK now \in 0 .. clock : [Store!StoreNext(now)]_(Store!storeVars)
      BY StepInTurn
    <2>2. now \in Nat
      OBVIOUS
    <2>3. QED
      BY <2>1, <2>2
  <1> HIDE DEF Fresh
  <1>5. QED
    BY <1>1, <1>2, <1>3, <1>4, TimelyInit, Invariance, PTL DEF ASpec, Store!StoreSpec

=============================================================================
