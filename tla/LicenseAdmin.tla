----------------------------- MODULE LicenseAdmin -----------------------------
(***************************************************************************)
(* The administration of one license: renew, update, block, unblock and    *)
(* cancel (admin-backoffice/services/prisma/                               *)
(* prisma-admin-licenses.operations.ts).  An operation reads the license   *)
(* with its subscription, decides from what it has read, and writes one    *)
(* row, or both in a transaction.  The two transactions lock the rows in   *)
(* opposite orders: update the subscription first, cancel the license.     *)
(*                                                                         *)
(* Left out, because no decision reads them: max_offline_hours and         *)
(* auto_renew, and the audit row, which update writes in its transaction   *)
(* and the others after their write (a failure there is one of the use     *)
(* case that Idempotency has).                                             *)
(***************************************************************************)
EXTENDS Naturals

CONSTANTS Calls,      \* the calls the back office can be serving at a time
          None,       \* no call
          StartAt,    \* start_at of the subscription, which nothing changes
          MaxEnd,     \* bound on the end dates that are asked for
          MaxClock    \* bound on the clock, for model checking only

ASSUME AdminAssumption ==
  /\ None \notin Calls
  /\ StartAt \in Nat
  /\ MaxEnd \in Nat
  /\ MaxClock \in Nat

VARIABLES clock,          \* wall clock
          license,        \* licenses.status
          subscription,   \* subscriptions.status
          endAt,          \* subscriptions.end_at
          owner,          \* per row: the transaction that holds its lock
          pc,             \* the statement each call is at
          decided,        \* what a call that decides has decided to write
          stale,          \* history: calls whose read others have overwritten
          raced           \* history: an unblock or update that was stale has written

avars == <<clock, license, subscription, endAt, owner, pc, decided, stale, raced>>

\* The statuses the code writes; nothing writes pending or suspended.
LicenseStatuses == {"active", "inactive", "blocked", "expired"}
SubscriptionStatuses == {"active", "cancelled", "expired"}

Rows == {"license", "subscription"}

EndDates == 0 .. MaxEnd

Steps == {"idle", "renew", "block", "unblock", "update", "updateLicense",
          "cancel", "cancelSubscription"}

\* Nothing decided.
Nothing == [license |-> "none", subscription |-> "none", endAt |-> 0]

Decisions == [license : LicenseStatuses \cup {"none"},
              subscription : SubscriptionStatuses, endAt : EndDates]

\* Everything has its type; in particular an edit decides on statuses only
\* that the schema has.
TypeOK ==
  /\ clock \in 0 .. MaxClock
  /\ license \in LicenseStatuses
  /\ subscription \in SubscriptionStatuses
  /\ endAt \in EndDates
  /\ owner \in [Rows -> Calls \cup {None}]
  /\ pc \in [Calls -> Steps]
  /\ decided \in [Calls -> Decisions \cup {Nothing}]
  /\ stale \in SUBSET Calls
  /\ raced \in BOOLEAN

\* A license as provisioning and onboarding leave it.
AInit ==
  /\ clock = 0
  /\ license = "active"
  /\ subscription = "active"
  /\ endAt \in {e \in EndDates : e > StartAt}
  /\ owner = [row \in Rows |-> None]
  /\ pc = [c \in Calls |-> "idle"]
  /\ decided = [c \in Calls |-> Nothing]
  /\ stale = {}
  /\ raced = FALSE

-----------------------------------------------------------------------------
\* Mutant: a cancelled subscription is not looked for.
resolveSubscriptionStatusRevived(currentStatus, nextEndAt) ==
  IF nextEndAt <= clock THEN "expired" ELSE "active"

\* The status of the subscription after an edit of its end date.
resolveSubscriptionStatusForEdit(currentStatus, nextEndAt) ==
  IF currentStatus = "cancelled" THEN "cancelled"
  ELSE IF nextEndAt <= clock THEN "expired" ELSE "active"

\* Mutant: a blocked license is not looked for.
resolveLicenseStatusUnblocked(currentStatus, subscriptionStatus) ==
  IF currentStatus = "inactive" THEN currentStatus
  ELSE IF subscriptionStatus = "expired" THEN "expired" ELSE "active"

\* Mutant: the license follows the subscription.
resolveLicenseStatusFollowing(currentStatus, subscriptionStatus) ==
  IF currentStatus \in {"blocked", "inactive"} THEN currentStatus
  ELSE subscriptionStatus

\* The status of the license after an edit: only an operator reopens one that
\* is blocked or inactive.
resolveLicenseStatusForEdit(currentStatus, subscriptionStatus) ==
  IF currentStatus \in {"blocked", "inactive"} THEN currentStatus
  ELSE IF subscriptionStatus = "expired" THEN "expired" ELSE "active"

\* loadLicenseContext, and on to the first write with decision d.  A refused
\* call (unknown key, bad input, not eligible) answers without a write, which
\* is a step that changes nothing.
Load(c, step, d) ==
  /\ pc[c] = "idle"
  /\ pc' = [pc EXCEPT ![c] = step]
  /\ decided' = [decided EXCEPT ![c] = d]
  /\ stale' = stale \ {c}
  /\ UNCHANGED <<clock, license, subscription, endAt, owner, raced>>

Renew(c) ==
  \E newEndAt \in EndDates :
    /\ newEndAt > clock
    /\ Load(c, "renew", [license |-> "none", subscription |-> "active",
                         endAt |-> newEndAt])

Update(c) ==
  \E nextEndAt \in EndDates :
    LET status == resolveSubscriptionStatusForEdit(subscription, nextEndAt)
    IN  /\ nextEndAt > StartAt
        /\ Load(c, "update", [license |-> resolveLicenseStatusForEdit(license, status),
                              subscription |-> status, endAt |-> nextEndAt])

Block(c) == Load(c, "block", Nothing)

\* Mutant: the subscription is not looked at.
UnblockAny(c) == Load(c, "unblock", Nothing)

Unblock(c) ==
  /\ subscription = "active"
  /\ endAt > clock
  /\ Load(c, "unblock", Nothing)

Cancel(c) == Load(c, "cancel", Nothing)

-----------------------------------------------------------------------------
Free(row) == owner[row] = None

\* The end of a call, by a commit or a rollback: its locks are released.
Finish(c) ==
  /\ pc' = [pc EXCEPT ![c] = "idle"]
  /\ decided' = [decided EXCEPT ![c] = Nothing]
  /\ owner' = [row \in Rows |-> IF owner[row] = c THEN None ELSE owner[row]]
  /\ UNCHANGED clock

\* Before these commits: the statuses that are written depend on the read.
Deciding == {"unblock", "updateLicense"}

\* Call c commits new values of the rows.  What the other calls have read is
\* out of date if the values differ.
Commit(c, newLicense, newSubscription, newEndAt) ==
  /\ license' = newLicense
  /\ subscription' = newSubscription
  /\ endAt' = newEndAt
  /\ raced' = (raced \/ (c \in stale /\ pc[c] \in Deciding))
  /\ stale' = IF <<license, subscription, endAt>> = <<newLicense, newSubscription, newEndAt>>
              THEN stale \ {c}
              ELSE {b \in Calls \ {c} : pc[b] # "idle"}
  /\ Finish(c)

\* The first statement of a transaction takes the lock of its row.
Lock(c, step, row, next) ==
  /\ pc[c] = step
  /\ Free(row)
  /\ owner' = [owner EXCEPT ![row] = c]
  /\ pc' = [pc EXCEPT ![c] = next]
  /\ UNCHANGED <<clock, license, subscription, endAt, decided, stale, raced>>

RenewSubscription(c) ==
  /\ pc[c] = "renew"
  /\ Free("subscription")
  /\ Commit(c, license, decided[c].subscription, decided[c].endAt)

BlockLicense(c) ==
  /\ pc[c] = "block"
  /\ Free("license")
  /\ Commit(c, "blocked", subscription, endAt)

UnblockLicense(c) ==
  /\ pc[c] = "unblock"
  /\ Free("license")
  /\ Commit(c, "active", subscription, endAt)

\* updateLicense: the subscription, then the license and the commit.
UpdateSubscription(c) == Lock(c, "update", "subscription", "updateLicense")

CommitUpdate(c) ==
  /\ pc[c] = "updateLicense"
  /\ Free("license")
  /\ Commit(c, decided[c].license, decided[c].subscription, decided[c].endAt)

\* cancelLicense: the license, then the subscription and the commit.
CancelLicense(c) == Lock(c, "cancel", "license", "cancelSubscription")

CommitCancel(c) ==
  /\ pc[c] = "cancelSubscription"
  /\ Free("subscription")
  /\ Commit(c, "inactive", "cancelled", endAt)

\* Mutant: the transaction that fails is left open.
FailOpen(c) ==
  /\ pc[c] # "idle"
  /\ pc' = [pc EXCEPT ![c] = "idle"]
  /\ decided' = [decided EXCEPT ![c] = Nothing]
  /\ UNCHANGED <<clock, license, subscription, endAt, owner, stale, raced>>

\* A statement fails or the process dies: what was not committed is undone.
Fail(c) ==
  /\ pc[c] # "idle"
  /\ Finish(c)
  /\ UNCHANGED <<license, subscription, endAt, stale, raced>>

\* Two transactions wait for each other and the database aborts one.
AbortDeadlocked(c) ==
  /\ \/ pc[c] = "updateLicense" /\ ~Free("license")
     \/ pc[c] = "cancelSubscription" /\ ~Free("subscription")
  /\ owner["license"] # None
  /\ owner["subscription"] # None
  /\ Finish(c)
  /\ UNCHANGED <<license, subscription, endAt, stale, raced>>

Tick ==
  /\ clock < MaxClock
  /\ clock' = clock + 1
  /\ UNCHANGED <<license, subscription, endAt, owner, pc, decided, stale, raced>>

-----------------------------------------------------------------------------
Arrive(c) == Renew(c) \/ Update(c) \/ Block(c) \/ Unblock(c) \/ Cancel(c)

\* The statements of one call.
Proceed(c) ==
  \/ RenewSubscription(c)
  \/ BlockLicense(c)
  \/ UnblockLicense(c)
  \/ UpdateSubscription(c)
  \/ CommitUpdate(c)
  \/ CancelLicense(c)
  \/ CommitCancel(c)

ANext ==
  \/ \E c \in Calls : Arrive(c) \/ Proceed(c) \/ Fail(c) \/ AbortDeadlocked(c)
  \/ Tick

ASpec == AInit /\ [][ANext]_avars

\* Locks are granted in the order they were asked for, so a statement whose
\* row comes free again and again is served, and deadlocks are detected.
\* Nothing is assumed of arrivals, failures and time.
AFairness ==
  /\ \A c \in Calls : SF_avars(Proceed(c))
  /\ WF_avars(\E c \in Calls : AbortDeadlocked(c))

FairASpec == ASpec /\ AFairness

-----------------------------------------------------------------------------
\* The statuses of license and subscription that sequences of operations lead
\* to: an open license has an active subscription, and an expired license
\* was expired by an edit (updateLicense) and perhaps renewed since.
Pairs ==
  ({"blocked", "inactive"} \X SubscriptionStatuses) \cup
  {<<"active", "active">>, <<"expired", "expired">>, <<"expired", "active">>}

\* Operations keep to those pairs, however many follow one another and overlap,
\* until an unblock or an update (unblockLicense, updateLicense) writes from a
\* read that is out of date; and no race leaves a cancelled subscription with an
\* expired license.
OnlyPairs ==
  /\ raced \/ <<license, subscription>> \in Pairs
  /\ <<license, subscription>> # <<"expired", "cancelled">>

UpdateSteps == {"update", "updateLicense"}

Shut == {"blocked", "inactive"}

\* The edits that have read the license before it was shut.
Reopening ==
  {c \in Calls : pc[c] \in UpdateSteps /\ decided[c].license \notin Shut}

\* The edits that have read the subscription before it was cancelled.
Reviving ==
  {c \in Calls : pc[c] \in UpdateSteps /\ decided[c].subscription # "cancelled"}

\* Only an unblock opens a shut license, when no such edit is under way.
StaysShut ==
  Reopening = {} /\ license \in Shut =>
    \/ license' \in Shut /\ Reopening' = {}
    \/ \E c \in Calls : pc[c] = "unblock" /\ pc'[c] = "idle"

\* Only a renewal revives a cancelled subscription, likewise.
StaysCancelled ==
  Reviving = {} /\ subscription = "cancelled" =>
    \/ subscription' = "cancelled" /\ Reviving' = {}
    \/ \E c \in Calls : pc[c] = "renew" /\ pc'[c] = "idle"

\* A license that is blocked or cancelled, once the edits that read it before
\* have ended, opens again only by an unblock, and a cancelled subscription
\* comes back only by a renewal: no other operation undoes a block or a
\* cancellation, however they overlap and whatever end dates are edited in.
EndingsStay == [][StaysShut /\ StaysCancelled]_avars

\* The same license in the back office without a database.
Store == INSTANCE InMemoryLicenses

\* Operations that overlap do what the same operations do one after the other
\* in the store without a database, each at its commit and by a time it has
\* read, until an unblock or an update writes from a read that is out of date:
\* renewals, blocks and cancellations cannot race with anything.
ActsInTurn ==
  [][raced' \/ \E now \in 0 .. clock : [Store!StoreNext(now)]_(Store!storeVars)]_avars

\* Every call ends, although update and cancel lock in opposite orders.
EveryCallEnds == \A c \in Calls : pc[c] # "idle" ~> pc[c] = "idle"

=============================================================================
