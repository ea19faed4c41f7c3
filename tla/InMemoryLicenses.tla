--------------------------- MODULE InMemoryLicenses ---------------------------
(***************************************************************************)
(* The administration of one license in the back office that runs without  *)
(* a database (admin-backoffice/services/in-memory/                        *)
(* in-memory-admin-licenses.store.ts): the same operations as LicenseAdmin *)
(* has, each in one step, because nothing in the store awaits.  It is what *)
(* an administrator expects of operations that come one after the other.   *)
(*                                                                         *)
(* An operation decides by the time it reads; a refused one changes        *)
(* nothing.                                                                *)
(***************************************************************************)
EXTENDS Naturals

CONSTANTS StartAt,    \* start_at of the subscription, which nothing changes
          EndDates    \* the end dates that are asked for

VARIABLES license,        \* status of the license
          subscription,   \* status of the subscription
          endAt           \* end of the subscription

storeVars == <<license, subscription, endAt>>

StoreInit ==
  /\ license = "active"
  /\ subscription = "active"
  /\ endAt \in {e \in EndDates : e > StartAt}

resolveSubscriptionStatusForEdit(currentStatus, nextEndAt, now) ==
  IF currentStatus = "cancelled" THEN "cancelled"
  ELSE IF nextEndAt <= now THEN "expired" ELSE "active"

resolveLicenseStatusForEdit(currentStatus, subscriptionStatus) ==
  IF currentStatus \in {"blocked", "inactive"} THEN currentStatus
  ELSE IF subscriptionStatus = "expired" THEN "expired" ELSE "active"

renewLicense(now) ==
  /\ endAt' \in {e \in EndDates : e > now}
  /\ subscription' = "active"
  /\ UNCHANGED license

updateLicense(now) ==
  /\ endAt' \in {e \in EndDates : e > StartAt}
  /\ subscription' = resolveSubscriptionStatusForEdit(subscription, endAt', now)
  /\ license' = resolveLicenseStatusForEdit(license, subscription')

blockLicense ==
  /\ license' = "blocked"
  /\ UNCHANGED <<subscription, endAt>>

unblockLicense(now) ==
  /\ subscription = "active"
  /\ endAt > now
  /\ license' = "active"
  /\ UNCHANGED <<subscription, endAt>>

cancelLicense ==
  /\ license' = "inactive"
  /\ subscription' = "cancelled"
  /\ UNCHANGED endAt

StoreNext(now) ==
  \/ renewLicense(now)
  \/ updateLicense(now)
  \/ blockLicense
  \/ unblockLicense(now)
  \/ cancelLicense

StoreSpec == StoreInit /\ [][\E now \in Nat : StoreNext(now)]_storeVars

=============================================================================
