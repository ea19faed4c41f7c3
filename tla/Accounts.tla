-------------------------------- MODULE Accounts --------------------------------
(***************************************************************************)
(* Who may sign in: end users, the identities of the OIDC provider they    *)
(* are bound to, and the subscriptions that entitle their customers        *)
(* (end-user-auth/services/{login.use-case,end-user-admin.service,         *)
(* entitlement-resolver.service}.ts and the customer, onboarding and       *)
(* license operations of admin-backoffice/services/prisma).  One action    *)
(* per await that reads or writes these rows and that others can get       *)
(* between; auto-provisioning is on.                                       *)
(*                                                                         *)
(* A customer is named by its email, an end user by the call that created  *)
(* the row.  Uncommitted rows are not modelled: a transaction commits      *)
(* right after it has created or bound a user, and whoever inserts a       *)
(* customer holds the unique index on its email until then.                *)
(***************************************************************************)
EXTENDS Naturals

CONSTANTS Calls,        \* the requests
          Identities,   \* (issuer, subject) pairs of the provider
          Emails,       \* customers.email and end_users.identifier
          None          \* no identity, no email, no user

ASSUME AccountsAssumption ==
  None \notin Calls /\ None \notin Identities /\ None \notin Emails

VARIABLES customers,    \* the rows of customers
          entitled,     \* customers with an active subscription to the program
          licensed,     \* customers with a license
          status,       \* end_users.status, "none" while there is no row
          cust,         \* end_users.customer_id
          identifier,   \* end_users.identifier
          bound,        \* end_users.oidc_issuer and oidc_subject
          sessions,     \* the logins that were answered: user and identity
          pc,           \* the await each call is at
          who, email,   \* the identity and the email a call works on
          cand,         \* unbound users a call has read and may yet bind
          chosen,       \* the user a login has settled on
          half,         \* history: customers with a subscription that is still
                        \* to get its license
          crowded,      \* history: users that two calls have been about to bind
          alone         \* history: the call that has had the users to itself

userRows == <<status, cust, identifier, bound>>
bought == <<entitled, licensed, half>>
control == <<pc, who, email, alone>>
reading == <<cand, chosen, crowded>>
acvars == <<customers, userRows, bought, sessions, control, reading>>

OnboardSteps == {"customer", "onboard"}
Ended == {"done", "conflict"}
Steps == {"idle", "provision", "create", "bind", "entitle", "store",
          "subscription", "license"} \cup OnboardSteps \cup Ended

Users == {u \in Calls : status[u] # "none"}

\* Everything has its type, and the rows satisfy the two unique indexes of
\* end_users, which every way to create, rename or bind a user has to respect.
TypeOK ==
  /\ customers \in SUBSET Emails
  /\ entitled \in SUBSET customers
  /\ licensed \in SUBSET customers
  /\ status \in [Calls -> {"none", "active", "blocked"}]
  /\ cust \in [Calls -> Emails \cup {None}]
  /\ identifier \in [Calls -> Emails \cup {None}]
  /\ bound \in [Calls -> Identities \cup {None}]
  /\ sessions \in SUBSET (Users \X Identities)
  /\ pc \in [Calls -> Steps]
  /\ who \in [Calls -> Identities \cup {None}]
  /\ email \in [Calls -> Emails \cup {None}]
  /\ cand \in [Calls -> SUBSET Users]
  /\ chosen \in [Calls -> Users \cup {None}]
  /\ half \in SUBSET customers
  /\ crowded \in SUBSET Users
  /\ alone \in Calls \cup {None}
  /\ \A u \in Users : cust[u] \in customers
  /\ \A u, v \in Users : u # v => \/ cust[u] # cust[v]
                                  \/ identifier[u] # identifier[v]
  /\ \A u, v \in Users : u # v /\ bound[u] # None => bound[u] # bound[v]

ACInit ==
  /\ customers = {} /\ entitled = {} /\ licensed = {}
  /\ status = [u \in Calls |-> "none"]
  /\ cust = [u \in Calls |-> None]
  /\ identifier = [u \in Calls |-> None]
  /\ bound = [u \in Calls |-> None]
  /\ sessions = {}
  /\ pc = [p \in Calls |-> "idle"]
  /\ who = [p \in Calls |-> None]
  /\ email = [p \in Calls |-> None]
  /\ cand = [p \in Calls |-> {}]
  /\ chosen = [p \in Calls |-> None]
  /\ half = {} /\ crowded = {} /\ alone = None

-----------------------------------------------------------------------------
\* A request that is refused before its first write or read of these rows
\* changes nothing, so each first action is the path that goes on.
Begin(p, i, e, step) ==
  /\ pc[p] = "idle"
  /\ pc' = [pc EXCEPT ![p] = step]
  /\ who' = [who EXCEPT ![p] = i]
  /\ email' = [email EXCEPT ![p] = e]
  /\ alone' = IF \A q \in Calls : pc[q] \in Ended \cup {"idle"} THEN p ELSE None

Goto(p, step) ==
  /\ pc' = [pc EXCEPT ![p] = step]
  /\ UNCHANGED <<who, email, alone>>

\* Call p is answered: done, or with the unique violation it could not handle.
End(p, step) ==
  /\ pc' = [pc EXCEPT ![p] = step]
  /\ who' = [who EXCEPT ![p] = None]
  /\ email' = [email EXCEPT ![p] = None]
  /\ cand' = [cand EXCEPT ![p] = {}]
  /\ chosen' = [chosen EXCEPT ![p] = None]
  /\ alone' = IF alone = p THEN None ELSE alone
  /\ UNCHANGED crowded

\* Call p goes on with the users us to bind, settled on u.
Consider(p, us, u) ==
  /\ cand' = [cand EXCEPT ![p] = us]
  /\ chosen' = [chosen EXCEPT ![p] = u]
  /\ crowded' = crowded \cup {v \in us : \E q \in Calls \ {p} : v \in cand[q]}

\* Mutant: the index on the identity is missing.
TakenNever(i, u) == FALSE

\* Identity i is bound to a user other than u.
Taken(i, u) == \E v \in Users \ {u} : bound[v] = i

\* The user of customer c with identifier e.
Row(c, e) == {u \in Users : cust[u] = c /\ identifier[u] = e}

\* endUser.create by call p, which has to find the names free.
Insert(p, c, e, i) ==
  /\ status' = [status EXCEPT ![p] = "active"]
  /\ cust' = [cust EXCEPT ![p] = c]
  /\ identifier' = [identifier EXCEPT ![p] = e]
  /\ bound' = [bound EXCEPT ![p] = i]

-----------------------------------------------------------------------------
\* Mutant: users that are bound to another identity are candidates too.
LoginAnyUser(p) == \E i \in Identities, e \in Emails :
  LET found == {u \in Users : identifier[u] = e}
      exact == {u \in found : bound[u] = i}
      active == {u \in found : status[u] = "active"}
  IN  /\ \/ found = {} /\ Begin(p, i, e, "provision") /\ UNCHANGED reading
         \/ \E u \in exact \cap active : Begin(p, i, e, "entitle") /\ Consider(p, {}, u)
         \/ exact = {} /\ active # {} /\ Begin(p, i, e, "entitle") /\ Consider(p, active, None)
      /\ UNCHANGED <<customers, userRows, bought, sessions>>

\* Mutant: an unbound user is preferred to the one of this identity.
LoginUnboundFirst(p) == \E i \in Identities, e \in Emails :
  LET found == {u \in Users : identifier[u] = e}
      exact == {u \in found : bound[u] = i /\ status[u] = "active"}
      active == {u \in found : bound[u] = None /\ status[u] = "active"}
  IN  /\ \/ found = {} /\ Begin(p, i, e, "provision") /\ UNCHANGED reading
         \/ /\ active = {}
            /\ \E u \in exact : Begin(p, i, e, "entitle") /\ Consider(p, {}, u)
         \/ active # {} /\ Begin(p, i, e, "entitle") /\ Consider(p, active, None)
      /\ UNCHANGED <<customers, userRows, bought, sessions>>

\* Identity i, with verified email e, signs in.  The users of that identifier
\* are read: the one bound to i if there is one, or those that are active and
\* not bound, or nobody has the identifier.
Login(p) == \E i \in Identities, e \in Emails :
  LET found == {u \in Users : identifier[u] = e}
      exact == {u \in found : bound[u] = i}
      active == {u \in found : bound[u] = None /\ status[u] = "active"}
  IN  /\ \/ found = {} /\ Begin(p, i, e, "provision") /\ UNCHANGED reading
         \/ \E u \in exact :
              status[u] = "active" /\ Begin(p, i, e, "entitle") /\ Consider(p, {}, u)
         \/ exact = {} /\ active # {} /\ Begin(p, i, e, "entitle") /\ Consider(p, active, None)
      /\ UNCHANGED <<customers, userRows, bought, sessions>>

\* The entitlement of the user settled on, or of one candidate after another.
Entitle(p) ==
  /\ pc[p] = "entitle"
  /\ \/ /\ chosen[p] # None /\ cust[chosen[p]] \in entitled
        /\ Goto(p, "store") /\ UNCHANGED reading
     \/ /\ chosen[p] # None /\ cust[chosen[p]] \notin entitled
        /\ End(p, "done")
     \/ \E u \in cand[p] :
          /\ chosen[p] = None /\ cust[u] \in entitled
          /\ Goto(p, "store") /\ Consider(p, {u}, u)
     \/ \E u \in cand[p] :
          /\ chosen[p] = None /\ cust[u] \notin entitled
          /\ IF cand[p] = {u} THEN End(p, "done")
             ELSE Goto(p, "entitle") /\ Consider(p, cand[p] \ {u}, None)
  /\ UNCHANGED <<customers, userRows, bought, sessions>>

\* The transaction that stores the login, by the id of the user: it binds a
\* user that was read unbound whatever the row holds by now.
StoreLogin(p) ==
  /\ pc[p] = "store"
  /\ IF chosen[p] \in cand[p] /\ Taken(who[p], chosen[p])
     THEN End(p, "conflict") /\ UNCHANGED <<bound, sessions>>
     ELSE /\ bound' = IF chosen[p] \in cand[p]
                      THEN [bound EXCEPT ![chosen[p]] = who[p]] ELSE bound
          /\ sessions' = sessions \cup {<<chosen[p], who[p]>>}
          /\ End(p, "done")
  /\ UNCHANGED <<customers, status, cust, identifier, bought>>

-----------------------------------------------------------------------------
\* Auto-provisioning upserts the customer and reads its user.  The upsert sets
\* nothing of a row that exists and is taken as not waiting for its lock.
Provision(p) ==
  /\ pc[p] = "provision"
  /\ \/ /\ email[p] \notin customers /\ Taken(who[p], p)
        /\ End(p, "conflict") /\ UNCHANGED <<customers, userRows>>
     \/ /\ email[p] \notin customers /\ ~Taken(who[p], p)
        /\ customers' = customers \cup {email[p]}
        /\ Insert(p, email[p], email[p], who[p])
        /\ Goto(p, "entitle") /\ Consider(p, {}, p)
     \/ /\ email[p] \in customers /\ Row(email[p], email[p]) = {}
        /\ Goto(p, "create") /\ UNCHANGED <<customers, userRows, reading>>
     \/ \E u \in Row(email[p], email[p]) :
          /\ \/ bound[u] = None /\ Goto(p, "bind") /\ Consider(p, {u}, u)
             \/ /\ bound[u] = who[p] /\ status[u] = "active"
                /\ Goto(p, "entitle") /\ Consider(p, {}, u)
             \/ bound[u] \notin {None, who[p]} /\ End(p, "done")
             \/ bound[u] = who[p] /\ status[u] = "blocked" /\ End(p, "done")
          /\ UNCHANGED <<customers, userRows>>
  /\ UNCHANGED <<bought, sessions>>

\* The user is created.  After a unique violation the transaction is aborted
\* and the query of the catch block fails as well.
Create(p) ==
  /\ pc[p] = "create"
  /\ IF Row(email[p], email[p]) # {} \/ Taken(who[p], p)
     THEN End(p, "conflict") /\ UNCHANGED userRows
     ELSE /\ Insert(p, email[p], email[p], who[p])
          /\ Goto(p, "entitle") /\ Consider(p, {}, p)
  /\ UNCHANGED <<customers, bought, sessions>>

\* The user that was read unbound is bound, by its id.
Bind(p) ==
  /\ pc[p] = "bind"
  /\ IF Taken(who[p], chosen[p])
     THEN End(p, "conflict") /\ UNCHANGED bound
     ELSE /\ bound' = [bound EXCEPT ![chosen[p]] = who[p]]
          /\ IF status[chosen[p]] = "active"
             THEN Goto(p, "entitle") /\ Consider(p, {}, chosen[p])
             ELSE End(p, "done")
  /\ UNCHANGED <<customers, status, cust, identifier, bought, sessions>>

-----------------------------------------------------------------------------
\* Whoever updates the row of a customer keeps it locked until it commits.
Unlocked(e) == \A q \in Calls : pc[q] \in OnboardSteps => email[q] # e

\* An operation that nobody gets between.
Answer(p) ==
  /\ pc[p] = "idle"
  /\ pc' = [pc EXCEPT ![p] = "done"]
  /\ alone' = None
  /\ UNCHANGED <<who, email, reading>>

\* Mutant: the transaction commits the subscription without the license.
BuyUnlicensed(kind, e) ==
  /\ entitled' = IF kind = "onboard" THEN entitled \cup {e} ELSE entitled
  /\ UNCHANGED <<licensed, half>>

\* Onboarding buys the subscription and its license, createCustomer nothing.
Buy(kind, e) ==
  /\ entitled' = IF kind = "onboard" THEN entitled \cup {e} ELSE entitled
  /\ licensed' = IF kind = "onboard" THEN licensed \cup {e} ELSE licensed
  /\ UNCHANGED half

\* createCustomer and onboardCustomer upsert the customer and read its user: a
\* user to create is a step of its own only where the customer existed.
StartOnboard(p) == \E e \in Emails, kind \in OnboardSteps :
  /\ Unlocked(e)
  /\ \/ /\ e \notin customers
        /\ customers' = customers \cup {e}
        /\ Insert(p, e, e, None) /\ Buy(kind, e) /\ Answer(p)
     \/ /\ Row(e, e) # {}
        /\ Buy(kind, e) /\ Answer(p) /\ UNCHANGED <<customers, userRows>>
     \/ /\ e \in customers /\ Row(e, e) = {}
        /\ Begin(p, None, e, kind)
        /\ UNCHANGED <<customers, userRows, bought, reading>>
  /\ UNCHANGED sessions

\* The user is created and the rest of the transaction follows; a user that
\* has got there in between aborts it.
FinishOnboard(p) ==
  /\ pc[p] \in OnboardSteps
  /\ IF Row(email[p], email[p]) # {}
     THEN End(p, "conflict") /\ UNCHANGED <<userRows, bought>>
     ELSE /\ Insert(p, email[p], email[p], None)
          /\ Buy(pc[p], email[p])
          /\ End(p, "done")
  /\ UNCHANGED <<customers, sessions>>

\* provisionLicense writes customer, subscription and license without a
\* transaction, and no end user.
ProvisionLicense(p) == \E e \in Emails :
  /\ Unlocked(e)
  /\ Begin(p, None, e, "subscription")
  /\ customers' = customers \cup {e}
  /\ UNCHANGED <<userRows, bought, sessions, reading>>

CreateSubscription(p) ==
  /\ pc[p] = "subscription"
  /\ Goto(p, "license")
  /\ entitled' = entitled \cup {email[p]}
  /\ half' = half \cup ({email[p]} \ licensed)
  /\ UNCHANGED <<customers, userRows, licensed, sessions, reading>>

CreateLicense(p) ==
  /\ pc[p] = "license"
  /\ End(p, "done")
  /\ licensed' = licensed \cup {email[p]}
  /\ half' = half \ {email[p]}
  /\ UNCHANGED <<customers, userRows, entitled, sessions>>

\* A subscription ends, and a license that is renewed brings it back.
SubscriptionEnds == \E e \in entitled :
  /\ entitled' = entitled \ {e}
  /\ UNCHANGED <<customers, userRows, licensed, half, sessions, control, reading>>

SubscriptionReturns == \E e \in licensed \ entitled :
  /\ entitled' = entitled \cup {e}
  /\ UNCHANGED <<customers, userRows, licensed, half, sessions, control, reading>>

\* The administration of end users: a user of any customer, with any
\* identifier, and a change of identifier or status.
AdminCreateUser(p) == \E c \in customers, e \in Emails :
  /\ Row(c, e) = {}
  /\ Insert(p, c, e, None) /\ Answer(p)
  /\ UNCHANGED <<customers, bought, sessions>>

UpdateUser == \E u \in Users, e \in Emails, s \in {"active", "blocked"} :
  /\ Row(cust[u], e) \subseteq {u}
  /\ identifier' = [identifier EXCEPT ![u] = e]
  /\ status' = [status EXCEPT ![u] = s]
  /\ alone' = None
  /\ UNCHANGED <<customers, cust, bound, bought, sessions, pc, who, email, reading>>

\* The process dies or the database refuses: what was not committed is gone.
Fail(p) ==
  /\ pc[p] \notin Ended \cup {"idle"}
  /\ End(p, "done")
  /\ UNCHANGED <<customers, userRows, bought, sessions>>

-----------------------------------------------------------------------------
CallStep(p) ==
  \/ Login(p) \/ Entitle(p) \/ StoreLogin(p)
  \/ Provision(p) \/ Create(p) \/ Bind(p)
  \/ StartOnboard(p) \/ FinishOnboard(p)
  \/ ProvisionLicense(p) \/ CreateSubscription(p) \/ CreateLicense(p)
  \/ AdminCreateUser(p) \/ Fail(p)

ACNext ==
  \/ \E p \in Calls : CallStep(p)
  \/ SubscriptionEnds \/ SubscriptionReturns \/ UpdateUser

ACSpec == ACInit /\ [][ACNext]_acvars

-----------------------------------------------------------------------------
\* The identity a session was opened for is the one its user is bound to,
\* unless two logins were about to bind that user at a time: the later one
\* then takes the account over and the session of the earlier one stays.
SessionsOfOneIdentity == \A s \in sessions : bound[s[1]] = s[2] \/ s[1] \in crowded

\* Whoever has a session is a user of a customer that was given a license, or
\* of one whose license provisionLicense was still to create: onboarding never
\* leaves a subscription behind that lets users in without one.
AccessBought == \A s \in sessions : cust[s[1]] \in licensed \cup half

\* A call that has had the users to itself is never answered with a unique
\* violation, except a login whose identity belongs to a user of another
\* identifier (the email has changed on either side): what the reads of login
\* and provisioning decide satisfies the indexes of what they write.  An
\* administrator's call carries no identity and has no exception.
LoneCallClean ==
  [][\A p \in Calls : pc[p] # "conflict" /\ pc'[p] = "conflict" /\ alone = p =>
       /\ who[p] \in Identities
       /\ \E v \in Users : bound[v] = who[p] /\ identifier[v] # email[p]]_acvars

=============================================================================
