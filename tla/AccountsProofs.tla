---------------------------- MODULE AccountsProofs ----------------------------
(***************************************************************************)
(* Proofs about Accounts, for any number of requests, identities and       *)
(* emails.                                                                 *)
(***************************************************************************)
EXTENDS Accounts, TLAPS

\* The steps of a login, and those at which a call has read users.
LoginSteps == {"provision", "create", "bind", "entitle", "store"}
Reading == {"bind", "entitle", "store"}

\* What a call at each step holds: a call that is still to insert its user has
\* no row, and one that works on the row of a customer has seen that row.
Locals ==
  \A p \in Calls :
    /\ pc[p] \in LoginSteps => who[p] \in Identities /\ email[p] \in Emails
    /\ pc[p] \in OnboardSteps \cup {"create", "subscription", "license"} => email[p]
      \in customers
    /\ pc[p] \in OnboardSteps \cup {"idle", "provision", "create"} => status[p] = "none"
    /\ pc[p] \notin Reading => cand[p] = {} /\ chosen[p] = None
    /\ pc[p] = "entitle" /\ chosen[p] # None => cand[p] = {}
    /\ pc[p] = "bind" => cand[p] = {chosen[p]}
    /\ pc[p] = "store" => chosen[p] # None

\* Users that a call may yet bind are not bound unless another was about to
\* bind them too.
Reads ==
  \A p \in Calls : \A u \in cand[p] :
    /\ bound[u] = None \/ u \in crowded
    /\ \A q \in Calls \ {p} : u \in cand[q] => u \in crowded

\* A login that has settled on a user and is not to bind it has seen it bound.
Settled ==
  \A p \in Calls :
    pc[p] \in {"entitle", "store"} /\ chosen[p] # None /\ chosen[p] \notin cand[p]
      => bound[chosen[p]] = who[p] \/ chosen[p] \in crowded

\* Subscriptions are bought, and a login that goes on has seen one.
Bought ==
  /\ entitled \subseteq licensed \cup half
  /\ \A p \in Calls : pc[p] = "store" => cust[chosen[p]] \in licensed \cup half

\* What a call that has the users to itself knows of them.
Lone ==
  \A p \in Calls : alone = p =>
    /\ pc[p] \notin Ended \cup {"idle", "bind"}
    /\ \A q \in Calls \ {p} : pc[q] \in Ended \cup {"idle"}
    /\ pc[p] \in {"provision", "create"} => \A u \in Users : identifier[u] # email[p]
    /\ pc[p] \in OnboardSteps => Row(email[p], email[p]) = {}
    /\ cand[p] # {} =>
         \A u \in Users : identifier[u] = email[p] => bound[u] # who[p]

\* The inductive invariant.
IInv == /\ TypeOK /\ Locals /\ Reads /\ Settled /\ SessionsOfOneIdentity
        /\ Bought /\ AccessBought /\ Lone

-----------------------------------------------------------------------------
\* The rows of end_users: the conjuncts of TypeOK that an insert can break.
RowsOK ==
  /\ status \in [Calls -> {"none", "active", "blocked"}]
  /\ cust \in [Calls -> Emails \cup {None}]
  /\ identifier \in [Calls -> Emails \cup {None}]
  /\ bound \in [Calls -> Identities \cup {None}]
  /\ \A u \in Users : cust[u] \in customers
  /\ \A u, v \in Users : u # v => \/ cust[u] # cust[v]
                                  \/ identifier[u] # identifier[v]
  /\ \A u, v \in Users : u # v /\ bound[u] # None => bound[u] # bound[v]

\* An insert that finds the names free keeps the rows in order and adds one.
LEMMA InsertKeepsRows ==
  ASSUME RowsOK, NEW p \in Calls, status[p] = "none",
         customers \subseteq customers',
         NEW c \in customers' \cap Emails, NEW e \in Emails,
         NEW i \in Identities \cup {None},
         Row(c, e) = {}, i = None \/ ~Taken(i, p), Insert(p, c, e, i)
  PROVE  RowsOK' /\ Users' = Users \cup {p}
<1>1. Users' = Users \cup {p}
  BY DEF RowsOK, Insert, Users
<1>2. /\ status' \in [Calls -> {"none", "active", "blocked"}]
      /\ cust' \in [Calls -> Emails \cup {None}]
      /\ identifier' \in [Calls -> Emails \cup {None}]
      /\ bound' \in [Calls -> Identities \cup {None}]
  BY DEF RowsOK, Insert
<1>3. ASSUME NEW u \in Users'
      PROVE  cust'[u] \in customers'
  BY <1>1 DEF RowsOK, Insert, Users
<1>4. ASSUME NEW u \in Users', NEW v \in Users', u # v
      PROVE  cust'[u] # cust'[v] \/ identifier'[u] # identifier'[v]
  BY <1>1, <1>4 DEF RowsOK, Insert, Users, Row
<1>5. ASSUME NEW u \in Users', NEW v \in Users', u # v, bound'[u] # None
      PROVE  bound'[u] # bound'[v]
  BY <1>1, <1>5 DEF RowsOK, Insert, Users, Taken
<1> QED  BY <1>1, <1>2, <1>3, <1>4, <1>5 DEF RowsOK

-----------------------------------------------------------------------------
\* The invariant holds at the start.
LEMMA InitIInv == ACInit => IInv
<1> SUFFICES ASSUME ACInit PROVE IInv
  OBVIOUS
<1>1. TypeOK
  BY DEF ACInit, TypeOK, Users, Steps
<1> QED
  BY <1>1, AccountsAssumption DEF ACInit, IInv, Locals, Reads, Settled,
    SessionsOfOneIdentity,
    Bought, AccessBought, Lone, LoginSteps, OnboardSteps, Reading, Ended

\* Each action keeps the invariant, part by part.
LEMMA LoginStep ==
  ASSUME NEW p \in Calls, IInv, Login(p)
  PROVE  IInv'
<1>1. TypeOK'
  BY AccountsAssumption DEF IInv, Login, Begin, Consider, TypeOK, Locals, Users, Steps,
    userRows, bought, reading
<1>2. Locals'
  BY DEF IInv, Login, Begin, Consider, TypeOK, Locals, OnboardSteps, LoginSteps,
    Reading, userRows, reading
<1>3. Reads'
  BY DEF IInv, Login, Consider, TypeOK, Reads, userRows, reading
<1>4. Settled'
  BY DEF IInv, Login, Begin, Consider, TypeOK, Settled, userRows, reading
<1>5. SessionsOfOneIdentity'
  BY DEF IInv, Login, Consider, TypeOK, SessionsOfOneIdentity, userRows, reading
<1>6. Bought'
  BY DEF IInv, Login, Begin, Consider, TypeOK, Bought, userRows, bought, reading
<1>7. AccessBought'
  BY DEF IInv, Login, Consider, TypeOK, AccessBought, userRows, bought
<1>8. Lone'
  BY AccountsAssumption DEF IInv, Login, Begin, Consider, TypeOK, Lone, Users, Ended,
    OnboardSteps, userRows
<1> QED  BY <1>1, <1>2, <1>3, <1>4, <1>5, <1>6, <1>7, <1>8 DEF IInv

LEMMA EntitleStep ==
  ASSUME NEW p \in Calls, IInv, Entitle(p)
  PROVE  IInv'
<1>1. TypeOK'
  BY DEF IInv, Entitle, Goto, End, Consider, TypeOK, Users, Steps, Ended, userRows,
    bought, reading
<1>2. Locals'
  BY AccountsAssumption DEF IInv, Entitle, Goto, End, Consider, TypeOK, Locals, Users,
    OnboardSteps, LoginSteps, Reading, userRows, reading
<1>3. Reads'
  BY DEF IInv, Entitle, End, Consider, TypeOK, Reads, userRows, reading
<1>4. Settled'
  BY DEF IInv, Entitle, Goto, End, Consider, TypeOK, Settled, userRows, reading
<1>5. SessionsOfOneIdentity'
  BY DEF IInv, Entitle, End, Consider, TypeOK, SessionsOfOneIdentity, userRows, reading
<1>6. Bought'
  BY DEF IInv, Entitle, Goto, End, Consider, TypeOK, Bought, userRows, bought, reading
<1>7. AccessBought'
  BY DEF IInv, Entitle, End, Consider, TypeOK, AccessBought, userRows, bought
<1>8. Lone'
  BY AccountsAssumption DEF IInv, Entitle, Goto, End, Consider, TypeOK, Lone, Users,
    Ended, OnboardSteps, userRows, reading
<1> QED  BY <1>1, <1>2, <1>3, <1>4, <1>5, <1>6, <1>7, <1>8 DEF IInv

LEMMA StoreLoginStep ==
  ASSUME NEW p \in Calls, IInv, StoreLogin(p)
  PROVE  IInv'
<1>1. TypeOK'
  <2>1. TypeOK /\ chosen[p] \in Users /\ who[p] \in Identities /\ Users' = Users
    BY DEF StoreLogin, TypeOK, Locals, IInv, LoginSteps, Users
  <2>2. bound' \in [Calls -> Identities \cup {None}] /\ sessions' \in SUBSET (Users \X
    Identities)
    BY <2>1 DEF StoreLogin, TypeOK, Users
  <2>3. ASSUME NEW u \in Users, NEW v \in Users, u # v, bound'[u] # None
        PROVE  bound'[u] # bound'[v]
    BY <2>1, <2>3, AccountsAssumption DEF StoreLogin, TypeOK, Taken, Users
  <2>4. /\ UNCHANGED <<customers, status, cust, identifier, bought>>
        /\ End(p, "conflict") \/ End(p, "done")
    BY DEF StoreLogin
  <2> QED
    BY <2>1, <2>2, <2>3, <2>4 DEF End, TypeOK, Steps, Ended, bought
<1>2. Locals'
  BY DEF IInv, StoreLogin, End, TypeOK, Locals, OnboardSteps, LoginSteps, Reading
<1>3. Reads'
  <2>1. TypeOK /\ Reads
    BY DEF IInv
  <2>2. /\ \A q \in Calls : cand'[q] = IF q = p THEN {} ELSE cand[q]
        /\ crowded' = crowded
    BY <2>1 DEF StoreLogin, End, TypeOK
  <2>3. \A u \in Users : bound'[u] # bound[u] => u \in cand[p]
    BY <2>1 DEF StoreLogin, TypeOK, Users
  <2> QED
    BY <2>1, <2>2, <2>3 DEF Reads, TypeOK
<1>4. Settled'
  BY AccountsAssumption DEF IInv, StoreLogin, End, TypeOK, Locals, Reads, Settled,
    Users, LoginSteps, Reading
<1>5. SessionsOfOneIdentity'
  BY AccountsAssumption DEF IInv, StoreLogin, End, TypeOK, Locals, Reads, Settled,
    SessionsOfOneIdentity, Users
<1>6. Bought'
  BY DEF IInv, StoreLogin, End, TypeOK, Bought, bought
<1>7. AccessBought'
  BY DEF IInv, StoreLogin, End, TypeOK, Bought, AccessBought, bought
<1>8. Lone'
  BY AccountsAssumption DEF IInv, StoreLogin, End, TypeOK, Lone, Ended
<1> QED  BY <1>1, <1>2, <1>3, <1>4, <1>5, <1>6, <1>7, <1>8 DEF IInv

LEMMA ProvisionStep ==
  ASSUME NEW p \in Calls, IInv, Provision(p)
  PROVE  IInv'
<1>1. TypeOK'
  <2>1. RowsOK /\ status[p] = "none" /\ who[p] \in Identities /\ email[p] \in Emails
    BY DEF IInv, TypeOK, Locals, RowsOK, LoginSteps, Provision
  <2>2. CASE email[p] \in customers \/ Taken(who[p], p)
    <3>1. UNCHANGED <<customers, userRows, bought, sessions>>
      BY <2>2 DEF Provision
    <3>2. Users' = Users
      BY <3>1 DEF userRows, Users
    <3>3. \/ End(p, "conflict") \/ End(p, "done")
          \/ Goto(p, "create") /\ UNCHANGED reading
          \/ \E u \in Users : \E us \in {{}, {u}}, step \in {"bind", "entitle"} :
               Goto(p, step) /\ Consider(p, us, u)
      BY <2>2 DEF Provision, Row
    <3>4. TypeOK
      BY DEF IInv
    <3>5. CASE End(p, "conflict") \/ End(p, "done")
      BY <3>1, <3>2, <3>4, <3>5 DEF End, TypeOK, Steps, Ended, userRows, bought
    <3>6. CASE Goto(p, "create") /\ UNCHANGED reading
      BY <3>1, <3>2, <3>4, <3>6 DEF Goto, TypeOK, Steps, userRows, bought, reading
    <3>7. CASE \E u \in Users : \E us \in {{}, {u}}, step \in {"bind", "entitle"} :
                 Goto(p, step) /\ Consider(p, us, u)
      BY <3>1, <3>2, <3>4, <3>7 DEF Goto, Consider, TypeOK, Steps, userRows, bought
    <3> QED
      BY <3>3, <3>5, <3>6, <3>7
  <2>3. CASE /\ email[p] \notin customers /\ ~Taken(who[p], p)
             /\ customers' = customers \cup {email[p]}
             /\ Insert(p, email[p], email[p], who[p])
             /\ Goto(p, "entitle") /\ Consider(p, {}, p)
             /\ UNCHANGED <<bought, sessions>>
    <3>1. Row(email[p], email[p]) = {}
      BY <2>1, <2>3 DEF RowsOK, Row
    <3>2. RowsOK' /\ Users' = Users \cup {p}
      BY <2>1, <2>3, <3>1, InsertKeepsRows
    <3>3. TypeOK /\ Locals
      BY DEF IInv
    <3>4. /\ customers' \in SUBSET Emails /\ entitled' \in SUBSET customers'
          /\ licensed' \in SUBSET customers' /\ half' \in SUBSET customers'
          /\ sessions' \in SUBSET (Users' \X Identities)
          /\ crowded' \in SUBSET Users'
      BY <2>1, <2>3, <3>2, <3>3 DEF TypeOK, bought, Consider
    <3>5. /\ pc' \in [Calls -> Steps] /\ who' \in [Calls -> Identities \cup {None}]
          /\ email' \in [Calls -> Emails \cup {None}] /\ alone' \in Calls \cup {None}
          /\ cand' \in [Calls -> SUBSET Users'] /\ chosen' \in [Calls -> Users' \cup {None}]
      BY <2>1, <2>3, <3>2, <3>3 DEF TypeOK, Goto, Consider, Steps
    <3> QED
      BY <3>2, <3>4, <3>5 DEF TypeOK, RowsOK
  <2>4. Row(email[p], email[p]) # {} => email[p] \in customers
    BY <2>1 DEF RowsOK, Row
  <2> QED
    BY <2>2, <2>3, <2>4 DEF Provision
<1>2. Locals'
  BY DEF IInv, Provision, Goto, End, Consider, Insert, TypeOK, Locals, OnboardSteps,
    LoginSteps, Reading, userRows, reading
<1>3. Reads'
  BY DEF IInv, Provision, End, Consider, Insert, TypeOK, Locals, Reads, Users,
    OnboardSteps, LoginSteps, Reading, userRows, reading
<1>4. Settled'
  BY DEF IInv, Provision, Goto, End, Consider, Insert, TypeOK, Locals, Settled, Users,
    userRows, reading
<1>5. SessionsOfOneIdentity'
  BY DEF IInv, Provision, End, Consider, Insert, TypeOK, Locals, SessionsOfOneIdentity,
    Users, userRows, reading
<1>6. Bought'
  BY DEF IInv, Provision, Goto, End, Consider, Insert, TypeOK, Locals, Bought, Users,
    userRows, bought, reading
<1>7. AccessBought'
  BY DEF IInv, Provision, End, Consider, Insert, TypeOK, Locals, AccessBought, Users,
    userRows, bought
<1>8. Lone'
  BY AccountsAssumption DEF IInv, Provision, Goto, End, Consider, Row, TypeOK, Locals,
    Lone, Users, Ended, OnboardSteps, userRows
<1> QED  BY <1>1, <1>2, <1>3, <1>4, <1>5, <1>6, <1>7, <1>8 DEF IInv

LEMMA CreateStep ==
  ASSUME NEW p \in Calls, IInv, Create(p)
  PROVE  IInv'
<1>1. TypeOK'
  <2>1. RowsOK /\ status[p] = "none" /\ who[p] \in Identities
           /\ email[p] \in Emails /\ email[p] \in customers
    BY DEF IInv, TypeOK, Locals, RowsOK, LoginSteps, Create
  <2>2. CASE UNCHANGED userRows
    <3>1. Users' = Users
      BY <2>2 DEF userRows, Users
    <3> QED
      BY <2>2, <3>1, AccountsAssumption DEF Create, Goto, End, Consider, Insert, TypeOK,
        Locals,
        IInv, Users, Steps, Ended, userRows, bought
  <2>3. CASE /\ Row(email[p], email[p]) = {} /\ ~Taken(who[p], p)
             /\ Insert(p, email[p], email[p], who[p])
             /\ Goto(p, "entitle") /\ Consider(p, {}, p)
             /\ UNCHANGED <<customers, bought, sessions>>
    <3>1. RowsOK' /\ Users' = Users \cup {p}
      BY <2>1, <2>3, InsertKeepsRows
    <3>2. TypeOK
      BY DEF IInv
    <3>3. /\ customers' \in SUBSET Emails /\ entitled' \in SUBSET customers'
          /\ licensed' \in SUBSET customers' /\ half' \in SUBSET customers'
          /\ sessions' \in SUBSET (Users' \X Identities)
          /\ crowded' \in SUBSET Users'
      BY <2>3, <3>1, <3>2 DEF TypeOK, bought, Consider
    <3>4. /\ pc' \in [Calls -> Steps] /\ who' \in [Calls -> Identities \cup {None}]
          /\ email' \in [Calls -> Emails \cup {None}] /\ alone' \in Calls \cup {None}
          /\ cand' \in [Calls -> SUBSET Users'] /\ chosen' \in [Calls -> Users' \cup {None}]
      BY <2>3, <3>1, <3>2 DEF TypeOK, Goto, Consider, Steps
    <3> QED
      BY <3>1, <3>3, <3>4 DEF TypeOK, RowsOK
  <2> QED
    BY <2>2, <2>3 DEF Create
<1>2. Locals'
  BY DEF IInv, Create, Goto, End, Consider, Insert, TypeOK, Locals, OnboardSteps,
    LoginSteps, Reading, userRows
<1>3. Reads'
  BY AccountsAssumption DEF IInv, Create, Goto, End, Consider, Insert, TypeOK, Locals,
    Reads, Users, userRows, bought
<1>4. Settled'
  BY DEF IInv, Create, Goto, End, Consider, Insert, TypeOK, Locals, Settled, Users,
    userRows
<1>5. SessionsOfOneIdentity'
  BY DEF IInv, Create, End, Consider, Insert, TypeOK, Locals, SessionsOfOneIdentity,
    Users, userRows
<1>6. Bought'
  BY DEF IInv, Create, Goto, End, Consider, Insert, TypeOK, Locals, Bought, Users,
    userRows, bought
<1>7. AccessBought'
  BY DEF IInv, Create, End, Consider, Insert, TypeOK, Locals, AccessBought, Users,
    userRows, bought
<1>8. Lone'
  BY AccountsAssumption DEF IInv, Create, Goto, End, Consider, TypeOK, Lone, Ended,
    OnboardSteps
<1> QED  BY <1>1, <1>2, <1>3, <1>4, <1>5, <1>6, <1>7, <1>8 DEF IInv

LEMMA BindStep ==
  ASSUME NEW p \in Calls, IInv, Bind(p)
  PROVE  IInv'
<1>1. TypeOK'
  <2>1. TypeOK /\ chosen[p] \in Users /\ who[p] \in Identities /\ Users' = Users
    BY DEF Bind, TypeOK, Locals, IInv, LoginSteps, Users
  <2>2. bound' \in [Calls -> Identities \cup {None}]
    BY <2>1 DEF Bind, TypeOK, Users
  <2>3. ASSUME NEW u \in Users, NEW v \in Users, u # v, bound'[u] # None
        PROVE  bound'[u] # bound'[v]
    BY <2>1, <2>3, AccountsAssumption DEF Bind, TypeOK, Taken, Users
  <2>4. /\ UNCHANGED <<customers, status, cust, identifier, bought, sessions>>
        /\ \/ End(p, "conflict") \/ End(p, "done")
           \/ Goto(p, "entitle") /\ Consider(p, {}, chosen[p])
    BY DEF Bind
  <2> QED
    BY <2>1, <2>2, <2>3, <2>4 DEF End, Goto, Consider, TypeOK, Steps, Ended, bought
<1>2. Locals'
  BY DEF IInv, Bind, Goto, End, Consider, TypeOK, Locals, OnboardSteps, LoginSteps,
    Reading
<1>3. Reads'
  BY DEF IInv, Bind, End, Consider, TypeOK, Locals, Reads, Users, OnboardSteps
<1>4. Settled'
  BY AccountsAssumption DEF IInv, Bind, Goto, End, Consider, TypeOK, Locals, Reads,
    Settled, Users, LoginSteps, Reading
<1>5. SessionsOfOneIdentity'
  BY AccountsAssumption DEF IInv, Bind, End, Consider, TypeOK, Locals, Reads,
    SessionsOfOneIdentity, Users
<1>6. Bought'
  BY DEF IInv, Bind, Goto, End, Consider, TypeOK, Bought, bought
<1>7. AccessBought'
  BY DEF IInv, Bind, End, Consider, TypeOK, AccessBought, bought
<1>8. Lone'
  BY DEF IInv, Bind, Goto, End, Consider, TypeOK, Lone, Ended
<1> QED  BY <1>1, <1>2, <1>3, <1>4, <1>5, <1>6, <1>7, <1>8 DEF IInv

LEMMA StartOnboardStep ==
  ASSUME NEW p \in Calls, IInv, StartOnboard(p)
  PROVE  IInv'
<1>1. TypeOK'
  <2>1. PICK e \in Emails, kind \in OnboardSteps :
          /\ \/ /\ e \notin customers
                /\ customers' = customers \cup {e}
                /\ Insert(p, e, e, None) /\ Buy(kind, e) /\ Answer(p)
             \/ /\ Row(e, e) # {}
                /\ Buy(kind, e) /\ Answer(p) /\ UNCHANGED <<customers, userRows>>
             \/ /\ e \in customers /\ Row(e, e) = {}
                /\ Begin(p, None, e, kind)
                /\ UNCHANGED <<customers, userRows, bought, reading>>
          /\ UNCHANGED sessions
    BY DEF StartOnboard
  <2>2. TypeOK /\ RowsOK /\ (pc[p] = "idle" => status[p] = "none")
    BY DEF IInv, TypeOK, Locals, RowsOK
  <2>3. CASE UNCHANGED <<customers, userRows>>
    <3>1. Users' = Users
      BY <2>3 DEF userRows, Users
    <3>2. \A u \in Row(e, e) : e \in customers
      BY <2>2 DEF RowsOK, Row
    <3> QED
      BY <2>1, <2>2, <2>3, <3>1, <3>2 DEF Begin, Answer, Buy, Insert, TypeOK, Users,
        Steps, Ended,
        OnboardSteps, userRows, bought, reading
  <2>4. CASE /\ e \notin customers
             /\ customers' = customers \cup {e}
             /\ Insert(p, e, e, None) /\ Buy(kind, e) /\ Answer(p)
    <3>1. Row(e, e) = {}
      BY <2>2, <2>4 DEF RowsOK, Row
    <3>2. RowsOK' /\ Users' = Users \cup {p}
      BY <2>2, <2>4, <3>1, InsertKeepsRows DEF Answer
    <3>3. /\ customers' \in SUBSET Emails /\ entitled' \in SUBSET customers'
          /\ licensed' \in SUBSET customers' /\ half' \in SUBSET customers'
          /\ sessions' \in SUBSET (Users' \X Identities)
          /\ crowded' \in SUBSET Users'
      BY <2>1, <2>2, <2>4, <3>2 DEF TypeOK, Buy, Answer, reading
    <3>4. /\ pc' \in [Calls -> Steps] /\ who' \in [Calls -> Identities \cup {None}]
          /\ email' \in [Calls -> Emails \cup {None}] /\ alone' \in Calls \cup {None}
          /\ cand' \in [Calls -> SUBSET Users'] /\ chosen' \in [Calls -> Users' \cup {None}]
      BY <2>2, <2>4, <3>2 DEF TypeOK, Answer, reading, Steps, Ended
    <3> QED
      BY <3>2, <3>3, <3>4 DEF TypeOK, RowsOK
  <2> QED
    BY <2>1, <2>3, <2>4
<1>2. Locals'
  BY DEF IInv, StartOnboard, Begin, Answer, Buy, Insert, TypeOK, Locals, OnboardSteps,
    LoginSteps, Reading, userRows, reading
<1>3. Reads'
  BY DEF IInv, StartOnboard, Begin, Answer, Buy, Insert, TypeOK, Reads, Users, userRows,
    reading
<1>4. Settled'
  BY DEF IInv, StartOnboard, Begin, Answer, Buy, Insert, TypeOK, Locals, Settled, Users,
    OnboardSteps, userRows, reading
<1>5. SessionsOfOneIdentity'
  BY DEF IInv, StartOnboard, Begin, Answer, Buy, Insert, TypeOK, Locals,
    SessionsOfOneIdentity, Users, userRows, reading
<1>6. Bought'
  BY DEF IInv, StartOnboard, Begin, Answer, Buy, Insert, TypeOK, Locals, Bought, Users,
    OnboardSteps, userRows, bought, reading
<1>7. AccessBought'
  BY DEF IInv, StartOnboard, Begin, Answer, Buy, Insert, TypeOK, Locals, AccessBought,
    Users, userRows, bought
<1>8. Lone'
  BY AccountsAssumption DEF IInv, StartOnboard, Begin, Answer, Row, TypeOK, Locals,
    Lone, Users, Ended, OnboardSteps, LoginSteps, Reading, userRows, reading
<1> QED  BY <1>1, <1>2, <1>3, <1>4, <1>5, <1>6, <1>7, <1>8 DEF IInv

LEMMA FinishOnboardStep ==
  ASSUME NEW p \in Calls, IInv, FinishOnboard(p)
  PROVE  IInv'
<1>1. TypeOK'
  <2>1. TypeOK /\ RowsOK /\ status[p] = "none" /\ email[p] \in Emails /\ email[p] \in
    customers
    BY DEF IInv, TypeOK, Locals, RowsOK, FinishOnboard
  <2>2. CASE UNCHANGED <<userRows, bought>>
    <3>1. Users' = Users
      BY <2>2 DEF userRows, Users
    <3> QED
      BY <2>1, <2>2, <3>1 DEF FinishOnboard, End, TypeOK, Steps, Ended, userRows, bought
  <2>3. CASE /\ Row(email[p], email[p]) = {}
             /\ Insert(p, email[p], email[p], None)
             /\ Buy(pc[p], email[p])
             /\ End(p, "done")
             /\ UNCHANGED <<customers, sessions>>
    <3>1. RowsOK' /\ Users' = Users \cup {p}
      BY <2>1, <2>3, InsertKeepsRows
    <3>2. /\ customers' \in SUBSET Emails /\ entitled' \in SUBSET customers'
          /\ licensed' \in SUBSET customers' /\ half' \in SUBSET customers'
          /\ sessions' \in SUBSET (Users' \X Identities)
          /\ crowded' \in SUBSET Users'
      BY <2>1, <2>3, <3>1 DEF TypeOK, Buy, End
    <3>3. /\ pc' \in [Calls -> Steps] /\ who' \in [Calls -> Identities \cup {None}]
          /\ email' \in [Calls -> Emails \cup {None}] /\ alone' \in Calls \cup {None}
          /\ cand' \in [Calls -> SUBSET Users'] /\ chosen' \in [Calls -> Users' \cup {None}]
      BY <2>1, <2>3, <3>1 DEF TypeOK, End, Steps, Ended
    <3> QED
      BY <3>1, <3>2, <3>3 DEF TypeOK, RowsOK
  <2> QED
    BY <2>2, <2>3 DEF FinishOnboard
<1>2. Locals'
  BY DEF IInv, FinishOnboard, End, Buy, Insert, TypeOK, Locals, OnboardSteps,
    LoginSteps, Reading, userRows
<1>3. Reads'
  BY AccountsAssumption DEF IInv, FinishOnboard, End, Buy, Insert, TypeOK, Reads, Users,
    userRows
<1>4. Settled'
  BY DEF IInv, FinishOnboard, End, Buy, Insert, TypeOK, Locals, Settled, Users, userRows
<1>5. SessionsOfOneIdentity'
  BY DEF IInv, FinishOnboard, End, Buy, Insert, TypeOK, Locals, SessionsOfOneIdentity,
    Users, userRows
<1>6. Bought'
  BY DEF IInv, FinishOnboard, End, Buy, Insert, Row, TypeOK, Locals, Bought, Users,
    userRows, bought
<1>7. AccessBought'
  BY DEF IInv, FinishOnboard, End, Buy, Insert, TypeOK, Locals, AccessBought, Users,
    userRows, bought
<1>8. Lone'
  BY AccountsAssumption DEF IInv, FinishOnboard, End, TypeOK, Lone, Ended, OnboardSteps
<1> QED  BY <1>1, <1>2, <1>3, <1>4, <1>5, <1>6, <1>7, <1>8 DEF IInv

LEMMA ProvisionLicenseStep ==
  ASSUME NEW p \in Calls, IInv, ProvisionLicense(p)
  PROVE  IInv'
<1>1. TypeOK'
  BY DEF IInv, ProvisionLicense, Begin, TypeOK, Users, Steps, userRows, bought, reading
<1>2. Locals'
  BY DEF IInv, ProvisionLicense, Begin, TypeOK, Locals, LoginSteps, Reading, userRows,
    reading
<1>3. Reads'
  BY DEF IInv, ProvisionLicense, TypeOK, Reads, userRows, reading
<1>4. Settled'
  BY DEF IInv, ProvisionLicense, Begin, TypeOK, Settled, userRows, reading
<1>5. SessionsOfOneIdentity'
  BY DEF IInv, ProvisionLicense, TypeOK, SessionsOfOneIdentity, userRows, reading
<1>6. Bought'
  BY DEF IInv, ProvisionLicense, Begin, TypeOK, Bought, userRows, bought, reading
<1>7. AccessBought'
  BY DEF IInv, ProvisionLicense, TypeOK, AccessBought, userRows, bought
<1>8. Lone'
  BY AccountsAssumption DEF IInv, ProvisionLicense, Begin, TypeOK, Locals, Lone, Ended,
    OnboardSteps, LoginSteps, Reading, reading
<1> QED  BY <1>1, <1>2, <1>3, <1>4, <1>5, <1>6, <1>7, <1>8 DEF IInv

LEMMA CreateSubscriptionStep ==
  ASSUME NEW p \in Calls, IInv, CreateSubscription(p)
  PROVE  IInv'
<1>1. TypeOK'
  BY DEF IInv, CreateSubscription, Goto, TypeOK, Locals, Users, Steps, userRows, reading
<1>2. Locals'
  BY DEF IInv, CreateSubscription, Goto, TypeOK, Locals, OnboardSteps, LoginSteps,
    Reading, userRows, reading
<1>3. Reads'
  BY DEF IInv, CreateSubscription, TypeOK, Reads, userRows, reading
<1>4. Settled'
  BY DEF IInv, CreateSubscription, Goto, TypeOK, Settled, userRows, reading
<1>5. SessionsOfOneIdentity'
  BY DEF IInv, CreateSubscription, TypeOK, SessionsOfOneIdentity, userRows, reading
<1>6. Bought'
  BY DEF IInv, CreateSubscription, Goto, TypeOK, Bought, userRows, reading
<1>7. AccessBought'
  BY DEF IInv, CreateSubscription, TypeOK, AccessBought, userRows
<1>8. Lone'
  BY DEF IInv, CreateSubscription, Goto, TypeOK, Locals, Lone, Ended, OnboardSteps,
    LoginSteps, Reading, reading
<1> QED  BY <1>1, <1>2, <1>3, <1>4, <1>5, <1>6, <1>7, <1>8 DEF IInv

LEMMA CreateLicenseStep ==
  ASSUME NEW p \in Calls, IInv, CreateLicense(p)
  PROVE  IInv'
<1>1. TypeOK'
  BY DEF IInv, CreateLicense, End, TypeOK, Locals, Users, Steps, Ended, userRows
<1>2. Locals'
  BY DEF IInv, CreateLicense, End, TypeOK, Locals, OnboardSteps, LoginSteps, Reading,
    userRows
<1>3. Reads'
  BY DEF IInv, CreateLicense, End, TypeOK, Reads, userRows
<1>4. Settled'
  BY DEF IInv, CreateLicense, End, TypeOK, Settled, userRows
<1>5. SessionsOfOneIdentity'
  BY DEF IInv, CreateLicense, End, TypeOK, SessionsOfOneIdentity, userRows
<1>6. Bought'
  BY DEF IInv, CreateLicense, End, TypeOK, Bought, userRows
<1>7. AccessBought'
  BY DEF IInv, CreateLicense, End, TypeOK, AccessBought, userRows
<1>8. Lone'
  BY AccountsAssumption DEF IInv, CreateLicense, End, TypeOK, Lone, Ended
<1> QED  BY <1>1, <1>2, <1>3, <1>4, <1>5, <1>6, <1>7, <1>8 DEF IInv

LEMMA AdminCreateUserStep ==
  ASSUME NEW p \in Calls, IInv, AdminCreateUser(p)
  PROVE  IInv'
<1>1. TypeOK'
  BY DEF IInv, AdminCreateUser, Answer, Insert, Row, TypeOK, Users, Steps, Ended,
    bought, reading
<1>2. Locals'
  BY DEF IInv, AdminCreateUser, Answer, Insert, TypeOK, Locals, OnboardSteps,
    LoginSteps, Reading, reading
<1>3. Reads'
  BY DEF IInv, AdminCreateUser, Answer, Insert, TypeOK, Reads, reading
<1>4. Settled'
  BY DEF IInv, AdminCreateUser, Answer, Insert, TypeOK, Locals, Settled, Users, reading
<1>5. SessionsOfOneIdentity'
  BY DEF IInv, AdminCreateUser, Answer, Insert, TypeOK, Locals, SessionsOfOneIdentity,
    Users, reading
<1>6. Bought'
  BY DEF IInv, AdminCreateUser, Answer, Insert, TypeOK, Locals, Bought, Users, bought,
    reading
<1>7. AccessBought'
  BY DEF IInv, AdminCreateUser, Answer, Insert, TypeOK, Locals, AccessBought, Users,
    bought
<1>8. Lone'
  BY AccountsAssumption DEF IInv, AdminCreateUser, Answer, TypeOK, Lone
<1> QED  BY <1>1, <1>2, <1>3, <1>4, <1>5, <1>6, <1>7, <1>8 DEF IInv

LEMMA FailStep ==
  ASSUME NEW p \in Calls, IInv, Fail(p)
  PROVE  IInv'
<1>1. TypeOK'
  BY DEF IInv, Fail, End, TypeOK, Users, Steps, Ended, userRows, bought
<1>2. Locals'
  BY DEF IInv, Fail, End, TypeOK, Locals, OnboardSteps, LoginSteps, Reading, userRows
<1>3. Reads'
  BY DEF IInv, Fail, End, TypeOK, Reads, userRows
<1>4. Settled'
  BY DEF IInv, Fail, End, TypeOK, Settled, userRows
<1>5. SessionsOfOneIdentity'
  BY DEF IInv, Fail, End, TypeOK, SessionsOfOneIdentity, userRows
<1>6. Bought'
  BY DEF IInv, Fail, End, TypeOK, Bought, userRows, bought
<1>7. AccessBought'
  BY DEF IInv, Fail, End, TypeOK, AccessBought, userRows, bought
<1>8. Lone'
  BY AccountsAssumption DEF IInv, Fail, End, TypeOK, Lone
<1> QED  BY <1>1, <1>2, <1>3, <1>4, <1>5, <1>6, <1>7, <1>8 DEF IInv

LEMMA SubscriptionEndsStep ==
  ASSUME IInv, SubscriptionEnds
  PROVE  IInv'
<1>1. TypeOK'
  BY DEF IInv, SubscriptionEnds, TypeOK, Users, Steps, userRows, control, reading
<1>2. Locals'
  BY DEF IInv, SubscriptionEnds, TypeOK, Locals, userRows, control, reading
<1>3. Reads'
  BY DEF IInv, SubscriptionEnds, TypeOK, Reads, userRows, control, reading
<1>4. Settled'
  BY DEF IInv, SubscriptionEnds, TypeOK, Settled, userRows, control, reading
<1>5. SessionsOfOneIdentity'
  BY DEF IInv, SubscriptionEnds, TypeOK, SessionsOfOneIdentity, userRows, control,
    reading
<1>6. Bought'
  BY DEF IInv, SubscriptionEnds, TypeOK, Bought, userRows, control, reading
<1>7. AccessBought'
  BY DEF IInv, SubscriptionEnds, TypeOK, AccessBought, userRows
<1>8. Lone'
  BY DEF IInv, SubscriptionEnds, TypeOK, Lone, Row, Users, userRows, control, reading
<1> QED  BY <1>1, <1>2, <1>3, <1>4, <1>5, <1>6, <1>7, <1>8 DEF IInv

LEMMA SubscriptionReturnsStep ==
  ASSUME IInv, SubscriptionReturns
  PROVE  IInv'
<1>1. TypeOK'
  BY DEF IInv, SubscriptionReturns, TypeOK, Users, Steps, userRows, control, reading
<1>2. Locals'
  BY DEF IInv, SubscriptionReturns, TypeOK, Locals, userRows, control, reading
<1>3. Reads'
  BY DEF IInv, SubscriptionReturns, TypeOK, Reads, userRows, control, reading
<1>4. Settled'
  BY DEF IInv, SubscriptionReturns, TypeOK, Settled, userRows, control, reading
<1>5. SessionsOfOneIdentity'
  BY DEF IInv, SubscriptionReturns, TypeOK, SessionsOfOneIdentity, userRows, control,
    reading
<1>6. Bought'
  BY DEF IInv, SubscriptionReturns, TypeOK, Bought, userRows, control, reading
<1>7. AccessBought'
  BY DEF IInv, SubscriptionReturns, TypeOK, AccessBought, userRows
<1>8. Lone'
  BY DEF IInv, SubscriptionReturns, TypeOK, Lone, Row, Users, userRows, control, reading
<1> QED  BY <1>1, <1>2, <1>3, <1>4, <1>5, <1>6, <1>7, <1>8 DEF IInv

LEMMA UpdateUserStep ==
  ASSUME IInv, UpdateUser
  PROVE  IInv'
<1>1. TypeOK'
  BY DEF IInv, UpdateUser, Row, TypeOK, Users, Steps, bought, reading
<1>2. Locals'
  BY DEF IInv, UpdateUser, TypeOK, Locals, Users, reading
<1>3. Reads'
  BY DEF IInv, UpdateUser, TypeOK, Reads, reading
<1>4. Settled'
  BY DEF IInv, UpdateUser, TypeOK, Settled, reading
<1>5. SessionsOfOneIdentity'
  BY DEF IInv, UpdateUser, TypeOK, SessionsOfOneIdentity, reading
<1>6. Bought'
  BY DEF IInv, UpdateUser, TypeOK, Bought, bought, reading
<1>7. AccessBought'
  BY DEF IInv, UpdateUser, TypeOK, AccessBought, bought
<1>8. Lone'
  BY AccountsAssumption DEF IInv, UpdateUser, TypeOK, Lone
<1> QED  BY <1>1, <1>2, <1>3, <1>4, <1>5, <1>6, <1>7, <1>8 DEF IInv

-----------------------------------------------------------------------------
\* Every step keeps it, so it always holds.
LEMMA NextIInv == IInv /\ [ACNext]_acvars => IInv'
<1> SUFFICES ASSUME IInv, [ACNext]_acvars PROVE IInv'
  OBVIOUS
<1>1. ASSUME NEW p \in Calls, CallStep(p) PROVE IInv'
  BY <1>1, LoginStep, EntitleStep, StoreLoginStep, ProvisionStep, CreateStep, BindStep,
    StartOnboardStep, FinishOnboardStep, ProvisionLicenseStep,
    CreateSubscriptionStep, CreateLicenseStep, AdminCreateUserStep, FailStep DEF
    CallStep
<1>2. CASE UNCHANGED acvars
  BY <1>2 DEF acvars, userRows, bought, control, reading, IInv, TypeOK, Locals, Reads,
    Settled,
    SessionsOfOneIdentity, Bought, AccessBought, Lone, Users, Row
<1> QED
  BY <1>1, <1>2, SubscriptionEndsStep, SubscriptionReturnsStep, UpdateUserStep DEF
    ACNext

LEMMA InvariantHolds == ACSpec => []IInv
  BY InitIInv, NextIInv, PTL DEF ACSpec

\* The types, and the two unique indexes of end_users: every action that
\* creates, renames or binds a user keeps within them.
THEOREM TypeCorrect == ACSpec => []TypeOK
  BY InvariantHolds, PTL DEF IInv

\* A session is of the identity its user is bound to, however logins, renames,
\* blocks and provisioning interleave, unless two logins were about to bind
\* the user at a time.
THEOREM IdentityOfSession == ACSpec => []SessionsOfOneIdentity
  BY InvariantHolds, PTL DEF IInv

\* Nobody has a session without a license that was created or, after a
\* provisionLicense that stopped halfway, was still to be.
THEOREM AccessIsBought == ACSpec => []AccessBought
  BY InvariantHolds, PTL DEF IInv

\* What a call that is alone has read is still so when it writes.
LEMMA LoneStep ==
  ASSUME IInv, [ACNext]_acvars, NEW p \in Calls,
         pc[p] # "conflict", pc'[p] = "conflict", alone = p
  PROVE  /\ who[p] \in Identities
         /\ \E v \in Users : bound[v] = who[p] /\ identifier[v] # email[p]
<1>1. TypeOK /\ Locals /\ Lone
  BY DEF IInv
<1>2. CASE StoreLogin(p)
  <2>1. chosen[p] \in cand[p] /\ Taken(who[p], chosen[p])
    BY <1>1, <1>2 DEF StoreLogin, End, TypeOK
  <2> QED
    BY <1>1, <1>2, <2>1 DEF StoreLogin, Taken, TypeOK, Lone, Locals, LoginSteps
<1>3. CASE Provision(p)
  <2>1. pc[p] = "provision" /\ Taken(who[p], p)
    BY <1>1, <1>3 DEF Provision, Goto, End, TypeOK
  <2> QED
    BY <1>1, <2>1 DEF Taken, Lone, Locals, LoginSteps
<1>4. CASE Create(p)
  <2>1. Row(email[p], email[p]) = {}
    BY <1>1, <1>4 DEF Create, Lone, Row
  <2> QED
    BY <1>1, <1>4, <2>1 DEF Create, Goto, Taken, TypeOK, Lone, Locals, LoginSteps
<1>5. CASE Bind(p)
  BY <1>1, <1>5 DEF Bind, Lone
<1>6. CASE FinishOnboard(p)
  BY <1>1, <1>6 DEF FinishOnboard, End, TypeOK, Lone
<1>7. ASSUME Login(p) \/ Entitle(p) \/ StartOnboard(p) \/ ProvisionLicense(p)
               \/ CreateSubscription(p) \/ CreateLicense(p)
               \/ AdminCreateUser(p) \/ Fail(p)
      PROVE  FALSE
  <2>1. CASE Login(p)
    BY <1>1, <2>1 DEF Login, Begin, TypeOK
  <2>2. CASE Entitle(p)
    BY <1>1, <2>2 DEF Entitle, Goto, End, TypeOK
  <2>3. CASE StartOnboard(p)
    BY <1>1, <2>3 DEF StartOnboard, Begin, Answer, OnboardSteps, TypeOK
  <2>4. CASE ProvisionLicense(p)
    BY <1>1, <2>4 DEF ProvisionLicense, Begin, TypeOK
  <2>5. CASE CreateSubscription(p)
    BY <1>1, <2>5 DEF CreateSubscription, Goto, TypeOK
  <2>6. CASE CreateLicense(p)
    BY <1>1, <2>6 DEF CreateLicense, End, TypeOK
  <2>7. CASE AdminCreateUser(p)
    BY <1>1, <2>7 DEF AdminCreateUser, Answer, TypeOK
  <2>8. CASE Fail(p)
    BY <1>1, <2>8 DEF Fail, End, TypeOK
  <2> QED
    BY <1>7, <2>1, <2>2, <2>3, <2>4, <2>5, <2>6, <2>7, <2>8
<1>8. ASSUME NEW q \in Calls \ {p}, CallStep(q)
      PROVE  FALSE
  <2>1. CASE Login(q)
    BY <1>1, <2>1 DEF Login, Begin, TypeOK
  <2>2. CASE Entitle(q)
    BY <1>1, <2>2 DEF Entitle, Goto, End, TypeOK
  <2>3. CASE StoreLogin(q)
    BY <1>1, <2>3 DEF StoreLogin, End, TypeOK
  <2>4. CASE Provision(q)
    <3>1. \E step \in Steps : pc' = [pc EXCEPT ![q] = step]
      BY <2>4 DEF Provision, Goto, End, Steps, Ended
    <3> QED
      BY <1>1, <3>1 DEF TypeOK
  <2>5. CASE Create(q)
    BY <1>1, <2>5 DEF Create, Goto, End, TypeOK
  <2>6. CASE Bind(q)
    BY <1>1, <2>6 DEF Bind, Goto, End, TypeOK
  <2>7. CASE StartOnboard(q)
    BY <1>1, <2>7 DEF StartOnboard, Begin, Answer, OnboardSteps, TypeOK
  <2>8. CASE FinishOnboard(q)
    BY <1>1, <2>8 DEF FinishOnboard, End, TypeOK
  <2>9. CASE ProvisionLicense(q)
    BY <1>1, <2>9 DEF ProvisionLicense, Begin, TypeOK
  <2>10. CASE CreateSubscription(q)
    BY <1>1, <2>10 DEF CreateSubscription, Goto, TypeOK
  <2>11. CASE CreateLicense(q)
    BY <1>1, <2>11 DEF CreateLicense, End, TypeOK
  <2>12. CASE AdminCreateUser(q)
    BY <1>1, <2>12 DEF AdminCreateUser, Answer, TypeOK
  <2>13. CASE Fail(q)
    BY <1>1, <2>13 DEF Fail, End, TypeOK
  <2> QED
    BY <1>8, <2>1, <2>2, <2>3, <2>4, <2>5, <2>6, <2>7, <2>8, <2>9, <2>10, <2>11, <2>12,
      <2>13 DEF CallStep
<1>9. ASSUME SubscriptionEnds \/ SubscriptionReturns \/ UpdateUser \/ UNCHANGED acvars
      PROVE  FALSE
  BY <1>9 DEF SubscriptionEnds, SubscriptionReturns, UpdateUser, acvars, control
<1> QED
  BY <1>2, <1>3, <1>4, <1>5, <1>6, <1>7, <1>8, <1>9 DEF ACNext, CallStep

\* A call that has the users to itself meets no unique violation but that of a
\* login whose identity belongs to a user of another identifier: onboarding and
\* createCustomer, which carry no identity, meet none.
THEOREM LoneCallIsClean == ACSpec => LoneCallClean
<1>1. IInv /\ [ACNext]_acvars =>
        [\A p \in Calls : pc[p] # "conflict" /\ pc'[p] = "conflict" /\ alone = p =>
           /\ who[p] \in Identities
           /\ \E v \in Users : bound[v] = who[p] /\ identifier[v] # email[p]]_acvars
  BY LoneStep
<1> QED
  BY <1>1, InvariantHolds, PTL DEF ACSpec, LoneCallClean

-----------------------------------------------------------------------------
(* One call at a time.                                                       *)

InFlight == {p \in Calls : pc[p] \notin Ended \cup {"idle"}}
OneAtATime == \A p, q \in InFlight : p = q

\* A call that considers users alone finds nobody else about to bind them.
LEMMA AloneStep ==
  ASSUME IInv, OneAtATime', crowded = {}, [ACNext]_acvars
  PROVE  crowded' = {}
<1>1. ASSUME NEW p \in Calls, NEW step \in Reading, NEW us, NEW u,
             Consider(p, us, u), pc' = [pc EXCEPT ![p] = step]
      PROVE  crowded' = {}
  <2>1. /\ pc'[p] \in Reading /\ \A q \in Calls \ {p} : pc'[q] = pc[q]
        /\ \A q \in Calls : pc[q] \notin Reading => cand[q] = {}
    BY <1>1 DEF IInv, TypeOK, Locals
  <2>2. \A q \in Calls : pc'[q] \in Reading => q \in InFlight'
    BY DEF InFlight, Reading, Ended
  <2>3. \A q \in Calls \ {p} : cand[q] = {}
    BY <2>1, <2>2 DEF OneAtATime
  <2> QED
    BY <1>1, <2>3 DEF Consider
<1>2. CASE crowded' # crowded
  <2>1. \E p \in Calls, step \in Reading :
          (\E us, u : Consider(p, us, u)) /\ pc' = [pc EXCEPT ![p] = step]
    <3>1. \E p \in Calls : Login(p) \/ Entitle(p) \/ Provision(p) \/ Create(p) \/ Bind(p)
      BY <1>2
      DEF ACNext, CallStep, acvars, control, reading, StoreLogin, StartOnboard,
        FinishOnboard, ProvisionLicense, CreateSubscription, CreateLicense,
        AdminCreateUser, Fail, End, Goto, Answer, SubscriptionEnds, SubscriptionReturns,
        UpdateUser
    <3>2. PICK p \in Calls : Login(p) \/ Entitle(p) \/ Provision(p) \/ Create(p) \/ Bind(p)
      BY <3>1
    <3>3. CASE Login(p)
      BY <1>2, <3>3 DEF Login, Begin, Reading, reading
    <3>4. CASE Entitle(p)
      BY <1>2, <3>4 DEF Entitle, Goto, End, Reading, reading
    <3>5. CASE Provision(p)
      BY <1>2, <3>5 DEF Provision, Goto, End, Reading, reading
    <3>6. CASE Create(p)
      BY <1>2, <3>6 DEF Create, Goto, End, Reading
    <3>7. CASE Bind(p)
      BY <1>2, <3>7 DEF Bind, Goto, End, Reading
    <3> QED
      BY <3>2, <3>3, <3>4, <3>5, <3>6, <3>7
  <2> QED
    BY <1>1, <2>1
<1> QED
  BY <1>2

\* A user that nobody shares is bound once.
LEMMA BoundOnce ==
  ASSUME IInv, crowded = {}, [ACNext]_acvars, NEW u \in Users, bound[u] # None
  PROVE  bound'[u] = bound[u]
<1>1. TypeOK /\ Locals /\ Reads /\ u \in Calls /\ status[u] # "none"
  BY DEF IInv, Users
<1>2. \A p \in Calls : u \notin cand[p]
  BY <1>1 DEF Reads
<1>3. CASE \E p \in Calls : StoreLogin(p)
  <2>1. PICK p \in Calls : StoreLogin(p)
    BY <1>3
  <2>2. chosen[p] \in cand[p] => chosen[p] # u
    BY <1>2
  <2> QED
    BY <1>1, <2>1, <2>2 DEF StoreLogin, TypeOK
<1>4. CASE \E p \in Calls : Bind(p)
  <2>1. PICK p \in Calls : Bind(p)
    BY <1>4
  <2>2. chosen[p] # u
    BY <1>1, <1>2, <2>1 DEF Bind, Locals
  <2> QED
    BY <1>1, <2>1, <2>2 DEF Bind, TypeOK
<1>5. ASSUME NEW p \in Calls, NEW c, NEW e, NEW i, Insert(p, c, e, i), status[p] = "none"
      PROVE  bound'[u] = bound[u]
  BY <1>1, <1>5 DEF Insert, TypeOK
<1>6. CASE \E p \in Calls : Provision(p) \/ Create(p) \/ FinishOnboard(p)
  <2>1. PICK p \in Calls : Provision(p) \/ Create(p) \/ FinishOnboard(p)
    BY <1>6
  <2>2. status[p] = "none"
    BY <1>1, <2>1 DEF Provision, Create, FinishOnboard, Locals
  <2>3. \/ \E c, e, i : Insert(p, c, e, i)
        \/ bound' = bound
    BY <2>1 DEF Provision, Create, FinishOnboard, userRows
  <2> QED
    BY <1>5, <2>2, <2>3
<1>7. CASE \E p \in Calls : StartOnboard(p) \/ AdminCreateUser(p)
  <2>1. PICK p \in Calls : StartOnboard(p) \/ AdminCreateUser(p)
    BY <1>7
  <2>2. pc[p] = "idle"
    BY <2>1 DEF StartOnboard, AdminCreateUser, Answer, Begin
  <2>3. status[p] = "none"
    BY <1>1, <2>2 DEF Locals
  <2>4. \/ \E c, e, i : Insert(p, c, e, i)
        \/ bound' = bound
    BY <2>1 DEF StartOnboard, AdminCreateUser, userRows
  <2> QED
    BY <1>5, <2>3, <2>4
<1>8. CASE UNCHANGED bound
  BY <1>8
<1> QED
  BY <1>3, <1>4, <1>6, <1>7, <1>8
  DEF ACNext, CallStep, acvars, userRows, Login, Entitle, ProvisionLicense,
    CreateSubscription, CreateLicense, Fail, SubscriptionEnds, SubscriptionReturns,
    UpdateUser

\* Every session is of the identity its user is bound to, and a user that is
\* bound stays so.
AccountsKept ==
  /\ [](\A s \in sessions : bound[s[1]] = s[2])
  /\ [][\A u \in Users : bound[u] # None => bound'[u] = bound[u]]_acvars

\* With logins and administration one call after the other no account is ever
\* taken over, also when calls stop between two statements: it takes two logins
\* that have both read the user unbound.
THEOREM SerialAccountsAreKept == ACSpec /\ []OneAtATime => AccountsKept
<1>1. ACInit => crowded = {}
  BY DEF ACInit
<1>2. IInv /\ OneAtATime' /\ crowded = {} /\ [ACNext]_acvars => (crowded = {})'
  BY AloneStep
<1>3. IInv /\ crowded = {} => \A s \in sessions : bound[s[1]] = s[2]
  BY DEF IInv, SessionsOfOneIdentity
<1>4. IInv /\ crowded = {} /\ [ACNext]_acvars =>
        [\A u \in Users : bound[u] # None => bound'[u] = bound[u]]_acvars
  BY BoundOnce
<1> QED
  BY <1>1, <1>2, <1>3, <1>4, InvariantHolds, PTL DEF ACSpec, AccountsKept

=============================================================================
