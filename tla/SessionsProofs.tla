---------------------------- MODULE SessionsProofs ----------------------------
(***************************************************************************)
(* Proofs about Sessions, for any number of requests.                      *)
(***************************************************************************)
EXTENDS Sessions, TLAPS

\* The session a call works on: a login its own; a call that was sent a
\* token, and a client that holds one, a session with a delivered token.
CallsKnowSessions ==
  \A c \in Calls :
    /\ pc[c] \in {"start", "createSession", "storeLogin"} => token[c] = None
    /\ pc[c] \in {"createSession", "storeLogin"} => sid[c] = c
    /\ pc[c] = "deliver" /\ token[c] = None => sid[c] = c
    /\ pc[c] \in {"findUser", "rotate", "revokeReplay", "revokeBlocked", "revokeLogout"} =>
         token[c] # None
    /\ token[c] # None => sid[c] \in Calls /\ held[sid[c]] # None
    /\ c \in known => pc[c] = "done" /\ sid[c] \in Calls /\ held[sid[c]] # None

\* Until a login delivers its token nobody else works on its session.
LoginsPending ==
  \A s \in Calls :
    /\ pc[s] \in {"start", "createSession"} => session[s] = "none"
    /\ pc[s] \in {"start", "createSession", "storeLogin"} => held[s] = None
    /\ pc[s] = "deliver" /\ token[s] = None => held[s] = None /\ hash[s] = s

\* A session whose client has kept to the protocol: one refresh at a time,
\* never taken for a replay, and the stored hash is that of the token held
\* or of the one being delivered.
Undisturbed(s) ==
  /\ session[s] # "refresh_replay"
  /\ held[s] # None /\ (\A c \in Refreshing(s) : pc[c] # "deliver") => hash[s] = held[s]
  /\ \A c \in Refreshing(s) :
       /\ pc[c] # "revokeReplay"
       /\ pc[c] = "deliver" => hash[s] = c
       /\ \A b \in Refreshing(s) : b = c

ClientsKept == \A s \in Calls \ disturbed : Undisturbed(s)

IInv ==
  /\ TypeOK
  /\ CallsKnowSessions
  /\ LoginsPending
  /\ ClientsKept

-----------------------------------------------------------------------------
\* The invariant holds with no session.
LEMMA InvInit == SInit => IInv
  BY SessionsAssumption
  DEF SInit, IInv, TypeOK, CallsKnowSessions, LoginsPending, ClientsKept, Undisturbed,
      Refreshing, RefreshSteps, Steps

-----------------------------------------------------------------------------
(***************************************************************************)
(* Type correctness.                                                       *)
(***************************************************************************)
LEMMA TypeStep ==
  ASSUME IInv, [SNext]_svars
  PROVE  TypeOK'
  <1>0. TypeOK /\ CallsKnowSessions
    BY DEF IInv
  <1>1. ASSUME NEW c \in Calls, Arrive(c)
        PROVE  TypeOK'
    <2>1. CASE Login(c) \/ BlockUser(c) \/ UnblockUser(c)
      BY <1>0, <2>1 DEF Login, BlockUser, UnblockUser, Begin, Goto, TypeOK, Steps
    <2>2. ASSUME NEW t \in known, Refresh(c, t) \/ Logout(c, t)
          PROVE  TypeOK'
      <3>1. t \in Calls /\ sid[t] \in Calls
        BY <1>0 DEF TypeOK, CallsKnowSessions
      <3>2. CASE Refresh(c, t)
        <4>1. (IF hash[sid[t]] = t THEN "findUser" ELSE "revokeReplay") \in Steps
          BY DEF Steps
        <4>2. disturbed' \in SUBSET Calls
          BY <1>0, <3>1, <3>2 DEF Refresh, TypeOK
        <4>3. QED
          BY <1>0, <3>1, <3>2, <4>1, <4>2 DEF Refresh, Begin, Goto, TypeOK
      <3>3. CASE Logout(c, t)
        BY <1>0, <3>1, <3>3 DEF Logout, Begin, Goto, TypeOK, Steps
      <3>4. QED
        BY <2>2, <3>2, <3>3
    <2>3. QED
      BY <1>1, <2>1, <2>2 DEF Arrive
  <1>2. ASSUME NEW c \in Calls, Proceed(c)
        PROVE  TypeOK'
    <2>1. pc' \in [Calls -> Steps]
      BY <1>0, <1>2
      DEF Proceed, CreateSession, StoreLogin, FindUser, Rotate, Deliver, RevokeReplay,
          RevokeBlocked, RevokeLogout, Revoke, RevokeAll, Fail, Goto, TypeOK, Steps
    <2>2. session' \in [Calls -> {"none", "live"} \cup Reasons]
      BY <1>0, <1>2
      DEF Proceed, CreateSession, StoreLogin, FindUser, Rotate, Deliver, RevokeReplay,
          RevokeBlocked, RevokeLogout, Revoke, RevokeAll, Fail, TypeOK, Reasons
    <2>3. /\ status' \in {"active", "blocked"}
          /\ hash' \in [Calls -> Calls \cup {None}]
          /\ over' \in SUBSET Calls
          /\ sid' \in [Calls -> Calls \cup {None}]
          /\ token' \in [Calls -> Calls \cup {None}]
          /\ known' \in SUBSET Calls
          /\ held' \in [Calls -> Calls \cup {None}]
      BY <1>0, <1>2
      DEF Proceed, CreateSession, StoreLogin, FindUser, Rotate, Deliver, RevokeReplay,
          RevokeBlocked, RevokeLogout, Revoke, RevokeAll, Fail, TypeOK
    <2>4. disturbed' \in SUBSET Calls
      <3>1. pc[c] = "deliver" => sid[c] \in Calls
        BY <1>0 DEF CallsKnowSessions
      <3>2. QED
        BY <1>0, <1>2, <3>1
        DEF Proceed, CreateSession, StoreLogin, FindUser, Rotate, Deliver, RevokeReplay,
            RevokeBlocked, RevokeLogout, Revoke, RevokeAll, Fail, TypeOK
    <2>5. QED
      BY <2>1, <2>2, <2>3, <2>4 DEF TypeOK
  <1>3. CASE UNCHANGED svars \/ \E s \in Calls : SessionEnds(s)
    BY <1>0, <1>3 DEF svars, SessionEnds, TypeOK
  <1>4. QED
    BY <1>1, <1>2, <1>3 DEF SNext

-----------------------------------------------------------------------------
(***************************************************************************)
(* What calls and clients know.                                            *)
(***************************************************************************)
LEMMA BeginFacts ==
  ASSUME TypeOK, NEW c \in Calls, NEW s, NEW t, NEW step, Begin(c, s, t, step)
  PROVE  /\ pc[c] = "start"
         /\ pc'[c] = step /\ sid'[c] = s /\ token'[c] = t
         /\ \A b \in Calls \ {c} : pc'[b] = pc[b] /\ sid'[b] = sid[b] /\ token'[b] = token[b]
  BY DEF TypeOK, Begin, Goto

\* How a call begins, for those that were sent a token and those that were not.
LEMMA ArriveFacts ==
  ASSUME IInv, NEW c \in Calls, Arrive(c)
  PROVE  \E s \in Calls \cup {None}, t \in Calls \cup {None},
            step \in {"createSession", "findUser", "revokeReplay", "revokeLogout",
                     "revokeAll", "done"} :
           /\ Begin(c, s, t, step)
           /\ step = "createSession" => s = c /\ t = None
           /\ step \in {"revokeAll", "done"} => t = None
           /\ step \in {"findUser", "revokeReplay", "revokeLogout"} =>
                /\ t \in known /\ s = sid[t] /\ s \in Calls
                /\ session[s] = "live"
           /\ step \in {"findUser", "revokeReplay"} => Refresh(c, t)
           /\ step \in {"createSession", "revokeLogout", "revokeAll", "done"} =>
                disturbed' = disturbed
           /\ UNCHANGED <<session, hash, over, known, held>>
  <1>0. TypeOK /\ CallsKnowSessions
    BY DEF IInv
  <1>1. CASE Login(c)
    BY <1>1 DEF Login
  <1>2. CASE BlockUser(c)
    BY <1>2 DEF BlockUser
  <1>3. CASE UnblockUser(c)
    BY <1>3 DEF UnblockUser
  <1>4. ASSUME NEW t \in known, Refresh(c, t) \/ Logout(c, t)
        PROVE  \E step \in {"findUser", "revokeReplay", "revokeLogout"} :
                 /\ Begin(c, sid[t], t, step)
                 /\ sid[t] \in Calls /\ t \in Calls
                 /\ session[sid[t]] = "live"
                 /\ step \in {"findUser", "revokeReplay"} => Refresh(c, t)
                 /\ step = "revokeLogout" => disturbed' = disturbed
                 /\ UNCHANGED <<session, hash, over, known, held>>
    <2>1. t \in Calls /\ sid[t] \in Calls
      BY <1>0 DEF TypeOK, CallsKnowSessions
    <2>2. CASE Refresh(c, t)
      BY <2>1, <2>2 DEF Refresh
    <2>3. CASE Logout(c, t)
      BY <2>1, <2>3 DEF Logout
    <2>4. QED
      BY <1>4, <2>2, <2>3
  <1>5. CASE \E t \in known : Refresh(c, t) \/ Logout(c, t)
    <2>1. PICK t \in known : Refresh(c, t) \/ Logout(c, t)
      BY <1>5
    <2>2. PICK step \in {"findUser", "revokeReplay", "revokeLogout"} :
            /\ Begin(c, sid[t], t, step)
            /\ sid[t] \in Calls /\ t \in Calls
            /\ session[sid[t]] = "live"
            /\ step \in {"findUser", "revokeReplay"} => Refresh(c, t)
            /\ step = "revokeLogout" => disturbed' = disturbed
            /\ UNCHANGED <<session, hash, over, known, held>>
      BY <1>4, <2>1
    <2>3. QED
      BY <2>1, <2>2
  <1>6. QED
    BY <1>1, <1>2, <1>3, <1>5 DEF Arrive

\* What an await after the first leaves alone.
LEMMA ProceedFacts ==
  ASSUME TypeOK, NEW c \in Calls, Proceed(c)
  PROVE  /\ pc[c] \notin {"start", "done"}
         /\ pc'[c] # "start"
         /\ \A b \in Calls \ {c} : pc'[b] = pc[b]
         /\ sid' = sid /\ token' = token
  BY DEF Proceed, CreateSession, StoreLogin, FindUser, Rotate, Deliver, RevokeReplay,
         RevokeBlocked, RevokeLogout, Revoke, RevokeAll, Fail, Goto, TypeOK

\* Every step keeps what calls and clients know of sessions.
LEMMA KnowStep ==
  ASSUME IInv, [SNext]_svars
  PROVE  CallsKnowSessions'
  <1>0. TypeOK /\ CallsKnowSessions /\ LoginsPending
    BY DEF IInv
  <1>1. ASSUME NEW c \in Calls, Arrive(c)
        PROVE  CallsKnowSessions'
    <2>1. PICK s \in Calls \cup {None}, t \in Calls \cup {None},
               step \in {"createSession", "findUser", "revokeReplay", "revokeLogout",
                        "revokeAll", "done"} :
            /\ Begin(c, s, t, step)
            /\ step = "createSession" => s = c /\ t = None
            /\ step \in {"revokeAll", "done"} => t = None
            /\ step \in {"findUser", "revokeReplay", "revokeLogout"} =>
                 t \in known /\ s = sid[t] /\ s \in Calls
            /\ UNCHANGED <<known, held>>
      BY <1>1, ArriveFacts
    <2>2. /\ pc[c] = "start"
          /\ pc'[c] = step /\ sid'[c] = s /\ token'[c] = t
          /\ \A b \in Calls \ {c} : pc'[b] = pc[b] /\ sid'[b] = sid[b] /\ token'[b] = token[b]
      BY <1>0, <2>1, BeginFacts
    <2>3. t # None => t \in known /\ s \in Calls /\ held[s] # None
      BY <1>0, <2>1 DEF CallsKnowSessions, TypeOK
    <2>4. t \in known => t \in Calls /\ t # None
      BY <1>0, SessionsAssumption DEF TypeOK
    <2>5. c \notin known
      BY <1>0, <2>2 DEF CallsKnowSessions
    <2>6. QED
      BY <1>0, <2>1, <2>2, <2>3, <2>4, <2>5 DEF CallsKnowSessions
  <1>2. ASSUME NEW c \in Calls, Proceed(c)
        PROVE  CallsKnowSessions'
    <2>1. /\ pc[c] \notin {"start", "done"}
          /\ pc'[c] # "start"
          /\ \A b \in Calls \ {c} : pc'[b] = pc[b]
          /\ sid' = sid /\ token' = token
      BY <1>0, <1>2, ProceedFacts
    <2>2. CASE Deliver(c)
      <3>1. /\ sid[c] \in Calls
            /\ pc'[c] = "done"
            /\ known' = known \cup {c}
            /\ held' = [held EXCEPT ![sid[c]] = c]
            /\ c # None
        BY <1>0, <2>2, SessionsAssumption DEF Deliver, Goto, TypeOK, CallsKnowSessions
      <3>2. held'[sid[c]] = c /\ \A s \in Calls : held[s] # None => held'[s] # None
        BY <1>0, <3>1 DEF TypeOK
      <3>3. QED
        BY <1>0, <2>1, <3>1, <3>2 DEF CallsKnowSessions
    <2>3. CASE ~Deliver(c)
      <3>1. known' = known /\ held' = held
        BY <1>2, <2>3
        DEF Proceed, CreateSession, StoreLogin, FindUser, Rotate, RevokeReplay,
            RevokeBlocked, RevokeLogout, Revoke, RevokeAll, Fail
      <3>2. /\ pc'[c] \in {"createSession", "storeLogin"} =>
                  pc[c] \in {"createSession", "storeLogin"}
            /\ pc'[c] = "deliver" /\ token[c] = None =>
                  pc[c] = "storeLogin"
            /\ pc'[c] \in {"findUser", "rotate", "revokeReplay", "revokeBlocked", "revokeLogout"} =>
                  pc[c] = "findUser"
        BY <1>0, <1>2, <2>3
        DEF Proceed, CreateSession, StoreLogin, FindUser, Rotate, RevokeReplay,
            RevokeBlocked, RevokeLogout, Revoke, RevokeAll, Fail, Goto, TypeOK, CallsKnowSessions
      <3>3. QED
        BY <1>0, <2>1, <3>1, <3>2 DEF CallsKnowSessions
    <2>4. QED
      BY <2>2, <2>3
  <1>3. CASE UNCHANGED svars \/ \E s \in Calls : SessionEnds(s)
    BY <1>0, <1>3 DEF svars, SessionEnds, CallsKnowSessions
  <1>4. QED
    BY <1>1, <1>2, <1>3 DEF SNext

\* A call that was sent a token works on a session that has delivered one, so
\* not on one that is pending.
LEMMA NotPending ==
  ASSUME IInv, NEW c \in Calls, token[c] # None
  PROVE  /\ sid[c] \in Calls
         /\ held[sid[c]] # None
         /\ pc[sid[c]] \notin {"start", "createSession", "storeLogin"}
         /\ ~(pc[sid[c]] = "deliver" /\ token[sid[c]] = None)
  BY DEF IInv, CallsKnowSessions, LoginsPending

\* Every step keeps what is known of sessions whose hash is pending.
LEMMA PendingStep ==
  ASSUME IInv, [SNext]_svars
  PROVE  LoginsPending'
  <1>0. TypeOK /\ CallsKnowSessions /\ LoginsPending
    BY DEF IInv
  <1>1. ASSUME NEW c \in Calls, Arrive(c)
        PROVE  LoginsPending'
    <2>1. PICK s \in Calls \cup {None}, t \in Calls \cup {None},
               step \in {"createSession", "findUser", "revokeReplay", "revokeLogout",
                        "revokeAll", "done"} :
            /\ Begin(c, s, t, step)
            /\ UNCHANGED <<session, hash, held>>
      BY <1>1, ArriveFacts
    <2>2. /\ pc[c] = "start"
          /\ pc'[c] = step
          /\ \A b \in Calls \ {c} : pc'[b] = pc[b] /\ token'[b] = token[b]
      BY <1>0, <2>1, BeginFacts
    <2>3. QED
      BY <1>0, <2>1, <2>2 DEF LoginsPending
  <1>2. ASSUME NEW c \in Calls, Proceed(c)
        PROVE  LoginsPending'
    <2>1. /\ pc[c] \notin {"start", "done"}
          /\ pc'[c] # "start"
          /\ \A b \in Calls \ {c} : pc'[b] = pc[b]
          /\ sid' = sid /\ token' = token
      BY <1>0, <1>2, ProceedFacts
    <2>2. CASE CreateSession(c)
      <3>1. pc'[c] = "storeLogin" /\ session' = [session EXCEPT ![c] = "live"] /\ UNCHANGED <<hash, held>>
        BY <1>0, <2>2 DEF CreateSession, Goto, TypeOK
      <3>2. QED
        BY <1>0, <2>1, <2>2, <3>1 DEF LoginsPending, CreateSession, TypeOK
    <2>3. CASE StoreLogin(c)
      <3>1. pc'[c] = "deliver" /\ hash' = [hash EXCEPT ![c] = c] /\ UNCHANGED <<session, held>>
        BY <1>0, <2>3 DEF StoreLogin, Goto, TypeOK
      <3>2. QED
        BY <1>0, <2>1, <2>3, <3>1 DEF LoginsPending, StoreLogin, TypeOK
    <2>4. CASE Rotate(c)
      <3>1. pc'[c] = "deliver" /\ token[c] # None /\ held' = held
        BY <1>0, <2>4 DEF Rotate, Goto, TypeOK, CallsKnowSessions
      <3>2. \A s \in Calls : s # sid[c] => hash'[s] = hash[s] /\ session'[s] = session[s]
        BY <1>0, <2>4 DEF Rotate, TypeOK
      <3>3. QED
        BY <1>0, <2>1, <3>1, <3>2, NotPending DEF LoginsPending
    <2>5. CASE Deliver(c)
      <3>1. pc'[c] = "done" /\ UNCHANGED <<hash, session>>
        BY <1>0, <2>5 DEF Deliver, Goto, TypeOK
      <3>2. \A s \in Calls : s # sid[c] => held'[s] = held[s]
        BY <1>0, <2>5 DEF Deliver, TypeOK
      <3>3. token[c] = None => sid[c] = c
        BY <1>0, <2>5 DEF Deliver, CallsKnowSessions
      <3>4. QED
        BY <1>0, <2>1, <3>1, <3>2, <3>3, NotPending DEF LoginsPending
    <2>6. CASE RevokeReplay(c) \/ RevokeBlocked(c) \/ RevokeLogout(c)
      <3>1. pc'[c] = "done" /\ token[c] # None /\ UNCHANGED <<hash, held>>
        BY <1>0, <2>6
        DEF RevokeReplay, RevokeBlocked, RevokeLogout, Revoke, Goto, TypeOK, CallsKnowSessions
      <3>2. \A s \in Calls : s # sid[c] => session'[s] = session[s]
        BY <1>0, <2>6 DEF RevokeReplay, RevokeBlocked, RevokeLogout, Revoke, TypeOK
      <3>3. QED
        BY <1>0, <2>1, <3>1, <3>2, NotPending DEF LoginsPending
    <2>7. CASE RevokeAll(c)
      <3>1. pc'[c] = "done" /\ UNCHANGED <<hash, held>>
        BY <1>0, <2>7 DEF RevokeAll, Goto, TypeOK
      <3>2. \A s \in Calls : session[s] = "none" => session'[s] = "none"
        BY <2>7 DEF RevokeAll
      <3>3. QED
        BY <1>0, <2>1, <3>1, <3>2 DEF LoginsPending
    <2>8. CASE FindUser(c) \/ Fail(c)
      <3>1. pc'[c] \in {"rotate", "revokeBlocked", "done"} /\ UNCHANGED <<hash, held, session>>
        BY <1>0, <2>8 DEF FindUser, Fail, Goto, TypeOK
      <3>2. QED
        BY <1>0, <2>1, <3>1 DEF LoginsPending
    <2>9. QED
      BY <1>2, <2>2, <2>3, <2>4, <2>5, <2>6, <2>7, <2>8 DEF Proceed
  <1>3. CASE UNCHANGED svars \/ \E s \in Calls : SessionEnds(s)
    BY <1>0, <1>3 DEF svars, SessionEnds, LoginsPending
  <1>4. QED
    BY <1>1, <1>2, <1>3 DEF SNext

-----------------------------------------------------------------------------
(***************************************************************************)
(* Clients that keep to the protocol.                                      *)
(***************************************************************************)
\* A step that leaves a session, its refreshes and its token alone.
LEMMA KeptAsIs ==
  ASSUME NEW s \in Calls, Undisturbed(s),
         session'[s] = session[s] \/ session'[s] \in {"live", "user_blocked", "logout"},
         hash'[s] = hash[s], held'[s] = held[s],
         Refreshing(s)' = Refreshing(s),
         \A c \in Refreshing(s) : pc'[c] = pc[c]
  PROVE  Undisturbed(s)'
  BY DEF Undisturbed

\* A request that arrives keeps the stored hash in step with the client.
LEMMA KeptArrive ==
  ASSUME IInv, NEW c \in Calls, Arrive(c)
  PROVE  ClientsKept'
  <1>0. TypeOK /\ CallsKnowSessions /\ ClientsKept
    BY DEF IInv
  <1>1. PICK r \in Calls \cup {None}, t \in Calls \cup {None},
             step \in {"createSession", "findUser", "revokeReplay", "revokeLogout",
                      "revokeAll", "done"} :
          /\ Begin(c, r, t, step)
          /\ step \in {"findUser", "revokeReplay"} => Refresh(c, t) /\ t \in known /\ r = sid[t]
          /\ step \in {"createSession", "revokeAll", "done"} => t = None
          /\ step \in {"createSession", "revokeLogout", "revokeAll", "done"} =>
               disturbed' = disturbed
          /\ UNCHANGED <<session, hash, held>>
    BY <1>0, ArriveFacts
  <1>2. /\ pc[c] = "start"
        /\ pc'[c] = step /\ sid'[c] = r /\ token'[c] = t
        /\ \A b \in Calls \ {c} : pc'[b] = pc[b] /\ sid'[b] = sid[b] /\ token'[b] = token[b]
    BY <1>0, <1>1, BeginFacts
  <1>3. \A s \in Calls : c \notin Refreshing(s)
    BY <1>2 DEF Refreshing, RefreshSteps
  <1>4. ASSUME NEW s \in Calls, s # r \/ step \notin {"findUser", "revokeReplay"}
        PROVE  Refreshing(s)' = Refreshing(s)
    BY <1>1, <1>2, <1>3, <1>4 DEF Refreshing, RefreshSteps
  <1>5. CASE step \notin {"findUser", "revokeReplay"}
    <2>1. ASSUME NEW s \in Calls \ disturbed'
          PROVE  Undisturbed(s)'
      <3>1. Undisturbed(s)
        BY <1>0, <1>1, <1>5 DEF ClientsKept
      <3>2. Refreshing(s)' = Refreshing(s) /\ \A b \in Refreshing(s) : pc'[b] = pc[b]
        BY <1>2, <1>3, <1>4, <1>5 DEF Refreshing
      <3>3. QED
        BY <1>1, <3>1, <3>2, KeptAsIs
    <2>2. QED
      BY <2>1 DEF ClientsKept
  <1>6. CASE step \in {"findUser", "revokeReplay"}
    <2>0. /\ r = sid[t] /\ r \in Calls /\ t \in Calls
          /\ step = IF hash[r] = t THEN "findUser" ELSE "revokeReplay"
          /\ disturbed' = IF held[r] = t /\ Refreshing(r) = {}
                          THEN disturbed ELSE disturbed \cup {r}
      <3>1. t \in Calls /\ sid[t] \in Calls /\ r = sid[t] /\ Refresh(c, t)
        BY <1>0, <1>1, <1>6 DEF CallsKnowSessions, TypeOK
      <3>2. Begin(c, sid[t], t, IF hash[sid[t]] = t THEN "findUser" ELSE "revokeReplay")
        BY <3>1 DEF Refresh
      <3>3. pc'[c] = IF hash[sid[t]] = t THEN "findUser" ELSE "revokeReplay"
        BY <1>0, <3>2, BeginFacts
      <3>4. QED
        BY <1>2, <3>1, <3>3 DEF Refresh
    <2>1. ASSUME NEW s \in Calls \ disturbed'
          PROVE  Undisturbed(s)'
      <3>0. Undisturbed(s)
        BY <1>0, <2>0 DEF ClientsKept
      <3>1. CASE s # r
        <4>1. Refreshing(s)' = Refreshing(s) /\ \A b \in Refreshing(s) : pc'[b] = pc[b]
          BY <1>2, <1>3, <1>4, <3>1 DEF Refreshing
        <4>2. QED
          BY <1>1, <3>0, <4>1, KeptAsIs
      <3>2. CASE s = r
        <4>1. held[s] = t /\ Refreshing(s) = {}
          BY <2>0, <3>2
        <4>2. t # None
          BY <2>0, SessionsAssumption
        <4>3. hash[s] = t
          BY <3>0, <4>1, <4>2 DEF Undisturbed
        <4>4. step = "findUser"
          BY <2>0, <3>2, <4>3
        <4>5. Refreshing(s)' = {c}
          BY <1>2, <3>2, <4>1, <4>2, <4>4 DEF Refreshing, RefreshSteps
        <4>6. QED
          BY <1>1, <1>2, <3>0, <4>1, <4>3, <4>4, <4>5 DEF Undisturbed
      <3>3. QED
        BY <3>1, <3>2
    <2>2. QED
      BY <2>1 DEF ClientsKept
  <1>7. QED
    BY <1>5, <1>6

\* So does every later await.
LEMMA KeptProceed ==
  ASSUME IInv, NEW c \in Calls, Proceed(c)
  PROVE  ClientsKept'
  <1> SUFFICES ASSUME NEW s \in Calls \ disturbed'
               PROVE  Undisturbed(s)'
    BY DEF ClientsKept
  <1>0. TypeOK /\ CallsKnowSessions /\ LoginsPending
    BY DEF IInv
  <1>1. /\ pc[c] \notin {"start", "done"}
        /\ \A b \in Calls \ {c} : pc'[b] = pc[b]
        /\ sid' = sid /\ token' = token
    BY <1>0, ProceedFacts
  <1>2. Undisturbed(s)
    <2>1. s \notin disturbed
      BY DEF Proceed, CreateSession, StoreLogin, FindUser, Rotate, Deliver, RevokeReplay,
             RevokeBlocked, RevokeLogout, Revoke, RevokeAll, Fail
    <2>2. QED
      BY <2>1 DEF IInv, ClientsKept
  <1>3. ASSUME c \notin Refreshing(s), token[c] # None => sid[c] # s \/ pc'[c] = "done"
        PROVE  Refreshing(s)' = Refreshing(s) /\ \A b \in Refreshing(s) : pc'[b] = pc[b]
    BY <1>1, <1>3 DEF Refreshing, RefreshSteps
  <1>4. c \in Refreshing(s) => Refreshing(s) = {c}
    BY <1>2 DEF Undisturbed
  <1>5. held[s] = None => Refreshing(s) = {}
    BY NotPending DEF Refreshing
  <1>6. CASE CreateSession(c) \/ RevokeAll(c)
    <2>1. c \notin Refreshing(s) /\ (token[c] # None => pc'[c] = "done")
      BY <1>0, <1>6 DEF CreateSession, RevokeAll, Refreshing, RefreshSteps, Goto, TypeOK, CallsKnowSessions
    <2>2. /\ session'[s] = session[s] \/ session'[s] \in {"live", "user_blocked"}
          /\ UNCHANGED <<hash, held>>
      BY <1>0, <1>6 DEF CreateSession, RevokeAll, TypeOK
    <2>3. QED
      BY <1>2, <1>3, <2>1, <2>2, KeptAsIs
  <1>7. CASE StoreLogin(c)
    <2>1. c \notin Refreshing(s) /\ token[c] = None /\ held[c] = None /\ UNCHANGED <<session, held>>
      BY <1>0, <1>7 DEF StoreLogin, Refreshing, CallsKnowSessions, LoginsPending
    <2>2. Refreshing(s)' = Refreshing(s) /\ \A b \in Refreshing(s) : pc'[b] = pc[b]
      BY <1>3, <2>1
    <2>3. CASE s = c
      <3>1. Refreshing(s) = {}
        BY <1>5, <2>1, <2>3
      <3>2. QED
        BY <1>2, <2>1, <2>2, <2>3, <3>1 DEF Undisturbed
    <2>4. CASE s # c
      <3>1. hash'[s] = hash[s]
        BY <1>0, <1>7, <2>4 DEF StoreLogin, TypeOK
      <3>2. QED
        BY <1>2, <2>1, <2>2, <3>1, KeptAsIs
    <2>5. QED
      BY <2>3, <2>4
  <1>8. CASE FindUser(c)
    <2>1. UNCHANGED <<session, hash, held>> /\ pc'[c] \in {"rotate", "revokeBlocked"}
          /\ pc[c] = "findUser" /\ token[c] # None
      BY <1>0, <1>8 DEF FindUser, Goto, TypeOK, CallsKnowSessions
    <2>2. Refreshing(s)' = Refreshing(s)
      BY <1>1, <2>1 DEF Refreshing, RefreshSteps
    <2>3. \A b \in Refreshing(s) : /\ pc'[b] = "deliver" <=> pc[b] = "deliver"
                                   /\ pc[b] # "revokeReplay" => pc'[b] # "revokeReplay"
      BY <1>1, <2>1 DEF Refreshing
    <2>4. QED
      BY <1>2, <2>1, <2>2, <2>3 DEF Undisturbed
  <1>9. CASE Rotate(c)
    <2>1. pc[c] = "rotate" /\ pc'[c] = "deliver" /\ held' = held /\ token[c] # None
      BY <1>0, <1>9 DEF Rotate, Goto, TypeOK, CallsKnowSessions
    <2>2. CASE sid[c] # s
      <3>1. c \notin Refreshing(s) /\ hash'[s] = hash[s] /\ session'[s] = session[s]
        BY <1>0, <1>9, <2>2 DEF Rotate, TypeOK, Refreshing
      <3>2. QED
        BY <1>2, <1>3, <2>1, <2>2, <3>1, KeptAsIs
    <2>3. CASE sid[c] = s
      <3>1. c \in Refreshing(s)
        BY <2>1, <2>3 DEF Refreshing, RefreshSteps
      <3>2. Refreshing(s)' = {c}
        BY <1>1, <1>4, <2>1, <3>1 DEF Refreshing, RefreshSteps
      <3>3. hash'[s] = c /\ session'[s] = "live"
        BY <1>0, <1>9, <2>3 DEF Rotate, TypeOK
      <3>4. QED
        BY <2>1, <3>2, <3>3 DEF Undisturbed
    <2>4. QED
      BY <2>2, <2>3
  <1>10. CASE Deliver(c)
    <2>1. pc[c] = "deliver" /\ pc'[c] = "done" /\ UNCHANGED <<hash, session>> /\ c # None
      BY <1>0, <1>10, SessionsAssumption DEF Deliver, Goto, TypeOK
    <2>2. CASE sid[c] # s
      <3>1. c \notin Refreshing(s) /\ held'[s] = held[s]
        BY <1>0, <1>10, <2>2 DEF Deliver, TypeOK, Refreshing
      <3>2. QED
        BY <1>2, <1>3, <2>1, <2>2, <3>1, KeptAsIs
    <2>3. CASE sid[c] = s
      <3>1. held'[s] = c
        BY <1>0, <1>10, <2>3 DEF Deliver, TypeOK
      <3>2. Refreshing(s)' = {} /\ hash[s] = c
        <4>1. CASE token[c] = None
          <5>1. s = c /\ held[s] = None /\ hash[s] = c
            BY <1>0, <2>1, <2>3, <4>1 DEF CallsKnowSessions, LoginsPending
          <5>2. Refreshing(s) = {}
            BY <1>5, <5>1
          <5>3. QED
            BY <1>1, <2>1, <4>1, <5>1, <5>2 DEF Refreshing, RefreshSteps
        <4>2. CASE token[c] # None
          <5>1. c \in Refreshing(s)
            BY <2>1, <2>3, <4>2 DEF Refreshing, RefreshSteps
          <5>2. hash[s] = c /\ Refreshing(s) = {c}
            BY <1>2, <1>4, <2>1, <5>1 DEF Undisturbed
          <5>3. QED
            BY <1>1, <2>1, <5>2 DEF Refreshing, RefreshSteps
        <4>3. QED
          BY <4>1, <4>2
      <3>3. QED
        BY <1>2, <2>1, <3>1, <3>2 DEF Undisturbed
    <2>4. QED
      BY <2>2, <2>3
  <1>11. CASE RevokeReplay(c) \/ RevokeBlocked(c) \/ RevokeLogout(c) \/ Fail(c)
    <2>1. pc'[c] = "done" /\ UNCHANGED <<hash, held>>
      BY <1>0, <1>11 DEF RevokeReplay, RevokeBlocked, RevokeLogout, Revoke, Fail, Goto, TypeOK
    <2>2. CASE c \notin Refreshing(s)
      <3>1. session'[s] = session[s] \/ session'[s] \in {"user_blocked", "logout"}
        <4>1. CASE RevokeReplay(c)
          <5>1. sid[c] # s
            BY <1>0, <2>2, <4>1 DEF RevokeReplay, Revoke, Refreshing, RefreshSteps, CallsKnowSessions
          <5>2. QED
            BY <1>0, <4>1, <5>1 DEF RevokeReplay, Revoke, TypeOK
        <4>2. CASE RevokeBlocked(c) \/ RevokeLogout(c) \/ Fail(c)
          BY <1>0, <4>2 DEF RevokeBlocked, RevokeLogout, Revoke, Fail, TypeOK
        <4>3. QED
          BY <1>11, <4>1, <4>2
      <3>2. QED
        BY <1>2, <1>3, <2>1, <2>2, <3>1, KeptAsIs
    <2>3. CASE c \in Refreshing(s)
      <3>1. Refreshing(s)' = {}
        BY <1>1, <1>4, <2>1, <2>3 DEF Refreshing, RefreshSteps
      <3>2. sid[c] = s /\ Refreshing(s) = {c}
        BY <1>4, <2>3 DEF Refreshing
      <3>3. pc[c] # "deliver"
        BY <1>11, <3>2 DEF RevokeReplay, RevokeBlocked, RevokeLogout, Revoke, Fail
      <3>4. held[s] # None => hash[s] = held[s]
        BY <1>2, <3>2, <3>3 DEF Undisturbed
      <3>5. session'[s] # "refresh_replay"
        <4>1. ~RevokeReplay(c)
          BY <1>2, <2>3 DEF Undisturbed, RevokeReplay, Revoke
        <4>2. QED
          BY <1>0, <1>2, <1>11, <4>1
          DEF RevokeBlocked, RevokeLogout, Revoke, Fail, TypeOK, Undisturbed
      <3>6. QED
        BY <2>1, <3>1, <3>4, <3>5 DEF Undisturbed
    <2>4. QED
      BY <2>2, <2>3
  <1>12. QED
    BY <1>6, <1>7, <1>8, <1>9, <1>10, <1>11 DEF Proceed

\* Every step keeps the invariant.
LEMMA InvStep == IInv /\ [SNext]_svars => IInv'
  <1> SUFFICES ASSUME IInv, [SNext]_svars PROVE IInv'
    OBVIOUS
  <1>1. CASE UNCHANGED svars \/ \E s \in Calls : SessionEnds(s)
    <2>1. UNCHANGED <<session, hash, pc, sid, token, held, disturbed>>
      BY <1>1 DEF svars, SessionEnds
    <2>2. ClientsKept'
      BY <2>1 DEF IInv, ClientsKept, Undisturbed, Refreshing
    <2>3. QED
      BY <2>2, TypeStep, KnowStep, PendingStep DEF IInv
  <1>2. ASSUME NEW c \in Calls, Arrive(c) \/ Proceed(c)
        PROVE  ClientsKept'
    BY <1>2, KeptArrive, KeptProceed
  <1>3. QED
    BY <1>1, <1>2, TypeStep, KnowStep, PendingStep DEF IInv, SNext

\* The inductive invariant holds in every reachable state.
THEOREM Invariance == SSpec => []IInv
  BY InvInit, InvStep, PTL DEF SSpec

-----------------------------------------------------------------------------
(***************************************************************************)
(* The theorems.                                                           *)
(***************************************************************************)
\* Every reachable state is well typed.
THEOREM TypeCorrect == SSpec => []TypeOK
  BY Invariance, PTL DEF IInv

\* A client that refreshes one at a time, with the token it was given last,
\* and misses no answer is never revoked as a replay.
THEOREM NoFalseReplays == SSpec => []NoFalseReplay
  <1>1. IInv => NoFalseReplay
    BY DEF IInv, ClientsKept, Undisturbed, NoFalseReplay
  <1>2. QED
    BY <1>1, Invariance, PTL

\* The token such a client holds is the one the session stores.
THEOREM HeldTokensWork == SSpec => []HeldTokenWorks
  <1>1. IInv => HeldTokenWorks
    BY DEF IInv, ClientsKept, Undisturbed, HeldTokenWorks
  <1>2. QED
    BY <1>1, Invariance, PTL

\* A revocation that no refresh races with is final.
THEOREM RevocationsSettle == SSpec => RevocationSettles
  <1> DEFINE Stay == \A s \in Calls : Settled(s) => Settled(s)'
  <1>1. IInv /\ [SNext]_svars => [Stay]_svars
    <2> SUFFICES ASSUME IInv, SNext, NEW s \in Calls, Settled(s)
                 PROVE  Settled(s)'
      OBVIOUS
    <2>0. TypeOK /\ CallsKnowSessions /\ LoginsPending
      BY DEF IInv
    <2>1. session[s] \in Reasons /\ Refreshing(s) = {}
      BY DEF Settled
    <2>2. ASSUME NEW c \in Calls, Arrive(c)
          PROVE  Settled(s)'
      <3>1. PICK r \in Calls \cup {None}, t \in Calls \cup {None},
                 step \in {"createSession", "findUser", "revokeReplay", "revokeLogout",
                          "revokeAll", "done"} :
              /\ Begin(c, r, t, step)
              /\ step \in {"findUser", "revokeReplay"} => session[r] = "live"
              /\ session' = session
        BY <2>2, ArriveFacts
      <3>2. /\ pc'[c] = step /\ sid'[c] = r
            /\ \A b \in Calls \ {c} : pc'[b] = pc[b] /\ sid'[b] = sid[b] /\ token'[b] = token[b]
        BY <2>0, <3>1, BeginFacts
      <3>3. r = s => step \notin {"findUser", "revokeReplay"}
        BY <2>1, <3>1 DEF Reasons
      <3>4. QED
        BY <2>1, <3>1, <3>2, <3>3 DEF Settled, Refreshing, RefreshSteps
    <2>3. ASSUME NEW c \in Calls, Proceed(c)
          PROVE  Settled(s)'
      <3>1. /\ \A b \in Calls \ {c} : pc'[b] = pc[b]
            /\ sid' = sid /\ token' = token
        BY <2>0, <2>3, ProceedFacts
      <3>2. Refreshing(s)' = {}
        <4>1. c \notin Refreshing(s)'
          <5>1. token[c] = None \/ sid[c] # s \/ pc[c] \notin RefreshSteps
            BY <2>1 DEF Refreshing
          <5>2. token[c] # None /\ pc[c] \notin RefreshSteps => pc'[c] = "done"
            BY <2>0, <2>3
            DEF Proceed, CreateSession, StoreLogin, FindUser, Rotate, Deliver, RevokeReplay,
                RevokeBlocked, RevokeLogout, Revoke, RevokeAll, Fail, Goto, TypeOK,
                RefreshSteps, CallsKnowSessions
          <5>3. QED
            BY <3>1, <5>1, <5>2 DEF Refreshing, RefreshSteps
        <4>2. QED
          BY <2>1, <3>1, <4>1 DEF Refreshing
      <3>3. session'[s] \in Reasons
        <4>1. CASE CreateSession(c)
          <5>1. c # s
            BY <2>0, <2>1, <4>1 DEF CreateSession, LoginsPending, Reasons
          <5>2. QED
            BY <2>0, <2>1, <4>1, <5>1 DEF CreateSession, TypeOK
        <4>2. CASE Rotate(c)
          <5>1. sid[c] # s
            BY <2>0, <2>1, <4>2 DEF Rotate, Refreshing, RefreshSteps, CallsKnowSessions
          <5>2. QED
            BY <2>0, <2>1, <4>2, <5>1 DEF Rotate, TypeOK
        <4>3. CASE RevokeReplay(c) \/ RevokeBlocked(c) \/ RevokeLogout(c)
          BY <2>0, <2>1, <4>3
          DEF RevokeReplay, RevokeBlocked, RevokeLogout, Revoke, TypeOK, Reasons
        <4>4. CASE RevokeAll(c)
          BY <2>1, <4>4 DEF RevokeAll, Reasons
        <4>5. CASE StoreLogin(c) \/ FindUser(c) \/ Deliver(c) \/ Fail(c)
          BY <2>1, <4>5 DEF StoreLogin, FindUser, Deliver, Fail
        <4>6. QED
          BY <2>3, <4>1, <4>2, <4>3, <4>4, <4>5 DEF Proceed
      <3>4. QED
        BY <3>2, <3>3 DEF Settled
    <2>4. ASSUME NEW r \in Calls, SessionEnds(r)
          PROVE  Settled(s)'
      BY <2>1, <2>4 DEF SessionEnds, Settled, Refreshing
    <2>5. QED
      BY <2>2, <2>3, <2>4 DEF SNext
  <1>2. QED
    BY <1>1, Invariance, PTL DEF SSpec, RevocationSettles

\* A block that has outlasted the calls before it lets no token out.
THEOREM BlocksShut == SSpec => BlockShuts
  <1> DEFINE Shut == status = "blocked" /\ Trusting = {} =>
                       /\ known' = known
                       /\ status' = "active" \/ Trusting' = {}
  <1>1. IInv /\ [SNext]_svars => [Shut]_svars
    <2> SUFFICES ASSUME IInv, SNext, status = "blocked", Trusting = {}
                 PROVE  known' = known /\ (status' = "active" \/ Trusting' = {})
      OBVIOUS
    <2>0. TypeOK
      BY DEF IInv
    <2>1. ASSUME NEW c \in Calls, Arrive(c)
          PROVE  known' = known /\ (status' = "active" \/ Trusting' = {})
      <3>1. CASE Login(c) \/ UnblockUser(c)
        BY <3>1 DEF Login, UnblockUser
      <3>2. CASE BlockUser(c)
        BY <2>0, <3>2 DEF BlockUser, Begin, Goto, TypeOK, Trusting
      <3>3. ASSUME NEW t \in known, Refresh(c, t) \/ Logout(c, t)
            PROVE  known' = known /\ Trusting' = {}
        BY <2>0, <3>3 DEF Refresh, Logout, Begin, Goto, TypeOK, Trusting
      <3>4. QED
        BY <2>1, <3>1, <3>2, <3>3 DEF Arrive
    <2>2. ASSUME NEW c \in Calls, Proceed(c)
          PROVE  known' = known /\ Trusting' = {}
      <3>1. pc[c] \notin {"createSession", "storeLogin", "rotate", "deliver"}
        BY DEF Trusting
      <3>2. /\ known' = known
            /\ pc'[c] \notin {"createSession", "storeLogin", "rotate", "deliver"}
            /\ \A b \in Calls \ {c} : pc'[b] = pc[b]
        BY <2>0, <2>2, <3>1
        DEF Proceed, CreateSession, StoreLogin, FindUser, Rotate, Deliver, RevokeReplay,
            RevokeBlocked, RevokeLogout, Revoke, RevokeAll, Fail, Goto, TypeOK
      <3>3. QED
        BY <3>2 DEF Trusting
    <2>3. ASSUME NEW r \in Calls, SessionEnds(r)
          PROVE  known' = known /\ Trusting' = {}
      BY <2>3 DEF SessionEnds, Trusting
    <2>4. QED
      BY <2>1, <2>2, <2>3 DEF SNext
  <1>2. QED
    BY <1>1, Invariance, PTL DEF SSpec, BlockShuts

-----------------------------------------------------------------------------
(***************************************************************************)
(* One request at a time.  The run MCBlockRevoked shows a session that a   *)
(* block has revoked come back to life; that takes two requests at a time. *)
(***************************************************************************)
Running == {c \in Calls : pc[c] \notin {"start", "done"}}

OneAtATime == \A b, c \in Running : b = c

\* What a request has read is still so, and only a block that is under way
\* leaves a session of a blocked user live.
ReadsHold ==
  \A c \in Calls :
    /\ pc[c] \in {"findUser", "rotate"} => session[sid[c]] = "live"
    /\ pc[c] = "createSession" => status = "active"

BlockedOut ==
  status = "blocked" =>
    \/ \A s \in Calls : session[s] # "live"
    \/ \E c \in Calls : pc[c] = "revokeAll"

\* Nothing else runs beside a running request.
LEMMA Alone ==
  ASSUME OneAtATime, NEW c \in Calls, pc[c] \notin {"start", "done"}
  PROVE  \A b \in Calls \ {c} : pc[b] \in {"start", "done"}
  BY DEF OneAtATime, Running

\* One request at a time keeps what requests have read.
LEMMA HoldStep ==
  ASSUME IInv, OneAtATime, OneAtATime', ReadsHold, [SNext]_svars
  PROVE  ReadsHold'
  <1>0. TypeOK /\ CallsKnowSessions
    BY DEF IInv
  <1>1. ASSUME NEW c \in Calls, Arrive(c)
        PROVE  ReadsHold'
    <2>1. PICK s \in Calls \cup {None}, t \in Calls \cup {None},
               step \in {"createSession", "findUser", "revokeReplay", "revokeLogout",
                        "revokeAll", "done"} :
            /\ Begin(c, s, t, step)
            /\ step = "findUser" => session[s] = "live"
            /\ session' = session
      BY <1>1, ArriveFacts
    <2>2. /\ pc'[c] = step /\ sid'[c] = s
          /\ \A b \in Calls \ {c} : pc'[b] = pc[b] /\ sid'[b] = sid[b]
      BY <1>0, <2>1, BeginFacts
    <2>3. ASSUME NEW b \in Calls, pc'[b] = "createSession"
          PROVE  status' = "active"
      <3>1. CASE status' = status
        <4>1. pc'[c] = "createSession" => status = "active"
          BY <1>0, <1>1
          DEF Arrive, Login, Refresh, Logout, BlockUser, UnblockUser, Begin, Goto, TypeOK
        <4>2. QED
          BY <2>2, <2>3, <3>1, <4>1 DEF ReadsHold
      <3>2. CASE BlockUser(c)
        <4>1. pc'[c] = "revokeAll"
          BY <1>0, <3>2 DEF BlockUser, Begin, Goto, TypeOK
        <4>2. QED
          BY <2>3, <4>1 DEF OneAtATime, Running
      <3>3. CASE UnblockUser(c)
        BY <3>3 DEF UnblockUser
      <3>4. QED
        BY <1>1, <3>1, <3>2, <3>3 DEF Arrive, Login, Refresh, Logout
    <2>4. QED
      BY <2>1, <2>2, <2>3 DEF ReadsHold
  <1>2. ASSUME NEW c \in Calls, Proceed(c)
        PROVE  ReadsHold'
    <2>1. /\ \A b \in Calls \ {c} : pc[b] \in {"start", "done"} /\ pc'[b] = pc[b]
          /\ sid' = sid
      BY <1>0, <1>2, ProceedFacts, Alone
    <2>2. /\ pc'[c] # "createSession"
          /\ pc'[c] # "findUser"
          /\ pc'[c] = "rotate" => pc[c] = "findUser" /\ session' = session
      BY <1>0, <1>2
      DEF Proceed, CreateSession, StoreLogin, FindUser, Rotate, Deliver, RevokeReplay,
          RevokeBlocked, RevokeLogout, Revoke, RevokeAll, Fail, Goto, TypeOK
    <2>3. QED
      BY <2>1, <2>2 DEF ReadsHold
  <1>3. CASE UNCHANGED svars \/ \E s \in Calls : SessionEnds(s)
    BY <1>3 DEF svars, SessionEnds, ReadsHold
  <1>4. QED
    BY <1>1, <1>2, <1>3 DEF SNext

\* A request that is alone makes a session live only if it creates the row for
\* an active user, or if the row is live already.
LEMMA LiveStep ==
  ASSUME IInv, ReadsHold, SNext, NEW s \in Calls, session[s] # "live", session'[s] = "live"
  PROVE  /\ session[s] = "none"
         /\ \E c \in Calls : pc[c] = "createSession"
         /\ status' = status
  <1>0. TypeOK /\ LoginsPending /\ CallsKnowSessions
    BY DEF IInv
  <1>1. ASSUME NEW c \in Calls, Arrive(c)
        PROVE  session' = session
    BY <1>1, ArriveFacts
  <1>2. ASSUME NEW c \in Calls, Proceed(c)
        PROVE  CreateSession(c)
    <2>1. ~Rotate(c)
      BY <1>0 DEF ReadsHold, Rotate, TypeOK, CallsKnowSessions
    <2>2. ~RevokeAll(c)
      BY <1>0 DEF RevokeAll, TypeOK
    <2>3. ~(RevokeReplay(c) \/ RevokeBlocked(c) \/ RevokeLogout(c))
      BY <1>0 DEF RevokeReplay, RevokeBlocked, RevokeLogout, Revoke, TypeOK
    <2>4. QED
      BY <1>2, <2>1, <2>2, <2>3 DEF Proceed, StoreLogin, FindUser, Deliver, Fail
  <1>3. ~ \E r \in Calls : SessionEnds(r)
    BY DEF SessionEnds
  <1>4. PICK c \in Calls : CreateSession(c)
    BY <1>1, <1>2, <1>3 DEF SNext
  <1>5. QED
    BY <1>0, <1>4 DEF CreateSession, LoginsPending, TypeOK

\* A revoked session stays revoked.
RevocationsFinal ==
  [][\A s \in Calls : session[s] \in Reasons => session'[s] \in Reasons]_svars

\* With one request at a time a revocation is final, so that a session that a
\* block has revoked never comes back: what the documentation says of blocks,
\* and two requests at a time refute, is true of the code without races.
THEOREM SerialRevocationsAreFinal ==
  SSpec /\ []OneAtATime => RevocationsFinal /\ BlockedStaysRevoked
  <1> DEFINE Final == \A s \in Calls : session[s] \in Reasons => session'[s] \in Reasons
             Dead == \A s \in Calls : session[s] = "user_blocked" => session'[s] # "live"
  <1>1. SInit => ReadsHold
    BY DEF SInit, ReadsHold
  <1>2. IInv /\ OneAtATime /\ OneAtATime' /\ ReadsHold /\ [SNext]_svars => ReadsHold'
    BY HoldStep
  <1>3. IInv /\ IInv' /\ ReadsHold /\ [SNext]_svars => [Final]_svars
    <2> SUFFICES ASSUME IInv, IInv', ReadsHold, SNext, NEW s \in Calls, session[s] \in Reasons
                 PROVE  session'[s] \in Reasons
      OBVIOUS
    <2>1. session'[s] \in {"none", "live"} \cup Reasons
      BY DEF IInv, TypeOK
    <2>2. session'[s] # "live"
      BY LiveStep DEF Reasons
    <2>3. session'[s] # "none"
      <3>1. ASSUME NEW c \in Calls, Arrive(c)
            PROVE  session' = session
        BY <3>1, ArriveFacts
      <3>2. ASSUME NEW c \in Calls, Proceed(c)
            PROVE  session'[s] # "none"
        BY <3>2
        DEF Proceed, CreateSession, StoreLogin, FindUser, Rotate, Deliver, RevokeReplay,
            RevokeBlocked, RevokeLogout, Revoke, RevokeAll, Fail, Reasons, IInv, TypeOK
      <3>3. QED
        BY <3>1, <3>2 DEF SNext, SessionEnds, Reasons
    <2>4. QED
      BY <2>1, <2>2, <2>3
  <1>4. IInv /\ ReadsHold /\ [SNext]_svars => [Dead]_svars
    BY LiveStep
  <1>5. QED
    BY <1>1, <1>2, <1>3, <1>4, Invariance, PTL DEF SSpec, RevocationsFinal, BlockedStaysRevoked

\* No block fails between the user and the sessions.
BlocksComplete ==
  [][\A c \in Calls : pc[c] = "revokeAll" /\ pc'[c] = "done" => RevokeAll(c)]_svars

\* With one request at a time, and blocks that run to their end, a blocked user
\* has no live session once the block is through.
THEOREM SerialBlocksRevoke ==
  SSpec /\ []OneAtATime /\ BlocksComplete => []BlockedOut
  <1> DEFINE Completes == \A c \in Calls : pc[c] = "revokeAll" /\ pc'[c] = "done" => RevokeAll(c)
  <1>1. SInit => ReadsHold /\ BlockedOut
    BY DEF SInit, ReadsHold, BlockedOut
  <1>2. IInv /\ OneAtATime /\ OneAtATime' /\ ReadsHold /\ [SNext]_svars => ReadsHold'
    BY HoldStep
  <1>3. IInv /\ ReadsHold /\ BlockedOut /\ [SNext]_svars /\ [Completes]_svars => BlockedOut'
    <2> SUFFICES ASSUME IInv, ReadsHold, BlockedOut, SNext, Completes, status' = "blocked"
                 PROVE  \/ \A s \in Calls : session'[s] # "live"
                        \/ \E c \in Calls : pc'[c] = "revokeAll"
      BY DEF BlockedOut, svars
    <2>0. TypeOK
      BY DEF IInv
    <2>1. CASE status # "blocked"
      <3>1. PICK c \in Calls : BlockUser(c)
        BY <2>1 DEF SNext, Arrive, Login, Refresh, Logout, UnblockUser, Proceed, CreateSession,
                    StoreLogin, FindUser, Rotate, Deliver, RevokeReplay, RevokeBlocked,
                    RevokeLogout, Revoke, RevokeAll, Fail, SessionEnds
      <3>2. pc'[c] = "revokeAll"
        BY <2>0, <3>1 DEF BlockUser, Begin, Goto, TypeOK
      <3>3. QED
        BY <3>2
    <2>2. CASE status = "blocked" /\ \A s \in Calls : session[s] # "live"
      <3>1. ~ \E c \in Calls : pc[c] = "createSession"
        BY <2>2 DEF ReadsHold
      <3>2. QED
        BY <2>2, <3>1, LiveStep
    <2>3. ASSUME status = "blocked", NEW c \in Calls, pc[c] = "revokeAll"
          PROVE  pc'[c] = "revokeAll" \/ \A s \in Calls : session'[s] # "live"
      <3>1. pc'[c] \in {"revokeAll", "done"}
        <4>1. ASSUME NEW b \in Calls, Arrive(b)
              PROVE  pc'[c] = pc[c]
          BY <2>0, <2>3, <4>1
          DEF Arrive, Login, Refresh, Logout, BlockUser, UnblockUser, Begin, Goto, TypeOK
        <4>2. ASSUME NEW b \in Calls, Proceed(b)
              PROVE  pc'[c] \in {"revokeAll", "done"}
          BY <2>0, <2>3, <4>2
          DEF Proceed, CreateSession, StoreLogin, FindUser, Rotate, Deliver, RevokeReplay,
              RevokeBlocked, RevokeLogout, Revoke, RevokeAll, Fail, Goto, TypeOK
        <4>3. QED
          BY <2>3, <4>1, <4>2 DEF SNext, SessionEnds
      <3>2. RevokeAll(c) => \A s \in Calls : session'[s] # "live"
        BY <2>0 DEF RevokeAll, TypeOK
      <3>3. QED
        BY <2>3, <3>1, <3>2
    <2>4. QED
      BY <2>1, <2>2, <2>3 DEF BlockedOut
  <1>4. QED
    BY <1>1, <1>2, <1>3, Invariance, PTL DEF SSpec, BlocksComplete

=============================================================================
