-------------------------- MODULE OfflineClientProofs --------------------------
(***************************************************************************)
(* Proofs about OfflineClient, for any number of processes, any window and *)
(* any bounds.                                                             *)
(***************************************************************************)
EXTENDS OfflineClient, TLAPS

\* A session saved in this era measures the time since its answer.
Anchored(r) ==
  /\ r.era <= era
  /\ r.era = era => /\ r.anchorMono <= uptime
                    /\ r.anchorServer + r.lag + uptime = time + r.anchorMono

ClocksAgree ==
  /\ era = 0 => uptime = time
  /\ Anchored(store)
  /\ \A p \in Procs : Anchored(loaded[p]) /\ answer[p].serverTime <= time

\* The steps at which a call has loaded a session and asked nothing yet.
Asking == {"refresh", "check", "logout"}

\* What a call at each step holds.
CallsHold ==
  \A p \in Procs :
    /\ pc[p] \in Asking \cup {"clear"} => loaded[p].sid # 0 /\ answer[p] = NoAnswer
    /\ pc[p] = "save" => /\ answer[p].sid # 0
                         /\ loaded[p].sid \in {0, answer[p].sid}

\* Sessions have been signed before they are stored, loaded or cleared.
SessionsSigned ==
  /\ store.sid <= issued
  /\ \A p \in Procs : loaded[p].sid <= issued /\ answer[p].sid <= issued
  /\ \A s \in cleared : s # 0 /\ s <= issued

Works(p, s) == loaded[p].sid = s \/ answer[p].sid = s

\* One call at a time works on a session that is not marked as overlapped, and
\* what a login returns is not stored before it is saved.
Exclusive(s) ==
  /\ \A p, q \in Procs : Works(p, s) /\ Works(q, s) => p = q
  /\ \A p \in Procs : answer[p].sid = s /\ loaded[p].sid # s => store.sid # s

CallsApart == \A s \in Tokens \ overlapped : s # 0 => Exclusive(s)

Current(s, token) == state[s] = "live" /\ hash[s] = token

\* Wherever the current token of a session can be, it is.
Followed(s) ==
  /\ \A p \in Procs :
       /\ answer[p].sid = s => Current(s, answer[p].token)
       /\ loaded[p].sid = s /\ pc[p] \in Asking => Current(s, loaded[p].token)
  /\ store.sid = s /\ (\A p \in Procs : loaded[p].sid = s => pc[p] \in Asking)
       => Current(s, store.token)

TokensFollowed ==
  \A s \in Tokens \ (disturbed \cup overlapped) : s # 0 => Followed(s)

\* A session that has been cleared is not the one an answer is about.
ClearedUnanswered ==
  \A s \in cleared \ overlapped : \A p \in Procs : answer[p].sid # s

IInv ==
  /\ TypeOK
  /\ ClocksAgree
  /\ CallsHold
  /\ SessionsSigned
  /\ CallsApart
  /\ TokensFollowed
  /\ NoSelfReplay
  /\ LogoutForgets
  /\ ClearedUnanswered

-----------------------------------------------------------------------------
\* The invariant holds at the start.
LEMMA InvInit == OInit => IInv
  <1> SUFFICES ASSUME OInit
               PROVE  IInv
    OBVIOUS
  <1>1. /\ 0 \in Tokens
        /\ NoSession \in StoredSessions /\ NoAnswer \in Answers
        /\ NoSession.sid = 0 /\ NoAnswer.sid = 0
    BY OfflineAssumption
    DEF NoSession, StoredSessions, NoAnswer, Answers, Tokens
  <1>2. TypeOK
    <2>1. time \in Nat /\ wall \in Nat /\ uptime \in Nat /\ era \in Nat /\ issued \in Tokens
      BY <1>1, OfflineAssumption DEF OInit
    <2>2. /\ state \in [Tokens -> {"none", "live", "logout", "refresh_replay"}]
          /\ hash \in [Tokens -> Tokens]
          /\ disturbed \in SUBSET Tokens /\ overlapped \in SUBSET Tokens
          /\ cleared \in SUBSET Tokens
      BY <1>1 DEF OInit
    <2>3. /\ store \in StoredSessions /\ torn \in BOOLEAN
          /\ pc \in [Procs -> Steps]
          /\ loaded \in [Procs -> StoredSessions]
          /\ answer \in [Procs -> Answers]
          /\ \A p \in Procs : loaded[p] = NoSession /\ answer[p] = NoAnswer
      BY <1>1 DEF OInit, Steps
    <2>4. QED
      BY <2>1, <2>2, <2>3 DEF TypeOK
  <1>3. ClocksAgree
    <2>1. store = NoSession /\ \A p \in Procs : loaded[p] = NoSession /\ answer[p] = NoAnswer
      BY DEF OInit
    <2>2. time = 0 /\ uptime = 0 /\ era = 0
      BY DEF OInit
    <2>3. Anchored(NoSession)
      BY <2>2 DEF Anchored, NoSession
    <2>4. NoAnswer.serverTime <= time
      BY <2>2 DEF NoAnswer
    <2>5. QED
      BY <2>1, <2>2, <2>3, <2>4 DEF ClocksAgree
  <1>4. CallsHold /\ SessionsSigned
    BY <1>1 DEF OInit, CallsHold, SessionsSigned, Asking
  <1>5. CallsApart
    BY <1>1 DEF OInit, CallsApart, Exclusive, Works
  <1>6. TokensFollowed
    BY <1>1 DEF OInit, TokensFollowed, Followed
  <1>7. NoSelfReplay /\ LogoutForgets /\ ClearedUnanswered
    BY DEF OInit, NoSelfReplay, LogoutForgets, ClearedUnanswered
  <1>8. QED
    BY <1>2, <1>3, <1>4, <1>5, <1>6, <1>7 DEF IInv

\* What a call that ends leaves.
LEMMA ReturnFacts ==
  ASSUME TypeOK, NEW p \in Procs, Return(p)
  PROVE  /\ pc' \in [Procs -> Steps]
         /\ loaded' \in [Procs -> StoredSessions]
         /\ answer' \in [Procs -> Answers]
         /\ pc'[p] = "idle" /\ loaded'[p] = NoSession /\ answer'[p] = NoAnswer
         /\ \A q \in Procs \ {p} :
              pc'[q] = pc[q] /\ loaded'[q] = loaded[q] /\ answer'[q] = answer[q]
  <1>1. NoSession \in StoredSessions /\ NoAnswer \in Answers /\ "idle" \in Steps
    BY OfflineAssumption
    DEF NoSession, StoredSessions, NoAnswer, Answers, Steps, Tokens
  <1>2. QED
    BY <1>1 DEF TypeOK, Return

\* What a call that loads the session does.
LEMMA LoadFacts ==
  ASSUME IInv, NEW p \in Procs, NEW step \in Asking, Load(p, step)
  PROVE  /\ pc' \in [Procs -> Steps]
         /\ loaded' \in [Procs -> StoredSessions]
         /\ pc'[p] = step /\ loaded'[p] = store /\ answer'[p] = NoAnswer
         /\ loaded[p] = NoSession
         /\ \A q \in Procs \ {p} : pc'[q] = pc[q] /\ loaded'[q] = loaded[q]
         /\ overlapped \subseteq overlapped'
         /\ overlapped' \in SUBSET Tokens
         /\ store.sid # 0
         /\ store.sid \notin overlapped' => \A q \in Procs : loaded[q].sid # store.sid
         /\ UNCHANGED <<clocks, store, torn, server, answer, disturbed, cleared>>
  <1>1. TypeOK
    BY DEF IInv
  <1>2. store \in StoredSessions /\ store.sid \in Tokens
    BY <1>1 DEF TypeOK, StoredSessions
  <1>3. step \in Steps
    BY DEF Asking, Steps
  <1>4. pc[p] = "idle" /\ loaded[p] = NoSession /\ answer[p] = NoAnswer
    BY <1>1 DEF Load, TypeOK
  <1>5. /\ pc' = [pc EXCEPT ![p] = step]
        /\ loaded' = [loaded EXCEPT ![p] = store]
        /\ UNCHANGED <<clocks, store, torn, server, answer, disturbed, cleared>>
        /\ store.sid # 0
    BY DEF Load, Goto
  <1>6. /\ overlapped \subseteq overlapped'
        /\ overlapped' \in SUBSET Tokens
        /\ store.sid \notin overlapped' => \A q \in Procs : loaded[q].sid # store.sid
    BY <1>1, <1>2 DEF Load, UsersOf, TypeOK
  <1>7. answer'[p] = NoAnswer
    BY <1>4, <1>5
  <1>8. QED
    BY <1>1, <1>2, <1>3, <1>4, <1>5, <1>6, <1>7 DEF TypeOK

\* How the server's signature reaches the client or is lost.
LEMMA SignFacts ==
  ASSUME TypeOK, NEW p \in Procs, NEW s \in Tokens, Sign(p, s)
  PROVE  /\ issued' = issued + 1 /\ issued' \in Tokens
         /\ hash' \in [Tokens -> Tokens]
         /\ hash'[s] = issued + 1
         /\ \A t \in Tokens \ {s} : hash'[t] = hash[t]
         /\ disturbed \subseteq disturbed' /\ disturbed' \in SUBSET Tokens
         /\ pc' \in [Procs -> Steps]
         /\ loaded' \in [Procs -> StoredSessions]
         /\ answer' \in [Procs -> Answers]
         /\ \A q \in Procs \ {p} :
              pc'[q] = pc[q] /\ loaded'[q] = loaded[q] /\ answer'[q] = answer[q]
         /\ \/ /\ answer'[p] = [sid |-> s, token |-> issued + 1, serverTime |-> time]
               /\ pc'[p] = "save"
               /\ loaded'[p] = loaded[p]
            \/ /\ Return(p)
               /\ s \in disturbed'
  <1>1. issued \in Nat /\ issued + 1 \in Tokens /\ time \in Nat
    BY OfflineAssumption DEF Sign, TypeOK, Tokens
  <1>2. /\ issued' = issued + 1
        /\ hash' = [hash EXCEPT ![s] = issued + 1]
    BY DEF Sign
  <1>3. CASE /\ answer' = [answer EXCEPT ![p] = [sid |-> s, token |-> issued + 1,
                                                serverTime |-> time]]
             /\ Goto(p, "save")
             /\ UNCHANGED <<loaded, disturbed>>
    <2>1. [sid |-> s, token |-> issued + 1, serverTime |-> time] \in Answers
      BY <1>1 DEF Answers
    <2>2. QED
      BY <1>1, <1>2, <1>3, <2>1 DEF TypeOK, Goto, Steps
  <1>4. CASE Return(p) /\ disturbed' = disturbed \cup {s}
    BY <1>1, <1>2, <1>4, ReturnFacts DEF TypeOK
  <1>5. QED
    BY <1>3, <1>4 DEF Sign

-----------------------------------------------------------------------------
\* Type correctness.
LEMMA TypeStep ==
  ASSUME IInv, [ONext]_ovars
  PROVE  TypeOK'
  <1>0. TypeOK
    BY DEF IInv
  <1>1. ASSUME NEW p \in Procs, Call(p)
        PROVE  TypeOK'
    <2>1. ASSUME NEW step \in Asking, Load(p, step)
          PROVE  TypeOK'
      <3>1. step # "idle"
        BY DEF Asking
      <3>2. QED
        BY <1>0, <2>1, <3>1, LoadFacts DEF TypeOK, clocks, server
    <2>2. ASSUME NEW s \in Tokens, Sign(p, s),
                 state' \in [Tokens -> {"none", "live", "logout", "refresh_replay"}],
                 UNCHANGED <<clocks, store, torn, overlapped, cleared>>
          PROVE  TypeOK'
      <3>1. Return(p) => pc'[p] = "idle" /\ loaded'[p] = NoSession /\ answer'[p] = NoAnswer
        BY <1>0, ReturnFacts
      <3>2. /\ issued' \in Tokens /\ hash' \in [Tokens -> Tokens]
            /\ disturbed' \in SUBSET Tokens /\ pc' \in [Procs -> Steps]
            /\ loaded' \in [Procs -> StoredSessions] /\ answer' \in [Procs -> Answers]
        BY <1>0, <2>2, SignFacts
      <3>3. \A q \in Procs :
              pc'[q] = "idle" => loaded'[q] = NoSession /\ answer'[q] = NoAnswer
        <4>1. \A q \in Procs \ {p} :
                pc'[q] = pc[q] /\ loaded'[q] = loaded[q] /\ answer'[q] = answer[q]
          BY <1>0, <2>2, SignFacts
        <4>2. pc'[p] = "save" \/ Return(p)
          BY <1>0, <2>2, SignFacts
        <4>3. \A q \in Procs :
                pc[q] = "idle" => loaded[q] = NoSession /\ answer[q] = NoAnswer
          BY <1>0 DEF TypeOK
        <4>4. QED
          BY <3>1, <4>1, <4>2, <4>3
      <3>4. UNCHANGED <<time, wall, uptime, era>>
        BY <2>2 DEF clocks
      <3>5. QED
        BY <1>0, <2>2, <3>2, <3>3, <3>4 DEF TypeOK
    <2>3. CASE ServerLogin(p)
      <3>1. issued + 1 \in Tokens
        BY <1>0, <2>3, OfflineAssumption DEF ServerLogin, Sign, TypeOK, Tokens
      <3>2. QED
        BY <1>0, <2>2, <2>3, <3>1 DEF ServerLogin, TypeOK
    <2>4. loaded[p].sid \in Tokens /\ answer[p].sid \in Tokens
      BY <1>0 DEF TypeOK, StoredSessions, Answers
    <2>5. CASE ServerRotates(p)
      BY <1>0, <2>2, <2>4, <2>5 DEF ServerRotates, TypeOK
    <2>6. CASE ServerSeesReplay(p)
      BY <1>0, <2>4, <2>6, ReturnFacts DEF ServerSeesReplay, TypeOK, clocks
    <2>7. CASE ServerLogout(p)
      <3>1. state' \in [Tokens -> {"none", "live", "logout", "refresh_replay"}]
        BY <1>0, <2>4, <2>7 DEF ServerLogout, TypeOK
      <3>2. CASE Goto(p, "clear") /\ UNCHANGED <<loaded, answer, disturbed>>
        BY <1>0, <2>7, <3>1, <3>2 DEF ServerLogout, Goto, TypeOK, Steps, clocks
      <3>3. CASE Return(p) /\ disturbed' = disturbed \cup {loaded[p].sid}
        BY <1>0, <2>4, <2>7, <3>1, <3>3, ReturnFacts DEF ServerLogout, TypeOK, clocks
      <3>4. QED
        BY <2>7, <3>2, <3>3 DEF ServerLogout
    <2>8. CASE SaveSession(p)
      <3>1. time - answer[p].serverTime \in Nat
        BY <1>0 DEF IInv, ClocksAgree, TypeOK, Answers
      <3>2. store' \in StoredSessions
        BY <1>0, <2>8, <3>1 DEF SaveSession, TypeOK, StoredSessions, Answers
      <3>3. QED
        BY <1>0, <2>8, <3>2, ReturnFacts DEF SaveSession, TypeOK, clocks, server
    <2>9. CASE Clear(p)
      <3>1. store' \in StoredSessions
        BY <2>9, OfflineAssumption DEF Clear, StoredSessions, NoSession, Tokens
      <3>2. QED
        BY <1>0, <2>4, <2>9, <3>1, ReturnFacts DEF Clear, TypeOK, clocks, server
    <2>10. CASE SaveBack(p)
      <3>1. store' \in StoredSessions
        BY <1>0, <2>10 DEF SaveBack, TypeOK, StoredSessions
      <3>2. /\ Return(p) /\ torn' = FALSE
            /\ UNCHANGED <<clocks, server, disturbed, overlapped, cleared>>
        BY <2>10 DEF SaveBack
      <3>3. QED
        BY <1>0, <3>1, <3>2, ReturnFacts DEF TypeOK, clocks, server
    <2>11. CASE Fail(p)
      <3>1. store' \in StoredSessions /\ torn' \in BOOLEAN
        <4>1. NoSession \in StoredSessions
          BY OfflineAssumption DEF StoredSessions, NoSession, Tokens
        <4>2. UNCHANGED <<store, torn>> \/ (store' = NoSession /\ torn' = TRUE)
          BY <2>11 DEF Fail
        <4>3. QED
          BY <1>0, <4>1, <4>2 DEF TypeOK
      <3>2. disturbed' \in SUBSET Tokens
        BY <1>0, <2>4, <2>11 DEF Fail, TypeOK, Loses
      <3>3. Return(p) /\ UNCHANGED <<clocks, server, overlapped, cleared>>
        BY <2>11 DEF Fail
      <3>4. QED
        <4>1. /\ pc' \in [Procs -> Steps]
              /\ loaded' \in [Procs -> StoredSessions]
              /\ answer' \in [Procs -> Answers]
              /\ \A q \in Procs :
                   pc'[q] = "idle" => loaded'[q] = NoSession /\ answer'[q] = NoAnswer
          BY <1>0, <3>3, ReturnFacts DEF TypeOK
        <4>2. QED
          BY <1>0, <3>1, <3>2, <3>3, <4>1 DEF TypeOK, clocks, server
    <2>12. QED
      BY <1>1, <2>1, <2>3, <2>5, <2>6, <2>7, <2>8, <2>9, <2>10, <2>11
      DEF Call, StartRefresh, StartLogout, StartCheck, Asking
  <1>2. CASE Tick \/ Sleep
    BY <1>0, <1>2 DEF Tick, Sleep, TypeOK, server
  <1>3. CASE SetWall
    BY <1>0, <1>3, OfflineAssumption DEF SetWall, TypeOK, server
  <1>4. CASE Boot
    <2>1. /\ NoSession \in StoredSessions /\ NoAnswer \in Answers
          /\ "idle" \in Steps
      BY OfflineAssumption
      DEF NoSession, StoredSessions, NoAnswer, Answers, Tokens, Steps
    <2>2. disturbed' \in SUBSET Tokens
      BY <1>0, <1>4 DEF Boot, TypeOK, Loses, StoredSessions, Answers
    <2>3. QED
      BY <1>0, <1>4, <2>1, <2>2 DEF Boot, TypeOK, server
  <1>5. CASE UNCHANGED ovars
    BY <1>0, <1>5 DEF ovars, clocks, server, TypeOK
  <1>6. QED
    BY <1>1, <1>2, <1>3, <1>4, <1>5 DEF ONext

-----------------------------------------------------------------------------
(***************************************************************************)
(* What a step does, in the terms of the invariant.                        *)
(***************************************************************************)
\* A call moves no clock.
LEMMA CallsKeepClocks ==
  ASSUME NEW p \in Procs, Call(p)
  PROVE  UNCHANGED clocks
  BY DEF Call, StartRefresh, StartLogout, StartCheck, Load, ServerLogin, ServerRotates,
         ServerSeesReplay, ServerLogout, SaveSession, Clear, SaveBack, Fail

\* Whatever a call loads, receives and stores was stored or answered before, is
\* nothing, or is the answer it saves.
LEMMA CallSources ==
  ASSUME IInv, NEW p \in Procs, Call(p)
  PROVE  /\ \/ store' \in {store, NoSession} \/ SaveSession(p) \/ SaveBack(p)
         /\ \A q \in Procs :
              /\ loaded'[q] \in {loaded[q], store, NoSession}
              /\ \/ answer'[q] \in {answer[q], NoAnswer}
                 \/ answer'[q].serverTime = time
  <1>0. TypeOK
    BY DEF IInv
  <1>1. ASSUME NEW step \in Asking, Load(p, step)
        PROVE  /\ store' = store
               /\ \A q \in Procs : loaded'[q] \in {loaded[q], store} /\ answer'[q] = answer[q]
    BY <1>1, LoadFacts
  <1>2. ASSUME NEW s \in Tokens, Sign(p, s)
        PROVE  \A q \in Procs :
                 /\ loaded'[q] \in {loaded[q], NoSession}
                 /\ answer'[q] \in {answer[q], NoAnswer} \/ answer'[q].serverTime = time
    <2>1. \A q \in Procs \ {p} : loaded'[q] = loaded[q] /\ answer'[q] = answer[q]
      BY <1>0, <1>2, SignFacts
    <2>2. CASE Return(p)
      BY <1>0, <2>1, <2>2, ReturnFacts
    <2>3. CASE /\ answer'[p] = [sid |-> s, token |-> issued + 1, serverTime |-> time]
               /\ loaded'[p] = loaded[p]
      BY <2>1, <2>3
    <2>4. QED
      BY <1>0, <1>2, <2>2, <2>3, SignFacts
  <1>3. issued + 1 \in Tokens \/ ~ServerLogin(p)
    BY <1>0, OfflineAssumption DEF ServerLogin, Sign, TypeOK, Tokens
  <1>4. loaded[p].sid \in Tokens
    BY <1>0 DEF TypeOK, StoredSessions
  <1>5. CASE ServerLogin(p) \/ ServerRotates(p)
    BY <1>2, <1>3, <1>4, <1>5 DEF ServerLogin, ServerRotates
  <1>6. ASSUME Return(p)
        PROVE  \A q \in Procs :
                 loaded'[q] \in {loaded[q], NoSession} /\ answer'[q] \in {answer[q], NoAnswer}
    BY <1>0, <1>6, ReturnFacts
  <1>7. CASE ServerSeesReplay(p) \/ SaveSession(p) \/ Clear(p) \/ SaveBack(p) \/ Fail(p)
    BY <1>6, <1>7 DEF ServerSeesReplay, SaveSession, Clear, SaveBack, Fail
  <1>8. CASE ServerLogout(p)
    BY <1>6, <1>8 DEF ServerLogout
  <1>9. QED
    BY <1>1, <1>5, <1>7, <1>8 DEF Call, StartRefresh, StartLogout, StartCheck, Asking

-----------------------------------------------------------------------------
(***************************************************************************)
(* The clocks.                                                             *)
(***************************************************************************)
LEMMA ClocksStep ==
  ASSUME IInv, [ONext]_ovars
  PROVE  ClocksAgree'
  <1>0. TypeOK /\ ClocksAgree
    BY DEF IInv
  <1>1. /\ time \in Nat /\ uptime \in Nat /\ era \in Nat
        /\ store \in StoredSessions
        /\ \A p \in Procs : loaded[p] \in StoredSessions /\ answer[p] \in Answers
    BY <1>0 DEF TypeOK
  <1>2. NoSession.era = 0 /\ NoSession.anchorMono = 0 /\ NoSession.anchorServer = 0
          /\ NoSession.lag = 0 /\ NoAnswer.serverTime = 0
    BY DEF NoSession, NoAnswer
  <1>3. Anchored(NoSession)
    BY <1>0, <1>1, <1>2 DEF Anchored, ClocksAgree
  <1>4. ASSUME NEW p \in Procs, Call(p)
        PROVE  ClocksAgree'
    <2>1. time' = time /\ uptime' = uptime /\ era' = era /\ wall' = wall
      BY <1>4, CallsKeepClocks DEF clocks
    <2>2. \A q \in Procs : Anchored(loaded'[q]) /\ answer'[q].serverTime <= time
      BY <1>0, <1>1, <1>2, <1>3, <1>4, CallSources DEF ClocksAgree
    <2>3. Anchored(store')
      <3>1. CASE store' \in {store, NoSession}
        BY <1>0, <1>3, <3>1 DEF ClocksAgree
      <3>2. CASE SaveSession(p)
        <4>1. /\ store'.anchorServer = answer[p].serverTime
              /\ store'.anchorMono = uptime /\ store'.era = era
              /\ store'.lag = time - answer[p].serverTime
          BY <3>2 DEF SaveSession
        <4>2. answer[p].serverTime \in Nat
          BY <1>1 DEF Answers
        <4>3. QED
          BY <1>1, <4>1, <4>2 DEF Anchored
      <3>3. CASE SaveBack(p)
        <4>1. /\ store'.anchorServer = loaded[p].anchorServer
              /\ store'.anchorMono = loaded[p].anchorMono
              /\ store'.era = loaded[p].era /\ store'.lag = loaded[p].lag
          BY <1>1, <3>3 DEF SaveBack, StoredSessions
        <4>2. Anchored(loaded[p])
          BY <1>0 DEF ClocksAgree
        <4>3. QED
          BY <4>1, <4>2 DEF Anchored
      <3>4. QED
        BY <1>4, <3>1, <3>2, <3>3, CallSources
    <2>4. QED
      BY <1>0, <2>1, <2>2, <2>3 DEF ClocksAgree, Anchored
  <1>5. ASSUME NEW r \in StoredSessions, Anchored(r),
               \/ time' = time + 1 /\ uptime' = uptime + 1 /\ era' = era
               \/ era' = era + 1
               \/ time' = time /\ uptime' = uptime /\ era' = era
        PROVE  Anchored(r)'
    BY <1>1, <1>5 DEF Anchored, StoredSessions
  <1>6. ASSUME NEW n \in Nat, n <= time, time' \in {time, time + 1}
        PROVE  n <= time'
    BY <1>1, <1>6
  <1>7. \A p \in Procs : answer[p].serverTime \in Nat
    BY <1>1 DEF Answers
  <1>8. CASE Tick
    <2>1. /\ time' = time + 1 /\ uptime' = uptime + 1 /\ era' = era
          /\ store' = store /\ loaded' = loaded /\ answer' = answer
      BY <1>8 DEF Tick
    <2>2. Anchored(store)' /\ \A p \in Procs : Anchored(loaded[p])'
      BY <1>0, <1>1, <1>5, <2>1 DEF ClocksAgree, Anchored
    <2>3. QED
      BY <1>0, <1>1, <1>7, <2>1, <2>2 DEF ClocksAgree
  <1>9. CASE Sleep \/ Boot
    <2>1. /\ era' = era + 1 /\ time' = time + 1
          /\ store' = store
          /\ \A p \in Procs : /\ loaded'[p] \in {loaded[p], NoSession}
                              /\ answer'[p] \in {answer[p], NoAnswer}
      BY <1>9 DEF Sleep, Boot
    <2>2. \A r \in StoredSessions : Anchored(r) => r.era < era'
      BY <1>1, <2>1 DEF Anchored, StoredSessions
    <2>3. store'.era < era' /\ \A p \in Procs : loaded'[p].era < era'
      BY <1>0, <1>1, <1>2, <2>1, <2>2 DEF ClocksAgree
    <2>4. era' # 0
      BY <1>1, <2>1
    <2>5. \A p \in Procs : answer'[p].serverTime <= time'
      BY <1>0, <1>1, <1>2, <1>7, <2>1 DEF ClocksAgree
    <2>6. store'.era \in Nat /\ \A p \in Procs : loaded'[p].era \in Nat
      BY <1>1, <1>2, <2>1 DEF StoredSessions
    <2>7. QED
      BY <1>1, <2>1, <2>3, <2>4, <2>5, <2>6 DEF ClocksAgree, Anchored
  <1>10. CASE SetWall \/ UNCHANGED ovars
    BY <1>0, <1>10 DEF SetWall, ovars, clocks, ClocksAgree, Anchored
  <1>11. QED
    BY <1>4, <1>8, <1>9, <1>10 DEF ONext

-----------------------------------------------------------------------------
(***************************************************************************)
(* Sessions and their tokens.                                              *)
(***************************************************************************)
Sound == CallsHold /\ SessionsSigned /\ CallsApart /\ TokensFollowed
           /\ NoSelfReplay /\ LogoutForgets /\ ClearedUnanswered

\* The facts about types that the steps below use.
LEMMA Typed ==
  ASSUME TypeOK
  PROVE  /\ issued \in Nat /\ store.sid \in Tokens
         /\ \A p \in Procs : loaded[p].sid \in Tokens /\ answer[p].sid \in Tokens
         /\ \A p \in Procs :
              pc[p] = "idle" => loaded[p].sid = 0 /\ answer[p].sid = 0
         /\ Tokens \subseteq Nat
  <1>1. Tokens \subseteq Nat /\ issued \in Tokens
    BY OfflineAssumption DEF TypeOK, Tokens
  <1>2. /\ store.sid \in Tokens
        /\ \A p \in Procs : loaded[p].sid \in Tokens /\ answer[p].sid \in Tokens
    BY DEF TypeOK, StoredSessions, Answers
  <1>3. \A p \in Procs : pc[p] = "idle" => loaded[p].sid = 0 /\ answer[p].sid = 0
    BY DEF TypeOK, NoSession, NoAnswer
  <1>4. QED
    BY <1>1, <1>2, <1>3

LEMMA LoadSound ==
  ASSUME IInv, NEW p \in Procs, NEW step \in Asking, Load(p, step)
  PROVE  Sound'
  <1>0. TypeOK /\ Sound
    BY DEF IInv, Sound
  <1>1. /\ pc'[p] = step /\ loaded'[p] = store
        /\ pc[p] = "idle" /\ loaded[p].sid = 0 /\ answer[p].sid = 0
        /\ \A q \in Procs \ {p} : pc'[q] = pc[q] /\ loaded'[q] = loaded[q]
        /\ overlapped \subseteq overlapped'
        /\ store.sid # 0
        /\ store.sid \notin overlapped' => \A q \in Procs : loaded[q].sid # store.sid
        /\ answer' = answer /\ answer[p] = NoAnswer
    BY <1>0, LoadFacts, Typed DEF Load
  <1>2. /\ store' = store /\ issued' = issued /\ state' = state /\ hash' = hash
        /\ disturbed' = disturbed /\ cleared' = cleared
    BY LoadFacts DEF server
  <1>3. CallsHold'
    BY <1>0, <1>1 DEF Sound, CallsHold, Asking
  <1>4. SessionsSigned'
    BY <1>0, <1>1, <1>2 DEF Sound, SessionsSigned
  <1>5. CallsApart'
    <2> SUFFICES ASSUME NEW s \in Tokens, s \notin overlapped', s # 0
                 PROVE  Exclusive(s)'
      BY DEF CallsApart
    <2>1. Exclusive(s)
      BY <1>0, <1>1 DEF Sound, CallsApart
    <2>2. CASE s # store.sid
      BY <1>1, <1>2, <2>1, <2>2 DEF Exclusive, Works
    <2>3. CASE s = store.sid
      <3>1. \A q \in Procs : ~Works(q, s)
        BY <1>1, <2>1, <2>3 DEF Exclusive, Works
      <3>2. QED
        BY <1>1, <1>2, <2>3, <3>1 DEF Exclusive, Works
    <2>4. QED
      BY <2>2, <2>3
  <1>6. TokensFollowed'
    <2> SUFFICES ASSUME NEW s \in Tokens, s \notin disturbed', s \notin overlapped', s # 0
                 PROVE  Followed(s)'
      BY DEF TokensFollowed
    <2>1. Followed(s)
      BY <1>0, <1>1, <1>2 DEF Sound, TokensFollowed
    <2>2. store.sid = s => \A q \in Procs : loaded[q].sid # s
      BY <1>1
    <2>3. store.sid = s => Current(s, store.token)
      BY <2>1, <2>2 DEF Followed
    <2>4. QED
      BY <1>1, <1>2, <2>1, <2>3 DEF Followed, Current
  <1>7. NoSelfReplay'
    BY <1>0, <1>1, <1>2 DEF Sound, NoSelfReplay
  <1>8. LogoutForgets'
    BY <1>0, <1>1, <1>2 DEF Sound, LogoutForgets, UsersOf
  <1>9. ClearedUnanswered'
    BY <1>0, <1>1, <1>2 DEF Sound, ClearedUnanswered
  <1>10. QED
    BY <1>3, <1>4, <1>5, <1>6, <1>7, <1>8, <1>9 DEF Sound

\* A call that ends and leaves the server and the store alone, and marks the
\* sessions whose token it loses.
LEMMA EndSound ==
  ASSUME IInv, NEW p \in Procs, Return(p), disturbed \subseteq disturbed',
         pc[p] = "save" => answer[p].sid \in disturbed',
         pc[p] = "clear" => loaded[p].sid \in disturbed',
         store' \in {store, NoSession},
         UNCHANGED <<server, overlapped, cleared>>
  PROVE  Sound'
  <1>0. TypeOK /\ Sound
    BY DEF IInv, Sound
  <1>1. /\ pc'[p] = "idle" /\ loaded'[p].sid = 0 /\ answer'[p].sid = 0
        /\ \A q \in Procs \ {p} :
             pc'[q] = pc[q] /\ loaded'[q] = loaded[q] /\ answer'[q] = answer[q]
    BY <1>0, ReturnFacts DEF NoSession, NoAnswer
  <1>2. /\ store' = store \/ store'.sid = 0
        /\ issued' = issued /\ state' = state /\ hash' = hash
        /\ overlapped' = overlapped /\ cleared' = cleared
    BY DEF server, NoSession
  <1>3. CallsHold'
    BY <1>0, <1>1 DEF Sound, CallsHold, Asking
  <1>4. SessionsSigned'
    BY <1>0, <1>1, <1>2, Typed DEF Sound, SessionsSigned
  <1>5. CallsApart'
    BY <1>0, <1>1, <1>2 DEF Sound, CallsApart, Exclusive, Works
  <1>6. TokensFollowed'
    <2> SUFFICES ASSUME NEW s \in Tokens, s \notin disturbed', s \notin overlapped', s # 0
                 PROVE  Followed(s)'
      BY DEF TokensFollowed
    <2>1. Followed(s)
      BY <1>0, <1>2 DEF Sound, TokensFollowed
    <2>2. loaded[p].sid = s => pc[p] \in Asking
      <3>1. pc[p] \in Steps /\ (pc[p] = "idle" => loaded[p].sid = 0)
        BY <1>0, Typed DEF TypeOK
      <3>2. pc[p] = "save" => loaded[p].sid \in {0, answer[p].sid}
        BY <1>0 DEF Sound, CallsHold
      <3>3. QED
        BY <3>1, <3>2 DEF Steps, Asking
    <2>3. QED
      BY <1>1, <1>2, <2>1, <2>2 DEF Followed, Current
  <1>7. NoSelfReplay'
    BY <1>0, <1>2 DEF Sound, NoSelfReplay
  <1>8. LogoutForgets'
    BY <1>0, <1>1, <1>2 DEF Sound, LogoutForgets, SessionsSigned, UsersOf
  <1>9. ClearedUnanswered'
    BY <1>0, <1>1, <1>2, Typed DEF Sound, ClearedUnanswered, SessionsSigned
  <1>10. QED
    BY <1>3, <1>4, <1>5, <1>6, <1>7, <1>8, <1>9 DEF Sound

\* A call that stores the session it works on with its current token, if that
\* can be told, and ends.
LEMMA StoreSound ==
  ASSUME IInv, NEW p \in Procs, Return(p),
         store'.sid # 0, Works(p, store'.sid),
         store'.sid \notin disturbed \cup overlapped => Current(store'.sid, store'.token),
         loaded[p].sid # 0 => loaded[p].sid = store'.sid,
         answer[p].sid # 0 => answer[p].sid = store'.sid,
         UNCHANGED <<server, disturbed, overlapped, cleared>>
  PROVE  Sound'
  <1>0. TypeOK /\ Sound
    BY DEF IInv, Sound
  <1>1. /\ pc'[p] = "idle" /\ loaded'[p].sid = 0 /\ answer'[p].sid = 0
        /\ \A q \in Procs \ {p} :
             pc'[q] = pc[q] /\ loaded'[q] = loaded[q] /\ answer'[q] = answer[q]
    BY <1>0, ReturnFacts DEF NoSession, NoAnswer
  <1>2. /\ issued' = issued /\ state' = state /\ hash' = hash
        /\ disturbed' = disturbed /\ overlapped' = overlapped /\ cleared' = cleared
    BY DEF server
  <1>3. CallsHold'
    BY <1>0, <1>1 DEF Sound, CallsHold, Asking
  <1>4. SessionsSigned'
    BY <1>0, <1>1, <1>2, Typed DEF Sound, SessionsSigned, Works
  <1>5. CallsApart'
    <2> SUFFICES ASSUME NEW s \in Tokens, s \notin overlapped, s # 0
                 PROVE  Exclusive(s)'
      BY <1>2 DEF CallsApart
    <2>1. Exclusive(s)
      BY <1>0 DEF Sound, CallsApart
    <2>2. CASE s # store'.sid
      BY <1>1, <2>1, <2>2 DEF Exclusive, Works
    <2>3. CASE s = store'.sid
      <3>1. \A q \in Procs \ {p} : ~Works(q, s)
        BY <2>1, <2>3 DEF Exclusive
      <3>2. QED
        BY <1>1, <2>3, <3>1 DEF Exclusive, Works
    <2>4. QED
      BY <2>2, <2>3
  <1>6. TokensFollowed'
    <2> SUFFICES ASSUME NEW s \in Tokens, s \notin disturbed, s \notin overlapped, s # 0
                 PROVE  Followed(s)'
      BY <1>2 DEF TokensFollowed
    <2>1. Followed(s)
      BY <1>0, <1>2 DEF Sound, TokensFollowed
    <2>2. QED
      BY <1>1, <1>2, <2>1 DEF Followed, Current
  <1>7. NoSelfReplay'
    BY <1>0, <1>2 DEF Sound, NoSelfReplay
  <1>8. LogoutForgets'
    <2> SUFFICES ASSUME NEW s \in cleared, s \notin overlapped
                 PROVE  store'.sid # s /\ \A q \in Procs : loaded'[q].sid # s
      BY <1>2 DEF LogoutForgets, UsersOf
    <2>1. s \in Tokens /\ s # 0
      BY <1>0 DEF Sound, SessionsSigned, TypeOK
    <2>2. Exclusive(s) /\ store.sid # s /\ \A q \in Procs : loaded[q].sid # s
      BY <1>0, <2>1 DEF Sound, CallsApart, LogoutForgets, UsersOf
    <2>3. answer[p].sid # s
      BY <1>0 DEF Sound, ClearedUnanswered
    <2>4. QED
      BY <1>1, <2>1, <2>2, <2>3 DEF Works
  <1>9. ClearedUnanswered'
    BY <1>0, <1>1, <1>2, Typed DEF Sound, ClearedUnanswered, SessionsSigned
  <1>10. QED
    BY <1>3, <1>4, <1>5, <1>6, <1>7, <1>8, <1>9 DEF Sound

LEMMA SaveSound ==
  ASSUME IInv, NEW p \in Procs, SaveSession(p) \/ SaveBack(p)
  PROVE  Sound'
  <1>0. TypeOK /\ Sound
    BY DEF IInv, Sound
  <1>1. Return(p) /\ UNCHANGED <<server, disturbed, overlapped, cleared>>
    BY DEF SaveSession, SaveBack
  <1>2. CASE SaveSession(p)
    <2>1. pc[p] = "save" /\ store'.sid = answer[p].sid /\ store'.token = answer[p].token
      BY <1>2 DEF SaveSession
    <2>2. answer[p].sid # 0 /\ loaded[p].sid \in {0, answer[p].sid}
      BY <1>0, <2>1 DEF Sound, CallsHold
    <2>3. store'.sid \notin disturbed \cup overlapped => Current(store'.sid, store'.token)
      BY <1>0, <2>1, <2>2, Typed DEF Sound, TokensFollowed, Followed
    <2>4. QED
      BY <1>1, <2>1, <2>2, <2>3, StoreSound DEF Works
  <1>3. CASE SaveBack(p)
    <2>1. loaded[p] \in StoredSessions
      BY <1>0 DEF TypeOK
    <2>2. pc[p] = "check" /\ store'.sid = loaded[p].sid /\ store'.token = loaded[p].token
      BY <1>3, <2>1 DEF SaveBack, StoredSessions
    <2>3. loaded[p].sid # 0 /\ answer[p] = NoAnswer
      BY <1>0, <2>2 DEF Sound, CallsHold, Asking
    <2>4. store'.sid \notin disturbed \cup overlapped => Current(store'.sid, store'.token)
      BY <1>0, <2>2, <2>3, Typed DEF Sound, TokensFollowed, Followed, Asking
    <2>5. QED
      BY <1>1, <2>2, <2>3, <2>4, StoreSound DEF Works, NoAnswer
  <1>4. QED
    BY <1>2, <1>3

LEMMA ClearSound ==
  ASSUME IInv, NEW p \in Procs, Clear(p)
  PROVE  Sound'
  <1>0. TypeOK /\ Sound
    BY DEF IInv, Sound
  <1>1. /\ pc'[p] = "idle" /\ loaded'[p].sid = 0 /\ answer'[p].sid = 0
        /\ \A q \in Procs \ {p} :
             pc'[q] = pc[q] /\ loaded'[q] = loaded[q] /\ answer'[q] = answer[q]
    BY <1>0, ReturnFacts DEF Clear, NoSession, NoAnswer
  <1>2. /\ store'.sid = 0
        /\ issued' = issued /\ state' = state /\ hash' = hash
        /\ disturbed' = disturbed /\ overlapped' = overlapped
        /\ cleared' = cleared \cup {loaded[p].sid}
    BY DEF Clear, server, NoSession
  <1>3. pc[p] = "clear" /\ loaded[p].sid # 0 /\ answer[p].sid = 0
    BY <1>0 DEF Clear, Sound, CallsHold, NoAnswer
  <1>4. CallsHold'
    BY <1>0, <1>1 DEF Sound, CallsHold, Asking
  <1>5. SessionsSigned'
    BY <1>0, <1>1, <1>2, <1>3, Typed DEF Sound, SessionsSigned
  <1>6. CallsApart'
    BY <1>0, <1>1, <1>2 DEF Sound, CallsApart, Exclusive, Works
  <1>7. TokensFollowed'
    <2> SUFFICES ASSUME NEW s \in Tokens, s \notin disturbed, s \notin overlapped, s # 0
                 PROVE  Followed(s)'
      BY <1>2 DEF TokensFollowed
    <2>1. Followed(s)
      BY <1>0, <1>2 DEF Sound, TokensFollowed
    <2>2. QED
      BY <1>1, <1>2, <2>1 DEF Followed, Current
  <1>8. NoSelfReplay'
    BY <1>0, <1>2 DEF Sound, NoSelfReplay
  <1>9. LogoutForgets' /\ ClearedUnanswered'
    <2> SUFFICES ASSUME NEW s \in cleared', s \notin overlapped
                 PROVE  /\ store'.sid # s
                        /\ \A q \in Procs : loaded'[q].sid # s /\ answer'[q].sid # s
      BY <1>2 DEF LogoutForgets, ClearedUnanswered, UsersOf
    <2>1. s # 0
      BY <1>0, <1>2, <1>3 DEF Sound, SessionsSigned
    <2>2. CASE s \in cleared
      BY <1>0, <1>1, <1>2, <2>1, <2>2 DEF Sound, LogoutForgets, ClearedUnanswered, UsersOf
    <2>3. CASE s = loaded[p].sid
      <3>1. Exclusive(s)
        BY <1>0, <2>1, <2>3, Typed DEF Sound, CallsApart
      <3>2. \A q \in Procs \ {p} : ~Works(q, s)
        BY <2>3, <3>1 DEF Exclusive, Works
      <3>3. QED
        BY <1>1, <1>2, <2>1, <3>2 DEF Works
    <2>4. QED
      BY <1>2, <2>2, <2>3
  <1>10. QED
    BY <1>4, <1>5, <1>6, <1>7, <1>8, <1>9 DEF Sound

\* Revocations: those of a logout take the session off its call's steps.
LEMMA RevokeSound ==
  ASSUME IInv, NEW p \in Procs, ServerSeesReplay(p) \/ ServerLogout(p)
  PROVE  Sound'
  <1>0. TypeOK /\ Sound
    BY DEF IInv, Sound
  <1> DEFINE s == loaded[p].sid
  <1>1. s \in Tokens /\ s # 0 /\ answer[p].sid = 0 /\ pc[p] \in Asking
    BY <1>0, Typed DEF ServerSeesReplay, ServerLogout, Sound, CallsHold, Asking, NoAnswer
  <1>2. /\ store' = store /\ issued' = issued /\ hash' = hash
        /\ overlapped' = overlapped /\ cleared' = cleared
        /\ disturbed \subseteq disturbed'
        /\ \A t \in Tokens \ {s} : state'[t] = state[t]
    BY <1>0 DEF ServerSeesReplay, ServerLogout, TypeOK
  <1>3. /\ \A q \in Procs \ {p} :
             pc'[q] = pc[q] /\ loaded'[q] = loaded[q] /\ answer'[q] = answer[q]
        /\ answer'[p].sid = 0
        /\ \/ pc'[p] = "idle" /\ loaded'[p].sid = 0
           \/ pc'[p] = "clear" /\ loaded'[p] = loaded[p] /\ answer'[p] = NoAnswer
    <2>1. ASSUME Return(p)
          PROVE  /\ \A q \in Procs \ {p} :
                      pc'[q] = pc[q] /\ loaded'[q] = loaded[q] /\ answer'[q] = answer[q]
                 /\ answer'[p].sid = 0 /\ pc'[p] = "idle" /\ loaded'[p].sid = 0
      BY <1>0, <2>1, ReturnFacts DEF NoSession, NoAnswer
    <2>2. CASE ServerSeesReplay(p)
      BY <2>1, <2>2 DEF ServerSeesReplay
    <2>3. CASE ServerLogout(p)
      <3>1. CASE Return(p)
        BY <2>1, <3>1
      <3>2. CASE Goto(p, "clear") /\ UNCHANGED <<loaded, answer>>
        <4>1. answer[p] = NoAnswer
          BY <1>0, <1>1 DEF Sound, CallsHold
        <4>2. QED
          BY <1>0, <1>1, <3>2, <4>1 DEF Goto, TypeOK
      <3>3. QED
        BY <2>3, <3>1, <3>2 DEF ServerLogout
    <2>4. QED
      BY <2>2, <2>3
  <1>4. /\ state'[s] = "refresh_replay" =>
              s \in disturbed \cup overlapped \/ state[s] = "refresh_replay"
        /\ pc'[p] = "idle" => s \in disturbed' \cup overlapped
    <2>1. CASE ServerSeesReplay(p)
      <3>1. ~Current(s, loaded[p].token)
        BY <2>1 DEF ServerSeesReplay, Current
      <3>2. s \in disturbed \cup overlapped
        BY <1>0, <1>1, <3>1 DEF Sound, TokensFollowed, Followed
      <3>3. QED
        BY <1>2, <3>2
    <2>2. CASE ServerLogout(p)
      <3>1. state'[s] = IF state[s] = "live" THEN "logout" ELSE state[s]
        BY <1>0, <1>1, <2>2 DEF ServerLogout, TypeOK
      <3>2. Goto(p, "clear") => pc'[p] = "clear"
        BY <1>0 DEF Goto, TypeOK
      <3>3. QED
        BY <2>2, <3>1, <3>2 DEF ServerLogout
    <2>3. QED
      BY <2>1, <2>2
  <1> HIDE DEF s
  <1>5. CallsHold'
    <2>1. pc'[p] = "clear" => loaded'[p].sid # 0
      BY <1>1, <1>3 DEF s
    <2>2. QED
      BY <1>0, <1>3, <2>1 DEF Sound, CallsHold, Asking
  <1>6. SessionsSigned'
    BY <1>0, <1>2, <1>3, Typed DEF Sound, SessionsSigned
  <1>7. CallsApart'
    <2> SUFFICES ASSUME NEW t \in Tokens, t \notin overlapped, t # 0
                 PROVE  Exclusive(t)'
      BY <1>2 DEF CallsApart
    <2>1. Exclusive(t)
      BY <1>0 DEF Sound, CallsApart
    <2>2. \A q \in Procs : Works(q, t)' => Works(q, t)
      BY <1>3 DEF Works
    <2>3. QED
      BY <1>2, <1>3, <2>1, <2>2 DEF Exclusive
  <1>8. TokensFollowed'
    <2> SUFFICES ASSUME NEW t \in Tokens, t \notin disturbed', t \notin overlapped, t # 0
                 PROVE  Followed(t)'
      BY <1>2 DEF TokensFollowed
    <2>1. Followed(t)
      BY <1>0, <1>2 DEF Sound, TokensFollowed
    <2>2. CASE t # s
      <3>1. loaded[p].sid # t
        BY <2>2 DEF s
      <3>2. QED
        BY <1>2, <1>3, <2>1, <2>2, <3>1 DEF Followed, Current
    <2>3. CASE t = s
      <3>1. pc'[p] = "clear" /\ loaded'[p].sid = t
        BY <1>2, <1>3, <1>4, <2>3 DEF s
      <3>2. Exclusive(t)
        BY <1>0 DEF Sound, CallsApart
      <3>3. Works(p, t)
        BY <2>3 DEF Works, s
      <3>4. \A q \in Procs \ {p} : loaded[q].sid # t /\ answer[q].sid # t
        BY <3>2, <3>3 DEF Exclusive, Works
      <3>5. QED
        BY <1>2, <1>3, <3>1, <3>4 DEF Followed, Asking
    <2>4. QED
      BY <2>2, <2>3
  <1>9. NoSelfReplay'
    BY <1>0, <1>2, <1>4 DEF Sound, NoSelfReplay
  <1>10. LogoutForgets'
    BY <1>0, <1>2, <1>3, Typed DEF Sound, LogoutForgets, SessionsSigned, UsersOf
  <1>11. ClearedUnanswered'
    BY <1>0, <1>2, <1>3, Typed DEF Sound, ClearedUnanswered, SessionsSigned
  <1>12. QED
    BY <1>5, <1>6, <1>7, <1>8, <1>9, <1>10, <1>11 DEF Sound

LEMMA LoginSound ==
  ASSUME IInv, NEW p \in Procs, ServerLogin(p)
  PROVE  Sound'
  <1>0. TypeOK /\ Sound
    BY DEF IInv, Sound
  <1> DEFINE n == issued + 1
  <1>1. n \in Tokens /\ n # 0 /\ issued \in Nat /\ n > issued
    BY <1>0, OfflineAssumption DEF ServerLogin, Sign, TypeOK, Tokens
  <1>2. /\ pc[p] = "idle" /\ loaded[p].sid = 0 /\ answer[p].sid = 0
        /\ store' = store /\ overlapped' = overlapped /\ cleared' = cleared
        /\ state'[n] = "live"
        /\ \A t \in Tokens \ {n} : state'[t] = state[t]
    BY <1>0, <1>1, Typed DEF ServerLogin, TypeOK
  <1>3. Sign(p, n)
    BY DEF ServerLogin
  <1> HIDE DEF n
  <1>4. /\ issued' = n
        /\ hash'[n] = n
        /\ \A t \in Tokens \ {n} : hash'[t] = hash[t]
        /\ disturbed \subseteq disturbed'
        /\ \A q \in Procs \ {p} :
             pc'[q] = pc[q] /\ loaded'[q] = loaded[q] /\ answer'[q] = answer[q]
    BY <1>0, <1>1, <1>3, SignFacts DEF n
  <1>5. \/ /\ answer'[p].sid = n /\ answer'[p].token = n
           /\ pc'[p] = "save" /\ loaded'[p].sid = 0
        \/ pc'[p] = "idle" /\ loaded'[p].sid = 0 /\ answer'[p].sid = 0
    <2>1. CASE Return(p)
      BY <1>0, <2>1, ReturnFacts DEF NoSession, NoAnswer
    <2>2. CASE /\ answer'[p] = [sid |-> n, token |-> issued + 1, serverTime |-> time]
               /\ pc'[p] = "save"
               /\ loaded'[p] = loaded[p]
      BY <1>2, <2>2 DEF n
    <2>3. QED
      BY <1>0, <1>1, <1>3, <2>1, <2>2, SignFacts DEF n
  <1>6. /\ store.sid # n /\ n \notin cleared
        /\ \A q \in Procs : loaded[q].sid # n /\ answer[q].sid # n
    BY <1>0, <1>1, Typed DEF Sound, SessionsSigned
  <1>7. CallsHold'
    <2>1. CASE pc'[p] = "idle"
      BY <1>0, <1>4, <2>1 DEF Sound, CallsHold, Asking
    <2>2. CASE pc'[p] = "save"
      BY <1>0, <1>1, <1>4, <1>5, <2>2 DEF Sound, CallsHold, Asking
    <2>3. QED
      BY <1>5, <2>1, <2>2
  <1>8. SessionsSigned'
    <2>1. \A t \in Tokens : t <= issued => t <= issued'
      BY <1>0, <1>1, <1>4, Typed
    <2>2. store.sid \in Tokens /\ cleared \subseteq Tokens
            /\ \A q \in Procs : loaded[q].sid \in Tokens /\ answer[q].sid \in Tokens
      BY <1>0, Typed DEF TypeOK
    <2>3. 0 <= n /\ n <= n
      BY <1>1, <1>0, Typed
    <2>4. loaded'[p].sid <= issued' /\ answer'[p].sid <= issued'
      BY <1>4, <1>5, <2>3
    <2>5. QED
      BY <1>0, <1>2, <1>4, <2>1, <2>2, <2>4 DEF Sound, SessionsSigned
  <1>9. CallsApart'
    <2> SUFFICES ASSUME NEW t \in Tokens, t \notin overlapped, t # 0
                 PROVE  Exclusive(t)'
      BY <1>2 DEF CallsApart
    <2>1. Exclusive(t)
      BY <1>0 DEF Sound, CallsApart
    <2>2. QED
      BY <1>2, <1>4, <1>5, <1>6, <2>1 DEF Exclusive, Works
  <1>10. TokensFollowed'
    <2> SUFFICES ASSUME NEW t \in Tokens, t \notin disturbed', t \notin overlapped, t # 0
                 PROVE  Followed(t)'
      BY <1>2 DEF TokensFollowed
    <2>1. Followed(t)
      BY <1>0, <1>4 DEF Sound, TokensFollowed
    <2>2. CASE t # n
      BY <1>2, <1>4, <1>5, <2>1, <2>2 DEF Followed, Current
    <2>3. CASE t = n
      BY <1>1, <1>2, <1>4, <1>5, <1>6, <2>3 DEF Followed, Current
    <2>4. QED
      BY <2>2, <2>3
  <1>11. NoSelfReplay'
    BY <1>0, <1>2, <1>4 DEF Sound, NoSelfReplay
  <1>12. LogoutForgets' /\ ClearedUnanswered'
    BY <1>0, <1>2, <1>4, <1>5, <1>6
    DEF Sound, LogoutForgets, ClearedUnanswered, SessionsSigned, UsersOf
  <1>13. QED
    BY <1>7, <1>8, <1>9, <1>10, <1>11, <1>12 DEF Sound

LEMMA RotateSound ==
  ASSUME IInv, NEW p \in Procs, ServerRotates(p)
  PROVE  Sound'
  <1>0. TypeOK /\ Sound
    BY DEF IInv, Sound
  <1> DEFINE s == loaded[p].sid
  <1>1. s \in Tokens /\ s # 0 /\ answer[p].sid = 0 /\ pc[p] = "refresh"
    BY <1>0, Typed DEF ServerRotates, Sound, CallsHold, Asking, NoAnswer
  <1>2. /\ store' = store /\ overlapped' = overlapped /\ cleared' = cleared
        /\ state' = state /\ state[s] = "live" /\ Sign(p, s)
    BY DEF ServerRotates
  <1>3. /\ issued' = issued + 1 /\ issued \in Nat
        /\ hash'[s] = issued + 1
        /\ \A t \in Tokens \ {s} : hash'[t] = hash[t]
        /\ disturbed \subseteq disturbed'
        /\ \A q \in Procs \ {p} :
             pc'[q] = pc[q] /\ loaded'[q] = loaded[q] /\ answer'[q] = answer[q]
    BY <1>0, <1>1, <1>2, SignFacts, Typed
  <1>4. \/ /\ answer'[p].sid = s /\ answer'[p].token = issued + 1
           /\ pc'[p] = "save" /\ loaded'[p].sid = s
        \/ /\ pc'[p] = "idle" /\ loaded'[p].sid = 0 /\ answer'[p].sid = 0
           /\ s \in disturbed'
    <2>1. CASE Return(p) /\ s \in disturbed'
      BY <1>0, <2>1, ReturnFacts DEF NoSession, NoAnswer
    <2>2. CASE /\ answer'[p] = [sid |-> s, token |-> issued + 1, serverTime |-> time]
               /\ pc'[p] = "save"
               /\ loaded'[p] = loaded[p]
      BY <2>2
    <2>3. QED
      BY <1>0, <1>1, <1>2, <2>1, <2>2, SignFacts
  <1>5. loaded[p].sid = s
    OBVIOUS
  <1> HIDE DEF s
  <1>6. CallsHold'
    <2>1. CASE pc'[p] = "idle"
      BY <1>0, <1>3, <2>1 DEF Sound, CallsHold, Asking
    <2>2. CASE pc'[p] = "save"
      BY <1>0, <1>1, <1>3, <1>4, <2>2 DEF Sound, CallsHold, Asking
    <2>3. QED
      BY <1>4, <2>1, <2>2
  <1>7. SessionsSigned'
    <2>1. \A t \in Tokens : t <= issued => t <= issued'
      BY <1>3, Typed, <1>0
    <2>2. store.sid \in Tokens /\ cleared \subseteq Tokens
            /\ \A q \in Procs : loaded[q].sid \in Tokens /\ answer[q].sid \in Tokens
      BY <1>0, Typed DEF TypeOK
    <2>3. loaded'[p].sid <= issued' /\ answer'[p].sid <= issued'
      BY <1>0, <1>1, <1>3, <1>4, <1>5, <2>1 DEF Sound, SessionsSigned
    <2>4. QED
      BY <1>0, <1>2, <1>3, <2>1, <2>2, <2>3 DEF Sound, SessionsSigned
  <1>8. CallsApart'
    <2> SUFFICES ASSUME NEW t \in Tokens, t \notin overlapped, t # 0
                 PROVE  Exclusive(t)'
      BY <1>2 DEF CallsApart
    <2>1. Exclusive(t)
      BY <1>0 DEF Sound, CallsApart
    <2>2. \A q \in Procs : Works(q, t)' => Works(q, t)
      BY <1>3, <1>4, <1>5 DEF Works
    <2>3. \A q \in Procs : answer'[q].sid = t /\ loaded'[q].sid # t =>
                            answer[q].sid = t /\ loaded[q].sid # t
      BY <1>3, <1>4
    <2>4. QED
      BY <1>2, <2>1, <2>2, <2>3 DEF Exclusive
  <1>9. TokensFollowed'
    <2> SUFFICES ASSUME NEW t \in Tokens, t \notin disturbed', t \notin overlapped, t # 0
                 PROVE  Followed(t)'
      BY <1>2 DEF TokensFollowed
    <2>1. Followed(t) /\ Exclusive(t)
      BY <1>0, <1>3 DEF Sound, TokensFollowed, CallsApart
    <2>2. CASE t # s
      BY <1>2, <1>3, <1>4, <1>5, <2>1, <2>2 DEF Followed, Current
    <2>3. CASE t = s
      <3>1. /\ answer'[p].sid = t /\ answer'[p].token = issued + 1
            /\ pc'[p] = "save" /\ loaded'[p].sid = t
        BY <1>4, <2>3
      <3>2. \A q \in Procs \ {p} : loaded[q].sid # t /\ answer[q].sid # t
        BY <1>5, <2>1, <2>3 DEF Exclusive, Works
      <3>3. QED
        BY <1>2, <1>3, <2>3, <3>1, <3>2 DEF Followed, Current, Asking
    <2>4. QED
      BY <2>2, <2>3
  <1>10. NoSelfReplay'
    BY <1>0, <1>2, <1>3 DEF Sound, NoSelfReplay
  <1>11. LogoutForgets' /\ ClearedUnanswered'
    BY <1>0, <1>2, <1>3, <1>4, <1>5
    DEF Sound, LogoutForgets, ClearedUnanswered, SessionsSigned, UsersOf
  <1>12. QED
    BY <1>6, <1>7, <1>8, <1>9, <1>10, <1>11 DEF Sound

\* Every call that is under way ends, and marks the sessions it loses.
LEMMA BootSound ==
  ASSUME IInv, Boot
  PROVE  Sound'
  <1>0. TypeOK /\ Sound
    BY DEF IInv, Sound
  <1>1. \A q \in Procs : /\ pc'[q] = "idle" /\ loaded'[q].sid = 0
                         /\ answer'[q].sid = 0
    BY DEF Boot, NoSession, NoAnswer
  <1>2. /\ store' = store /\ issued' = issued /\ state' = state /\ hash' = hash
        /\ overlapped' = overlapped /\ cleared' = cleared
        /\ disturbed \subseteq disturbed'
    BY DEF Boot, server
  <1>3. \A q \in Procs : /\ pc[q] = "save" => answer[q].sid \in disturbed'
                         /\ pc[q] = "clear" => loaded[q].sid \in disturbed'
    BY DEF Boot, Loses
  <1>4. CallsHold' /\ SessionsSigned' /\ CallsApart'
    BY <1>0, <1>1, <1>2, Typed
    DEF Sound, CallsHold, SessionsSigned, CallsApart, Exclusive, Works, Asking
  <1>5. TokensFollowed'
    <2> SUFFICES ASSUME NEW s \in Tokens, s \notin disturbed', s \notin overlapped, s # 0
                 PROVE  Followed(s)'
      BY <1>2 DEF TokensFollowed
    <2>1. Followed(s)
      BY <1>0, <1>2 DEF Sound, TokensFollowed
    <2>2. ASSUME NEW q \in Procs, loaded[q].sid = s
          PROVE  pc[q] \in Asking
      <3>1. pc[q] \in Steps /\ pc[q] # "idle"
        BY <1>0, <2>2, Typed DEF TypeOK
      <3>2. pc[q] = "save" => loaded[q].sid = answer[q].sid
        BY <1>0, <2>2 DEF Sound, CallsHold
      <3>3. pc[q] # "save" /\ pc[q] # "clear"
        BY <1>3, <2>2, <3>2
      <3>4. QED
        BY <3>1, <3>3 DEF Steps, Asking
    <2>3. store.sid = s => Current(s, store.token)
      BY <2>1, <2>2 DEF Followed
    <2>4. QED
      BY <1>1, <1>2, <2>3 DEF Followed, Current
  <1>6. NoSelfReplay' /\ LogoutForgets' /\ ClearedUnanswered'
    BY <1>0, <1>1, <1>2
    DEF Sound, NoSelfReplay, LogoutForgets, ClearedUnanswered, SessionsSigned, UsersOf
  <1>7. QED
    BY <1>4, <1>5, <1>6 DEF Sound

-----------------------------------------------------------------------------
(***************************************************************************)
(* The theorems.                                                           *)
(***************************************************************************)
LEMMA InvStep == IInv /\ [ONext]_ovars => IInv'
  <1> SUFFICES ASSUME IInv, [ONext]_ovars
               PROVE  IInv'
    OBVIOUS
  <1>1. TypeOK' /\ ClocksAgree'
    BY TypeStep, ClocksStep
  <1>2. ASSUME NEW p \in Procs, Call(p)
        PROVE  Sound'
    <2>1. CASE \E step \in Asking : Load(p, step)
      BY <2>1, LoadSound
    <2>2. CASE ServerLogin(p) \/ ServerRotates(p)
      BY <2>2, LoginSound, RotateSound
    <2>3. CASE ServerSeesReplay(p) \/ ServerLogout(p)
      BY <2>3, RevokeSound
    <2>4. CASE SaveSession(p) \/ SaveBack(p) \/ Clear(p)
      BY <2>4, SaveSound, ClearSound
    <2>5. CASE Fail(p)
      <3>1. disturbed' = disturbed \cup Loses({p})
        BY <2>5 DEF Fail
      <3>2. /\ pc[p] = "save" => answer[p].sid \in Loses({p})
            /\ pc[p] = "clear" => loaded[p].sid \in Loses({p})
        BY DEF Loses
      <3>3. /\ Return(p) /\ store' \in {store, NoSession}
            /\ UNCHANGED <<server, overlapped, cleared>>
        BY <2>5 DEF Fail
      <3>4. QED
        BY <3>1, <3>2, <3>3, EndSound
    <2>6. QED
      BY <1>2, <2>1, <2>2, <2>3, <2>4, <2>5
      DEF Call, StartRefresh, StartLogout, StartCheck, Asking
  <1>3. ASSUME Tick \/ Sleep \/ SetWall \/ UNCHANGED ovars
        PROVE  Sound'
    <2>1. UNCHANGED <<store, issued, state, hash, pc, loaded, answer, disturbed,
                      overlapped, cleared>>
      BY <1>3 DEF Tick, Sleep, SetWall, ovars, server
    <2>2. Sound
      BY DEF IInv, Sound
    <2>3. QED
      BY <2>1, <2>2
      DEF Sound, CallsHold, SessionsSigned, CallsApart, Exclusive, Works, TokensFollowed,
          Followed, Current, NoSelfReplay, LogoutForgets, ClearedUnanswered, UsersOf
  <1>4. ASSUME Boot
        PROVE  Sound'
    BY <1>4, BootSound
  <1>5. Sound'
    BY <1>2, <1>3, <1>4 DEF ONext
  <1>6. QED
    BY <1>1, <1>5 DEF IInv, Sound

\* The inductive invariant holds of every state.
THEOREM Invariance == OSpec => []IInv
  BY InvInit, InvStep, PTL DEF OSpec

\* Everything has its type, and calls that have ended leave nothing behind.
THEOREM TypeCorrect == OSpec => []TypeOK
  <1>1. IInv => TypeOK
    BY DEF IInv
  <1>2. QED
    BY <1>1, Invariance, PTL

\* Nobody is admitted offline later than the window, the skew and the delay of
\* the answer allow, whatever is done to the wall clock.
THEOREM OfflineWindow == OSpec => []WindowHolds
  <1>1. IInv => WindowHolds
    <2> SUFFICES ASSUME IInv, NEW p \in Procs,
                        loaded[p].era = era, Allowed(loaded[p])
                 PROVE  time <= loaded[p].anchorServer + Window + Skew + loaded[p].lag
      BY DEF WindowHolds
    <2> DEFINE s == loaded[p]
    <2>1. /\ s.anchorServer \in Nat /\ s.anchorMono \in Nat /\ s.lag \in Nat
          /\ time \in Nat /\ uptime \in Nat /\ Window \in Nat /\ Skew \in Nat
      BY OfflineAssumption DEF IInv, TypeOK, StoredSessions
    <2>2. /\ s.anchorMono <= uptime
          /\ s.anchorServer + s.lag + uptime = time + s.anchorMono
      BY DEF IInv, ClocksAgree, Anchored
    <2>3. estimatedServerNow(s) = s.anchorServer + (uptime - s.anchorMono)
      BY <2>1, <2>2 DEF estimatedServerNow
    <2>4. estimatedServerNow(s) <= s.anchorServer + Window + Skew
      BY DEF Allowed
    <2>5. QED
      BY <2>1, <2>2, <2>3, <2>4
  <1>2. QED
    BY <1>1, Invariance, PTL

\* A client that loses nothing and does one thing at a time is never taken for
\* a thief of its own token.
THEOREM NeverSelfReplay == OSpec => []NoSelfReplay
  <1>1. IInv => NoSelfReplay
    BY DEF IInv
  <1>2. QED
    BY <1>1, Invariance, PTL

\* The stored token of such a client is the one the server accepts.
THEOREM StoredWorks == OSpec => []StoredTokenWorks
  <1>1. IInv => StoredTokenWorks
    <2> SUFFICES ASSUME IInv, store.sid # 0, UsersOf(store.sid) = {},
                        store.sid \notin disturbed \cup overlapped
                 PROVE  state[store.sid] = "live" /\ hash[store.sid] = store.token
      BY DEF StoredTokenWorks
    <2>1. store.sid \in Tokens
      BY Typed DEF IInv
    <2>2. Followed(store.sid)
      BY <2>1 DEF IInv, TokensFollowed
    <2>3. QED
      BY <2>2 DEF Followed, Current, UsersOf
  <1>2. QED
    BY <1>1, Invariance, PTL

\* A session a logout has cleared does not come back, unless another call had
\* it loaded.
THEOREM LogoutFinal == OSpec => []LogoutForgets
  <1>1. IInv => LogoutForgets
    BY DEF IInv
  <1>2. QED
    BY <1>1, Invariance, PTL

-----------------------------------------------------------------------------
(* One call at a time: a machine that runs one process, or a program that    *)
(* serialises the calls of all of them.                                      *)

OneAtATime ==
  \A p, q \in Procs : pc[p] # "idle" /\ pc[q] # "idle" => p = q

\* The three promises to the client without the exception of calls that
\* overlap: only a lost answer makes it look like a thief, and a logout that
\* has ended is final whatever is lost.
ClientTrusted ==
  /\ \A s \in Tokens : state[s] = "refresh_replay" => s \in disturbed
  /\ store.sid \notin {0} \cup disturbed /\ UsersOf(store.sid) = {}
       => state[store.sid] = "live" /\ hash[store.sid] = store.token
  /\ \A s \in cleared : store.sid # s

\* A call that starts alone finds nobody at work on its session.
LEMMA AloneStep ==
  ASSUME IInv, OneAtATime', overlapped = {}, [ONext]_ovars
  PROVE  overlapped' = {}
  <1>1. ASSUME NEW p \in Procs, NEW step \in Asking, Load(p, step)
        PROVE  overlapped' = {}
    <2>1. /\ pc[p] = "idle" /\ store.sid # 0
          /\ pc' = [pc EXCEPT ![p] = step]
      BY <1>1 DEF Load, Goto
    <2>2. pc'[p] = step /\ step # "idle"
      BY <2>1 DEF IInv, TypeOK, Asking
    <2>3. ASSUME NEW q \in Procs, loaded[q].sid = store.sid
          PROVE  FALSE
      <3>1. pc[q] # "idle"
        BY <2>1, <2>3 DEF IInv, TypeOK, NoSession
      <3>2. q # p /\ pc'[q] = pc[q]
        BY <2>1, <3>1 DEF IInv, TypeOK
      <3>3. QED
        BY <2>2, <3>1, <3>2 DEF OneAtATime
    <2>4. UsersOf(store.sid) = {}
      BY <2>3 DEF UsersOf
    <2>5. QED
      BY <1>1, <2>4 DEF Load
  <1>2. CASE UNCHANGED overlapped
    BY <1>2
  <1>3. CASE ~UNCHANGED overlapped
    <2>1. \E p \in Procs : \E step \in Asking : Load(p, step)
      BY <1>3
      DEF ONext, ovars, Call, StartRefresh, StartLogout, StartCheck, Asking, ServerLogin,
          ServerRotates, ServerSeesReplay, ServerLogout, SaveSession, Clear, SaveBack,
          Fail, Tick, Sleep, Boot, SetWall
    <2>2. QED
      BY <1>1, <2>1
  <1>4. QED
    BY <1>2, <1>3

\* With the calls of a machine made one after the other, its client is never
\* taken for a thief unless an answer was lost, its stored token works, and a
\* logout is final: what the others except is the interleaving alone.
THEOREM SerialClientIsTrusted == OSpec /\ []OneAtATime => []ClientTrusted
  <1>1. OInit => overlapped = {}
    BY DEF OInit
  <1>2. IInv /\ OneAtATime' /\ overlapped = {} /\ [ONext]_ovars => (overlapped = {})'
    BY AloneStep
  <1>3. /\ overlapped = {} /\ NoSelfReplay /\ StoredTokenWorks /\ LogoutForgets
        => ClientTrusted
    BY DEF ClientTrusted, NoSelfReplay, StoredTokenWorks, LogoutForgets
  <1>4. QED
    BY <1>1, <1>2, <1>3, Invariance, NeverSelfReplay, StoredWorks, LogoutFinal, PTL
    DEF OSpec

=============================================================================
