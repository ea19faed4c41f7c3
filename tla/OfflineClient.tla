----------------------------- MODULE OfflineClient -----------------------------
(***************************************************************************)
(* The Python SDK on one machine (sdk/python/src/sistema_licencas_sdk):    *)
(* processes of a program that share one stored session                    *)
(* (storage.py), log in, refresh, log out (auth_client.py) and ask whether *)
(* they may start without a network (offline_validator.py).                *)
(*                                                                         *)
(* A call is several steps: it loads the session, asks the server, fetches *)
(* the JWKS, and overwrites what is stored; nothing keeps another process  *)
(* from loading or saving in between.  The server answers each request in  *)
(* one step here, and its own races are those of Sessions.  Three clocks   *)
(* run: the server's, the wall clock, which the user may set, and the      *)
(* monotonic one, which stands still while the machine sleeps and starts   *)
(* again from 0 when it boots.                                             *)
(*                                                                         *)
(* Left out: signatures and fingerprints (a call with another fingerprint  *)
(* is refused), revocations by others, and calls that are refused before   *)
(* they have changed anything.                                             *)
(***************************************************************************)
EXTENDS Naturals

CONSTANTS Procs,      \* processes of the program
          Window,     \* max_offline_hours, the life of an offline token
          Skew,       \* clock_skew_seconds
          MaxTokens,  \* bound on the refresh tokens signed, for model checking
          MaxTime     \* bound on the clocks, for model checking only

ASSUME OfflineAssumption ==
  /\ Window \in Nat
  /\ Skew \in Nat
  /\ MaxTokens \in Nat
  /\ MaxTime \in Nat

VARIABLES time,        \* the server's clock
          wall,        \* the wall clock of the machine
          uptime,      \* its monotonic clock
          store,       \* the stored session
          torn,        \* the file holds half of a session
          issued,      \* how many refresh tokens the server has signed
          state,       \* per session, at the server: live, or why not
          hash,        \* per session, at the server: refresh_token_hash
          pc,          \* the step each process is at
          loaded,      \* the session a call has loaded
          answer,      \* the server's answer to a login or refresh
          era,         \* history: sleeps and boots so far
          disturbed,   \* history: sessions whose rotated token was lost
          overlapped,  \* history: sessions two calls have worked on at a time
          cleared      \* history: sessions a logout has cleared

clocks == <<time, wall, uptime, era>>
server == <<issued, state, hash>>
ovars == <<clocks, store, torn, server, pc, loaded, answer, disturbed,
           overlapped, cleared>>

\* A session is named by the first token signed for it; 0 is none.
Tokens == 0 .. MaxTokens

\* What is stored of an answer.  era and lag are history: the era it was saved
\* in, and how long after the answer.
StoredSessions ==
  [sid : Tokens, token : Tokens, anchorServer : Nat, anchorMono : Nat,
   lastWall : Nat, era : Nat, lag : Nat]

NoSession == [sid |-> 0, token |-> 0, anchorServer |-> 0, anchorMono |-> 0,
              lastWall |-> 0, era |-> 0, lag |-> 0]

Answers == [sid : Tokens, token : Tokens, serverTime : Nat]

NoAnswer == [sid |-> 0, token |-> 0, serverTime |-> 0]

Steps == {"idle", "refresh", "save", "check", "logout", "clear"}

\* Everything has its type, and a call that has ended leaves nothing behind.
TypeOK ==
  /\ time \in Nat /\ wall \in Nat /\ uptime \in Nat /\ era \in Nat
  /\ store \in StoredSessions
  /\ torn \in BOOLEAN
  /\ issued \in Tokens
  /\ state \in [Tokens -> {"none", "live", "logout", "refresh_replay"}]
  /\ hash \in [Tokens -> Tokens]
  /\ pc \in [Procs -> Steps]
  /\ loaded \in [Procs -> StoredSessions]
  /\ answer \in [Procs -> Answers]
  /\ disturbed \in SUBSET Tokens
  /\ overlapped \in SUBSET Tokens
  /\ cleared \in SUBSET Tokens
  /\ \A p \in Procs :
       pc[p] = "idle" => loaded[p] = NoSession /\ answer[p] = NoAnswer

OInit ==
  /\ time = 0 /\ wall \in 0 .. MaxTime /\ uptime = 0 /\ era = 0
  /\ store = NoSession
  /\ torn = FALSE
  /\ issued = 0
  /\ state = [s \in Tokens |-> "none"]
  /\ hash = [s \in Tokens |-> 0]
  /\ pc = [p \in Procs |-> "idle"]
  /\ loaded = [p \in Procs |-> NoSession]
  /\ answer = [p \in Procs |-> NoAnswer]
  /\ disturbed = {} /\ overlapped = {} /\ cleared = {}

-----------------------------------------------------------------------------
Goto(p, step) == pc' = [pc EXCEPT ![p] = step]

\* Mutant: the answer of the last call stays.
ReturnWithAnswer(p) ==
  /\ pc' = [pc EXCEPT ![p] = "idle"]
  /\ loaded' = [loaded EXCEPT ![p] = NoSession]
  /\ UNCHANGED answer

\* A call returns or raises, and forgets its locals.
Return(p) ==
  /\ pc' = [pc EXCEPT ![p] = "idle"]
  /\ loaded' = [loaded EXCEPT ![p] = NoSession]
  /\ answer' = [answer EXCEPT ![p] = NoAnswer]

\* The calls that work on session s.
UsersOf(s) == {p \in Procs : loaded[p].sid = s}

\* load_session: a file that is torn raises, and without a session a refresh
\* raises, a logout succeeds and an offline check is refused, all at once.
Load(p, step) ==
  /\ pc[p] = "idle"
  /\ ~torn
  /\ store.sid # 0
  /\ loaded' = [loaded EXCEPT ![p] = store]
  /\ overlapped' = IF UsersOf(store.sid) = {} THEN overlapped
                   ELSE overlapped \cup {store.sid}
  /\ Goto(p, step)
  /\ UNCHANGED <<clocks, store, torn, server, answer, disturbed, cleared>>

StartRefresh(p) == Load(p, "refresh")

StartLogout(p) == Load(p, "logout")

StartCheck(p) == Load(p, "check")

-----------------------------------------------------------------------------
\* Mutant: the session keeps the hash it had.
SignKeepsHash(p, s) ==
  /\ issued < MaxTokens
  /\ issued' = issued + 1
  /\ hash' = [hash EXCEPT ![s] = IF @ = 0 THEN issued + 1 ELSE @]
  /\ \/ /\ answer' = [answer EXCEPT ![p] = [sid |-> s, token |-> issued + 1,
                                            serverTime |-> time]]
        /\ Goto(p, "save")
        /\ UNCHANGED <<loaded, disturbed>>
     \/ /\ Return(p)
        /\ disturbed' = disturbed \cup {s}

\* The server signs the next token for session s, and the answer reaches the
\* client or is lost.
Sign(p, s) ==
  /\ issued < MaxTokens
  /\ issued' = issued + 1
  /\ hash' = [hash EXCEPT ![s] = issued + 1]
  /\ \/ /\ answer' = [answer EXCEPT ![p] = [sid |-> s, token |-> issued + 1,
                                            serverTime |-> time]]
        /\ Goto(p, "save")
        /\ UNCHANGED <<loaded, disturbed>>
     \/ /\ Return(p)
        /\ disturbed' = disturbed \cup {s}

\* POST /auth/login.
ServerLogin(p) ==
  /\ pc[p] = "idle"
  /\ Sign(p, issued + 1)
  /\ state' = [state EXCEPT ![issued + 1] = "live"]
  /\ UNCHANGED <<clocks, store, torn, overlapped, cleared>>

\* POST /auth/refresh with the token that is stored.
ServerRotates(p) ==
  LET s == loaded[p].sid
  IN  /\ pc[p] = "refresh"
      /\ state[s] = "live"
      /\ hash[s] = loaded[p].token
      /\ Sign(p, s)
      /\ UNCHANGED <<clocks, store, torn, state, overlapped, cleared>>

\* POST /auth/refresh with a token that has been rotated.
ServerSeesReplay(p) ==
  LET s == loaded[p].sid
  IN  /\ pc[p] = "refresh"
      /\ state[s] = "live"
      /\ hash[s] # loaded[p].token
      /\ state' = [state EXCEPT ![s] = "refresh_replay"]
      /\ Return(p)
      /\ UNCHANGED <<clocks, store, torn, issued, hash, disturbed,
                     overlapped, cleared>>

\* POST /auth/logout: a session that is revoked already is left as it is.
ServerLogout(p) ==
  LET s == loaded[p].sid
  IN  /\ pc[p] = "logout"
      /\ state' = [state EXCEPT ![s] = IF @ = "live" THEN "logout" ELSE @]
      /\ \/ /\ Goto(p, "clear")
            /\ UNCHANGED <<loaded, answer, disturbed>>
         \/ /\ Return(p)
            /\ disturbed' = disturbed \cup {s}
      /\ UNCHANGED <<clocks, store, torn, issued, hash, overlapped, cleared>>

-----------------------------------------------------------------------------
\* Mutant: the token that is stored stays.
SaveSessionKeepsToken(p) ==
  /\ pc[p] = "save"
  /\ store' = [sid |-> answer[p].sid,
               token |-> IF loaded[p].sid = 0 THEN answer[p].token
                         ELSE loaded[p].token,
               anchorServer |-> answer[p].serverTime, anchorMono |-> uptime,
               lastWall |-> wall, era |-> era,
               lag |-> time - answer[p].serverTime]
  /\ torn' = FALSE
  /\ Return(p)
  /\ UNCHANGED <<clocks, server, disturbed, overlapped, cleared>>

\* The JWKS arrives, and _save_session replaces what is stored by the answer
\* with the anchors of this moment.
SaveSession(p) ==
  /\ pc[p] = "save"
  /\ store' = [sid |-> answer[p].sid, token |-> answer[p].token,
               anchorServer |-> answer[p].serverTime, anchorMono |-> uptime,
               lastWall |-> wall, era |-> era,
               lag |-> time - answer[p].serverTime]
  /\ torn' = FALSE
  /\ Return(p)
  /\ UNCHANGED <<clocks, server, disturbed, overlapped, cleared>>

\* Mutant: nothing is cleared.
ClearNothing(p) ==
  /\ pc[p] = "clear"
  /\ cleared' = cleared \cup {loaded[p].sid}
  /\ Return(p)
  /\ UNCHANGED <<clocks, store, torn, server, disturbed, overlapped>>

\* clear(), whichever session is stored by then.
Clear(p) ==
  /\ pc[p] = "clear"
  /\ store' = NoSession
  /\ torn' = FALSE
  /\ cleared' = cleared \cup {loaded[p].sid}
  /\ Return(p)
  /\ UNCHANGED <<clocks, server, disturbed, overlapped>>

-----------------------------------------------------------------------------
\* Mutant: the server's time is estimated with the wall clock.
estimatedByWall(s) ==
  s.anchorServer + IF wall < s.lastWall THEN 0 ELSE wall - s.lastWall

\* estimated_server_now: the anchor and the monotonic time since, never less
\* than none.
estimatedServerNow(s) ==
  s.anchorServer + IF uptime < s.anchorMono THEN 0 ELSE uptime - s.anchorMono

\* can_login_offline of the validator: the wall clock has not moved backward
\* and the token has not expired, each with the tolerated skew.
Allowed(s) ==
  /\ wall + Skew >= s.lastWall
  /\ estimatedServerNow(s) <= s.anchorServer + Window + Skew

\* The answer to the program, and then the session that was loaded is saved
\* with the wall clock of this moment, whatever the answer is and whatever has
\* been stored since.
SaveBack(p) ==
  /\ pc[p] = "check"
  /\ store' = [loaded[p] EXCEPT !.lastWall = wall]
  /\ torn' = FALSE
  /\ Return(p)
  /\ UNCHANGED <<clocks, server, disturbed, overlapped, cleared>>

-----------------------------------------------------------------------------
\* The sessions that the server has changed and the machine never hears of when
\* the calls of ps end here.
Loses(ps) ==
  {answer[p].sid : p \in {q \in ps : pc[q] = "save"}}
    \cup {loaded[p].sid : p \in {q \in ps : pc[q] = "clear"}}

\* A call raises or its process dies: a request fails, the server refuses, the
\* JWKS cannot be fetched, the program is closed.  One that dies while it
\* writes leaves half a file.
Fail(p) ==
  /\ pc[p] # "idle"
  /\ Return(p)
  /\ disturbed' = disturbed \cup Loses({p})
  /\ \/ UNCHANGED <<store, torn>>
     \/ /\ pc[p] \in {"save", "check"}
        /\ store' = NoSession
        /\ torn' = TRUE
  /\ UNCHANGED <<clocks, server, overlapped, cleared>>

Tick ==
  /\ time < MaxTime
  /\ wall < MaxTime
  /\ time' = time + 1
  /\ wall' = wall + 1
  /\ uptime' = uptime + 1
  /\ UNCHANGED <<era, store, torn, server, pc, loaded, answer, disturbed,
                 overlapped, cleared>>

\* The machine sleeps: the monotonic clock stands still.
Sleep ==
  /\ time < MaxTime
  /\ wall < MaxTime
  /\ time' = time + 1
  /\ wall' = wall + 1
  /\ era' = era + 1
  /\ UNCHANGED <<uptime, store, torn, server, pc, loaded, answer, disturbed,
                 overlapped, cleared>>

\* The machine boots: no process is left, the monotonic clock starts again.
Boot ==
  /\ time < MaxTime
  /\ wall < MaxTime
  /\ time' = time + 1
  /\ wall' = wall + 1
  /\ uptime' = 0
  /\ era' = era + 1
  /\ pc' = [p \in Procs |-> "idle"]
  /\ loaded' = [p \in Procs |-> NoSession]
  /\ answer' = [p \in Procs |-> NoAnswer]
  /\ disturbed' = disturbed \cup Loses(Procs)
  /\ UNCHANGED <<store, torn, server, overlapped, cleared>>

\* The user sets the wall clock.
SetWall ==
  /\ wall' \in 0 .. MaxTime
  /\ UNCHANGED <<time, uptime, era, store, torn, server, pc, loaded, answer,
                 disturbed, overlapped, cleared>>

Call(p) ==
  \/ StartRefresh(p) \/ StartLogout(p) \/ StartCheck(p)
  \/ ServerLogin(p) \/ ServerRotates(p)
  \/ ServerSeesReplay(p) \/ ServerLogout(p)
  \/ SaveSession(p) \/ Clear(p) \/ SaveBack(p) \/ Fail(p)

ONext ==
  \/ \E p \in Procs : Call(p)
  \/ Tick
  \/ Sleep
  \/ Boot
  \/ SetWall

OSpec == OInit /\ [][ONext]_ovars

-----------------------------------------------------------------------------
\* "Permitir login offline por ate 72 horas"
\* (docs/security/offline-login-model.md:6): whatever the user does to the wall
\* clock, and whichever processes have saved what over what, nobody is admitted
\* later than the window after the answer, the skew, and the delay with which
\* the answer was saved, as long as the machine has not slept or booted since.
WindowHolds ==
  \A p \in Procs :
    LET s == loaded[p]
    IN  pc[p] = "check" /\ s.era = era /\ Allowed(s) =>
          time <= s.anchorServer + Window + Skew + s.lag

\* A session is revoked for replay only if an answer or the JWKS after it was
\* lost, or two calls worked on it at a time: one process whose requests all
\* succeed is never thrown out.
NoSelfReplay ==
  \A s \in Tokens :
    state[s] = "refresh_replay" => s \in disturbed \cup overlapped

\* The token that is stored, with no call under way, is the one the server
\* holds for a live session, unless the session has been through that.
StoredTokenWorks ==
  LET s == store.sid
  IN  s # 0 /\ UsersOf(s) = {} /\ s \notin disturbed \cup overlapped
        => state[s] = "live" /\ hash[s] = store.token

\* A session that a logout has cleared is gone from the machine: only an
\* offline check or refresh that had loaded it can save it again.
LogoutForgets ==
  \A s \in cleared \ overlapped : store.sid # s /\ UsersOf(s) = {}

=============================================================================
