------------------------------- MODULE Sessions -------------------------------
(***************************************************************************)
(* The sessions of one end user: login, refresh and logout                 *)
(* (apps/api/src/modules/end-user-auth/services/{login,refresh-session,    *)
(* logout-session}.use-case.ts) beside the administrative block and        *)
(* unblock of the user (end-user-admin.service.ts).  One action per await  *)
(* that reads or writes end_user_sessions or the user's status; nothing is *)
(* locked between a read and the write that follows from it.               *)
(*                                                                         *)
(* A call is one HTTP request.  A session is named by the login that       *)
(* created it and a refresh token by the call that signed it.              *)
(***************************************************************************)
EXTENDS Naturals

CONSTANTS Calls,    \* the requests
          None      \* no token, no session

ASSUME SessionsAssumption == None \notin Calls

VARIABLES status,     \* end_users.status
          session,    \* per login: no row, a live row, or why it is revoked
          hash,       \* refresh_token_hash of the row: a token, or None while pending
          over,       \* the sessions whose expires_at has passed
          pc,         \* the await each call is at
          sid,        \* the session a call works on
          token,      \* the refresh token a call was sent
          known,      \* the refresh tokens clients have received
          held,       \* history: per session, the token received last
          disturbed   \* history: the sessions whose client has sent anything but
                      \* the last token, has sent it twice at a time, or has
                      \* missed an answer

svars == <<status, session, hash, over, pc, sid, token, known, held, disturbed>>

Reasons == {"logout", "user_blocked", "refresh_replay"}

Steps == {"start", "createSession", "storeLogin", "findUser", "rotate", "deliver",
          "revokeReplay", "revokeBlocked", "revokeLogout", "revokeAll", "done"}

\* Everything has its type; a revoked session has one of the reasons the code
\* writes.
TypeOK ==
  /\ status \in {"active", "blocked"}
  /\ session \in [Calls -> {"none", "live"} \cup Reasons]
  /\ hash \in [Calls -> Calls \cup {None}]
  /\ over \in SUBSET Calls
  /\ pc \in [Calls -> Steps]
  /\ sid \in [Calls -> Calls \cup {None}]
  /\ token \in [Calls -> Calls \cup {None}]
  /\ known \in SUBSET Calls
  /\ held \in [Calls -> Calls \cup {None}]
  /\ disturbed \in SUBSET Calls

SInit ==
  /\ status = "active"
  /\ session = [s \in Calls |-> "none"]
  /\ hash = [s \in Calls |-> None]
  /\ over = {}
  /\ pc = [c \in Calls |-> "start"]
  /\ sid = [c \in Calls |-> None]
  /\ token = [c \in Calls |-> None]
  /\ known = {}
  /\ held = [s \in Calls |-> None]
  /\ disturbed = {}

-----------------------------------------------------------------------------
\* A request that is answered without a write (unknown program, invalid or
\* expired token, no entitlement, another fingerprint, rate limit) is a step
\* that changes nothing, so each first action is the path that goes on.
Goto(c, step) == pc' = [pc EXCEPT ![c] = step]

Begin(c, s, t, step) ==
  /\ pc[c] = "start"
  /\ Goto(c, step)
  /\ sid' = [sid EXCEPT ![c] = s]
  /\ token' = [token EXCEPT ![c] = t]

\* The awaits of a refresh after it has read the session.
RefreshSteps == {"findUser", "rotate", "deliver", "revokeReplay", "revokeBlocked"}

Refreshing(s) == {c \in Calls : token[c] # None /\ sid[c] = s /\ pc[c] \in RefreshSteps}

-----------------------------------------------------------------------------
\* Login finds an active user with an entitlement.
Login(c) ==
  /\ status = "active"
  /\ Begin(c, c, None, "createSession")
  /\ UNCHANGED <<status, session, hash, over, known, held, disturbed>>

\* The row is created with refresh_token_hash 'pending'.
CreateSession(c) ==
  /\ pc[c] = "createSession"
  /\ session' = [session EXCEPT ![c] = "live"]
  /\ Goto(c, "storeLogin")
  /\ UNCHANGED <<status, hash, over, sid, token, known, held, disturbed>>

\* Mutant: the row keeps its pending hash.
StoreLoginPending(c) ==
  /\ pc[c] = "storeLogin"
  /\ over' = over \ {c}
  /\ Goto(c, "deliver")
  /\ UNCHANGED <<status, session, hash, sid, token, known, held, disturbed>>

\* The transaction that stores the hash of the signed token and the expiry.
StoreLogin(c) ==
  /\ pc[c] = "storeLogin"
  /\ hash' = [hash EXCEPT ![c] = c]
  /\ over' = over \ {c}
  /\ Goto(c, "deliver")
  /\ UNCHANGED <<status, session, sid, token, known, held, disturbed>>

\* Mutant: revoked_at is not looked at.
RefreshRevoked(c, t) ==
  LET s == sid[t]
  IN  /\ s \notin over
      /\ Begin(c, s, t, IF hash[s] = t THEN "findUser" ELSE "revokeReplay")
      /\ disturbed' = IF held[s] = t /\ Refreshing(s) = {}
                      THEN disturbed ELSE disturbed \cup {s}
      /\ UNCHANGED <<status, session, hash, over, known, held>>

\* Refresh reads the session: a live one goes on to the user, or to its
\* revocation when another token has been stored.
Refresh(c, t) ==
  LET s == sid[t]
  IN  /\ session[s] = "live"
      /\ s \notin over
      /\ Begin(c, s, t, IF hash[s] = t THEN "findUser" ELSE "revokeReplay")
      /\ disturbed' = IF held[s] = t /\ Refreshing(s) = {}
                      THEN disturbed ELSE disturbed \cup {s}
      /\ UNCHANGED <<status, session, hash, over, known, held>>

\* Mutant: the status of the user is not looked at.
FindAnyUser(c) ==
  /\ pc[c] = "findUser"
  /\ Goto(c, "rotate")
  /\ UNCHANGED <<status, session, hash, over, sid, token, known, held, disturbed>>

\* Refresh reads the user; with the same fingerprint and an entitlement it
\* signs new tokens.
FindUser(c) ==
  /\ pc[c] = "findUser"
  /\ Goto(c, IF status = "active" THEN "rotate" ELSE "revokeBlocked")
  /\ UNCHANGED <<status, session, hash, over, sid, token, known, held, disturbed>>

\* Mutant: the hash of the old token stays.
RotateKeepsHash(c) ==
  /\ pc[c] = "rotate"
  /\ session' = [session EXCEPT ![sid[c]] = "live"]
  /\ over' = over \ {sid[c]}
  /\ Goto(c, "deliver")
  /\ UNCHANGED <<status, hash, sid, token, known, held, disturbed>>

\* The update that stores the new hash and expiry also clears revoked_at,
\* whatever has happened to the row since it was read.
Rotate(c) ==
  /\ pc[c] = "rotate"
  /\ hash' = [hash EXCEPT ![sid[c]] = c]
  /\ session' = [session EXCEPT ![sid[c]] = "live"]
  /\ over' = over \ {sid[c]}
  /\ Goto(c, "deliver")
  /\ UNCHANGED <<status, sid, token, known, held, disturbed>>

\* The client receives the tokens.
Deliver(c) ==
  /\ pc[c] = "deliver"
  /\ known' = known \cup {c}
  /\ held' = [held EXCEPT ![sid[c]] = c]
  /\ Goto(c, "done")
  /\ UNCHANGED <<status, session, hash, over, sid, token, disturbed>>

\* Logout reads the session: one that is revoked needs nothing, and neither
\* the expiry nor the stored hash is looked at.
Logout(c, t) ==
  /\ session[sid[t]] = "live"
  /\ Begin(c, sid[t], t, "revokeLogout")
  /\ UNCHANGED <<status, session, hash, over, known, held, disturbed>>

\* The update by id that revokes one session, whatever its state by then.
Revoke(c, step, reason) ==
  /\ pc[c] = step
  /\ session' = [session EXCEPT ![sid[c]] = reason]
  /\ Goto(c, "done")
  /\ UNCHANGED <<status, hash, over, sid, token, known, held, disturbed>>

RevokeReplay(c) == Revoke(c, "revokeReplay", "refresh_replay")

RevokeBlocked(c) == Revoke(c, "revokeBlocked", "user_blocked")

\* Mutant: a reason nothing knows.
RevokeLogoutUnknown(c) == Revoke(c, "revokeLogout", "signed_out")

RevokeLogout(c) == Revoke(c, "revokeLogout", "logout")

\* blockUser, or updateUser to blocked: first the user ...
BlockUser(c) ==
  /\ status' = "blocked"
  /\ Begin(c, None, None, "revokeAll")
  /\ UNCHANGED <<session, hash, over, known, held, disturbed>>

\* ... then every session of the user that is not revoked.
RevokeAll(c) ==
  /\ pc[c] = "revokeAll"
  /\ session' = [s \in Calls |-> IF session[s] = "live" THEN "user_blocked" ELSE session[s]]
  /\ Goto(c, "done")
  /\ UNCHANGED <<status, hash, over, sid, token, known, held, disturbed>>

\* unblockUser, or updateUser to active: the user only.
UnblockUser(c) ==
  /\ status' = "active"
  /\ Begin(c, None, None, "done")
  /\ UNCHANGED <<session, hash, over, known, held, disturbed>>

-----------------------------------------------------------------------------
\* A statement fails, the process dies, or the answer is lost.
Fail(c) ==
  /\ pc[c] \notin {"start", "done"}
  /\ Goto(c, "done")
  /\ disturbed' = IF pc[c] = "deliver" THEN disturbed \cup {sid[c]} ELSE disturbed
  /\ UNCHANGED <<status, session, hash, over, sid, token, known, held>>

\* expires_at passes.
SessionEnds(s) ==
  /\ session[s] # "none"
  /\ over' = over \cup {s}
  /\ UNCHANGED <<status, session, hash, pc, sid, token, known, held, disturbed>>

Arrive(c) ==
  \/ Login(c)
  \/ \E t \in known : Refresh(c, t) \/ Logout(c, t)
  \/ BlockUser(c)
  \/ UnblockUser(c)

Proceed(c) ==
  \/ CreateSession(c)
  \/ StoreLogin(c)
  \/ FindUser(c)
  \/ Rotate(c)
  \/ Deliver(c)
  \/ RevokeReplay(c)
  \/ RevokeBlocked(c)
  \/ RevokeLogout(c)
  \/ RevokeAll(c)
  \/ Fail(c)

SNext ==
  \/ \E c \in Calls : Arrive(c) \/ Proceed(c)
  \/ \E s \in Calls : SessionEnds(s)

SSpec == SInit /\ [][SNext]_svars

-----------------------------------------------------------------------------
\* A session that is revoked while no refresh that has read it live is under
\* way is revoked for good: only a refresh that raced with the revocation can
\* bring a session back (Rotate clears revoked_at).
Settled(s) == session[s] \in Reasons /\ Refreshing(s) = {}

RevocationSettles == [][\A s \in Calls : Settled(s) => Settled(s)']_svars

\* A session is revoked for replay only if its client has sent an old token,
\* has refreshed twice at a time or has missed an answer: a client that does
\* neither is never thrown out (the rotation stores what it then sends).
NoFalseReplay ==
  \A s \in Calls : session[s] = "refresh_replay" => s \in disturbed

\* The calls that have read the user as active and can still hand out tokens.
Trusting == {c \in Calls : pc[c] \in {"createSession", "storeLogin", "rotate", "deliver"}}

\* Once a block has outlasted the calls that read the user before it, nobody
\* gets tokens until the user is unblocked, though sessions that raced with
\* the block may still be live (FindUser asks the user's status again).
BlockShuts ==
  [][status = "blocked" /\ Trusting = {} =>
       /\ known' = known
       /\ status' = "active" \/ Trusting' = {}]_svars

\* The stored hash of a live session is the last token signed for it, so a
\* token the client holds without having been disturbed still refreshes.
HeldTokenWorks ==
  \A s \in Calls \ disturbed :
    held[s] # None /\ Refreshing(s) = {} => hash[s] = held[s]

-----------------------------------------------------------------------------
\* "Bloqueio administrativo de usuario revoga sessoes ativas."
\* (docs/api/auth/README.md:120): a session revoked by a block does not come
\* back to life.
BlockedStaysRevoked ==
  [][\A s \in Calls : session[s] = "user_blocked" => session'[s] # "live"]_svars

=============================================================================
