----------------------------- MODULE ReplayStore -----------------------------
(***************************************************************************)
(* What the API promises about the Idempotency-Key header, without saying  *)
(* how a request talks to the database: a key opens a window owned by one  *)
(* request; until the window closes every other request with the key is    *)
(* refused or, once the owner has completed and if the payloads agree, is  *)
(* given the owner's response.  A window closes when its owner fails or    *)
(* when its time to live is over, and for no other reason.                 *)
(***************************************************************************)
EXTENDS Naturals

CONSTANTS Requests,   \* the HTTP requests that carry an Idempotency-Key
          Keys,       \* the (idempotency key, endpoint) pairs
          None,       \* no request
          KeyOf,      \* the pair a request carries
          HashOf,     \* the hash of its payload
          TTL         \* how long a window stays open at most

VARIABLES clock,      \* wall clock
          window,     \* per key: the window that is open, or Closed
          outcome     \* per request: how the API answered it

storeVars == <<clock, window, outcome>>

Closed == [owner |-> None, response |-> None, closesAt |-> 0]

NoOutcome == [kind |-> "none", body |-> None]

Answer(r, kind, body) ==
  /\ outcome[r] = NoOutcome
  /\ outcome' = [outcome EXCEPT ![r] = [kind |-> kind, body |-> body]]

StoreInit ==
  /\ clock = 0
  /\ window = [k \in Keys |-> Closed]
  /\ outcome = [r \in Requests |-> NoOutcome]

\* Time passes.
Pass ==
  /\ clock' > clock
  /\ UNCHANGED <<window, outcome>>

\* A request opens the window of its key: it is the one that executes.
Open(r) ==
  /\ outcome[r] = NoOutcome
  /\ window[KeyOf[r]] = Closed
  /\ \E t \in 0 .. clock + TTL :
       window' = [window EXCEPT ![KeyOf[r]] =
                    [owner |-> r, response |-> None, closesAt |-> t]]
  /\ UNCHANGED <<clock, outcome>>

\* The owner completes: its response is kept and sent.
Complete(r) ==
  /\ window[KeyOf[r]].owner = r
  /\ window[KeyOf[r]].response = None
  /\ window' = [window EXCEPT ![KeyOf[r]].response = r]
  /\ Answer(r, "fresh", r)
  /\ UNCHANGED clock

\* A completed window answers a request that has the owner's payload.
Replay(r) ==
  LET w == window[KeyOf[r]]
  IN  /\ w.response # None
      /\ HashOf[w.owner] = HashOf[r]
      /\ Answer(r, "replay", w.response)
      /\ UNCHANGED <<clock, window>>

\* An open window refuses a request with another payload, or any request
\* while the owner has not completed.
Refuse(r) ==
  /\ Answer(r, "conflict", None)
  /\ UNCHANGED <<clock, window>>

\* A request ends without a response of its own or of another.
Break(r) ==
  /\ \E kind \in {"failed", "uncaught", "lost"} : Answer(r, kind, None)
  /\ UNCHANGED <<clock, window>>

\* The owner fails and gives the key back.
Abandon(r) ==
  /\ window[KeyOf[r]].owner = r
  /\ window[KeyOf[r]].response = None
  /\ window' = [window EXCEPT ![KeyOf[r]] = Closed]
  /\ Answer(r, "failed", None)
  /\ UNCHANGED clock

\* Windows whose time to live is over close.
Expire(ks) ==
  /\ \A k \in ks : window[k].closesAt <= clock
  /\ window' = [k \in Keys |-> IF k \in ks THEN Closed ELSE window[k]]
  /\ UNCHANGED <<clock, outcome>>

StoreNext ==
  \/ Pass
  \/ \E ks \in SUBSET Keys : Expire(ks)
  \/ \E r \in Requests :
       \/ Open(r) \/ Complete(r) \/ Abandon(r)
       \/ Replay(r) \/ Refuse(r) \/ Break(r)

StoreSpec == StoreInit /\ [][StoreNext]_storeVars

=============================================================================
