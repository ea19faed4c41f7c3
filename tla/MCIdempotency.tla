---------------------------- MODULE MCIdempotency ----------------------------
(***************************************************************************)
(* Instance of Idempotency: r1 and r2 are one mutation and its retry, r3   *)
(* reuses their key with another payload.                                  *)
(***************************************************************************)
EXTENDS Idempotency, TLC

CONSTANTS r1, r2, r3, k1, h1, h2

MCKeyOf == [r \in Requests |-> k1]

MCHashOf == [r \in Requests |-> IF r = r3 THEN h2 ELSE h1]

=============================================================================
