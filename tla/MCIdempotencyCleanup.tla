------------------------ MODULE MCIdempotencyCleanup ------------------------
(***************************************************************************)
(* Instance of IdempotencyCleanup: r1 and r2 share a key, so that a row is *)
(* removed and another created for it between two statements of the job,   *)
(* and r3 has a key of its own, so that a batch of one leaves a row for a  *)
(* later run.                                                              *)
(***************************************************************************)
EXTENDS IdempotencyCleanup, TLC

CONSTANTS r1, r2, r3, k1, k2, h1

MCKeyOf == [r \in Requests |-> IF r = r3 THEN k2 ELSE k1]

MCHashOf == [r \in Requests |-> h1]

\* r3 is there for its row only: it starts at time 0 and hangs, or dies, before
\* its use case does anything.
RowLeftBehind ==
  r3 \in Requests /\ pc'[r3] # pc[r3] =>
    /\ pc'[r3] \in {"find", "create", "execute", "answered"}
    /\ pc[r3] = "start" => clock = 0

=============================================================================
