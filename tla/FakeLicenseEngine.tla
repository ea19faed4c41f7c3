--------------------------- MODULE FakeLicenseEngine ---------------------------
(***************************************************************************)
(* The in-memory license engine that the API runs on without a database    *)
(* (license-runtime/adapters/fake-license-engine.adapter.ts): what the     *)
(* runtime endpoints do to one license, each in one step, because nothing  *)
(* in the adapter awaits.  The contract test is written against it, so it  *)
(* says what a client may expect of the engine that has a database.        *)
(*                                                                         *)
(* A call that is refused (license unknown, blocked or expired, no         *)
(* fingerprint, a device that does not match, a limit reached) and a       *)
(* heartbeat change nothing.                                               *)
(***************************************************************************)
EXTENDS Naturals, FiniteSets

CONSTANTS Fingerprints,    \* fingerprint hashes of machines
          TransferLimit    \* transfers a month, 3 in the code

VARIABLES maxDevices,          \* the limit of the plan: the engine sets it to 1
                               \* with the state of the license and then only
                               \* reads it, so no step says what becomes of it
          devices,             \* the machines of the license
          transferCountMonth   \* transfers counted in the current month: the
                               \* adapter resets a count of an earlier month
                               \* when the next transfer reads it

engineVars == <<devices, transferCountMonth>>

\* A license starts without devices; one whose key says LIM-TRN has used up
\* its transfers.
EngineInit ==
  /\ devices = {}
  /\ transferCountMonth \in {0, TransferLimit}

\* The first device is registered, any other but a registered one is refused.
Validate(f) ==
  /\ devices = {}
  /\ devices' = {f}
  /\ UNCHANGED transferCountMonth

\* A device is added while the plan has room.
Activate(f) ==
  /\ f \in devices \/ Cardinality(devices) < maxDevices
  /\ devices' = devices \cup {f}
  /\ UNCHANGED transferCountMonth

\* The machine replaces all the devices, up to the limit of the month.
Transfer(f) ==
  /\ transferCountMonth < TransferLimit
  /\ devices' = {f}
  /\ transferCountMonth' = transferCountMonth + 1

\* A registered device is removed.
Deactivate(f) ==
  /\ f \in devices
  /\ devices' = devices \ {f}
  /\ UNCHANGED transferCountMonth

\* The month key changes.
NewMonth ==
  /\ transferCountMonth' = 0
  /\ UNCHANGED devices

EngineNext ==
  \/ \E f \in Fingerprints :
       Validate(f) \/ Activate(f) \/ Transfer(f) \/ Deactivate(f)
  \/ NewMonth

EngineSpec == EngineInit /\ [][EngineNext]_engineVars

=============================================================================
