------------------------------ MODULE Protocol ------------------------------
(***************************************************************************)
(* What the router and the workers share: the vocabulary of heartbeats and *)
(* their acks (internal/protocol/heartbeat.go), and time.                  *)
(*                                                                         *)
(* A time.Time becomes an age, the time since that instant.  The code only *)
(* compares time.Since of a field with a threshold, or two such fields     *)
(* with one another, so ages stop growing at MaxAge, which every module    *)
(* assumes to lie beyond its thresholds.                                   *)
(***************************************************************************)
EXTENDS Integers, Sequences, FiniteSets, Functions

CONSTANTS
  ConnState,      \* ConnStateConnecting, ConnStateRegistered, ConnStateDegraded
  Reason,         \* AckReasonAuthFailed, AckReasonInactive, AckReasonInternal
  Load,           \* values of a heartbeat's active_requests
  MaxAge          \* bound: ages are not told apart beyond it

ASSUME ProtocolAssumption ==
  /\ Load \subseteq Nat /\ MaxAge \in Nat

Age == 0 .. MaxAge
Older(age) == IF age < MaxAge THEN age + 1 ELSE age
=============================================================================
