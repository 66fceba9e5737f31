----------------------------- MODULE ScalarMul -----------------------------
(***************************************************************************)
(* The loop of scalar_mul (src/ec_point.cpp): right-to-left double-and-add *)
(* for any scalar, negative ones included, and any point of the curve.     *)
(* Checked against repeated addition.                                      *)
(***************************************************************************)
EXTENDS EcPoint, FiniteSets

CONSTANT MaxScalar   \* bound: scalars are -MaxScalar..MaxScalar

ASSUME MaxScalarAssumption == MaxScalar \in Nat

VARIABLES pc,    \* "call", "loop" or "returned"
          k, P,  \* the arguments; negated when the call recurses
          arg,   \* history: the caller's own k and P
          R, Q,  \* the accumulators
          i      \* the loop counter

vars == <<pc, k, P, arg, R, Q, i>>

Scalars == (-MaxScalar)..MaxScalar

TypeOK ==
  /\ pc \in {"call", "loop", "returned"}
  /\ k \in Scalars
  /\ {P, R, Q} \subseteq CurvePoints
  /\ arg \in [k : Scalars, P : CurvePoints]
  /\ i \in 0..MaxScalar

Init ==
  /\ pc = "call"
  /\ k \in Scalars /\ P \in CurvePoints /\ arg = [k |-> k, P |-> P]
  /\ R = identity /\ Q = identity /\ i = 0

-----------------------------------------------------------------------------
(* Plausible slips in the code below, for the mutation runs. *)

Recurse_without_negating_P ==
  /\ pc = "call" /\ ~P.infinity /\ k < 0
  /\ k' = -k
  /\ UNCHANGED <<pc, P, arg, R, Q, i>>

Iterate_doubling_first ==
  /\ pc = "loop" /\ i < num_bits(k)
  /\ Q' = point_double(Q)
  /\ R' = IF tstbit(k, i) THEN point_add(R, Q') ELSE R
  /\ i' = i + 1
  /\ UNCHANGED <<pc, k, P, arg>>

-----------------------------------------------------------------------------
ReturnAtOnce ==
  /\ pc = "call" /\ (P.infinity \/ k = 0)
  /\ R' = IF P.infinity THEN P ELSE identity
  /\ pc' = "returned"
  /\ UNCHANGED <<k, P, arg, Q, i>>

Recurse ==
  /\ pc = "call" /\ ~P.infinity /\ k < 0
  /\ k' = -k /\ P' = point_neg(P)
  /\ UNCHANGED <<pc, arg, R, Q, i>>

EnterLoop ==
  /\ pc = "call" /\ ~P.infinity /\ k > 0
  /\ R' = identity /\ Q' = P /\ i' = 0
  /\ pc' = "loop"
  /\ UNCHANGED <<k, P, arg>>

Iterate ==
  /\ pc = "loop" /\ i < num_bits(k)
  /\ LET acc == add_then_double(k, [R |-> R, Q |-> Q], i)
     IN  R' = acc.R /\ Q' = acc.Q
  /\ i' = i + 1
  /\ UNCHANGED <<pc, k, P, arg>>

ReturnR ==
  /\ pc = "loop" /\ i = num_bits(k)
  /\ pc' = "returned"
  /\ UNCHANGED <<k, P, arg, R, Q, i>>

Next == ReturnAtOnce \/ Recurse \/ EnterLoop \/ Iterate \/ ReturnR

Spec == Init /\ [][Next]_vars

-----------------------------------------------------------------------------
(* At the head of the loop R holds the multiple of P that the bits read so *)
(* far make up, and Q the power-of-two multiple that the next bit stands   *)
(* for; the last doubling is skipped, so Q lags once every bit is read.    *)
AccumulatorsTrackBits ==
  pc = "loop" =>
    /\ R = times(k % two_to[i], P)
    /\ Q = times(two_to[IF i < num_bits(k) THEN i ELSE i - 1], P)

(* Whatever the call negates on its way, it returns the multiple of the    *)
(* caller's own point: k additions of P for k >= 0, and for k < 0 the      *)
(* point that cancels |k| additions of P.                                  *)
ReturnsMultiple ==
  pc = "returned" =>
    IF arg.k >= 0 THEN R = times(arg.k, arg.P)
    ELSE point_add(R, times(-arg.k, arg.P)) = identity

(* point_add, point_double and point_neg obey the group laws on the points *)
(* the loop holds: adding commutes and associates, doubling is adding a    *)
(* point to itself, and a point and its negation cancel.                   *)
AccumulatorsObeyGroupLaws ==
  /\ point_add(R, Q) = point_add(Q, R)
  /\ point_add(Q, Q) = point_double(Q)
  /\ point_add(Q, point_neg(Q)) = identity
  /\ point_add(point_add(R, Q), P) = point_add(R, point_add(Q, P))
=============================================================================
