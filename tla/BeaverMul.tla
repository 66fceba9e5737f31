----------------------------- MODULE BeaverMul -----------------------------
(***************************************************************************)
(* One secret-shared multiplication, step by step: the dealer hands out a  *)
(* triple, the two parties open d and e, and each computes its share of    *)
(* the product from what it then knows (src/beaver.cpp).  The inputs are   *)
(* arbitrary shares, the dealer's draws arbitrary residues.                *)
(***************************************************************************)
EXTENDS Beaver, FiniteSets

CONSTANT q   \* the modulus; the code calls with the group order

ASSUME ModulusAssumption == q \in Nat /\ q >= 2

VARIABLES stage, \* the next step of the multiplication
          x,    \* <<x1, x2>>: the parties' shares of x
          y,    \* <<y1, y2>>: the parties' shares of y
          T,    \* the triple
          d, e, \* the opened values
          z     \* <<z1, z2>>: the parties' shares of the result

mul_vars == <<stage, x, y, T, d, e, z>>

SharePairs == Residues(q) \X Residues(q)

MulTypeOK ==
  /\ stage \in {"deal", "open", "multiply", "done"}
  /\ x \in SharePairs /\ y \in SharePairs /\ z \in SharePairs
  /\ T \in BeaverTriples(q)
  /\ d \in Residues(q) /\ e \in Residues(q)

MulInit ==
  /\ stage = "deal"
  /\ x \in SharePairs /\ y \in SharePairs
  /\ T = no_triple /\ d = 0 /\ e = 0 /\ z = <<0, 0>>

GenerateTriple ==
  /\ stage = "deal"
  /\ \E a, b, a1, b1, c1 \in Residues(q) :
        T' = generate_triple(a, b, a1, b1, c1, q)
  /\ stage' = "open"
  /\ UNCHANGED <<x, y, d, e, z>>

OpenMasked ==
  /\ stage = "open"
  /\ d' = opened(x[1], x[2], T.a1, T.a2, q)
  /\ e' = opened(y[1], y[2], T.b1, T.b2, q)
  /\ stage' = "multiply"
  /\ UNCHANGED <<x, y, T, z>>

MultiplyLocally ==
  /\ stage = "multiply"
  /\ z' = <<product_share_1(d, e, T, q), product_share_2(d, e, T, q)>>
  /\ stage' = "done"
  /\ UNCHANGED <<x, y, T, d, e>>

MulNext == GenerateTriple \/ OpenMasked \/ MultiplyLocally

MulSpec == MulInit /\ [][MulNext]_mul_vars

-----------------------------------------------------------------------------
(* The two result shares always sum to the product of the shared inputs,   *)
(* for every sharing of the inputs and every triple the dealer can deal    *)
(* (beaver_mul's claim z1 + z2 = x*y).                                     *)
ProductIsShared ==
  stage = "done" =>
    mod_add(z[1], z[2], q)
      = mod_mul(mod_add(x[1], x[2], q), mod_add(y[1], y[2], q), q)

(* The triples the dealer can deal. *)
DealtTriples ==
  {generate_triple(a, b, a1, b1, c1, q) :
     a, b, a1, b1, c1 \in Residues(q)}

(* Those that agree with the triple dealt in party 1's, in party 2's       *)
(* thirds.                                                                 *)
PossibleTo1 ==
  {U \in DealtTriples : U.a1 = T.a1 /\ U.b1 = T.b1 /\ U.c1 = T.c1}
PossibleTo2 ==
  {U \in DealtTriples : U.a2 = T.a2 /\ U.b2 = T.b2 /\ U.c2 = T.c2}

(* Those that would have opened this d and e had the inputs been the       *)
(* shares u of x and v of y.                                               *)
Explaining(candidates, u, v) ==
  {U \in candidates : /\ opened(u[1], u[2], U.a1, U.a2, q) = d
                      /\ opened(v[1], v[2], U.b1, U.b2, q) = e}

(* Once d and e are open, each party still finds every value of the other  *)
(* party's input shares equally likely: exactly one of the equiprobable    *)
(* triples that match its own third explains each of them.  This is the    *)
(* comment's "d, e information-theoretically hide x, y".                   *)
OpeningHidesShares ==
  stage = "multiply" =>
    \A s, t \in Residues(q) :
       /\ Cardinality(Explaining(PossibleTo1, <<x[1], s>>, <<y[1], t>>)) = 1
       /\ Cardinality(Explaining(PossibleTo2, <<s, x[2]>>, <<t, y[2]>>)) = 1
=============================================================================
