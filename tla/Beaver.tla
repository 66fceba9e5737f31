------------------------------- MODULE Beaver -------------------------------
(***************************************************************************)
(* Beaver triples over Z_q (include/beaver.hpp, src/beaver.cpp): the       *)
(* dealer's generate_triple, whose five random draws are its arguments,    *)
(* and the two parties' beaver_mul.                                        *)
(***************************************************************************)
EXTENDS Field

BeaverTriples(q) ==
  [a1 : Residues(q), a2 : Residues(q), b1 : Residues(q), b2 : Residues(q),
   c1 : Residues(q), c2 : Residues(q)]

(* The default-constructed struct. *)
no_triple == [a1 |-> 0, a2 |-> 0, b1 |-> 0, b2 |-> 0, c1 |-> 0, c2 |-> 0]

(* a b = c on the sums of the shares. *)
is_triple(T, q) ==
  mod_mul(mod_add(T.a1, T.a2, q), mod_add(T.b1, T.b2, q), q)
    = mod_add(T.c1, T.c2, q)

-----------------------------------------------------------------------------
(* Plausible slips in the code below, for the mutation runs. *)

generate_triple_unshared_c(a, b, a1, b1, c1, q) ==
  [a1 |-> a1, a2 |-> mod_sub(a, a1, q),
   b1 |-> b1, b2 |-> mod_sub(b, b1, q),
   c1 |-> 0, c2 |-> mod_mul(a, b, q)]

generate_triple_of_first_shares(a, b, a1, b1, c1, q) ==
  [a1 |-> a1, a2 |-> mod_sub(a, a1, q),
   b1 |-> b1, b2 |-> mod_sub(b, b1, q),
   c1 |-> c1, c2 |-> mod_sub(mod_mul(a1, b1, q), c1, q)]

product_share_2_with_de(d, e, T, q) ==
  mod_add(mod_add(mod_add(T.c2, mod_mul(d, T.b2, q), q),
                  mod_mul(e, T.a2, q), q),
          mod_mul(d, e, q), q)

product_share_1_swapped(d, e, T, q) ==
  mod_add(mod_add(mod_add(T.c1, mod_mul(e, T.b1, q), q),
                  mod_mul(d, T.a1, q), q),
          mod_mul(d, e, q), q)

-----------------------------------------------------------------------------
generate_triple(a, b, a1, b1, c1, q) ==
  [a1 |-> a1, a2 |-> mod_sub(a, a1, q),
   b1 |-> b1, b2 |-> mod_sub(b, b1, q),
   c1 |-> c1, c2 |-> mod_sub(mod_mul(a, b, q), c1, q)]

(* Both parties mask their share of v with their share of a triple's a or  *)
(* b, and open the sum: d for x and a, e for y and b.                      *)
opened(v1, v2, mask1, mask2, q) ==
  mod_add(mod_sub(v1, mask1, q), mod_sub(v2, mask2, q), q)

(* The parties' shares of the product; party 1 absorbs the public d e. *)
product_share_1(d, e, T, q) ==
  mod_add(mod_add(mod_add(T.c1, mod_mul(d, T.b1, q), q),
                  mod_mul(e, T.a1, q), q),
          mod_mul(d, e, q), q)

product_share_2(d, e, T, q) ==
  mod_add(mod_add(T.c2, mod_mul(d, T.b2, q), q), mod_mul(e, T.a2, q), q)

beaver_mul(x1, x2, y1, y2, T, q) ==
  LET d == opened(x1, x2, T.a1, T.a2, q)
      e == opened(y1, y2, T.b1, T.b2, q)
  IN  <<product_share_1(d, e, T, q), product_share_2(d, e, T, q)>>
=============================================================================
