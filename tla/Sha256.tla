------------------------------- MODULE Sha256 -------------------------------
(***************************************************************************)
(* What src/sha256.cpp hashes: the padding of a message to whole blocks.   *)
(* The compression of the blocks is left to the modules that use this one, *)
(* as an unknown function of the padded message.                           *)
(***************************************************************************)
EXTENDS Gmp, Sequences

CONSTANTS OctetBits,     \* bits in an octet (8 in the code)
          BlockOctets,   \* octets in a block (64 in the code)
          LengthOctets   \* octets the length takes up (8 in the code)

ASSUME Sha256Assumption ==
  /\ OctetBits \in Nat \ {0}
  /\ LengthOctets \in Nat \ {0}
  /\ BlockOctets \in Nat /\ BlockOctets > LengthOctets

Octets == 0..(two_to[OctetBits] - 1)

(* x as len octets, most significant first. *)
big_endian(x, len) ==
  [i \in 1..len |-> (x \div two_to[OctetBits * (len - i)]) % two_to[OctetBits]]

zeros(count) == [i \in 1..count |-> 0]

(* The octet 0x80, the length in bits, and what separates them. *)
marked(data) == Append(data, two_to[OctetBits - 1])
bitlen(data) == (Len(data) * OctetBits) % two_to[OctetBits * LengthOctets]

(* A slip: room for the length is made in the first block only.            *)
padded_in_one_block(data) ==
  LET room == BlockOctets - LengthOctets
      fill == IF Len(marked(data)) < room THEN room - Len(marked(data)) ELSE 0
  IN  marked(data) \o zeros(fill) \o big_endian(bitlen(data), LengthOctets)

(* buf, as the loop over its chunks finds it. *)
padded(data) ==
  LET fill == CHOOSE c \in 0..(BlockOctets - 1) :
                (Len(marked(data)) + c + LengthOctets) % BlockOctets = 0
  IN  marked(data) \o zeros(fill) \o big_endian(bitlen(data), LengthOctets)
=============================================================================
