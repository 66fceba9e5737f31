--------------------------- MODULE NonceFunction ---------------------------
(***************************************************************************)
(* What derive_nonce promises to the signer that calls it: an unknown      *)
(* function.  An input asked for the first time gets any answer; asked     *)
(* again, it gets the same one.                                            *)
(***************************************************************************)
CONSTANTS Inputs,  \* what the function may be asked
          Nonces,  \* what it may answer
          None     \* no input

VARIABLES input,   \* the input of the call in progress, None outside calls
          graph    \* the pairs <<input, nonce>> answered so far

Init == input = None /\ graph = {}

Ask(i) ==
  /\ input = None
  /\ input' = i
  /\ UNCHANGED graph

Answer(k) ==
  /\ input # None
  /\ \A e \in graph : e[1] = input => e[2] = k
  /\ graph' = graph \cup {<<input, k>>}
  /\ input' = None

Next == (\E i \in Inputs : Ask(i)) \/ (\E k \in Nonces : Answer(k))

Spec == Init /\ [][Next]_<<input, graph>>
=============================================================================
