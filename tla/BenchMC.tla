------------------------------ MODULE BenchMC ------------------------------
(* A small instance of Bench: four-bit ints and a few words. *)
EXTENDS Bench

MCWords == {"--md", "-n", "--csv", "--help", "3", "-2", "6", ""}

MCStoi == [w \in MCWords |-> CASE w = "3" -> 3 [] w = "-2" -> -2
                                [] w = "6" -> 6 [] OTHER -> NoInt]
=============================================================================
