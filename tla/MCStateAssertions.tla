-------------------------- MODULE MCStateAssertions --------------------------
(* Instances of StateAssertions for TLC. *)
EXTENDS StateAssertions, TLC

MCSymmetry == Permutations(Clients) \cup Permutations(Assertions)

==============================================================================
