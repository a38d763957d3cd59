------------------------ MODULE MCRegistrySignaling ------------------------
(* Two processes that write and one that only reads, one custom model.       *)
EXTENDS RegistrySignaling, TLC

CONSTANTS w1, w2, r1

MCSymmetry == Permutations({w1, w2})

=============================================================================
