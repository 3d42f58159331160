------------------------------ MODULE MCHybrid ------------------------------
(* Instances of Hybrid for TLC. *)
EXTENDS Hybrid, TLC

CONSTANTS alice, carol

TwoLevels == {"Level1", "Level3"}

Holders == Permutations({alice, carol})
=============================================================================
