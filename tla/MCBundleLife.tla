---------------------------- MODULE MCBundleLife ----------------------------
(* Instances of BundleLife for TLC. *)
EXTENDS BundleLife, TLC

CONSTANTS b1, b2

TwoPassphrases == {"correct", "other"}

Slots == Permutations({b1, b2})
=============================================================================
