---------------------------- MODULE MCKeyCodec ----------------------------
(* Instances of KeyCodec for TLC. *)
EXTENDS KeyCodec

\* Key lengths in the order of the real ones; the second needs two digits of the prefix.
TwoSizes ==
  [Level1 |-> [public_key |-> 1, private_key |-> 2],
   Level3 |-> [public_key |-> 2, private_key |-> 4]]
=============================================================================
