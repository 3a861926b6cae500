----------------------------- MODULE MCProtomux -----------------------------
(* Instances of Protomux: two ends and two keys.                           *)
EXTENDS Protomux, TLC

CONSTANTS a, b, k1, k2

\* No definition tells one key from another.
KeySymmetry == Permutations(Key)
=============================================================================
