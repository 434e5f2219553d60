----------------------- MODULE MCChainValidatorStore -----------------------
(* Small instances of ChainValidatorStore for TLC. *)
EXTENDS ChainValidatorStore, TLC

CONSTANTS p1, p2, c1, c2, r1

Symmetry == Permutations({p1, p2}) \cup Permutations({c1, c2})
=============================================================================
