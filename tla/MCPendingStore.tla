--------------------------- MODULE MCPendingStore ---------------------------
(* A small instance of PendingStore for TLC.  A body is its own length. *)
EXTENDS PendingStore, TLC

CONSTANTS p1, p2, p3

BodySize(b) == b

Symmetry3 == Permutations({p1, p2, p3})
=============================================================================
