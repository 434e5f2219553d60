--------------------------- MODULE MCRelayRouter ---------------------------
(* Small instances of RelayRouter for TLC: one sender with two connections, *)
(* one recipient with two.                                                  *)
EXTENDS RelayRouter, TLC

CONSTANTS a, b, a1, a2, b1, b2

Owner(c) == IF c \in {a1, a2} THEN a ELSE b
UnitSize(m) == 1

Message(id, kind) == [id |-> id, from |-> a, to |-> b, kind |-> kind]
SendAndSeed == {Message(1, "send"), Message(2, "seed")}
AllKinds == SendAndSeed \cup {Message(3, "bundle")}
TwoSends == {Message(1, "send"), Message(2, "send")}
OneSend == {Message(1, "send")}

RecipientSymmetry == Permutations({b1, b2})
Symmetry == RecipientSymmetry \cup Permutations({a1, a2})
=============================================================================
