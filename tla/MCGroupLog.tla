----------------------------- MODULE MCGroupLog -----------------------------
(* Small instances of GroupLog for TLC: the creator a and two contacts.      *)
EXTENDS GroupLog

CONSTANTS a, b, c, n1, n2

\* The first members besides the creator: one contact or both.
Alone == {{b}}
Both == {{b, c}}

\* Every device is paired with every other and never short of tokens.
FullReach == [d \in {a, b, c} |-> {{a, b, c}}]
\* The invited know the creator and not each other.
StarReach == a :> {{a, b, c}} @@ b :> {{a, b}} @@ c :> {{a, c}}
=============================================================================
