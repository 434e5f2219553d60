----------------------------- MODULE MCDatabase -----------------------------
(***************************************************************************)
(* The app's database for TLC: its write-ahead log, and the life of its    *)
(* key. The log's pages are ciphertext and the key is set before the first *)
(* of them is read, so neither sees the other's state: a behaviour         *)
(* exercises one of them, `part', with the other at rest.                  *)
(***************************************************************************)
EXTENDS Wal, KeyStore, TLC

VARIABLE part

\* What a random draw is made from.
Draws == 1 .. 5

DInit == part \in {"log", "key"} /\ Init /\ KeyInit

DNext ==
    /\ \/ part = "log" /\ Next /\ UNCHANGED keyVars
       \/ part = "key" /\ KeyNext /\ UNCHANGED vars
    /\ UNCHANGED part

DSpec == DInit /\ [][DNext]_<<part, vars, keyVars>>

PageSymmetry == Permutations(Pages)
=============================================================================
