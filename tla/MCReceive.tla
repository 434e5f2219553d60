----------------------------- MODULE MCReceive -----------------------------
(***************************************************************************)
(* What a device does with what arrives, for TLC: the operations of a      *)
(* group, and the chunks of files.  Neither reads the other's state: a     *)
(* behaviour exercises one of them, `part', with the other at rest.        *)
(***************************************************************************)
EXTENDS MCGroupLog, Reassembler

CONSTANTS f1, f2

VARIABLE part

\* Two files of one sender.  Of f1 every chunk comes twice, under a right or a
\* wrong size; f2 does not fit the budget.
SenderOf(x) == b
CountOf(x) == IF x = f1 THEN 2 ELSE 3
BytesOf(x) == IF x = f1 THEN 1 ELSE 2
TimesOf(x) == IF x = f1 THEN 2 ELSE 1
SizesOf(x) == IF x = f1 THEN 1 .. 2 ELSE {6}

RInit == part \in {"group", "files"} /\ Init /\ FilesInit

RNext ==
    /\ \/ part = "group" /\ Next /\ UNCHANGED fileVars
       \/ part = "files" /\ FilesNext /\ UNCHANGED vars
    /\ UNCHANGED part

RSpec ==
    /\ RInit /\ [][RNext]_<<part, vars, fileVars>>
    /\ WF_fileVars(part = "files" /\ runRetryWalk)
    /\ WF_fileVars(part = "files" /\ Tick)
=============================================================================
