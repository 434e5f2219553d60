---------------------------- MODULE MCDelivery ----------------------------
(* Instances of Delivery for TLC.                                          *)
EXTENDS Delivery

CONSTANTS
    Picks,      \* bound: the sets of messages one behaviour may send
    Spent       \* bound: how much of the first chain may be spent before

\* A few of the messages, early or late in the chain.
MCInit ==
    \E pick \in Picks, k \in Spent : InitAt(k, Msgs \ pick)

MCSpec == MCInit /\ [][Next]_vars
MCFairSpec == MCSpec /\ Fairness

===========================================================================
