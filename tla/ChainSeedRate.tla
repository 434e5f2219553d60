--------------------------- MODULE ChainSeedRate ---------------------------
(***************************************************************************)
(* The limits on CHAIN_SEED_DELIVERY frames in read_loop                   *)
(* (relay/src/main.rs): a sliding window per (sender, recipient) pair, a   *)
(* cap on the pairs the shared map may hold, and a per-connection cap on   *)
(* distinct recipients.  A handler reads the clock before it waits for the *)
(* map's lock, so handlers of two connections of one sender may record     *)
(* their times in the other order.                                         *)
(***************************************************************************)
EXTENDS Integers, Sequences, FiniteSets

CONSTANTS
    Conns,          \* connections
    PeerOf(_),      \* the peer a connection said HELLO as
    Targets,        \* to_ids
    RateCap,        \* CHAIN_SEED_DELIVERY_RATE_CAP
    RateWindow,     \* CHAIN_SEED_DELIVERY_RATE_WINDOW
    MaxEntries,     \* CHAIN_SEED_RATE_MAX_ENTRIES
    MaxToIds,       \* CHAIN_SEED_DELIVERY_MAX_DISTINCT_TO_IDS
    Slack,          \* the longest a handler waits for the map's lock
    SeedMaxTime,    \* bound: the clock stops here
    NoFrame

ASSUME SeedAssumption ==
    /\ RateCap \in Nat /\ RateWindow \in Nat /\ Slack \in Nat
    /\ NoFrame \notin [at : Nat, to : Targets]

VARIABLES
    time,
    rate,       \* the shared map: pair -> times, empty when the map has no entry
    toIds,      \* chain_seed_to_ids of each connection
    waiting,    \* connection -> [at, to] of the frame that waits for the lock
    delivered,  \* history: pair -> when its frames were accepted, in order
    refused     \* history: pair -> when its frames were refused by PerPairCap

seedVars == <<time, rate, toIds, waiting, delivered, refused>>

Pairs == {PeerOf(c) : c \in Conns} \X Targets
RateEntries == {p \in Pairs : rate[p] # <<>>}

---------------------------------------------------------------------------
\* Mutant: the bound itself counts as expired.
MutPruned(times, cutoff) ==
    LET keep == {i \in DOMAIN times : times[i] > cutoff}
    IN  IF keep = {} THEN <<>>
        ELSE SubSeq(times, CHOOSE i \in keep : \A j \in keep : i <= j, Len(times))

\* pop_front while the front is before the cutoff; later times stay.
Pruned(times, cutoff) ==
    LET keep == {i \in DOMAIN times : times[i] >= cutoff}
    IN  IF keep = {} THEN <<>>
        ELSE SubSeq(times, CHOOSE i \in keep : \A j \in keep : i <= j, Len(times))

SeedInit ==
    /\ time = 0
    /\ rate = [p \in Pairs |-> <<>>]
    /\ toIds = [c \in Conns |-> {}]
    /\ waiting = [c \in Conns |-> NoFrame]
    /\ delivered = [p \in Pairs |-> <<>>]
    /\ refused = [p \in Pairs |-> {}]

\* A frame that passes the connection's cap on distinct recipients.
Arrive(c, to) ==
    /\ waiting[c] = NoFrame
    /\ to \in toIds[c] \/ Cardinality(toIds[c]) < MaxToIds
    /\ waiting' = [waiting EXCEPT ![c] = [at |-> time, to |-> to]]
    /\ UNCHANGED <<time, rate, toIds, delivered, refused>>

GlobalCap(p) == rate[p] = <<>> /\ Cardinality(RateEntries) >= MaxEntries

\* Mutant: the times are counted before they are pruned.
MutDecide(c, p, times) ==
    IF Len(rate[p]) >= RateCap
    THEN /\ rate' = [rate EXCEPT ![p] = times]
         /\ refused' = [refused EXCEPT ![p] = @ \cup {time}]
         /\ UNCHANGED <<delivered, toIds>>
    ELSE /\ rate' = [rate EXCEPT ![p] = Append(times, waiting[c].at)]
         /\ delivered' = [delivered EXCEPT ![p] = Append(@, time)]
         /\ toIds' = [toIds EXCEPT ![c] = @ \cup {waiting[c].to}]
         /\ UNCHANGED refused

\* PerPairCap keeps the pruned times; Ok records the time read before the
\* lock and charges the recipient to the connection.
Decide(c, p, times) ==
    IF Len(times) >= RateCap
    THEN /\ rate' = [rate EXCEPT ![p] = times]
         /\ refused' = [refused EXCEPT ![p] = @ \cup {time}]
         /\ UNCHANGED <<delivered, toIds>>
    ELSE /\ rate' = [rate EXCEPT ![p] = Append(times, waiting[c].at)]
         /\ delivered' = [delivered EXCEPT ![p] = Append(@, time)]
         /\ toIds' = [toIds EXCEPT ![c] = @ \cup {waiting[c].to}]
         /\ UNCHANGED refused

\* The lock is free: the global cap, the window, the verdict.
Admit(c) ==
    LET p == <<PeerOf(c), waiting[c].to>>
    IN  /\ waiting[c] # NoFrame
        /\ waiting' = [waiting EXCEPT ![c] = NoFrame]
        /\ IF GlobalCap(p)
           THEN UNCHANGED <<rate, toIds, delivered, refused>>
           ELSE Decide(c, p, Pruned(rate[p], waiting[c].at - RateWindow))
        /\ UNCHANGED time

\* spawn_chain_seed_rate_gc; entries whose deque empties leave the map.
RateGc ==
    /\ rate' = [p \in Pairs |-> Pruned(rate[p], time - RateWindow)]
    /\ UNCHANGED <<time, toIds, waiting, delivered, refused>>

\* The connection closes between two frames, and its peer connects again.
Reconnect(c) ==
    /\ waiting[c] = NoFrame
    /\ toIds' = [toIds EXCEPT ![c] = {}]
    /\ UNCHANGED <<time, rate, waiting, delivered, refused>>

SeedTick ==
    /\ time < SeedMaxTime
    /\ \A c \in Conns : waiting[c] # NoFrame => time + 1 - waiting[c].at <= Slack
    /\ time' = time + 1
    /\ UNCHANGED <<rate, toIds, waiting, delivered, refused>>

SeedNext ==
    \/ \E c \in Conns :
          Admit(c) \/ Reconnect(c) \/ \E to \in Targets : Arrive(c, to)
    \/ RateGc
    \/ SeedTick

SeedSpec == SeedInit /\ [][SeedNext]_seedVars

---------------------------------------------------------------------------
(* Properties *)

\* When pair p's accepted frames were accepted, in the closed interval.
AcceptedIn(p, from, to) ==
    Cardinality({i \in DOMAIN delivered[p] : delivered[p][i] \in from..to})

\* Whatever order the handlers of a sender's connections record their times
\* in, and whenever the timer prunes, no more than RateCap frames of a pair
\* are accepted in a window shorter than RateWindow by the longest wait.
WindowBounds ==
    \A p \in Pairs, t \in 0..time :
        RateWindow >= Slack =>
            AcceptedIn(p, t, t + (RateWindow - Slack)) <= RateCap

\* A frame is refused by PerPairCap only when RateCap frames of its pair were
\* accepted within the window before it, stretched by the longest wait: a
\* time that stays in the deque behind a later one never outlasts that.
RefusalIsEarned ==
    \A p \in Pairs : \A t \in refused[p] :
        AcceptedIn(p, t - (RateWindow + Slack), t) >= RateCap

=============================================================================
