--------------------------- MODULE HelloAdmission ---------------------------
(***************************************************************************)
(* Admission of a HELLO (relay/src/main.rs): the clock-skew check, the     *)
(* (peer_id, nonce) replay set and the verify-key table, both capped and   *)
(* aged out by timers.  One unit of time is a second; wall clock and       *)
(* Instant advance together.                                               *)
(*                                                                         *)
(* A signature verifies exactly for a HELLO its peer has signed, and any   *)
(* signed HELLO may be presented again at any time.                        *)
(***************************************************************************)
EXTENDS Integers, FiniteSets

CONSTANTS
    HelloPeers,
    Hellos,          \* <<peer, nonce>> pairs: a nonce is signed at most once
    VerifyKeys,
    MaxSkew,         \* HELLO_MAX_CLOCK_SKEW_SECS
    ReplayWindow,    \* HELLO_REPLAY_WINDOW
    MaxReplays,      \* MAX_HELLO_REPLAYS
    KeyTtl,          \* VERIFY_KEY_TTL
    MaxKeys,         \* MAX_VERIFY_KEYS
    ClientSkews,     \* how far clients' clocks may be off
    HelloMaxTime,    \* bound: the clock stops here
    Unset

ASSUME HelloAssumption ==
    /\ MaxSkew \in Nat /\ KeyTtl \in Nat
    /\ ReplayWindow \in Nat /\ ReplayWindow >= 2 * MaxSkew
    /\ ClientSkews \subseteq Int
    /\ \A h \in Hellos : h[1] \in HelloPeers
    /\ Unset \notin Int \cup [ts : Int, key : VerifyKeys] \cup [key : VerifyKeys, touched : Nat]

VARIABLES
    clock,
    signed,      \* HELLO -> [ts, key] once signed
    replays,     \* the replay set: HELLO -> Instant of insertion
    keys,        \* the verify-key table: peer -> [key, touched]
    verified,    \* HELLOs that passed the proof and await their registration
    accepted,    \* history: HELLO -> last acceptance by this process
    unrecorded,  \* history: HELLOs accepted while the replay set was full
    lastKey      \* history: peer -> its last registration, unless it was
                 \* unknown to a full table

helloVars == <<clock, signed, replays, keys, verified, accepted, unrecorded, lastKey>>
helloHist == <<accepted, unrecorded, lastKey>>

---------------------------------------------------------------------------
Filled(table) == {x \in DOMAIN table : table[x] # Unset}

\* Mutant: a full table refuses known keys too.
MutAdmitsNewSoftState(isKnown, len, cap) == len < cap
AdmitsNewSoftState(isKnown, len, cap) == isKnown \/ len < cap

\* On the relay's targets an Instant may lie before boot, so the fallback of
\* instant_cutoff is never taken.
InstantCutoff(window) == clock - window

AbsDiff(x, y) == IF x >= y THEN x - y ELSE y - x

HelloInit ==
    /\ clock = 0
    /\ signed = [h \in Hellos |-> Unset]
    /\ replays = [h \in Hellos |-> Unset]
    /\ keys = [p \in HelloPeers |-> Unset]
    /\ verified = {}
    /\ accepted = [h \in Hellos |-> Unset]
    /\ unrecorded = {}
    /\ lastKey = [p \in HelloPeers |-> Unset]

\* A client signs a HELLO with a fresh nonce and its own clock.
Sign(h, skew, key) ==
    /\ signed[h] = Unset
    /\ signed' = [signed EXCEPT ![h] = [ts |-> clock + skew, key |-> key]]
    /\ UNCHANGED <<clock, replays, keys, verified, helloHist>>

\* verify_hello_possession_proof, under the replay set's lock.  A refused
\* HELLO changes nothing.  At the cap it is accepted and not recorded.
VerifyProof(h) ==
    /\ signed[h] # Unset
    /\ AbsDiff(signed[h].ts, clock) <= MaxSkew
    /\ replays[h] = Unset
    /\ IF AdmitsNewSoftState(FALSE, Cardinality(Filled(replays)), MaxReplays)
       THEN /\ replays' = [replays EXCEPT ![h] = clock]
            /\ unrecorded' = unrecorded \ {h}
       ELSE /\ unrecorded' = unrecorded \cup {h}
            /\ UNCHANGED replays
    /\ verified' = verified \cup {h}
    /\ accepted' = [accepted EXCEPT ![h] = clock]
    /\ UNCHANGED <<clock, signed, keys, lastKey>>

\* handle_connection under the verify-key table's lock.
RegisterKey(h) ==
    LET p == h[1]
        entry == [key |-> signed[h].key, touched |-> clock]
    IN  /\ h \in verified
        /\ verified' = verified \ {h}
        /\ keys' = IF AdmitsNewSoftState(keys[p] # Unset,
                                         Cardinality(Filled(keys)), MaxKeys)
                   THEN [keys EXCEPT ![p] = entry] ELSE keys
        /\ lastKey' = [lastKey EXCEPT ![p] =
                          IF keys[p] = Unset /\ ~(Cardinality(Filled(keys)) < MaxKeys)
                          THEN Unset ELSE entry]
        /\ UNCHANGED <<clock, signed, replays, accepted, unrecorded>>

\* Mutant: the replay set is aged by the skew alone.
MutHelloReplayGc ==
    /\ replays' = [h \in Hellos |->
                      IF replays[h] # Unset /\ replays[h] > InstantCutoff(MaxSkew)
                      THEN replays[h] ELSE Unset]
    /\ UNCHANGED <<clock, signed, keys, verified, helloHist>>

HelloReplayGc ==
    /\ replays' = [h \in Hellos |->
                      IF replays[h] # Unset /\ replays[h] > InstantCutoff(ReplayWindow)
                      THEN replays[h] ELSE Unset]
    /\ UNCHANGED <<clock, signed, keys, verified, helloHist>>

VerifyKeysGc ==
    /\ keys' = [p \in HelloPeers |->
                   IF keys[p] # Unset /\ keys[p].touched > InstantCutoff(KeyTtl)
                   THEN keys[p] ELSE Unset]
    /\ UNCHANGED <<clock, signed, replays, verified, helloHist>>

\* Both tables are in memory only; histories are kept per process.
HelloRestart ==
    /\ replays' = [h \in Hellos |-> Unset]
    /\ keys' = [p \in HelloPeers |-> Unset]
    /\ verified' = {}
    /\ accepted' = [h \in Hellos |-> Unset]
    /\ unrecorded' = {}
    /\ lastKey' = [p \in HelloPeers |-> Unset]
    /\ UNCHANGED <<clock, signed>>

HelloTick ==
    /\ clock < HelloMaxTime
    /\ clock' = clock + 1
    /\ UNCHANGED <<signed, replays, keys, verified, helloHist>>

HelloNext ==
    \/ \E h \in Hellos, s \in ClientSkews, k \in VerifyKeys : Sign(h, s, k)
    \/ \E h \in Hellos : VerifyProof(h) \/ RegisterKey(h)
    \/ HelloReplayGc
    \/ VerifyKeysGc
    \/ HelloRestart
    \/ HelloTick

HelloSpec == HelloInit /\ [][HelloNext]_helloVars

---------------------------------------------------------------------------
(* Properties *)

\* One process accepts a recorded HELLO a second time in one case only: its
\* timestamp was MaxSkew ahead when it was accepted, and it comes again at the
\* very end of the window, when the timer may have dropped it and the skew
\* check still passes.  No order of timers and full tables opens another gap.
Again(h) == VerifyProof(h) /\ accepted[h] # Unset
OnlyEdgeReplay ==
    [][\A h \in Hellos : Again(h) =>
          \/ h \in unrecorded
          \/ /\ clock - accepted[h] = ReplayWindow
             /\ signed[h].ts - accepted[h] = MaxSkew]_helloVars

\* N-002: a peer registered less than KeyTtl ago keeps its entry, whatever
\* arrives at the full table, and the entry is the key it registered last.
KeyKept ==
    \A p \in Filled(lastKey) :
        lastKey[p].touched > clock - KeyTtl => keys[p] = lastKey[p]
=============================================================================
