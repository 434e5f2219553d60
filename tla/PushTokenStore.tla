--------------------------- MODULE PushTokenStore ---------------------------
(***************************************************************************)
(* The relay's push-token map (relay/src/push_token_store.rs) and the      *)
(* REGISTER_PUSH / DEREGISTER_PUSH arms of read_loop that change it.       *)
(* Persistence is deferred: see DeferredStore.                             *)
(***************************************************************************)
EXTENDS Integers

CONSTANTS
    Peers,
    Tokens,    \* APNs device tokens
    MaxAge,    \* MAX_TOKEN_AGE
    MaxTime,   \* bound: the clock stops here
    None

ASSUME TokenAssumption == MaxAge \in Nat /\ None \notin [token : Tokens, ts : Nat]

VARIABLES
    map,     \* peer -> [token, ts] or None
    file,    \* the map at the last persist
    dirty,
    up,
    now,
    wish,    \* history: peer -> what it asked for last
    fate     \* history: peer -> whether that is "new", "kept" (flushed) or
             \* "lost" (the process died before the flush)

vars == <<map, file, dirty, up, now, wish, fate>>

---------------------------------------------------------------------------
Cutoff == IF now > MaxAge THEN now - MaxAge ELSE 0
IsStale(ts) == ts <= Cutoff
Fresh(m) == [p \in Peers |-> IF m[p] # None /\ IsStale(m[p].ts) THEN None ELSE m[p]]
Empty == [p \in Peers |-> None]

\* New wishes become kept or lost.
Settled(f) == [p \in Peers |-> IF fate[p] = "new" THEN f ELSE fate[p]]

Init ==
    /\ map = Empty
    /\ file = Empty
    /\ dirty = FALSE
    /\ up = TRUE
    /\ now = 1
    /\ wish = Empty
    /\ fate = [p \in Peers |-> "kept"]

Insert(p, t) ==
    /\ up
    /\ map' = [map EXCEPT ![p] = [token |-> t, ts |-> now]]
    /\ dirty' = TRUE
    /\ wish' = [wish EXCEPT ![p] = [token |-> t, ts |-> now]]
    /\ fate' = [fate EXCEPT ![p] = "new"]
    /\ UNCHANGED <<file, up, now>>

\* Removing an absent entry changes nothing, the mark included.
Remove(p) ==
    /\ up
    /\ map' = [map EXCEPT ![p] = None]
    /\ dirty' = (dirty \/ map[p] # None)
    /\ wish' = [wish EXCEPT ![p] = None]
    /\ fate' = [fate EXCEPT ![p] = IF map[p] = None THEN @ ELSE "new"]
    /\ UNCHANGED <<file, up, now>>

GcExpired ==
    /\ up
    /\ map' = Fresh(map)
    /\ dirty' = (dirty \/ Fresh(map) # map)
    /\ UNCHANGED <<file, up, now, wish, fate>>

\* Mutant: the mark is cleared whether or not persist succeeds.
MutFlush ==
    /\ up
    /\ dirty
    /\ file' \in {file, map}
    /\ dirty' = FALSE
    /\ fate' = Settled("kept")
    /\ UNCHANGED <<map, up, now, wish>>

\* flush; when persist fails nothing changes and the mark stays.
Flush ==
    /\ up
    /\ dirty
    /\ file' = map
    /\ dirty' = FALSE
    /\ fate' = Settled("kept")
    /\ UNCHANGED <<map, up, now, wish>>

\* A graceful exit drops the store and persists it, best effort; a crash
\* does not.  What a peer asked for and was not written is lost.
Exit ==
    /\ up
    /\ \/ dirty /\ file' = map /\ fate' = Settled("kept")
       \/ file' = file /\ fate' = Settled("lost")
    /\ map' = Empty
    /\ dirty' = FALSE
    /\ up' = FALSE
    /\ UNCHANGED <<now, wish>>

Load ==
    /\ ~up
    /\ map' = Fresh(file)
    /\ up' = TRUE
    /\ UNCHANGED <<file, dirty, now, wish, fate>>

Tick ==
    /\ now < MaxTime
    /\ now' = now + 1
    /\ UNCHANGED <<map, file, dirty, up, wish, fate>>

Next ==
    \/ \E p \in Peers, t \in Tokens : Insert(p, t)
    \/ \E p \in Peers : Remove(p)
    \/ GcExpired
    \/ Flush
    \/ Exit
    \/ Load
    \/ Tick

Spec == Init /\ [][Next]_vars

---------------------------------------------------------------------------
(* Properties *)

\* Once a registration or a deregistration has been flushed, the store holds
\* exactly that, as long as it is not stale, through any crash and reload: a
\* dropped token never comes back, and a token never reverts to an older one.
LastWishHolds ==
    \A p \in {q \in Peers : fate[q] = "kept"} :
        /\ up => Fresh(map)[p] = Fresh(wish)[p]
        /\ Fresh(file)[p] = Fresh(wish)[p]

Entries(m) == {<<p, Fresh(m)[p]>> : p \in {q \in Peers : Fresh(m)[q] # None}}
Deferred == INSTANCE DeferredStore WITH mem <- Entries(map), disk <- Entries(file)

\* The store implements DeferredStore.
ImplementsDeferred == Deferred!Spec
=============================================================================
