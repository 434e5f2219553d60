---------------------------- MODULE PendingStore ----------------------------
(***************************************************************************)
(* The relay's offline queues (relay/src/pending_store.rs), with the       *)
(* enqueue_pending wrapper of main.rs that clamps a frame's lifetime.      *)
(* Every operation runs under the store's mutex, so it is one step.  A     *)
(* mutation only sets `dirty'; the periodic flush task, or Drop on a       *)
(* graceful exit, rewrites the file (atomically: write_atomic renames).    *)
(*                                                                         *)
(* The code's map never holds an empty queue (drain removes the entry, GC  *)
(* and load drop it), so an absent queue is the empty sequence here.       *)
(***************************************************************************)
EXTENDS Integers, Sequences, FiniteSets, FiniteSetsExt

CONSTANTS
    Peers,             \* recipients
    Bodies,            \* frame contents
    Size(_),           \* byte length of a body
    Classes,           \* admission classes in use: "Authorized", "Seed"
    KeySize,           \* byte length of a peer id
    Ttls,              \* lifetimes a sender may ask for
    MinTtl,            \* the 60 s floor of clamp_ttl
    MaxPendingTtl,     \* MAX_PENDING_TTL
    MaxPerPeer,        \* MAX_PENDING_PER_PEER
    MaxDistinctPeers,  \* MAX_PENDING_DISTINCT_PEERS
    MaxTotalFrames,    \* MAX_PENDING_TOTAL_FRAMES
    MaxTotalBytes,     \* MAX_PENDING_TOTAL_BYTES
    MaxTime            \* bound: the clock stops here

ASSUME PendingAssumption ==
    /\ IsFiniteSet(Peers)
    /\ \A b \in Bodies : Size(b) \in Nat
    /\ Classes \subseteq {"Authorized", "Seed"}
    /\ KeySize \in Nat
    /\ Ttls \subseteq Nat
    /\ MinTtl \in Nat \ {0}
    /\ MaxPendingTtl \in Nat /\ MinTtl <= MaxPendingTtl
    /\ MaxPerPeer \in Nat \ {0}
    /\ MaxDistinctPeers \in Nat
    /\ MaxTotalFrames \in Nat
    /\ MaxTotalBytes \in Nat
    /\ MaxTime \in Nat

VARIABLES
    queues,  \* peer -> sequence of frames, oldest first
    file,    \* the encrypted file: the queues at the last persist
    dirty,   \* mutations since then
    up,      \* the process is running
    now,     \* unix_now()
    reply    \* what the last call returned: an EnqueueOutcome, "Drained", "none"

pendingVars == <<queues, file, dirty, up, now, reply>>

---------------------------------------------------------------------------
\* A PendingFrame.  `opener' is history: the admission class that opened the
\* queue the frame is in.
Frame == [body : Bodies, expires : Nat, opener : Classes]

IsExpired(f) == f.expires <= now
\* What retain leaves of a queue; a peer without one has none to go through.
Live(q) ==
    LET Kept(f) == ~IsExpired(f)
    IN IF q = <<>> THEN <<>> ELSE SelectSeq(q, Kept)

QueuesOf(qs) == {p \in Peers : qs[p] # <<>>}

\* Where the frames are.
Positions == UNION {{p} \X DOMAIN queues[p] : p \in Peers}
TotalFrames == Cardinality(Positions)
TotalBytes ==
    KeySize * Cardinality(QueuesOf(queues))
    + MapThenSumSet(LAMBDA x : Size(queues[x[1]][x[2]].body), Positions)

SeedDistinctPeersCap == MaxDistinctPeers - (MaxDistinctPeers \div 4)
DistinctPeerCap(class) ==
    IF class = "Seed" THEN SeedDistinctPeersCap ELSE MaxDistinctPeers

ClampTtl(secs) ==
    IF secs < MinTtl THEN MinTtl
    ELSE IF secs > MaxPendingTtl THEN MaxPendingTtl ELSE secs

\* Mutant: a full queue's oldest frame is reclaimed whatever its size.
MutFits(p, body) ==
    LET isNew == queues[p] = <<>>
        evicts == Len(queues[p]) >= MaxPerPeer
    IN  /\ evicts \/ TotalFrames < MaxTotalFrames
        /\ \/ evicts
           \/ TotalBytes + Size(body) + (IF isNew THEN KeySize ELSE 0)
                 <= MaxTotalBytes

\* The frame and byte ceilings.  A queue at its per-peer cap gives up its
\* oldest frame, so it adds no frame and is credited that frame's bytes.
Fits(p, body) ==
    LET isNew == queues[p] = <<>>
        evicts == Len(queues[p]) >= MaxPerPeer
        reclaimed == IF evicts THEN Size(Head(queues[p]).body) ELSE 0
    IN  /\ evicts \/ TotalFrames < MaxTotalFrames
        /\ TotalBytes + Size(body) + (IF isNew THEN KeySize ELSE 0)
              <= MaxTotalBytes + reclaimed

\* Mutant: seeds are admitted up to the full cap.
MutAdmits(p, body, class) ==
    /\ queues[p] = <<>> => Cardinality(QueuesOf(queues)) < MaxDistinctPeers
    /\ Fits(p, body)

Admits(p, body, class) ==
    /\ queues[p] = <<>> =>
          Cardinality(QueuesOf(queues)) < DistinctPeerCap(class)
    /\ Fits(p, body)

\* The queue once the frame is in, its oldest frames evicted to make room.
Pushed(q, f) ==
    LET over == IF Len(q) >= MaxPerPeer THEN Len(q) - MaxPerPeer + 1 ELSE 0
    IN  Append(SubSeq(q, over + 1, Len(q)), f)

NewFrame(p, body, ttl, class) ==
    [body |-> body, expires |-> now + ClampTtl(ttl),
     opener |-> IF queues[p] = <<>> THEN class ELSE queues[p][1].opener]

---------------------------------------------------------------------------
Init ==
    /\ queues = [p \in Peers |-> <<>>]
    /\ file = [p \in Peers |-> <<>>]
    /\ dirty = FALSE
    /\ up = TRUE
    /\ now = 0
    /\ reply = "none"

\* enqueue_pending: a refusal mutates nothing.
EnqueuePending(p, body, ttl, class) ==
    /\ up
    /\ \/ /\ Admits(p, body, class)
          /\ queues' = [queues EXCEPT ![p] =
                           Pushed(@, NewFrame(p, body, ttl, class))]
          /\ dirty' = TRUE
          /\ reply' = "Stored"
       \/ /\ ~Admits(p, body, class)
          /\ reply' = "RejectedGlobalCap"
          /\ UNCHANGED <<queues, dirty>>
    /\ UNCHANGED <<file, up, now>>

\* Mutant: the removal is not marked for the flush task.
MutDrain(p) ==
    /\ up
    /\ queues' = [queues EXCEPT ![p] = <<>>]
    /\ reply' = "Drained"
    /\ UNCHANGED <<file, dirty, up, now>>

\* drain: the caller gets Live(queues[p]).
Drain(p) ==
    /\ up
    /\ queues' = [queues EXCEPT ![p] = <<>>]
    /\ dirty' = (dirty \/ queues[p] # <<>>)
    /\ reply' = "Drained"
    /\ UNCHANGED <<file, up, now>>

\* Mutant: GC drops a queue as a whole once its oldest frame has expired.
MutGcExpired ==
    /\ up
    /\ queues' = [p \in Peers |->
                     IF queues[p] # <<>> /\ IsExpired(queues[p][1])
                     THEN <<>> ELSE queues[p]]
    /\ dirty' = (dirty \/ queues' # queues)
    /\ reply' = "none"
    /\ UNCHANGED <<file, up, now>>

GcExpired ==
    /\ up
    /\ queues' = [p \in Peers |-> Live(queues[p])]
    /\ dirty' = (dirty \/ queues' # queues)
    /\ reply' = "none"
    /\ UNCHANGED <<file, up, now>>

\* flush; when persist fails nothing changes and the flag stays set.
Flush ==
    /\ up
    /\ dirty
    /\ file' = queues
    /\ dirty' = FALSE
    /\ reply' = "none"
    /\ UNCHANGED <<queues, up, now>>

\* Graceful exit: Drop flushes, best effort.
Stop ==
    /\ up
    /\ file' \in {file, IF dirty THEN queues ELSE file}
    /\ queues' = [p \in Peers |-> <<>>]
    /\ dirty' = FALSE
    /\ up' = FALSE
    /\ reply' = "none"
    /\ UNCHANGED now

\* panic = "abort", kill or power loss: Drop does not run.
Crash ==
    /\ up
    /\ queues' = [p \in Peers |-> <<>>]
    /\ dirty' = FALSE
    /\ up' = FALSE
    /\ reply' = "none"
    /\ UNCHANGED <<file, now>>

\* load_or_create: expired frames are dropped.
Load ==
    /\ ~up
    /\ queues' = [p \in Peers |-> Live(file[p])]
    /\ up' = TRUE
    /\ reply' = "none"
    /\ UNCHANGED <<file, dirty, now>>

Tick ==
    /\ now < MaxTime
    /\ now' = now + 1
    /\ reply' = "none"
    /\ UNCHANGED <<queues, file, dirty, up>>

Next ==
    \/ \E p \in Peers, b \in Bodies, ttl \in Ttls, c \in Classes :
          EnqueuePending(p, b, ttl, c)
    \/ \E p \in Peers : Drain(p)
    \/ GcExpired
    \/ Flush
    \/ Stop
    \/ Crash
    \/ Load
    \/ Tick

Spec == Init /\ [][Next]_pendingVars

---------------------------------------------------------------------------
(* Properties *)

\* Fail closed: no sequence of enqueues (eviction included), drains,
\* collections, crashes and reloads from an older file takes the store over
\* the distinct-peer, frame or byte ceiling.
WithinCeilings ==
    /\ Cardinality(QueuesOf(queues)) <= MaxDistinctPeers
    /\ TotalFrames <= MaxTotalFrames
    /\ TotalBytes <= MaxTotalBytes

\* The F-RP-03 reserve: unauthenticated seeds never hold open more than the
\* seed share of the distinct-peer slots, across restarts as well.
SeedOpened(qs) == {p \in QueuesOf(qs) : qs[p][1].opener = "Seed"}
SeedReserve ==
    /\ Cardinality(SeedOpened(queues)) <= SeedDistinctPeersCap
    /\ Cardinality(SeedOpened(file)) <= SeedDistinctPeersCap

\* A running store gives up an unexpired frame only to its recipient's drain
\* (the whole queue), or to a newer frame of the same full queue, oldest
\* first.  No enqueue, collection or flush costs another frame.
OnlyOldestGivesWay ==
    [][up /\ up' => \A p \in Peers :
          \/ reply' = "Drained" /\ queues'[p] = <<>>
          \/ \E k \in 0..1 : \E new \in 0..1 :
                /\ Len(queues'[p]) >= new
                /\ k = 1 => new = 1 /\ Len(queues[p]) = MaxPerPeer
                /\ Live(SubSeq(queues'[p], 1, Len(queues'[p]) - new)) =
                   Live(SubSeq(queues[p], k + 1, Len(queues[p])))]_pendingVars

\* The unexpired frames of every queue, as a bag: a frame with its copies.
Unexpired(qs) ==
    UNION {LET q == Live(qs[p])
           IN  {<<p, q[i], Cardinality({j \in 1..i : q[j] = q[i]})>> :
                   i \in DOMAIN q} : p \in QueuesOf(qs)}
Deferred == INSTANCE DeferredStore WITH
    mem <- Unexpired(queues), disk <- Unexpired(file)

\* The store implements DeferredStore: what an exit loses is what was
\* enqueued or drained since the last flush, never a part of it.
ImplementsDeferred == Deferred!Spec

=============================================================================
