--------------------------- MODULE MCRelayTables ---------------------------
(***************************************************************************)
(* The relay's admission tables for TLC.  Each table is behind its own     *)
(* lock and none reads another, so their interleavings add nothing: a      *)
(* behaviour exercises one of them, `table', with the others at rest.      *)
(***************************************************************************)
EXTENDS PushTokenStore, HelloAdmission, ChainSeedRate, BundleReqRate

CONSTANTS p1, p2, n1, n2, k1, c1, c2, q1, q2, q3, q4

VARIABLES
    table,
    \* the offline queues
    queues, queuesFile, queuesDirty, queuesUp, clockQ, replyQ

queueVars == <<queues, queuesFile, queuesDirty, queuesUp, clockQ, replyQ>>

---------------------------------------------------------------------------
\* A peer that says HELLO twice, and one that does so once.
ThreeHellos == {<<p1, n1>>, <<p1, n2>>, <<p2, n1>>}

\* Two connections of one peer.
Owner(c) == p1

\* Three of four queues may be opened by seeds.  The clock stands still: a
\* queue that expires closes as a drained one does.
UnitSize(body) == 1
Pending == INSTANCE PendingStore WITH
    Peers <- {q1, q2, q3, q4}, Bodies <- {1}, Size <- UnitSize,
    Classes <- {"Authorized", "Seed"}, KeySize <- 1, Ttls <- {1}, MinTtl <- 1,
    MaxPendingTtl <- 1, MaxPerPeer <- 1, MaxDistinctPeers <- 4,
    MaxTotalFrames <- 9, MaxTotalBytes <- 99, MaxTime <- 0,
    file <- queuesFile, dirty <- queuesDirty, up <- queuesUp, now <- clockQ,
    reply <- replyQ

TablesInit ==
    /\ table \in {"hello", "seed", "bundle", "tokens", "pending"}
    /\ HelloInit /\ SeedInit /\ BundleInit /\ Init /\ Pending!Init

TablesNext ==
    /\ \/ /\ table = "hello" /\ HelloNext
          /\ UNCHANGED <<seedVars, bundleVars, vars, queueVars>>
       \/ /\ table = "seed" /\ SeedNext
          /\ UNCHANGED <<helloVars, bundleVars, vars, queueVars>>
       \/ /\ table = "bundle" /\ BundleNext
          /\ UNCHANGED <<helloVars, seedVars, vars, queueVars>>
       \/ /\ table = "tokens" /\ Next
          /\ UNCHANGED <<helloVars, seedVars, bundleVars, queueVars>>
       \/ /\ table = "pending" /\ Pending!Next
          /\ UNCHANGED <<helloVars, seedVars, bundleVars, vars>>
    /\ UNCHANGED table

TablesSpec ==
    TablesInit /\ [][TablesNext]_<<table, helloVars, seedVars, bundleVars, vars, queueVars>>

---------------------------------------------------------------------------
\* PendingStore: seeds leave the reserved peer slots free.
SeedReserve == Pending!SeedReserve
=============================================================================
