------------------------- MODULE RelayRouterProofs -------------------------
(***************************************************************************)
(* Proofs about what the relay's connections go through, for any number of *)
(* peers, connections and frames and whatever the caps: the admission of a *)
(* HELLO (HelloAdmission); the routes and queues (RelayRouter), however    *)
(* connects, replacements, dying writers, drains, timers, crashes and      *)
(* restarts interleave; and the push gate (PushGate).  The three share no  *)
(* state, so each has its own inductive invariant.                         *)
(***************************************************************************)
EXTENDS RelayRouter, HelloAdmission, PushGate, FiniteSetTheorems, TLAPS

USE SMTT(20), ZenonT(20)

---------------------------------------------------------------------------
(* HELLO admission *)

SignedHello == [ts : Int, key : VerifyKeys]
KeyRow == [key : VerifyKeys, touched : Nat]

HelloTypes ==
    /\ clock \in Nat
    /\ signed \in [Hellos -> SignedHello \cup {Unset}]
    /\ replays \in [Hellos -> Nat \cup {Unset}]
    /\ accepted \in [Hellos -> Nat \cup {Unset}]
    /\ keys \in [HelloPeers -> KeyRow \cup {Unset}]
    /\ lastKey \in [HelloPeers -> KeyRow \cup {Unset}]
    /\ \A h \in verified : h \in Hellos /\ signed[h] # Unset

\* An accepted HELLO was within the skew then; it is in the replay set since,
\* unless the set was full or the window is over.
Remembered(h) ==
    accepted[h] # Unset =>
        /\ signed[h] # Unset
        /\ AbsDiff(signed[h].ts, accepted[h]) <= MaxSkew
        /\ \/ h \in unrecorded
           \/ replays[h] = accepted[h]
           \/ accepted[h] <= clock - ReplayWindow

HelloInv == HelloTypes /\ KeyKept /\ \A h \in Hellos : Remembered(h)

\* The entries of the tables are told from absent ones.
LEMMA UnsetApart ==
  /\ \A n \in Nat : n # Unset
  /\ \A s \in SignedHello : s # Unset
  /\ \A e \in KeyRow : e # Unset
  BY HelloAssumption DEF SignedHello, KeyRow

\* A signature changes nothing that was accepted before it.
LEMMA SignKeeps ==
  ASSUME HelloInv, NEW h \in Hellos, NEW skew \in ClientSkews, NEW key \in VerifyKeys,
         Sign(h, skew, key)
  PROVE  HelloInv'
  <1>1. /\ signed[h] = Unset
        /\ signed' = [signed EXCEPT ![h] = [ts |-> clock + skew, key |-> key]]
        /\ UNCHANGED <<clock, replays, keys, verified, accepted, unrecorded, lastKey>>
    BY DEF Sign, helloHist
  <1>2. [ts |-> clock + skew, key |-> key] \in SignedHello
    BY HelloAssumption DEF HelloInv, HelloTypes, SignedHello
  <1>3. HelloTypes' BY <1>1, <1>2, UnsetApart DEF HelloInv, HelloTypes
  <1>4. KeyKept' BY <1>1 DEF HelloInv, KeyKept, Filled
  <1>5. ASSUME NEW g \in Hellos PROVE Remembered(g)'
    BY <1>1 DEF HelloInv, HelloTypes, Remembered
  <1> QED BY <1>3, <1>4, <1>5 DEF HelloInv

\* An accepted HELLO is recorded, or marked as not.
LEMMA VerifyKeeps ==
  ASSUME HelloInv, NEW h \in Hellos, VerifyProof(h)
  PROVE  HelloInv'
  <1>1. /\ signed[h] # Unset /\ AbsDiff(signed[h].ts, clock) <= MaxSkew
        /\ verified' = verified \cup {h}
        /\ accepted' = [accepted EXCEPT ![h] = clock]
        /\ UNCHANGED <<clock, signed, keys, lastKey>>
        /\ \/ replays' = [replays EXCEPT ![h] = clock] /\ unrecorded' = unrecorded \ {h}
           \/ replays' = replays /\ unrecorded' = unrecorded \cup {h}
    BY Zenon DEF VerifyProof
  <1>2. HelloTypes' BY <1>1 DEF HelloInv, HelloTypes
  <1>3. KeyKept' BY <1>1 DEF HelloInv, KeyKept, Filled
  <1>4. ASSUME NEW g \in Hellos PROVE Remembered(g)'
    <2>1. CASE g = h
      <3>1. accepted'[g] = clock /\ signed'[g] = signed[h] BY <1>1, <2>1 DEF HelloInv, HelloTypes
      <3>2. g \in unrecorded' \/ replays'[g] = clock BY <1>1, <2>1 DEF HelloInv, HelloTypes
      <3> QED BY <1>1, <3>1, <3>2 DEF Remembered
    <2>2. CASE g # h
      BY <1>1, <2>2 DEF HelloInv, HelloTypes, Remembered
    <2> QED BY <2>1, <2>2
  <1> QED BY <1>2, <1>3, <1>4 DEF HelloInv

\* A registration enters the table as the peer's last one, unless the peer is
\* unknown to a full table.
LEMMA RegisterKeeps ==
  ASSUME HelloInv, NEW h \in Hellos, RegisterKey(h)
  PROVE  HelloInv'
  <1> DEFINE p == h[1]
             entry == [key |-> signed[h].key, touched |-> clock]
  <1>1. /\ h \in verified /\ verified' = verified \ {h}
        /\ UNCHANGED <<clock, signed, replays, accepted, unrecorded>>
        /\ \/ /\ keys' = [keys EXCEPT ![p] = entry]
              /\ lastKey' = [lastKey EXCEPT ![p] = entry]
           \/ keys' = keys /\ lastKey' = [lastKey EXCEPT ![p] = Unset]
    <2>1. CASE keys[p] = Unset /\ ~(Cardinality(Filled(keys)) < MaxKeys)
      <3>1. keys' = keys BY <2>1 DEF RegisterKey, AdmitsNewSoftState
      <3> QED BY <2>1, <3>1 DEF RegisterKey
    <2> QED BY Zenon DEF RegisterKey, AdmitsNewSoftState
  <1>2. p \in HelloPeers /\ signed[h] \in SignedHello
    BY <1>1, HelloAssumption DEF HelloInv, HelloTypes
  <1>3. entry \in KeyRow BY <1>2 DEF HelloInv, HelloTypes, SignedHello, KeyRow
  <1> HIDE DEF p, entry
  <1>4. HelloTypes' BY <1>1, <1>2, <1>3 DEF HelloInv, HelloTypes
  <1>5. KeyKept'
    <2> SUFFICES ASSUME NEW q \in HelloPeers, lastKey'[q] # Unset,
                        lastKey'[q].touched > clock' - KeyTtl
                 PROVE  keys'[q] = lastKey'[q]
      BY <1>4 DEF KeyKept, Filled, HelloTypes
    <2>1. CASE q = p BY <1>1, <1>2, <2>1 DEF HelloInv, HelloTypes
    <2>2. CASE q # p
      <3>1. lastKey'[q] = lastKey[q] /\ keys'[q] = keys[q] /\ clock' = clock
        BY <1>1, <2>2 DEF HelloInv, HelloTypes
      <3> QED BY <3>1 DEF HelloInv, HelloTypes, KeyKept, Filled
    <2> QED BY <2>1, <2>2
  <1>6. ASSUME NEW g \in Hellos PROVE Remembered(g)'
    BY <1>1 DEF HelloInv, Remembered
  <1> QED BY <1>4, <1>5, <1>6 DEF HelloInv

\* The timers drop what is past its window, or its lifetime.
LEMMA GcKeeps ==
  ASSUME HelloInv, HelloReplayGc \/ VerifyKeysGc
  PROVE  HelloInv'
  <1>1. CASE HelloReplayGc
    <2>1. /\ UNCHANGED <<clock, signed, keys, verified, accepted, unrecorded, lastKey>>
          /\ replays' = [h \in Hellos |->
                 IF replays[h] # Unset /\ replays[h] > clock - ReplayWindow
                 THEN replays[h] ELSE Unset]
      BY <1>1 DEF HelloReplayGc, helloHist, InstantCutoff
    <2>2. HelloTypes' BY <2>1 DEF HelloInv, HelloTypes
    <2>3. KeyKept' BY <2>1, Zenon DEF HelloInv, KeyKept, Filled
    <2>4. ASSUME NEW g \in Hellos PROVE Remembered(g)'
      <3> SUFFICES ASSUME accepted[g] # Unset PROVE Remembered(g)'
        BY <2>1 DEF Remembered
      <3>1. accepted[g] \in Nat /\ clock \in Nat BY DEF HelloInv, HelloTypes
      <3>2. replays[g] = accepted[g] =>
              replays'[g] = accepted[g] \/ accepted[g] <= clock - ReplayWindow
        BY <2>1, <3>1, HelloAssumption
      <3> QED BY <2>1, <3>2 DEF HelloInv, Remembered
    <2> QED BY <2>2, <2>3, <2>4 DEF HelloInv
  <1>2. CASE VerifyKeysGc
    <2>1. /\ UNCHANGED <<clock, signed, replays, verified, accepted, unrecorded, lastKey>>
          /\ keys' = [p \in HelloPeers |->
                 IF keys[p] # Unset /\ keys[p].touched > clock - KeyTtl
                 THEN keys[p] ELSE Unset]
      BY <1>2 DEF VerifyKeysGc, helloHist, InstantCutoff
    <2>2. HelloTypes' BY <2>1 DEF HelloInv, HelloTypes
    <2>3. KeyKept' BY <2>1 DEF HelloInv, HelloTypes, KeyKept, Filled
    <2>4. ASSUME NEW g \in Hellos PROVE Remembered(g)'
      BY <2>1 DEF HelloInv, Remembered
    <2> QED BY <2>2, <2>3, <2>4 DEF HelloInv
  <1> QED BY <1>1, <1>2

\* A restart forgets the tables and the acceptances alike.
LEMMA RestartKeeps ==
  ASSUME HelloInv, HelloRestart
  PROVE  HelloInv'
  <1>1. HelloTypes' BY DEF HelloInv, HelloTypes, HelloRestart
  <1>2. KeyKept' BY DEF KeyKept, Filled, HelloRestart
  <1>3. \A h \in Hellos : Remembered(h)' BY DEF Remembered, HelloRestart
  <1> QED BY <1>1, <1>2, <1>3 DEF HelloInv

\* Time only closes windows.
LEMMA ClockKeeps ==
  ASSUME HelloInv, HelloTick
  PROVE  HelloInv'
  <1>1. /\ clock' = clock + 1
        /\ UNCHANGED <<signed, replays, keys, verified, accepted, unrecorded, lastKey>>
    BY DEF HelloTick, helloHist
  <1>2. HelloTypes' BY <1>1 DEF HelloInv, HelloTypes
  <1>3. KeyKept'
    <2> SUFFICES ASSUME NEW p \in HelloPeers, lastKey[p] # Unset,
                        lastKey[p].touched > clock' - KeyTtl
                 PROVE  keys[p] = lastKey[p]
      BY <1>1 DEF KeyKept, Filled, HelloInv, HelloTypes
    <2>1. lastKey[p].touched \in Nat BY DEF HelloInv, HelloTypes, KeyRow
    <2>2. lastKey[p].touched > clock - KeyTtl
      BY <1>1, <2>1, HelloAssumption DEF HelloInv, HelloTypes
    <2> QED BY <2>2 DEF HelloInv, HelloTypes, KeyKept, Filled
  <1>4. ASSUME NEW g \in Hellos PROVE Remembered(g)'
    <2> SUFFICES ASSUME accepted[g] # Unset PROVE Remembered(g)'
      BY <1>1 DEF Remembered
    <2>1. accepted[g] \in Nat /\ clock \in Nat BY DEF HelloInv, HelloTypes
    <2>2. accepted[g] <= clock - ReplayWindow => accepted[g] <= clock' - ReplayWindow
      BY <1>1, <2>1, HelloAssumption
    <2> QED BY <1>1, <2>2 DEF HelloInv, Remembered
  <1> QED BY <1>2, <1>3, <1>4 DEF HelloInv

\* The invariant of the HELLO tables holds in every reachable state.
LEMMA HelloInvariant == HelloSpec => []HelloInv
  <1>1. HelloInit => HelloInv
    <2> SUFFICES ASSUME HelloInit PROVE HelloInv OBVIOUS
    <2>1. HelloTypes BY DEF HelloInit, HelloTypes
    <2>2. KeyKept BY DEF HelloInit, KeyKept, Filled
    <2>3. \A h \in Hellos : Remembered(h) BY DEF HelloInit, Remembered
    <2> QED BY <2>1, <2>2, <2>3 DEF HelloInv
  <1>2. HelloInv /\ [HelloNext]_helloVars => HelloInv'
    <2> SUFFICES ASSUME HelloInv, [HelloNext]_helloVars PROVE HelloInv' BY Zenon
    <2>1. CASE UNCHANGED helloVars
      BY <2>1 DEF helloVars, HelloInv, HelloTypes, KeyKept, Filled, Remembered
    <2> QED BY <2>1, SignKeeps, VerifyKeeps, RegisterKeeps, GcKeeps, RestartKeeps,
               ClockKeeps DEF HelloNext
  <1> QED BY <1>1, <1>2, PTL DEF HelloSpec

\* N-002: a peer that registered within the lifetime of a verify key keeps the
\* entry, and the key it registered last, whatever comes to the full table.
THEOREM KeysAreKept == HelloSpec => []KeyKept
  <1>1. HelloInv => KeyKept BY DEF HelloInv
  <1> QED BY <1>1, HelloInvariant, PTL

\* A recorded HELLO passes a second time at the very end of the window only,
\* for any window of at least twice the skew.
THEOREM ReplaysAtEdge == HelloSpec => OnlyEdgeReplay
  <1> DEFINE Edge == \A h \in Hellos : Again(h) =>
                \/ h \in unrecorded
                \/ /\ clock - accepted[h] = ReplayWindow
                   /\ signed[h].ts - accepted[h] = MaxSkew
  <1>1. HelloInv => Edge
    <2> SUFFICES ASSUME HelloInv, NEW h \in Hellos, Again(h), h \notin unrecorded
                 PROVE  /\ clock - accepted[h] = ReplayWindow
                        /\ signed[h].ts - accepted[h] = MaxSkew
      OBVIOUS
    <2>1. /\ accepted[h] # Unset /\ signed[h] # Unset /\ replays[h] = Unset
          /\ AbsDiff(signed[h].ts, clock) <= MaxSkew
      BY Zenon DEF Again, VerifyProof
    <2>2. accepted[h] \in Nat /\ clock \in Nat /\ signed[h].ts \in Int
      BY <2>1 DEF HelloInv, HelloTypes, SignedHello
    <2>3. /\ AbsDiff(signed[h].ts, accepted[h]) <= MaxSkew
          /\ accepted[h] <= clock - ReplayWindow
      BY <2>1, <2>2, UnsetApart DEF HelloInv, Remembered
    <2> QED BY <2>1, <2>2, <2>3, HelloAssumption DEF AbsDiff
  <1>2. HelloInv => [Edge]_helloVars BY <1>1, Zenon
  <1> QED BY <1>2, HelloInvariant, PTL DEF OnlyEdgeReplay

---------------------------------------------------------------------------
(* The routes and the queues *)

\* The types the argument needs.
RouterTypes ==
    /\ queues = [p \in Peers |-> queues[p]]
    /\ routes \in [Peers -> Conns \cup {NoConn}]
    /\ latest \in [Peers -> Conns \cup {NoConn}]
    /\ open \subseteq Conns
    /\ pc \in [Conns -> Labels]
    /\ msg \in [Conns -> Bodies \cup {NoConn}]
    /\ \A c \in Conns : pc[c] \in {"route", "enqueue", "check", "redrain"} =>
          msg[c] \in Bodies

\* A connection is in the entry of its own peer, from its HELLO to its
\* cleanup, and in no entry while the process is down.
OwnEntry ==
    /\ \A p \in Peers : routes[p] # NoConn =>
          PeerOf(routes[p]) = p /\ pc[routes[p]] \notin {"new", "done"}
    /\ \A p \in Peers : latest[p] # NoConn =>
          PeerOf(latest[p]) = p /\ pc[latest[p]] # "new"
    /\ ~up => \A p \in Peers : routes[p] = NoConn

\* The inductive invariant.  NoStranding rests on OwnEntry: a connection that
\* starts its drain must not be the route of another peer.
RouterInv == RouterTypes /\ OwnEntry /\ RouteIsLatest /\ NoStranding

---------------------------------------------------------------------------
(* Steps of a task that only move it along. *)

\* The labels between which the moves below go matter to no conjunct.
Quiet == {"forward", "read", "route", "enqueue", "reforward", "cleanup"}

\* A task goes from one quiet label to another, with a frame in hand where it
\* needs one; routes, writers and queues stay as they are.
Moves(c, label) ==
    /\ pc[c] \in Quiet /\ label \in Quiet
    /\ Goto(c, label)
    /\ msg' \in [Conns -> Bodies \cup {NoConn}]
    /\ \A d \in Conns \ {c} : msg'[d] = msg[d]
    /\ label \in {"route", "enqueue"} => msg'[c] \in Bodies
    /\ UNCHANGED <<queues, up, routes, open, latest>>

\* Such a move keeps the invariant.
LEMMA MovesInv ==
  ASSUME RouterInv, NEW c \in Conns, NEW label, Moves(c, label)
  PROVE  RouterInv'
  <1> USE RouterAssumption DEF RouterInv, Moves, Goto, Quiet
  <1>1. RouterTypes' BY DEF RouterTypes, Labels
  <1>2. OwnEntry' BY DEF RouterTypes, OwnEntry
  <1>3. RouteIsLatest' BY ZenonT(60) DEF RouterTypes, RouteIsLatest
  <1>4. ASSUME NEW p \in Peers, Settled(p)' PROVE queues'[p] = <<>>
    <2>1. RouteIsLive(p) BY <1>4, Zenon DEF Settled, RouteIsLive
    <2>2. pc[routes[p]] # "drain"
      BY <1>4, <2>1 DEF Settled, RouteIsLive, RouterTypes
    <2>3. \A d \in Conns : pc[d] \in {"check", "redrain"} => msg[d].to # p
      BY <1>4, Zenon DEF Settled, RouterTypes
    <2> QED BY <2>1, <2>2, <2>3 DEF NoStranding, Settled
  <1>5. NoStranding' BY <1>4, Zenon DEF NoStranding
  <1> QED BY <1>1, <1>2, <1>3, <1>5

\* Nothing the invariant speaks of changes.
Still == UNCHANGED <<queues, up, routes, open, latest, pc, msg>>

\* A step that changes none of these keeps the invariant.
LEMMA StillInv ==
  ASSUME RouterInv, Still
  PROVE  RouterInv'
  BY Zenon DEF RouterInv, Still, RouterTypes, OwnEntry, RouteIsLatest, NoStranding,
         Settled, RouteIsLive

---------------------------------------------------------------------------
(* The steps that touch routes, writers or queues. *)

\* A HELLO replaces the route: its connection is still to drain.
LEMMA InsertInv ==
  ASSUME RouterInv, NEW c \in Conns, InsertRoute(c)
  PROVE  RouterInv'
  <1> USE RouterAssumption DEF RouterInv, InsertRoute, Goto, pendingVars
  <1>1. RouterTypes' BY Zenon DEF RouterTypes, Labels
  <1>2. \A p \in Peers : routes[p] # c /\ latest[p] # c
    BY Zenon DEF OwnEntry
  <1>3. OwnEntry' BY <1>2, Zenon DEF RouterTypes, OwnEntry
  <1>4. RouteIsLatest' BY <1>2, Zenon DEF RouterTypes, RouteIsLatest
  <1>5. ASSUME NEW p \in Peers, Settled(p)' PROVE queues'[p] = <<>>
    <2>1. p # PeerOf(c) BY <1>5, Zenon DEF Settled, RouterTypes
    <2>2. routes'[p] = routes[p] BY <2>1, Zenon DEF RouterTypes
    <2>3. RouteIsLive(p) /\ pc[routes[p]] # "drain"
      BY <1>2, <1>5, <2>2, Zenon DEF Settled, RouteIsLive, RouterTypes
    <2>4. \A d \in Conns : pc[d] \in {"check", "redrain"} => msg[d].to # p
      BY <1>5, Zenon DEF Settled, RouterTypes
    <2> QED BY <2>3, <2>4, Zenon DEF NoStranding, Settled
  <1>6. NoStranding' BY <1>5, Zenon DEF NoStranding
  <1> QED BY <1>1, <1>3, <1>4, <1>6, Zenon

\* A drain empties the one queue that its end could leave unwatched.
LEMMA DrainInv ==
  ASSUME RouterInv, NEW c \in Conns, DrainQueue(c)
  PROVE  RouterInv'
  <1> USE RouterAssumption DEF RouterInv
  <1>0. PICK label \in {"read", "forward", "reforward"} : Goto(c, label)
    BY Zenon DEF DrainQueue
  <1>1. /\ pc[c] \in {"drain", "redrain"}
        /\ queues' = [queues EXCEPT ![Target(c)] = <<>>]
        /\ UNCHANGED <<up, routes, open, latest, msg>>
    BY DEF DrainQueue, Drain, chanVars, histVars
  <1> HIDE DEF DrainQueue
  <1>2. Target(c) \in Peers BY <1>1, Zenon DEF Target, RouterTypes
  <1>3. RouterTypes' BY <1>0, <1>1, Zenon DEF Goto, RouterTypes, Labels
  <1>4. OwnEntry' BY <1>0, <1>1, Zenon DEF Goto, RouterTypes, OwnEntry
  <1>5. RouteIsLatest' BY <1>0, <1>1 DEF Goto, RouterTypes, RouteIsLatest
  <1>6. ASSUME NEW p \in Peers, Settled(p)', p # Target(c)
        PROVE queues'[p] = <<>>
    <2>1. RouteIsLive(p) BY <1>1, <1>6, Zenon DEF Settled, RouteIsLive
    <2>2. routes[p] # c \/ pc[c] # "drain"
      BY <1>6, <2>1, Zenon DEF Target, OwnEntry, RouteIsLive
    <2>3. pc[routes[p]] # "drain"
      BY <1>0, <1>1, <1>6, <2>1, <2>2, Zenon DEF Goto, Settled, RouteIsLive, RouterTypes
    <2>4. \A d \in Conns : pc[d] \in {"check", "redrain"} => msg[d].to # p
      BY <1>0, <1>1, <1>6, Zenon DEF Goto, Settled, Target, RouterTypes
    <2>5. queues[p] = <<>> BY <2>1, <2>3, <2>4, Zenon DEF NoStranding, Settled
    <2> QED BY <1>1, <1>6, <2>5 DEF RouterTypes
  <1>7. queues'[Target(c)] = <<>> BY <1>1, <1>2 DEF RouterTypes
  <1>8. NoStranding' BY <1>6, <1>7, ZenonT(60) DEF NoStranding
  <1> QED BY <1>3, <1>4, <1>5, <1>8, Zenon

\* A connection's cleanup takes away no route but its own.
LEMMA CleanupInv ==
  ASSUME RouterInv, NEW c \in Conns, Cleanup(c)
  PROVE  RouterInv'
  <1> USE RouterAssumption DEF RouterInv, Cleanup, Goto, pendingVars, histVars
  <1>1. RouterTypes' BY Zenon DEF RouterTypes, Labels
  <1>2. \A p \in Peers : routes'[p] = IF routes[p] = c THEN NoConn ELSE routes[p]
    BY Zenon DEF RouterTypes, OwnEntry
  <1>3. OwnEntry' BY <1>2 DEF RouterTypes, OwnEntry
  <1>4. RouteIsLatest' BY <1>2, ZenonT(60) DEF RouterTypes, RouteIsLatest, OwnEntry
  <1>5. ASSUME NEW p \in Peers, Settled(p)' PROVE queues'[p] = <<>>
    <2>1. routes[p] # c /\ RouteIsLive(p)
      BY <1>2, <1>5 DEF Settled, RouteIsLive
    <2>2. pc[routes[p]] # "drain"
      BY <1>2, <1>5, <2>1, Zenon DEF Settled, RouteIsLive, RouterTypes
    <2>3. \A d \in Conns : pc[d] \in {"check", "redrain"} => msg[d].to # p
      BY <1>5, Zenon DEF Settled, RouterTypes
    <2> QED BY <2>1, <2>2, <2>3, Zenon DEF NoStranding, Settled
  <1>6. NoStranding' BY <1>5 DEF NoStranding
  <1> QED BY <1>1, <1>3, <1>4, <1>6

\* A writer that dies makes a route dead and no other live.
LEMMA WriterInv ==
  ASSUME RouterInv, NEW c \in Conns, WriterFails(c)
  PROVE  RouterInv'
  <1> USE DEF RouterInv, WriterFails, pendingVars, taskVars, histVars
  <1>1. RouterTypes' BY Zenon DEF RouterTypes
  <1>2. OwnEntry' BY Zenon DEF OwnEntry
  <1>3. RouteIsLatest' BY Zenon DEF RouteIsLatest
  <1>4. NoStranding' BY Zenon DEF NoStranding, Settled, RouteIsLive
  <1> QED BY <1>1, <1>2, <1>3, <1>4, Zenon

\* An enqueue fills the queue of a recipient its own task is to look after.
LEMMA EnqueueInv ==
  ASSUME RouterInv, NEW c \in Conns, Enqueue(c)
  PROVE  RouterInv'
  <1> USE RouterAssumption DEF RouterInv
  <1> DEFINE to == msg[c].to
  <1>1. /\ pc[c] = "enqueue" /\ Goto(c, "check")
        /\ UNCHANGED <<up, routes, open, latest, msg>>
    BY Zenon DEF Enqueue, EnqueuePending, chanVars, histVars
  <1>2. queues' = queues \/ \E q : queues' = [queues EXCEPT ![to] = q]
    BY Zenon DEF Enqueue, EnqueuePending
  <1> HIDE DEF Enqueue
  <1>3. to \in Peers BY <1>1, Zenon DEF RouterTypes
  <1>4. RouterTypes' BY <1>1, <1>2, Zenon DEF Goto, RouterTypes, Labels
  <1>5. OwnEntry' BY <1>1 DEF Goto, RouterTypes, OwnEntry
  <1>6. RouteIsLatest' BY <1>1 DEF Goto, RouterTypes, RouteIsLatest
  <1>7. ASSUME NEW p \in Peers, Settled(p)' PROVE queues'[p] = <<>>
    <2>1. p # to BY <1>1, <1>7, Zenon DEF Goto, Settled, RouterTypes
    <2>2. RouteIsLive(p) BY <1>1, <1>7 DEF Settled, RouteIsLive
    <2>3. pc[routes[p]] # "drain"
      BY <1>1, <1>7, <2>2 DEF Goto, Settled, RouteIsLive, RouterTypes
    <2>4. \A d \in Conns : pc[d] \in {"check", "redrain"} => msg[d].to # p
      BY <1>1, <1>7, Zenon DEF Goto, Settled, RouterTypes
    <2>5. queues[p] = <<>> BY <2>2, <2>3, <2>4, Zenon DEF NoStranding, Settled
    <2> QED BY <1>2, <2>1, <2>5, Zenon DEF RouterTypes
  <1>8. NoStranding' BY <1>7, Zenon DEF NoStranding
  <1> QED BY <1>4, <1>5, <1>6, <1>8

\* The task stops watching the queue only when it sees no live route.
LEMMA CheckInv ==
  ASSUME RouterInv, NEW c \in Conns, CheckRoute(c)
  PROVE  RouterInv'
  <1> USE RouterAssumption
          DEF RouterInv, CheckRoute, Goto, pendingVars, chanVars, histVars
  <1>1. RouterTypes' BY Zenon DEF RouterTypes, Labels
  <1>2. OwnEntry' BY Zenon DEF RouterTypes, OwnEntry
  <1>3. RouteIsLatest' BY Zenon DEF RouterTypes, RouteIsLatest
  <1>4. ASSUME NEW p \in Peers, Settled(p)' PROVE queues'[p] = <<>>
    <2>1. RouteIsLive(p) BY <1>4, Zenon DEF Settled, RouteIsLive
    <2>2. p # msg[c].to
      BY <1>4, <2>1, Zenon DEF Settled, RouterTypes
    <2>3. pc[routes[p]] # "drain"
      BY <1>4, <2>1, Zenon DEF Settled, RouteIsLive, RouterTypes
    <2>4. \A d \in Conns : pc[d] \in {"check", "redrain"} => msg[d].to # p
      BY <1>4, <2>2, ZenonT(60) DEF Settled, RouterTypes
    <2> QED BY <2>1, <2>3, <2>4, Zenon DEF NoStranding, Settled
  <1>5. NoStranding' BY <1>4 DEF NoStranding
  <1> QED BY <1>1, <1>2, <1>3, <1>5, Zenon

\* The GC task goes through the queues there are and opens none.
LEMMA StoreInv ==
  ASSUME RouterInv, StoreTask
  PROVE  RouterInv'
  <1> USE DEF RouterInv
  <1>1. UNCHANGED <<up, routes, open, latest, pc, msg>>
    BY Zenon DEF StoreTask, GcExpired, Flush, routerVars
  <1>2. CASE GcExpired
    <2>1. queues' = [p \in Peers |-> Live(queues[p])] BY <1>2, Zenon DEF GcExpired
    <2>2. \A p \in Peers : queues[p] = <<>> => queues'[p] = <<>>
      BY <2>1, Zenon DEF Live
    <2>3. RouterTypes' BY <1>1, <2>1 DEF RouterTypes
    <2>4. NoStranding'
      BY <1>1, <2>2, Zenon DEF NoStranding, Settled, RouteIsLive
    <2> QED BY <1>1, <2>3, <2>4 DEF OwnEntry, RouteIsLatest
  <1>3. CASE Flush
    BY <1>1, <1>3, StillInv DEF Still, Flush
  <1> QED BY <1>2, <1>3 DEF StoreTask

\* The end of the process takes every route with it.
LEMMA DownInv ==
  ASSUME RouterInv, Down
  PROVE  RouterInv'
  <1> USE DEF RouterInv, Down
  <1>1. queues' = [p \in Peers |-> <<>>] BY Zenon DEF Crash, Stop
  <1>2. RouterTypes' BY <1>1, Zenon DEF RouterTypes, Labels
  <1>3. OwnEntry' BY Zenon DEF OwnEntry
  <1>4. RouteIsLatest' BY Zenon DEF RouteIsLatest
  <1>5. NoStranding' BY DEF NoStranding, Settled, RouteIsLive
  <1> QED BY <1>2, <1>3, <1>4, <1>5, Zenon

\* A restart reads the queues back before there is a route.
LEMMA RestartInv ==
  ASSUME RouterInv, Restart
  PROVE  RouterInv'
  <1> USE DEF RouterInv
  <1>1. /\ ~up /\ queues' = [p \in Peers |-> Live(file[p])]
        /\ UNCHANGED <<routes, open, latest, pc, msg>>
    BY DEF Restart, Load, chanVars, taskVars
  <1>2. RouterTypes' BY <1>1, Zenon DEF RouterTypes
  <1>3. OwnEntry' BY <1>1, Zenon DEF OwnEntry
  <1>4. RouteIsLatest' BY <1>1, ZenonT(60) DEF RouteIsLatest
  <1>5. NoStranding' BY <1>1, Zenon DEF NoStranding, Settled, RouteIsLive, OwnEntry
  <1> QED BY <1>2, <1>3, <1>4, <1>5

---------------------------------------------------------------------------
\* RouteIsLatest and NoStranding for every instance: the cleanup of a replaced
\* connection never removes its successor's route, and the second look at the
\* route table after an enqueue closes the reconnect race of the SEND and
\* CHAIN_SEED_DELIVERY arms, so no frame waits in the queue of a peer that is
\* online and drained.
THEOREM RoutesAndQueues == RSpec => [](RouteIsLatest /\ NoStranding)
  <1>1. RInit => RouterInv
    <2> SUFFICES ASSUME RInit PROVE RouterInv OBVIOUS
    <2> USE RouterAssumption DEF RInit, Init
    <2>1. RouterTypes BY Zenon DEF RouterTypes, Labels
    <2>2. OwnEntry BY Zenon DEF OwnEntry
    <2>3. RouteIsLatest BY Zenon DEF RouteIsLatest
    <2>4. NoStranding BY Zenon DEF NoStranding
    <2> QED BY <2>1, <2>2, <2>3, <2>4, Zenon DEF RouterInv
  <1>2. RouterInv /\ [RNext]_vars => RouterInv'
    <2> SUFFICES ASSUME RouterInv, [RNext]_vars PROVE RouterInv' OBVIOUS
    <2>1. ASSUME NEW c \in Conns, InsertRoute(c) PROVE RouterInv'
      BY <2>1, InsertInv
    <2>2. ASSUME NEW c \in Conns, DrainQueue(c) PROVE RouterInv'
      BY <2>2, DrainInv
    <2>3. ASSUME NEW c \in Conns, ForwardDrained(c) PROVE RouterInv'
      <3>1. Moves(c, "read")
        BY <2>3 DEF ForwardDrained, Moves, Quiet, pendingVars, histVars,
                    RouterInv, RouterTypes
      <3> QED BY <3>1, MovesInv, ZenonT(60)
    <2>4. ASSUME NEW c \in Conns, ReadEnds(c) PROVE RouterInv'
      <3>1. Moves(c, "cleanup")
        BY <2>4, Zenon DEF ReadEnds, Moves, Quiet, pendingVars, chanVars, histVars,
                    RouterInv, RouterTypes
      <3> QED BY <3>1, MovesInv, Zenon
    <2>5. ASSUME NEW c \in Conns, Cleanup(c) PROVE RouterInv'
      BY <2>5, CleanupInv
    <2>6. ASSUME NEW c \in Conns, WriteFrame(c) PROVE RouterInv'
      BY <2>6, StillInv, Zenon DEF WriteFrame, Still, pendingVars, taskVars
    <2>7. ASSUME NEW c \in Conns, WriterFails(c) PROVE RouterInv'
      BY <2>7, WriterInv
    <2>8. ASSUME NEW c \in Conns, NEW m \in Bodies, Receive(c, m)
          PROVE RouterInv'
      <3>1. CASE UNCHANGED <<pc, msg>>
        BY <2>8, <3>1, StillInv DEF Receive, Still, pendingVars, chanVars
      <3>2. CASE msg' = [msg EXCEPT ![c] = m] /\ Goto(c, "route")
        <4>1. Moves(c, "route")
          BY <2>8, <3>2 DEF Receive, Moves, Quiet, pendingVars, chanVars,
                            RouterInv, RouterTypes
        <4> QED BY <4>1, MovesInv, ZenonT(60)
      <3> QED BY <2>8, <3>1, <3>2, ZenonT(60) DEF Receive
    <2>9. ASSUME NEW c \in Conns, Route(c) PROVE RouterInv'
      <3>1. PICK label \in {"read", "enqueue"} : Goto(c, label)
        BY <2>9, Zenon DEF Route
      <3>2. Moves(c, label)
        BY <2>9, <3>1, Zenon DEF Route, Moves, Quiet, pendingVars, histVars,
                          RouterInv, RouterTypes
      <3> QED BY <3>2, MovesInv
    <2>10. ASSUME NEW c \in Conns, Enqueue(c) PROVE RouterInv'
      BY <2>10, EnqueueInv
    <2>11. ASSUME NEW c \in Conns, CheckRoute(c) PROVE RouterInv'
      BY <2>11, CheckInv
    <2>12. CASE DedupeGc
      BY <2>12, StillInv DEF DedupeGc, Still, pendingVars, chanVars, taskVars,
                             histVars
    <2>13. CASE StoreTask BY <2>13, StoreInv
    <2>14. CASE Down BY <2>14, DownInv
    <2>15. CASE Restart BY <2>15, RestartInv
    <2>16. CASE Clock
      BY <2>16, StillInv, Zenon DEF Clock, Tick, Still, routerVars
    <2>17. CASE UNCHANGED vars
      BY <2>17, StillInv DEF vars, Still, pendingVars, routerVars
    <2> QED
      BY <2>1, <2>2, <2>3, <2>4, <2>5, <2>6, <2>7, <2>8, <2>9, <2>10, <2>11,
         <2>12, <2>13, <2>14, <2>15, <2>16, <2>17 DEF RNext
  <1>3. RouterInv => RouteIsLatest /\ NoStranding BY DEF RouterInv
  <1> QED BY <1>1, <1>2, <1>3, PTL DEF RSpec

---------------------------------------------------------------------------
(* The push gate *)

\* The inductive invariant.  That the semaphore is never overfull is part of
\* GateTypeOK and follows from the account of the permits, so the two are proved
\* together.
GateInv == GateTypeOK /\ NoOrphanMark /\ PermitsAccounted

\* The sets that are counted are finite.
LEMMA Counted ==
  ASSUME GateTypeOK
  PROVE  /\ IsFiniteSet(inFlight) /\ Cardinality(inFlight) \in Nat
         /\ IsFiniteSet(Admitting) /\ Cardinality(Admitting) \in Nat
  <1>1. inFlight \subseteq Recipients /\ Admitting \subseteq Handlers
    BY DEF GateTypeOK, Admitting
  <1>2. IsFiniteSet(Recipients) /\ IsFiniteSet(Handlers)
    BY PushAssumption
  <1>3. IsFiniteSet(inFlight) /\ IsFiniteSet(Admitting)
    BY <1>1, <1>2, FS_Subset
  <1> QED BY <1>3, FS_CardinalityType

\* A handler that goes to a label other than "insert" is no longer counted.
LEMMA LeavesInsert ==
  ASSUME NEW h \in Handlers, NEW label, label # "insert", GateTypeOK, Advance(h, label)
  PROVE  Admitting' = Admitting \ {h}
  BY DEF Admitting, Advance, GateTypeOK

\* A handler that was not counted and still is not makes no difference.
LEMMA StaysOut ==
  ASSUME NEW h \in Handlers, NEW label, label # "insert", GateTypeOK,
         stage[h] # "insert", Advance(h, label)
  PROVE  Admitting' = Admitting
  BY Zenon DEF Admitting, Advance, GateTypeOK

\* The two halves of try_admit: one permit more, or one less, in a handler.
LEMMA OneMore ==
  ASSUME GateTypeOK, NEW h \in Handlers, stage[h] # "insert",
         Advance(h, "insert")
  PROVE  Cardinality(Admitting') = Cardinality(Admitting) + 1
  <1>1. Admitting' = Admitting \cup {h} /\ h \notin Admitting
    BY DEF Admitting, Advance, GateTypeOK
  <1> QED BY <1>1, Counted, FS_AddElement, Zenon

\* The handler that leaves the insert step leaves the admitting set one smaller.
LEMMA OneLess ==
  ASSUME GateTypeOK, NEW h \in Handlers, stage[h] = "insert",
         Advance(h, "read")
  PROVE  Cardinality(Admitting') = Cardinality(Admitting) - 1
  <1>1. Admitting' = Admitting \ {h} /\ h \in Admitting
    BY LeavesInsert, ZenonT(60) DEF Admitting
  <1> QED BY <1>1, Counted, FS_RemoveElement, Zenon

\* Every step of a handler, a task or a recipient keeps the types, but for
\* the upper bound of the semaphore.
LooseTypeOK ==
    /\ tokens \subseteq Recipients
    /\ permits \in Nat
    /\ inFlight \subseteq Recipients
    /\ stage \in [Handlers -> {"read", "lookup", "acquire", "insert"}]
    /\ target \in [Handlers -> Recipients \cup {Nobody}]
    /\ \A h \in Handlers : stage[h] # "read" => target[h] \in Recipients
    /\ task \in [Recipients -> {"none", "jitter", "posting"}]
    /\ leaving \in Nat
    /\ unwoken \subseteq Recipients
    /\ excused \subseteq Recipients

\* Every step keeps LooseTypeOK.
LEMMA StepType ==
  ASSUME GateTypeOK, NoOrphanMark, GateNext
  PROVE  LooseTypeOK'
  <1> USE DEF LooseTypeOK
  <1>0. permits \in Nat BY PushAssumption DEF GateTypeOK
  <1>1. ASSUME NEW h \in Handlers, NEW r \in Recipients, Queued(h, r)
        PROVE LooseTypeOK'
    BY <1>0, <1>1, Zenon DEF Queued, Advance, GateTypeOK
  <1>2. ASSUME NEW h \in Handlers, LookupToken(h) PROVE LooseTypeOK'
    BY <1>0, <1>2, ZenonT(60) DEF LookupToken, Advance, GateTypeOK
  <1>3. ASSUME NEW h \in Handlers, AcquirePermit(h) PROVE LooseTypeOK'
    BY <1>0, <1>3 DEF AcquirePermit, Advance, GateTypeOK
  <1>4. ASSUME NEW h \in Handlers, MarkInFlight(h) PROVE LooseTypeOK'
    BY <1>0, <1>4 DEF MarkInFlight, Advance, GateTypeOK
  <1>5. ASSUME NEW r \in Recipients, ChangeToken(r) PROVE LooseTypeOK'
    BY <1>0, <1>5, Zenon DEF ChangeToken, GateTypeOK
  <1>6. ASSUME NEW r \in Recipients, Post(r) PROVE LooseTypeOK'
    BY <1>0, <1>6, Zenon DEF Post, GateTypeOK
  <1>7. ASSUME NEW r \in Recipients, ClearMark(r) PROVE LooseTypeOK'
    BY <1>0, <1>7 DEF ClearMark, GateTypeOK
  <1>8. CASE ReleasePermit
    BY <1>0, <1>8 DEF ReleasePermit, GateTypeOK
  <1> QED BY <1>1, <1>2, <1>3, <1>4, <1>5, <1>6, <1>7, <1>8 DEF GateNext

\* Marks come and go with their tasks.
LEMMA StepMarks ==
  ASSUME GateTypeOK, NoOrphanMark, GateNext
  PROVE  NoOrphanMark'
  <1> USE DEF NoOrphanMark
  <1>1. ASSUME NEW h \in Handlers, NEW r \in Recipients, Queued(h, r)
        PROVE NoOrphanMark'
    BY <1>1, Zenon DEF Queued
  <1>2. ASSUME NEW h \in Handlers, LookupToken(h) PROVE NoOrphanMark'
    BY <1>2, Zenon DEF LookupToken
  <1>3. ASSUME NEW h \in Handlers, AcquirePermit(h) PROVE NoOrphanMark'
    BY <1>3, Zenon DEF AcquirePermit
  <1>4. ASSUME NEW h \in Handlers, MarkInFlight(h) PROVE NoOrphanMark'
    BY <1>4 DEF MarkInFlight, GateTypeOK
  <1>5. ASSUME NEW r \in Recipients, ChangeToken(r) PROVE NoOrphanMark'
    BY <1>5 DEF ChangeToken
  <1>6. ASSUME NEW r \in Recipients, Post(r) PROVE NoOrphanMark'
    BY <1>6 DEF Post, GateTypeOK
  <1>7. ASSUME NEW r \in Recipients, ClearMark(r) PROVE NoOrphanMark'
    BY <1>7 DEF ClearMark, GateTypeOK
  <1>8. CASE ReleasePermit
    BY <1>8 DEF ReleasePermit
  <1> QED BY <1>1, <1>2, <1>3, <1>4, <1>5, <1>6, <1>7, <1>8, Zenon DEF GateNext

\* Permits move between the semaphore, handlers and tasks.
LEMMA StepPermits ==
  ASSUME GateInv, GateNext
  PROVE  PermitsAccounted'
  <1> USE DEF GateInv
  <1>a. /\ Cardinality(inFlight) \in Nat /\ IsFiniteSet(inFlight)
        /\ Cardinality(Admitting) \in Nat
        /\ permits \in Nat /\ leaving \in Nat /\ MaxInflight \in Nat
        /\ permits + leaving + Cardinality(Admitting) + Cardinality(inFlight)
              = MaxInflight
    BY PushAssumption, Counted DEF GateTypeOK, PermitsAccounted
  <1>1. ASSUME NEW h \in Handlers, NEW r \in Recipients, Queued(h, r)
        PROVE PermitsAccounted'
    <2>1. Admitting' = Admitting BY <1>1, StaysOut, Zenon DEF Queued
    <2> QED BY <1>1, <2>1, Zenon DEF Queued, PermitsAccounted
  <1>2. ASSUME NEW h \in Handlers, LookupToken(h) PROVE PermitsAccounted'
    <2>1. Admitting' = Admitting BY <1>2, StaysOut DEF LookupToken
    <2> QED BY <1>2, <2>1, Zenon DEF LookupToken, PermitsAccounted
  <1>3. ASSUME NEW h \in Handlers, AcquirePermit(h) PROVE PermitsAccounted'
    <2>1. CASE permits > 0
      <3>1. Cardinality(Admitting') = Cardinality(Admitting) + 1
        BY <1>3, <2>1, OneMore, Zenon DEF AcquirePermit
      <3>2. permits' = permits - 1 /\ inFlight' = inFlight /\ leaving' = leaving
        BY <1>3, <2>1, Zenon DEF AcquirePermit
      <3> QED BY <1>a, <3>1, <3>2 DEF PermitsAccounted
    <2>2. CASE ~(permits > 0)
      <3>1. Admitting' = Admitting BY <1>3, <2>2, StaysOut DEF AcquirePermit
      <3> QED BY <1>3, <2>2, <3>1, Zenon DEF AcquirePermit, PermitsAccounted
    <2> QED BY <2>1, <2>2
  <1>4. ASSUME NEW h \in Handlers, MarkInFlight(h) PROVE PermitsAccounted'
    <2>1. Cardinality(Admitting') = Cardinality(Admitting) - 1
      BY <1>4, OneLess, Zenon DEF MarkInFlight
    <2>2. CASE target[h] \in inFlight
      <3>1. permits' = permits + 1 /\ inFlight' = inFlight /\ leaving' = leaving
        BY <1>4, <2>2, ZenonT(60) DEF MarkInFlight
      <3> QED BY <1>a, <2>1, <3>1 DEF PermitsAccounted
    <2>3. CASE target[h] \notin inFlight
      <3>1. /\ permits' = permits /\ leaving' = leaving
            /\ inFlight' = inFlight \cup {target[h]}
        BY <1>4, <2>3, Zenon DEF MarkInFlight
      <3>2. Cardinality(inFlight') = Cardinality(inFlight) + 1
        BY <1>a, <2>3, <3>1, FS_AddElement, Zenon
      <3> QED BY <1>a, <2>1, <3>1, <3>2 DEF PermitsAccounted
    <2> QED BY <2>2, <2>3, Zenon
  <1>5. ASSUME NEW r \in Recipients, ChangeToken(r) PROVE PermitsAccounted'
    BY <1>5, Zenon DEF ChangeToken, PermitsAccounted, Admitting
  <1>6. ASSUME NEW r \in Recipients, Post(r) PROVE PermitsAccounted'
    BY <1>6 DEF Post, PermitsAccounted, Admitting
  <1>7. ASSUME NEW r \in Recipients, ClearMark(r) PROVE PermitsAccounted'
    <2>1. /\ r \in inFlight /\ inFlight' = inFlight \ {r}
          /\ leaving' = leaving + 1 /\ permits' = permits /\ Admitting' = Admitting
      BY <1>7, Zenon DEF ClearMark, NoOrphanMark, Admitting
    <2>2. Cardinality(inFlight') = Cardinality(inFlight) - 1
      BY <1>a, <2>1, FS_RemoveElement, Zenon
    <2> QED BY <1>a, <2>1, <2>2 DEF PermitsAccounted
  <1>8. CASE ReleasePermit
    <2>1. /\ leaving > 0 /\ leaving' = leaving - 1 /\ permits' = permits + 1
          /\ inFlight' = inFlight /\ Admitting' = Admitting
      BY <1>8 DEF ReleasePermit, Admitting
    <2> QED BY <1>a, <2>1 DEF PermitsAccounted
  <1> QED BY <1>1, <1>2, <1>3, <1>4, <1>5, <1>6, <1>7, <1>8, ZenonT(60) DEF GateNext

\* With every permit accounted for, none is free beyond MaxInflight.
LEMMA NotOverfull ==
  ASSUME LooseTypeOK, PermitsAccounted
  PROVE  GateTypeOK
  <1>1. inFlight \subseteq Recipients /\ Admitting \subseteq Handlers
    BY DEF LooseTypeOK, Admitting
  <1>2. Cardinality(inFlight) \in Nat /\ Cardinality(Admitting) \in Nat
    BY PushAssumption, <1>1, FS_Subset, FS_CardinalityType
  <1>3. permits \in 0..MaxInflight
    BY PushAssumption, <1>2 DEF LooseTypeOK, PermitsAccounted
  <1> QED BY <1>3 DEF LooseTypeOK, GateTypeOK

\* A frame's wake-up is under way, posted or given up: each action moves it on.
\* The coalescing step needs NoOrphanMark, or the mark could be of no task.
LEMMA StepWoken ==
  ASSUME GateTypeOK, NoOrphanMark, WokenOrExcused, GateNext
  PROVE  WokenOrExcused'
  <1> USE DEF WokenOrExcused, GateTypeOK
  <1>1. ASSUME NEW h \in Handlers, NEW r \in Recipients, Queued(h, r)
        PROVE WokenOrExcused'
    BY <1>1, Zenon DEF Queued, Advance
  <1>2. ASSUME NEW h \in Handlers, LookupToken(h) PROVE WokenOrExcused'
    BY <1>2 DEF LookupToken, Advance
  <1>3. ASSUME NEW h \in Handlers, AcquirePermit(h) PROVE WokenOrExcused'
    BY <1>3 DEF AcquirePermit, Advance
  <1>4. ASSUME NEW h \in Handlers, MarkInFlight(h) PROVE WokenOrExcused'
    <2>1. target[h] \in inFlight => task[target[h]] \in {"jitter", "posting"}
      BY Zenon DEF NoOrphanMark
    <2> QED BY <1>4, <2>1 DEF MarkInFlight, Advance
  <1>5. ASSUME NEW r \in Recipients, ChangeToken(r) PROVE WokenOrExcused'
    BY <1>5, Zenon DEF ChangeToken
  <1>6. ASSUME NEW r \in Recipients, Post(r) PROVE WokenOrExcused'
    BY <1>6, Zenon DEF Post
  <1>7. ASSUME NEW r \in Recipients, ClearMark(r) PROVE WokenOrExcused'
    BY <1>7, Zenon DEF ClearMark
  <1>8. ASSUME ReleasePermit PROVE WokenOrExcused'
    BY <1>8 DEF ReleasePermit
  <1> QED BY <1>1, <1>2, <1>3, <1>4, <1>5, <1>6, <1>7, <1>8, Zenon DEF GateNext

\* The three facts that are proved together: types, marks and permits.
LEMMA GateInvariant == GateSpec => []GateInv
  <1>1. GateInit => GateInv
    <2> SUFFICES ASSUME GateInit PROVE GateInv OBVIOUS
    <2>1. GateTypeOK BY PushAssumption DEF GateInit, GateTypeOK
    <2>2. NoOrphanMark BY DEF GateInit, NoOrphanMark
    <2>3. inFlight = {} /\ Admitting = {} /\ permits = MaxInflight /\ leaving = 0
      BY DEF GateInit, Admitting
    <2>4. PermitsAccounted
      BY PushAssumption, <2>3, FS_EmptySet DEF PermitsAccounted
    <2> QED BY <2>1, <2>2, <2>4, Zenon DEF GateInv
  <1>2. GateInv /\ [GateNext]_gateVars => GateInv'
    <2> SUFFICES ASSUME GateInv, [GateNext]_gateVars PROVE GateInv' OBVIOUS
    <2>1. CASE GateNext
      <3>1. LooseTypeOK' /\ NoOrphanMark' /\ PermitsAccounted'
        BY <2>1, StepType, StepMarks, StepPermits DEF GateInv
      <3>2. LooseTypeOK' /\ PermitsAccounted' => GateTypeOK'
        BY NotOverfull, PTL
      <3> QED BY <3>1, <3>2 DEF GateInv
    <2>2. CASE UNCHANGED gateVars
      BY <2>2 DEF gateVars, GateInv, GateTypeOK, NoOrphanMark, PermitsAccounted, Admitting
    <2> QED BY <2>1, <2>2
  <1> QED BY <1>1, <1>2, PTL DEF GateSpec

\* However many handlers and wake-up tasks run, and whichever lose the race
\* for a permit or for the mark: a recipient is marked exactly while it has a
\* task, and every permit of PushGate's semaphore is free, in try_admit or
\* with a task.
THEOREM NoLeak == GateSpec => [](NoOrphanMark /\ PermitsAccounted)
  BY GateInvariant, PTL DEF GateInv

\* The gate skips a wake-up only where its doc gives it up: maybe_send_push has
\* no token or no permit, or meets a task that has posted and not yet left.
THEOREM WakesOrExcuses == GateSpec => []WokenOrExcused
  <1>1. GateInit => WokenOrExcused
    BY DEF GateInit, WokenOrExcused
  <1>2. GateInv /\ WokenOrExcused /\ [GateNext]_gateVars => WokenOrExcused'
    <2> SUFFICES ASSUME GateInv, WokenOrExcused, [GateNext]_gateVars
                 PROVE  WokenOrExcused'
      OBVIOUS
    <2>1. CASE GateNext BY <2>1, StepWoken, ZenonT(60) DEF GateInv
    <2>2. CASE UNCHANGED gateVars BY <2>2 DEF gateVars, WokenOrExcused
    <2> QED BY <2>1, <2>2
  <1> QED BY <1>1, <1>2, GateInvariant, PTL DEF GateSpec

=============================================================================
