---------------------------- MODULE RelayRouter ----------------------------
(***************************************************************************)
(* The relay's connection handling and frame routing (relay/src/main.rs):  *)
(* handle_connection, the frame arms of read_loop, drain_pending, the      *)
(* route table with its per-connection channels and writer tasks, and the  *)
(* SEND dedupe table, over the offline queues of PendingStore.             *)
(*                                                                         *)
(* Each connection is a task.  A step of a task is what it does while it   *)
(* holds one lock; between two lock acquisitions every other task, writer  *)
(* and timer may run.  The process may crash or stop at any time.          *)
(*                                                                         *)
(* Delivery tokens and rate limits decide whether a frame gets this far    *)
(* (the modules of those checks): here any frame may have passed.          *)
(***************************************************************************)
EXTENDS PendingStore

CONSTANTS
    Conns,          \* connections; each is used once
    PeerOf(_),      \* the peer that says HELLO on a connection
    Window,         \* SEND_DEDUPE_WINDOW
    MaxDedupe,      \* SEND_DEDUPE_MAX_ENTRIES
    MaxSends,       \* bound: how often one message is sent
    MaxRestarts,    \* bound: restarts of the relay
    NoConn          \* no route

\* Bodies are messages [id, from, to, kind].
Kinds == {"send", "seed", "bundle"}

ASSUME RouterAssumption ==
    /\ \A c \in Conns : PeerOf(c) \in Peers
    /\ \A m \in Bodies : m.from \in Peers /\ m.to \in Peers /\ m.kind \in Kinds
    /\ NoConn \notin Conns
    /\ Window \in Nat \ {0} /\ MaxDedupe \in Nat \ {0}
    /\ MaxSends \in Nat /\ MaxRestarts \in Nat

VARIABLES
    routes,    \* peer -> connection whose channel is in the route table
    open,      \* connections whose writer task (the receiver) is running
    chan,      \* connection -> payloads in its channel
    pc,        \* connection -> where its task is
    msg,       \* connection -> the frame its task is handling
    hand,      \* connection -> payloads drained and not yet forwarded
    seen,      \* dedupe table: message -> time of first sight, or -1
    sends,     \* message -> times it was sent
    restarts,
    latest,    \* history: peer -> the connection inserted last
    granted,   \* history: message -> copies the relay may deliver
    delivered  \* history: message -> copies written to a socket

taskVars == <<pc, msg, hand>>
chanVars == <<routes, open, chan>>
histVars == <<latest, granted, delivered>>
routerVars == <<routes, open, chan, pc, msg, hand, seen, sends, restarts,
                latest, granted, delivered>>
vars == <<pendingVars, routerVars>>

---------------------------------------------------------------------------
RInit ==
    /\ Init
    /\ routes = [p \in Peers |-> NoConn]
    /\ open = {}
    /\ chan = [c \in Conns |-> <<>>]
    /\ pc = [c \in Conns |-> "new"]
    /\ msg = [c \in Conns |-> NoConn]
    /\ hand = [c \in Conns |-> <<>>]
    /\ seen = [m \in Bodies |-> -1]
    /\ sends = [m \in Bodies |-> 0]
    /\ restarts = 0
    /\ latest = [p \in Peers |-> NoConn]
    /\ granted = [m \in Bodies |-> 0]
    /\ delivered = [m \in Bodies |-> 0]

\* A sender whose receiver is gone reports an error on send.
RouteIsLive(p) == routes[p] # NoConn /\ routes[p] \in open

Goto(c, label) == pc' = [pc EXCEPT ![c] = label]

\* The peer whose queue the task drains: its own after HELLO, the
\* recipient's after a queued frame.
Target(c) == IF pc[c] \in {"drain", "forward"} THEN PeerOf(c) ELSE msg[c].to

---------------------------------------------------------------------------
(* handle_connection *)

\* After the HELLO is verified: install the route.  A previous sender for
\* the peer is dropped from the table; its own task still holds a clone, so
\* its writer goes on.
InsertRoute(c) ==
    /\ up
    /\ pc[c] = "new"
    /\ routes' = [routes EXCEPT ![PeerOf(c)] = c]
    /\ latest' = [latest EXCEPT ![PeerOf(c)] = c]
    /\ open' = open \cup {c}
    /\ Goto(c, "drain")
    /\ UNCHANGED <<pendingVars, chan, msg, hand, seen, sends, restarts,
                   granted, delivered>>

\* Mutant: the frames are copied out of the store and left in it.
MutDrainQueue(c) ==
    /\ pc[c] \in {"drain", "redrain"}
    /\ up
    /\ LET live == Live(queues[Target(c)]) IN
          /\ hand' = [hand EXCEPT ![c] = live]
          /\ Goto(c, IF live = <<>> THEN "read"
                     ELSE IF pc[c] = "drain" THEN "forward" ELSE "reforward")
    /\ UNCHANGED <<pendingVars, chanVars, msg, seen, sends, restarts, histVars>>

\* drain_pending under the store's lock.
DrainQueue(c) ==
    /\ pc[c] \in {"drain", "redrain"}
    /\ LET live == Live(queues[Target(c)]) IN
          /\ hand' = [hand EXCEPT ![c] = live]
          /\ Goto(c, IF live = <<>> THEN "read"
                     ELSE IF pc[c] = "drain" THEN "forward" ELSE "reforward")
    /\ Drain(Target(c))
    /\ UNCHANGED <<chanVars, msg, seen, sends, restarts, histVars>>

\* drain_pending under the route table's lock: without a route, or with a
\* closed channel, the drained frames are gone.
ForwardDrained(c) ==
    /\ up
    /\ pc[c] \in {"forward", "reforward"}
    /\ chan' = IF RouteIsLive(Target(c))
               THEN [chan EXCEPT ![routes[Target(c)]] =
                        @ \o [i \in DOMAIN hand[c] |-> hand[c][i].body]]
               ELSE chan
    /\ hand' = [hand EXCEPT ![c] = <<>>]
    /\ Goto(c, "read")
    /\ UNCHANGED <<pendingVars, routes, open, msg, seen, sends, restarts,
                   histVars>>

\* EOF, a read error, the idle timeout or a frame the loop refuses.
ReadEnds(c) ==
    /\ up
    /\ pc[c] = "read"
    /\ Goto(c, "cleanup")
    /\ UNCHANGED <<pendingVars, chanVars, msg, hand, seen, sends, restarts,
                   histVars>>

\* Remove the route if it is still ours (same_channel), abort the writer.
Cleanup(c) ==
    /\ up
    /\ pc[c] = "cleanup"
    /\ routes' = [routes EXCEPT ![PeerOf(c)] = IF @ = c THEN NoConn ELSE @]
    /\ open' = open \ {c}
    /\ chan' = [chan EXCEPT ![c] = <<>>]
    /\ Goto(c, "done")
    /\ UNCHANGED <<pendingVars, msg, hand, seen, sends, restarts, histVars>>

---------------------------------------------------------------------------
(* The writer task *)

WriteFrame(c) ==
    /\ up
    /\ c \in open
    /\ chan[c] # <<>>
    /\ chan' = [chan EXCEPT ![c] = Tail(@)]
    /\ delivered' = [delivered EXCEPT ![Head(chan[c])] = @ + 1]
    /\ UNCHANGED <<pendingVars, routes, open, taskVars, seen, sends, restarts,
                   latest, granted>>

\* write_frame fails: the task ends, and its receiver and channel with it;
\* the route stays in the table.
WriterFails(c) ==
    /\ up
    /\ c \in open
    /\ chan[c] # <<>>
    /\ open' = open \ {c}
    /\ chan' = [chan EXCEPT ![c] = <<>>]
    /\ UNCHANGED <<pendingVars, routes, taskVars, seen, sends, restarts,
                   histVars>>

---------------------------------------------------------------------------
(* The frame arms of read_loop *)

\* The oldest entries of the dedupe table; a tie may go either way.
Recorded == {m \in Bodies : seen[m] >= 0}
Oldest == {m \in Recorded : \A n \in Recorded : seen[m] <= seen[n]}

\* dedupe_check_and_insert on a miss: at the cap one entry gives way.
Record(m) ==
    IF Cardinality(Recorded) < MaxDedupe
    THEN seen' = [seen EXCEPT ![m] = now]
    ELSE \E old \in Oldest : seen' = [seen EXCEPT ![old] = -1, ![m] = now]

\* A frame arrives and passes its checks.  A SEND that is in the dedupe
\* table is dropped without a word.
Receive(c, m) ==
    /\ up
    /\ pc[c] = "read"
    /\ m.from = PeerOf(c)
    /\ sends[m] < MaxSends
    /\ sends' = [sends EXCEPT ![m] = @ + 1]
    /\ \/ /\ m.kind = "send" /\ seen[m] >= 0
          /\ UNCHANGED <<pc, msg, seen, granted>>
       \/ /\ m.kind = "send" => seen[m] < 0 /\ Record(m)
          /\ m.kind # "send" => UNCHANGED seen
          /\ msg' = [msg EXCEPT ![c] = m]
          /\ granted' = [granted EXCEPT ![m] = @ + 1]
          /\ Goto(c, "route")
    /\ UNCHANGED <<pendingVars, chanVars, hand, restarts, latest, delivered>>

\* Under the route table's lock: hand the frame to the recipient's writer,
\* or take it back for the offline queue.  Bundle frames are never queued.
Route(c) ==
    /\ up
    /\ pc[c] = "route"
    /\ \/ /\ RouteIsLive(msg[c].to)
          /\ chan' = [chan EXCEPT ![routes[msg[c].to]] = Append(@, msg[c])]
          /\ Goto(c, "read")
       \/ /\ ~RouteIsLive(msg[c].to)
          /\ Goto(c, IF msg[c].kind = "bundle" THEN "read" ELSE "enqueue")
          /\ UNCHANGED chan
    /\ UNCHANGED <<pendingVars, routes, open, msg, hand, seen, sends, restarts,
                   histVars>>

Enqueue(c) ==
    /\ pc[c] = "enqueue"
    /\ \/ /\ msg[c].kind = "send"
          /\ \E ttl \in Ttls :
                EnqueuePending(msg[c].to, msg[c], ttl, "Authorized")
       \/ /\ msg[c].kind = "seed"
          /\ EnqueuePending(msg[c].to, msg[c], MaxPendingTtl, "Seed")
    /\ Goto(c, "check")
    /\ UNCHANGED <<chanVars, msg, hand, seen, sends, restarts, histVars>>

\* Mutant: no second look at the route table after the enqueue.
MutCheckRoute(c) ==
    /\ up
    /\ pc[c] = "check"
    /\ Goto(c, "read")
    /\ UNCHANGED <<pendingVars, chanVars, msg, hand, seen, sends, restarts,
                   histVars>>

\* route_is_live after the enqueue: drain again, or leave the frame queued
\* (a SEND then asks for a push, see PushGate).
CheckRoute(c) ==
    /\ up
    /\ pc[c] = "check"
    /\ Goto(c, IF RouteIsLive(msg[c].to) THEN "redrain" ELSE "read")
    /\ UNCHANGED <<pendingVars, chanVars, msg, hand, seen, sends, restarts,
                   histVars>>

---------------------------------------------------------------------------
(* Timers and the life of the process *)

\* spawn_send_dedupe_gc.
DedupeGc ==
    /\ up
    /\ seen' = [m \in Bodies |-> IF seen[m] > now - Window THEN seen[m] ELSE -1]
    /\ UNCHANGED <<pendingVars, chanVars, taskVars, sends, restarts, histVars>>

\* spawn_store_flush and spawn_pending_gc; the file matters only while a
\* restart is still to come.
StoreTask ==
    /\ GcExpired \/ (restarts < MaxRestarts /\ Flush)
    /\ UNCHANGED routerVars

\* The process ends: connections, channels and in-memory tables are gone.
Down ==
    /\ restarts < MaxRestarts
    /\ Crash \/ Stop
    /\ restarts' = restarts + 1
    /\ routes' = [p \in Peers |-> NoConn]
    /\ open' = {}
    /\ chan' = [c \in Conns |-> <<>>]
    /\ pc' = [c \in Conns |-> IF pc[c] = "new" THEN "new" ELSE "done"]
    /\ hand' = [c \in Conns |-> <<>>]
    /\ seen' = [m \in Bodies |-> -1]
    /\ latest' = [p \in Peers |-> NoConn]
    /\ UNCHANGED <<msg, sends, granted, delivered>>

\* Copies of m in a family of queues.
InQueues(qs, m) ==
    MapThenSumSet(LAMBDA p : Cardinality({i \in DOMAIN qs[p] : qs[p][i].body = m}),
                  Peers)

\* A restart reloads the queues; each reloaded copy may be delivered.
Restart ==
    /\ Load
    /\ granted' = [m \in Bodies |-> granted[m] + InQueues(queues', m)]
    /\ UNCHANGED <<chanVars, taskVars, seen, sends, restarts, latest, delivered>>

Clock == Tick /\ UNCHANGED routerVars

RNext ==
    \/ \E c \in Conns :
          \/ InsertRoute(c)
          \/ DrainQueue(c)
          \/ ForwardDrained(c)
          \/ ReadEnds(c)
          \/ Cleanup(c)
          \/ WriteFrame(c)
          \/ WriterFails(c)
          \/ \E m \in Bodies : Receive(c, m)
          \/ Route(c)
          \/ Enqueue(c)
          \/ CheckRoute(c)
    \/ DedupeGc
    \/ StoreTask
    \/ Down
    \/ Restart
    \/ Clock

RSpec == RInit /\ [][RNext]_vars

\* tokio polls every ready task and its mutexes are fair queues, so a task
\* that is not waiting for its peer goes on, and so does a writer.
TaskStep(c) ==
    \/ DrainQueue(c)
    \/ ForwardDrained(c)
    \/ Cleanup(c)
    \/ Route(c)
    \/ Enqueue(c)
    \/ CheckRoute(c)
RFairness ==
    \A c \in Conns : WF_vars(TaskStep(c)) /\ WF_vars(WriteFrame(c))
RFairSpec == RSpec /\ RFairness

---------------------------------------------------------------------------
(* Properties *)

Labels == {"new", "drain", "forward", "read", "route", "enqueue", "check",
           "redrain", "reforward", "cleanup", "done"}

\* The route table points at the connection that said HELLO last, from its
\* insertion to its cleanup: neither a replaced connection's cleanup nor
\* anything else takes the route away from the newer one, and no route leads
\* to a connection that has ended.
RouteIsLatest ==
    \A p \in Peers :
        routes[p] = IF latest[p] = NoConn \/ pc[latest[p]] = "done"
                    THEN NoConn ELSE latest[p]

\* The reconnect race of the SEND and CHAIN_SEED_DELIVERY arms: once a peer's
\* connection has drained its queue and no task is between its enqueue and
\* its re-drain, nothing is left in the queue of a peer with a live route.
Settled(p) ==
    /\ RouteIsLive(p)
    /\ pc[routes[p]] # "drain"
    /\ \A c \in Conns : pc[c] \in {"check", "redrain"} => msg[c].to # p
NoStranding == \A p \in Peers : Settled(p) => queues[p] = <<>>

\* A HELLO drain racing a re-drain never forwards a frame twice: the copies
\* of a message in tasks, queues, channels and on sockets are never more than
\* the times it was accepted, plus the copies a restart read back.
InSeq(s, m) == Cardinality({i \in DOMAIN s : s[i] = m})
Copies(m) ==
    delivered[m] + InQueues(queues, m)
    + MapThenSumSet(LAMBDA c : InSeq(chan[c], m), Conns)
    + MapThenSumSet(LAMBDA c : Cardinality({i \in DOMAIN hand[c] :
                                               hand[c][i].body = m}), Conns)
    + Cardinality({c \in Conns : pc[c] \in {"route", "enqueue"} /\ msg[c] = m})
SingleCopy == \A m \in Bodies : Copies(m) <= granted[m]

\* A peer that stays online ends up with an empty queue and an empty channel:
\* every frame accepted for it was written to its socket or lost on the way
\* to a connection that died, and none waits for a reconnect.
OnlineDrains ==
    \A p \in Peers :
        (<>[]RouteIsLive(p)) =>
            <>[](RouteIsLive(p) => queues[p] = <<>> /\ chan[routes[p]] = <<>>)

\* What the SEND arm says of a dedupe hit ("retry of an already-accepted
\* SEND"): the relay has, or had delivered, a copy of what it drops.
DedupeDropsOnlyKept ==
    [][\A m \in Bodies :
          sends'[m] > sends[m] /\ granted'[m] = granted[m] => Copies(m) > 0]_vars

=============================================================================
