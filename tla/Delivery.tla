------------------------------ MODULE Delivery ------------------------------
(***************************************************************************)
(* One direction of a conversation, end to end: the sender's outbox        *)
(* (Outbox.swift, ChatStore.swift), the hash chain its delivery tokens are *)
(* minted from (HashChainToken.swift), the ratchet counter its messages    *)
(* are sealed under, the relays that check the tokens and hold the frames, *)
(* and the recipient that decrypts, shows and acknowledges them.           *)
(*                                                                         *)
(* The app's handlers run on the main actor, one at a time, and are cut    *)
(* short only by the end of the process.  sendV2 writes four times (chain  *)
(* cursor, outbox row, session, outbox row again), so it is four steps;    *)
(* the retry walk is one step per entry.  Relays and the recipient take    *)
(* their steps in between.                                                 *)
(*                                                                         *)
(* Connections come and go between any two steps, so the set of ready      *)
(* relays is chosen anew wherever the code reads it.  Time is not counted: *)
(* an entry may become due, or expire, at any moment.  A reply of the peer *)
(* starts a new ratchet chain; here all messages are of one ratchet chain. *)
(***************************************************************************)
EXTENDS Naturals, Sequences, FiniteSets

CONSTANTS
    Chats, Legs, Acks,  \* 1:1 texts, group legs and receipts the app may send
    Relays,             \* the fleet
    Length,             \* tokens of a chain (HashChainToken.defaultLength)
    Window,             \* MAX_VALIDATE_STEPS
    MaxRetries,         \* OutboxEntry.maxRetries
    MaxPendingV2Sends,  \* maxPendingV2SendsPerContact
    MaxChains,          \* bound: chains the peer ever ships
    MaxTaps,            \* bound: retries of a message the user asks for
    MaxFaults,          \* bound: failed saves, lost frames and crashes
    NoEntry, NoMsg      \* no outbox entry, no message

Msgs == Chats \cup Legs \cup Acks
Chains == 1 .. MaxChains
EntryType ==
    [relayed : BOOLEAN, failed : BOOLEAN, delivered : BOOLEAN,
     retries : Nat, ctr : Nat]

ASSUME DeliveryAssumption ==
    /\ Chats \cap Legs = {} /\ (Chats \cup Legs) \cap Acks = {}
    /\ NoMsg \notin Msgs /\ NoEntry \notin EntryType
    /\ Length \in Nat \ {0} /\ Window \in Nat \ {0}
    /\ MaxRetries \in Nat /\ MaxPendingV2Sends \in Nat
    /\ MaxChains \in Nat \ {0} /\ MaxTaps \in Nat /\ MaxFaults \in Nat

VARIABLES
    \* the sender's app
    chain,      \* outboundTokenChain: [id, next]
    ctr,        \* ratchet counter of the next message, in memory
    savedCtr,   \* and in the last session blob that was saved
    out,        \* outbox: message -> entry (memory and database agree)
    rows,       \* messages with a row in the sender's chat log
    tasks,      \* group legs that sleep out their jitter: [m, c, i, ctr]
    waiting,    \* pendingV2Sends
    draining,   \* what drainPendingV2Sends has left to send
    busy,       \* the handler that holds the main actor
    \* the relays
    last,       \* relay -> chain -> last index, or Unregistered
    box,        \* relay -> frames [m, ctr] it holds for the recipient
    \* the recipient's app
    seen,       \* counters its ratchet has consumed, in memory
    savedSeen,  \* and in the last saved session blob
    shown,      \* message -> times it was put in the chat log
    acks,       \* messages whose ACK is on the way back
    \* bounds and history
    used,       \* messages the app has begun to send
    faults,
    spent,      \* tokens <<chain, index>> that were put on the wire
    unsaved     \* a save of the recipient's session has failed

queueVars == <<tasks, waiting, draining>>
wireVars == <<last, box, spent>>
peerVars == <<seen, savedSeen, shown, unsaved>>
senderVars == <<chain, ctr, savedCtr, out, rows, queueVars, busy, used>>
vars == <<senderVars, wireVars, peerVars, acks, faults>>

Unregistered == Length + 1

Idle == [at |-> "idle"]

\* The main actor is free to run the next handler.
Free == busy = Idle /\ draining = <<>>

Fault == faults < MaxFaults /\ faults' = faults + 1
NoFault == faults' = faults

---------------------------------------------------------------------------
(* The fan-out to the relays, and what they do with a frame. *)

\* ChainValidatorStore::validate, for an honest token of a chain.
Validates(r, c, i) ==
    /\ last[r][c] # Unregistered
    /\ last[r][c] < i /\ i <= Length
    /\ i - last[r][c] <= Window

\* sendSealedToRelays: every ready relay is written to.  A broken connection
\* loses what was written, which nobody tells the app; a relay that refuses
\* the token drops the frame and says nothing.
sendSealedToRelays(m, n, c, i, ready) ==
    \E got \in SUBSET ready :
        LET took == {r \in got : Validates(r, c, i)}
        IN /\ IF got = ready THEN NoFault ELSE Fault
           /\ last' = [r \in Relays |-> IF r \in took
                            THEN [last[r] EXCEPT ![c] = i] ELSE last[r]]
           /\ box' = [r \in Relays |-> IF r \in took
                            THEN box[r] \cup {[m |-> m, ctr |-> n]} ELSE box[r]]
           /\ spent' = IF ready = {} THEN spent ELSE spent \cup {<<c, i>>}

NotSent == UNCHANGED wireVars

---------------------------------------------------------------------------
(* The token chain. *)

\* mintV2DeliveryToken: nil past the end of the chain.  The cursor is in the
\* database before the token is used.
CanMint == chain.next <= Length
Minted == [chain EXCEPT !.next = @ + 1]

\* rollbackV2DeliveryToken: the cursor goes back to i if it is at i + 1.
RolledBack(ch, i) == IF ch.next = i + 1 THEN [ch EXCEPT !.next = i] ELSE ch

shouldRotate == chain.next - 1 > (Length * 4) \div 5

---------------------------------------------------------------------------
(* The outbox entry. *)

NewEntry(n) ==
    [relayed |-> FALSE, failed |-> FALSE, delivered |-> FALSE,
     retries |-> 0, ctr |-> n]

Entries == {m \in Msgs : out[m] # NoEntry}
Terminal(e) == e.delivered \/ e.failed

\* A mutant of the next: an entry a relay has taken never expires.
MutHasExpired(e) == ~Terminal(e) /\ ~e.relayed

\* hasExpired, but for the time that has to pass.
hasExpired(e) == ~Terminal(e)

\* shouldRetry, but for the time that has to pass.
shouldRetry(e) ==
    /\ ~e.delivered /\ ~e.failed
    /\ ~e.relayed
    /\ e.retries < MaxRetries

---------------------------------------------------------------------------
\* A contact to whom k tokens of the chain were spent, with nothing under
\* way; `gone' are messages that will not be sent.
InitAt(k, gone) ==
    /\ chain = [id |-> 1, next |-> k + 1]
    /\ ctr = 0 /\ savedCtr = 0
    /\ out = [m \in Msgs |-> NoEntry]
    /\ rows = {} /\ tasks = {}
    /\ waiting = <<>> /\ draining = <<>>
    /\ busy = Idle
    /\ last = [r \in Relays |->
                [c \in Chains |-> IF c = 1 THEN k ELSE Unregistered]]
    /\ box = [r \in Relays |-> {}]
    /\ seen = {} /\ savedSeen = {}
    /\ shown = [m \in Msgs |-> 0]
    /\ acks = {} /\ used = gone /\ faults = 0
    /\ spent = {}
    /\ unsaved = FALSE

Init == \E k \in 0 .. Length, gone \in SUBSET Msgs : InitAt(k, gone)

---------------------------------------------------------------------------
(* Sending a text. *)

\* send: nothing without a ready relay; without a token the text waits for a
\* chain (refreshChainAndQueue), or is refused when too many do.
send(m, ready) ==
    /\ used' = used \cup {m}
    /\ \/ /\ ready = {}
          /\ UNCHANGED <<chain, waiting, busy>>
       \/ /\ ready # {} /\ CanMint
          /\ chain' = Minted
          /\ busy' = [at |-> "minted", m |-> m, c |-> chain.id, i |-> chain.next]
          /\ UNCHANGED waiting
       \/ /\ ready # {} /\ ~CanMint
          /\ waiting' = IF Len(waiting) < MaxPendingV2Sends
                        THEN Append(waiting, m) ELSE waiting
          /\ UNCHANGED <<chain, busy>>

Compose(m) ==
    /\ Free /\ m \in Chats \ used
    /\ send(m, Relays)
    /\ NotSent
    /\ UNCHANGED <<ctr, savedCtr, out, rows, tasks, draining, peerVars,
                   acks, faults>>

\* drainPendingV2Sends, one queued text at a time.
DrainNext ==
    /\ busy = Idle /\ draining # <<>>
    /\ draining' = Tail(draining)
    /\ \E ready \in SUBSET Relays : send(Head(draining), ready)
    /\ NotSent
    /\ UNCHANGED <<ctr, savedCtr, out, rows, tasks, peerVars, acks, faults>>

\* sendV2: encryptSealed, then the outbox row.  A failure to encrypt gives
\* the token back.
SealSend ==
    /\ busy.at = "minted"
    /\ \/ /\ NoFault
          /\ out' = [out EXCEPT ![busy.m] = NewEntry(ctr)]
          /\ ctr' = ctr + 1
          /\ busy' = [busy EXCEPT !.at = "queued"]
          /\ UNCHANGED chain
       \/ /\ Fault
          /\ chain' = RolledBack(chain, busy.i)
          /\ busy' = Idle
          /\ UNCHANGED <<out, ctr>>
    /\ NotSent
    /\ UNCHANGED <<savedCtr, rows, queueVars, used, peerVars, acks>>

\* sendV2: persistSession.  Bytes sealed from a state that was not saved do
\* not leave; the entry is failed for good.
SaveSend ==
    /\ busy.at = "queued"
    /\ \/ /\ NoFault
          /\ savedCtr' = ctr
          /\ busy' = [busy EXCEPT !.at = "saved"]
          /\ UNCHANGED out
       \/ /\ Fault
          /\ out' = [out EXCEPT ![busy.m].failed = TRUE]
          /\ busy' = Idle
          /\ UNCHANGED savedCtr
    /\ NotSent
    /\ UNCHANGED <<chain, ctr, rows, queueVars, used, peerVars, acks>>

\* sendV2: the fan-out; an entry no relay was ready for is not relayed.
WireSend ==
    /\ busy.at = "saved"
    /\ \E ready \in SUBSET Relays :
        /\ sendSealedToRelays(busy.m, out[busy.m].ctr, busy.c, busy.i, ready)
        /\ busy' = [at |-> "wired", m |-> busy.m, sent |-> ready # {}]
    /\ UNCHANGED <<chain, ctr, savedCtr, out, rows, queueVars, used, peerVars,
                   acks>>

\* sendChainRefreshRequest: one token of the chain it asks to replace, burnt
\* also when sealing or saving fails.
sendChainRefreshRequest(ready) ==
    /\ chain' = Minted
    /\ \/ Fault /\ NotSent /\ UNCHANGED <<ctr, savedCtr>>
       \/ Fault /\ NotSent /\ ctr' = ctr + 1 /\ UNCHANGED <<savedCtr>>
       \/ /\ ctr' = ctr + 1 /\ savedCtr' = ctr'
          /\ sendSealedToRelays(NoMsg, ctr, chain.id, chain.next, ready)

\* The cooldown of an hour may or may not be over once it is asked.
maybeRequestProactiveChainRotation ==
    \E ready \in SUBSET Relays :
        \/ /\ NotSent /\ NoFault
           /\ UNCHANGED <<chain, ctr, savedCtr>>
        \/ /\ shouldRotate /\ ready # {} /\ CanMint
           /\ sendChainRefreshRequest(ready)

\* sendV2: the second write of the row, the chat log, and the rotation
\* request.
FinishSend ==
    /\ busy.at = "wired"
    /\ out' = [out EXCEPT ![busy.m].relayed = busy.sent]
    /\ rows' = rows \cup {busy.m}
    /\ busy' = Idle
    /\ maybeRequestProactiveChainRotation
    /\ UNCHANGED <<tasks, waiting, draining, used, peerVars, acks>>

---------------------------------------------------------------------------
(* Group legs and receipts. *)

\* The member is left out when there is no token for it.
SealLeg(m) ==
    \/ /\ CanMint
       /\ chain' = Minted
       /\ out' = [out EXCEPT ![m] = NewEntry(ctr)]
       /\ tasks' = tasks \cup
            {[m |-> m, c |-> chain.id, i |-> chain.next, ctr |-> ctr]}
       /\ ctr' = ctr + 1
    \/ /\ ~CanMint
       /\ UNCHANGED <<chain, out, tasks, ctr>>

\* sendGroupMessage, for the one member this chain leads to: the session is
\* saved before the leg is sealed and not after, a token is not given back
\* when sealing fails, and the leg leaves later, from a task of its own.
sendGroupMessage(m) ==
    /\ Free /\ m \in Legs \ used
    /\ used' = used \cup {m}
    /\ \/ /\ NoFault /\ savedCtr' = ctr
          /\ SealLeg(m)
       \/ /\ Fault /\ UNCHANGED savedCtr
          /\ SealLeg(m)
       \/ /\ Fault /\ savedCtr' = ctr
          /\ CanMint /\ chain' = Minted
          /\ UNCHANGED <<out, tasks, ctr>>
    /\ NotSent
    /\ UNCHANGED <<rows, waiting, draining, busy, peerVars, acks>>

\* A mutant of the next: the entry as it was when the leg was sealed is
\* written back.
MutLegFires(l) ==
    /\ Free
    /\ tasks' = tasks \ {l}
    /\ \E ready \in SUBSET Relays :
        /\ sendSealedToRelays(l.m, l.ctr, l.c, l.i, ready)
        /\ out' = IF ready # {} /\ l.m \in Entries
                  THEN [out EXCEPT ![l.m] = [NewEntry(l.ctr) EXCEPT !.relayed = TRUE]]
                  ELSE out
    /\ UNCHANGED <<chain, ctr, savedCtr, rows, waiting, draining, busy,
                   used, peerVars, acks>>

\* The task wakes up: it sends with the token it was given, whatever has
\* become of the entry, and stamps the entry as it is now.
LegFires(l) ==
    /\ Free
    /\ tasks' = tasks \ {l}
    /\ \E ready \in SUBSET Relays :
        /\ sendSealedToRelays(l.m, l.ctr, l.c, l.i, ready)
        /\ out' = IF ready # {} /\ l.m \in Entries
                  THEN [out EXCEPT ![l.m].relayed = TRUE] ELSE out
    /\ UNCHANGED <<chain, ctr, savedCtr, rows, waiting, draining, busy,
                   used, peerVars, acks>>

\* emitAck for a message of the peer: the token is given back when sealing
\* or saving fails, or when no relay was ready.  Without a token the peer is
\* asked for a chain (recoverChainAfterExhaustion).
emitAck(m) ==
    /\ Free /\ m \in Acks \ used
    /\ used' = used \cup {m}
    /\ \/ /\ ~CanMint
          /\ NotSent /\ NoFault
          /\ UNCHANGED <<chain, ctr, savedCtr>>
       \/ /\ CanMint /\ Fault
          /\ ctr' \in {ctr, ctr + 1}
          /\ chain' = RolledBack(Minted, chain.next)
          /\ NotSent /\ UNCHANGED <<savedCtr>>
       \/ /\ CanMint
          /\ ctr' = ctr + 1 /\ savedCtr' = ctr'
          /\ \E ready \in SUBSET Relays :
                /\ sendSealedToRelays(m, ctr, chain.id, chain.next, ready)
                /\ chain' = IF ready = {} THEN RolledBack(Minted, chain.next)
                            ELSE Minted
    /\ UNCHANGED <<out, rows, tasks, waiting, draining, busy, peerVars, acks>>

---------------------------------------------------------------------------
(* Sending again. *)

Retried(e, sent) == [e EXCEPT !.retries = @ + 1, !.relayed = sent]

\* userRetry: the same bytes under a new token, which is not given back.
userRetry(m) ==
    /\ Free /\ m \in Entries
    /\ ~Terminal(out[m]) /\ ~out[m].relayed
    /\ CanMint /\ chain' = Minted
    /\ out[m].retries < MaxTaps
    /\ \E ready \in SUBSET Relays :
        /\ sendSealedToRelays(m, out[m].ctr, chain.id, chain.next, ready)
        /\ out' = [out EXCEPT ![m] = Retried(@, ready # {})]
    /\ UNCHANGED <<ctr, savedCtr, rows, queueVars, busy, used, peerVars, acks>>

\* userTryAgainExpired: the row is dropped and its text sent as a new
\* message n.
userTryAgainExpired(m, n) ==
    /\ Free /\ m \in Entries \cap rows /\ n \in Chats \ used
    /\ ~out[m].delivered \/ out[m].failed
    /\ ~out[m].relayed
    /\ out' = [out EXCEPT ![m] = NoEntry]
    /\ \E ready \in SUBSET Relays : send(n, ready)
    /\ NotSent
    /\ UNCHANGED <<ctr, savedCtr, rows, tasks, draining, peerVars, acks,
                   faults>>

\* runRetryWalk: the entries found expired are failed, and those due are
\* fixed before the first of them is sent.  `due' is empty while no relay is
\* connected.
WalkBegin(late) ==
    /\ Free
    /\ late \subseteq {m \in Entries : hasExpired(out[m])}
    /\ out' = [m \in Msgs |-> IF m \in late
                   THEN [out[m] EXCEPT !.failed = TRUE] ELSE out[m]]
    /\ \E due \in SUBSET {m \in Entries \ late : shouldRetry(out[m])} :
        busy' = [at |-> "walk", due |-> due]
    /\ NotSent
    /\ UNCHANGED <<chain, ctr, savedCtr, rows, queueVars, used, peerVars, acks,
                   faults>>

\* A mutant of the next: the token is given back although it was sent.
MutWalkRetry(m) ==
    /\ busy.at = "walk" /\ m \in busy.due
    /\ busy' = [busy EXCEPT !.due = @ \ {m}]
    /\ CanMint
    /\ \E ready \in SUBSET Relays :
        sendSealedToRelays(m, out[m].ctr, chain.id, chain.next, ready)
    /\ chain' = RolledBack(Minted, chain.next)
    /\ out' = [out EXCEPT ![m].retries = @ + 1]
    /\ UNCHANGED <<ctr, savedCtr, rows, queueVars, used, peerVars, acks>>

\* runRetryWalk: one entry.  Only the count of retries is written.
WalkRetry(m) ==
    /\ busy.at = "walk" /\ m \in busy.due
    /\ busy' = [busy EXCEPT !.due = @ \ {m}]
    /\ \/ /\ ~CanMint
          /\ NotSent /\ NoFault
          /\ UNCHANGED <<chain, out>>
       \/ /\ CanMint
          /\ \E ready \in SUBSET Relays :
              /\ sendSealedToRelays(m, out[m].ctr, chain.id, chain.next, ready)
              /\ chain' = IF ready = {} THEN RolledBack(Minted, chain.next)
                          ELSE Minted
              /\ out' = IF ready = {} THEN out
                        ELSE [out EXCEPT ![m].retries = @ + 1]
    /\ UNCHANGED <<ctr, savedCtr, rows, queueVars, used, peerVars, acks>>

\* runRetryWalk: entries that were terminal for a day are dropped.
WalkEnd ==
    /\ busy.at = "walk" /\ busy.due = {}
    /\ busy' = Idle
    /\ \E old \in SUBSET {m \in Entries : Terminal(out[m])} :
        out' = [m \in Msgs |-> IF m \in old THEN NoEntry ELSE out[m]]
    /\ NotSent
    /\ UNCHANGED <<chain, ctr, savedCtr, rows, queueVars, used, peerVars, acks,
                   faults>>

---------------------------------------------------------------------------
(* What the peer sends back. *)

\* Every frame that opens saves the session, and a failure is not looked at.
SaveOnReceive ==
    \/ NoFault /\ savedCtr' = ctr
    \/ Fault /\ UNCHANGED savedCtr

handleAckPayload(m) ==
    /\ Free /\ m \in acks
    /\ acks' = acks \ {m}
    /\ out' = IF m \in Entries THEN [out EXCEPT ![m].delivered = TRUE] ELSE out
    /\ SaveOnReceive
    /\ NotSent
    /\ UNCHANGED <<chain, ctr, rows, queueVars, busy, used, peerVars>>

\* The peer has minted a chain, has registered it at the relays in `reg' it
\* was connected to, and its seed arrives: the chain replaces ours, and the
\* texts that waited are sent.
handleChainSeedDelivery(reg) ==
    /\ Free /\ chain.id < MaxChains
    /\ chain' = [id |-> chain.id + 1, next |-> 1]
    /\ last' = [r \in Relays |-> IF r \in reg
                    THEN [last[r] EXCEPT ![chain.id + 1] = 0] ELSE last[r]]
    /\ draining' = waiting /\ waiting' = <<>>
    /\ SaveOnReceive
    /\ UNCHANGED <<ctr, out, rows, tasks, busy, box, peerVars, acks,
                   used, spent>>

---------------------------------------------------------------------------
(* The recipient. *)

\* A mutant of the next: only the last counter is remembered.
MutIsDuplicate(f) == f.ctr \in seen /\ \A k \in seen : k <= f.ctr

\* SealedReceived.isDuplicate: the ratchet has consumed this counter.
isDuplicate(f) == f.ctr \in seen

\* A mutant of the next: the ACK leaves before the row is in the log, and
\* the app may be ended in between.
MutHandleChatPayload(m) ==
    \/ /\ shown' = [shown EXCEPT ![m] = @ + 1]
       /\ NoFault /\ acks' = acks \cup ({m} \cap Chats)
    \/ /\ Fault /\ acks' = acks \cup ({m} \cap Chats)
       /\ UNCHANGED shown

\* handleChatPayload, handleGroupChat: the row is appended and the session
\* saved again; a text, not a leg, is then acknowledged, if there is a token
\* and a relay for it.
handleChatPayload(m) ==
    /\ shown' = [shown EXCEPT ![m] = @ + 1]
    /\ \/ NoFault /\ acks' = acks \cup ({m} \cap Chats)
       \/ m \in Chats /\ Fault /\ UNCHANGED acks

\* handleSealedFrame: a counter the ratchet has consumed is a duplicate and
\* is dropped without an ACK.  The session is saved before the payload is
\* handled, and a failure to save is not looked at; the app may be ended in
\* between, and the message is gone then.
handleSealedFrame(r, f) ==
    /\ f \in box[r]
    /\ box' = [box EXCEPT ![r] = @ \ {f}]
    /\ seen' = seen \cup {f.ctr}
    /\ IF isDuplicate(f) \/ f.m \notin Chats \cup Legs
       THEN /\ savedSeen' = seen'
            /\ NoFault
            /\ UNCHANGED <<shown, acks, unsaved>>
       ELSE \/ /\ savedSeen' = seen' /\ UNCHANGED unsaved
               /\ handleChatPayload(f.m)
            \/ /\ Fault
               /\ unsaved' = TRUE
               /\ shown' = [shown EXCEPT ![f.m] = @ + 1]
               /\ acks' = acks \cup ({f.m} \cap Chats)
               /\ UNCHANGED savedSeen
            \/ /\ Fault
               /\ savedSeen' = seen'
               /\ UNCHANGED <<shown, acks, unsaved>>
    /\ UNCHANGED <<senderVars, last, spent>>

---------------------------------------------------------------------------
(* Faults. *)

\* A relay loses a frame it holds: the recipient's socket breaks while the
\* queue is drained, the relay restarts, or the TTL ends.
RelayLoses(r, f) ==
    /\ f \in box[r] /\ Fault
    /\ box' = [box EXCEPT ![r] = @ \ {f}]
    /\ UNCHANGED <<senderVars, last, spent, peerVars, acks>>

\* iOS ends the sender's app: what was only in memory is gone.
SenderRestarts ==
    /\ Fault
    /\ busy' = Idle
    /\ ctr' = savedCtr
    /\ tasks' = {} /\ waiting' = <<>> /\ draining' = <<>>
    /\ UNCHANGED <<chain, savedCtr, out, rows, wireVars, peerVars, acks, used>>

RecipientRestarts ==
    /\ Fault
    /\ seen' = savedSeen
    /\ UNCHANGED <<senderVars, wireVars, savedSeen, shown, unsaved, acks>>

---------------------------------------------------------------------------
\* The rest of a handler that has begun.
Handler ==
    \/ DrainNext \/ SealSend \/ SaveSend \/ WireSend \/ FinishSend
    \/ \E m \in Msgs : WalkRetry(m)
    \/ WalkEnd

Next ==
    \/ Handler
    \/ \E m \in Chats : Compose(m)
    \/ \E m \in Legs : sendGroupMessage(m)
    \/ \E l \in tasks : LegFires(l)
    \/ \E m \in Acks : emitAck(m)
    \/ \E m \in Msgs : userRetry(m)
    \/ \E m, n \in Chats : userTryAgainExpired(m, n)
    \/ \E late \in SUBSET Entries : WalkBegin(late)
    \/ \E m \in acks : handleAckPayload(m)
    \/ \E reg \in SUBSET Relays : handleChainSeedDelivery(reg)
    \/ \E r \in Relays : \E f \in box[r] : handleSealedFrame(r, f)
    \/ \E r \in Relays : \E f \in box[r] : RelayLoses(r, f)
    \/ SenderRestarts
    \/ RecipientRestarts

Spec == Init /\ [][Next]_vars

\* A handler that has begun goes on, and the timer of the retry walk goes
\* off again and again; as the clock runs on, it finds some entry expired
\* if there is one that is not terminal.
Fairness ==
    /\ WF_vars(Handler)
    /\ SF_vars(\E late \in SUBSET Entries : late # {} /\ WalkBegin(late))

FairSpec == Spec /\ Fairness

---------------------------------------------------------------------------
\* TypeOK: the shapes of the outbox, the token chain, the relays' cursors
\* and the two ratchets.
TypeOK ==
    /\ chain \in [id : Chains, next : 1 .. Length + 1]
    /\ ctr \in Nat /\ savedCtr \in Nat
    /\ out \in [Msgs -> EntryType \cup {NoEntry}]
    /\ rows \subseteq Msgs
    /\ tasks \subseteq [m : Legs, c : Chains, i : 1 .. Length, ctr : Nat]
    /\ waiting \in Seq(Chats) /\ draining \in Seq(Chats)
    /\ busy \in {Idle} \cup [at : {"walk"}, due : SUBSET Msgs]
                \cup [at : {"wired"}, m : Chats, sent : BOOLEAN]
                \cup [at : {"minted", "queued", "saved"}, m : Chats,
                      c : Chains, i : 1 .. Length]
    /\ last \in [Relays -> [Chains -> 0 .. Length + 1]]
    /\ box \in [Relays -> SUBSET [m : Msgs \cup {NoMsg}, ctr : Nat]]
    /\ seen \subseteq Nat /\ savedSeen \subseteq Nat
    /\ shown \in [Msgs -> Nat]
    /\ acks \subseteq Chats /\ used \subseteq Msgs
    /\ faults \in Nat
    /\ spent \subseteq Chains \X (1 .. Length)
    /\ unsaved \in BOOLEAN

\* Two ticks mean that the text is in the peer's chat log: whatever is
\* retried, lost, delivered twice or cut off by a restart on either side,
\* handleAckPayload marks an entry delivered only after handleChatPayload
\* has appended the row.
DeliveredWasShown ==
    \A m \in Entries : out[m].delivered => shown[m] > 0

\* The tokens somebody still holds: the send under way, a sleeping leg, and
\* the rest of the chain.
Held ==
    {<<l.c, l.i>> : l \in tasks}
    \cup (IF busy.at \in {"minted", "queued", "saved"}
          THEN {<<busy.c, busy.i>>} ELSE {})
    \cup {<<chain.id, i>> : i \in chain.next .. Length}

\* A delivery token is put on the wire at most once: mint, rollback, retry,
\* receipt, sleeping legs, a new chain and a restart in between never make
\* the app present an index a second time (the relay would take the second
\* frame for a replay and drop it).
NoTokenTwice == Held \cap spent = {}

\* A message gets one row in the peer's chat log, however often its bytes
\* are retried and by however many relays they are delivered, unless the
\* peer failed to save its session (handleSealedFrame goes on then).
ShownOnce == unsaved \/ \A m \in Msgs : shown[m] <= 1

\* A step may drop an entry, but never takes a tick, a failure or a delivery
\* back from it, and never un-counts a retry: the writers of the row
\* (sendV2, the leg's task, both retries, the walk, the ACK) do not overwrite
\* each other's stamps.
EntryOnlyAdvances ==
    [][\A m \in Entries : out'[m] # NoEntry =>
          /\ out[m].relayed => out'[m].relayed
          /\ out[m].failed => out'[m].failed
          /\ out[m].delivered => out'[m].delivered
          /\ out[m].retries <= out'[m].retries]_vars

\* No entry stays undecided for ever: the walk fails it once it expires,
\* whether or not a relay has taken it (hasExpired, runRetryWalk).
EntryResolves ==
    \A m \in Chats \cup Legs :
        []<>(m \notin Entries \/ Terminal(out[m]))

===========================================================================
