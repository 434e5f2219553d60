--------------------------- MODULE DeliveryProofs ---------------------------
(***************************************************************************)
(* Proofs about Delivery, for any number of messages, relays, chains,      *)
(* retries and faults: no delivery token is put on the wire twice, two     *)
(* ticks are true, a message gets one row in the peer's chat log, and the  *)
(* writers of an outbox row do not undo each other's stamps.               *)
(***************************************************************************)
EXTENDS Delivery, TLAPS

USE SMTT(20), ZenonT(20)

\* Where sendV2 holds a token it has minted and not sent.
Holding == {"minted", "queued", "saved"}

\* The tokens of sleeping legs and of the send under way.
InTasks == {<<l.c, l.i>> : l \in tasks}
InBusy == IF busy.at \in Holding THEN {<<busy.c, busy.i>>} ELSE {}

\* Minted before the cursor of ch.
Past(ch, x) ==
    /\ x \in Nat \X Nat
    /\ x[1] < ch.id \/ (x[1] = ch.id /\ x[2] < ch.next)

\* The inductive invariant.  A held token has one holder; a send under way
\* holds the token next to the cursor, so that giving it back is sound.
TokenInv ==
    /\ chain \in [id : Nat, next : Nat]
    /\ \A x \in spent \cup InTasks \cup InBusy : Past(chain, x)
    /\ (InTasks \cup InBusy) \cap spent = {}
    /\ InTasks \cap InBusy = {}
    /\ \A k, l \in tasks : k.c = l.c /\ k.i = l.i => k = l
    /\ busy.at \in Holding =>
          /\ busy \in [at : Holding, m : {busy.m}, c : Nat, i : Nat]
          /\ busy.c = chain.id /\ busy.i + 1 = chain.next

\* The cursor and all beyond it were never sent.
LEMMA InvImplies ==
  ASSUME TokenInv PROVE NoTokenTwice
  <1>1. Held = InTasks \cup InBusy \cup {<<chain.id, i>> : i \in chain.next .. Length}
    BY DEF Held, InTasks, InBusy, Holding
  <1>2. ASSUME NEW i \in chain.next .. Length PROVE <<chain.id, i>> \notin spent
    BY <1>2 DEF TokenInv, Past
  <1> QED BY <1>1, <1>2 DEF TokenInv, NoTokenTwice

---------------------------------------------------------------------------
(* What a step can do to the tokens. *)

\* Nothing is minted or sent; holders may let go.
LEMMA LetsGo ==
  ASSUME TokenInv, chain' = chain, spent' = spent, tasks' \subseteq tasks,
         busy' = busy \/ busy'.at \notin Holding
  PROVE  TokenInv'
  <1>1. InTasks' \subseteq InTasks BY DEF InTasks
  <1>2. InBusy' \subseteq InBusy BY DEF InBusy
  <1> QED BY <1>1, <1>2 DEF TokenInv, Past

\* A token is minted, sent or not, and nobody holds it.
LEMMA MintsAndSends ==
  ASSUME TokenInv, chain' = Minted, tasks' = tasks, busy'.at \notin Holding,
         spent' \in {spent, spent \cup {<<chain.id, chain.next>>}}
  PROVE  TokenInv'
  <1> USE DEF TokenInv
  <1>1. chain' = [id |-> chain.id, next |-> chain.next + 1] BY DEF Minted
  <1>2. InTasks' = InTasks /\ InBusy' = {} BY DEF InTasks, InBusy
  <1>3. \A x : Past(chain, x) => Past(chain', x) /\ x # <<chain.id, chain.next>>
    BY <1>1 DEF Past
  <1>4. Past(chain', <<chain.id, chain.next>>) BY <1>1 DEF Past
  <1> QED BY <1>1, <1>2, <1>3, <1>4

\* A token is minted for a send that begins.
LEMMA MintsForSend ==
  ASSUME TokenInv, chain' = Minted, tasks' = tasks, spent' = spent, NEW m,
         busy' = [at |-> "minted", m |-> m, c |-> chain.id, i |-> chain.next]
  PROVE  TokenInv'
  <1> USE DEF TokenInv
  <1>1. chain' = [id |-> chain.id, next |-> chain.next + 1] BY DEF Minted
  <1>2. InTasks' = InTasks /\ InBusy' = {<<chain.id, chain.next>>}
    BY DEF InTasks, InBusy, Holding
  <1>3. \A x : Past(chain, x) => Past(chain', x) /\ x # <<chain.id, chain.next>>
    BY <1>1 DEF Past
  <1>4. Past(chain', <<chain.id, chain.next>>) BY <1>1 DEF Past
  <1>5. /\ busy' \in [at : Holding, m : {busy'.m}, c : Nat, i : Nat]
        /\ busy'.c = chain'.id /\ busy'.i + 1 = chain'.next
    BY <1>1 DEF Holding
  <1> QED BY <1>1, <1>2, <1>3, <1>4, <1>5

\* A token is minted for a leg that sleeps.
LEMMA MintsForLeg ==
  ASSUME TokenInv, chain' = Minted, spent' = spent, busy' = Idle, NEW m, NEW n,
         tasks' = tasks \cup {[m |-> m, c |-> chain.id, i |-> chain.next, ctr |-> n]}
  PROVE  TokenInv'
  <1> USE DEF TokenInv
  <1>1. chain' = [id |-> chain.id, next |-> chain.next + 1] BY DEF Minted
  <1>2. /\ InTasks' = InTasks \cup {<<chain.id, chain.next>>}
        /\ InBusy' = {} /\ busy'.at \notin Holding
    <2> DEFINE leg == [m |-> m, c |-> chain.id, i |-> chain.next, ctr |-> n]
    <2>1. leg.c = chain.id /\ leg.i = chain.next OBVIOUS
    <2>2. tasks' = tasks \cup {leg} OBVIOUS
    <2> HIDE DEF leg, TokenInv
    <2>3. InTasks' = InTasks \cup {<<chain.id, chain.next>>}
      BY <2>1, <2>2 DEF InTasks
    <2>4. InBusy' = {} /\ busy'.at \notin Holding BY DEF InBusy, Holding, Idle
    <2> QED BY <2>3, <2>4
  <1>3. \A x : Past(chain, x) => Past(chain', x) /\ x # <<chain.id, chain.next>>
    BY <1>1 DEF Past
  <1>4. Past(chain', <<chain.id, chain.next>>) BY <1>1 DEF Past
  <1>5. \A l \in tasks : <<l.c, l.i>> # <<chain.id, chain.next>>
    BY <1>3, ZenonT(60) DEF InTasks
  <1>6. \A k, l \in tasks' : k.c = l.c /\ k.i = l.i => k = l
    BY <1>5
  <1> QED BY <1>1, <1>2, <1>3, <1>4, <1>6

\* The fan-out sends the token it is given, or none.
LEMMA FanOut ==
  ASSUME NEW m, NEW n, NEW c, NEW i, NEW ready,
         sendSealedToRelays(m, n, c, i, ready)
  PROVE  /\ spent' \in {spent, spent \cup {<<c, i>>}}
         /\ ready = {} => spent' = spent
  BY DEF sendSealedToRelays

\* A token that was minted and is given back leaves the cursor where it was.
LEMMA RollBack ==
  ASSUME TokenInv PROVE RolledBack(Minted, chain.next) = chain
  BY Zenon DEF TokenInv, RolledBack, Minted

\* The holder of a token sends it, or fails to, and lets go.
LEMMA SendsHeld ==
  ASSUME TokenInv, chain' = chain, NEW x \in InTasks \cup InBusy,
         spent' \in {spent, spent \cup {x}}, tasks' \subseteq tasks,
         busy' = busy \/ busy'.at \notin Holding,
         x \notin InTasks' \cup InBusy'
  PROVE  TokenInv'
  <1>1. InTasks' \subseteq InTasks BY DEF InTasks
  <1>2. InBusy' \subseteq InBusy BY DEF InBusy
  <1> QED BY <1>1, <1>2 DEF TokenInv

\* A new chain: every token so far is of an older one.
LEMMA NewChain ==
  ASSUME TokenInv, chain' = [id |-> chain.id + 1, next |-> 1], spent' = spent,
         tasks' = tasks, busy' = Idle, busy = Idle
  PROVE  TokenInv'
  <1> USE DEF TokenInv
  <1>1. InTasks' = InTasks /\ InBusy' = {} /\ busy'.at \notin Holding
    BY DEF InTasks, InBusy, Holding, Idle
  <1>2. \A x : Past(chain, x) => Past(chain', x) BY DEF Past
  <1> QED BY <1>1, <1>2

\* No handler holds a token while the main actor is idle.
LEMMA IdleHolds == Idle.at \notin Holding
  BY DEF Idle, Holding

---------------------------------------------------------------------------
(* The handlers. *)

\* Texts: the user's, those that waited, and those sent again.
LEMMA Sends ==
  ASSUME TokenInv, busy = Idle, NEW m, NEW ready, send(m, ready),
         spent' = spent, tasks' = tasks
  PROVE  TokenInv'
  <1>1. CASE UNCHANGED <<chain, busy>> BY <1>1, LetsGo
  <1>2. CASE /\ chain' = Minted
             /\ busy' = [at |-> "minted", m |-> m, c |-> chain.id, i |-> chain.next]
    BY <1>2, MintsForSend
  <1> QED BY <1>1, <1>2 DEF send

\* sendV2 after the mint.
LEMMA SendV2Steps ==
  ASSUME TokenInv, SealSend \/ SaveSend \/ WireSend \/ FinishSend
  PROVE  TokenInv'
  <1> USE IdleHolds
  <1>1. ASSUME SealSend PROVE TokenInv'
    <2>1. tasks' = tasks /\ spent' = spent /\ busy.at \in Holding
      BY <1>1 DEF SealSend, NotSent, wireVars, queueVars, Holding
    <2>2. CASE busy' = [busy EXCEPT !.at = "queued"] /\ chain' = chain
      <3>1. busy \in [at : Holding, m : {busy.m}, c : Nat, i : Nat]
        BY <2>1 DEF TokenInv
      <3>2. /\ busy' \in [at : Holding, m : {busy'.m}, c : Nat, i : Nat]
            /\ busy'.c = busy.c /\ busy'.i = busy.i /\ busy'.at \in Holding
        BY <2>2, <3>1 DEF Holding
      <3>3. InBusy' = InBusy /\ InTasks' = InTasks
        BY <2>1, <3>2 DEF InBusy, InTasks
      <3> QED BY <2>1, <2>2, <3>2, <3>3 DEF TokenInv
    <2>3. CASE busy' = Idle /\ chain' = RolledBack(chain, busy.i)
      <3>1. /\ chain \in [id : Nat, next : Nat] /\ busy.i \in Nat
            /\ busy.c = chain.id /\ chain.next = busy.i + 1
        BY <2>1 DEF TokenInv
      <3>2. chain' = [id |-> chain.id, next |-> busy.i]
        BY <2>3, <3>1 DEF RolledBack
      <3>3. InTasks' = InTasks /\ InBusy' = {} /\ InBusy = {<<chain.id, busy.i>>}
        BY <2>1, <2>3, <3>1 DEF InTasks, InBusy
      <3>4. ASSUME NEW x, Past(chain, x), x # <<chain.id, busy.i>>
            PROVE  Past(chain', x)
        BY <3>1, <3>2, <3>4 DEF Past
      <3>5. \A x \in spent \cup InTasks : Past(chain', x)
        BY <3>3, <3>4 DEF TokenInv
      <3> QED BY <2>1, <2>3, <3>1, <3>2, <3>3, <3>5 DEF TokenInv
    <2> QED BY <1>1, <2>2, <2>3 DEF SealSend
  <1>2. ASSUME SaveSend PROVE TokenInv'
    <2>1. tasks' = tasks /\ spent' = spent /\ chain' = chain /\ busy.at \in Holding
      BY <1>2 DEF SaveSend, NotSent, wireVars, queueVars, Holding
    <2>2. CASE busy' = [busy EXCEPT !.at = "saved"]
      <3>1. busy \in [at : Holding, m : {busy.m}, c : Nat, i : Nat]
        BY <2>1 DEF TokenInv
      <3>2. /\ busy' \in [at : Holding, m : {busy'.m}, c : Nat, i : Nat]
            /\ busy'.c = busy.c /\ busy'.i = busy.i /\ busy'.at \in Holding
        BY <2>2, <3>1 DEF Holding
      <3>3. InBusy' = InBusy /\ InTasks' = InTasks
        BY <2>1, <3>2 DEF InBusy, InTasks
      <3> QED BY <2>1, <2>2, <3>2, <3>3 DEF TokenInv
    <2>3. CASE busy' = Idle BY <2>1, <2>3, LetsGo
    <2> QED BY <1>2, <2>2, <2>3 DEF SaveSend
  <1>3. ASSUME WireSend PROVE TokenInv'
    <2> DEFINE x == <<busy.c, busy.i>>
    <2>1. /\ spent' \in {spent, spent \cup {x}}
          /\ tasks' = tasks /\ chain' = chain /\ busy'.at = "wired"
          /\ x \in InBusy
      BY <1>3, FanOut DEF WireSend, queueVars, InBusy, Holding
    <2>2. InBusy' = {} /\ InTasks' = InTasks BY <2>1 DEF InBusy, InTasks, Holding
    <2>3. x \notin InTasks BY <2>1 DEF TokenInv
    <2> QED BY <2>1, <2>2, <2>3, SendsHeld DEF Holding
  <1>4. ASSUME FinishSend PROVE TokenInv'
    <2>1. tasks' = tasks /\ busy' = Idle BY <1>4 DEF FinishSend
    <2>2. CASE chain' = chain /\ spent' = spent BY <2>1, <2>2, LetsGo
    <2>3. ASSUME NEW ready, sendChainRefreshRequest(ready) PROVE TokenInv'
      <3>1. /\ chain' = Minted
            /\ spent' \in {spent, spent \cup {<<chain.id, chain.next>>}}
        BY <2>3, FanOut DEF sendChainRefreshRequest, NotSent, wireVars
      <3> QED BY <2>1, <3>1, MintsAndSends
    <2> QED
      BY <1>4, <2>2, <2>3
      DEF FinishSend, maybeRequestProactiveChainRotation, NotSent, wireVars
  <1> QED BY <1>1, <1>2, <1>3, <1>4

\* Group legs: sealed with a token, and sent with it later.
LEMMA LegSteps ==
  ASSUME TokenInv,
         \/ \E m \in Legs : sendGroupMessage(m)
         \/ \E l \in tasks : LegFires(l)
  PROVE  TokenInv'
  <1> USE IdleHolds
  <1>1. ASSUME NEW m \in Legs, sendGroupMessage(m) PROVE TokenInv'
    <2>1. spent' = spent /\ busy' = busy /\ busy = Idle
      BY <1>1 DEF sendGroupMessage, NotSent, wireVars, Free
    <2>2. ASSUME SealLeg(m) PROVE TokenInv'
      <3>1. CASE UNCHANGED <<chain, tasks>> BY <2>1, <3>1, LetsGo
      <3>2. CASE /\ chain' = Minted
                 /\ tasks' = tasks \cup
                      {[m |-> m, c |-> chain.id, i |-> chain.next, ctr |-> ctr]}
        BY <2>1, <3>2, MintsForLeg
      <3> QED BY <2>2, <3>1, <3>2 DEF SealLeg
    <2>3. CASE chain' = Minted /\ tasks' = tasks
      BY <2>1, <2>3, MintsAndSends
    <2> QED BY <1>1, <2>2, <2>3 DEF sendGroupMessage
  <1>2. ASSUME NEW l \in tasks, LegFires(l) PROVE TokenInv'
    <2> DEFINE x == <<l.c, l.i>>
    <2>1. /\ spent' \in {spent, spent \cup {x}}
          /\ tasks' = tasks \ {l} /\ chain' = chain /\ busy' = busy /\ busy = Idle
      BY <1>2, FanOut DEF LegFires, Free
    <2>2. x \in InTasks BY DEF InTasks
    <2>3. x \notin InTasks' BY <2>1 DEF InTasks, TokenInv
    <2>4. InBusy' = {} BY <2>1 DEF InBusy
    <2> QED BY <2>1, <2>2, <2>3, <2>4, SendsHeld
  <1> QED BY <1>1, <1>2

\* Receipts and retries: minted, and sent or given back, in one handler.
LEMMA RetrySteps ==
  ASSUME TokenInv,
         \/ \E m \in Acks : emitAck(m)
         \/ \E m \in Msgs : userRetry(m) \/ WalkRetry(m)
  PROVE  TokenInv'
  <1> USE IdleHolds
  <1>1. tasks' = tasks /\ busy'.at \notin Holding
    <2>1. ASSUME NEW m \in Msgs, WalkRetry(m) PROVE busy'.at \notin Holding
      BY <2>1 DEF WalkRetry, Holding
    <2> QED
      BY <2>1 DEF emitAck, userRetry, WalkRetry, queueVars, Free
  <1>2. CASE chain' = chain /\ spent' = spent BY <1>1, <1>2, LetsGo
  <1>3. CASE /\ chain' = Minted
             /\ spent' \in {spent, spent \cup {<<chain.id, chain.next>>}}
    BY <1>1, <1>3, MintsAndSends
  <1>4. ASSUME NEW m \in Acks, emitAck(m) PROVE TokenInv'
    BY <1>2, <1>3, <1>4, FanOut, RollBack DEF emitAck, NotSent, wireVars
  <1>5. ASSUME NEW m \in Msgs, userRetry(m) PROVE TokenInv'
    BY <1>3, <1>5, FanOut DEF userRetry
  <1>6. ASSUME NEW m \in Msgs, WalkRetry(m) PROVE TokenInv'
    BY <1>2, <1>3, <1>6, FanOut, RollBack DEF WalkRetry, NotSent, wireVars
  <1> QED BY <1>4, <1>5, <1>6

---------------------------------------------------------------------------
\* NoTokenTwice for every instance: mint, rollback, both retries, receipts,
\* sleeping legs, a chain that is replaced and restarts of the app never
\* present an index of a chain to the relays a second time.
THEOREM TokensSpentOnce == Spec => []NoTokenTwice
  <1> USE IdleHolds
  <1>1. Init => TokenInv
    <2> SUFFICES ASSUME NEW k \in 0 .. Length, NEW gone, InitAt(k, gone)
                 PROVE  TokenInv
      BY DEF Init
    <2>1. /\ chain = [id |-> 1, next |-> k + 1] /\ k \in Nat
          /\ spent = {} /\ tasks = {} /\ busy = Idle
      BY DEF InitAt
    <2>2. InTasks = {} /\ InBusy = {} BY <2>1 DEF InTasks, InBusy
    <2> QED BY <2>1, <2>2 DEF TokenInv
  <1>2. TokenInv /\ [Next]_vars => TokenInv'
    <2> SUFFICES ASSUME TokenInv, [Next]_vars PROVE TokenInv' OBVIOUS
    <2>1. ASSUME NEW m \in Chats, Compose(m) PROVE TokenInv'
      BY <2>1, Sends DEF Compose, NotSent, wireVars, Free
    <2>2. ASSUME DrainNext PROVE TokenInv'
      BY <2>2, Sends DEF DrainNext, NotSent, wireVars
    <2>3. ASSUME NEW m \in Chats, NEW n \in Chats, userTryAgainExpired(m, n)
          PROVE TokenInv'
      BY <2>3, Sends DEF userTryAgainExpired, NotSent, wireVars, Free
    <2>4. ASSUME NEW late \in SUBSET Entries, WalkBegin(late) PROVE TokenInv'
      <3>1. /\ chain' = chain /\ spent' = spent /\ tasks' = tasks
            /\ busy'.at = "walk"
        BY <2>4 DEF WalkBegin, NotSent, wireVars, queueVars
      <3> QED BY <3>1, LetsGo DEF Holding
    <2>5. ASSUME WalkEnd PROVE TokenInv'
      BY <2>5, LetsGo DEF WalkEnd, NotSent, wireVars, queueVars
    <2>6. ASSUME NEW m \in acks, handleAckPayload(m) PROVE TokenInv'
      BY <2>6, LetsGo DEF handleAckPayload, NotSent, wireVars, queueVars
    <2>7. ASSUME NEW reg, handleChainSeedDelivery(reg) PROVE TokenInv'
      BY <2>7, NewChain DEF handleChainSeedDelivery, Free
    <2>8. ASSUME NEW r \in Relays, NEW f,
                 handleSealedFrame(r, f) \/ RelayLoses(r, f)
          PROVE  TokenInv'
      BY <2>8, LetsGo DEF handleSealedFrame, RelayLoses, senderVars, queueVars
    <2>9. ASSUME SenderRestarts PROVE TokenInv'
      BY <2>9, LetsGo DEF SenderRestarts, wireVars
    <2>10. ASSUME RecipientRestarts PROVE TokenInv'
      BY <2>10, LetsGo DEF RecipientRestarts, senderVars, queueVars, wireVars
    <2>11. ASSUME UNCHANGED vars PROVE TokenInv'
      BY <2>11, LetsGo DEF vars, senderVars, queueVars, wireVars
    <2> QED
      BY <2>1, <2>2, <2>3, <2>4, <2>5, <2>6, <2>7, <2>8, <2>9, <2>10, <2>11,
         SendV2Steps, LegSteps, RetrySteps DEF Next, Handler
  <1>3. TokenInv => NoTokenTwice BY InvImplies, Zenon
  <1> QED BY <1>1, <1>2, <1>3, PTL DEF Spec


---------------------------------------------------------------------------
(* Types.  The handler under way writes to an entry that is still there,   *)
(* and that nobody has stamped since it was made.                          *)

EntryKept ==
    /\ busy.at \in {"queued", "saved", "wired"} =>
          out[busy.m] # NoEntry /\ ~out[busy.m].relayed
    /\ busy.at = "walk" => busy.due \subseteq Entries

ShapeInv == TypeOK /\ EntryKept

WireTypes ==
    /\ last \in [Relays -> [Chains -> 0 .. Length + 1]]
    /\ box \in [Relays -> SUBSET [m : Msgs \cup {NoMsg}, ctr : Nat]]
    /\ spent \subseteq Chains \X (1 .. Length)
    /\ faults \in Nat

PeerTypes ==
    /\ seen \subseteq Nat /\ savedSeen \subseteq Nat
    /\ shown \in [Msgs -> Nat]
    /\ acks \subseteq Chats
    /\ unsaved \in BOOLEAN

SenderTypes ==
    /\ chain \in [id : Chains, next : 1 .. Length + 1]
    /\ ctr \in Nat /\ savedCtr \in Nat
    /\ out \in [Msgs -> EntryType \cup {NoEntry}]
    /\ rows \subseteq Msgs
    /\ tasks \subseteq [m : Legs, c : Chains, i : 1 .. Length, ctr : Nat]
    /\ waiting \in Seq(Chats) /\ draining \in Seq(Chats)
    /\ used \subseteq Msgs

BusyTypes ==
    busy \in {Idle} \cup [at : {"walk"}, due : SUBSET Msgs]
             \cup [at : {"wired"}, m : Chats, sent : BOOLEAN]
             \cup [at : {"minted", "queued", "saved"}, m : Chats,
                   c : Chains, i : 1 .. Length]

\* The type invariant by the parts of the system.
LEMMA TypeParts ==
  /\ TypeOK <=> WireTypes /\ PeerTypes /\ SenderTypes /\ BusyTypes
  /\ TypeOK' <=> WireTypes' /\ PeerTypes' /\ SenderTypes' /\ BusyTypes'
  BY Zenon DEF TypeOK, WireTypes, PeerTypes, SenderTypes, BusyTypes

\* What the handler under way knows.
LEMMA BusyShape ==
  ASSUME BusyTypes
  PROVE  /\ busy.at \in Holding =>
               busy \in [at : Holding, m : Chats, c : Chains, i : 1 .. Length]
         /\ busy.at = "wired" => busy \in [at : {"wired"}, m : Chats, sent : BOOLEAN]
         /\ busy.at = "walk" => busy \in [at : {"walk"}, due : SUBSET Msgs]
         /\ busy.at \in Holding \cup {"idle", "wired", "walk"}
  BY DEF BusyTypes, Idle, Holding

\* The fan-out keeps the relays' types.
LEMMA FanOutTypes ==
  ASSUME WireTypes, NEW m \in Msgs \cup {NoMsg}, NEW n \in Nat, NEW c \in Chains,
         NEW i \in 1 .. Length, NEW ready \in SUBSET Relays,
         sendSealedToRelays(m, n, c, i, ready)
  PROVE  WireTypes'
  <1>1. PICK got \in SUBSET ready :
          LET took == {r \in got : Validates(r, c, i)}
          IN /\ IF got = ready THEN NoFault ELSE Fault
             /\ last' = [r \in Relays |-> IF r \in took
                              THEN [last[r] EXCEPT ![c] = i] ELSE last[r]]
             /\ box' = [r \in Relays |-> IF r \in took
                              THEN box[r] \cup {[m |-> m, ctr |-> n]} ELSE box[r]]
             /\ spent' = IF ready = {} THEN spent ELSE spent \cup {<<c, i>>}
    BY DEF sendSealedToRelays
  <1>2. i \in 0 .. Length + 1 BY DeliveryAssumption
  <1>3. last' \in [Relays -> [Chains -> 0 .. Length + 1]]
    BY <1>1, <1>2 DEF WireTypes
  <1>4. box' \in [Relays -> SUBSET [m : Msgs \cup {NoMsg}, ctr : Nat]]
    BY <1>1 DEF WireTypes
  <1>5. spent' \subseteq Chains \X (1 .. Length) BY <1>1 DEF WireTypes
  <1>6. faults' \in Nat BY <1>1 DEF WireTypes, NoFault, Fault
  <1> QED BY <1>3, <1>4, <1>5, <1>6, Zenon DEF WireTypes

\* A cursor that may mint has a token, and moves within the chain.
LEMMA MintTypes ==
  ASSUME SenderTypes, CanMint
  PROVE  /\ chain.id \in Chains /\ chain.next \in 1 .. Length
         /\ Minted \in [id : Chains, next : 1 .. Length + 1]
         /\ RolledBack(Minted, chain.next) = chain
  <1>1. /\ chain \in [id : Chains, next : 1 .. Length + 1]
        /\ chain.next \in 1 .. Length
    BY DeliveryAssumption DEF SenderTypes, CanMint
  <1>2. Minted = [id |-> chain.id, next |-> chain.next + 1]
    BY <1>1 DEF Minted
  <1> QED BY <1>1, <1>2, DeliveryAssumption DEF RolledBack

\* A new entry is an entry.
LEMMA NewEntryType ==
  ASSUME NEW n \in Nat
  PROVE  /\ NewEntry(n) \in EntryType /\ NewEntry(n) # NoEntry
         /\ ~NewEntry(n).relayed /\ ~NewEntry(n).delivered
         /\ NewEntry(n).ctr = n
  <1>1. NewEntry(n) \in EntryType BY DEF NewEntry, EntryType
  <1>2. NewEntry(n) # NoEntry BY <1>1, DeliveryAssumption
  <1> QED BY <1>1, <1>2 DEF NewEntry

\* A retry by the user counts, and writes the tick.
LEMMA RetriedType ==
  ASSUME NEW e \in EntryType, NEW b \in BOOLEAN
  PROVE  /\ Retried(e, b) \in EntryType
         /\ Retried(e, b).relayed = b /\ Retried(e, b).retries = e.retries + 1
         /\ Retried(e, b).failed = e.failed /\ Retried(e, b).ctr = e.ctr
         /\ Retried(e, b).delivered = e.delivered
  <1> DEFINE d == [e EXCEPT !.retries = e.retries + 1]
  <1>1. /\ d \in EntryType /\ d.retries = e.retries + 1 /\ d.failed = e.failed
        /\ d.ctr = e.ctr /\ d.delivered = e.delivered
    BY DEF EntryType
  <1>2. Retried(e, b) = [d EXCEPT !.relayed = b] BY DEF Retried
  <1> HIDE DEF d
  <1> QED BY <1>1, <1>2 DEF EntryType

\* An untouched part keeps its types.
LEMMA SameParts ==
  /\ WireTypes /\ UNCHANGED <<wireVars, faults>> => WireTypes'
  /\ WireTypes /\ UNCHANGED wireVars /\ (Fault \/ NoFault) => WireTypes'
  /\ PeerTypes /\ UNCHANGED <<peerVars, acks>> => PeerTypes'
  BY DEF WireTypes, PeerTypes, wireVars, peerVars, Fault, NoFault

\* A request for a new chain keeps the types.
LEMMA RotationTypes ==
  ASSUME SenderTypes, WireTypes, maybeRequestProactiveChainRotation
  PROVE  /\ WireTypes' /\ chain' \in [id : Chains, next : 1 .. Length + 1]
         /\ ctr' \in Nat /\ savedCtr' \in Nat
  <1>1. CASE NotSent /\ NoFault /\ UNCHANGED <<chain, ctr, savedCtr>>
    BY <1>1, SameParts DEF SenderTypes, NotSent
  <1>2. ASSUME NEW ready \in SUBSET Relays, CanMint, sendChainRefreshRequest(ready)
        PROVE  /\ WireTypes' /\ chain' \in [id : Chains, next : 1 .. Length + 1]
               /\ ctr' \in Nat /\ savedCtr' \in Nat
    <2>1. chain' \in [id : Chains, next : 1 .. Length + 1]
      BY <1>2, MintTypes DEF sendChainRefreshRequest
    <2>2. ctr' \in Nat /\ savedCtr' \in Nat
      BY <1>2 DEF sendChainRefreshRequest, SenderTypes
    <2>3. CASE Fault /\ NotSent BY <2>1, <2>2, <2>3, SameParts DEF NotSent
    <2>4. CASE sendSealedToRelays(NoMsg, ctr, chain.id, chain.next, ready)
      BY <1>2, <2>1, <2>2, <2>4, MintTypes, FanOutTypes, Zenon DEF SenderTypes
    <2> QED BY <1>2, <2>3, <2>4 DEF sendChainRefreshRequest
  <1> QED BY <1>1, <1>2 DEF maybeRequestProactiveChainRotation

\* send keeps the sender's types, and leaves a minted token or nothing.
LEMMA SendTypes ==
  ASSUME SenderTypes, NEW m \in Chats, NEW ready, busy = Idle, send(m, ready)
  PROVE  /\ chain' \in [id : Chains, next : 1 .. Length + 1]
         /\ waiting' \in Seq(Chats)
         /\ used' \subseteq Msgs
         /\ BusyTypes' /\ EntryKept'
  <1>1. used' \subseteq Msgs BY Zenon DEF send, SenderTypes, Msgs
  <1>2. CASE UNCHANGED <<chain, waiting, busy>>
    BY <1>1, <1>2, Zenon DEF SenderTypes, BusyTypes, EntryKept, Idle
  <1>3. CASE /\ CanMint /\ chain' = Minted /\ UNCHANGED waiting
             /\ busy' = [at |-> "minted", m |-> m, c |-> chain.id, i |-> chain.next]
    <2>1. BusyTypes' BY <1>3, MintTypes, Zenon DEF BusyTypes
    <2>2. EntryKept' BY <1>3 DEF EntryKept
    <2>3. waiting' \in Seq(Chats) BY <1>3, Zenon DEF SenderTypes
    <2> QED BY <1>1, <1>3, <2>1, <2>2, <2>3, MintTypes
  <1>4. CASE /\ UNCHANGED <<chain, busy>>
             /\ waiting' = IF Len(waiting) < MaxPendingV2Sends
                           THEN Append(waiting, m) ELSE waiting
    BY <1>1, <1>4 DEF SenderTypes, BusyTypes, EntryKept, Idle
  <1> QED BY <1>2, <1>3, <1>4, Zenon DEF send

\* The parts of sendV2 keep the types.
LEMMA SendV2Shape ==
  ASSUME ShapeInv, SealSend \/ SaveSend \/ WireSend \/ FinishSend
  PROVE  ShapeInv'
  <1>1. WireTypes /\ PeerTypes /\ SenderTypes /\ BusyTypes /\ EntryKept
    BY TypeParts DEF ShapeInv
  <1> HIDE DEF TypeOK
  <1> SUFFICES WireTypes' /\ PeerTypes' /\ SenderTypes' /\ BusyTypes' /\ EntryKept'
    BY TypeParts DEF ShapeInv
  <1>2. Chats \subseteq Msgs BY DEF Msgs
  <1>3. PeerTypes'
    BY <1>1, SameParts DEF SealSend, SaveSend, WireSend, FinishSend
  <1>4. CASE SealSend
    <2>1. busy \in [at : Holding, m : Chats, c : Chains, i : 1 .. Length]
      BY <1>1, <1>4, BusyShape DEF SealSend, Holding
    <2>2. WireTypes' BY <1>1, <1>4, SameParts DEF SealSend, NotSent
    <2>3. CASE /\ out' = [out EXCEPT ![busy.m] = NewEntry(ctr)]
               /\ ctr' = ctr + 1
               /\ busy' = [busy EXCEPT !.at = "queued"]
               /\ UNCHANGED chain
      <3>1. NewEntry(ctr) \in EntryType /\ NewEntry(ctr) # NoEntry /\ ~NewEntry(ctr).relayed
        BY <1>1, NewEntryType DEF SenderTypes
      <3>2. SenderTypes'
        BY <1>1, <1>2, <1>4, <2>1, <2>3, <3>1 DEF SenderTypes, SealSend, queueVars
      <3>3. BusyTypes' BY <2>1, <2>3 DEF BusyTypes, Holding
      <3>4. EntryKept' BY <1>1, <1>2, <2>1, <2>3, <3>1 DEF EntryKept, SenderTypes
      <3> QED BY <1>3, <2>2, <3>2, <3>3, <3>4
    <2>4. CASE chain' = RolledBack(chain, busy.i) /\ busy' = Idle /\ UNCHANGED <<out, ctr>>
      <3>1. chain' \in [id : Chains, next : 1 .. Length + 1]
        <4>1. chain' \in {chain, [chain EXCEPT !.next = busy.i]}
          BY <2>4 DEF RolledBack
        <4>2. busy.i \in 1 .. Length + 1 BY <2>1, DeliveryAssumption
        <4> QED BY <1>1, <4>1, <4>2 DEF SenderTypes
      <3>2. SenderTypes'
        BY <1>1, <1>4, <2>4, <3>1 DEF SenderTypes, SealSend, queueVars
      <3> QED BY <1>3, <2>2, <2>4, <3>2 DEF BusyTypes, EntryKept, Idle
    <2> QED BY <1>4, <2>3, <2>4 DEF SealSend
  <1>5. CASE SaveSend
    <2>1. busy \in [at : Holding, m : Chats, c : Chains, i : 1 .. Length]
      BY <1>1, <1>5, BusyShape DEF SaveSend, Holding
    <2>2. WireTypes' BY <1>1, <1>5, SameParts DEF SaveSend, NotSent
    <2>3. out[busy.m] \in EntryType /\ ~out[busy.m].relayed
      BY <1>1, <1>2, <1>5, <2>1 DEF EntryKept, SaveSend, SenderTypes
    <2>4. CASE savedCtr' = ctr /\ busy' = [busy EXCEPT !.at = "saved"] /\ UNCHANGED out
      <3>1. SenderTypes'
        BY <1>1, <1>5, <2>4 DEF SenderTypes, SaveSend, queueVars
      <3>2. BusyTypes' BY <2>1, <2>4 DEF BusyTypes, Holding
      <3>3. EntryKept' BY <1>1, <1>5, <2>1, <2>4 DEF EntryKept, SaveSend
      <3> QED BY <1>3, <2>2, <3>1, <3>2, <3>3
    <2>5. CASE /\ out' = [out EXCEPT ![busy.m].failed = TRUE]
               /\ busy' = Idle /\ UNCHANGED savedCtr
      <3>1. [out[busy.m] EXCEPT !.failed = TRUE] \in EntryType
        BY <2>3, Zenon DEF EntryType
      <3>2. SenderTypes'
        BY <1>1, <1>2, <1>5, <2>1, <2>5, <3>1 DEF SenderTypes, SaveSend, queueVars
      <3> QED BY <1>3, <2>2, <2>5, <3>2 DEF BusyTypes, EntryKept, Idle
    <2> QED BY <1>5, <2>4, <2>5 DEF SaveSend
  <1>6. CASE WireSend
    <2>1. busy \in [at : Holding, m : Chats, c : Chains, i : 1 .. Length]
      BY <1>1, <1>6, BusyShape DEF WireSend, Holding
    <2>2. out[busy.m] \in EntryType /\ ~out[busy.m].relayed /\ out[busy.m] # NoEntry
      BY <1>1, <1>2, <1>6, <2>1, Zenon DEF EntryKept, WireSend, SenderTypes
    <2>3. PICK ready \in SUBSET Relays :
            /\ sendSealedToRelays(busy.m, out[busy.m].ctr, busy.c, busy.i, ready)
            /\ busy' = [at |-> "wired", m |-> busy.m, sent |-> ready # {}]
      BY <1>6, Zenon DEF WireSend
    <2>4. out[busy.m].ctr \in Nat BY <2>2 DEF EntryType
    <2>5. WireTypes' BY <1>1, <1>2, <2>1, <2>3, <2>4, FanOutTypes, Zenon
    <2>6. SenderTypes' BY <1>1, <1>6, Zenon DEF SenderTypes, WireSend, queueVars
    <2>7. BusyTypes' BY <2>1, <2>3, Zenon DEF BusyTypes
    <2>8. EntryKept' BY <1>6, <2>2, <2>3, Zenon DEF EntryKept, WireSend
    <2> QED BY <1>3, <2>5, <2>6, <2>7, <2>8, Zenon
  <1>7. CASE FinishSend
    <2>1. busy \in [at : {"wired"}, m : Chats, sent : BOOLEAN]
      BY <1>1, <1>7, BusyShape DEF FinishSend
    <2>2. out[busy.m] \in EntryType
      BY <1>1, <1>2, <1>7, <2>1 DEF EntryKept, FinishSend, SenderTypes
    <2>3. /\ WireTypes' /\ chain' \in [id : Chains, next : 1 .. Length + 1]
          /\ ctr' \in Nat /\ savedCtr' \in Nat
      BY <1>1, <1>7, RotationTypes DEF FinishSend
    <2>4. [out[busy.m] EXCEPT !.relayed = busy.sent] \in EntryType
      BY <2>1, <2>2 DEF EntryType
    <2>5. SenderTypes'
      BY <1>1, <1>2, <1>7, <2>1, <2>3, <2>4 DEF SenderTypes, FinishSend
    <2> QED BY <1>3, <1>7, <2>3, <2>5 DEF BusyTypes, EntryKept, Idle, FinishSend
  <1> QED BY <1>4, <1>5, <1>6, <1>7

\* The walk over the outbox keeps the types.
LEMMA WalkShape ==
  ASSUME ShapeInv, NEW late, NEW m,
         WalkBegin(late) \/ WalkRetry(m) \/ WalkEnd
  PROVE  ShapeInv'
  <1>1. WireTypes /\ PeerTypes /\ SenderTypes /\ BusyTypes /\ EntryKept
    BY TypeParts DEF ShapeInv
  <1> SUFFICES WireTypes' /\ PeerTypes' /\ SenderTypes' /\ BusyTypes' /\ EntryKept'
    BY TypeParts DEF ShapeInv
  <1>2. PeerTypes'
    BY <1>1, SameParts DEF WalkBegin, WalkRetry, WalkEnd
  <1>3. CASE WalkBegin(late)
    <2>1. WireTypes' BY <1>1, <1>3, SameParts DEF WalkBegin, NotSent
    <2>2. out' = [k \in Msgs |-> IF k \in late
                   THEN [out[k] EXCEPT !.failed = TRUE] ELSE out[k]]
      BY <1>3 DEF WalkBegin
    <2>3. late \subseteq Entries BY <1>3 DEF WalkBegin
    <2>4. \A k \in late : out[k] \in EntryType
      BY <1>1, <2>3 DEF Entries, SenderTypes
    <2>5. \A k \in late : [out[k] EXCEPT !.failed = TRUE] \in EntryType
      BY <2>4, Zenon DEF EntryType
    <2>6. out' \in [Msgs -> EntryType \cup {NoEntry}]
      BY <1>1, <2>2, <2>5 DEF SenderTypes
    <2>7. SenderTypes' BY <1>1, <1>3, <2>6 DEF SenderTypes, WalkBegin, queueVars
    <2>8. PICK due \in SUBSET Entries : busy' = [at |-> "walk", due |-> due]
      BY <1>3, Zenon DEF WalkBegin
    <2>9. BusyTypes' BY <2>8 DEF BusyTypes, Entries
    <2>10. \A k \in Entries : out'[k] # NoEntry
      BY <2>2, <2>5, DeliveryAssumption, Zenon DEF Entries
    <2>11. EntryKept' BY <2>8, <2>10 DEF EntryKept, Entries
    <2> QED BY <1>2, <2>1, <2>7, <2>9, <2>11
  <1>4. CASE WalkRetry(m)
    <2>1. busy \in [at : {"walk"}, due : SUBSET Msgs] /\ m \in busy.due
      BY <1>1, <1>4, BusyShape DEF WalkRetry
    <2>2. m \in Msgs /\ busy.due \subseteq Entries /\ out[m] \in EntryType
      BY <1>1, <1>4, <2>1 DEF EntryKept, WalkRetry, Entries, SenderTypes
    <2>3. out[m].ctr \in Nat /\ [out[m] EXCEPT !.retries = @ + 1] \in EntryType
      BY <2>2 DEF EntryType
    <2>4. busy' = [at |-> "walk", due |-> busy.due \ {m}]
      BY <1>4, <2>1 DEF WalkRetry
    <2>5. BusyTypes' BY <2>1, <2>4, Zenon DEF BusyTypes
    <2>6. /\ WireTypes' /\ chain' \in [id : Chains, next : 1 .. Length + 1]
          /\ out' \in {out, [out EXCEPT ![m].retries = @ + 1]}
      <3>1. CASE ~CanMint
        BY <1>1, <1>4, <3>1, SameParts DEF WalkRetry, NotSent, SenderTypes
      <3>2. CASE CanMint
        <4>1. PICK ready \in SUBSET Relays :
              /\ sendSealedToRelays(m, out[m].ctr, chain.id, chain.next, ready)
              /\ chain' = IF ready = {} THEN RolledBack(Minted, chain.next)
                          ELSE Minted
              /\ out' = IF ready = {} THEN out
                        ELSE [out EXCEPT ![m].retries = @ + 1]
          BY <1>4, <3>2 DEF WalkRetry
        <4>2. WireTypes'
          BY <1>1, <2>2, <2>3, <3>2, <4>1, FanOutTypes, MintTypes
        <4>3. chain' \in [id : Chains, next : 1 .. Length + 1]
          BY <1>1, <3>2, <4>1, MintTypes DEF SenderTypes
        <4> QED BY <4>1, <4>2, <4>3
      <3> QED BY <3>1, <3>2
    <2>7. out' \in [Msgs -> EntryType \cup {NoEntry}]
      BY <1>1, <2>2, <2>3, <2>6 DEF SenderTypes
    <2>8. SenderTypes' BY <1>1, <1>4, <2>6, <2>7 DEF SenderTypes, WalkRetry, queueVars
    <2>9. \A k \in Entries : out'[k] # NoEntry
      BY <1>1, <2>2, <2>3, <2>6, DeliveryAssumption, Zenon DEF Entries, SenderTypes
    <2>10. EntryKept' BY <2>2, <2>4, <2>9 DEF EntryKept, Entries
    <2> QED BY <1>2, <2>5, <2>6, <2>8, <2>10
  <1>5. CASE WalkEnd
    <2>1. WireTypes' BY <1>1, <1>5, SameParts, Zenon DEF WalkEnd, NotSent
    <2>2. out' \in [Msgs -> EntryType \cup {NoEntry}]
      BY <1>1, <1>5, Zenon DEF WalkEnd, SenderTypes
    <2>3. SenderTypes' BY <1>1, <1>5, <2>2, Zenon DEF SenderTypes, WalkEnd, queueVars
    <2> QED BY <1>2, <1>5, <2>1, <2>3, Zenon DEF WalkEnd, BusyTypes, EntryKept, Idle
  <1> QED BY <1>3, <1>4, <1>5

\* A text that begins, or begins anew, keeps the types.
LEMMA BeginShape ==
  ASSUME ShapeInv, NEW m, NEW n,
         Compose(m) \/ DrainNext \/ userTryAgainExpired(m, n)
  PROVE  ShapeInv'
  <1>1. WireTypes /\ PeerTypes /\ SenderTypes /\ BusyTypes /\ EntryKept
    BY TypeParts DEF ShapeInv
  <1> SUFFICES WireTypes' /\ PeerTypes' /\ SenderTypes' /\ BusyTypes' /\ EntryKept'
    BY TypeParts, Zenon DEF ShapeInv
  <1>2. PeerTypes'
    BY <1>1, SameParts, Zenon DEF Compose, DrainNext, userTryAgainExpired
  <1>3. WireTypes'
    BY <1>1, SameParts DEF Compose, DrainNext, userTryAgainExpired, NotSent
  <1>4. CASE Compose(m)
    <2>1. m \in Chats /\ busy = Idle /\ send(m, Relays) BY <1>4 DEF Compose, Free
    <2>2. /\ chain' \in [id : Chains, next : 1 .. Length + 1]
          /\ waiting' \in Seq(Chats) /\ used' \subseteq Msgs
          /\ BusyTypes' /\ EntryKept'
      BY <1>1, <2>1, SendTypes, Zenon
    <2>3. SenderTypes' BY <1>1, <1>4, <2>2 DEF Compose, SenderTypes
    <2> QED BY <1>2, <1>3, <2>2, <2>3
  <1>5. CASE DrainNext
    <2>1. /\ Head(draining) \in Chats /\ Tail(draining) \in Seq(Chats)
          /\ busy = Idle /\ \E ready : send(Head(draining), ready)
      BY <1>1, <1>5 DEF DrainNext, SenderTypes
    <2>2. /\ chain' \in [id : Chains, next : 1 .. Length + 1]
          /\ waiting' \in Seq(Chats) /\ used' \subseteq Msgs
          /\ BusyTypes' /\ EntryKept'
      BY <1>1, <2>1, SendTypes, Zenon
    <2>3. SenderTypes' BY <1>1, <1>5, <2>1, <2>2 DEF DrainNext, SenderTypes
    <2> QED BY <1>2, <1>3, <2>2, <2>3
  <1>6. CASE userTryAgainExpired(m, n)
    <2>1. n \in Chats /\ busy = Idle /\ \E ready : send(n, ready)
      BY <1>6 DEF userTryAgainExpired, Free
    <2>2. /\ chain' \in [id : Chains, next : 1 .. Length + 1]
          /\ waiting' \in Seq(Chats) /\ used' \subseteq Msgs
          /\ BusyTypes' /\ EntryKept'
      BY <1>1, <2>1, SendTypes
    <2>3. out' \in [Msgs -> EntryType \cup {NoEntry}]
      BY <1>1, <1>6, Zenon DEF userTryAgainExpired, SenderTypes
    <2>4. SenderTypes'
      BY <1>1, <1>6, <2>2, <2>3 DEF userTryAgainExpired, SenderTypes
    <2> QED BY <1>2, <1>3, <2>2, <2>4
  <1> QED BY <1>4, <1>5, <1>6

\* Legs, receipts and the user's retry keep the types.
LEMMA LegShape ==
  ASSUME ShapeInv, NEW m, NEW l,
         \/ m \in Legs /\ sendGroupMessage(m)
         \/ l \in tasks /\ LegFires(l)
         \/ m \in Acks /\ emitAck(m)
         \/ m \in Msgs /\ userRetry(m)
  PROVE  ShapeInv'
  <1>1. WireTypes /\ PeerTypes /\ SenderTypes /\ BusyTypes /\ EntryKept
    BY TypeParts DEF ShapeInv
  <1> SUFFICES WireTypes' /\ PeerTypes' /\ SenderTypes' /\ BusyTypes' /\ EntryKept'
    BY TypeParts, Zenon DEF ShapeInv
  <1>2. PeerTypes'
    BY <1>1, SameParts DEF sendGroupMessage, LegFires, emitAck, userRetry
  <1>3. busy = Idle /\ busy' = Idle
    BY DEF sendGroupMessage, LegFires, emitAck, userRetry, Free
  <1>4. BusyTypes' /\ EntryKept' BY <1>3, Zenon DEF BusyTypes, EntryKept, Idle
  <1>5. CASE m \in Legs /\ sendGroupMessage(m)
    <2>1. m \in Msgs BY <1>5, Zenon DEF Msgs
    <2>2. WireTypes' BY <1>1, <1>5, SameParts, Zenon DEF sendGroupMessage, NotSent
    <2>3. savedCtr' \in Nat /\ rows' = rows /\ waiting' = waiting /\ draining' = draining
      BY <1>1, <1>5 DEF sendGroupMessage, SenderTypes
    <2>4. used' \subseteq Msgs BY <1>1, <1>5, <2>1, ZenonT(60) DEF sendGroupMessage, SenderTypes
    <2>5. /\ chain' \in [id : Chains, next : 1 .. Length + 1]
          /\ out' \in [Msgs -> EntryType \cup {NoEntry}]
          /\ tasks' \subseteq [m : Legs, c : Chains, i : 1 .. Length, ctr : Nat]
          /\ ctr' \in Nat
      <3>1. CASE UNCHANGED <<chain, out, tasks, ctr>> BY <1>1, <3>1 DEF SenderTypes
      <3>2. CASE CanMint /\ chain' = Minted /\ UNCHANGED <<out, tasks, ctr>>
        BY <1>1, <3>2, MintTypes, Zenon DEF SenderTypes
      <3>3. CASE /\ CanMint /\ chain' = Minted
                 /\ out' = [out EXCEPT ![m] = NewEntry(ctr)]
                 /\ tasks' = tasks \cup
                      {[m |-> m, c |-> chain.id, i |-> chain.next, ctr |-> ctr]}
                 /\ ctr' = ctr + 1
        <4>1. ctr \in Nat /\ NewEntry(ctr) \in EntryType
          BY <1>1, NewEntryType, Zenon DEF SenderTypes
        <4>2. [m |-> m, c |-> chain.id, i |-> chain.next, ctr |-> ctr]
                \in [m : Legs, c : Chains, i : 1 .. Length, ctr : Nat]
          BY <1>1, <1>5, <3>3, <4>1, MintTypes, Zenon
        <4>3. tasks' \subseteq [m : Legs, c : Chains, i : 1 .. Length, ctr : Nat]
          BY <1>1, <3>3, <4>2 DEF SenderTypes
        <4>4. out' \in [Msgs -> EntryType \cup {NoEntry}]
          BY <1>1, <3>3, <4>1, Zenon DEF SenderTypes
        <4>5. ctr' \in Nat BY ONLY <3>3, <4>1
        <4>6. chain' \in [id : Chains, next : 1 .. Length + 1]
          BY <1>1, <3>3, MintTypes, Zenon
        <4> QED BY <4>3, <4>4, <4>5, <4>6, Zenon
      <3> QED BY <1>5, <3>1, <3>2, <3>3 DEF sendGroupMessage, SealLeg
    <2>6. SenderTypes' BY <1>1, <2>3, <2>4, <2>5 DEF SenderTypes
    <2> QED BY <1>2, <1>4, <2>2, <2>6
  <1>6. CASE l \in tasks /\ LegFires(l)
    <2>1. l \in [m : Legs, c : Chains, i : 1 .. Length, ctr : Nat] /\ l.m \in Msgs
      BY <1>1, <1>6 DEF SenderTypes, Msgs
    <2>2. PICK ready \in SUBSET Relays :
            /\ sendSealedToRelays(l.m, l.ctr, l.c, l.i, ready)
            /\ out' = IF ready # {} /\ l.m \in Entries
                      THEN [out EXCEPT ![l.m].relayed = TRUE] ELSE out
      BY <1>6 DEF LegFires
    <2>3. WireTypes' BY <1>1, <2>1, <2>2, FanOutTypes
    <2>4. l.m \in Entries => [out[l.m] EXCEPT !.relayed = TRUE] \in EntryType
      BY <1>1, Zenon DEF Entries, EntryType, SenderTypes
    <2>5. out' \in [Msgs -> EntryType \cup {NoEntry}]
      BY <1>1, <2>1, <2>2, <2>4 DEF SenderTypes
    <2>6. SenderTypes' BY <1>1, <1>6, <2>5 DEF SenderTypes, LegFires
    <2> QED BY <1>2, <1>4, <2>3, <2>6
  <1>7. CASE m \in Acks /\ emitAck(m)
    <2>1. m \in Msgs BY <1>7, Zenon DEF Msgs
    <2>2. used' \subseteq Msgs BY <1>1, <1>7, <2>1, Zenon DEF emitAck, SenderTypes
    <2>3. ctr' \in Nat /\ savedCtr' \in Nat BY ONLY <1>1, <1>7 DEF emitAck, SenderTypes
    <2>4. (chain' = chain \/ (CanMint /\ chain' = Minted)) /\ WireTypes'
      <3>1. CASE ~CanMint BY <1>1, <1>7, <3>1, SameParts DEF emitAck, NotSent
      <3>2. CASE CanMint /\ Fault /\ chain' = RolledBack(Minted, chain.next) /\ NotSent
        BY <1>1, <3>2, SameParts, MintTypes, Zenon DEF NotSent
      <3>3. ASSUME CanMint, NEW ready \in SUBSET Relays,
                   sendSealedToRelays(m, ctr, chain.id, chain.next, ready),
                   chain' = IF ready = {} THEN RolledBack(Minted, chain.next)
                            ELSE Minted
            PROVE  chain' \in {chain, Minted} /\ WireTypes' /\ CanMint
        BY <1>1, <2>1, <3>3, MintTypes, FanOutTypes DEF SenderTypes
      <3> QED BY <1>7, <3>1, <3>2, <3>3, Zenon DEF emitAck
    <2>5. chain' \in [id : Chains, next : 1 .. Length + 1]
      BY <1>1, <2>4, MintTypes, Zenon DEF SenderTypes
    <2>6. SenderTypes' BY <1>1, <1>7, <2>2, <2>3, <2>5, Zenon DEF SenderTypes, emitAck
    <2> QED BY <1>2, <1>4, <2>4, <2>6
  <1>8. CASE m \in Msgs /\ userRetry(m)
    <2>1. out[m] \in EntryType BY <1>1, <1>8, Zenon DEF userRetry, Entries, SenderTypes
    <2>2. PICK ready \in SUBSET Relays :
            /\ sendSealedToRelays(m, out[m].ctr, chain.id, chain.next, ready)
            /\ out' = [out EXCEPT ![m] = Retried(@, ready # {})]
      BY <1>8, Zenon DEF userRetry
    <2>3. CanMint /\ chain' = Minted BY <1>8 DEF userRetry
    <2>4. out[m].ctr \in Nat BY <2>1 DEF EntryType
    <2>5. WireTypes' BY <1>1, <1>8, <2>2, <2>3, <2>4, FanOutTypes, MintTypes, Zenon
    <2>6. Retried(out[m], ready # {}) \in EntryType
      BY <2>1, RetriedType, Zenon
    <2>8. out' \in [Msgs -> EntryType \cup {NoEntry}]
      BY <1>1, <1>8, <2>2, <2>6, ZenonT(60) DEF SenderTypes
    <2>9. SenderTypes'
      BY <1>1, <1>8, <2>3, <2>8, MintTypes DEF SenderTypes, userRetry, queueVars
    <2> QED BY <1>2, <1>4, <2>5, <2>9
  <1> QED BY <1>5, <1>6, <1>7, <1>8

\* What the peer sends back, the recipient and the faults keep the types.
LEMMA PeerShape ==
  ASSUME ShapeInv, NEW m, NEW reg, NEW r, NEW f,
         \/ handleAckPayload(m)
         \/ handleChainSeedDelivery(reg)
         \/ r \in Relays /\ handleSealedFrame(r, f)
         \/ r \in Relays /\ RelayLoses(r, f)
  PROVE  ShapeInv'
  <1>1. WireTypes /\ PeerTypes /\ SenderTypes /\ BusyTypes /\ EntryKept
    BY TypeParts DEF ShapeInv
  <1> SUFFICES WireTypes' /\ PeerTypes' /\ SenderTypes' /\ BusyTypes' /\ EntryKept'
    BY TypeParts DEF ShapeInv
  <1>2. CASE handleAckPayload(m)
    <2>1. busy = Idle /\ busy' = Idle BY <1>2 DEF handleAckPayload, Free
    <2>2. BusyTypes' /\ EntryKept' BY <2>1, Zenon DEF BusyTypes, EntryKept, Idle
    <2>3. WireTypes'
      BY <1>1, <1>2, SameParts DEF handleAckPayload, NotSent, SaveOnReceive
    <2>4. PeerTypes' BY <1>1, <1>2 DEF handleAckPayload, PeerTypes, peerVars
    <2>5. m \in Entries => [out[m] EXCEPT !.delivered = TRUE] \in EntryType
      BY <1>1, Zenon DEF Entries, EntryType, SenderTypes
    <2>6. out' \in [Msgs -> EntryType \cup {NoEntry}]
      BY <1>1, <1>2, <2>5, Zenon DEF SenderTypes, handleAckPayload
    <2>7. SenderTypes'
      BY <1>1, <1>2, <2>6 DEF SenderTypes, handleAckPayload, queueVars, SaveOnReceive
    <2> QED BY <2>2, <2>3, <2>4, <2>7
  <1>3. CASE handleChainSeedDelivery(reg)
    <2>1. busy = Idle /\ busy' = Idle BY <1>3, Zenon DEF handleChainSeedDelivery, Free
    <2>2. BusyTypes' /\ EntryKept' BY <2>1 DEF BusyTypes, EntryKept, Idle
    <2>3. PeerTypes' BY <1>1, <1>3, SameParts, ZenonT(60) DEF handleChainSeedDelivery
    <2>4. chain.id + 1 \in Chains
      BY <1>1, <1>3, DeliveryAssumption DEF handleChainSeedDelivery, SenderTypes, Chains
    <2>5. 0 \in 0 .. Length + 1 /\ 1 \in 1 .. Length + 1 BY ONLY DeliveryAssumption
    <2>6. last' \in [Relays -> [Chains -> 0 .. Length + 1]]
      BY <1>1, <1>3, <2>4, <2>5, Zenon DEF handleChainSeedDelivery, WireTypes
    <2>7. WireTypes'
      BY ONLY <1>1, <1>3, <2>6
      DEF WireTypes, handleChainSeedDelivery, SaveOnReceive, Fault, NoFault
    <2>8. SenderTypes'
      BY <1>1, <1>3, <2>4, <2>5
      DEF SenderTypes, handleChainSeedDelivery, SaveOnReceive
    <2> QED BY <2>2, <2>3, <2>7, <2>8
  <1>4. CASE r \in Relays /\ handleSealedFrame(r, f)
    <2>1. UNCHANGED senderVars /\ last' = last /\ spent' = spent
      BY <1>4 DEF handleSealedFrame
    <2>2. SenderTypes' /\ BusyTypes' /\ EntryKept'
      BY <1>1, <2>1, Zenon DEF SenderTypes, BusyTypes, EntryKept, Entries, senderVars, queueVars
    <2>3. f \in [m : Msgs \cup {NoMsg}, ctr : Nat]
      BY <1>1, <1>4, Zenon DEF WireTypes, handleSealedFrame
    <2>4. faults' \in Nat
      BY ONLY <1>1, <1>4 DEF handleSealedFrame, handleChatPayload, Fault, NoFault, WireTypes
    <2>5. box' \in [Relays -> SUBSET [m : Msgs \cup {NoMsg}, ctr : Nat]]
      BY <1>1, <1>4 DEF handleSealedFrame, WireTypes
    <2>6. WireTypes' BY <1>1, <2>1, <2>4, <2>5, Zenon DEF WireTypes
    <2>7. seen' \subseteq Nat /\ savedSeen' \subseteq Nat
      BY <1>1, <1>4, <2>3, Zenon DEF handleSealedFrame, PeerTypes
    <2>8. shown' \in {shown, [shown EXCEPT ![f.m] = @ + 1]} /\ unsaved' \in BOOLEAN
      BY <1>1, <1>4, Zenon DEF handleSealedFrame, handleChatPayload, PeerTypes
    <2>9. acks' \subseteq Chats
      BY <1>1, <1>4, Zenon DEF handleSealedFrame, handleChatPayload, PeerTypes
    <2>10. shown' \in [Msgs -> Nat] BY <1>1, <2>8 DEF PeerTypes
    <2> QED BY <2>2, <2>6, <2>7, <2>8, <2>9, <2>10, Zenon DEF PeerTypes
  <1>5. CASE r \in Relays /\ RelayLoses(r, f)
    <2>1. UNCHANGED <<senderVars, last, spent, peerVars, acks>> /\ Fault
      BY <1>5, Zenon DEF RelayLoses
    <2>2. SenderTypes' /\ BusyTypes' /\ EntryKept'
      BY <1>1, <2>1, Zenon DEF SenderTypes, BusyTypes, EntryKept, Entries, senderVars, queueVars
    <2>3. box' \in [Relays -> SUBSET [m : Msgs \cup {NoMsg}, ctr : Nat]]
      BY <1>1, <1>5, Zenon DEF RelayLoses, WireTypes
    <2>4. WireTypes' BY <1>1, <2>1, <2>3 DEF WireTypes, Fault
    <2> QED BY <1>1, <2>1, <2>2, <2>4, SameParts
  <1> QED BY <1>2, <1>3, <1>4, <1>5

\* The two restarts keep the types.
LEMMA RestartShape ==
  ASSUME ShapeInv, SenderRestarts \/ RecipientRestarts \/ UNCHANGED vars
  PROVE  ShapeInv'
  <1>1. WireTypes /\ PeerTypes /\ SenderTypes /\ BusyTypes /\ EntryKept
    BY TypeParts DEF ShapeInv
  <1> SUFFICES WireTypes' /\ PeerTypes' /\ SenderTypes' /\ BusyTypes' /\ EntryKept'
    BY TypeParts, Zenon DEF ShapeInv
  <1>2. CASE SenderRestarts
    <2>1. WireTypes' /\ PeerTypes' BY <1>1, <1>2, SameParts DEF SenderRestarts
    <2>2. SenderTypes' BY <1>1, <1>2 DEF SenderTypes, SenderRestarts
    <2> QED BY <1>2, <2>1, <2>2 DEF SenderRestarts, BusyTypes, EntryKept, Idle
  <1>3. CASE RecipientRestarts
    <2>1. WireTypes' BY <1>1, <1>3, SameParts DEF RecipientRestarts
    <2>2. PeerTypes' BY <1>1, <1>3, ZenonT(60) DEF RecipientRestarts, PeerTypes
    <2>3. SenderTypes' /\ BusyTypes' /\ EntryKept'
      BY <1>1, <1>3
      DEF RecipientRestarts, SenderTypes, BusyTypes, EntryKept, Entries,
          senderVars, queueVars
    <2> QED BY <2>1, <2>2, <2>3
  <1>4. CASE UNCHANGED vars
    <2>1. WireTypes' /\ PeerTypes' BY <1>1, <1>4, SameParts, Zenon DEF vars
    <2>2. SenderTypes' /\ BusyTypes' /\ EntryKept'
      BY <1>1, <1>4, ZenonT(60)
      DEF vars, SenderTypes, BusyTypes, EntryKept, Entries, senderVars, queueVars
    <2> QED BY <2>1, <2>2
  <1> QED BY <1>2, <1>3, <1>4

\* Every step keeps the types, and the entry of the handler under way.
LEMMA ShapeStep ==
  ASSUME ShapeInv, [Next]_vars PROVE ShapeInv'
  BY SendV2Shape, WalkShape, BeginShape, LegShape, PeerShape, RestartShape
  DEF Next, Handler

\* A conversation begins with the types.
LEMMA ShapeInit ==
  ASSUME Init PROVE ShapeInv
  <1>1. PICK k \in 0 .. Length, gone \in SUBSET Msgs : InitAt(k, gone) BY DEF Init
  <1>2. k \in 0 .. Length + 1 /\ Unregistered \in 0 .. Length + 1
        /\ k + 1 \in 1 .. Length + 1 /\ 1 \in Chains
    BY ONLY DeliveryAssumption DEF Unregistered, Chains
  <1>3. WireTypes BY <1>1, <1>2 DEF InitAt, WireTypes
  <1>4. PeerTypes BY <1>1, Zenon DEF InitAt, PeerTypes
  <1>5. SenderTypes BY ONLY <1>1, <1>2 DEF InitAt, SenderTypes
  <1>6. BusyTypes /\ EntryKept BY <1>1 DEF InitAt, BusyTypes, EntryKept, Idle
  <1> QED BY <1>3, <1>4, <1>5, <1>6, TypeParts DEF ShapeInv

\* The shapes of the outbox, the chain, the relays' cursors and the ratchets
\* hold throughout, and the entry that sendV2 is about to write is there.
LEMMA ShapeInvariant == Spec => []ShapeInv
  BY ShapeInit, ShapeStep, PTL DEF Spec

---------------------------------------------------------------------------
(* Who carries the bytes of a message.  A message is sealed at most once:  *)
(* until then nobody carries it, and from then on every carrier has the    *)
(* ratchet counter of that one sealing.                                    *)

InOut(m, n) == out[m] # NoEntry /\ out[m].ctr = n
InTask(m, n) == \E l \in tasks : l.m = m /\ l.ctr = n
InBox(m, n) == \E r \in Relays : [m |-> m, ctr |-> n] \in box[r]
Carries(m, n) == InOut(m, n) \/ InTask(m, n) \/ InBox(m, n)

\* A text waits at one place of the two queues w and d.
Once(w, d) ==
    /\ \A j, k \in 1 .. Len(w) : w[j] = w[k] => j = k
    /\ \A j, k \in 1 .. Len(d) : d[j] = d[k] => j = k
    /\ \A j \in 1 .. Len(w), k \in 1 .. Len(d) : w[j] # d[k]

Members(w, d) == {w[j] : j \in 1 .. Len(w)} \cup {d[k] : k \in 1 .. Len(d)}
Queued == Members(waiting, draining)

\* Not sealed so far: not begun, waiting for a chain, or just given a token.
Unsealed ==
    (Msgs \ used) \cup Queued \cup (IF busy.at = "minted" THEN {busy.m} ELSE {})

QueueInv ==
    /\ Once(waiting, draining)
    /\ Queued \subseteq used
    /\ busy.at = "minted" => busy.m \in used \ Queued

SealInv ==
    /\ \A m \in Unsealed, n \in Nat : ~Carries(m, n)
    /\ \A m \in Unsealed : shown[m] = 0
    /\ \A m \in Msgs : \A j, k \in Nat : Carries(m, j) /\ Carries(m, k) => j = k

\* A message that was shown is known to the recipient's saved ratchet, by
\* the one counter its remaining copies have.
ShownInv ==
    /\ savedSeen \subseteq seen
    /\ \/ unsaved
       \/ \A m \in Msgs :
            /\ shown[m] <= 1
            /\ shown[m] = 1 => \A n \in Nat : Carries(m, n) => n \in savedSeen

AckInv ==
    /\ \A m \in acks : shown[m] > 0
    /\ DeliveredWasShown

FlowInv == ShapeInv /\ QueueInv /\ SealInv /\ ShownInv /\ AckInv

\* The head of the second queue leaves.
LEMMA QueuePop ==
  ASSUME NEW w \in Seq(Chats), NEW d \in Seq(Chats), Once(w, d), d # <<>>
  PROVE  /\ Once(w, Tail(d)) /\ Head(d) \in Members(w, d)
         /\ Members(w, Tail(d)) = Members(w, d) \ {Head(d)}
  <1>1. /\ Len(d) \in Nat \ {0} /\ Len(Tail(d)) = Len(d) - 1
        /\ Head(d) = d[1] /\ Tail(d) \in Seq(Chats)
        /\ \A k \in 1 .. Len(Tail(d)) : Tail(d)[k] = d[k + 1]
    OBVIOUS
  <1>2. Once(w, Tail(d)) BY <1>1 DEF Once
  <1>3. Head(d) \in Members(w, d) BY ONLY <1>1 DEF Members
  <1>4. ASSUME NEW x \in Members(w, Tail(d)) PROVE x \in Members(w, d) \ {Head(d)}
    BY <1>1 DEF Members, Once
  <1>5. ASSUME NEW x \in Members(w, d) \ {Head(d)} PROVE x \in Members(w, Tail(d))
    <2>1. CASE \E j \in 1 .. Len(w) : x = w[j] BY <2>1 DEF Members
    <2>2. CASE \E k \in 1 .. Len(d) : x = d[k]
      <3>1. PICK k \in 1 .. Len(d) : x = d[k] BY <2>2
      <3>2. k - 1 \in 1 .. Len(Tail(d)) /\ Tail(d)[k - 1] = x BY <1>1, <1>5, <3>1
      <3> QED BY <3>2, Zenon DEF Members
    <2> QED BY <1>5, <2>1, <2>2, Zenon DEF Members
  <1> QED BY <1>2, <1>3, <1>4, <1>5

\* A text that waits nowhere joins the first queue.
LEMMA QueueAdd ==
  ASSUME NEW w \in Seq(Chats), NEW d \in Seq(Chats), Once(w, d),
         NEW m \in Chats \ Members(w, d)
  PROVE  Once(Append(w, m), d) /\ Members(Append(w, m), d) = Members(w, d) \cup {m}
  <1>1. /\ Len(w) \in Nat /\ Len(Append(w, m)) = Len(w) + 1
        /\ Append(w, m)[Len(w) + 1] = m
        /\ \A j \in 1 .. Len(w) : Append(w, m)[j] = w[j]
    OBVIOUS
  <1>2. \A j \in 1 .. Len(w) : w[j] # m BY DEF Members
  <1>3. \A k \in 1 .. Len(d) : d[k] # m BY Zenon DEF Members
  <1>4. \A j \in 1 .. Len(Append(w, m)) : j \in 1 .. Len(w) \/ j = Len(w) + 1
    BY ONLY <1>1
  <1>5. Once(Append(w, m), d) BY <1>1, <1>2, <1>3, <1>4, ZenonT(60) DEF Once
  <1>6. ASSUME NEW x \in Members(Append(w, m), d) PROVE x \in Members(w, d) \cup {m}
    BY <1>1, <1>4, Zenon DEF Members
  <1>7. ASSUME NEW x \in Members(w, d) \cup {m} PROVE x \in Members(Append(w, m), d)
    <2>1. 1 .. Len(w) \subseteq 1 .. Len(Append(w, m))
          /\ Len(w) + 1 \in 1 .. Len(Append(w, m))
      BY ONLY <1>1
    <2>2. CASE x = m BY <1>1, <2>1, <2>2, Zenon DEF Members
    <2>3. CASE \E j \in 1 .. Len(w) : x = w[j] BY <1>1, <2>1, <2>3, ZenonT(60) DEF Members
    <2>4. CASE \E k \in 1 .. Len(d) : x = d[k] BY <2>4, Zenon DEF Members
    <2> QED BY <1>7, <2>2, <2>3, <2>4 DEF Members
  <1> QED BY <1>5, <1>6, <1>7

\* The queues change places: all that waited is now being sent.
LEMMA QueueTurn ==
  ASSUME NEW w \in Seq(Chats), Once(w, <<>>)
  PROVE  Once(<<>>, w) /\ Members(<<>>, w) = Members(w, <<>>)
  BY DEF Once, Members

\* No queue, no member.
LEMMA QueueNone == Once(<<>>, <<>>) /\ Members(<<>>, <<>>) = {}
  BY DEF Once, Members

\* The fan-out gives the relays nothing but its own frame.
LEMMA FanOutCarries ==
  ASSUME NEW m, NEW n, NEW c, NEW i, NEW ready,
         sendSealedToRelays(m, n, c, i, ready), NEW a, NEW b, InBox(a, b)'
  PROVE  InBox(a, b) \/ (a = m /\ b = n)
  BY DEF sendSealedToRelays, InBox

\* What a step must do to keep SealInv and ShownInv when the recipient does
\* not move: nobody new is unsealed, and new carriers are of what it seals.
LEMMA SealStep ==
  ASSUME ShapeInv, SealInv, ShownInv, NEW X, NEW n0 \in Nat,
         UNCHANGED <<seen, savedSeen, shown, unsaved>>,
         Unsealed' \subseteq Unsealed \ X, X \subseteq Unsealed,
         \A m \in Msgs, n \in Nat :
            Carries(m, n)' => Carries(m, n) \/ (m \in X /\ n = n0)
  PROVE  SealInv' /\ ShownInv'
  <1>1. Unsealed \subseteq Msgs /\ Unsealed' \subseteq Msgs
    <2>a. SenderTypes BY TypeParts, ZenonT(60) DEF ShapeInv
    <2>1. Queued \subseteq Msgs BY ONLY <2>a DEF SenderTypes, Queued, Members, Msgs
    <2>2. busy.at = "minted" => busy.m \in Msgs
      BY TypeParts, BusyShape DEF ShapeInv, Holding, Msgs
    <2> QED BY <2>1, <2>2, Zenon DEF Unsealed
  <1>2. ASSUME NEW m \in Unsealed', NEW n \in Nat PROVE ~Carries(m, n)'
    BY <1>1, <1>2 DEF SealInv
  <1>3. ASSUME NEW m \in Unsealed' PROVE shown'[m] = 0
    BY <1>1, <1>3 DEF SealInv
  <1>4. ASSUME NEW m \in Msgs, NEW j \in Nat, NEW k \in Nat,
               Carries(m, j)', Carries(m, k)'
        PROVE  j = k
    BY <1>4 DEF SealInv
  <1>5. ASSUME ~unsaved, NEW m \in Msgs, shown[m] = 1, NEW n \in Nat, Carries(m, n)'
        PROVE  n \in savedSeen
    <2>1. m \notin X BY <1>5 DEF SealInv
    <2>2. Carries(m, n) BY <1>5, <2>1, Zenon
    <2> QED BY <1>5, <2>2 DEF ShownInv
  <1>6. SealInv' BY <1>2, <1>3, <1>4 DEF SealInv
  <1>7. ShownInv' BY <1>5, Zenon DEF ShownInv
  <1> QED BY <1>6, <1>7, Zenon

---------------------------------------------------------------------------
(* What the sender's steps do to the outbox and to the carriers. *)

\* Nothing is taken back from an entry e that becomes d.
Ahead(e, d) ==
    /\ d.ctr = e.ctr
    /\ e.relayed => d.relayed
    /\ e.failed => d.failed
    /\ e.delivered => d.delivered
    /\ e.retries <= d.retries

\* An entry is new, for a message in X, or is the old one, further on; only
\* an ACK on the way delivers it.
OutStep(X, n0) ==
    \A m \in Msgs : out'[m] # NoEntry =>
        \/ m \in X /\ out'[m].ctr = n0 /\ ~out'[m].delivered
        \/ /\ out[m] # NoEntry /\ Ahead(out[m], out'[m])
           /\ out'[m].delivered => out[m].delivered \/ m \in acks

\* The messages in X are sealed, under the counter n0.
FlowMove(X, n0) ==
    /\ X \subseteq Unsealed /\ Unsealed' \subseteq Unsealed \ X
    /\ OutStep(X, n0)
    /\ \A m \in Msgs, n \in Nat :
          (InTask(m, n) \/ InBox(m, n))' => Carries(m, n) \/ (m \in X /\ n = n0)
    /\ acks' \subseteq acks
    /\ UNCHANGED <<seen, savedSeen, shown, unsaved>>

\* Such a step keeps the invariant, and takes nothing back from an entry.
LEMMA FlowKept ==
  ASSUME FlowInv, ShapeInv', QueueInv', NEW X, NEW n0 \in Nat, FlowMove(X, n0)
  PROVE  /\ FlowInv'
         /\ \A m \in Entries : out'[m] # NoEntry => Ahead(out[m], out'[m])
  <1>1. ASSUME NEW m \in Msgs, NEW n \in Nat, InOut(m, n)'
        PROVE  InOut(m, n) \/ (m \in X /\ n = n0)
    BY <1>1, Zenon DEF FlowMove, OutStep, InOut, Ahead
  <1>2. \A m \in Msgs, n \in Nat :
            Carries(m, n)' => Carries(m, n) \/ (m \in X /\ n = n0)
    BY <1>1 DEF FlowMove, Carries
  <1>3. SealInv' /\ ShownInv'
    BY <1>2, SealStep, Zenon DEF FlowInv, FlowMove
  <1>4. AckInv'
    BY Zenon DEF FlowInv, FlowMove, OutStep, AckInv, DeliveredWasShown, Entries
  <1>5. ASSUME NEW m \in Entries, out'[m] # NoEntry PROVE Ahead(out[m], out'[m])
    <2>1. out[m] \in EntryType /\ out[m].ctr \in Nat /\ m \in Msgs
      BY TypeParts DEF FlowInv, ShapeInv, SenderTypes, Entries, EntryType
    <2>2. Carries(m, out[m].ctr) BY ZenonT(60) DEF Carries, InOut, Entries
    <2>3. m \notin X BY <2>1, <2>2 DEF FlowInv, FlowMove, SealInv
    <2> QED BY <1>5, <2>1, <2>3, Zenon DEF FlowMove, OutStep
  <1> QED BY <1>3, <1>4, <1>5, Zenon DEF FlowInv

\* An entry stays as it is.
LEMMA AheadSame ==
  ASSUME NEW e \in EntryType PROVE Ahead(e, e)
  BY DEF Ahead, EntryType

\* The outbox does not change.
LEMMA OutSame ==
  ASSUME ShapeInv, out' = out, NEW n0 PROVE OutStep({}, n0)
  <1>1. \A m \in Msgs : out[m] # NoEntry => out[m] \in EntryType
    BY TypeParts DEF ShapeInv, SenderTypes
  <1> QED BY <1>1, AheadSame, Zenon DEF OutStep

\* One entry moves on.
LEMMA OutWrite ==
  ASSUME ShapeInv, NEW x \in Entries, NEW e, Ahead(out[x], e),
         e.delivered => out[x].delivered \/ x \in acks,
         out' = [out EXCEPT ![x] = e], NEW n0
  PROVE  OutStep({}, n0)
  <1>1. \A m \in Msgs : out[m] # NoEntry => out[m] \in EntryType
    BY TypeParts, Zenon DEF ShapeInv, SenderTypes
  <1>2. out \in [Msgs -> EntryType \cup {NoEntry}]
    BY TypeParts, Zenon DEF ShapeInv, SenderTypes
  <1> QED BY <1>1, <1>2, AheadSame, Zenon DEF OutStep, Entries

\* One entry is made.
LEMMA OutNew ==
  ASSUME ShapeInv, NEW x \in Msgs,
         out' = [out EXCEPT ![x] = NewEntry(ctr)]
  PROVE  OutStep({x}, ctr)
  <1>1. \A m \in Msgs : out[m] # NoEntry => out[m] \in EntryType
    BY TypeParts, Zenon DEF ShapeInv, SenderTypes
  <1>2. out \in [Msgs -> EntryType \cup {NoEntry}] /\ ctr \in Nat
    BY TypeParts DEF ShapeInv, SenderTypes
  <1> QED BY <1>1, <1>2, AheadSame, NewEntryType, Zenon DEF OutStep

\* The stamps move an entry on.
LEMMA Stamps ==
  ASSUME NEW e \in EntryType, NEW b \in BOOLEAN
  PROVE  /\ Ahead(e, [e EXCEPT !.failed = TRUE])
         /\ Ahead(e, [e EXCEPT !.delivered = TRUE])
         /\ Ahead(e, [e EXCEPT !.relayed = TRUE])
         /\ ~e.relayed => Ahead(e, [e EXCEPT !.relayed = b])
         /\ ~e.relayed => Ahead(e, Retried(e, b))
         /\ Ahead(e, [e EXCEPT !.retries = @ + 1])
         /\ [e EXCEPT !.failed = TRUE].delivered = e.delivered
         /\ [e EXCEPT !.relayed = TRUE].delivered = e.delivered
         /\ [e EXCEPT !.relayed = b].delivered = e.delivered
         /\ [e EXCEPT !.retries = @ + 1].delivered = e.delivered
  <1>1. Ahead(e, [e EXCEPT !.failed = TRUE]) BY DEF Ahead, EntryType
  <1>2. Ahead(e, [e EXCEPT !.delivered = TRUE]) BY DEF Ahead, EntryType
  <1>3. Ahead(e, [e EXCEPT !.relayed = TRUE]) BY DEF Ahead, EntryType
  <1>4. ~e.relayed => Ahead(e, [e EXCEPT !.relayed = b]) BY DEF Ahead, EntryType
  <1>5. ~e.relayed => Ahead(e, Retried(e, b)) BY RetriedType DEF Ahead, EntryType
  <1>6. Ahead(e, [e EXCEPT !.retries = @ + 1]) BY DEF Ahead, EntryType
  <1>7. /\ [e EXCEPT !.failed = TRUE].delivered = e.delivered
        /\ [e EXCEPT !.relayed = TRUE].delivered = e.delivered
        /\ [e EXCEPT !.relayed = b].delivered = e.delivered
        /\ [e EXCEPT !.retries = @ + 1].delivered = e.delivered
    BY ZenonT(60) DEF EntryType
  <1> QED BY <1>1, <1>2, <1>3, <1>4, <1>5, <1>6, <1>7

\* The queues do not change, and no text is given a token.
LEMMA QuietQueue ==
  ASSUME QueueInv, waiting' = waiting, draining' = draining, used \subseteq used',
         busy'.at # "minted"
  PROVE  /\ QueueInv' /\ Unsealed' \subseteq Unsealed
         /\ \A x \in used' \ Queued : x \notin Unsealed'
  BY DEF QueueInv, Queued, Unsealed

\* The legs and the relays' frames are as before.
LEMMA SameCarriers ==
  /\ tasks' \subseteq tasks => \A m, n : InTask(m, n)' => InTask(m, n)
  /\ box' = box => \A m, n : InBox(m, n)' => InBox(m, n)
  BY Zenon DEF InTask, InBox

Flows == QueueInv' /\ \E X \in SUBSET Msgs, n0 \in Nat : FlowMove(X, n0)

\* Nothing is sealed, and the relays get copies of what is carried already.
LEMMA QuietFlow ==
  ASSUME FlowInv, waiting' = waiting, draining' = draining, used \subseteq used',
         busy'.at # "minted", OutStep({}, 0), tasks' \subseteq tasks,
         \A m \in Msgs, n \in Nat : InBox(m, n)' => Carries(m, n),
         UNCHANGED <<peerVars, acks>>
  PROVE  Flows
  <1>1. QueueInv' /\ Unsealed' \subseteq Unsealed BY QuietQueue, Zenon DEF FlowInv
  <1>2. \A m \in Msgs, n \in Nat : InTask(m, n)' => Carries(m, n)
    BY SameCarriers DEF Carries
  <1>3. UNCHANGED <<seen, savedSeen, shown, unsaved>> /\ acks' = acks
    BY DEF peerVars
  <1>4. \A m \in Msgs, n \in Nat : (InTask(m, n) \/ InBox(m, n))' => Carries(m, n)
    BY <1>2, Zenon
  <1>5. FlowMove({}, 0) BY <1>1, <1>3, <1>4, Zenon DEF FlowMove
  <1> QED BY <1>1, <1>5 DEF Flows

\* The frames the fan-out leaves are copies.
LEMMA Copies ==
  ASSUME NEW x, NEW n0, NEW c, NEW i, NEW ready,
         sendSealedToRelays(x, n0, c, i, ready), x = NoMsg \/ Carries(x, n0)
  PROVE  \A m \in Msgs, n \in Nat : InBox(m, n)' => Carries(m, n)
  BY FanOutCarries, DeliveryAssumption DEF Carries

\* No frame is sent.
LEMMA NoFrames ==
  ASSUME box' = box
  PROVE  \A m \in Msgs, n \in Nat : InBox(m, n)' => Carries(m, n)
  BY SameCarriers DEF Carries

\* The steps of sendV2.
LEMMA SendV2Flow ==
  ASSUME FlowInv, SealSend \/ SaveSend \/ WireSend \/ FinishSend
  PROVE  Flows
  <1>1. SenderTypes /\ BusyTypes /\ EntryKept /\ QueueInv /\ ShapeInv
    BY TypeParts DEF FlowInv, ShapeInv
  <1>2. Chats \subseteq Msgs BY DEF Msgs
  <1>3. CASE SealSend
    <2>1. /\ busy.m \in Msgs /\ busy \in [at : Holding, m : Chats, c : Chains, i : 1 .. Length]
          /\ busy.at = "minted"
      BY <1>1, <1>2, <1>3, BusyShape DEF SealSend, Holding
    <2>2. /\ waiting' = waiting /\ draining' = draining /\ tasks' = tasks
          /\ used' = used /\ box' = box /\ UNCHANGED <<peerVars, acks>>
      BY <1>3, Zenon DEF SealSend, queueVars, NotSent, wireVars
    <2>3. CASE out' = [out EXCEPT ![busy.m] = NewEntry(ctr)]
               /\ busy' = [busy EXCEPT !.at = "queued"]
      <3>1. busy'.at # "minted" BY <2>1, <2>3
      <3>2. /\ QueueInv' /\ Unsealed' \subseteq Unsealed
            /\ \A x \in used' \ Queued : x \notin Unsealed'
        BY <1>1, <2>2, <3>1, QuietQueue, Zenon
      <3>3. busy.m \in Unsealed /\ busy.m \in used' \ Queued
        BY <1>1, <2>1, <2>2 DEF Unsealed, QueueInv
      <3>4. OutStep({busy.m}, ctr) BY <1>1, <2>1, <2>3, OutNew, Zenon
      <3>5. \A m \in Msgs, n \in Nat : (InTask(m, n) \/ InBox(m, n))' => Carries(m, n)
        BY <2>2, SameCarriers, Zenon DEF Carries
      <3>6. FlowMove({busy.m}, ctr)
        BY <2>2, <3>2, <3>3, <3>4, <3>5, Zenon DEF FlowMove, peerVars
      <3> QED BY <1>1, <2>1, <3>2, <3>6 DEF Flows, SenderTypes
    <2>4. CASE busy' = Idle /\ out' = out
      <3>1. busy'.at # "minted" BY <2>4 DEF Idle
      <3> QED BY <1>1, <2>2, <2>4, <3>1, OutSame, NoFrames, QuietFlow
    <2> QED BY <1>3, <2>3, <2>4 DEF SealSend
  <1>4. CASE SaveSend
    <2>1. /\ busy.m \in Entries /\ out[busy.m] \in EntryType
          /\ busy \in [at : Holding, m : Chats, c : Chains, i : 1 .. Length]
      BY <1>1, <1>2, <1>4, BusyShape DEF SaveSend, Holding, EntryKept, Entries, SenderTypes
    <2>2. /\ waiting' = waiting /\ draining' = draining /\ tasks' = tasks
          /\ used' = used /\ box' = box /\ UNCHANGED <<peerVars, acks>>
      BY <1>4 DEF SaveSend, queueVars, NotSent, wireVars
    <2>3. busy'.at # "minted" BY <1>4, <2>1 DEF SaveSend, Idle
    <2>4. OutStep({}, 0)
      <3>1. CASE out' = out BY <1>1, <3>1, OutSame
      <3>2. CASE out' = [out EXCEPT ![busy.m].failed = TRUE]
        BY <1>1, <2>1, <3>2, OutWrite, Stamps, ZenonT(60)
      <3> QED BY <1>4, <3>1, <3>2 DEF SaveSend
    <2> QED BY <2>2, <2>3, <2>4, NoFrames, QuietFlow
  <1>5. CASE WireSend
    <2>1. busy.m \in Entries
      BY <1>1, <1>2, <1>5, BusyShape, Zenon DEF WireSend, Holding, EntryKept, Entries
    <2>2. /\ waiting' = waiting /\ draining' = draining /\ tasks' = tasks
          /\ used' = used /\ out' = out /\ UNCHANGED <<peerVars, acks>>
      BY <1>5, Zenon DEF WireSend, queueVars
    <2>a. PICK ready \in SUBSET Relays :
            busy' = [at |-> "wired", m |-> busy.m, sent |-> ready # {}]
      BY <1>5, Zenon DEF WireSend
    <2>b. busy'.at # "minted" BY <2>a, Zenon
    <2>3. Carries(busy.m, out[busy.m].ctr) BY <2>1, Zenon DEF Carries, InOut, Entries
    <2>4. \A m \in Msgs, n \in Nat : InBox(m, n)' => Carries(m, n)
      BY <1>5, <2>3, Copies, Zenon DEF WireSend
    <2> QED BY <1>1, <2>2, <2>b, <2>4, OutSame, QuietFlow
  <1>6. CASE FinishSend
    <2>1. /\ busy.m \in Entries /\ out[busy.m] \in EntryType /\ ~out[busy.m].relayed
          /\ busy.sent \in BOOLEAN
      BY <1>1, <1>2, <1>6, BusyShape DEF FinishSend, EntryKept, Entries, SenderTypes
    <2>2. /\ waiting' = waiting /\ draining' = draining /\ tasks' = tasks
          /\ used' = used /\ UNCHANGED <<peerVars, acks>>
          /\ busy'.at # "minted"
      BY <1>6 DEF FinishSend, Idle
    <2>3. OutStep({}, 0)
      <3>1. out' = [out EXCEPT ![busy.m] = [out[busy.m] EXCEPT !.relayed = busy.sent]]
        BY <1>6 DEF FinishSend
      <3>2. /\ Ahead(out[busy.m], [out[busy.m] EXCEPT !.relayed = busy.sent])
            /\ [out[busy.m] EXCEPT !.relayed = busy.sent].delivered
                  = out[busy.m].delivered
        BY <2>1, Stamps, Zenon
      <3> QED BY <1>1, <2>1, <3>1, <3>2, OutWrite, Zenon
    <2>4. \A m \in Msgs, n \in Nat : InBox(m, n)' => Carries(m, n)
      <3>1. CASE NotSent BY <3>1, NoFrames DEF NotSent, wireVars
      <3>2. CASE \E ready : sendSealedToRelays(NoMsg, ctr, chain.id, chain.next, ready)
        BY <3>2, Copies, Zenon
      <3> QED
        BY <1>6, <3>1, <3>2
        DEF FinishSend, maybeRequestProactiveChainRotation, sendChainRefreshRequest
    <2> QED BY <2>2, <2>3, <2>4, QuietFlow
  <1> QED BY <1>3, <1>4, <1>5, <1>6

\* A text begins, or begins anew.
LEMMA SendFlow ==
  ASSUME FlowInv, NEW m \in Chats, NEW ready, busy = Idle, send(m, ready),
         NEW d \in Seq(Chats), draining' = d, Once(waiting, d),
         Members(waiting, d) \subseteq Queued \ {m}, m \in Queued \/ m \notin used,
         tasks' = tasks, box' = box, OutStep({}, 0), UNCHANGED <<peerVars, acks>>
  PROVE  Flows
  <1>1. SenderTypes /\ QueueInv /\ m \in Msgs
    BY TypeParts, Zenon DEF FlowInv, ShapeInv, Msgs
  <1>2. waiting \in Seq(Chats) BY <1>1, Zenon DEF SenderTypes
  <1>3. used' = used \cup {m} BY Zenon DEF send
  <1>4. m \in Unsealed /\ Queued \subseteq Unsealed BY <1>1, Zenon DEF Unsealed
  <1>5. Msgs \ used \subseteq Unsealed BY Zenon DEF Unsealed
  <1>6. QueueInv' /\ Unsealed' \subseteq Unsealed
    <2>1. CASE UNCHANGED <<waiting, busy>>
      <3>1. Queued' = Members(waiting, d) BY <2>1, Zenon DEF Queued
      <3>2. busy'.at # "minted" BY <2>1, Zenon DEF Idle
      <3>3. QueueInv' BY <1>1, <1>3, <2>1, <3>1, <3>2 DEF QueueInv
      <3> QED BY <1>3, <1>4, <1>5, <3>1, <3>2, <3>3, Zenon DEF Unsealed
    <2>2. CASE /\ busy' = [at |-> "minted", m |-> m, c |-> chain.id, i |-> chain.next]
               /\ UNCHANGED waiting
      <3>1. Queued' = Members(waiting, d) BY <2>2, Zenon DEF Queued
      <3>2. busy'.at = "minted" /\ busy'.m = m BY <2>2, Zenon
      <3>3. QueueInv' BY <1>1, <1>3, <2>2, <3>1, <3>2 DEF QueueInv
      <3> QED BY <1>3, <1>4, <1>5, <3>1, <3>2, <3>3, Zenon DEF Unsealed
    <2>3. CASE waiting' = Append(waiting, m) /\ UNCHANGED busy
      <3>1. /\ Once(Append(waiting, m), d)
            /\ Members(Append(waiting, m), d) = Members(waiting, d) \cup {m}
        BY <1>2, QueueAdd
      <3>2. Queued' = Members(waiting, d) \cup {m} BY <2>3, <3>1, Zenon DEF Queued
      <3>3. busy'.at # "minted" BY <2>3, Zenon DEF Idle
      <3>4. QueueInv' BY <1>1, <1>3, <2>3, <3>1, <3>2, <3>3, Zenon DEF QueueInv
      <3> QED BY <1>3, <1>4, <1>5, <3>2, <3>3, <3>4, Zenon DEF Unsealed
    <2> QED BY <2>1, <2>2, <2>3 DEF send
  <1>7. \A k \in Msgs, n \in Nat : (InTask(k, n) \/ InBox(k, n))' => Carries(k, n)
    BY SameCarriers, Zenon DEF Carries
  <1>8. FlowMove({}, 0) BY <1>6, <1>7 DEF FlowMove, peerVars
  <1> QED BY <1>6, <1>8 DEF Flows

\* Compose, the texts that waited, and a text sent again.
LEMMA BeginFlow ==
  ASSUME FlowInv, NEW m, NEW n,
         Compose(m) \/ DrainNext \/ userTryAgainExpired(m, n)
  PROVE  Flows
  <1>1. SenderTypes /\ QueueInv /\ ShapeInv BY TypeParts DEF FlowInv, ShapeInv
  <1>2. waiting \in Seq(Chats) /\ draining \in Seq(Chats) BY <1>1, Zenon DEF SenderTypes
  <1>3. CASE Compose(m)
    <2>1. /\ m \in Chats /\ m \notin used /\ busy = Idle /\ send(m, Relays)
          /\ draining' = draining /\ tasks' = tasks /\ out' = out /\ box' = box
          /\ UNCHANGED <<peerVars, acks>>
      BY <1>3 DEF Compose, Free, NotSent, wireVars
    <2>2. Once(waiting, draining) /\ Members(waiting, draining) \subseteq Queued \ {m}
      BY <1>1, <2>1, Zenon DEF QueueInv, Queued
    <2>3. OutStep({}, 0) BY <1>1, <2>1, OutSame, Zenon
    <2> QED BY <1>2, <2>1, <2>2, <2>3, SendFlow, Zenon
  <1>4. CASE DrainNext
    <2>1. PICK ready \in SUBSET Relays : send(Head(draining), ready)
      BY <1>4, Zenon DEF DrainNext
    <2>2. /\ Head(draining) \in Chats /\ Tail(draining) \in Seq(Chats) /\ busy = Idle
          /\ draining' = Tail(draining) /\ tasks' = tasks /\ out' = out /\ box' = box
          /\ draining # <<>> /\ UNCHANGED <<peerVars, acks>>
      BY <1>2, <1>4 DEF DrainNext, NotSent, wireVars
    <2>3. /\ Once(waiting, Tail(draining)) /\ Head(draining) \in Queued
          /\ Members(waiting, Tail(draining)) = Queued \ {Head(draining)}
      BY <1>1, <1>2, <2>2, QueuePop, Zenon DEF QueueInv, Queued
    <2>4. OutStep({}, 0) BY <1>1, <2>2, OutSame
    <2> QED BY <2>1, <2>2, <2>3, <2>4, SendFlow, Zenon
  <1>5. CASE userTryAgainExpired(m, n)
    <2>1. PICK ready \in SUBSET Relays : send(n, ready)
      BY <1>5, Zenon DEF userTryAgainExpired
    <2>2. /\ n \in Chats /\ n \notin used /\ busy = Idle
          /\ draining' = draining /\ tasks' = tasks /\ box' = box
          /\ out' = [out EXCEPT ![m] = NoEntry]
          /\ UNCHANGED <<peerVars, acks>>
      BY <1>5, Zenon DEF userTryAgainExpired, Free, NotSent, wireVars
    <2>3. Once(waiting, draining) /\ Members(waiting, draining) \subseteq Queued \ {n}
      BY <1>1, <2>2, Zenon DEF QueueInv, Queued
    <2>4. OutStep({}, 0)
      <3>1. out \in [Msgs -> EntryType \cup {NoEntry}] BY <1>1, Zenon DEF SenderTypes
      <3>2. \A k \in Msgs : out'[k] # NoEntry => out'[k] = out[k] /\ out[k] \in EntryType
        BY <2>2, <3>1
      <3> QED BY <3>2, AheadSame, Zenon DEF OutStep
    <2> QED BY <1>2, <2>1, <2>2, <2>3, <2>4, SendFlow, Zenon
  <1> QED BY <1>3, <1>4, <1>5

\* The walk over the outbox.
LEMMA WalkFlow ==
  ASSUME FlowInv, NEW late, NEW m, WalkBegin(late) \/ WalkRetry(m) \/ WalkEnd
  PROVE  Flows
  <1>1. SenderTypes /\ BusyTypes /\ EntryKept /\ ShapeInv
    BY TypeParts DEF FlowInv, ShapeInv
  <1>2. /\ waiting' = waiting /\ draining' = draining /\ tasks' = tasks
        /\ used' = used /\ UNCHANGED <<peerVars, acks>>
    BY DEF WalkBegin, WalkRetry, WalkEnd, queueVars
  <1>3. out \in [Msgs -> EntryType \cup {NoEntry}] BY <1>1, Zenon DEF SenderTypes
  <1>4. CASE WalkBegin(late)
    <2>1. busy'.at # "minted" /\ box' = box BY <1>4 DEF WalkBegin, NotSent, wireVars
    <2>2. /\ late \subseteq Entries
          /\ out' = [k \in Msgs |-> IF k \in late
                       THEN [out[k] EXCEPT !.failed = TRUE] ELSE out[k]]
      BY <1>4, ZenonT(60) DEF WalkBegin
    <2>3. OutStep({}, 0)
      <3>1. ASSUME NEW k \in Msgs, out'[k] # NoEntry
            PROVE  /\ out[k] # NoEntry /\ Ahead(out[k], out'[k])
                   /\ out'[k].delivered => out[k].delivered
        <4>1. CASE k \in late
          BY <1>3, <2>2, <4>1, Stamps, Zenon DEF Entries
        <4>2. CASE k \notin late
          BY <1>3, <2>2, <3>1, <4>2, AheadSame
        <4> QED BY <4>1, <4>2, Zenon
      <3> QED BY <3>1 DEF OutStep
    <2> QED BY <1>2, <2>1, <2>3, NoFrames, QuietFlow
  <1>5. CASE WalkRetry(m)
    <2>1. busy \in [at : {"walk"}, due : SUBSET Msgs] /\ m \in busy.due
      BY <1>1, <1>5, BusyShape DEF WalkRetry
    <2>2. m \in Entries /\ out[m] \in EntryType
      BY <1>1, <1>3, <1>5, <2>1 DEF EntryKept, WalkRetry, Entries
    <2>3. busy'.at # "minted" BY <1>5, <2>1 DEF WalkRetry
    <2>4. OutStep({}, 0)
      <3>1. CASE out' = out BY <1>1, <3>1, OutSame
      <3>2. CASE out' = [out EXCEPT ![m].retries = @ + 1]
        <4>1. out' = [out EXCEPT ![m] = [out[m] EXCEPT !.retries = @ + 1]]
          BY <3>2
        <4>2. /\ Ahead(out[m], [out[m] EXCEPT !.retries = @ + 1])
              /\ [out[m] EXCEPT !.retries = @ + 1].delivered = out[m].delivered
          BY <2>2, Stamps, Zenon
        <4> QED BY <1>1, <2>2, <4>1, <4>2, OutWrite, Zenon
      <3> QED BY <1>5, <3>1, <3>2 DEF WalkRetry
    <2>5. Carries(m, out[m].ctr) BY <2>2 DEF Carries, InOut, Entries
    <2>6. \A k \in Msgs, n \in Nat : InBox(k, n)' => Carries(k, n)
      <3>1. CASE NotSent BY <3>1, NoFrames DEF NotSent, wireVars
      <3>2. CASE \E ready : sendSealedToRelays(m, out[m].ctr, chain.id, chain.next, ready)
        BY <2>5, <3>2, Copies, ZenonT(60)
      <3> QED BY <1>5, <3>1, <3>2 DEF WalkRetry
    <2> QED BY <1>2, <2>3, <2>4, <2>6, QuietFlow, Zenon
  <1>6. CASE WalkEnd
    <2>1. busy'.at # "minted" /\ box' = box BY <1>6 DEF WalkEnd, NotSent, wireVars, Idle
    <2>2. \A k \in Msgs : out'[k] # NoEntry => out'[k] = out[k] /\ out[k] \in EntryType
      BY <1>3, <1>6, ZenonT(60) DEF WalkEnd
    <2>3. OutStep({}, 0) BY <2>2, AheadSame DEF OutStep
    <2> QED BY <1>2, <2>1, <2>3, NoFrames, QuietFlow
  <1> QED BY <1>4, <1>5, <1>6

\* The user's retry, an ACK, a new chain, and the end of the sender's app.
LEMMA OtherFlow ==
  ASSUME FlowInv, NEW m, NEW l, NEW reg,
         \/ l \in tasks /\ LegFires(l)
         \/ userRetry(m) \/ handleAckPayload(m)
         \/ handleChainSeedDelivery(reg) \/ SenderRestarts
  PROVE  Flows
  <1>1. SenderTypes /\ BusyTypes /\ EntryKept /\ ShapeInv /\ QueueInv
    BY TypeParts, Zenon DEF FlowInv, ShapeInv
  <1>2. out \in [Msgs -> EntryType \cup {NoEntry}] BY <1>1, Zenon DEF SenderTypes
  <1>3. CASE l \in tasks /\ LegFires(l)
    <2>1. /\ waiting' = waiting /\ draining' = draining /\ tasks' \subseteq tasks
          /\ used' = used /\ busy'.at # "minted" /\ UNCHANGED <<peerVars, acks>>
      BY <1>3 DEF LegFires, Free, Idle
    <2>2. PICK ready \in SUBSET Relays :
            /\ sendSealedToRelays(l.m, l.ctr, l.c, l.i, ready)
            /\ out' = IF ready # {} /\ l.m \in Entries
                      THEN [out EXCEPT ![l.m].relayed = TRUE] ELSE out
      BY <1>3 DEF LegFires
    <2>3. Carries(l.m, l.ctr) BY <1>3 DEF Carries, InTask
    <2>4. \A k \in Msgs, n \in Nat : InBox(k, n)' => Carries(k, n)
      BY <2>2, <2>3, Copies
    <2>5. OutStep({}, 0)
      <3>1. CASE out' = out BY <1>1, <3>1, OutSame
      <3>2. CASE l.m \in Entries /\ out' = [out EXCEPT ![l.m].relayed = TRUE]
        <4>1. out[l.m] \in EntryType BY <1>2, <3>2 DEF Entries
        <4>2. /\ Ahead(out[l.m], [out[l.m] EXCEPT !.relayed = TRUE])
              /\ [out[l.m] EXCEPT !.relayed = TRUE].delivered = out[l.m].delivered
          BY <4>1, Stamps, Zenon
        <4> QED BY <1>1, <3>2, <4>2, OutWrite, Zenon
      <3> QED BY <2>2, <3>1, <3>2
    <2> QED BY <2>1, <2>4, <2>5, QuietFlow
  <1>4. CASE userRetry(m)
    <2>1. /\ waiting' = waiting /\ draining' = draining /\ tasks' = tasks
          /\ used' = used /\ busy'.at # "minted" /\ UNCHANGED <<peerVars, acks>>
      BY <1>4, Zenon DEF userRetry, Free, Idle, queueVars
    <2>2. m \in Entries /\ out[m] \in EntryType /\ ~out[m].relayed
      BY <1>2, <1>4, Zenon DEF userRetry, Entries
    <2>3. PICK ready \in SUBSET Relays :
            /\ sendSealedToRelays(m, out[m].ctr, chain.id, chain.next, ready)
            /\ out' = [out EXCEPT ![m] = Retried(@, ready # {})]
      BY <1>4, Zenon DEF userRetry
    <2>4. Carries(m, out[m].ctr) BY <2>2, Zenon DEF Carries, InOut, Entries
    <2>5. \A k \in Msgs, n \in Nat : InBox(k, n)' => Carries(k, n)
      BY <2>3, <2>4, Copies
    <2>6. /\ Ahead(out[m], Retried(out[m], ready # {}))
          /\ Retried(out[m], ready # {}).delivered = out[m].delivered
      BY <2>2, Stamps, RetriedType, Zenon
    <2>7. out' = [out EXCEPT ![m] = Retried(out[m], ready # {})] BY <2>3, Zenon
    <2>8. OutStep({}, 0) BY <1>1, <2>2, <2>6, <2>7, OutWrite
    <2> QED BY <2>1, <2>5, <2>8, QuietFlow
  <1>5. CASE handleAckPayload(m)
    <2>1. /\ waiting' = waiting /\ draining' = draining /\ tasks' = tasks
          /\ used' = used /\ busy'.at # "minted" /\ UNCHANGED peerVars
          /\ acks' \subseteq acks /\ m \in acks /\ box' = box
          /\ out' = IF m \in Entries THEN [out EXCEPT ![m].delivered = TRUE] ELSE out
      BY <1>5 DEF handleAckPayload, Free, Idle, queueVars, NotSent, wireVars
    <2>2. OutStep({}, 0)
      <3>1. CASE out' = out BY <1>1, <3>1, OutSame
      <3>2. CASE m \in Entries /\ out' = [out EXCEPT ![m].delivered = TRUE]
        <4>1. Ahead(out[m], [out[m] EXCEPT !.delivered = TRUE])
          BY <1>2, <3>2, Stamps, Zenon DEF Entries
        <4> QED BY <1>1, <2>1, <3>2, <4>1, OutWrite, Zenon
      <3> QED BY <2>1, <3>1, <3>2
    <2>3. QueueInv' /\ Unsealed' \subseteq Unsealed BY <1>1, <2>1, QuietQueue
    <2>4. \A k \in Msgs, n \in Nat : (InTask(k, n) \/ InBox(k, n))' => Carries(k, n)
      BY <2>1, SameCarriers DEF Carries
    <2>5. FlowMove({}, 0) BY <2>1, <2>2, <2>3, <2>4 DEF FlowMove, peerVars
    <2> QED BY <2>3, <2>5 DEF Flows
  <1>6. CASE handleChainSeedDelivery(reg)
    <2>1. /\ draining = <<>> /\ draining' = waiting /\ waiting' = <<>> /\ tasks' = tasks
          /\ used' = used /\ out' = out /\ box' = box /\ busy'.at # "minted"
          /\ UNCHANGED <<peerVars, acks>>
      BY <1>6, Zenon DEF handleChainSeedDelivery, Free, Idle
    <2>2. waiting \in Seq(Chats) /\ Once(waiting, <<>>) /\ Queued = Members(waiting, <<>>)
      BY <1>1, <2>1, Zenon DEF SenderTypes, QueueInv, Queued
    <2>3. Once(<<>>, waiting) /\ Members(<<>>, waiting) = Members(waiting, <<>>)
      BY <2>2, QueueTurn, Zenon
    <2>4. Queued' = Queued /\ Once(waiting', draining')
      BY <2>1, <2>2, <2>3, Zenon DEF Queued
    <2>5. QueueInv' /\ Unsealed' \subseteq Unsealed
      BY <1>1, <2>1, <2>4, Zenon DEF QueueInv, Unsealed
    <2>6. \A k \in Msgs, n \in Nat : (InTask(k, n) \/ InBox(k, n))' => Carries(k, n)
      BY <2>1, SameCarriers DEF Carries
    <2>7. OutStep({}, 0) BY <1>1, <2>1, OutSame, Zenon
    <2>8. FlowMove({}, 0) BY <2>1, <2>5, <2>6, <2>7, Zenon DEF FlowMove, peerVars
    <2> QED BY <2>5, <2>8 DEF Flows
  <1>7. CASE SenderRestarts
    <2>1. /\ draining' = <<>> /\ waiting' = <<>> /\ tasks' \subseteq tasks
          /\ used' = used /\ out' = out /\ box' = box /\ busy'.at # "minted"
          /\ UNCHANGED <<peerVars, acks>>
      BY <1>7 DEF SenderRestarts, Idle, wireVars
    <2>2. Queued' = {} /\ Once(waiting', draining') BY <2>1, QueueNone, Zenon DEF Queued
    <2>3. QueueInv' /\ Unsealed' \subseteq Unsealed
      BY <2>1, <2>2, Zenon DEF QueueInv, Unsealed
    <2>4. \A k \in Msgs, n \in Nat : (InTask(k, n) \/ InBox(k, n))' => Carries(k, n)
      BY <2>1, SameCarriers DEF Carries
    <2>5. OutStep({}, 0) BY <1>1, <2>1, OutSame, Zenon
    <2>6. FlowMove({}, 0) BY <2>1, <2>3, <2>4, <2>5, ZenonT(60) DEF FlowMove, peerVars
    <2> QED BY <2>3, <2>6 DEF Flows
  <1> QED BY <1>3, <1>4, <1>5, <1>6, <1>7

\* A leg is sealed, or left out.
LEMMA GroupFlow ==
  ASSUME FlowInv, NEW m \in Legs, sendGroupMessage(m)
  PROVE  Flows
  <1>1. SenderTypes /\ ShapeInv /\ QueueInv /\ m \in Msgs
    BY TypeParts, Zenon DEF FlowInv, ShapeInv, Msgs
  <1>2. /\ waiting' = waiting /\ draining' = draining /\ used' = used \cup {m}
        /\ m \notin used /\ box' = box /\ busy'.at # "minted"
        /\ UNCHANGED <<peerVars, acks>>
    BY Zenon DEF sendGroupMessage, Free, Idle, NotSent, wireVars
  <1>3. CASE out' = out /\ tasks' = tasks
    BY <1>1, <1>2, <1>3, OutSame, NoFrames, QuietFlow, Zenon
  <1>4. CASE /\ out' = [out EXCEPT ![m] = NewEntry(ctr)]
             /\ tasks' = tasks \cup
                  {[m |-> m, c |-> chain.id, i |-> chain.next, ctr |-> ctr]}
    <2>1. /\ QueueInv' /\ Unsealed' \subseteq Unsealed
          /\ \A x \in used' \ Queued : x \notin Unsealed'
      BY <1>1, <1>2, QuietQueue, Zenon
    <2>2. m \in Unsealed /\ m \in used' \ Queued
      BY <1>1, <1>2, Zenon DEF Unsealed, QueueInv
    <2>3. OutStep({m}, ctr) BY <1>1, <1>4, OutNew, Zenon
    <2>4. \A k, n : InTask(k, n)' => InTask(k, n) \/ (k = m /\ n = ctr)
      BY ONLY <1>4 DEF InTask
    <2>5. \A k, n : InBox(k, n)' => InBox(k, n) BY <1>2, SameCarriers
    <2>6. \A k \in Msgs, n \in Nat :
            (InTask(k, n) \/ InBox(k, n))' => Carries(k, n) \/ (k \in {m} /\ n = ctr)
      BY <2>4, <2>5, Zenon DEF Carries
    <2>7. FlowMove({m}, ctr)
      BY <1>2, <2>1, <2>2, <2>3, <2>6, Zenon DEF FlowMove, peerVars
    <2> QED BY <1>1, <2>1, <2>7 DEF Flows, SenderTypes
  <1> QED BY <1>3, <1>4 DEF sendGroupMessage, SealLeg

\* A receipt is sealed and sent in one handler.
LEMMA AckFlow ==
  ASSUME FlowInv, NEW m \in Acks, emitAck(m)
  PROVE  Flows
  <1>1. SenderTypes /\ ShapeInv /\ QueueInv /\ m \in Msgs
    BY TypeParts DEF FlowInv, ShapeInv, Msgs
  <1>2. /\ waiting' = waiting /\ draining' = draining /\ used' = used \cup {m}
        /\ m \notin used /\ busy'.at # "minted" /\ out' = out /\ tasks' = tasks
        /\ UNCHANGED <<peerVars, acks>>
    BY Zenon DEF emitAck, Free, Idle
  <1>3. CASE NotSent
    <2>1. box' = box BY <1>3 DEF NotSent, wireVars
    <2> QED BY <1>1, <1>2, <2>1, OutSame, NoFrames, QuietFlow, Zenon
  <1>4. CASE \E ready : sendSealedToRelays(m, ctr, chain.id, chain.next, ready)
    <2>1. /\ QueueInv' /\ Unsealed' \subseteq Unsealed
          /\ \A x \in used' \ Queued : x \notin Unsealed'
      BY <1>1, <1>2, QuietQueue, Zenon
    <2>2. m \in Unsealed /\ m \in used' \ Queued
      BY <1>1, <1>2 DEF Unsealed, QueueInv
    <2>3. OutStep({m}, ctr)
      <3>1. OutStep({}, ctr) BY <1>1, <1>2, OutSame, Zenon
      <3> QED BY <3>1, Zenon DEF OutStep
    <2>4. \A k, n : InTask(k, n)' => InTask(k, n) BY <1>2, SameCarriers, Zenon
    <2>5. \A k, n : InBox(k, n)' => InBox(k, n) \/ (k = m /\ n = ctr)
      BY <1>4, FanOutCarries
    <2>6. \A k \in Msgs, n \in Nat :
            (InTask(k, n) \/ InBox(k, n))' => Carries(k, n) \/ (k \in {m} /\ n = ctr)
      BY <2>4, <2>5, Zenon DEF Carries
    <2>7. FlowMove({m}, ctr)
      BY <1>2, <2>1, <2>2, <2>3, <2>6, Zenon DEF FlowMove, peerVars
    <2> QED BY <1>1, <2>1, <2>7, Zenon DEF Flows, SenderTypes
  <1> QED BY <1>3, <1>4, Zenon DEF emitAck

---------------------------------------------------------------------------
(* The recipient. *)

\* What its steps leave alone.
LEMMA SenderSame ==
  ASSUME UNCHANGED senderVars
  PROVE  /\ Unsealed' = Unsealed /\ (QueueInv' <=> QueueInv)
         /\ \A m, n : InOut(m, n)' <=> InOut(m, n)
         /\ \A m, n : InTask(m, n)' <=> InTask(m, n)
         /\ out' = out
  BY Zenon DEF senderVars, queueVars, Unsealed, QueueInv, Queued, InOut, InTask

\* A frame is opened: a message is shown only under a counter that the saved
\* ratchet does not know, and its copies have no other.
LEMMA OpenFlow ==
  ASSUME FlowInv, ShapeInv', NEW r \in Relays, NEW f, handleSealedFrame(r, f)
  PROVE  FlowInv' /\ out' = out
  <1>1. WireTypes /\ PeerTypes /\ SenderTypes /\ BusyTypes
    BY TypeParts, Zenon DEF FlowInv, ShapeInv
  <1>2. UNCHANGED senderVars /\ f \in box[r] /\ box' = [box EXCEPT ![r] = @ \ {f}]
    BY DEF handleSealedFrame
  <1>3. /\ Unsealed' = Unsealed /\ QueueInv' /\ out' = out
        /\ \A m, n : InOut(m, n)' <=> InOut(m, n)
        /\ \A m, n : InTask(m, n)' <=> InTask(m, n)
    BY <1>2, SenderSame, Zenon DEF FlowInv
  <1>4. \A m, n : InBox(m, n)' => InBox(m, n) BY <1>1, <1>2, Zenon DEF InBox, WireTypes
  <1>5. \A m, n : Carries(m, n)' => Carries(m, n) BY <1>3, <1>4, Zenon DEF Carries
  <1>6. /\ f \in [m : Msgs \cup {NoMsg}, ctr : Nat] /\ f.ctr \in Nat
        /\ f = [m |-> f.m, ctr |-> f.ctr]
    BY ONLY <1>1, <1>2 DEF WireTypes
  <1>7. Carries(f.m, f.ctr) BY <1>2, <1>6, Zenon DEF Carries, InBox
  <1>8. Unsealed \subseteq Msgs
    <2>1. Queued \subseteq Msgs BY ONLY <1>1 DEF SenderTypes, Queued, Members, Msgs
    <2>2. busy.at = "minted" => busy.m \in Msgs BY <1>1, BusyShape DEF Holding, Msgs
    <2> QED BY <2>1, <2>2, ZenonT(60) DEF Unsealed
  <1>9. f.m \notin Unsealed BY <1>6, <1>7, Zenon DEF FlowInv, SealInv
  <1>10. /\ \A m \in Unsealed, n \in Nat : ~Carries(m, n)'
         /\ \A m \in Msgs : \A j, k \in Nat : Carries(m, j)' /\ Carries(m, k)' => j = k
    BY <1>5, <1>8, Zenon DEF FlowInv, SealInv
  <1>11. seen' = seen \cup {f.ctr} BY Zenon DEF handleSealedFrame
  <1>12. savedSeen \subseteq seen BY DEF FlowInv, ShownInv
  <1>13. CASE UNCHANGED <<shown, acks, unsaved>> /\ savedSeen' = seen'
    <2>1. SealInv' BY <1>3, <1>10, <1>13, Zenon DEF FlowInv, SealInv
    <2>2. savedSeen \subseteq savedSeen' BY <1>11, <1>12, <1>13
    <2>3. ShownInv' BY <1>5, <1>13, <2>2, Zenon DEF FlowInv, ShownInv
    <2>4. AckInv'
      BY <1>3, <1>13, Zenon DEF FlowInv, AckInv, DeliveredWasShown, Entries
    <2> QED BY <1>3, <2>1, <2>3, <2>4, Zenon DEF FlowInv
  <1>14. CASE /\ ~isDuplicate(f) /\ f.m \in Chats \cup Legs
              /\ shown' = [shown EXCEPT ![f.m] = @ + 1]
              /\ acks' \subseteq acks \cup {f.m}
              /\ \/ savedSeen' = seen' /\ UNCHANGED unsaved
                 \/ unsaved' = TRUE /\ UNCHANGED savedSeen
    <2>1. f.m \in Msgs BY <1>14, Zenon DEF Msgs
    <2>2. /\ \A m \in Msgs \ {f.m} : shown'[m] = shown[m]
          /\ shown'[f.m] = shown[f.m] + 1 /\ shown[f.m] \in Nat
      BY <1>1, <1>14, <2>1 DEF PeerTypes
    <2>3. SealInv' BY <1>3, <1>8, <1>9, <1>10, <2>2, Zenon DEF FlowInv, SealInv
    <2>4. AckInv'
      <3>a. shown'[f.m] > 0 BY ONLY <2>2
      <3>b. /\ \A m \in acks : m \in Msgs /\ shown[m] > 0
            /\ DeliveredWasShown
        BY <1>1, Zenon DEF FlowInv, AckInv, PeerTypes, Msgs
      <3>1. \A m \in acks' : shown'[m] > 0 BY <1>14, <2>2, <3>a, <3>b, Zenon
      <3>2. DeliveredWasShown'
        BY <1>3, <2>2, <3>a, <3>b, Zenon DEF DeliveredWasShown, Entries
      <3> QED BY <3>1, <3>2, Zenon DEF AckInv
    <2>5. ShownInv'
      <3>1. savedSeen' \subseteq seen' BY <1>11, <1>12, <1>14, Zenon
      <3>2. ASSUME ~unsaved' PROVE savedSeen' = seen' /\ ~unsaved
        BY <1>14, <3>2
      <3>3. ASSUME ~unsaved', NEW m \in Msgs
            PROVE  /\ shown'[m] <= 1
                   /\ shown'[m] = 1 => \A n \in Nat : Carries(m, n)' => n \in savedSeen'
        <4>1. f.ctr \notin savedSeen BY <1>12, <1>14 DEF isDuplicate
        <4>2. shown[f.m] # 1 /\ shown[f.m] <= 1
          BY <1>6, <1>7, <2>1, <3>2, <3>3, <4>1, Zenon DEF FlowInv, ShownInv
        <4>3. CASE m = f.m
          <5>1. shown'[m] = 1 BY ONLY <2>2, <4>2, <4>3
          <5>2. ASSUME NEW n \in Nat, Carries(m, n)' PROVE n = f.ctr
            BY <1>5, <1>6, <1>7, <2>1, <4>3, <5>2, Zenon DEF FlowInv, SealInv
          <5> QED BY ONLY <1>11, <3>2, <3>3, <5>1, <5>2
        <4>4. CASE m # f.m
          BY <1>5, <1>11, <1>12, <2>2, <3>2, <3>3, <4>4, Zenon DEF FlowInv, ShownInv
        <4> QED BY <4>3, <4>4, Zenon
      <3> QED BY <3>1, <3>3, Zenon DEF ShownInv
    <2> QED BY <1>3, <2>3, <2>4, <2>5 DEF FlowInv
  <1> QED BY <1>13, <1>14, Zenon DEF handleSealedFrame, handleChatPayload

\* A relay loses a frame, the recipient's app ends, or nothing happens.
LEMMA LossFlow ==
  ASSUME FlowInv, ShapeInv', NEW r, NEW f,
         (r \in Relays /\ RelayLoses(r, f)) \/ RecipientRestarts \/ UNCHANGED vars
  PROVE  FlowInv' /\ out' = out
  <1>1. WireTypes /\ PeerTypes /\ SenderTypes /\ BusyTypes
    BY TypeParts DEF FlowInv, ShapeInv
  <1>2. /\ UNCHANGED <<senderVars, savedSeen, shown, unsaved, acks>>
        /\ seen' \in {seen, savedSeen}
    BY Zenon DEF RelayLoses, RecipientRestarts, vars, peerVars
  <1>3. /\ Unsealed' = Unsealed /\ QueueInv' /\ out' = out
        /\ \A m, n : InOut(m, n)' <=> InOut(m, n)
        /\ \A m, n : InTask(m, n)' <=> InTask(m, n)
    BY <1>2, SenderSame, Zenon DEF FlowInv
  <1>4. \A m, n : InBox(m, n)' => InBox(m, n)
    BY <1>1, SameCarriers, Zenon
    DEF RelayLoses, RecipientRestarts, vars, wireVars, InBox, WireTypes
  <1>5. \A m, n : Carries(m, n)' => Carries(m, n) BY <1>3, <1>4 DEF Carries
  <1>6. Unsealed \subseteq Msgs
    <2>1. Queued \subseteq Msgs BY ONLY <1>1 DEF SenderTypes, Queued, Members, Msgs
    <2>2. busy.at = "minted" => busy.m \in Msgs BY <1>1, BusyShape, Zenon DEF Holding, Msgs
    <2> QED BY <2>1, <2>2, ZenonT(60) DEF Unsealed
  <1>7. SealInv' BY <1>2, <1>3, <1>5, Zenon DEF FlowInv, SealInv
  <1>8. ShownInv' BY <1>2, <1>5, ZenonT(60) DEF FlowInv, ShownInv
  <1>9. AckInv' BY <1>2, <1>3 DEF FlowInv, AckInv, DeliveredWasShown, Entries
  <1> QED BY <1>3, <1>7, <1>8, <1>9 DEF FlowInv

---------------------------------------------------------------------------
\* Every step keeps the invariant, and takes nothing back from an entry.
LEMMA FlowStep ==
  ASSUME FlowInv, [Next]_vars
  PROVE  /\ FlowInv'
         /\ \A m \in Entries : out'[m] # NoEntry => Ahead(out[m], out'[m])
  <1>1. ShapeInv' BY ShapeStep, ZenonT(60) DEF FlowInv
  <1>2. CASE Flows
    <2>1. PICK X \in SUBSET Msgs, n0 \in Nat : FlowMove(X, n0) BY <1>2 DEF Flows
    <2> QED BY <1>1, <1>2, <2>1, FlowKept DEF Flows
  <1>3. CASE FlowInv' /\ out' = out
    <2>1. \A m \in Entries : out[m] \in EntryType
      BY TypeParts, Zenon DEF FlowInv, ShapeInv, SenderTypes, Entries
    <2> QED BY <1>3, <2>1, AheadSame, Zenon
  <1>4. CASE Handler
    BY <1>2, <1>4, SendV2Flow, BeginFlow, WalkFlow, Zenon DEF Handler
  <1>5. CASE \/ \E m \in Chats : Compose(m)
             \/ \E m, n \in Chats : userTryAgainExpired(m, n)
             \/ \E late \in SUBSET Entries : WalkBegin(late)
    BY <1>2, <1>5, BeginFlow, WalkFlow, Zenon
  <1>6. CASE \/ \E m \in Legs : sendGroupMessage(m)
             \/ \E m \in Acks : emitAck(m)
    BY <1>2, <1>6, GroupFlow, AckFlow, Zenon
  <1>7. CASE \/ \E l \in tasks : LegFires(l)
             \/ \E m \in Msgs : userRetry(m)
             \/ \E m \in acks : handleAckPayload(m)
             \/ \E reg \in SUBSET Relays : handleChainSeedDelivery(reg)
             \/ SenderRestarts
    BY <1>2, <1>7, OtherFlow, Zenon
  <1>8. CASE \E r \in Relays : \E f \in box[r] : handleSealedFrame(r, f)
    BY <1>1, <1>3, <1>8, OpenFlow, ZenonT(60)
  <1>9. CASE \/ \E r \in Relays : \E f \in box[r] : RelayLoses(r, f)
             \/ RecipientRestarts \/ UNCHANGED vars
    BY <1>1, <1>3, <1>9, LossFlow
  <1> QED BY <1>4, <1>5, <1>6, <1>7, <1>8, <1>9, Zenon DEF Next

\* Nothing is sealed, shown or on the way at first.
LEMMA FlowInit ==
  ASSUME Init PROVE FlowInv
  <1>1. PICK k \in 0 .. Length, gone \in SUBSET Msgs : InitAt(k, gone) BY DEF Init
  <1>2. \A m, n : ~InTask(m, n) /\ ~InBox(m, n) BY <1>1, Zenon DEF InitAt, InTask, InBox
  <1>3. \A m \in Msgs : \A n : ~InOut(m, n) BY <1>1, Zenon DEF InitAt, InOut
  <1>4. Queued = {} /\ Once(waiting, draining) BY <1>1, QueueNone, Zenon DEF InitAt, Queued
  <1>5. busy.at # "minted" BY <1>1, Zenon DEF InitAt, Idle
  <1>6. QueueInv /\ Unsealed \subseteq Msgs
    BY <1>4, <1>5, Zenon DEF QueueInv, Unsealed
  <1>7. SealInv BY <1>1, <1>2, <1>3, <1>6, ZenonT(60) DEF SealInv, Carries, InitAt
  <1>8. ShownInv BY ONLY <1>1 DEF ShownInv, InitAt
  <1>9. AckInv BY <1>1 DEF AckInv, InitAt, DeliveredWasShown, Entries
  <1> QED BY <1>6, <1>7, <1>8, <1>9, ShapeInit, Zenon DEF FlowInv

\* The invariant, for any number of messages, relays, chains and faults.
LEMMA FlowInvariant == Spec => []FlowInv
  BY FlowInit, FlowStep, PTL DEF Spec

\* Two ticks are true: an entry is marked delivered (handleAckPayload) only
\* when the text is in the peer's chat log, whatever is retried, lost,
\* delivered twice or cut off.
THEOREM TicksAreTrue == Spec => []DeliveredWasShown
  <1>1. FlowInv => DeliveredWasShown BY DEF FlowInv, AckInv
  <1> QED BY <1>1, FlowInvariant, PTL

\* The peer's chat log has a message once (handleSealedFrame, isDuplicate),
\* however often it is retried and whichever relays deliver it, unless a
\* save of the peer's session failed: all copies have the counter of the one
\* sealing, and the saved ratchet knows it once the row is there.
THEOREM RowsAreSingle == Spec => []ShownOnce
  <1>1. FlowInv => ShownOnce BY DEF FlowInv, ShownInv, ShownOnce
  <1> QED BY <1>1, FlowInvariant, PTL

\* The writers of an outbox row never undo each other's stamps: sendV2 holds
\* the main actor from the first write of the row to the last, and no
\* message is sealed a second time.
THEOREM StampsStay == Spec => EntryOnlyAdvances
  <1>1. ASSUME FlowInv, [Next]_vars
        PROVE  [\A m \in Entries : out'[m] # NoEntry =>
                  /\ out[m].relayed => out'[m].relayed
                  /\ out[m].failed => out'[m].failed
                  /\ out[m].delivered => out'[m].delivered
                  /\ out[m].retries <= out'[m].retries]_vars
    BY <1>1, FlowStep, Zenon DEF Ahead
  <1> QED BY <1>1, FlowInvariant, PTL DEF Spec, EntryOnlyAdvances

=============================================================================
