------------------------- MODULE RelayTablesProofs -------------------------
(***************************************************************************)
(* Proofs about three of the relay's tables, for any peers, requests and   *)
(* limits: the push tokens (PushTokenStore), the bundle-request counters   *)
(* (BundleReqRate) and the chain-seed rates (ChainSeedRate).  The tables   *)
(* share no state, so each has its own inductive invariant.                *)
(***************************************************************************)
EXTENDS PushTokenStore, ChainSeedRate, BundleReqRate, FiniteSetTheorems,
        WellFoundedInduction, TLAPS

USE SMTT(20), ZenonT(20)

---------------------------------------------------------------------------
(* The push tokens *)

Record == [token : Tokens, ts : Nat]
Maps == [Peers -> Record \cup {None}]

TokenTypes ==
    /\ map \in Maps /\ file \in Maps /\ wish \in Maps
    /\ dirty \in BOOLEAN /\ up \in BOOLEAN
    /\ now \in Nat
    /\ fate \in [Peers -> {"new", "kept", "lost"}]

\* A wish that is not flushed yet is in memory, and marked.
NewIsMarked ==
    \A p \in Peers : fate[p] = "new" =>
        up /\ dirty /\ Fresh(map)[p] = Fresh(wish)[p]

\* The inductive invariant: what is kept needs what is new to be marked, for
\* an exit that has nothing marked writes nothing.
TokenInv == TokenTypes /\ NewIsMarked /\ LastWishHolds

---------------------------------------------------------------------------
(* Facts about Fresh. *)

\* purge_stale yields a map, and a second one changes nothing.
LEMMA FreshMap ==
  ASSUME NEW m \in Maps
  PROVE  Fresh(m) \in Maps /\ Fresh(Fresh(m)) = Fresh(m)
  BY DEF Fresh, Maps

\* What is stale stays stale.
LEMMA StaleStays ==
  ASSUME TokenTypes, Tick, NEW ts \in Nat, IsStale(ts)
  PROVE  IsStale(ts)'
  BY TokenAssumption DEF TokenTypes, Tick, IsStale, Cutoff

\* Maps that agree on a peer go on to do so as the clock runs.
LEMMA AgreeLater ==
  ASSUME TokenTypes, Tick, NEW m \in Maps, NEW n \in Maps,
         NEW p \in Peers, Fresh(m)[p] = Fresh(n)[p]
  PROVE  Fresh(m)'[p] = Fresh(n)'[p]
  <1> DEFINE Stale(k) == k[p] # None /\ IsStale(k[p].ts)
  <1>1. \A k \in Maps : Fresh(k)[p] = IF Stale(k) THEN None ELSE k[p]
    BY DEF Fresh
  <1>2. \A k \in Maps : Fresh(k)'[p] = IF Stale(k)' THEN None ELSE k[p]
    BY DEF Fresh
  <1>3. \A k \in Maps : Stale(k) => Stale(k)'
    <2> SUFFICES ASSUME NEW k \in Maps, Stale(k) PROVE Stale(k)' OBVIOUS
    <2>1. k[p].ts \in Nat BY TokenAssumption DEF Maps, Record
    <2> QED BY <2>1, StaleStays
  <1>4. Stale(m) => n[p] = None \/ Stale(n) BY <1>1
  <1>5. Stale(n) => m[p] = None \/ Stale(m) BY <1>1
  <1>6. CASE ~Stale(m) /\ ~Stale(n)
    <2>1. m[p] = n[p] BY <1>1, <1>6
    <2> QED BY <1>2, <2>1
  <1>7. CASE Stale(m) BY <1>2, <1>3, <1>4, <1>7
  <1>8. CASE Stale(n) BY <1>2, <1>3, <1>5, <1>8
  <1> QED BY <1>6, <1>7, <1>8

---------------------------------------------------------------------------
(* Types. *)

\* A relay that starts empty has the types.
LEMMA StartTypes ==
  ASSUME Init
  PROVE  TokenTypes
  BY Zenon DEF Init, Empty, TokenTypes, Maps

\* Every operation of the store keeps the types.
LEMMA StepTypes ==
  ASSUME TokenTypes, [Next]_vars
  PROVE  TokenTypes'
  <1> USE TokenAssumption, FreshMap DEF TokenTypes
  <1>1. ASSUME NEW p \in Peers, NEW t \in Tokens, Insert(p, t) PROVE TokenTypes'
    <2>1. [token |-> t, ts |-> now] \in Record BY DEF Record
    <2> QED BY <1>1, <2>1 DEF Insert, Maps
  <1>2. ASSUME NEW p \in Peers, Remove(p) PROVE TokenTypes'
    BY <1>2 DEF Remove, Maps
  <1>3. CASE GcExpired BY <1>3 DEF GcExpired
  <1>4. CASE Flush BY <1>4, Zenon DEF Flush, Settled
  <1>5. CASE Exit BY <1>5, Zenon DEF Exit, Settled, Empty, Maps
  <1>6. CASE Load BY <1>6 DEF Load
  <1>7. CASE Tick BY <1>7 DEF Tick
  <1>8. CASE UNCHANGED vars BY <1>8 DEF vars
  <1> QED BY <1>1, <1>2, <1>3, <1>4, <1>5, <1>6, <1>7, <1>8 DEF Next

---------------------------------------------------------------------------
(* The wishes. *)

\* Every operation keeps the last wish of each peer, and marks a map that differs
\* from its file.
LEMMA StepWishes ==
  ASSUME TokenInv, [Next]_vars
  PROVE  (NewIsMarked /\ LastWishHolds)'
  <1> USE TokenAssumption DEF TokenInv
  <1>1. ASSUME NEW p \in Peers, NEW t \in Tokens, Insert(p, t)
        PROVE  (NewIsMarked /\ LastWishHolds)'
    <2>1. map'[p] = wish'[p] BY <1>1 DEF Insert, TokenTypes, Maps
    <2>2. \A q \in Peers \ {p} : /\ map'[q] = map[q] /\ wish'[q] = wish[q]
                                 /\ fate'[q] = fate[q]
      BY <1>1 DEF Insert, TokenTypes, Maps
    <2>3. fate'[p] = "new" /\ dirty' /\ up /\ up' /\ UNCHANGED <<now, file>>
      BY <1>1 DEF Insert, TokenTypes
    <2> QED BY <2>1, <2>2, <2>3 DEF NewIsMarked, LastWishHolds, Fresh, IsStale, Cutoff
  <1>2. ASSUME NEW p \in Peers, Remove(p)
        PROVE  (NewIsMarked /\ LastWishHolds)'
    <2>1. map'[p] = None /\ wish'[p] = None
      BY <1>2 DEF Remove, TokenTypes, Maps
    <2>2. \A q \in Peers \ {p} : /\ map'[q] = map[q] /\ wish'[q] = wish[q]
                                 /\ fate'[q] = fate[q]
      BY <1>2 DEF Remove, TokenTypes, Maps
    <2>3. /\ up /\ up' /\ UNCHANGED <<now, file>>
          /\ dirty => dirty'
          /\ map[p] # None => dirty' /\ fate'[p] = "new"
          /\ map[p] = None => fate'[p] = fate[p]
      BY <1>2, Zenon DEF Remove, TokenTypes
    <2>4. map[p] = None => Fresh(map)[p] = None BY DEF Fresh
    <2> QED
      BY <2>1, <2>2, <2>3, <2>4
      DEF NewIsMarked, LastWishHolds, Fresh, IsStale, Cutoff
  <1>3. CASE GcExpired
    <2>1. /\ map' = Fresh(map) /\ Fresh(map)' = Fresh(map)
          /\ dirty => dirty'
          /\ UNCHANGED <<file, up, now, wish, fate>>
      BY <1>3, FreshMap DEF GcExpired, TokenTypes, Fresh, IsStale, Cutoff
    <2>2. Fresh(file)' = Fresh(file) /\ Fresh(wish)' = Fresh(wish)
      BY <2>1, Zenon DEF Fresh, IsStale, Cutoff
    <2> QED BY <2>1, <2>2 DEF NewIsMarked, LastWishHolds
  <1>4. CASE Flush
    <2>1. /\ file' = map /\ UNCHANGED <<map, up, now, wish>> /\ up
          /\ \A p \in Peers : fate'[p] = IF fate[p] = "new" THEN "kept" ELSE fate[p]
      BY <1>4 DEF Flush, Settled
    <2>2. /\ Fresh(map)' = Fresh(map) /\ Fresh(wish)' = Fresh(wish)
          /\ Fresh(file)' = Fresh(map)
      BY <2>1 DEF Fresh, IsStale, Cutoff
    <2> QED BY <2>1, <2>2 DEF NewIsMarked, LastWishHolds
  <1>5. CASE Exit
    <2>1. ~up' /\ up /\ UNCHANGED <<now, wish>> BY <1>5 DEF Exit
    <2>2. Fresh(wish)' = Fresh(wish) BY <2>1 DEF Fresh, IsStale, Cutoff
    <2>3. CASE file' = map /\ fate' = Settled("kept")
      <3>1. Fresh(file)' = Fresh(map) BY <2>1, <2>3 DEF Fresh, IsStale, Cutoff
      <3> QED BY <2>1, <2>2, <2>3, <3>1, Zenon DEF NewIsMarked, LastWishHolds, Settled
    <2>4. CASE file' = file /\ fate' = Settled("lost")
      <3>1. Fresh(file)' = Fresh(file) BY <2>1, <2>4 DEF Fresh, IsStale, Cutoff
      <3> QED BY <2>1, <2>2, <2>4, <3>1 DEF NewIsMarked, LastWishHolds, Settled
    <2> QED BY <1>5, <2>3, <2>4 DEF Exit
  <1>6. CASE Load
    <2>1. /\ ~up /\ map' = Fresh(file) /\ Fresh(map)' = Fresh(file)
          /\ UNCHANGED <<file, now, wish, fate>>
      BY <1>6, FreshMap DEF Load, TokenTypes, Fresh, IsStale, Cutoff
    <2>2. Fresh(file)' = Fresh(file) /\ Fresh(wish)' = Fresh(wish)
      BY <2>1, Zenon DEF Fresh, IsStale, Cutoff
    <2> QED BY <2>1, <2>2 DEF NewIsMarked, LastWishHolds
  <1>7. CASE Tick
    <2>1. UNCHANGED <<map, file, dirty, up, wish, fate>> BY <1>7 DEF Tick
    <2>2. PICK m \in Maps, f \in Maps, w \in Maps :
              m = map /\ f = file /\ w = wish
      BY Zenon DEF TokenTypes
    <2>3. /\ Fresh(map) = Fresh(m) /\ Fresh(map)' = Fresh(m)'
          /\ Fresh(file) = Fresh(f) /\ Fresh(file)' = Fresh(f)'
          /\ Fresh(wish) = Fresh(w) /\ Fresh(wish)' = Fresh(w)'
      BY <2>1, <2>2, Zenon DEF Fresh, IsStale
    <2>4. \A p \in Peers :
              /\ Fresh(m)[p] = Fresh(w)[p] => Fresh(m)'[p] = Fresh(w)'[p]
              /\ Fresh(f)[p] = Fresh(w)[p] => Fresh(f)'[p] = Fresh(w)'[p]
      BY <1>7, AgreeLater, Zenon
    <2> QED BY <2>1, <2>3, <2>4 DEF NewIsMarked, LastWishHolds
  <1>8. CASE UNCHANGED vars
    BY <1>8 DEF vars, NewIsMarked, LastWishHolds, Fresh, IsStale, Cutoff
  <1> QED BY <1>1, <1>2, <1>3, <1>4, <1>5, <1>6, <1>7, <1>8 DEF Next

\* LastWishHolds for every instance: a REGISTER_PUSH or DEREGISTER_PUSH that
\* was flushed survives any crash and reload, until it is stale.
THEOREM WishesHold == Spec => []LastWishHolds
  <1>1. Init => TokenInv
    <2> SUFFICES ASSUME Init PROVE TokenInv OBVIOUS
    <2>1. TokenTypes BY StartTypes
    <2> QED BY <2>1 DEF TokenInv, Init, NewIsMarked, LastWishHolds
  <1>2. TokenInv /\ [Next]_vars => TokenInv'
    BY StepTypes, StepWishes DEF TokenInv
  <1>3. TokenInv => LastWishHolds BY DEF TokenInv
  <1> QED BY <1>1, <1>2, <1>3, PTL DEF Spec

---------------------------------------------------------------------------
(* The refinement. *)

\* An empty map abstracts to an empty store.
LEMMA NoEntries == Entries(Empty) = {}
  BY Zenon DEF Entries, Fresh, Empty

\* One clock step: what leaves one map was stale, and leaves the other.
LEMMA EntriesAge ==
  ASSUME TokenTypes, Tick, NEW m \in Maps, NEW n \in Maps
  PROVE  /\ Entries(m)' \subseteq Entries(m)
         /\ (Entries(m) \ Entries(m)') \cap Entries(n)' = {}
  <1>1. \A k \in Maps : Entries(k) =
            {<<p, k[p]>> : p \in {q \in Peers : k[q] # None /\ ~IsStale(k[q].ts)}}
    BY Zenon DEF Entries, Fresh
  <1>2. \A k \in Maps : Entries(k)' =
            {<<p, k[p]>> : p \in {q \in Peers : k[q] # None /\ ~IsStale(k[q].ts)'}}
    BY Zenon DEF Entries, Fresh
  <1>3. \A k \in Maps, p \in Peers : k[p] # None /\ IsStale(k[p].ts) =>
            IsStale(k[p].ts)'
    <2> SUFFICES ASSUME NEW k \in Maps, NEW p \in Peers, k[p] # None,
                        IsStale(k[p].ts)
                 PROVE  IsStale(k[p].ts)'
      OBVIOUS
    <2>1. k[p].ts \in Nat BY TokenAssumption DEF Maps, Record
    <2> QED BY <2>1, StaleStays
  <1>4. Entries(m)' \subseteq Entries(m) BY <1>1, <1>2, <1>3
  <1>5. (Entries(m) \ Entries(m)') \cap Entries(n)' = {}
    <2> SUFFICES ASSUME NEW e \in Entries(m), e \in Entries(n)'
                 PROVE  e \in Entries(m)'
      OBVIOUS
    <2>1. PICK p \in Peers : m[p] # None /\ e = <<p, m[p]>> BY <1>1
    <2>2. PICK q \in Peers : n[q] # None /\ ~IsStale(n[q].ts)' /\ e = <<q, n[q]>>
      BY <1>2
    <2>3. p = q /\ m[p] = n[q] BY <2>1, <2>2
    <2> QED BY <1>2, <2>1, <2>2, <2>3
  <1> QED BY <1>4, <1>5

\* ImplementsDeferred for every instance: each operation of the push-token
\* store is a marked mutation, an expiry, a flush, an exit or a load of the
\* deferred store, or leaves it unchanged.
THEOREM TokensRefine == Spec => ImplementsDeferred
  <1>1. Init => TokenTypes /\ Deferred!Init
    BY StartTypes, NoEntries, Zenon DEF Init, Deferred!Init
  <1>2. TokenTypes /\ [Next]_vars => TokenTypes' BY StepTypes
  <1>3. TokenTypes /\ [Next]_vars => [Deferred!Next]_(Deferred!dvars)
    <2> SUFFICES ASSUME TokenTypes, [Next]_vars
                 PROVE  [Deferred!Next]_(Deferred!dvars)
      OBVIOUS
    <2> USE TokenAssumption
    <2>1. ASSUME NEW p \in Peers, NEW t \in Tokens, Insert(p, t)
          PROVE  Deferred!Mutate
      BY <2>1, Zenon DEF Insert, Deferred!Mutate, Entries, Fresh, IsStale, Cutoff
    <2>2. ASSUME NEW p \in Peers, Remove(p)
          PROVE  Deferred!Mutate \/ UNCHANGED Deferred!dvars
      <3>1. up /\ up' /\ UNCHANGED <<file, now>> BY <2>2 DEF Remove
      <3>2. Entries(file)' = Entries(file)
        BY ONLY <3>1 DEF Entries, Fresh, IsStale, Cutoff
      <3>3. CASE map[p] = None /\ ~dirty
        <4>1. map' = map /\ dirty' = dirty
          BY <2>2, <3>3 DEF Remove, TokenTypes, Maps
        <4> QED
          BY <3>1, <3>2, <4>1 DEF Deferred!dvars, Entries, Fresh, IsStale, Cutoff
      <3>4. CASE ~(map[p] = None /\ ~dirty)
        <4>1. dirty' = TRUE BY <2>2, <3>4, Zenon DEF Remove, TokenTypes
        <4> QED BY <3>1, <3>2, <4>1 DEF Deferred!Mutate
      <3> QED BY <3>3, <3>4
    <2>3. ASSUME GcExpired
          PROVE  Deferred!Mutate \/ UNCHANGED Deferred!dvars
      <3>1. up /\ up' = up /\ UNCHANGED <<file, now>> BY <2>3 DEF GcExpired
      <3>2. Entries(file)' = Entries(file)
        BY <3>1 DEF Entries, Fresh, IsStale, Cutoff
      <3>3. CASE dirty' = TRUE BY <3>1, <3>2, <3>3, Zenon DEF Deferred!Mutate
      <3>4. CASE dirty' # TRUE
        <4>1. map' = map /\ dirty' = dirty
          BY <2>3, <3>4, Zenon DEF GcExpired, TokenTypes
        <4> QED
          BY <3>1, <3>2, <4>1 DEF Deferred!dvars, Entries, Fresh, IsStale, Cutoff
      <3> QED BY <3>3, <3>4, Zenon
    <2>4. ASSUME Flush PROVE Deferred!Flush
      BY <2>4, Zenon DEF Flush, Deferred!Flush, Entries, Fresh, IsStale, Cutoff
    <2>5. ASSUME Exit PROVE Deferred!Exit
      <3>1. /\ up /\ map' = Empty /\ dirty' = FALSE /\ up' = FALSE /\ now' = now
            /\ file' = map \/ file' = file
        BY <2>5 DEF Exit
      <3>2. Entries(map)' = {} BY <3>1 DEF Entries, Fresh, Empty
      <3>3. Entries(file)' \in {Entries(file), Entries(map)}
        BY <3>1, Zenon DEF Entries, Fresh, IsStale, Cutoff
      <3> QED BY <3>1, <3>2, <3>3 DEF Deferred!Exit
    <2>6. ASSUME Load PROVE Deferred!Load
      <3>1. /\ ~up /\ map' = Fresh(file) /\ up' = TRUE
            /\ UNCHANGED <<file, dirty, now>>
        BY <2>6 DEF Load
      <3>2. Fresh(map)' = Fresh(file)
        BY <3>1, FreshMap, Zenon DEF TokenTypes, Fresh, IsStale, Cutoff
      <3>3. Entries(map)' = Entries(file) BY <3>2 DEF Entries
      <3>4. Entries(file)' = Entries(file)
        BY <3>1 DEF Entries, Fresh, IsStale, Cutoff
      <3> QED BY <3>1, <3>3, <3>4 DEF Deferred!Load
    <2>7. ASSUME Tick PROVE Deferred!Age
      <3>1. UNCHANGED <<map, file, dirty, up>> BY <2>7 DEF Tick
      <3>2. PICK m \in Maps, f \in Maps : m = map /\ f = file BY Zenon DEF TokenTypes
      <3>3. /\ Entries(map) = Entries(m) /\ Entries(map)' = Entries(m)'
            /\ Entries(file) = Entries(f) /\ Entries(file)' = Entries(f)'
        BY <3>1, <3>2 DEF Entries, Fresh
      <3>4. /\ Entries(m)' \subseteq Entries(m)
            /\ (Entries(m) \ Entries(m)') \cap Entries(f)' = {}
            /\ Entries(f)' \subseteq Entries(f)
            /\ (Entries(f) \ Entries(f)') \cap Entries(m)' = {}
        BY <2>7, EntriesAge, ZenonT(60)
      <3> QED BY <3>1, <3>3, <3>4 DEF Deferred!Age
    <2>8. ASSUME UNCHANGED vars PROVE UNCHANGED Deferred!dvars
      BY <2>8 DEF vars, Deferred!dvars, Entries, Fresh, IsStale, Cutoff
    <2> QED
      BY <2>1, <2>2, <2>3, <2>4, <2>5, <2>6, <2>7, <2>8 DEF Next, Deferred!Next
  <1> QED BY <1>1, <1>2, <1>3, PTL DEF Spec, ImplementsDeferred, Deferred!Spec

---------------------------------------------------------------------------
(* The bundle-request counters *)

Counters == [Recipients -> [Hours -> 0 .. CounterMax]]

BundleTypes ==
    /\ hour \in Hours
    /\ counts \in Counters /\ countsFile \in Counters
    /\ passed \in [Recipients -> [Hours -> Nat]]
    /\ countsDirty \in BOOLEAN /\ countsUp \in BOOLEAN
    /\ ~countsUp => ~countsDirty
    /\ bucket \in [Handlers -> Hours \cup {NoHour}]
    /\ \A x \in Handlers : bucket[x] # NoHour => ~IsStaleBucket(bucket[x])
    /\ losses \in Nat

\* What a count stands for of an hour's budget.
Charged(n) == IF n < Cap THEN n ELSE Cap

\* What was let through is paid for by the losses and by the count.
PaidBy(c, r, h) == passed[r][h] <= Cap * losses + Charged(c[r][h])

\* Stale buckets aside, the counts in memory pay, and so does the file once
\* nothing is marked.
Paid(r, h) ==
    /\ passed[r][h] <= Cap * losses + Cap
    /\ ~IsStaleBucket(h) =>
          /\ countsUp => PaidBy(counts, r, h)
          /\ ~countsDirty => PaidBy(countsFile, r, h)

BundleInv == BundleTypes /\ \A r \in Recipients, h \in Hours : Paid(r, h)

\* The budget of the losses is a number, and grows by one budget with each.
LEMMA Budgets ==
  ASSUME NEW n \in Nat
  PROVE  Cap * n \in Nat /\ Cap * (n + 1) = Cap * n + Cap /\ Cap * (1 + n) = Cap * n + Cap
  BY BundleAssumption

\* A count within its width charges at most a budget; one more request
\* within the cap charges one more, and no request charges less.
LEMMA Charges ==
  ASSUME NEW n \in 0 .. CounterMax
  PROVE  /\ Charged(n) \in 0 .. Cap
         /\ SaturatingAdd(n) \in 0 .. CounterMax
         /\ Charged(n) <= Charged(SaturatingAdd(n))
         /\ ~(SaturatingAdd(n) > Cap) => Charged(SaturatingAdd(n)) = Charged(n) + 1
  BY BundleAssumption DEF Charged, SaturatingAdd

\* An hour that was read is not stale, and dropping stale buckets keeps the
\* counters in their types and the others as they are.
LEMMA KeptCounts ==
  ASSUME BundleTypes, NEW c \in Counters
  PROVE  /\ Kept(c) \in Counters
         /\ \A r \in Recipients, h \in Hours : ~IsStaleBucket(h) => Kept(c)[r][h] = c[r][h]
         /\ ~IsStaleBucket(hour)
  <1>1. Kept(c) \in Counters BY BundleAssumption DEF Kept, Counters
  <1>2. \A r \in Recipients, h \in Hours : ~IsStaleBucket(h) => Kept(c)[r][h] = c[r][h]
    BY DEF Kept, Counters
  <1>3. ~IsStaleBucket(hour)
    BY BundleAssumption DEF BundleTypes, Hours, IsStaleBucket, CutoffHour
  <1> QED BY <1>1, <1>2, <1>3

\* A step that keeps the histories and the hour keeps the invariant when the
\* counts it leaves in memory and in the file are ones that pay.
LEMMA SettledKeeps ==
  ASSUME BundleInv, BundleTypes', UNCHANGED <<hour, passed, losses>>,
         NEW r \in Recipients, NEW h \in Hours,
         ~IsStaleBucket(h) =>
            /\ countsUp' => PaidBy(counts', r, h)
            /\ ~countsDirty' => PaidBy(countsFile', r, h)
  PROVE  Paid(r, h)'
  BY DEF BundleInv, Paid, PaidBy, IsStaleBucket, CutoffHour

\* A request that reads the hour.
LEMMA ReadKeeps ==
  ASSUME BundleInv, NEW x \in Handlers, ReadHour(x)
  PROVE  BundleInv'
  <1>1. /\ bucket' = [bucket EXCEPT ![x] = hour]
        /\ UNCHANGED <<hour, counts, countsFile, countsDirty, countsUp, passed, losses>>
    BY DEF ReadHour
  <1>2. ~IsStaleBucket(hour) BY KeptCounts DEF BundleInv, BundleTypes
  <1>3. BundleTypes'
    BY <1>1, <1>2, Zenon DEF BundleInv, BundleTypes, IsStaleBucket, CutoffHour
  <1>4. \A r \in Recipients, h \in Hours : Paid(r, h)'
    BY <1>1 DEF BundleInv, Paid, PaidBy, IsStaleBucket, CutoffHour
  <1> QED BY <1>3, <1>4 DEF BundleInv

\* A request that is counted: it passes only if its count pays for it.
LEMMA IncrementKeeps ==
  ASSUME BundleInv, NEW x \in Handlers, NEW s \in Recipients, Increment(x, s)
  PROVE  BundleInv'
  <1> DEFINE b == bucket[x]
             n == counts[s][b]
             count == SaturatingAdd(n)
  <1>1. /\ b # NoHour
        /\ counts' = [counts EXCEPT ![s][b] = count]
        /\ countsDirty' = TRUE
        /\ passed' = IF count > Cap THEN passed ELSE [passed EXCEPT ![s][b] = passed[s][b] + 1]
        /\ bucket' = [bucket EXCEPT ![x] = NoHour]
        /\ countsUp /\ UNCHANGED <<hour, countsFile, countsUp, losses>>
    BY DEF Increment
  <1>2. b \in Hours /\ ~IsStaleBucket(b) BY <1>1 DEF BundleInv, BundleTypes
  <1>3. n \in 0 .. CounterMax /\ passed[s][b] \in Nat /\ losses \in Nat
    BY <1>2, Zenon DEF BundleInv, BundleTypes, Counters
  <1>4. /\ Charged(n) \in 0 .. Cap /\ Charged(count) \in 0 .. Cap
        /\ count \in 0 .. CounterMax
        /\ Charged(n) <= Charged(count)
        /\ ~(count > Cap) => Charged(count) = Charged(n) + 1
    BY <1>3, Charges, Zenon
  <1> HIDE DEF b, n, count
  <1>5. BundleTypes'
    <2>1. counts' \in Counters BY <1>1, <1>2, <1>4, Zenon DEF BundleInv, BundleTypes, Counters
    <2>2. passed' \in [Recipients -> [Hours -> Nat]]
      BY <1>1, <1>2, <1>3 DEF BundleInv, BundleTypes
    <2> QED BY <1>1, <2>1, <2>2 DEF BundleInv, BundleTypes, IsStaleBucket, CutoffHour
  <1>6. ASSUME NEW r \in Recipients, NEW h \in Hours PROVE Paid(r, h)'
    <2>1. IsStaleBucket(h)' = IsStaleBucket(h) BY <1>1, Zenon DEF IsStaleBucket, CutoffHour
    <2>2. CASE r = s /\ h = b
      <3>1. counts'[r][h] = count /\ losses' = losses
        BY <1>1, <1>2, <2>2 DEF BundleInv, BundleTypes, Counters
      <3>2. passed'[r][h] = IF count > Cap THEN passed[s][b] ELSE passed[s][b] + 1
        BY <1>1, <1>2, <2>2 DEF BundleInv, BundleTypes
      <3>3. passed[s][b] <= Cap * losses + Charged(n)
        BY <1>1, <1>2 DEF BundleInv, Paid, PaidBy, n
      <3>4. Cap * losses \in Nat BY <1>3, Budgets, Zenon
      <3>5. passed'[r][h] <= Cap * losses + Charged(count)
        BY <1>3, <1>4, <3>2, <3>3, <3>4, BundleAssumption
      <3>6. passed'[r][h] \in Nat BY <1>3, <3>2
      <3>7. passed'[r][h] <= Cap * losses + Cap
        BY <1>4, <3>4, <3>5, <3>6, BundleAssumption
      <3> QED BY <1>1, <3>1, <3>5, <3>7 DEF Paid, PaidBy
    <2>3. CASE ~(r = s /\ h = b)
      <3>1. counts'[r][h] = counts[r][h] /\ passed'[r][h] = passed[r][h]
        BY <1>1, <1>2, <2>3 DEF BundleInv, BundleTypes, Counters
      <3> QED BY <1>1, <2>1, <3>1 DEF BundleInv, Paid, PaidBy
    <2> QED BY <2>2, <2>3
  <1> QED BY <1>5, <1>6 DEF BundleInv

\* The timer, the flush and the load leave the counts that matter as they are.
LEMMA StoreKeeps ==
  ASSUME BundleInv, GcStale \/ BundleFlush \/ BundleLoad
  PROVE  BundleInv'
  <1>1. UNCHANGED <<hour, bucket, passed, losses>> BY Zenon DEF GcStale, BundleFlush, BundleLoad
  <1>2. BundleTypes'
    BY <1>1, KeptCounts, Zenon DEF BundleInv, BundleTypes, GcStale, BundleFlush, BundleLoad,
       IsStaleBucket, CutoffHour
  <1>3. ASSUME NEW r \in Recipients, NEW h \in Hours PROVE Paid(r, h)'
    <2> SUFFICES ASSUME ~IsStaleBucket(h)
                 PROVE  /\ countsUp' => PaidBy(counts', r, h)
                        /\ ~countsDirty' => PaidBy(countsFile', r, h)
      BY <1>1, <1>2, SettledKeeps
    <2>1. /\ countsUp => PaidBy(counts, r, h)
          /\ ~countsDirty => PaidBy(countsFile, r, h)
      BY Zenon DEF BundleInv, Paid
    <2>2. \A c \in Counters : PaidBy(c, r, h) => PaidBy(Kept(c), r, h)
      BY KeptCounts DEF BundleInv, PaidBy
    <2>3. counts \in Counters /\ countsFile \in Counters /\ (~countsUp => ~countsDirty)
      BY DEF BundleInv, BundleTypes
    <2> QED BY <2>1, <2>2, <2>3, Zenon DEF GcStale, BundleFlush, BundleLoad
  <1> QED BY <1>2, <1>3 DEF BundleInv

\* An exit writes what is marked, or is one more loss.
LEMMA ExitKeeps ==
  ASSUME BundleInv, BundleExit
  PROVE  BundleInv'
  <1>1. /\ counts' = NoCounts /\ countsDirty' = FALSE /\ countsUp' = FALSE
        /\ bucket' = [x \in Handlers |-> NoHour] /\ UNCHANGED <<hour, passed>> /\ countsUp
        /\ \/ countsFile' = (IF countsDirty THEN counts ELSE countsFile) /\ losses' = losses
           \/ losses' = losses + 1 /\ countsFile' = countsFile
    BY DEF BundleExit
  <1>2. NoCounts \in Counters BY BundleAssumption DEF NoCounts, Counters
  <1>3. BundleTypes'
    <2>1. countsFile' \in Counters /\ losses' \in Nat BY <1>1 DEF BundleInv, BundleTypes
    <2>2. /\ bucket' \in [Handlers -> Hours \cup {NoHour}]
          /\ \A x \in Handlers : bucket'[x] = NoHour
      BY <1>1
    <2> QED BY <1>1, <1>2, <2>1, <2>2, Zenon DEF BundleInv, BundleTypes
  <1>4. ASSUME NEW r \in Recipients, NEW h \in Hours PROVE Paid(r, h)'
    <2>1. CASE losses' = losses /\ countsFile' = (IF countsDirty THEN counts ELSE countsFile)
      <3>1. ~IsStaleBucket(h) => PaidBy(countsFile', r, h)
        BY <1>1, <2>1, Zenon DEF BundleInv, Paid
      <3> QED BY <1>1, <1>3, <2>1, <3>1, SettledKeeps
    <2>2. CASE losses' = losses + 1 /\ countsFile' = countsFile
      <3>1. /\ passed[r][h] \in Nat /\ countsFile[r][h] \in 0 .. CounterMax /\ losses \in Nat
            /\ passed[r][h] <= Cap * losses + Cap
        BY DEF BundleInv, BundleTypes, Counters, Paid
      <3>2. passed'[r][h] <= Cap * losses' BY <1>1, <2>2, <3>1, Budgets, Zenon
      <3>3. Cap * losses' \in Nat /\ Charged(countsFile[r][h]) \in 0 .. Cap
        BY ONLY <2>2, <3>1, Budgets, Charges
      <3>4. /\ passed'[r][h] <= Cap * losses' + Cap
            /\ passed'[r][h] <= Cap * losses' + Charged(countsFile[r][h])
        BY <1>1, <3>1, <3>2, <3>3, BundleAssumption
      <3> QED BY <1>1, <2>2, <3>4, Zenon DEF Paid, PaidBy
    <2> QED BY <1>1, <2>1, <2>2
  <1> QED BY <1>3, <1>4 DEF BundleInv

\* What is stale stays so, and no handler waits until its hour is.
LEMMA HourKeeps ==
  ASSUME BundleInv, BundleTick
  PROVE  BundleInv' /\ \A h \in Hours : IsStaleBucket(h) => IsStaleBucket(h)'
  <1>1. /\ hour < LastHour /\ hour' = hour + 1
        /\ \A x \in Handlers : bucket[x] # NoHour => hour + 1 - bucket[x] <= Retention
        /\ UNCHANGED <<counts, countsFile, countsDirty, countsUp, bucket, passed, losses>>
    BY DEF BundleTick
  <1>2. hour \in Nat /\ hour <= LastHour /\ hour' \in Hours
    BY <1>1, BundleAssumption DEF BundleInv, BundleTypes, Hours
  <1>3. \A h \in Hours : IsStaleBucket(h) => IsStaleBucket(h)'
    BY <1>1, <1>2, BundleAssumption DEF Hours, IsStaleBucket, CutoffHour
  <1>4. ASSUME NEW x \in Handlers, bucket[x] # NoHour PROVE ~IsStaleBucket(bucket[x])'
    <2>1. bucket[x] \in Hours BY <1>4 DEF BundleInv, BundleTypes
    <2>2. hour + 1 - bucket[x] <= Retention BY <1>1, <1>4
    <2> QED BY <1>1, <1>2, <2>1, <2>2, BundleAssumption DEF Hours, IsStaleBucket, CutoffHour
  <1>5. BundleTypes' BY <1>1, <1>2, <1>4, Zenon DEF BundleInv, BundleTypes
  <1>6. \A r \in Recipients, h \in Hours : Paid(r, h)'
    BY <1>1, <1>3 DEF BundleInv, Paid, PaidBy
  <1> QED BY <1>3, <1>5, <1>6 DEF BundleInv

\* The invariant of the counters holds in every reachable state.
LEMMA BundleInvariant == BundleSpec => []BundleInv
  <1>1. BundleInit => BundleInv
    <2> SUFFICES ASSUME BundleInit PROVE BundleInv OBVIOUS
    <2>1. /\ hour = 0 /\ counts = NoCounts /\ countsFile = NoCounts /\ passed = NoCounts
          /\ countsDirty = FALSE /\ countsUp = TRUE /\ losses = 0
          /\ bucket = [x \in Handlers |-> NoHour]
      BY DEF BundleInit
    <2>2. NoCounts \in Counters /\ NoCounts \in [Recipients -> [Hours -> Nat]]
      BY BundleAssumption DEF NoCounts, Counters
    <2>3. hour \in Hours BY <2>1, BundleAssumption DEF Hours
    <2>4. BundleTypes BY <2>1, <2>2, <2>3, ZenonT(60) DEF BundleTypes
    <2>5. ASSUME NEW r \in Recipients, NEW h \in Hours PROVE Paid(r, h)
      <3>1. passed[r][h] = 0 /\ counts[r][h] = 0 /\ countsFile[r][h] = 0
        BY <2>1 DEF NoCounts
      <3>2. Cap * losses = 0 /\ Charged(0) = 0 BY <2>1, BundleAssumption DEF Charged
      <3> QED BY <3>1, <3>2, BundleAssumption DEF Paid, PaidBy
    <2> QED BY <2>4, <2>5 DEF BundleInv
  <1>2. BundleInv /\ [BundleNext]_bundleVars => BundleInv'
    <2> SUFFICES ASSUME BundleInv, [BundleNext]_bundleVars PROVE BundleInv' OBVIOUS
    <2>1. CASE UNCHANGED bundleVars
      BY <2>1, Zenon DEF bundleVars, BundleInv, BundleTypes, Paid, PaidBy, IsStaleBucket, CutoffHour
    <2> QED BY <2>1, ReadKeeps, IncrementKeeps, StoreKeeps, ExitKeeps, HourKeeps DEF BundleNext
  <1> QED BY <1>1, <1>2, PTL DEF BundleSpec

\* Nothing but an exit that loses increments hands out a fresh budget of bundle
\* requests, and each such exit at most one, for any cap below the counter's
\* largest value.
THEOREM BudgetsHold == BundleSpec => []BudgetPerLoss
  <1>1. BundleInv => BudgetPerLoss
    <2> SUFFICES ASSUME BundleInv, NEW r \in Recipients, NEW h \in Hours
                 PROVE  passed[r][h] <= Cap * (1 + losses)
      BY DEF BudgetPerLoss
    <2>1. losses \in Nat /\ passed[r][h] <= Cap * losses + Cap
      BY DEF BundleInv, BundleTypes, Paid
    <2> QED BY ONLY <2>1, Budgets
  <1> QED BY <1>1, BundleInvariant, PTL

\* The unexpired, non-zero buckets of the counters.
LEMMA BucketsAre ==
  ASSUME NEW c
  PROVE  \A e : e \in Buckets(c) <=>
            \E r \in Recipients, h \in Hours :
                ~IsStaleBucket(h) /\ c[r][h] # 0 /\ e = <<r, h, c[r][h]>>
  BY DEF Buckets

\* As long as the hour stays, so do the buckets; dropping stale ones changes
\* none of them.
LEMMA SameBuckets ==
  ASSUME BundleTypes, hour' = hour
  PROVE  /\ Buckets(NoCounts)' = {}
         /\ \A c \in Counters : Buckets(c)' = Buckets(c) /\ Buckets(Kept(c)) = Buckets(c)
  <1>1. \A h \in Hours : IsStaleBucket(h)' = IsStaleBucket(h) BY DEF IsStaleBucket, CutoffHour
  <1>2. Buckets(NoCounts)' = {} BY DEF Buckets, NoCounts
  <1>3. ASSUME NEW c \in Counters
        PROVE  Buckets(c)' = Buckets(c) /\ Buckets(Kept(c)) = Buckets(c)
    <2>1. Buckets(c)' = Buckets(c) BY ONLY <1>1 DEF Buckets
    <2>2. \A e : e \in Buckets(Kept(c)) <=> e \in Buckets(c)
      BY KeptCounts, BucketsAre
    <2> QED BY <2>1, <2>2
  <1> QED BY <1>2, <1>3

\* One step of the clock: what leaves one store was stale, and leaves the other.
LEMMA BucketsAge ==
  ASSUME NEW c, NEW d, \A h \in Hours : IsStaleBucket(h) => IsStaleBucket(h)'
  PROVE  /\ Buckets(c)' \subseteq Buckets(c)
         /\ (Buckets(c) \ Buckets(c)') \cap Buckets(d)' = {}
  <1>1. \A e : e \in Buckets(c)' <=>
            \E r \in Recipients, h \in Hours :
                ~IsStaleBucket(h)' /\ c[r][h] # 0 /\ e = <<r, h, c[r][h]>>
    BY DEF Buckets
  <1>2. \A e : e \in Buckets(d)' <=>
            \E r \in Recipients, h \in Hours :
                ~IsStaleBucket(h)' /\ d[r][h] # 0 /\ e = <<r, h, d[r][h]>>
    BY DEF Buckets
  <1>3. Buckets(c)' \subseteq Buckets(c) BY <1>1, BucketsAre, ZenonT(60)
  <1>4. ASSUME NEW e \in Buckets(c), e \in Buckets(d)' PROVE e \in Buckets(c)'
    <2>1. PICK r \in Recipients, h \in Hours : c[r][h] # 0 /\ e = <<r, h, c[r][h]>>
      BY ONLY BucketsAre
    <2>2. PICK s \in Recipients, g \in Hours : ~IsStaleBucket(g)' /\ e = <<s, g, d[s][g]>>
      BY ONLY <1>2, <1>4
    <2>3. h = g BY <2>1, <2>2
    <2> QED BY ONLY <1>1, <2>1, <2>2, <2>3
  <1> QED BY ONLY <1>3, <1>4

\* BundleImplementsDeferred for every instance: each step of the counters is a
\* marked mutation, an expiry, a flush, an exit or a load of the deferred
\* store, or leaves it unchanged.
THEOREM CountersRefine == BundleSpec => BundleImplementsDeferred
  <1>1. BundleInit => DeferredCounts!Init
    BY DEF BundleInit, NoCounts, Buckets, DeferredCounts!Init
  <1>2. BundleInv /\ [BundleNext]_bundleVars => [DeferredCounts!Next]_(DeferredCounts!dvars)
    <2> SUFFICES ASSUME BundleInv, [BundleNext]_bundleVars
                 PROVE  [DeferredCounts!Next]_(DeferredCounts!dvars)
      OBVIOUS
    <2>0. /\ BundleTypes /\ counts \in Counters /\ countsFile \in Counters
          /\ countsDirty \in BOOLEAN
      BY DEF BundleInv, BundleTypes
    <2>a. ASSUME hour' = hour
          PROVE  /\ counts' = counts => Buckets(counts)' = Buckets(counts)
                 /\ counts' = NoCounts => Buckets(counts)' = {}
                 /\ counts' = Kept(counts) => Buckets(counts)' = Buckets(counts)
                 /\ counts' = Kept(countsFile) => Buckets(counts)' = Buckets(countsFile)
                 /\ countsFile' = countsFile => Buckets(countsFile)' = Buckets(countsFile)
                 /\ countsFile' = counts => Buckets(countsFile)' = Buckets(counts)
      <3>1. \A c \in Counters : Kept(c) \in Counters /\ Buckets(Kept(c)) = Buckets(c)
        BY <2>0, <2>a, KeptCounts, SameBuckets
      <3>2. Buckets(NoCounts) = {} BY DEF Buckets, NoCounts
      <3>3. \A c : counts' = c => Buckets(counts)' = Buckets(c)
        BY <2>a DEF Buckets, IsStaleBucket, CutoffHour
      <3>4. \A c : countsFile' = c => Buckets(countsFile)' = Buckets(c)
        BY <2>a DEF Buckets, IsStaleBucket, CutoffHour
      <3> QED BY <2>0, <3>1, <3>2, <3>3, <3>4
    <2>1. ASSUME NEW x \in Handlers, ReadHour(x) PROVE UNCHANGED DeferredCounts!dvars
      <3>1. UNCHANGED <<hour, counts, countsFile, countsDirty, countsUp>> BY <2>1 DEF ReadHour
      <3> QED BY <2>a, <3>1 DEF DeferredCounts!dvars
    <2>2. ASSUME NEW x \in Handlers, NEW r \in Recipients, Increment(x, r)
          PROVE  DeferredCounts!Mutate
      <3>1. countsUp /\ countsUp' = countsUp /\ countsDirty' = TRUE /\ UNCHANGED <<hour, countsFile>>
        BY <2>2 DEF Increment
      <3> QED BY <2>a, <3>1 DEF DeferredCounts!Mutate
    <2>3. ASSUME GcStale PROVE DeferredCounts!Mutate \/ UNCHANGED DeferredCounts!dvars
      <3>1. /\ countsUp /\ counts' = Kept(counts) /\ UNCHANGED <<hour, countsFile, countsUp>>
            /\ countsDirty' = (countsDirty \/ counts' # counts)
        BY <2>3 DEF GcStale
      <3>2. countsDirty' = TRUE \/ countsDirty' = countsDirty BY <2>0, <3>1, Zenon
      <3>3. Buckets(counts)' = Buckets(counts) /\ Buckets(countsFile)' = Buckets(countsFile)
        BY <2>a, <3>1
      <3> QED BY <3>1, <3>2, <3>3 DEF DeferredCounts!Mutate, DeferredCounts!dvars
    <2>4. ASSUME BundleFlush PROVE DeferredCounts!Flush
      <3>1. /\ countsUp /\ countsFile' = counts /\ countsDirty' = FALSE
            /\ UNCHANGED <<hour, counts, countsUp>>
        BY <2>4 DEF BundleFlush
      <3> QED BY <2>a, <3>1 DEF DeferredCounts!Flush
    <2>5. ASSUME BundleExit PROVE DeferredCounts!Exit
      <3>1. /\ countsUp /\ counts' = NoCounts /\ countsDirty' = FALSE /\ countsUp' = FALSE
            /\ hour' = hour /\ (countsFile' = counts \/ countsFile' = countsFile)
        BY <2>5 DEF BundleExit
      <3> QED BY <2>a, <3>1 DEF DeferredCounts!Exit
    <2>6. ASSUME BundleLoad PROVE DeferredCounts!Load
      <3>1. /\ ~countsUp /\ counts' = Kept(countsFile) /\ countsUp' = TRUE
            /\ UNCHANGED <<hour, countsFile, countsDirty>>
        BY <2>6 DEF BundleLoad
      <3> QED BY <2>a, <3>1 DEF DeferredCounts!Load
    <2>7. ASSUME BundleTick PROVE DeferredCounts!Age
      <3>1. UNCHANGED <<counts, countsFile, countsDirty, countsUp>> BY <2>7 DEF BundleTick
      <3>2. \A h \in Hours : IsStaleBucket(h) => IsStaleBucket(h)' BY <2>7, HourKeeps
      <3>3. PICK c, f : c = counts /\ f = countsFile OBVIOUS
      <3>4. /\ Buckets(counts) = Buckets(c) /\ Buckets(counts)' = Buckets(c)'
            /\ Buckets(countsFile) = Buckets(f) /\ Buckets(countsFile)' = Buckets(f)'
        BY <3>1, <3>3 DEF Buckets
      <3>5. /\ Buckets(c)' \subseteq Buckets(c)
            /\ (Buckets(c) \ Buckets(c)') \cap Buckets(f)' = {}
            /\ Buckets(f)' \subseteq Buckets(f)
            /\ (Buckets(f) \ Buckets(f)') \cap Buckets(c)' = {}
        BY <3>2, BucketsAge
      <3> QED BY <3>1, <3>4, <3>5, Zenon DEF DeferredCounts!Age
    <2>8. ASSUME UNCHANGED bundleVars PROVE UNCHANGED DeferredCounts!dvars
      <3>1. UNCHANGED <<hour, counts, countsFile, countsDirty, countsUp>> BY <2>8 DEF bundleVars
      <3> QED BY <2>a, <3>1, Zenon DEF DeferredCounts!dvars
    <2> QED BY <2>1, <2>2, <2>3, <2>4, <2>5, <2>6, <2>7, <2>8
            DEF BundleNext, DeferredCounts!Next
  <1> QED BY <1>1, <1>2, BundleInvariant, PTL
          DEF BundleSpec, BundleImplementsDeferred, DeferredCounts!Spec

---------------------------------------------------------------------------
(* The rate of chain seeds *)

\* A set of naturals has a least element, for the inductions below.
LEMMA LeastOf ==
  ASSUME NEW T, T \subseteq Nat, T # {}
  PROVE  \E n \in T : \A m \in T : n <= m
  <1>1. PICK n \in T : \A m \in T : <<m, n>> \notin OpToRel(<, Nat)
    BY NatLessThanWellFounded, WFMin, Zenon
  <1>2. \A m \in T : ~(m < n) BY <1>1, Zenon DEF OpToRel
  <1> QED BY <1>2

\* The deque q holds the recorded times of the last of the deliveries d, each
\* at most Slack before its delivery; the others are out of the window.
Tracks(d, q, t) ==
    /\ Len(q) <= Len(d)
    /\ \A i \in 1 .. Len(d) : d[i] <= t
    /\ \A i, j \in 1 .. Len(d) : i <= j => d[i] <= d[j]
    /\ \A i \in 1 .. Len(q) : /\ q[i] <= d[Len(d) - Len(q) + i]
                              /\ d[Len(d) - Len(q) + i] <= q[i] + Slack
    /\ \A i \in 1 .. Len(d) - Len(q) : d[i] < t - RateWindow + Slack

\* Pruning drops the times before the first that is not before the cutoff.
LEMMA PrunedIs ==
  ASSUME NEW q \in Seq(Nat), NEW cutoff \in Int
  PROVE  \E m \in 0 .. Len(q) :
            /\ Pruned(q, cutoff) \in Seq(Nat)
            /\ Len(Pruned(q, cutoff)) = Len(q) - m
            /\ \A i \in 1 .. Len(q) - m : Pruned(q, cutoff)[i] = q[m + i]
            /\ \A i \in 1 .. m : q[i] < cutoff
            /\ m < Len(q) => q[m + 1] >= cutoff
  <1> DEFINE keep == {i \in DOMAIN q : q[i] >= cutoff}
             first == CHOOSE i \in keep : \A j \in keep : i <= j
  <1>1. CASE keep = {}
    <2>1. Pruned(q, cutoff) = <<>> BY <1>1 DEF Pruned
    <2>2. \A i \in 1 .. Len(q) : q[i] \in Nat /\ ~(q[i] >= cutoff) BY <1>1
    <2>3. \A i \in 1 .. Len(q) : q[i] < cutoff BY <2>2
    <2>4. Len(q) \in 0 .. Len(q) /\ <<>> \in Seq(Nat) /\ Len(<<>>) = Len(q) - Len(q)
      OBVIOUS
    <2> QED BY <2>1, <2>3, <2>4
  <1>2. CASE keep # {}
    <2>1. keep \subseteq Nat BY DEF keep
    <2>2. \E i \in keep : \A j \in keep : i <= j BY <1>2, <2>1, LeastOf, Zenon
    <2>3. first \in keep /\ \A j \in keep : first <= j BY <2>2
    <2> HIDE DEF first
    <2>4. first \in 1 .. Len(q) /\ q[first] >= cutoff BY <2>3
    <2>5. Pruned(q, cutoff) = SubSeq(q, first, Len(q)) BY <1>2, Zenon DEF Pruned, first
    <2>6. ASSUME NEW i \in 1 .. first - 1 PROVE q[i] < cutoff
      <3>1. i \in DOMAIN q /\ i \notin keep /\ q[i] \in Nat BY <2>3, <2>4
      <3>2. ~(q[i] >= cutoff) BY <3>1
      <3> QED BY <3>1, <3>2
    <2> HIDE DEF keep
    <2>7. /\ SubSeq(q, first, Len(q)) \in Seq(Nat)
          /\ Len(SubSeq(q, first, Len(q))) = Len(q) - (first - 1)
          /\ \A i \in 1 .. Len(q) - (first - 1) :
                SubSeq(q, first, Len(q))[i] = q[(first - 1) + i]
      BY <2>4
    <2>8. first - 1 \in 0 .. Len(q) /\ q[(first - 1) + 1] >= cutoff BY <2>4
    <2> QED BY <2>5, <2>6, <2>7, <2>8, Zenon
  <1> QED BY <1>1, <1>2, Zenon

\* A pruned deque still tracks the deliveries.
LEMMA PruneTracks ==
  ASSUME NEW d \in Seq(Nat), NEW q \in Seq(Nat), NEW t \in Nat, NEW cutoff \in Int,
         Tracks(d, q, t), cutoff <= t - RateWindow
  PROVE  /\ Pruned(q, cutoff) \in Seq(Nat) /\ Tracks(d, Pruned(q, cutoff), t)
         /\ Len(Pruned(q, cutoff)) <= Len(q)
         /\ Len(Pruned(q, cutoff)) > 0 => Pruned(q, cutoff)[1] >= cutoff
  <1>1. PICK m \in 0 .. Len(q) :
            /\ Pruned(q, cutoff) \in Seq(Nat)
            /\ Len(Pruned(q, cutoff)) = Len(q) - m
            /\ \A i \in 1 .. Len(q) - m : Pruned(q, cutoff)[i] = q[m + i]
            /\ \A i \in 1 .. m : q[i] < cutoff
            /\ m < Len(q) => q[m + 1] >= cutoff
    BY PrunedIs, Zenon
  <1> DEFINE r == Pruned(q, cutoff)
             k == Len(d) - Len(q)
  <1> HIDE DEF r
  <1>2. /\ r \in Seq(Nat) /\ Len(r) = Len(q) - m /\ Len(r) \in Nat
        /\ \A i \in 1 .. Len(q) - m : r[i] = q[m + i]
    BY <1>1 DEF r
  <1>3. k \in Nat /\ Len(d) \in Nat /\ Len(q) \in Nat /\ Len(q) <= Len(d)
    BY DEF Tracks
  <1>4. Len(d) - Len(r) = k + m BY <1>2, <1>3
  <1>a. /\ \A i \in 1 .. Len(d) : d[i] \in Nat
        /\ \A i \in 1 .. Len(q) : q[i] \in Nat
    OBVIOUS
  <1>5. ASSUME NEW i \in 1 .. Len(r)
        PROVE  r[i] <= d[Len(d) - Len(r) + i] /\ d[Len(d) - Len(r) + i] <= r[i] + Slack
    <2>1. m + i \in 1 .. Len(q) /\ r[i] = q[m + i] BY <1>2
    <2>2. Len(d) - Len(r) + i = Len(d) - Len(q) + (m + i) BY ONLY <1>2, <1>3
    <2> QED BY <2>1, <2>2, Zenon DEF Tracks
  <1>6. ASSUME NEW i \in 1 .. Len(d) - Len(r) PROVE d[i] < t - RateWindow + Slack
    <2>1. CASE i <= k BY <2>1, <1>3, <1>4 DEF Tracks
    <2>2. CASE i > k
      <3>1. i - k \in 1 .. m /\ i - k \in 1 .. Len(q) /\ k + (i - k) = i
        BY <1>3, <1>4, <2>2
      <3>2. d[i] <= q[i - k] + Slack BY <3>1, Zenon DEF Tracks
      <3>3. q[i - k] < cutoff BY <1>1, <3>1, Zenon
      <3>4. i \in 1 .. Len(d) BY ONLY <1>2, <1>3
      <3>5. d[i] \in Nat /\ q[i - k] \in Nat BY <1>a, <3>1, <3>4
      <3>6. \A x, y \in Nat : x <= y + Slack /\ y < cutoff => x < t - RateWindow + Slack
        BY SeedAssumption
      <3> HIDE DEF k
      <3> QED BY <3>2, <3>3, <3>5, <3>6, Zenon
    <2> QED BY <2>1, <2>2, <1>3
  <1>7. Tracks(d, r, t) BY <1>2, <1>3, <1>5, <1>6 DEF Tracks
  <1>8. Len(r) <= Len(q) BY <1>2, <1>3
  <1>9. ASSUME Len(r) > 0 PROVE r[1] >= cutoff
    <2>1. m < Len(q) BY <1>2, <1>3, <1>9
    <2>2. 1 \in 1 .. Len(q) - m BY <1>3, <2>1
    <2> QED BY <1>1, <1>2, <2>1, <2>2, Zenon
  <1> QED BY <1>2, <1>7, <1>8, <1>9 DEF r

\* So it does after one more delivery, and later.
LEMMA AppendTracks ==
  ASSUME NEW d \in Seq(Nat), NEW q \in Seq(Nat), NEW t \in Nat, NEW at \in Nat,
         Tracks(d, q, t), at <= t, t <= at + Slack
  PROVE  Tracks(Append(d, t), Append(q, at), t)
  <1> DEFINE e == Append(d, t)
             r == Append(q, at)
  <1>a. /\ Len(d) \in Nat /\ Len(e) = Len(d) + 1 /\ e[Len(d) + 1] = t
        /\ \A i \in 1 .. Len(d) : e[i] = d[i] /\ d[i] \in Nat
    OBVIOUS
  <1>b. /\ Len(q) \in Nat /\ Len(r) = Len(q) + 1 /\ r[Len(q) + 1] = at
        /\ \A i \in 1 .. Len(q) : r[i] = q[i] /\ q[i] \in Nat
    OBVIOUS
  <1>1. /\ Len(d) \in Nat /\ Len(q) \in Nat /\ Len(q) <= Len(d)
        /\ Len(e) = Len(d) + 1 /\ Len(r) = Len(q) + 1
        /\ \A i \in 1 .. Len(d) : e[i] = d[i] /\ d[i] \in Nat
        /\ \A i \in 1 .. Len(q) : r[i] = q[i] /\ q[i] \in Nat
        /\ e[Len(d) + 1] = t /\ r[Len(q) + 1] = at
    BY <1>a, <1>b, Zenon DEF Tracks
  <1> HIDE DEF e, r
  <1>2. ASSUME NEW i \in 1 .. Len(e) PROVE e[i] <= t
    <2>1. CASE i = Len(d) + 1 BY <1>1, <2>1
    <2>2. CASE i # Len(d) + 1
      <3>1. i \in 1 .. Len(d) BY <1>1, <2>2
      <3> QED BY <1>1, <3>1, Zenon DEF Tracks
    <2> QED BY <2>1, <2>2
  <1>3. ASSUME NEW i \in 1 .. Len(e), NEW j \in 1 .. Len(e), i <= j PROVE e[i] <= e[j]
    <2>1. CASE j = Len(d) + 1 BY <1>1, <1>2, <2>1
    <2>2. CASE j # Len(d) + 1
      <3>1. i \in 1 .. Len(d) /\ j \in 1 .. Len(d) BY <1>1, <1>3, <2>2
      <3> QED BY <1>1, <1>3, <3>1, Zenon DEF Tracks
    <2> QED BY <2>1, <2>2
  <1>4. ASSUME NEW i \in 1 .. Len(r)
        PROVE  r[i] <= e[Len(e) - Len(r) + i] /\ e[Len(e) - Len(r) + i] <= r[i] + Slack
    <2>1. Len(e) - Len(r) + i = Len(d) - Len(q) + i BY <1>1
    <2>2. CASE i = Len(q) + 1
      <3>1. Len(d) - Len(q) + i = Len(d) + 1 BY <1>1, <2>2
      <3> QED BY <1>1, <2>1, <2>2, <3>1
    <2>3. CASE i # Len(q) + 1
      <3>1. i \in 1 .. Len(q) /\ Len(d) - Len(q) + i \in 1 .. Len(d) BY <1>1, <2>3
      <3> QED BY <1>1, <2>1, <3>1, Zenon DEF Tracks
    <2> QED BY ONLY <2>2, <2>3
  <1>5. ASSUME NEW i \in 1 .. Len(e) - Len(r) PROVE e[i] < t - RateWindow + Slack
    <2>1. i \in 1 .. Len(d) - Len(q) /\ i \in 1 .. Len(d) BY <1>1
    <2> QED BY <1>1, <2>1 DEF Tracks
  <1>6. Len(r) <= Len(e) BY <1>1
  <1> QED BY <1>2, <1>3, <1>4, <1>5, <1>6, Zenon DEF Tracks, e, r

\* Time passes, and only the bound on what has left the deque moves.
LEMMA LaterTracks ==
  ASSUME NEW d \in Seq(Nat), NEW q \in Seq(Nat), NEW t \in Nat, Tracks(d, q, t)
  PROVE  Tracks(d, q, t + 1)
  <1>1. \A i \in 1 .. Len(d) : d[i] \in Nat OBVIOUS
  <1>2. \A i \in 1 .. Len(d) : d[i] <= t + 1 BY <1>1 DEF Tracks
  <1>3. ASSUME NEW i \in 1 .. Len(d) - Len(q) PROVE d[i] < (t + 1) - RateWindow + Slack
    <2>1. i \in 1 .. Len(d) BY DEF Tracks
    <2>2. d[i] < t - RateWindow + Slack BY DEF Tracks
    <2> QED BY <1>1, <2>1, <2>2, SeedAssumption
  <1>4. /\ Len(q) <= Len(d)
        /\ \A i, j \in 1 .. Len(d) : i <= j => d[i] <= d[j]
        /\ \A i \in 1 .. Len(q) : /\ q[i] <= d[Len(d) - Len(q) + i]
                                  /\ d[Len(d) - Len(q) + i] <= q[i] + Slack
    BY DEF Tracks
  <1>5. \A i \in 1 .. Len(d) - Len(q) : d[i] < (t + 1) - RateWindow + Slack BY <1>3
  <1> QED BY <1>2, <1>4, <1>5, Zenon DEF Tracks

\* How many of the deliveries d are in an interval.
InInterval(d, from, to) == {i \in DOMAIN d : d[i] \in from .. to}
CountIn(d, from, to) == Cardinality(InInterval(d, from, to))

\* Deliveries are finitely many; one more takes none away, and none from
\* outside the interval is counted.
LEMMA Counts ==
  ASSUME NEW d \in Seq(Nat), NEW x \in Nat, NEW from \in Int, NEW to \in Int
  PROVE  /\ CountIn(d, from, to) \in Nat /\ CountIn(Append(d, x), from, to) \in Nat
         /\ CountIn(d, from, to) <= CountIn(Append(d, x), from, to)
         /\ x \notin from .. to => CountIn(Append(d, x), from, to) = CountIn(d, from, to)
  <1> DEFINE e == Append(d, x)
             D == InInterval(d, from, to)
             E == InInterval(e, from, to)
  <1>1. /\ Len(d) \in Nat /\ DOMAIN d = 1 .. Len(d) /\ DOMAIN e = 1 .. Len(d) + 1
        /\ \A i \in 1 .. Len(d) : e[i] = d[i]
        /\ e[Len(d) + 1] = x
    OBVIOUS
  <1> HIDE DEF e
  <1>2. D \subseteq 1 .. Len(d) + 1 /\ E \subseteq 1 .. Len(d) + 1
    BY <1>1 DEF InInterval
  <1>3. D \subseteq E BY <1>1 DEF InInterval
  <1>4. x \notin from .. to => E \subseteq D BY <1>1 DEF InInterval
  <1> HIDE DEF D, E
  <1>5. IsFiniteSet(1 .. Len(d) + 1) BY <1>1, FS_Interval
  <1>6. IsFiniteSet(D) /\ IsFiniteSet(E) BY <1>2, <1>5, FS_Subset, Zenon
  <1>7. Cardinality(D) \in Nat /\ Cardinality(E) \in Nat BY <1>6, FS_CardinalityType
  <1>8. Cardinality(D) <= Cardinality(E) BY <1>3, <1>6, FS_Subset
  <1>9. x \notin from .. to => D = E BY <1>3, <1>4, Zenon
  <1> QED BY <1>7, <1>8, <1>9, Zenon DEF CountIn, D, E, e

\* A refusal is earned: the deliveries behind the deque all lie in the window,
\* stretched by the longest wait, because they do not decrease and the first
\* of them does.
LEMMA Earned ==
  ASSUME NEW d \in Seq(Nat), NEW q \in Seq(Nat), NEW t \in Nat, NEW at \in Nat,
         Tracks(d, q, t), at <= t, t <= at + Slack,
         Len(q) > 0 => q[1] >= at - RateWindow
  PROVE  CountIn(d, t - (RateWindow + Slack), t) >= Len(q)
  <1> DEFINE k == Len(d) - Len(q)
             D == InInterval(d, t - (RateWindow + Slack), t)
  <1>1. /\ Len(d) \in Nat /\ Len(q) \in Nat /\ k \in Nat /\ DOMAIN d = 1 .. Len(d)
        /\ \A i \in 1 .. Len(d) : d[i] \in Nat
        /\ \A i \in 1 .. Len(q) : q[i] \in Nat
    BY DEF Tracks
  <1>2. ASSUME NEW i \in k + 1 .. Len(d) PROVE i \in D
    <2>1. Len(q) > 0 /\ k + 1 \in 1 .. Len(d) /\ i \in 1 .. Len(d) /\ 1 \in 1 .. Len(q)
      BY ONLY <1>1
    <2>2. q[1] <= d[k + 1] BY <2>1 DEF Tracks
    <2>3. d[k + 1] <= d[i] /\ d[i] <= t
      <3>1. \A m, n \in 1 .. Len(d) : m <= n => d[m] <= d[n] BY DEF Tracks
      <3>2. k + 1 <= i BY ONLY <1>1
      <3>3. d[i] <= t BY <2>1 DEF Tracks
      <3> HIDE DEF k
      <3> QED BY ONLY <2>1, <3>1, <3>2, <3>3
    <2>4. q[1] >= at - RateWindow BY <2>1
    <2>5. d[k + 1] \in Nat /\ d[i] \in Nat /\ q[1] \in Nat BY <1>1, <2>1, Zenon
    <2>6. \A x, y, z \in Nat : x >= at - RateWindow /\ x <= y /\ y <= z /\ z <= t =>
              z \in t - (RateWindow + Slack) .. t
      BY SeedAssumption
    <2>7. d[i] \in t - (RateWindow + Slack) .. t BY <2>2, <2>3, <2>4, <2>5, <2>6, Zenon
    <2> QED BY <1>1, <2>1, <2>7 DEF InInterval
  <1>3. D \subseteq 1 .. Len(d) BY <1>1 DEF InInterval
  <1>4. k + 1 .. Len(d) \subseteq D BY <1>2
  <1> HIDE DEF D, k
  <1>0. 1 \in Int /\ Len(d) \in Int /\ k + 1 \in Int BY <1>1
  <1>5. IsFiniteSet(1 .. Len(d)) /\ IsFiniteSet(D) BY <1>0, <1>3, FS_Interval, FS_Subset, Zenon
  <1>6. Cardinality(k + 1 .. Len(d)) <= Cardinality(D) BY <1>4, <1>5, FS_Subset, Zenon
  <1>7. Cardinality(k + 1 .. Len(d)) = IF k + 1 > Len(d) THEN 0 ELSE Len(d) - (k + 1) + 1
    BY <1>0, FS_Interval, Zenon
  <1>8. Cardinality(D) \in Nat BY <1>5, FS_CardinalityType
  <1>9. Len(q) = Len(d) - k BY <1>1 DEF k
  <1>10. Len(d) \in Nat /\ Len(q) \in Nat /\ k \in Nat BY <1>1
  <1>11. \A m, n, c \in Nat : n = m - c =>
            IF c + 1 > m THEN n = 0 ELSE m - (c + 1) + 1 = n
    OBVIOUS
  <1>12. Cardinality(k + 1 .. Len(d)) = Len(q) BY <1>7, <1>9, <1>10, <1>11
  <1> QED BY <1>6, <1>8, <1>10, <1>12, Zenon DEF CountIn, D

\* A window that ends now or later, shorter than the rate's by the longest
\* wait, holds no delivery that has left the deque.
LEMMA WindowHolds ==
  ASSUME NEW d \in Seq(Nat), NEW q \in Seq(Nat), NEW t \in Nat, NEW from \in Nat,
         Tracks(d, q, t), RateWindow >= Slack, from + (RateWindow - Slack) >= t
  PROVE  CountIn(Append(d, t), from, from + (RateWindow - Slack)) <= Len(q) + 1
  <1> DEFINE e == Append(d, t)
             k == Len(d) - Len(q)
             E == InInterval(e, from, from + (RateWindow - Slack))
  <1>1. /\ Len(d) \in Nat /\ DOMAIN e = 1 .. Len(d) + 1
        /\ \A i \in 1 .. Len(d) : e[i] = d[i] /\ d[i] \in Nat
    OBVIOUS
  <1>2. Len(q) \in Nat /\ k \in Nat BY DEF Tracks
  <1> HIDE DEF e
  <1>3. ASSUME NEW i \in E PROVE i \in k + 1 .. Len(d) + 1
    <2>1. i \in 1 .. Len(d) + 1 /\ e[i] >= from BY <1>1, <1>3, SeedAssumption DEF InInterval
    <2>2. ASSUME i \in 1 .. k PROVE FALSE
      <3>1. i \in 1 .. Len(d) BY ONLY <1>1, <1>2, <2>2
      <3>2. d[i] < t - RateWindow + Slack BY <2>2 DEF Tracks
      <3>3. e[i] = d[i] /\ d[i] \in Nat BY <1>1, <3>1
      <3>4. \A x \in Nat : x < t - RateWindow + Slack /\ x >= from => FALSE
        BY SeedAssumption
      <3> QED BY <2>1, <3>2, <3>3, <3>4
    <2> QED BY <1>1, <1>2, <2>1, <2>2
  <1>4. E \subseteq k + 1 .. Len(d) + 1 BY <1>3
  <1> HIDE DEF E, k
  <1>0. Len(d) + 1 \in Int /\ k + 1 \in Int BY <1>1, <1>2
  <1>5. IsFiniteSet(k + 1 .. Len(d) + 1) BY <1>0, FS_Interval
  <1>6. IsFiniteSet(E) /\ Cardinality(E) <= Cardinality(k + 1 .. Len(d) + 1)
    BY <1>4, <1>5, FS_Subset, Zenon
  <1>7. Cardinality(k + 1 .. Len(d) + 1) =
            IF k + 1 > Len(d) + 1 THEN 0 ELSE (Len(d) + 1) - (k + 1) + 1
    BY <1>0, FS_Interval, Zenon
  <1>8. k = Len(d) - Len(q) BY DEF k
  <1>9. Cardinality(k + 1 .. Len(d) + 1) = Len(q) + 1 BY <1>1, <1>2, <1>7, <1>8
  <1> QED BY <1>6, <1>9 DEF CountIn, E, e

Frames == [at : Nat, to : Targets]

SeedTypes ==
    /\ time \in Nat
    /\ rate \in [Pairs -> Seq(Nat)]
    /\ delivered \in [Pairs -> Seq(Nat)]
    /\ refused \in [Pairs -> SUBSET Nat]
    /\ waiting \in [Conns -> Frames \cup {NoFrame}]

\* The time a waiting handler read is at most the longest wait old, and each
\* deque tracks the last deliveries of its pair.
SeedInv ==
    /\ SeedTypes
    /\ \A c \in Conns : waiting[c] # NoFrame =>
          waiting[c].at <= time /\ time <= waiting[c].at + Slack
    /\ \A p \in Pairs : Tracks(delivered[p], rate[p], time)
    /\ \A p \in Pairs : \A t \in refused[p] : t <= time
    /\ WindowBounds
    /\ RefusalIsEarned

\* The properties in terms of one pair's deliveries.
WindowOf(d, t) ==
    \A from \in 0 .. t : RateWindow >= Slack =>
        CountIn(d, from, from + (RateWindow - Slack)) <= RateCap

EarnedOf(d, r) ==
    \A t \in r : CountIn(d, t - (RateWindow + Slack), t) >= RateCap

\* The two properties are about each pair on its own.
LEMMA PerPair ==
  /\ WindowBounds <=> \A p \in Pairs : WindowOf(delivered[p], time)
  /\ RefusalIsEarned <=> \A p \in Pairs : EarnedOf(delivered[p], refused[p])
  BY Zenon DEF WindowBounds, RefusalIsEarned, WindowOf, EarnedOf, AcceptedIn, CountIn, InInterval

\* The same of the next state.
LEMMA PerPairNext ==
  /\ WindowBounds' <=> \A p \in Pairs : WindowOf(delivered'[p], time')
  /\ RefusalIsEarned' <=> \A p \in Pairs : EarnedOf(delivered'[p], refused'[p])
  BY DEF WindowBounds, RefusalIsEarned, WindowOf, EarnedOf, AcceptedIn, CountIn, InInterval

\* Nothing was delivered, so no window holds anything.
LEMMA SeedStarts == SeedInit => SeedInv
  <1> SUFFICES ASSUME SeedInit PROVE SeedInv OBVIOUS
  <1>1. SeedTypes BY DEF SeedInit, SeedTypes
  <1>2. \A p \in Pairs : delivered[p] = <<>> /\ rate[p] = <<>> /\ refused[p] = {}
    BY DEF SeedInit
  <1>3. \A p \in Pairs : Tracks(delivered[p], rate[p], time)
    <2>1. Tracks(<<>>, <<>>, 0) BY SeedAssumption DEF Tracks
    <2> QED BY <1>2, <2>1 DEF SeedInit
  <1>4. WindowOf(<<>>, time)
    <2>1. \A from, to : InInterval(<<>>, from, to) = {} BY DEF InInterval
    <2> QED BY <2>1, FS_EmptySet, SeedAssumption DEF WindowOf, CountIn
  <1>5. WindowBounds BY <1>2, <1>4, PerPair
  <1>6. RefusalIsEarned BY <1>2, PerPair, Zenon DEF EarnedOf
  <1> QED BY <1>1, <1>2, <1>3, <1>5, <1>6 DEF SeedInv, SeedInit

\* A frame that arrives reads the clock.
LEMMA ArriveSeed ==
  ASSUME NEW c \in Conns, NEW to \in Targets, SeedInv, Arrive(c, to)
  PROVE  SeedInv'
  <1>1. UNCHANGED <<time, rate, delivered, refused>> BY Zenon DEF Arrive
  <1>2. /\ time \in Nat /\ [at |-> time, to |-> to] \in Frames
        /\ waiting' = [waiting EXCEPT ![c] = [at |-> time, to |-> to]]
    BY Zenon DEF SeedInv, SeedTypes, Arrive, Frames
  <1>3. SeedTypes' BY <1>1, <1>2, Zenon DEF SeedInv, SeedTypes
  <1>4. ASSUME NEW b \in Conns, waiting'[b] # NoFrame
        PROVE  waiting'[b].at <= time /\ time <= waiting'[b].at + Slack
    <2>1. CASE b = c
      <3>1. waiting'[b] = [at |-> time, to |-> to] BY <1>2, <2>1 DEF SeedInv, SeedTypes
      <3> QED BY ONLY <1>2, <3>1, SeedAssumption
    <2>2. CASE b # c
      <3>1. waiting'[b] = waiting[b] BY <1>2, <2>2 DEF SeedInv, SeedTypes
      <3> QED BY <1>4, <3>1, Zenon DEF SeedInv
    <2> QED BY <2>1, <2>2
  <1>5. WindowBounds' /\ RefusalIsEarned'
    BY <1>1, PerPair, PerPairNext, ZenonT(60) DEF SeedInv
  <1> QED BY <1>1, <1>3, <1>4, <1>5, Zenon DEF SeedInv

\* A connection between two frames may be replaced.
LEMMA ReconnectSeed ==
  ASSUME NEW c \in Conns, SeedInv, Reconnect(c)
  PROVE  SeedInv'
  <1>1. UNCHANGED <<time, rate, waiting, delivered, refused>> BY DEF Reconnect
  <1>2. WindowBounds' /\ RefusalIsEarned'
    BY <1>1, PerPair, PerPairNext, Zenon DEF SeedInv
  <1> QED BY <1>1, <1>2 DEF SeedInv, SeedTypes

\* The timer prunes by a clock that is not behind any handler's.
LEMMA GcSeed ==
  ASSUME SeedInv, RateGc
  PROVE  SeedInv'
  <1>1. /\ UNCHANGED <<time, waiting, delivered, refused>>
        /\ rate' = [p \in Pairs |-> Pruned(rate[p], time - RateWindow)]
    BY DEF RateGc
  <1>2. time \in Nat BY ZenonT(60) DEF SeedInv, SeedTypes
  <1>3. ASSUME NEW p \in Pairs
        PROVE  rate'[p] \in Seq(Nat) /\ Tracks(delivered[p], rate'[p], time)
    <2>1. rate[p] \in Seq(Nat) /\ delivered[p] \in Seq(Nat)
          /\ Tracks(delivered[p], rate[p], time)
      BY DEF SeedInv, SeedTypes
    <2>2. time - RateWindow \in Int /\ time - RateWindow <= time - RateWindow
      BY <1>2, SeedAssumption
    <2>3. /\ Pruned(rate[p], time - RateWindow) \in Seq(Nat)
          /\ Tracks(delivered[p], Pruned(rate[p], time - RateWindow), time)
      BY <1>2, <2>1, <2>2, PruneTracks, Zenon
    <2> QED BY ONLY <1>1, <2>3
  <1>4. SeedTypes' BY <1>1, <1>3, Zenon DEF SeedInv, SeedTypes
  <1>5. WindowBounds' /\ RefusalIsEarned'
    BY <1>1, PerPair, PerPairNext, ZenonT(60) DEF SeedInv
  <1> QED BY <1>1, <1>3, <1>4, <1>5, Zenon DEF SeedInv

\* A later clock asks of one more window, which is empty.
LEMMA TickSeed ==
  ASSUME SeedInv, SeedTick
  PROVE  SeedInv'
  <1>1. /\ UNCHANGED <<rate, waiting, delivered, refused>> /\ time' = time + 1
        /\ \A c \in Conns : waiting[c] # NoFrame => time + 1 - waiting[c].at <= Slack
    BY DEF SeedTick
  <1>2. time \in Nat /\ time' \in Nat BY <1>1 DEF SeedInv, SeedTypes
  <1>3. SeedTypes' BY <1>1, <1>2, Zenon DEF SeedInv, SeedTypes
  <1>4. ASSUME NEW c \in Conns, waiting[c] # NoFrame
        PROVE  waiting[c].at <= time + 1 /\ time + 1 <= waiting[c].at + Slack
    <2>1. waiting[c].at \in Nat BY <1>4, Zenon DEF SeedInv, SeedTypes, Frames
    <2>2. waiting[c].at <= time BY <1>4, Zenon DEF SeedInv
    <2>3. time + 1 - waiting[c].at <= Slack BY <1>1, <1>4, ZenonT(60)
    <2> QED BY <1>2, <2>1, <2>2, <2>3, SeedAssumption
  <1>5. ASSUME NEW p \in Pairs PROVE Tracks(delivered[p], rate[p], time + 1)
    <2>1. rate[p] \in Seq(Nat) /\ delivered[p] \in Seq(Nat)
          /\ Tracks(delivered[p], rate[p], time)
      BY DEF SeedInv, SeedTypes
    <2> QED BY <1>2, <2>1, LaterTracks
  <1>6. ASSUME NEW p \in Pairs PROVE WindowOf(delivered[p], time + 1)
    <2>1. WindowOf(delivered[p], time) BY PerPair DEF SeedInv
    <2>2. ASSUME NEW to \in Int PROVE CountIn(delivered[p], time + 1, to) = 0
      <3>1. \A i \in 1 .. Len(delivered[p]) :
                delivered[p][i] <= time /\ delivered[p][i] \in Nat
        BY DEF SeedInv, SeedTypes, Tracks
      <3>2. DOMAIN delivered[p] = 1 .. Len(delivered[p]) BY DEF SeedInv, SeedTypes
      <3>3. \A x \in Nat : x <= time => x \notin time + 1 .. to BY <1>2
      <3>4. InInterval(delivered[p], time + 1, to) = {}
        BY <3>1, <3>2, <3>3, Zenon DEF InInterval
      <3> QED BY <3>4, FS_EmptySet, ZenonT(60) DEF CountIn
    <2>3. ASSUME NEW from \in 0 .. time + 1, RateWindow >= Slack
          PROVE  CountIn(delivered[p], from, from + (RateWindow - Slack)) <= RateCap
      <3>1. CASE from = time + 1
        <4>1. from + (RateWindow - Slack) \in Int BY <1>2, SeedAssumption
        <4>2. CountIn(delivered[p], from, from + (RateWindow - Slack)) = 0
          BY <2>2, <3>1, <4>1
        <4> QED BY <4>2, SeedAssumption
      <3>2. CASE from \in 0 .. time BY <2>1, <2>3, <3>2 DEF WindowOf
      <3> QED BY <1>2, <3>1, <3>2
    <2> QED BY <2>3, ZenonT(60) DEF WindowOf
  <1>7. WindowBounds' /\ RefusalIsEarned'
    BY <1>1, <1>6, PerPair, PerPairNext, Zenon DEF SeedInv
  <1>8. ASSUME NEW p \in Pairs, NEW t \in refused[p] PROVE t <= time + 1
    <2>1. t <= time /\ t \in Nat BY DEF SeedInv, SeedTypes
    <2> QED BY <1>2, <2>1
  <1> QED BY ONLY <1>1, <1>3, <1>4, <1>5, <1>7, <1>8 DEF SeedInv

\* The edges of a window are whole numbers, in the order of the times.
LEMMA Edges ==
  ASSUME NEW t \in Nat, NEW w \in Nat, NEW k \in Nat
  PROVE  /\ t \in Int /\ t <= t /\ t - w \in Int /\ t - (w + k) \in Int
         /\ t + (w - k) \in Int
         /\ \A u \in Nat : t <= u => t - w <= u - w
         /\ \A u \in 0 .. t : u \in Nat
  OBVIOUS

\* A longer sequence of times.
LEMMA OneMore ==
  ASSUME NEW q \in Seq(Nat), NEW t \in Nat
  PROVE  Append(q, t) \in Seq(Nat)
  OBVIOUS

\* The verdict on a frame: the deque, the deliveries and the refusals of its
\* pair change together.
LEMMA DecideSeed ==
  ASSUME NEW c \in Conns, SeedInv, waiting[c] # NoFrame,
         NEW p \in Pairs,
         NEW times, times = Pruned(rate[p], waiting[c].at - RateWindow),
         Decide(c, p, times), time' = time
  PROVE  /\ rate' \in [Pairs -> Seq(Nat)] /\ delivered' \in [Pairs -> Seq(Nat)]
         /\ refused' \in [Pairs -> SUBSET Nat]
         /\ \A r \in Pairs : Tracks(delivered'[r], rate'[r], time)
         /\ \A r \in Pairs : \A t \in refused'[r] : t <= time
         /\ \A r \in Pairs : WindowOf(delivered'[r], time)
         /\ \A r \in Pairs : EarnedOf(delivered'[r], refused'[r])
  <1> DEFINE at == waiting[c].at
             d == delivered[p]
  <1>1. /\ time \in Nat /\ rate \in [Pairs -> Seq(Nat)]
        /\ delivered \in [Pairs -> Seq(Nat)] /\ refused \in [Pairs -> SUBSET Nat]
        /\ rate[p] \in Seq(Nat) /\ d \in Seq(Nat)
        /\ Tracks(d, rate[p], time)
    BY Zenon DEF SeedInv, SeedTypes
  <1>2. at \in Nat /\ at <= time /\ time <= at + Slack
    BY Zenon DEF SeedInv, SeedTypes, Frames
  <1>a. time \in Nat /\ RateWindow \in Nat /\ Slack \in Nat /\ RateCap \in Nat
    BY <1>1, SeedAssumption, Zenon
  <1>3. at - RateWindow \in Int /\ at - RateWindow <= time - RateWindow
    BY <1>2, <1>a, Edges, ZenonT(60)
  <1>4. times \in Seq(Nat) /\ Tracks(d, times, time)
        /\ (Len(times) > 0 => times[1] >= at - RateWindow)
    BY <1>1, <1>3, PruneTracks, Zenon
  <1>5. /\ \A r \in Pairs : Tracks(delivered[r], rate[r], time)
        /\ \A r \in Pairs : \A t \in refused[r] : t <= time
        /\ \A r \in Pairs : WindowOf(delivered[r], time)
        /\ \A r \in Pairs : EarnedOf(delivered[r], refused[r])
    BY PerPair, ZenonT(60) DEF SeedInv
  <1>6. Len(times) \in Nat BY <1>4
  <1>7. CASE Len(times) >= RateCap
    <2>1. /\ rate' = [rate EXCEPT ![p] = times] /\ delivered' = delivered
          /\ refused' = [refused EXCEPT ![p] = refused[p] \cup {time}]
      BY <1>7, Zenon DEF Decide
    <2>2. CountIn(d, time - (RateWindow + Slack), time) >= Len(times)
      BY <1>1, <1>2, <1>4, Earned, Zenon
    <2>3. CountIn(d, time - (RateWindow + Slack), time) \in Nat
      <3>1. time - (RateWindow + Slack) \in Int /\ time \in Int
        BY <1>a, Edges, ZenonT(60)
      <3> QED BY <1>1, <3>1, Counts, Zenon
    <2>4. CountIn(d, time - (RateWindow + Slack), time) >= RateCap
      BY <1>6, <1>7, <2>2, <2>3, SeedAssumption
    <2>5. ASSUME NEW r \in Pairs
          PROVE  /\ Tracks(delivered'[r], rate'[r], time)
                 /\ \A t \in refused'[r] : t <= time
                 /\ WindowOf(delivered'[r], time)
                 /\ EarnedOf(delivered'[r], refused'[r])
      <3>1. CASE r = p
        <4>1. rate'[r] = times /\ delivered'[r] = d /\ refused'[r] = refused[p] \cup {time}
          BY <1>1, <2>1, <3>1, Zenon
        <4>2. EarnedOf(d, refused[p] \cup {time}) BY <1>5, <2>4, Zenon DEF EarnedOf
        <4>3. \A t \in refused[p] \cup {time} : t <= time BY <1>a, <1>5, Edges, Zenon
        <4> QED BY <1>4, <1>5, <3>1, <4>1, <4>2, <4>3, Zenon
      <3>2. CASE r # p
        <4>1. rate'[r] = rate[r] /\ delivered'[r] = delivered[r] /\ refused'[r] = refused[r]
          BY <1>1, <2>1, <3>2, Zenon
        <4> QED BY <1>5, <4>1, Zenon
      <3> QED BY <3>1, <3>2, Zenon
    <2>6. rate' \in [Pairs -> Seq(Nat)] BY <1>1, <1>4, <2>1, Zenon
    <2>7. refused' \in [Pairs -> SUBSET Nat] BY <1>1, <2>1, Zenon
    <2> QED BY <1>1, <2>1, <2>5, <2>6, <2>7, Zenon
  <1>8. CASE ~(Len(times) >= RateCap)
    <2>1. /\ rate' = [rate EXCEPT ![p] = Append(times, at)] /\ refused' = refused
          /\ delivered' = [delivered EXCEPT ![p] = Append(d, time)]
      BY <1>8, Zenon DEF Decide
    <2>2. Append(times, at) \in Seq(Nat) /\ Append(d, time) \in Seq(Nat)
      BY <1>1, <1>2, <1>4, OneMore, Zenon
    <2>3. Tracks(Append(d, time), Append(times, at), time)
      BY <1>1, <1>2, <1>4, AppendTracks, ZenonT(60)
    <2>4. Len(times) + 1 <= RateCap BY <1>6, <1>8, SeedAssumption
    <2>5. WindowOf(Append(d, time), time)
      <3> SUFFICES ASSUME NEW from \in 0 .. time, RateWindow >= Slack
                   PROVE  CountIn(Append(d, time), from, from + (RateWindow - Slack)) <= RateCap
        BY Zenon DEF WindowOf
      <3>1. from \in Nat /\ from \in Int /\ from + (RateWindow - Slack) \in Int
        BY <1>a, Edges, Zenon
      <3>2. CountIn(Append(d, time), from, from + (RateWindow - Slack)) \in Nat
        BY <1>1, <3>1, Counts, ZenonT(60)
      <3>3. CASE from + (RateWindow - Slack) >= time
        <4>1. CountIn(Append(d, time), from, from + (RateWindow - Slack)) <= Len(times) + 1
          BY <1>1, <1>4, <3>1, <3>3, WindowHolds, Zenon
        <4> QED BY <1>6, <2>4, <3>2, <4>1, SeedAssumption
      <3>4. CASE ~(from + (RateWindow - Slack) >= time)
        <4>1. time \notin from .. from + (RateWindow - Slack) BY <1>1, <3>1, <3>4
        <4>2. CountIn(Append(d, time), from, from + (RateWindow - Slack))
                = CountIn(d, from, from + (RateWindow - Slack))
          BY <1>1, <3>1, <4>1, Counts, ZenonT(60)
        <4>3. CountIn(d, from, from + (RateWindow - Slack)) <= RateCap
          BY <1>5, Zenon DEF WindowOf
        <4> QED BY <4>2, <4>3, ZenonT(60)
      <3> QED BY <3>3, <3>4, Zenon
    <2>6. EarnedOf(Append(d, time), refused[p])
      <3> SUFFICES ASSUME NEW t \in refused[p]
                   PROVE  CountIn(Append(d, time), t - (RateWindow + Slack), t) >= RateCap
        BY Zenon DEF EarnedOf
      <3>a. t \in Nat BY <1>1, Zenon
      <3>1. t \in Int /\ t - (RateWindow + Slack) \in Int BY <1>a, <3>a, Edges, ZenonT(60)
      <3>2. CountIn(d, t - (RateWindow + Slack), t) >= RateCap BY <1>5 DEF EarnedOf
      <3>3. /\ CountIn(d, t - (RateWindow + Slack), t) \in Nat
            /\ CountIn(Append(d, time), t - (RateWindow + Slack), t) \in Nat
            /\ CountIn(d, t - (RateWindow + Slack), t)
                 <= CountIn(Append(d, time), t - (RateWindow + Slack), t)
        BY <1>1, <3>1, Counts, Zenon
      <3> QED BY <3>2, <3>3, SeedAssumption
    <2>7. ASSUME NEW r \in Pairs
          PROVE  /\ Tracks(delivered'[r], rate'[r], time)
                 /\ \A t \in refused'[r] : t <= time
                 /\ WindowOf(delivered'[r], time)
                 /\ EarnedOf(delivered'[r], refused'[r])
      <3>1. CASE r = p
        <4>1. rate'[r] = Append(times, at) /\ delivered'[r] = Append(d, time)
              /\ refused'[r] = refused[p]
          BY <1>1, <2>1, <3>1, Zenon
        <4> QED BY <1>5, <2>3, <2>5, <2>6, <4>1, Zenon
      <3>2. CASE r # p
        <4>1. rate'[r] = rate[r] /\ delivered'[r] = delivered[r] /\ refused'[r] = refused[r]
          BY <1>1, <2>1, <3>2, Zenon
        <4> QED BY <1>5, <4>1, Zenon
      <3> QED BY <3>1, <3>2, Zenon
    <2>8. rate' \in [Pairs -> Seq(Nat)] BY <1>1, <2>1, <2>2, Zenon
    <2>9. delivered' \in [Pairs -> Seq(Nat)] BY <1>1, <2>1, <2>2, Zenon
    <2> QED BY <1>1, <2>1, <2>7, <2>8, <2>9, Zenon
  <1> QED BY <1>7, <1>8, Zenon

\* A handler that gets the lock refuses by the global cap, or decides.
LEMMA AdmitSeed ==
  ASSUME NEW c \in Conns, SeedInv, Admit(c)
  PROVE  SeedInv'
  <1> DEFINE p == <<PeerOf(c), waiting[c].to>>
  <1>1. waiting[c] # NoFrame /\ waiting' = [waiting EXCEPT ![c] = NoFrame] /\ time' = time
    BY Zenon DEF Admit
  <1>2. waiting' \in [Conns -> Frames \cup {NoFrame}] /\ time' \in Nat
    BY <1>1, Zenon DEF SeedInv, SeedTypes
  <1>3. ASSUME NEW b \in Conns, waiting'[b] # NoFrame
        PROVE  waiting'[b].at <= time /\ time <= waiting'[b].at + Slack
    <2>1. waiting'[b] = waiting[b] BY <1>1, <1>3, ZenonT(60) DEF SeedInv, SeedTypes
    <2> QED BY <1>3, <2>1, Zenon DEF SeedInv
  <1>4. CASE GlobalCap(p)
    <2>1. UNCHANGED <<rate, delivered, refused>> BY <1>4, Zenon DEF Admit
    <2>2. WindowBounds' /\ RefusalIsEarned'
      BY <1>1, <2>1, PerPair, PerPairNext, Zenon DEF SeedInv
    <2> QED BY <1>1, <1>2, <1>3, <2>1, <2>2 DEF SeedInv, SeedTypes
  <1>5. CASE ~GlobalCap(p)
    <2>1. Decide(c, p, Pruned(rate[p], waiting[c].at - RateWindow))
      BY <1>5, Zenon DEF Admit
    <2>2. p \in Pairs
      <3>1. waiting[c].to \in Targets BY <1>1 DEF SeedInv, SeedTypes, Frames
      <3> QED BY <3>1, Zenon DEF Pairs
    <2> HIDE DEF p
    <2>3. /\ rate' \in [Pairs -> Seq(Nat)] /\ delivered' \in [Pairs -> Seq(Nat)]
          /\ refused' \in [Pairs -> SUBSET Nat]
          /\ \A r \in Pairs : Tracks(delivered'[r], rate'[r], time)
          /\ \A r \in Pairs : \A t \in refused'[r] : t <= time
          /\ \A r \in Pairs : WindowOf(delivered'[r], time)
          /\ \A r \in Pairs : EarnedOf(delivered'[r], refused'[r])
      BY <1>1, <2>1, <2>2, DecideSeed, Zenon
    <2>4. SeedTypes' BY <1>2, <2>3, Zenon DEF SeedTypes
    <2>5. WindowBounds' /\ RefusalIsEarned' BY <1>1, <2>3, PerPairNext
    <2> QED BY <1>1, <1>3, <2>3, <2>4, <2>5, Zenon DEF SeedInv
  <1> QED BY <1>4, <1>5, ZenonT(60)

\* Every step keeps the invariant.
LEMMA SeedSteps == SeedInv /\ [SeedNext]_seedVars => SeedInv'
  <1> SUFFICES ASSUME SeedInv, [SeedNext]_seedVars PROVE SeedInv' OBVIOUS
  <1>1. CASE UNCHANGED seedVars
    <2>1. UNCHANGED <<time, rate, waiting, delivered, refused>> BY <1>1 DEF seedVars
    <2>2. WindowBounds' /\ RefusalIsEarned'
      BY <2>1, PerPair, PerPairNext, Zenon DEF SeedInv
    <2> QED BY <2>1, <2>2 DEF SeedInv, SeedTypes
  <1>2. CASE SeedNext
    BY <1>2, AdmitSeed, ReconnectSeed, ArriveSeed, GcSeed, TickSeed, ZenonT(60) DEF SeedNext
  <1> QED BY <1>1, <1>2, ZenonT(60)

\* No more than RateCap CHAIN_SEED_DELIVERY frames of a pair are accepted in a
\* window shorter than the rate's by the longest wait for the lock.
THEOREM WindowsHold == SeedSpec => []WindowBounds
  <1>1. SeedInv => WindowBounds BY ZenonT(60) DEF SeedInv
  <1> QED BY SeedStarts, SeedSteps, <1>1, PTL DEF SeedSpec

\* A frame is refused by PerPairCap only when RateCap frames of its pair were
\* accepted within the window before it, stretched by the longest wait.
THEOREM RefusalsEarned == SeedSpec => []RefusalIsEarned
  <1>1. SeedInv => RefusalIsEarned BY DEF SeedInv
  <1> QED BY SeedStarts, SeedSteps, <1>1, PTL DEF SeedSpec

=============================================================================
