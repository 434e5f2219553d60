--------------------------- MODULE BundleReqRate ---------------------------
(***************************************************************************)
(* The per-(recipient, hour) cap on bundle requests: the BUNDLE_REQUEST    *)
(* arm of read_loop (relay/src/main.rs) over the persistent counter of     *)
(* relay/src/bundle_req_rate_store.rs.  A handler reads the hour first and *)
(* increments that hour's bucket once it gets the store's lock.            *)
(***************************************************************************)
EXTENDS Integers

CONSTANTS
    Handlers,        \* connections handling a BUNDLE_REQUEST
    Recipients,
    Cap,             \* BUNDLE_REQ_PER_RECIPIENT_PER_HOUR
    CounterMax,      \* the largest u32
    Retention,       \* BUCKET_RETENTION_HOURS
    LastHour,        \* bound: the clock stops here
    MaxLosses,       \* bound: exits that lose increments
    NoHour

ASSUME BundleAssumption ==
    /\ Cap \in Nat /\ CounterMax \in Nat /\ Cap < CounterMax
    /\ Retention \in Nat /\ LastHour \in Nat
    /\ NoHour \notin Nat

Hours == 0..LastHour

VARIABLES
    hour,     \* current_hour_bucket()
    counts,   \* recipient -> hour -> count, 0 when there is no bucket
    countsFile,     \* the counts at the last persist
    countsDirty,
    countsUp,
    bucket,   \* handler -> the hour it read, before it has the lock
    passed,   \* history: recipient -> hour -> requests let through
    losses    \* history: exits with unflushed increments

bundleVars == <<hour, counts, countsFile, countsDirty, countsUp, bucket, passed, losses>>

---------------------------------------------------------------------------
NoCounts == [r \in Recipients |-> [h \in Hours |-> 0]]

CutoffHour == IF hour > Retention THEN hour - Retention ELSE 0
IsStaleBucket(h) == h < CutoffHour
Kept(c) == [r \in Recipients |-> [h \in Hours |->
               IF IsStaleBucket(h) THEN 0 ELSE c[r][h]]]

SaturatingAdd(n) == IF n < CounterMax THEN n + 1 ELSE CounterMax

BundleInit ==
    /\ hour = 0
    /\ counts = NoCounts
    /\ countsFile = NoCounts
    /\ countsDirty = FALSE
    /\ countsUp = TRUE
    /\ bucket = [x \in Handlers |-> NoHour]
    /\ passed = NoCounts
    /\ losses = 0

\* The request passed its spoof and hashcash checks; the hour is read.
ReadHour(x) ==
    /\ countsUp
    /\ bucket[x] = NoHour
    /\ bucket' = [bucket EXCEPT ![x] = hour]
    /\ UNCHANGED <<hour, counts, countsFile, countsDirty, countsUp, passed, losses>>

\* increment under the lock: the attempt counts even when it is over the cap.
Increment(x, r) ==
    LET count == SaturatingAdd(counts[r][bucket[x]]) IN
    /\ countsUp
    /\ bucket[x] # NoHour
    /\ counts' = [counts EXCEPT ![r][bucket[x]] = count]
    /\ countsDirty' = TRUE
    /\ passed' = IF count > Cap THEN passed
                 ELSE [passed EXCEPT ![r][bucket[x]] = @ + 1]
    /\ bucket' = [bucket EXCEPT ![x] = NoHour]
    /\ UNCHANGED <<hour, countsFile, countsUp, losses>>

\* Mutant: the timer keeps only the current hour's bucket.
MutGcStale ==
    /\ countsUp
    /\ counts' = [r \in Recipients |-> [h \in Hours |->
                     IF h < hour THEN 0 ELSE counts[r][h]]]
    /\ countsDirty' = (countsDirty \/ counts' # counts)
    /\ UNCHANGED <<hour, countsFile, countsUp, bucket, passed, losses>>

GcStale ==
    /\ countsUp
    /\ counts' = Kept(counts)
    /\ countsDirty' = (countsDirty \/ counts' # counts)
    /\ UNCHANGED <<hour, countsFile, countsUp, bucket, passed, losses>>

\* Mutant: the mark is cleared whether or not persist succeeds.
MutBundleFlush ==
    /\ countsUp
    /\ countsDirty
    /\ countsFile' \in {countsFile, counts}
    /\ countsDirty' = FALSE
    /\ UNCHANGED <<hour, counts, countsUp, bucket, passed, losses>>

\* flush; when persist fails nothing changes and the mark stays.
BundleFlush ==
    /\ countsUp
    /\ countsDirty
    /\ countsFile' = counts
    /\ countsDirty' = FALSE
    /\ UNCHANGED <<hour, counts, countsUp, bucket, passed, losses>>

\* Graceful exit (Drop persists what is marked), or a loss: a crash, or a
\* Drop whose persist fails.
BundleExit ==
    /\ countsUp
    /\ \/ countsFile' = (IF countsDirty THEN counts ELSE countsFile) /\ UNCHANGED losses
       \/ countsDirty /\ losses < MaxLosses /\ losses' = losses + 1 /\ UNCHANGED countsFile
    /\ counts' = NoCounts
    /\ countsDirty' = FALSE
    /\ countsUp' = FALSE
    /\ bucket' = [x \in Handlers |-> NoHour]
    /\ UNCHANGED <<hour, passed>>

BundleLoad ==
    /\ ~countsUp
    /\ counts' = Kept(countsFile)
    /\ countsUp' = TRUE
    /\ UNCHANGED <<hour, countsFile, countsDirty, bucket, passed, losses>>

\* No handler waits for the lock longer than Retention hours.
BundleTick ==
    /\ hour < LastHour
    /\ \A x \in Handlers : bucket[x] # NoHour => hour + 1 - bucket[x] <= Retention
    /\ hour' = hour + 1
    /\ UNCHANGED <<counts, countsFile, countsDirty, countsUp, bucket, passed, losses>>

BundleNext ==
    \/ \E x \in Handlers : ReadHour(x) \/ \E r \in Recipients : Increment(x, r)
    \/ GcStale
    \/ BundleFlush
    \/ BundleExit
    \/ BundleLoad
    \/ BundleTick

BundleSpec == BundleInit /\ [][BundleNext]_bundleVars

---------------------------------------------------------------------------
(* Properties *)

\* Every exit that loses increments hands out at most one fresh budget, and
\* nothing else does: not the wrap of the counter, not the bucket timer, not
\* a graceful restart, not a handler that crosses the hour.
BudgetPerLoss ==
    \A r \in Recipients, h \in Hours : passed[r][h] <= Cap * (1 + losses)

Buckets(c) == {<<r, h, c[r][h]>> : r \in Recipients,
                  h \in {g \in Hours : ~IsStaleBucket(g)}}
                 \ {<<r, h, 0>> : r \in Recipients, h \in Hours}
DeferredCounts == INSTANCE DeferredStore WITH
    mem <- Buckets(counts), disk <- Buckets(countsFile), dirty <- countsDirty, up <- countsUp

\* The store implements DeferredStore.
BundleImplementsDeferred == DeferredCounts!Spec
=============================================================================
