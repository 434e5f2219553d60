------------------------ MODULE ChainValidatorStore ------------------------
(***************************************************************************)
(* The relay's hash-chain delivery-token validator                         *)
(* (relay/src/chain_validator_store.rs): an in-memory map of chain         *)
(* cursors, made durable by a snapshot file and an fsync'd append-only     *)
(* journal.  The store is behind one mutex, so its operations do not       *)
(* interleave with each other, but the process may die between any two of  *)
(* the file operations an operation makes, and a file operation may fail.  *)
(*                                                                         *)
(* A chain value is a pair <<r, p>>: hashing it p times gives the root     *)
(* <<r, 0>> of chain r.  Values of different chains never meet (BLAKE3 is  *)
(* taken to be collision free).                                            *)
(***************************************************************************)
EXTENDS Integers, Sequences, FiniteSets

CONSTANTS
    Peers,             \* recipients that register chains
    ChainIds,          \* relay-scoped chain identifiers
    Roots,             \* names of hash chains
    Lengths,           \* chain lengths a registration may claim
    MaxChainLength,    \* MAX_CHAIN_LENGTH
    MaxValidateSteps,  \* MAX_VALIDATE_STEPS
    MaxChainsPerPeer,  \* MAX_CHAINS_PER_PEER
    MaxTotalChains,    \* MAX_TOTAL_CHAINS
    CompactThreshold,  \* JOURNAL_COMPACT_THRESHOLD
    MaxAge,            \* the idle TTL main.rs passes (CHAIN_VALIDATOR_IDLE_TTL)
    Tears,             \* what may leave a partial record: "crash", "error"
    IoErrors,          \* TRUE: a file operation may fail
    MaxTime,           \* bound: the clock stops here
    MaxJournal,        \* bound: no operation starts with a longer journal
    None               \* the absent map entry

ASSUME ChainAssumption ==
    /\ Lengths \subseteq Nat
    /\ MaxChainLength \in Nat
    /\ MaxValidateSteps \in Nat \ {0}
    /\ MaxChainsPerPeer \in Nat \ {0}
    /\ MaxTotalChains \in Nat \ {0}
    /\ CompactThreshold \in Nat \ {0}
    /\ MaxAge \in Nat \ {0}
    /\ MaxTime \in Nat \ {0}
    /\ MaxJournal \in Nat
    /\ IoErrors \in BOOLEAN
    /\ Tears \subseteq {"crash", "error"}

Keys == Peers \X ChainIds
Values == Roots \X Int

\* ChainState; registered_unix is never read and is left out.
ChainState == [root : Values, length : Nat, last_index : Nat,
               last_value : Values, last_used : Nat]

ASSUME NoneAssumption == None \notin ChainState

VARIABLES
    map,       \* (peer, chain id) -> ChainState or None
    journalLen,\* records appended since the last compaction
    snapshot,  \* the snapshot file
    journal,   \* the journal file: records [key, entry], or a torn one
    pc,        \* where the store is between two file operations
    op,        \* the operation that is being made durable
    off,       \* read position of replay_journal
    now,       \* unix_now()
    reply,     \* outcome returned by the last finished operation
    spent      \* history: highest index Accepted per chain, and when

vars == <<map, journalLen, snapshot, journal, pc, op, off, now, reply, spent>>

---------------------------------------------------------------------------
(* Values and pure helpers *)

\* A journal record, and the partial bytes of one.
Record(k, e) == [torn |-> FALSE, key |-> k, entry |-> e]
TornRecord(k, e) == [torn |-> TRUE, key |-> k, entry |-> e]

\* `delta` applications of the hash.
Walk(v, delta) == <<v[1], v[2] - delta>>

Cutoff == IF now > MaxAge THEN now - MaxAge ELSE 0
IsStale(t) == t <= Cutoff

Present(m) == {k \in Keys : m[k] # None}
PeerChains(m, p) == {k \in Present(m) : k[1] = p}

Doing(kind, k) == [kind |-> kind, key |-> k]
Idle == Doing("none", None)

Advanced(e, index, value) ==
    [root |-> e.root, length |-> e.length, last_index |-> index,
     last_value |-> value, last_used |-> now]

RegisterOutcome(k, root, len) ==
    IF len = 0 \/ len > MaxChainLength THEN "BadLength"
    ELSE IF map[k] # None
    THEN IF map[k].root = root /\ map[k].length = len
         THEN "AlreadyRegistered" ELSE "Conflict"
    ELSE IF \/ Cardinality(Present(map)) >= MaxTotalChains
            \/ Cardinality(PeerChains(map, k[1])) >= MaxChainsPerPeer
    THEN "RejectedCap"
    ELSE "Registered"

ValidateOutcome(k, index, value) ==
    IF map[k] = None THEN "UnknownChain"
    ELSE IF index = 0 \/ index <= map[k].last_index \/ index > map[k].length
    THEN "OutOfRange"
    ELSE IF index - map[k].last_index > MaxValidateSteps THEN "OutOfRange"
    ELSE IF Walk(value, index - map[k].last_index) # map[k].last_value
    THEN "BadChainValue"
    ELSE "Accepted"

\* A record never regresses a cursor it finds in the map.
ApplyMonotonic(m, k, e) ==
    IF m[k] # None /\ e.last_index < m[k].last_index
    THEN m ELSE [m EXCEPT ![k] = e]

PurgeStale(doc) ==
    [k \in Keys |-> IF doc[k] # None /\ IsStale(doc[k].last_used)
                    THEN None ELSE doc[k]]

---------------------------------------------------------------------------
(* The operations, up to their first file operation *)

Init ==
    /\ map = [k \in Keys |-> None]
    /\ journalLen = 0
    /\ snapshot = [k \in Keys |-> None]
    /\ journal = <<>>
    /\ pc = "idle"
    /\ op = Idle
    /\ off = 0
    /\ now = 1
    /\ reply = "none"
    /\ spent = [k \in Keys |-> [index |-> 0, when |-> 0]]

files == <<snapshot, journal>>

\* register: every refusal returns before the map is touched.
Register(k, root, len) ==
    /\ pc = "idle"
    /\ Len(journal) < MaxJournal
    /\ \/ /\ RegisterOutcome(k, root, len) # "Registered"
          /\ reply' = RegisterOutcome(k, root, len)
          /\ UNCHANGED <<map, pc, op>>
       \/ /\ RegisterOutcome(k, root, len) = "Registered"
          /\ map' = [map EXCEPT ![k] =
                        [root |-> root, length |-> len, last_index |-> 0,
                         last_value |-> root, last_used |-> now]]
          /\ pc' = "append"
          /\ op' = Doing("register", k)
          /\ UNCHANGED reply
    /\ UNCHANGED <<files, journalLen, off, now, spent>>

\* Mutant: the cursor's value is not advanced with its index.
MutValidate(k, index, value) ==
    /\ pc = "idle"
    /\ Len(journal) < MaxJournal
    /\ ValidateOutcome(k, index, value) = "Accepted"
    /\ map' = [map EXCEPT ![k] = Advanced(map[k], index, map[k].last_value)]
    /\ pc' = "append"
    /\ op' = Doing("validate", k)
    /\ UNCHANGED <<files, journalLen, off, now, spent, reply>>

\* validate: the cursor moves in memory before the journal append.
Validate(k, index, value) ==
    /\ pc = "idle"
    /\ Len(journal) < MaxJournal
    /\ \/ /\ ValidateOutcome(k, index, value) # "Accepted"
          /\ reply' = ValidateOutcome(k, index, value)
          /\ UNCHANGED <<map, pc, op>>
       \/ /\ ValidateOutcome(k, index, value) = "Accepted"
          /\ map' = [map EXCEPT ![k] = Advanced(map[k], index, value)]
          /\ pc' = "append"
          /\ op' = Doing("validate", k)
          /\ UNCHANGED reply
    /\ UNCHANGED <<files, journalLen, off, now, spent>>

\* gc_expired: compacts only when it dropped something.
GcExpired ==
    /\ pc = "idle"
    /\ PurgeStale(map) # map
    /\ map' = PurgeStale(map)
    /\ pc' = "snapshot"
    /\ op' = Doing("gc", None)
    /\ UNCHANGED <<files, journalLen, off, now, reply, spent>>
---------------------------------------------------------------------------
(* File operations *)

Outcome == [register |-> "Registered", validate |-> "Accepted",
            gc |-> "Collected", load |-> "Loaded"]

\* The running operation returns Ok; an Accepted token counts as spent.
Finish ==
    /\ pc' = "idle"
    /\ op' = Idle
    /\ reply' = Outcome[op.kind]
    /\ spent' = IF op.kind = "validate"
                THEN [spent EXCEPT ![op.key] =
                         [index |-> map[op.key].last_index,
                          when  |-> map[op.key].last_used]]
                ELSE spent

\* Mutant: the write is left to the next compaction.
MutAppendJournal ==
    /\ pc = "append"
    /\ journalLen' = journalLen + 1
    /\ IF journalLen + 1 >= CompactThreshold
       THEN pc' = "snapshot" /\ UNCHANGED <<op, reply, spent>>
       ELSE Finish
    /\ UNCHANGED <<map, files, off, now>>

\* append_journal: write and fsync one record, compact at the threshold.
AppendJournal ==
    /\ pc = "append"
    /\ journal' = Append(journal, Record(op.key, map[op.key]))
    /\ journalLen' = journalLen + 1
    /\ IF journalLen + 1 >= CompactThreshold
       THEN pc' = "snapshot" /\ UNCHANGED <<op, reply, spent>>
       ELSE Finish
    /\ UNCHANGED <<map, snapshot, off, now>>

\* Mutant: the journal is emptied before the snapshot is written.
MutWriteSnapshot ==
    /\ pc = "snapshot"
    /\ journal' = <<>>
    /\ pc' = "truncate"
    /\ UNCHANGED <<map, journalLen, snapshot, op, off, now, reply, spent>>

\* compact, first half: write_snapshot (write_atomic: all or nothing).
WriteSnapshot ==
    /\ pc = "snapshot"
    /\ snapshot' = map
    /\ pc' = "truncate"
    /\ UNCHANGED <<map, journalLen, journal, op, off, now, reply, spent>>

\* compact, second half: truncate_journal.
TruncateJournal ==
    /\ pc = "truncate"
    /\ journal' = <<>>
    /\ journalLen' = 0
    /\ Finish
    /\ UNCHANGED <<map, snapshot, off, now>>

\* What an interrupted append can leave behind in the journal file.
Interrupted(cause) ==
    {journal, Append(journal, Record(op.key, map[op.key]))}
        \cup (IF cause \in Tears
              THEN {Append(journal, TornRecord(op.key, map[op.key]))} ELSE {})

\* `?` on a file operation: the error goes to the caller with the map as it
\* is.  During load it ends the process.
IoError ==
    /\ IoErrors
    /\ pc \in {"append", "snapshot", "truncate"}
    /\ journal' \in IF pc = "append" THEN Interrupted("error")
                    ELSE IF pc = "truncate" THEN {journal, <<>>}
                    ELSE {journal}
    /\ IF op.kind = "load"
       THEN /\ pc' = "down"
            /\ map' = [k \in Keys |-> None]
            /\ journalLen' = 0
       ELSE /\ pc' = "idle"
            /\ UNCHANGED <<map, journalLen>>
    /\ op' = Idle
    /\ reply' = "Err"
    /\ UNCHANGED <<snapshot, off, now, spent>>

\* The process dies (panic = "abort", kill, power loss): memory is lost.
Crash ==
    /\ pc # "down"
    /\ journal' \in IF pc = "append" THEN Interrupted("crash") ELSE {journal}
    /\ map' = [k \in Keys |-> None]
    /\ journalLen' = 0
    /\ pc' = "down"
    /\ op' = Idle
    /\ off' = 0
    /\ reply' = "none"
    /\ UNCHANGED <<snapshot, now, spent>>

---------------------------------------------------------------------------
(* load_or_create *)

LoadSnapshot ==
    /\ pc = "down"
    /\ map' = PurgeStale(snapshot)
    /\ pc' = "replay"
    /\ op' = Doing("load", None)
    /\ off' = 1
    /\ UNCHANGED <<files, journalLen, now, reply, spent>>

\* The bytes of a torn record end replay, whatever follows them.
Readable == off <= Len(journal) /\ ~journal[off].torn

\* One iteration of replay_journal; a stale record is counted, not applied.
ReplayRecord ==
    /\ pc = "replay"
    /\ Readable
    /\ map' = IF IsStale(journal[off].entry.last_used) THEN map
              ELSE ApplyMonotonic(map, journal[off].key, journal[off].entry)
    /\ off' = off + 1
    /\ journalLen' = journalLen + 1
    /\ UNCHANGED <<files, pc, op, now, reply, spent>>

\* Startup compaction, only if a record was replayed.
ReplayDone ==
    /\ pc = "replay"
    /\ ~Readable
    /\ off' = 0
    /\ IF journalLen > 0
       THEN pc' = "snapshot" /\ UNCHANGED <<op, reply, spent>>
       ELSE Finish
    /\ UNCHANGED <<map, journalLen, files, now>>

\* Wall-clock time passes.  replay_journal computes its cutoff once, so the
\* clock stands still while it runs.
Tick ==
    /\ now < MaxTime
    /\ pc # "replay"
    /\ now' = now + 1
    /\ UNCHANGED <<map, journalLen, files, pc, op, off, reply, spent>>

Next ==
    \/ \E k \in Keys, r \in Roots, len \in Lengths : Register(k, <<r, 0>>, len)
    \/ \E k \in Keys, r \in Roots, i \in 0..(MaxChainLength + 1),
          p \in 0..MaxChainLength : Validate(k, i, <<r, p>>)
    \/ GcExpired
    \/ AppendJournal
    \/ WriteSnapshot
    \/ TruncateJournal
    \/ IoError
    \/ Crash
    \/ LoadSnapshot
    \/ ReplayRecord
    \/ ReplayDone
    \/ Tick

Spec == Init /\ [][Next]_vars

---------------------------------------------------------------------------
(* Properties *)

Entries == ChainState \cup {None}
JournalRecord == [torn : BOOLEAN, key : Keys, entry : ChainState]
Operation == [kind : {"none", "register", "validate", "gc", "load"},
              key : Keys \cup {None}]

\* Every variable has its type; while an append is pending its chain is in
\* the map.
TypeOK ==
    /\ map \in [Keys -> Entries]
    /\ snapshot \in [Keys -> Entries]
    /\ journalLen \in Nat
    /\ journal \in Seq(JournalRecord)
    /\ pc \in {"idle", "append", "snapshot", "truncate", "replay", "down"}
    /\ op \in Operation
    /\ pc = "append" \/ op.kind \in {"register", "validate"} =>
          op.key \in Keys /\ map[op.key] # None
    /\ off \in Nat /\ (pc = "replay" => off > 0)
    /\ now \in Nat
    /\ spent \in [Keys -> [index : Nat, when : Nat]]

\* Replay protection (validate, "the replay guarantee"): while a chain is
\* within its idle TTL, a token at or below an accepted index is never
\* accepted again, whatever crashes, restarts, failed file operations and
\* compactions happen between the two presentations.
Accepting == op.kind = "validate" /\ reply' = "Accepted" /\ pc' = "idle"
NoReplay ==
    [][Accepting => \/ map[op.key].last_index > spent[op.key].index
                    \/ IsStale(spent[op.key].when)]_vars

\* A serving store has a cursor at or past every token it accepted on a
\* chain within its idle TTL, also right after load_or_create.
CursorCoversSpent ==
    pc \in {"idle", "append"} =>
        \A k \in Keys : spent[k].index > 0 /\ ~IsStale(spent[k].when) =>
            map[k] # None /\ map[k].last_index >= spent[k].index

\* Each cursor, in memory and on disk, is a value of the registered chain:
\* hashing last_value last_index times gives the root (validate's walk,
\* kept through journal, snapshot and monotone replay).
OnChain(e) == Walk(e.last_value, e.last_index) = e.root /\ e.last_index <= e.length
CursorOnChain ==
    /\ \A k \in Keys : map[k] # None => OnChain(map[k])
    /\ \A k \in Keys : snapshot[k] # None => OnChain(snapshot[k])
    /\ \A j \in 1..Len(journal) : ~journal[j].torn => OnChain(journal[j].entry)

---------------------------------------------------------------------------
(* The inductive strengthening behind NoReplay, for journals that are never *)
(* torn: what the files say of a chain is totally ordered, memory is ahead  *)
(* of all of it, and it covers what was accepted.                           *)

DiskEntries(k) ==
    ({snapshot[k]} \ {None}) \cup
        {journal[j].entry : j \in {i \in 1..Len(journal) :
                                    ~journal[i].torn /\ journal[i].key = k}}
FreshEntries(k) == {e \in DiskEntries(k) : ~IsStale(e.last_used)}

Below(e, f) ==
    e = f \/ (e.last_index < f.last_index /\ e.last_used <= f.last_used)
Covers(e, k) == e.last_index >= spent[k].index /\ e.last_used >= spent[k].when
Live(k) == spent[k].index > 0 /\ ~IsStale(spent[k].when)

\* No timestamp is ahead of the clock.
TimesPast ==
    \A k \in Keys :
        /\ map[k] # None => map[k].last_used <= now
        /\ \A e \in DiskEntries(k) : e.last_used <= now
        /\ spent[k].when <= now

NoTornRecord == \A j \in 1..Len(journal) : ~journal[j].torn

\* Two fresh entries of one chain are comparable.
DiskOrdered ==
    \A k \in Keys : \A e, f \in FreshEntries(k) : Below(e, f) \/ Below(f, e)

Serving == pc \in {"idle", "append", "snapshot", "truncate"}

\* Memory is at or ahead of every fresh entry on disk.
MemoryDominates ==
    Serving => \A k \in Keys : \A e \in FreshEntries(k) :
                  map[k] # None /\ Below(e, map[k])

\* What was accepted is on disk.
SpentOnDisk ==
    \A k \in Keys : Live(k) => \E e \in FreshEntries(k) : Covers(e, k)

\* Entries replay_journal has already gone past.
ReadEntries(k) ==
    {e \in FreshEntries(k) :
        \/ e = snapshot[k]
        \/ \E j \in 1..Len(journal) :
              /\ j < off
              /\ ~journal[j].torn
              /\ journal[j].key = k
              /\ journal[j].entry = e}

ReplayProgress ==
    pc = "replay" =>
        /\ off <= Len(journal) + 1
        /\ op.kind = "load"
        /\ \A k \in Keys :
              /\ map[k] # None => map[k] \in FreshEntries(k)
              /\ \A e \in ReadEntries(k) : map[k] # None /\ Below(e, map[k])

\* Between a snapshot and the truncation the two agree; a pending token is
\* above the spent one.
InFlight ==
    /\ pc = "truncate" => snapshot = map
    /\ pc = "append" => op.kind \in {"register", "validate"}
    /\ pc \in {"idle", "down"} <=> op.kind = "none"
    /\ op.kind = "validate" => \/ map[op.key].last_index > spent[op.key].index
                              \/ IsStale(spent[op.key].when)

\* The inductive invariant of the replay guarantee.
ReplayInv ==
    /\ TypeOK
    /\ TimesPast
    /\ NoTornRecord
    /\ DiskOrdered
    /\ MemoryDominates
    /\ SpentOnDisk
    /\ ReplayProgress
    /\ InFlight
=============================================================================
