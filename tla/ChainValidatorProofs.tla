----------------------- MODULE ChainValidatorProofs -----------------------
(***************************************************************************)
(* Proofs about ChainValidatorStore: for every set of peers and chains and *)
(* every value of the bounds, a store whose appends are never torn keeps   *)
(* its replay guarantee through crashes, I/O errors, compactions and       *)
(* reloads.                                                                *)
(***************************************************************************)
EXTENDS ChainValidatorStore, TLAPS

USE SMTT(20), ZenonT(20)

---------------------------------------------------------------------------
(* Facts about the helpers *)

\* The fields of a chain state have their types.
LEMMA Fields ==
  ASSUME NEW e \in ChainState
  PROVE  /\ e.root \in Values /\ e.length \in Nat /\ e.last_index \in Nat
         /\ e.last_value \in Values /\ e.last_used \in Nat
  BY DEF ChainState

\* A freshly registered chain is a chain state.
LEMMA FreshType ==
  ASSUME NEW r \in Roots, NEW len \in Lengths, now \in Nat
  PROVE  [root |-> <<r, 0>>, length |-> len, last_index |-> 0,
          last_value |-> <<r, 0>>, last_used |-> now] \in ChainState
  BY ChainAssumption DEF ChainState, Values

\* Advancing a cursor gives a chain state.
LEMMA AdvancedType ==
  ASSUME NEW e \in ChainState, NEW i \in Nat, NEW v \in Values, now \in Nat
  PROVE  Advanced(e, i, v) \in ChainState
  BY DEF Advanced, ChainState

\* A pending append is about a chain in the map.
LEMMA PendingEntry ==
  ASSUME TypeOK, pc = "append" \/ op.kind \in {"register", "validate"}
  PROVE  op.key \in Keys /\ map[op.key] \in ChainState
  BY DEF TypeOK, Entries

\* What Finish leaves is well typed.
LEMMA FinishType ==
  ASSUME TypeOK, Finish
  PROVE  /\ op' \in Operation /\ op'.kind = "none" /\ pc' = "idle"
         /\ spent' \in [Keys -> [index : Nat, when : Nat]]
<1>1. op' \in Operation /\ op'.kind = "none" /\ pc' = "idle"
  BY DEF Finish, Idle, Doing, Operation
<1>2. CASE op.kind = "validate"
  <2>1. op.key \in Keys /\ map[op.key].last_index \in Nat
                        /\ map[op.key].last_used \in Nat
    BY <1>2, PendingEntry, Fields
  <2> QED
    BY <1>1, <1>2, <2>1 DEF Finish, TypeOK
<1>3. CASE op.kind # "validate"
  BY <1>1, <1>3 DEF Finish, TypeOK
<1> QED
  BY <1>2, <1>3

\* What an interrupted append leaves is a sequence of records.
LEMMA InterruptedType ==
  ASSUME TypeOK, pc = "append", NEW cause, NEW j \in Interrupted(cause)
  PROVE  j \in Seq(JournalRecord)
<1>1. /\ Record(op.key, map[op.key]) \in JournalRecord
      /\ TornRecord(op.key, map[op.key]) \in JournalRecord
  BY PendingEntry DEF Record, TornRecord, JournalRecord
<1>2. journal \in Seq(JournalRecord)
  BY DEF TypeOK
<1> QED
  BY ONLY <1>1, <1>2 DEF Interrupted

\* purge_stale keeps a map well typed.
LEMMA PurgeType ==
  ASSUME NEW m \in [Keys -> Entries]
  PROVE  PurgeStale(m) \in [Keys -> Entries]
  BY DEF PurgeStale, Entries

---------------------------------------------------------------------------
(* Type correctness *)

\* The store starts empty and well typed.
LEMMA TypeInit == Init => TypeOK
<1> SUFFICES ASSUME Init PROVE TypeOK
  OBVIOUS
<1>1. op \in Operation /\ op.kind = "none"
  BY DEF Init, Operation, Idle, Doing
<1> QED
  BY <1>1 DEF Init, TypeOK, Entries

\* Every operation, file step, crash and load of the store keeps its types.
LEMMA TypeNext == TypeOK /\ [Next]_vars => TypeOK'
<1> SUFFICES ASSUME TypeOK, [Next]_vars PROVE TypeOK'
  OBVIOUS
<1> USE DEF TypeOK
<1>1. ASSUME NEW k \in Keys, NEW r \in Roots, NEW len \in Lengths,
             Register(k, <<r, 0>>, len)
      PROVE  TypeOK'
  <2>1. CASE map' = map /\ UNCHANGED <<pc, op>>
    BY <1>1, <2>1 DEF Register, files
  <2>2. CASE /\ map' = [map EXCEPT ![k] =
                        [root |-> <<r, 0>>, length |-> len, last_index |-> 0,
                         last_value |-> <<r, 0>>, last_used |-> now]]
             /\ pc' = "append"
             /\ op' = Doing("register", k)
    <3>1. op' \in Operation /\ op'.key = k /\ op'.kind = "register"
      BY <2>2 DEF Doing, Operation
    <3>2. map' \in [Keys -> Entries] /\ map'[k] # None
      BY <2>2, FreshType, NoneAssumption DEF Entries
    <3> QED
      BY <1>1, <2>2, <3>1, <3>2 DEF Register, files
  <2> QED
    BY <1>1, <2>1, <2>2, Zenon DEF Register
<1>2. ASSUME NEW k \in Keys, NEW r \in Roots,
             NEW i \in 0..(MaxChainLength + 1), NEW p \in 0..MaxChainLength,
             Validate(k, i, <<r, p>>)
      PROVE  TypeOK'
  <2>1. CASE map' = map /\ UNCHANGED <<pc, op>>
    BY <1>2, <2>1 DEF Validate, files
  <2>2. CASE /\ ValidateOutcome(k, i, <<r, p>>) = "Accepted"
             /\ map' = [map EXCEPT ![k] = Advanced(map[k], i, <<r, p>>)]
             /\ pc' = "append"
             /\ op' = Doing("validate", k)
    <3>1. op' \in Operation /\ op'.key = k /\ op'.kind = "validate"
      BY <2>2 DEF Doing, Operation
    <3>2. map[k] \in ChainState
      BY <2>2 DEF ValidateOutcome, Entries
    <3>3. i \in Nat /\ <<r, p>> \in Values
      BY ChainAssumption DEF Values
    <3>4. map' \in [Keys -> Entries] /\ map'[k] # None
      BY <2>2, <3>2, <3>3, AdvancedType, NoneAssumption DEF Entries
    <3> QED
      BY <1>2, <2>2, <3>1, <3>4 DEF Validate, files
  <2> QED
    BY <1>2, <2>1, <2>2, Zenon DEF Validate
<1>3. CASE GcExpired
  <2>1. op' \in Operation /\ op'.kind = "gc" /\ pc' = "snapshot"
    BY <1>3 DEF GcExpired, Doing, Operation
  <2> QED
    BY <1>3, <2>1, PurgeType DEF GcExpired, files
<1>4. CASE AppendJournal
  <2>1. journal' \in Seq(JournalRecord)
    BY <1>4, PendingEntry DEF AppendJournal, Record, JournalRecord
  <2>2. CASE Finish
    BY <1>4, <2>1, <2>2, FinishType DEF AppendJournal
  <2>3. CASE pc' = "snapshot" /\ UNCHANGED <<op, reply, spent>>
    BY <1>4, <2>1, <2>3 DEF AppendJournal
  <2> QED
    BY <1>4, <2>2, <2>3 DEF AppendJournal
<1>5. CASE WriteSnapshot
  BY <1>5 DEF WriteSnapshot
<1>6. CASE TruncateJournal
  BY <1>6, FinishType DEF TruncateJournal
<1>7. CASE IoError
  <2>1. journal' \in Seq(JournalRecord)
    <3>1. CASE pc = "append"
      BY <1>7, <3>1, InterruptedType DEF IoError
    <3>2. CASE pc # "append"
      <4>1. journal' = journal \/ journal' = <<>>
        <5> HIDE DEF TypeOK
        <5> QED BY <1>7, <3>2 DEF IoError
      <4>2. CASE journal' = journal
        BY <4>2
      <4>3. CASE journal' = <<>>
        BY <4>3
      <4> QED BY <4>1, <4>2, <4>3
    <3> QED
      BY <3>1, <3>2
  <2>2. op' \in Operation /\ op'.kind = "none"
    BY <1>7 DEF IoError, Idle, Doing, Operation
  <2>3. map' \in [Keys -> Entries] /\ pc' \in {"down", "idle"} /\ journalLen' \in Nat
    BY <1>7 DEF IoError, Entries
  <2> QED
    BY <1>7, <2>1, <2>2, <2>3 DEF IoError
<1>8. CASE Crash
  <2>1. journal' \in Seq(JournalRecord)
    BY <1>8, InterruptedType DEF Crash
  <2>2. op' \in Operation /\ op'.kind = "none"
    BY <1>8 DEF Crash, Idle, Doing, Operation
  <2> QED
    BY <1>8, <2>1, <2>2 DEF Crash, Entries
<1>9. CASE LoadSnapshot
  <2>1. op' \in Operation /\ op'.kind = "load" /\ pc' = "replay"
    BY <1>9 DEF LoadSnapshot, Doing, Operation
  <2> QED
    BY <1>9, <2>1, PurgeType DEF LoadSnapshot, files
<1>10. CASE ReplayRecord
  <2>1. journal[off] \in JournalRecord
    BY <1>10 DEF ReplayRecord, Readable
  <2>2. journal[off].key \in Keys /\ journal[off].entry \in ChainState
    BY <2>1 DEF JournalRecord
  <2>3. map' \in [Keys -> Entries]
    BY <1>10, <2>2 DEF ReplayRecord, ApplyMonotonic, Entries
  <2>4. ASSUME NEW k \in Keys, map[k] # None PROVE map'[k] # None
    BY <1>10, <2>2, <2>4, NoneAssumption DEF ReplayRecord, ApplyMonotonic, Entries
  <2> QED
    BY <1>10, <2>3, <2>4 DEF ReplayRecord, files
<1>11. CASE ReplayDone
  BY <1>11, FinishType, Zenon DEF ReplayDone, files
<1>12. CASE Tick
  BY <1>12 DEF Tick, files
<1>13. CASE UNCHANGED vars
  BY <1>13 DEF vars
<1> QED
  BY <1>1, <1>2, <1>3, <1>4, <1>5, <1>6, <1>7, <1>8, <1>9, <1>10, <1>11,
     <1>12, <1>13 DEF Next

\* Every operation keeps the variables in their types, torn appends included.
THEOREM TypeCorrect == Spec => []TypeOK
  BY TypeInit, TypeNext, PTL DEF Spec

---------------------------------------------------------------------------
(* Cursors stay on their chains, torn appends included *)

\* A fresh chain's cursor is its root; an accepted value that hashes to the
\* cursor lies as far from the root as its index says.
LEMMA OnChainSteps ==
  /\ \A r \in Roots, len \in Nat :
        OnChain([root |-> <<r, 0>>, length |-> len, last_index |-> 0,
                 last_value |-> <<r, 0>>, last_used |-> now])
  /\ \A e \in ChainState, i \in Nat, v \in Values :
        OnChain(e) /\ i <= e.length /\ Walk(v, i - e.last_index) = e.last_value
            => OnChain(Advanced(e, i, v))
<1>1. ASSUME NEW r \in Roots, NEW len \in Nat
      PROVE  OnChain([root |-> <<r, 0>>, length |-> len, last_index |-> 0,
                      last_value |-> <<r, 0>>, last_used |-> now])
  BY DEF OnChain, Walk
<1>2. ASSUME NEW e \in ChainState, NEW i \in Nat, NEW v \in Values,
             OnChain(e), i <= e.length, Walk(v, i - e.last_index) = e.last_value
      PROVE  OnChain(Advanced(e, i, v))
  <2>1. e.last_index \in Nat /\ v = <<v[1], v[2]>> /\ v[2] \in Int
    BY Fields DEF Values
  <2>2. e.last_value = <<v[1], v[2] - (i - e.last_index)>>
    BY <1>2 DEF Walk
  <2>3. e.root = <<v[1], (v[2] - (i - e.last_index)) - e.last_index>>
    BY <1>2, <2>2 DEF OnChain, Walk
  <2>4. (v[2] - (i - e.last_index)) - e.last_index = v[2] - i
    BY <2>1
  <2> QED
    BY <1>2, <2>3, <2>4 DEF OnChain, Walk, Advanced
<1> QED
  BY <1>1, <1>2

\* The cursors that a memory, or a snapshot, holds are on their chains.
MapOnChain(m) == \A k \in Keys : m[k] # None => OnChain(m[k])

\* So are those of the readable records of a journal.
JournalOnChain(j) == \A i \in 1..Len(j) : ~j[i].torn => OnChain(j[i].entry)

\* A journal stays on its chains when a cursor of the memory is appended to
\* it, torn or not.
LEMMA AppendOnChain ==
  ASSUME TypeOK, pc = "append", MapOnChain(map), JournalOnChain(journal)
  PROVE  /\ JournalOnChain(Append(journal, Record(op.key, map[op.key])))
         /\ JournalOnChain(Append(journal, TornRecord(op.key, map[op.key])))
<1>1. op.key \in Keys /\ map[op.key] # None /\ journal \in Seq(JournalRecord)
  BY DEF TypeOK
<1>2. OnChain(map[op.key])
  BY <1>1 DEF MapOnChain
<1>3. ASSUME NEW r, ~r.torn => OnChain(r.entry)
      PROVE  JournalOnChain(Append(journal, r))
  <2> SUFFICES ASSUME NEW i \in 1..Len(Append(journal, r)), ~Append(journal, r)[i].torn
               PROVE  OnChain(Append(journal, r)[i].entry)
    BY DEF JournalOnChain
  <2>1. CASE i = Len(journal) + 1
    BY <1>1, <1>3, <2>1
  <2>2. CASE i # Len(journal) + 1
    <3>1. i \in 1..Len(journal) /\ Append(journal, r)[i] = journal[i]
      BY <1>1, <2>2
    <3> QED
      BY <3>1 DEF JournalOnChain
  <2> QED
    BY <2>1, <2>2
<1> QED
  BY <1>2, <1>3 DEF Record, TornRecord

\* Whatever an interrupted append leaves is on its chains.
LEMMA InterruptedOnChain ==
  ASSUME TypeOK, pc = "append", MapOnChain(map), JournalOnChain(journal),
         NEW cause, NEW j \in Interrupted(cause)
  PROVE  JournalOnChain(j)
  BY AppendOnChain, Zenon DEF Interrupted

\* Purging takes entries out and changes none.
LEMMA PurgeOnChain ==
  ASSUME NEW m, MapOnChain(m)
  PROVE  MapOnChain(PurgeStale(m))
  BY DEF MapOnChain, PurgeStale

\* Every operation, file step, crash and load leaves the cursors, in memory
\* and on disk, on their chains.
LEMMA OnChainNext ==
  ASSUME TypeOK, CursorOnChain, [Next]_vars
  PROVE  CursorOnChain'
<1>a. MapOnChain(map) /\ MapOnChain(snapshot) /\ JournalOnChain(journal)
  BY DEF CursorOnChain, MapOnChain, JournalOnChain
<1> SUFFICES MapOnChain(map)' /\ MapOnChain(snapshot)' /\ JournalOnChain(journal)'
  BY DEF CursorOnChain, MapOnChain, JournalOnChain
<1>b. MapOnChain([k \in Keys |-> None]) /\ JournalOnChain(<<>>)
  BY DEF MapOnChain, JournalOnChain
<1>c. \A m : MapOnChain(m)' <=> MapOnChain(m)
  BY Zenon DEF MapOnChain, OnChain, Walk
<1>d. ASSUME NEW k \in Keys, NEW e, OnChain(e), map' = [map EXCEPT ![k] = e],
             snapshot' = snapshot, journal' = journal
      PROVE  MapOnChain(map)' /\ MapOnChain(snapshot)' /\ JournalOnChain(journal)'
  <2>1. MapOnChain(map')
    BY <1>a, <1>d, Zenon DEF MapOnChain, TypeOK
  <2> QED
    BY <1>a, <1>d, <2>1, Zenon DEF MapOnChain, JournalOnChain, OnChain, Walk
<1>1. ASSUME NEW k \in Keys, NEW r \in Roots, NEW len \in Lengths,
             Register(k, <<r, 0>>, len)
      PROVE  MapOnChain(map)' /\ MapOnChain(snapshot)' /\ JournalOnChain(journal)'
  <2>1. len \in Nat
    BY ChainAssumption
  <2> QED
    BY <1>a, <1>d, <1>1, <2>1, OnChainSteps, Zenon DEF Register, files, MapOnChain, JournalOnChain
<1>2. ASSUME NEW k \in Keys, NEW r \in Roots,
             NEW i \in 0..(MaxChainLength + 1), NEW p \in 0..MaxChainLength,
             Validate(k, i, <<r, p>>)
      PROVE  MapOnChain(map)' /\ MapOnChain(snapshot)' /\ JournalOnChain(journal)'
  <2>1. CASE map' = map
    BY <1>a, <1>2, <2>1, Zenon DEF Validate, files, MapOnChain, JournalOnChain
  <2>2. CASE /\ ValidateOutcome(k, i, <<r, p>>) = "Accepted"
             /\ map' = [map EXCEPT ![k] = Advanced(map[k], i, <<r, p>>)]
    <3>1. i \in Nat /\ <<r, p>> \in Values
      BY ChainAssumption DEF Values
    <3>2. map[k] # None /\ map[k] \in ChainState
      BY <2>2 DEF ValidateOutcome, TypeOK, Entries
    <3>3. map[k].length \in Nat /\ i <= map[k].length
      BY <2>2, <3>1, <3>2, Fields DEF ValidateOutcome
    <3>4. Walk(<<r, p>>, i - map[k].last_index) = map[k].last_value
      BY <2>2 DEF ValidateOutcome
    <3>5. OnChain(Advanced(map[k], i, <<r, p>>))
      BY <1>a, <3>1, <3>2, <3>3, <3>4, OnChainSteps, Zenon DEF MapOnChain
    <3> QED
      BY <1>2, <1>d, <2>2, <3>5, Zenon DEF Validate, files
  <2> QED
    BY <1>2, <2>1, <2>2 DEF Validate
<1>3. CASE GcExpired
  BY <1>3, <1>a, PurgeOnChain, Zenon DEF GcExpired, files, MapOnChain, JournalOnChain
<1>4. CASE AppendJournal
  <2>1. JournalOnChain(journal')
    BY <1>4, <1>a, AppendOnChain DEF AppendJournal
  <2> QED
    BY <1>4, <1>a, <2>1, Zenon DEF AppendJournal, MapOnChain, JournalOnChain
<1>5. CASE WriteSnapshot
  BY <1>5, <1>a DEF WriteSnapshot, MapOnChain, JournalOnChain
<1>6. CASE TruncateJournal
  BY <1>6, <1>a, <1>b DEF TruncateJournal, MapOnChain, JournalOnChain
<1>7. CASE IoError
  <2>1. JournalOnChain(journal')
    BY <1>7, <1>a, <1>b, InterruptedOnChain DEF IoError
  <2>2. MapOnChain(map')
    BY <1>7, <1>a, <1>b DEF IoError
  <2> QED
    BY <1>7, <1>a, <2>1, <2>2 DEF IoError, MapOnChain, JournalOnChain
<1>8. CASE Crash
  <2>1. JournalOnChain(journal')
    BY <1>8, <1>a, InterruptedOnChain DEF Crash
  <2>2. MapOnChain(map')
    BY <1>8, <1>b DEF Crash
  <2> QED
    BY <1>8, <1>a, <2>1, <2>2 DEF Crash, MapOnChain, JournalOnChain
<1>9. CASE LoadSnapshot
  BY <1>9, <1>a, PurgeOnChain DEF LoadSnapshot, files, MapOnChain, JournalOnChain
<1>10. CASE ReplayRecord
  <2>1. off \in 1..Len(journal) /\ ~journal[off].torn
    BY <1>10 DEF ReplayRecord, Readable, TypeOK
  <2>2. OnChain(journal[off].entry)
    BY <1>a, <2>1, Zenon DEF JournalOnChain
  <2>3. MapOnChain(map')
    BY <1>10, <1>a, <2>2, Zenon DEF ReplayRecord, ApplyMonotonic, MapOnChain, TypeOK
  <2> QED
    BY <1>10, <1>a, <2>3, Zenon DEF ReplayRecord, files, MapOnChain, JournalOnChain
<1>11. CASE ReplayDone
  BY <1>11, <1>a, Zenon DEF ReplayDone, files, MapOnChain, JournalOnChain
<1>12. CASE Tick
  BY <1>12, <1>a DEF Tick, files, MapOnChain, JournalOnChain
<1>13. CASE UNCHANGED vars
  BY <1>13, <1>a DEF vars, MapOnChain, JournalOnChain
<1> QED
  BY <1>1, <1>2, <1>3, <1>4, <1>5, <1>6, <1>7, <1>8, <1>9, <1>10, <1>11,
     <1>12, <1>13 DEF Next

\* Each cursor, in memory and in both files, is the value of its registered
\* chain that its index says, whatever crashes and torn appends there are.
THEOREM CursorsOnChain == Spec => []CursorOnChain
<1>1. Init => CursorOnChain
  BY DEF Init, CursorOnChain
<1>2. TypeOK /\ CursorOnChain /\ [Next]_vars => CursorOnChain'
  BY OnChainNext
<1> QED
  BY <1>1, <1>2, TypeCorrect, PTL DEF Spec

---------------------------------------------------------------------------
(* What the file operations do to the entries on disk *)

\* What the snapshot and the journal hold for a chain are chain states.
LEMMA DiskType ==
  ASSUME TypeOK, NEW k \in Keys
  PROVE  DiskEntries(k) \subseteq ChainState
<1>1. snapshot[k] \in ChainState \cup {None}
  BY DEF TypeOK, Entries
<1>2. \A j \in 1..Len(journal) : journal[j] \in JournalRecord
  BY DEF TypeOK
<1>3. \A r \in JournalRecord : r.entry \in ChainState
  BY DEF JournalRecord
<1> QED
  BY <1>1, <1>2, <1>3 DEF DiskEntries

\* A step that touches no file leaves the entries on disk as they are.
LEMMA SameDisk ==
  ASSUME UNCHANGED <<snapshot, journal>>, NEW k \in Keys
  PROVE  DiskEntries(k)' = DiskEntries(k)
  BY DEF DiskEntries

\* append_journal adds the one entry it writes to what the disk holds.
LEMMA GrowDisk ==
  ASSUME TypeOK, NEW q \in Keys, NEW e \in ChainState, snapshot' = snapshot,
         journal' = Append(journal, Record(q, e)), NEW k \in Keys
  PROVE  DiskEntries(k)' = DiskEntries(k) \cup (IF k = q THEN {e} ELSE {})
<1>1. journal \in Seq(JournalRecord) /\ Record(q, e) \in JournalRecord
  BY DEF TypeOK, Record, JournalRecord
<1>2. /\ Len(journal') = Len(journal) + 1
      /\ \A j \in 1..Len(journal) : journal'[j] = journal[j]
      /\ journal'[Len(journal) + 1] = Record(q, e)
  BY <1>1
<1>3. /\ Record(q, e).torn = FALSE
      /\ Record(q, e).key = q
      /\ Record(q, e).entry = e
  BY DEF Record
<1>4. Len(journal) \in Nat
  BY <1>1
<1>5. ASSUME NEW x \in DiskEntries(k)'
      PROVE  x \in DiskEntries(k) \cup (IF k = q THEN {e} ELSE {})
  <2>1. CASE x \in {snapshot[k]} \ {None}
    BY <2>1 DEF DiskEntries
  <2>2. CASE \E j \in 1..Len(journal') : /\ ~journal'[j].torn
                                        /\ journal'[j].key = k
                                        /\ journal'[j].entry = x
    BY <2>2, <1>2, <1>3, <1>4 DEF DiskEntries
  <2> QED
    BY <1>5, <2>1, <2>2 DEF DiskEntries
<1>6. ASSUME NEW x \in DiskEntries(k) PROVE x \in DiskEntries(k)'
  BY <1>6, <1>2, <1>4 DEF DiskEntries
<1>7. k = q => e \in DiskEntries(k)'
  BY <1>2, <1>3, <1>4 DEF DiskEntries
<1> QED
  BY <1>5, <1>6, <1>7

\* write_snapshot replaces the snapshot; the journal's entries stay beside it.
LEMMA SnapshotDisk ==
  ASSUME snapshot' = map, journal' = journal, NEW k \in Keys
  PROVE  /\ DiskEntries(k)' \subseteq DiskEntries(k) \cup ({map[k]} \ {None})
         /\ map[k] # None => map[k] \in DiskEntries(k)'
  BY DEF DiskEntries

\* truncate_journal leaves the snapshot's entries only.
LEMMA TruncateDisk ==
  ASSUME snapshot' = snapshot, journal' = <<>>, NEW k \in Keys
  PROVE  DiskEntries(k)' = {snapshot[k]} \ {None}
  BY DEF DiskEntries

\* An entry that has expired stays expired.
LEMMA StaleStays ==
  ASSUME now \in Nat, now' = now \/ now' = now + 1, NEW t \in Nat, IsStale(t)
  PROVE  IsStale(t)'
  BY ChainAssumption DEF IsStale, Cutoff

\* Staleness depends on the clock alone.
LEMMA StaleSame ==
  ASSUME now' = now, NEW t
  PROVE  IsStale(t)' <=> IsStale(t)
  BY DEF IsStale, Cutoff

\* An entry at least as recent as a fresh one is fresh.
LEMMA FreshUp ==
  ASSUME now \in Nat, NEW t \in Nat, NEW u \in Nat, t <= u, ~IsStale(t)
  PROVE  ~IsStale(u)
  BY ChainAssumption DEF IsStale, Cutoff

---------------------------------------------------------------------------
(* The replay guarantee *)

\* A serving store covers every live spent token in memory.
LEMMA MapCovers ==
  ASSUME ReplayInv, Serving, NEW k \in Keys, Live(k)
  PROVE  map[k] \in ChainState /\ map[k] # None /\ Covers(map[k], k)
<1>1. PICK e \in FreshEntries(k) : Covers(e, k)
  BY DEF ReplayInv, SpentOnDisk
<1>2. map[k] # None /\ Below(e, map[k])
  BY <1>1 DEF ReplayInv, MemoryDominates
<1>3. e \in ChainState /\ map[k] \in ChainState
  BY <1>2, DiskType, Zenon DEF FreshEntries, ReplayInv, TypeOK, Entries
<1>4. /\ e.last_index \in Nat /\ e.last_used \in Nat
      /\ map[k].last_index \in Nat /\ map[k].last_used \in Nat
      /\ spent[k].index \in Nat /\ spent[k].when \in Nat
  BY <1>3, Fields DEF ReplayInv, TypeOK
<1> QED
  BY <1>1, <1>2, <1>3, <1>4 DEF Below, Covers

\* Below is transitive on chain states.
LEMMA BelowTrans ==
  ASSUME NEW a \in ChainState, NEW b \in ChainState, NEW c \in ChainState,
         Below(a, b), Below(b, c)
  PROVE  Below(a, c)
  BY Fields DEF Below

\* An empty store satisfies the inductive invariant.
LEMMA ReplayInit == Init => ReplayInv
<1> SUFFICES ASSUME Init PROVE ReplayInv
  OBVIOUS
<1>1. TypeOK
  BY TypeInit, Zenon
<1>2. \A k \in Keys : DiskEntries(k) = {}
  BY DEF Init, DiskEntries
<1>3. \A k \in Keys : FreshEntries(k) = {}
  BY <1>2 DEF FreshEntries
<1>4. \A k \in Keys : ~Live(k)
  BY DEF Live, Init
<1>5. TimesPast /\ NoTornRecord /\ InFlight
  BY <1>2 DEF Init, TimesPast, NoTornRecord, InFlight, Idle, Doing
<1>6. DiskOrdered /\ MemoryDominates /\ SpentOnDisk /\ ReplayProgress
  BY <1>3, <1>4 DEF Init, DiskOrdered, MemoryDominates, SpentOnDisk, ReplayProgress
<1> QED
  BY <1>1, <1>5, <1>6 DEF ReplayInv

\* The invariant's parts about the files survive a step that changes neither
\* the files nor the clock nor the history.
LEMMA FilesSame ==
  ASSUME ReplayInv, UNCHANGED <<snapshot, journal, now, spent>>
  PROVE  /\ NoTornRecord' /\ DiskOrdered' /\ SpentOnDisk'
         /\ \A k \in Keys : /\ DiskEntries(k)' = DiskEntries(k)
                            /\ FreshEntries(k)' = FreshEntries(k)
                            /\ Live(k)' <=> Live(k)
<1>1. NoTornRecord'
  BY Zenon DEF ReplayInv, NoTornRecord
<1>2. ASSUME NEW k \in Keys
      PROVE  /\ DiskEntries(k)' = DiskEntries(k)
             /\ FreshEntries(k)' = FreshEntries(k)
             /\ Live(k)' <=> Live(k)
  BY SameDisk, StaleSame DEF FreshEntries, Live
<1>3. DiskOrdered'
  BY <1>2, Zenon DEF ReplayInv, DiskOrdered
<1>4. SpentOnDisk'
  BY <1>2 DEF ReplayInv, SpentOnDisk, Covers
<1> QED
  BY <1>1, <1>2, <1>3, <1>4

\* Steps that leave memory, files, clock and history alone.
LEMMA ReplayStutter ==
  ASSUME ReplayInv,
         UNCHANGED <<map, journalLen, snapshot, journal, pc, op, off, now, spent>>
  PROVE  ReplayInv'
<1>1. TypeOK'
  BY Zenon DEF ReplayInv, TypeOK
<1>3. /\ NoTornRecord' /\ DiskOrdered' /\ SpentOnDisk'
      /\ \A k \in Keys : FreshEntries(k)' = FreshEntries(k)
      /\ \A k \in Keys : DiskEntries(k)' = DiskEntries(k)
  BY FilesSame, Zenon
<1>2. TimesPast'
  BY <1>3, Zenon DEF ReplayInv, TimesPast
<1>4. MemoryDominates'
  BY <1>3, Zenon DEF ReplayInv, MemoryDominates, Serving
<1>5. \A k \in Keys : ReadEntries(k)' = ReadEntries(k)
  BY <1>3, Zenon DEF ReadEntries
<1>6. ReplayProgress'
  BY <1>3, <1>5, Zenon DEF ReplayInv, ReplayProgress
<1>7. \A t : IsStale(t)' <=> IsStale(t)
  BY StaleSame, Zenon
<1>8. InFlight'
  BY <1>7, Zenon DEF ReplayInv, InFlight
<1> QED
  BY <1>1, <1>2, <1>3, <1>4, <1>6, <1>8, Zenon DEF ReplayInv

\* Registering a chain: nothing fresh is on disk for a chain the map lacks.
LEMMA ReplayRegister ==
  ASSUME ReplayInv, TypeOK', NEW k \in Keys, NEW r \in Roots, NEW len \in Lengths,
         Register(k, <<r, 0>>, len)
  PROVE  ReplayInv'
<1>1. CASE map' = map /\ UNCHANGED <<pc, op>>
  BY <1>1, ReplayStutter DEF Register, files
<1>2. CASE map' # map \/ ~UNCHANGED <<pc, op>>
  <2> DEFINE e == [root |-> <<r, 0>>, length |-> len, last_index |-> 0,
                   last_value |-> <<r, 0>>, last_used |-> now]
  <2>1. /\ map' = [map EXCEPT ![k] = e] /\ pc = "idle" /\ pc' = "append"
        /\ op' = Doing("register", k)
        /\ map[k] = None
        /\ UNCHANGED <<snapshot, journal, now, spent>>
    BY <1>2, Zenon DEF Register, RegisterOutcome, files
  <2>2. op'.kind = "register"
    BY <2>1, Zenon DEF Doing
  <2>3. FreshEntries(k) = {}
    BY <2>1 DEF ReplayInv, MemoryDominates, Serving
  <2>a. now \in Nat /\ map \in [Keys -> Entries]
    BY Zenon DEF ReplayInv, TypeOK
  <2>4. e.last_used = now
    BY Zenon
  <2>5. TimesPast'
    <3> HIDE DEF e
    <3>1. now' = now /\ spent' = spent
      BY <2>1, Zenon
    <3>2. ASSUME NEW q \in Keys
          PROVE  /\ map[q] # None => map[q].last_used <= now
                 /\ \A d \in DiskEntries(q)' : d.last_used <= now'
                 /\ spent'[q].when <= now'
      BY <3>1, <2>1, FilesSame, Zenon DEF ReplayInv, TimesPast
    <3>3. ASSUME NEW q \in Keys, map'[q] # None
          PROVE  map'[q].last_used <= now'
      <4>1. CASE q = k
        <5>1. map'[q] = e
          BY <2>a, <2>1, <4>1, Zenon
        <5> QED
          BY ONLY <5>1, <2>4, <2>a, <3>1
      <4>2. CASE q # k
        <5>1. map'[q] = map[q]
          BY <2>a, <2>1, <4>2, Zenon
        <5> QED
          BY <5>1, <3>1, <3>2, <3>3, Zenon
      <4> QED
        BY <4>1, <4>2, Zenon
    <3> QED
      BY <3>2, <3>3, Zenon DEF TimesPast
  <2>6. MemoryDominates'
    BY <2>1, <2>3, FilesSame, Zenon DEF ReplayInv, MemoryDominates, TypeOK, Serving
  <2>7. ReplayProgress' /\ InFlight'
    BY <2>1, <2>2, Zenon DEF ReplayProgress, InFlight
  <2> QED
    BY <2>1, <2>5, <2>6, <2>7, FilesSame, Zenon DEF ReplayInv
<1> QED
  BY <1>1, <1>2, Zenon

\* Accepting a token moves the cursor above everything on disk and above the
\* spent index.
LEMMA ReplayValidate ==
  ASSUME ReplayInv, TypeOK', NEW k \in Keys, NEW i \in Nat, NEW v \in Values,
         Validate(k, i, v)
  PROVE  ReplayInv'
<1>1. CASE map' = map /\ UNCHANGED <<pc, op>>
  BY <1>1, ReplayStutter DEF Validate, files
<1>2. CASE map' # map \/ ~UNCHANGED <<pc, op>>
  <2> DEFINE f == Advanced(map[k], i, v)
  <2>1. /\ map' = [map EXCEPT ![k] = f] /\ pc = "idle" /\ pc' = "append"
        /\ op' = Doing("validate", k)
        /\ map[k] # None /\ i > map[k].last_index
        /\ UNCHANGED <<snapshot, journal, now, spent>>
    <3>1. ValidateOutcome(k, i, v) = "Accepted"
      BY <1>2 DEF Validate
    <3>2. map[k] # None /\ ~(i <= map[k].last_index)
      BY <3>1 DEF ValidateOutcome
    <3>3. map[k].last_index \in Nat
      BY <3>2, Fields, Zenon DEF ReplayInv, TypeOK, Entries
    <3> QED
      BY <1>2, <3>2, <3>3 DEF Validate, files
  <2>2. op'.kind = "validate" /\ op'.key = k
    BY <2>1 DEF Doing
  <2>3. /\ map[k] \in ChainState /\ f \in ChainState
        /\ f.last_index = i /\ f.last_used = now /\ now \in Nat
        /\ map[k].last_index \in Nat /\ map[k].last_used \in Nat
        /\ map[k].last_used <= now
        /\ map'[k] = f /\ \A q \in Keys : q # k => map'[q] = map[q]
    BY <2>1, AdvancedType, Fields, Zenon
       DEF ReplayInv, TypeOK, Entries, Advanced, TimesPast
  <2>4. Below(map[k], f)
    BY <2>1, <2>3, Zenon DEF Below
  <2>5. TimesPast'
    BY <2>1, <2>3, FilesSame DEF ReplayInv, TimesPast, TypeOK
  <2>6. MemoryDominates'
    <3> SUFFICES ASSUME NEW q \in Keys, NEW x \in FreshEntries(q)
                 PROVE  map'[q] # None /\ Below(x, map'[q])
      BY <2>1, FilesSame, Zenon DEF MemoryDominates
    <3>1. map[q] # None /\ Below(x, map[q]) /\ x \in ChainState
      BY <2>1, DiskType DEF ReplayInv, MemoryDominates, Serving, FreshEntries
    <3>2. CASE q = k
      BY <3>1, <3>2, <2>3, <2>4, BelowTrans, NoneAssumption, Zenon
    <3>3. CASE q # k
      BY <3>1, <3>3, <2>3, Zenon
    <3> QED
      BY <3>2, <3>3
  <2>7. i > spent[k].index \/ IsStale(spent[k].when)
    <3>1. CASE Live(k)
      <4>1. Covers(map[k], k)
        BY <3>1, <2>1, MapCovers, Zenon DEF Serving
      <4> QED
        BY <4>1, <2>1, <2>3 DEF Covers, ReplayInv, TypeOK
    <3>2. CASE ~Live(k)
      BY <3>2, <2>1, <2>3 DEF Live, ReplayInv, TypeOK
    <3> QED
      BY <3>1, <3>2, Zenon
  <2>8. ReplayProgress' /\ InFlight'
    <3> HIDE DEF f
    <3>1. map'[k].last_index = i /\ spent' = spent
      BY <2>1, <2>3, Zenon
    <3>2. i > spent[k].index \/ IsStale(spent[k].when)'
      BY <2>1, <2>7, StaleSame, Zenon
    <3> QED
      BY <2>1, <2>2, <3>1, <3>2, Zenon DEF ReplayProgress, InFlight
  <2> QED
    BY <2>1, <2>5, <2>6, <2>8, FilesSame, Zenon DEF ReplayInv
<1> QED
  BY <1>1, <1>2

\* Expiry: a chain whose cursor is stale has nothing fresh on disk.
LEMMA ReplayGc ==
  ASSUME ReplayInv, TypeOK', GcExpired
  PROVE  ReplayInv'
<1>1. /\ map' = PurgeStale(map) /\ pc = "idle" /\ pc' = "snapshot"
      /\ op' = Doing("gc", None)
      /\ UNCHANGED <<snapshot, journal, now, spent>>
  BY Zenon DEF GcExpired, files
<1>2. op'.kind = "gc"
  BY <1>1 DEF Doing
<1>3. \A k \in Keys : map'[k] = None \/ map'[k] = map[k]
  BY <1>1, Zenon DEF PurgeStale
<1>4. TimesPast'
  BY <1>1, <1>3, FilesSame, Zenon DEF ReplayInv, TimesPast
<1>5. MemoryDominates'
  <2> SUFFICES ASSUME NEW k \in Keys, NEW x \in FreshEntries(k)
               PROVE  map'[k] # None /\ Below(x, map'[k])
    BY <1>1, FilesSame DEF MemoryDominates
  <2>1. map[k] # None /\ Below(x, map[k]) /\ x \in ChainState /\ ~IsStale(x.last_used)
    BY <1>1, DiskType, Zenon DEF ReplayInv, MemoryDominates, Serving, FreshEntries
  <2>2. map[k] \in ChainState
    BY <2>1, Zenon DEF ReplayInv, TypeOK, Entries
  <2>3. x.last_used <= map[k].last_used
    BY <2>1, <2>2, Fields DEF Below
  <2>4. ~IsStale(map[k].last_used)
    BY <2>1, <2>2, <2>3, Fields, FreshUp, Zenon DEF ReplayInv, TypeOK
  <2> QED
    BY <1>1, <2>1, <2>4 DEF PurgeStale
<1>6. ReplayProgress' /\ InFlight'
  BY <1>1, <1>2, Zenon DEF ReplayProgress, InFlight
<1> QED
  BY <1>1, <1>4, <1>5, <1>6, FilesSame DEF ReplayInv

\* The record of a pending append keeps the files ordered and below memory.
LEMMA AppendFiles ==
  ASSUME ReplayInv, pc = "append", snapshot' = snapshot, now' = now,
         journal' = Append(journal, Record(op.key, map[op.key]))
  PROVE  /\ NoTornRecord' /\ DiskOrdered'
         /\ \A k \in Keys :
              /\ DiskEntries(k) \subseteq DiskEntries(k)'
              /\ FreshEntries(k) \subseteq FreshEntries(k)'
              /\ \A x \in DiskEntries(k)' : x.last_used <= now
              /\ \A x \in FreshEntries(k)' : map[k] # None /\ Below(x, map[k])
              /\ k = op.key => map[k] \in DiskEntries(k)'
<1>1. /\ TypeOK /\ op.key \in Keys /\ map[op.key] \in ChainState
      /\ map[op.key] # None /\ map[op.key].last_used <= now
  BY PendingEntry, NoneAssumption, Zenon DEF ReplayInv, TimesPast
<1>2. \A k \in Keys : DiskEntries(k)' =
          DiskEntries(k) \cup (IF k = op.key THEN {map[op.key]} ELSE {})
  BY <1>1, GrowDisk
<1>3. \A k \in Keys : \A x : x \in FreshEntries(k)' <=>
          x \in DiskEntries(k)' /\ ~IsStale(x.last_used)
  BY StaleSame, Zenon DEF FreshEntries
<1>4. ASSUME NEW k \in Keys, NEW x \in FreshEntries(k)'
      PROVE  map[k] # None /\ Below(x, map[k])
  <2>1. CASE x \in FreshEntries(k)
    BY <2>1, Zenon DEF ReplayInv, MemoryDominates, Serving
  <2>2. CASE k = op.key /\ x = map[op.key]
    BY <2>2, <1>1 DEF Below
  <2> QED
    BY <1>2, <1>3, <2>1, <2>2 DEF FreshEntries
<1>5. DiskOrdered'
  <2> SUFFICES ASSUME NEW k \in Keys, NEW x \in FreshEntries(k)',
                      NEW y \in FreshEntries(k)'
               PROVE  Below(x, y) \/ Below(y, x)
    BY DEF DiskOrdered, Below
  <2>1. CASE x \in FreshEntries(k) /\ y \in FreshEntries(k)
    BY <2>1, Zenon DEF ReplayInv, DiskOrdered
  <2>2. CASE x \notin FreshEntries(k) \/ y \notin FreshEntries(k)
    BY <2>2, <1>2, <1>3, <1>4, Zenon DEF FreshEntries
  <2> QED
    BY <2>1, <2>2
<1>6. NoTornRecord'
  <2>1. journal \in Seq(JournalRecord) /\ Record(op.key, map[op.key]) \in JournalRecord
    BY <1>1, Zenon DEF TypeOK, Record, JournalRecord
  <2>2. Record(op.key, map[op.key]).torn = FALSE
    BY DEF Record
  <2>3. \A j \in 1..Len(journal) : ~journal[j].torn
    BY DEF ReplayInv, NoTornRecord
  <2> QED
    BY <2>1, <2>2, <2>3 DEF NoTornRecord
<1>7. ASSUME NEW k \in Keys, NEW x \in DiskEntries(k)' PROVE x.last_used <= now
  BY <1>1, <1>2, <1>7, Zenon DEF ReplayInv, TimesPast
<1>8. ASSUME NEW k \in Keys PROVE FreshEntries(k) \subseteq FreshEntries(k)'
  BY <1>2, <1>3, Zenon DEF FreshEntries
<1> QED
  BY <1>1, <1>2, <1>4, <1>5, <1>6, <1>7, <1>8, Zenon

\* The journal append makes a pending operation durable.
LEMMA ReplayAppend ==
  ASSUME ReplayInv, TypeOK', AppendJournal
  PROVE  ReplayInv'
<1>1. /\ pc = "append" /\ UNCHANGED <<map, snapshot, now>>
      /\ journal' = Append(journal, Record(op.key, map[op.key]))
      /\ pc' \in {"idle", "snapshot"}
  BY Zenon DEF AppendJournal, Finish
<1>2. /\ TypeOK /\ op.key \in Keys /\ map[op.key] \in ChainState
      /\ map[op.key].last_index \in Nat /\ map[op.key].last_used \in Nat
      /\ map[op.key].last_used <= now
  BY <1>1, PendingEntry, Fields, NoneAssumption, Zenon DEF ReplayInv, TimesPast
<1>3. \/ UNCHANGED spent
      \/ /\ op.kind = "validate"
         /\ spent' = [spent EXCEPT ![op.key] =
                         [index |-> map[op.key].last_index,
                          when  |-> map[op.key].last_used]]
  BY Zenon DEF AppendJournal, Finish
<1>4. TimesPast'
  <2> SUFFICES ASSUME NEW k \in Keys
               PROVE  /\ map[k] # None => map[k].last_used <= now
                      /\ \A e \in DiskEntries(k)' : e.last_used <= now
                      /\ spent'[k].when <= now
    BY <1>1, Zenon DEF TimesPast
  <2>1. map[k] # None => map[k].last_used <= now
    BY DEF ReplayInv, TimesPast
  <2>2. spent[k].when <= now /\ spent \in [Keys -> [index : Nat, when : Nat]]
    BY Zenon DEF ReplayInv, TimesPast, TypeOK
  <2>3. spent'[k].when <= now
    BY ONLY <1>2, <1>3, <2>2
  <2> QED
    BY <1>1, <2>1, <2>3, AppendFiles, Zenon
<1>5. MemoryDominates'
  BY <1>1, AppendFiles, Zenon DEF MemoryDominates, Below
<1>6. SpentOnDisk'
  <2> SUFFICES ASSUME NEW k \in Keys, Live(k)'
               PROVE  \E e \in FreshEntries(k)' : Covers(e, k)'
    BY Zenon DEF SpentOnDisk
  <2>1. CASE spent'[k] = spent[k]
    <3>1. Live(k)
      BY <1>1, <2>1, StaleSame DEF Live
    <3>2. PICK e \in FreshEntries(k) : Covers(e, k)
      BY <3>1, Zenon DEF ReplayInv, SpentOnDisk
    <3> QED
      BY <1>1, <2>1, <3>2, AppendFiles, Zenon DEF Covers
  <2>2. CASE spent'[k] # spent[k]
    <3>1. /\ k = op.key
          /\ spent'[k] = [index |-> map[k].last_index, when |-> map[k].last_used]
      BY <1>2, <1>3, <2>2, ZenonT(60) DEF TypeOK
    <3>2. map[k] \in DiskEntries(k)' /\ ~IsStale(map[k].last_used)
      <4>1. map[k] \in DiskEntries(k)'
        BY <1>1, <3>1, AppendFiles
      <4>2. ~IsStale(spent[k].when)'
        BY Zenon DEF Live
      <4>3. ~IsStale(map[k].last_used)
        BY <1>1, <3>1, <4>2 DEF IsStale, Cutoff
      <4> QED
        BY <4>1, <4>3, Zenon
    <3>3. map[k] \in FreshEntries(k)'
      BY <1>1, <3>2, StaleSame DEF FreshEntries
    <3> QED
      BY <1>2, <3>1, <3>3 DEF Covers
  <2> QED
    BY <2>1, <2>2
<1>7. ReplayProgress' /\ InFlight'
  <2>1. CASE Finish
    BY <1>1, <2>1, Zenon DEF Finish, ReplayProgress, InFlight, Idle, Doing
  <2>2. CASE pc' = "snapshot" /\ UNCHANGED <<op, reply, spent>>
    BY <1>1, <2>2, StaleSame DEF ReplayProgress, InFlight, ReplayInv
  <2> QED
    BY <2>1, <2>2, Zenon DEF AppendJournal
<1> QED
  BY <1>1, <1>4, <1>5, <1>6, <1>7, AppendFiles, Zenon DEF ReplayInv

\* The snapshot takes the place of what it covers.
LEMMA ReplaySnapshot ==
  ASSUME ReplayInv, TypeOK', WriteSnapshot
  PROVE  ReplayInv'
<1>1. /\ pc = "snapshot" /\ pc' = "truncate" /\ snapshot' = map
      /\ UNCHANGED <<map, journal, op, now, spent>>
  BY DEF WriteSnapshot
<1>2. ASSUME NEW k \in Keys
      PROVE  /\ DiskEntries(k)' \subseteq DiskEntries(k) \cup ({map[k]} \ {None})
             /\ map[k] # None => map[k] \in DiskEntries(k)'
  BY <1>1, SnapshotDisk, Zenon
<1>3. ASSUME NEW k \in Keys, NEW x \in FreshEntries(k)'
      PROVE  /\ x \in FreshEntries(k) \/ (map[k] # None /\ x = map[k])
             /\ map[k] # None /\ Below(x, map[k])
  <2>1. x \in FreshEntries(k) \/ (map[k] # None /\ x = map[k])
    BY <1>1, <1>2, <1>3, StaleSame, ZenonT(60) DEF FreshEntries
  <2> QED
    BY <1>1, <2>1 DEF ReplayInv, MemoryDominates, Serving, Below
<1>4. TimesPast' /\ NoTornRecord'
  BY <1>1, <1>2 DEF ReplayInv, TimesPast, NoTornRecord
<1>5. DiskOrdered'
  <2> SUFFICES ASSUME NEW k \in Keys, NEW x \in FreshEntries(k)',
                      NEW y \in FreshEntries(k)'
               PROVE  Below(x, y) \/ Below(y, x)
    BY DEF DiskOrdered, Below
  <2> QED
    BY <1>3 DEF ReplayInv, DiskOrdered
<1>6. MemoryDominates'
  BY <1>1, <1>3, Zenon DEF MemoryDominates, Below
<1>7. SpentOnDisk'
  <2> SUFFICES ASSUME NEW k \in Keys, Live(k)'
               PROVE  \E e \in FreshEntries(k)' : Covers(e, k)'
    BY Zenon DEF SpentOnDisk
  <2>1. Live(k)
    BY <1>1 DEF Live, IsStale, Cutoff
  <2>2. map[k] \in ChainState /\ map[k] # None /\ Covers(map[k], k)
    BY <1>1, <2>1, MapCovers, Zenon DEF Serving
  <2>3. ~IsStale(map[k].last_used)
    BY <2>1, <2>2, Fields, FreshUp, Zenon DEF Live, Covers, ReplayInv, TypeOK
  <2>4. map[k] \in FreshEntries(k)'
    BY <1>1, <1>2, <2>2, <2>3, StaleSame DEF FreshEntries
  <2> QED
    BY <1>1, <2>2, <2>4 DEF Covers
<1>8. ReplayProgress' /\ InFlight'
  BY <1>1, StaleSame, Zenon DEF ReplayProgress, InFlight, ReplayInv
<1> QED
  BY <1>4, <1>5, <1>6, <1>7, <1>8 DEF ReplayInv

\* Emptying the journal behind an equal snapshot loses nothing.
LEMMA TruncateFiles ==
  ASSUME ReplayInv, pc = "truncate", snapshot' = snapshot, now' = now,
         journal' = <<>>
  PROVE  /\ NoTornRecord' /\ DiskOrdered'
         /\ \A k \in Keys :
              /\ DiskEntries(k)' = {map[k]} \ {None}
              /\ \A x \in FreshEntries(k)' : map[k] # None /\ Below(x, map[k])
<1>1. \A k \in Keys : DiskEntries(k)' = {map[k]} \ {None}
  BY TruncateDisk DEF ReplayInv, InFlight
<1>2. \A k \in Keys : \A x \in FreshEntries(k)' : map[k] # None /\ x = map[k]
  BY <1>1 DEF FreshEntries
<1>3. NoTornRecord'
  BY DEF NoTornRecord
<1> QED
  BY <1>1, <1>2, <1>3, Zenon DEF DiskOrdered, Below

\* Truncating after the snapshot loses nothing: the snapshot is the map.
LEMMA ReplayTruncate ==
  ASSUME ReplayInv, TypeOK', TruncateJournal
  PROVE  ReplayInv'
<1>1. /\ pc = "truncate" /\ pc' = "idle" /\ journal' = <<>>
      /\ UNCHANGED <<map, snapshot, now>> /\ op' = Idle
  BY Zenon DEF TruncateJournal, Finish
<1>2. \/ UNCHANGED spent
      \/ /\ op.kind = "validate"
         /\ spent' = [spent EXCEPT ![op.key] =
                         [index |-> map[op.key].last_index,
                          when  |-> map[op.key].last_used]]
  BY Zenon DEF TruncateJournal, Finish
<1>3. op.kind = "validate" =>
        /\ op.key \in Keys /\ map[op.key] \in ChainState
        /\ map[op.key].last_index \in Nat /\ map[op.key].last_used \in Nat
        /\ map[op.key].last_used <= now
  BY PendingEntry, Fields, NoneAssumption, Zenon DEF ReplayInv, TimesPast
<1>4. TimesPast'
  <2> SUFFICES ASSUME NEW k \in Keys
               PROVE  /\ map[k] # None => map[k].last_used <= now
                      /\ \A e \in DiskEntries(k)' : e.last_used <= now
                      /\ spent'[k].when <= now
    BY <1>1, Zenon DEF TimesPast
  <2>1. map[k] # None => map[k].last_used <= now
    BY DEF ReplayInv, TimesPast
  <2>2. spent[k].when <= now /\ spent \in [Keys -> [index : Nat, when : Nat]]
    BY Zenon DEF ReplayInv, TimesPast, TypeOK
  <2>3. spent'[k].when <= now
    BY <1>2, <1>3, <2>2
  <2> QED
    BY <1>1, <2>1, <2>3, TruncateFiles, Zenon
<1>5. MemoryDominates'
  BY <1>1, TruncateFiles, Zenon DEF MemoryDominates, Below
<1>6. SpentOnDisk'
  <2> SUFFICES ASSUME NEW k \in Keys, Live(k)'
               PROVE  \E e \in FreshEntries(k)' : Covers(e, k)'
    BY DEF SpentOnDisk
  <2>1. /\ map[k] \in ChainState /\ map[k] # None
        /\ map[k].last_index >= spent'[k].index
        /\ map[k].last_used >= spent'[k].when
    <3>1. CASE spent'[k] = spent[k]
      <4>1. Live(k)
        BY <1>1, <3>1, Zenon DEF Live, IsStale, Cutoff
      <4> QED
        BY <1>1, <3>1, <4>1, MapCovers, Zenon DEF Serving, Covers
    <3>2. CASE spent'[k] # spent[k]
      <4>1. op.kind = "validate" /\ k = op.key
        BY <1>2, <1>3, <3>2, Zenon DEF ReplayInv, TypeOK
      <4>2. spent'[k] = [index |-> map[k].last_index, when |-> map[k].last_used]
        BY <1>2, <1>3, <3>2, <4>1, Zenon DEF ReplayInv, TypeOK
      <4> QED
        BY <1>3, <4>1, <4>2, NoneAssumption
    <3> QED
      BY <3>1, <3>2
  <2>2. spent'[k].when \in Nat /\ now \in Nat /\ ~IsStale(spent'[k].when)
    BY <1>1, Zenon DEF Live, IsStale, Cutoff, TypeOK, ReplayInv
  <2>3. ~IsStale(map[k].last_used)
    BY <2>1, <2>2, Fields, FreshUp, Zenon
  <2>4. map[k] \in FreshEntries(k)'
    BY <1>1, <2>1, <2>3, TruncateFiles, StaleSame, Zenon DEF FreshEntries
  <2> QED
    BY <1>1, <2>1, <2>4, Zenon DEF Covers
<1>7. ReplayProgress' /\ InFlight'
  BY <1>1, Zenon DEF ReplayProgress, InFlight, Idle, Doing
<1> QED
  BY <1>1, <1>4, <1>5, <1>6, <1>7, TruncateFiles, Zenon DEF ReplayInv

\* Any outcome of an interrupted file operation, short of a torn record,
\* leaves files that are ordered, below memory, and cover what was accepted.
LEMMA InterruptedFiles ==
  ASSUME ReplayInv, UNCHANGED <<snapshot, now, spent>>,
         \/ journal' = journal
         \/ pc = "append" /\ journal' = Append(journal, Record(op.key, map[op.key]))
         \/ pc = "truncate" /\ journal' = <<>>
  PROVE  /\ NoTornRecord' /\ DiskOrdered' /\ SpentOnDisk'
         /\ \A k \in Keys : \A x \in DiskEntries(k)' : x.last_used <= now
         /\ Serving => \A k \in Keys : \A x \in FreshEntries(k)' :
                          map[k] # None /\ Below(x, map[k])
<1>1. CASE journal' = journal
  <2>1. Serving => \A k \in Keys : \A x \in FreshEntries(k)' :
                          map[k] # None /\ Below(x, map[k])
    BY <1>1, FilesSame, Zenon DEF ReplayInv, MemoryDominates
  <2>2. \A k \in Keys : \A x \in DiskEntries(k)' : x.last_used <= now
    BY <1>1, FilesSame, Zenon DEF ReplayInv, TimesPast
  <2> QED
    BY <1>1, <2>1, <2>2, FilesSame
<1>2. CASE pc = "append" /\ journal' = Append(journal, Record(op.key, map[op.key]))
  <2>1. SpentOnDisk'
    <3> SUFFICES ASSUME NEW k \in Keys, Live(k)'
                 PROVE  \E e \in FreshEntries(k)' : Covers(e, k)'
      BY DEF SpentOnDisk
    <3>1. Live(k)
      BY DEF Live, IsStale, Cutoff
    <3>2. PICK e \in FreshEntries(k) : Covers(e, k)
      BY <3>1, Zenon DEF ReplayInv, SpentOnDisk
    <3> QED
      BY <1>2, <3>2, AppendFiles DEF Covers
  <2> QED
    BY <1>2, <2>1, AppendFiles, Zenon
<1>3. CASE pc = "truncate" /\ journal' = <<>>
  <2>1. SpentOnDisk'
    <3> SUFFICES ASSUME NEW k \in Keys, Live(k)'
                 PROVE  \E e \in FreshEntries(k)' : Covers(e, k)'
      BY DEF SpentOnDisk
    <3>1. Live(k)
      BY DEF Live, IsStale, Cutoff
    <3>2. map[k] \in ChainState /\ map[k] # None /\ Covers(map[k], k)
      BY <1>3, <3>1, MapCovers, Zenon DEF Serving
    <3>3. ~IsStale(map[k].last_used)
      BY <3>1, <3>2, Fields, FreshUp DEF Live, Covers, ReplayInv, TypeOK
    <3>4. map[k] \in FreshEntries(k)'
      BY <1>3, <3>2, <3>3, TruncateFiles, StaleSame, Zenon DEF FreshEntries
    <3> QED
      BY <3>2, <3>4 DEF Covers
  <2>2. \A k \in Keys : \A x \in DiskEntries(k)' : x.last_used <= now
    BY <1>3, TruncateFiles DEF ReplayInv, TimesPast
  <2> QED
    BY <1>3, <2>1, <2>2, TruncateFiles, Zenon
<1> QED
  BY <1>1, <1>2, <1>3, Zenon

\* An operation cut short leaves each file as before or as after its write.
LEMMA ReplayInterrupted ==
  ASSUME ReplayInv, TypeOK', UNCHANGED <<snapshot, now, spent>>, op' = Idle,
         \/ journal' = journal
         \/ pc = "append" /\ journal' = Append(journal, Record(op.key, map[op.key]))
         \/ pc = "truncate" /\ journal' = <<>>,
         \/ pc' = "idle" /\ Serving /\ UNCHANGED map
         \/ pc' = "down" /\ map' = [k \in Keys |-> None]
  PROVE  ReplayInv'
<1>1. NoTornRecord' /\ DiskOrdered' /\ SpentOnDisk'
  BY InterruptedFiles, Zenon
<1>2. TimesPast'
  <2> SUFFICES ASSUME NEW k \in Keys
               PROVE  /\ map'[k] # None => map'[k].last_used <= now
                      /\ \A e \in DiskEntries(k)' : e.last_used <= now
                      /\ spent[k].when <= now
    BY DEF TimesPast
  <2>1. map'[k] # None => map'[k].last_used <= now
    BY DEF ReplayInv, TimesPast
  <2>2. spent[k].when <= now
    BY Zenon DEF ReplayInv, TimesPast
  <2> QED
    BY <2>1, <2>2, InterruptedFiles
<1>3. MemoryDominates'
  BY InterruptedFiles, Zenon DEF MemoryDominates, Serving, Below
<1>4. ReplayProgress' /\ InFlight'
  BY Zenon DEF ReplayProgress, InFlight, Idle, Doing
<1> QED
  BY <1>1, <1>2, <1>3, <1>4, Zenon DEF ReplayInv

\* A failed file operation ends the operation and keeps the invariant.
LEMMA ReplayIoError ==
  ASSUME ReplayInv, TypeOK', Tears = {}, IoError
  PROVE  ReplayInv'
<1>1. \/ journal' = journal
      \/ pc = "append" /\ journal' = Append(journal, Record(op.key, map[op.key]))
      \/ pc = "truncate" /\ journal' = <<>>
  BY DEF IoError, Interrupted
<1>2. \/ pc' = "idle" /\ Serving /\ UNCHANGED map
      \/ pc' = "down" /\ map' = [k \in Keys |-> None]
  BY Zenon DEF IoError, Serving
<1> QED
  BY <1>1, <1>2, ReplayInterrupted DEF IoError

\* A crash between or during file operations keeps the invariant.
LEMMA ReplayCrash ==
  ASSUME ReplayInv, TypeOK', Tears = {}, Crash
  PROVE  ReplayInv'
<1>1. \/ journal' = journal
      \/ pc = "append" /\ journal' = Append(journal, Record(op.key, map[op.key]))
  BY Zenon DEF Crash, Interrupted
<1> QED
  BY <1>1, ReplayInterrupted DEF Crash

\* Loading starts from the fresh part of the snapshot.
LEMMA ReplayLoad ==
  ASSUME ReplayInv, TypeOK', LoadSnapshot
  PROVE  ReplayInv'
<1>1. /\ map' = PurgeStale(snapshot) /\ pc' = "replay" /\ off' = 1
      /\ op' = Doing("load", None)
      /\ UNCHANGED <<snapshot, journal, now, spent>>
  BY DEF LoadSnapshot, files
<1>2. op'.kind = "load"
  BY <1>1, Zenon DEF Doing
<1>3. ASSUME NEW k \in Keys
      PROVE  /\ map'[k] # None => map'[k] \in FreshEntries(k)
             /\ map'[k] # None => map'[k].last_used <= now
             /\ \A e \in ReadEntries(k)' : map'[k] # None /\ Below(e, map'[k])
  <2>1. map'[k] # None => map'[k] = snapshot[k] /\ ~IsStale(snapshot[k].last_used)
    BY <1>1 DEF PurgeStale
  <2>2. map'[k] # None => map'[k] \in FreshEntries(k)
    BY <2>1, Zenon DEF FreshEntries, DiskEntries
  <2>3. map'[k] # None => map'[k].last_used <= now
    BY <2>2, Zenon DEF FreshEntries, ReplayInv, TimesPast
  <2>4. ASSUME NEW e \in ReadEntries(k)' PROVE map'[k] # None /\ Below(e, map'[k])
    <3>1. e \in FreshEntries(k) /\ e = snapshot[k]
      <4>1. e \in FreshEntries(k)'
        BY <2>4 DEF ReadEntries
      <4>2. \A j \in 1..Len(journal') : ~(j < off')
        BY ONLY <1>1
      <4>3. e = snapshot'[k]
        BY <2>4, <4>2 DEF ReadEntries
      <4> QED
        BY <1>1, <4>1, <4>3, FilesSame, Zenon
    <3>2. e # None /\ ~IsStale(e.last_used)
      BY <3>1, DiskType, NoneAssumption DEF FreshEntries, ReplayInv
    <3> QED
      BY <1>1, <3>1, <3>2, Zenon DEF PurgeStale, Below
  <2> QED
    BY <2>2, <2>3, <2>4
<1>4. TimesPast'
  BY <1>1, <1>3, FilesSame, ZenonT(60) DEF ReplayInv, TimesPast
<1>5. MemoryDominates' /\ InFlight'
  BY <1>1, <1>2 DEF MemoryDominates, Serving, InFlight
<1>6. ReplayProgress'
  <2>1. off' <= Len(journal') + 1
    BY ONLY <1>1 DEF ReplayInv, TypeOK
  <2> QED
    BY <1>1, <1>2, <1>3, <2>1, FilesSame, Zenon DEF ReplayProgress, Below
<1> QED
  BY <1>1, <1>4, <1>5, <1>6, FilesSame DEF ReplayInv

\* One replayed record: whichever of it and the map's entry has the higher
\* index is above everything read so far.
LEMMA ReplayStep ==
  ASSUME ReplayInv, TypeOK', ReplayRecord
  PROVE  ReplayInv'
<1> DEFINE q == journal[off].key
           e == journal[off].entry
<1>1. /\ pc = "replay" /\ pc' = "replay" /\ off <= Len(journal) /\ ~journal[off].torn
      /\ off' = off + 1
      /\ map' = IF IsStale(e.last_used) THEN map ELSE ApplyMonotonic(map, q, e)
      /\ UNCHANGED <<snapshot, journal, op, now, spent>>
  BY Zenon DEF ReplayRecord, Readable, files
<1>2. off \in 1..Len(journal) /\ Len(journal) \in Nat
  BY <1>1 DEF ReplayInv, TypeOK
<1>3. journal[off] \in JournalRecord
  BY <1>2 DEF ReplayInv, TypeOK
<1>4. q \in Keys /\ e \in ChainState /\ e # None
  BY <1>3, NoneAssumption, Zenon DEF JournalRecord
<1>5. e \in DiskEntries(q)
  BY <1>1, <1>2, Zenon DEF DiskEntries
<1>6. ASSUME NEW k \in Keys, NEW x \in ReadEntries(k)'
      PROVE  x \in FreshEntries(k) /\ (x \in ReadEntries(k) \/ (k = q /\ x = e))
  <2>1. x \in FreshEntries(k)
    BY <1>1, <1>6, FilesSame, Zenon DEF ReadEntries
  <2>2. CASE x = snapshot[k]
    BY <2>1, <2>2, Zenon DEF ReadEntries
  <2>3. CASE \E j \in 1..Len(journal) :
                /\ j < off + 1 /\ ~journal[j].torn
                /\ journal[j].key = k /\ journal[j].entry = x
    <3>1. PICK j \in 1..Len(journal) :
             /\ j < off + 1 /\ ~journal[j].torn
             /\ journal[j].key = k /\ journal[j].entry = x
      BY <2>3, Zenon
    <3>2. j < off \/ j = off
      BY ONLY <1>2, <3>1
    <3>3. CASE j < off
      BY <2>1, <3>1, <3>3, Zenon DEF ReadEntries
    <3>4. CASE j = off
      BY <2>1, <3>1, <3>4, Zenon
    <3> QED
      BY <3>2, <3>3, <3>4, Zenon
  <2>4. snapshot' = snapshot /\ journal' = journal /\ off' = off + 1
    BY <1>1, Zenon
  <2> QED
    BY <1>6, <2>2, <2>3, <2>4, Zenon DEF ReadEntries
<1>7. ASSUME NEW k \in Keys
      PROVE  /\ map'[k] # None => map'[k] \in FreshEntries(k)
             /\ \A x \in ReadEntries(k)' : map'[k] # None /\ Below(x, map'[k])
  <2>1. /\ map[k] # None => map[k] \in FreshEntries(k)
        /\ \A x \in ReadEntries(k) : map[k] # None /\ Below(x, map[k])
    BY <1>1, Zenon DEF ReplayInv, ReplayProgress
  <2>2. CASE k # q \/ IsStale(e.last_used)
    <3>1. map'[k] = map[k]
      BY <1>1, <1>4, <2>2, Zenon DEF ApplyMonotonic, ReplayInv, TypeOK
    <3>2. ASSUME NEW x \in ReadEntries(k)' PROVE x \in ReadEntries(k)
      BY <1>6, <2>2, <3>2, Zenon DEF FreshEntries
    <3> QED
      BY <2>1, <3>1, <3>2, Zenon
  <2>3. CASE k = q /\ ~IsStale(e.last_used)
    <3>1. e \in FreshEntries(k)
      BY <1>5, <2>3, Zenon DEF FreshEntries
    <3>2. CASE map[k] # None /\ e.last_index < map[k].last_index
      <4>1. map'[k] = map[k]
        BY <1>1, <2>3, <3>2, Zenon DEF ApplyMonotonic
      <4>2. Below(e, map[k]) \/ Below(map[k], e)
        BY <2>1, <3>1, <3>2, Zenon DEF ReplayInv, DiskOrdered
      <4>3. map[k] \in ChainState
        BY <3>2, Zenon DEF ReplayInv, TypeOK, Entries
      <4>4. Below(e, map[k])
        BY ONLY <1>4, <3>2, <4>2, <4>3, Fields DEF Below
      <4> QED
        BY <1>6, <2>1, <3>2, <4>1, <4>4, Zenon
    <3>3. CASE ~(map[k] # None /\ e.last_index < map[k].last_index)
      <4>1. map'[k] = e
        BY <1>1, <1>4, <2>3, <3>3, Zenon DEF ApplyMonotonic, ReplayInv, TypeOK
      <4>2. ASSUME map[k] # None PROVE Below(map[k], e) /\ map[k] \in ChainState
        <5>1. map[k] \in ChainState
          BY <4>2, Zenon DEF ReplayInv, TypeOK, Entries
        <5>2. Below(e, map[k]) \/ Below(map[k], e)
          BY <2>1, <3>1, <4>2 DEF ReplayInv, DiskOrdered
        <5> QED
          BY <1>4, <3>3, <4>2, <5>1, <5>2, Fields, Zenon DEF Below
      <4>3. ASSUME NEW x \in ReadEntries(k)' PROVE Below(x, e)
        <5>1. x \in FreshEntries(k) /\ (x \in ReadEntries(k) \/ x = e)
          BY <1>6, <4>3
        <5>2. x \in ChainState
          BY <5>1, DiskType, Zenon DEF FreshEntries, ReplayInv
        <5>3. CASE x \in ReadEntries(k)
          BY <1>4, <2>1, <4>2, <5>2, <5>3, BelowTrans
        <5>4. CASE x = e
          BY <5>4, ZenonT(60) DEF Below
        <5> QED
          BY <5>1, <5>3, <5>4
      <4> QED
        BY <1>4, <3>1, <4>1, <4>3, Zenon
    <3> QED
      BY <3>2, <3>3, Zenon
  <2> QED
    BY <2>2, <2>3
<1>8. TimesPast'
  <2> SUFFICES ASSUME NEW k \in Keys
               PROVE  map'[k] # None => map'[k].last_used <= now
    BY <1>1, FilesSame, Zenon DEF ReplayInv, TimesPast
  <2> QED
    BY <1>7 DEF FreshEntries, ReplayInv, TimesPast
<1>9. MemoryDominates' /\ InFlight'
  <2>1. op.kind = "load"
    BY <1>1 DEF ReplayInv, ReplayProgress
  <2> QED
    BY <1>1, <2>1, Zenon DEF MemoryDominates, Serving, InFlight
<1>10. ReplayProgress'
  <2>1. op'.kind = "load" /\ off' <= Len(journal') + 1
    BY <1>1, <1>2 DEF ReplayInv, ReplayProgress
  <2> QED
    BY <1>1, <1>7, <2>1, FilesSame, Zenon DEF ReplayProgress, Below
<1> QED
  BY <1>1, <1>8, <1>9, <1>10, FilesSame DEF ReplayInv

\* Once every record has been read, memory is ahead of the files.
LEMMA ReplayEnd ==
  ASSUME ReplayInv, TypeOK', ReplayDone
  PROVE  ReplayInv'
<1>1. /\ pc = "replay" /\ ~Readable /\ pc' \in {"snapshot", "idle"}
      /\ op.kind = "load"
      /\ UNCHANGED <<map, snapshot, journal, now, spent>>
  BY Zenon DEF ReplayDone, Finish, files, ReplayInv, ReplayProgress
<1>a. journal \in Seq(JournalRecord) /\ off \in Nat /\ off > 0
  BY <1>1, Zenon DEF ReplayInv, TypeOK
<1>b. \A j \in 1..Len(journal) : ~journal[j].torn
  BY Zenon DEF ReplayInv, NoTornRecord
<1>c. ~(off <= Len(journal)) \/ journal[off].torn
  BY <1>1, Zenon DEF Readable
<1>2. off > Len(journal) /\ Len(journal) \in Nat /\ off \in Nat
  BY ONLY <1>a, <1>b, <1>c
<1>3. ASSUME NEW k \in Keys, NEW x \in FreshEntries(k) PROVE x \in ReadEntries(k)
  BY <1>2, <1>3 DEF ReadEntries, FreshEntries, DiskEntries
<1>4. MemoryDominates'
  BY <1>1, <1>3, FilesSame, Zenon DEF MemoryDominates, Below, ReplayInv, ReplayProgress
<1>5. TimesPast'
  BY <1>1, FilesSame, Zenon DEF ReplayInv, TimesPast
<1>6. ReplayProgress' /\ InFlight'
  <2>1. CASE Finish
    BY <1>1, <2>1, Zenon DEF Finish, ReplayProgress, InFlight, Idle, Doing
  <2>2. CASE pc' = "snapshot" /\ UNCHANGED <<op, reply, spent>>
    BY <1>1, <2>2 DEF ReplayProgress, InFlight
  <2> QED
    BY <2>1, <2>2, Zenon DEF ReplayDone
<1> QED
  BY <1>1, <1>4, <1>5, <1>6, FilesSame, Zenon DEF ReplayInv

\* Time only takes entries out of the fresh set.
LEMMA ReplayTick ==
  ASSUME ReplayInv, TypeOK', Tick
  PROVE  ReplayInv'
<1>1. /\ now' = now + 1 /\ now \in Nat /\ pc # "replay"
      /\ UNCHANGED <<map, snapshot, journal, pc, op, spent>>
  BY Zenon DEF Tick, files, ReplayInv, TypeOK
<1>2. ASSUME NEW k \in Keys
      PROVE  /\ DiskEntries(k)' = DiskEntries(k)
             /\ FreshEntries(k)' \subseteq FreshEntries(k)
             /\ Live(k)' => Live(k)
  <2>1. DiskEntries(k)' = DiskEntries(k)
    BY <1>1, SameDisk, Zenon
  <2>2. \A x \in DiskEntries(k) : IsStale(x.last_used) => IsStale(x.last_used)'
    BY <1>1, DiskType, Fields, StaleStays DEF ReplayInv
  <2>3. spent[k].when \in Nat
    BY Zenon DEF ReplayInv, TypeOK
  <2>4. Live(k)' => Live(k)
    BY ONLY <1>1, <2>3, ChainAssumption DEF Live, IsStale, Cutoff
  <2> QED
    BY <2>1, <2>2, <2>4 DEF FreshEntries
<1>3. TimesPast'
  <2> SUFFICES ASSUME NEW k \in Keys
               PROVE  /\ map[k] # None => map[k].last_used <= now + 1
                      /\ \A x \in DiskEntries(k) : x.last_used <= now + 1
                      /\ spent[k].when <= now + 1
    BY <1>1, <1>2, Zenon DEF TimesPast
  <2>1. map[k] # None => map[k].last_used \in Nat
    BY Fields, Zenon DEF ReplayInv, TypeOK, Entries
  <2>2. \A x \in DiskEntries(k) : x.last_used \in Nat
    BY DiskType, Fields, Zenon DEF ReplayInv
  <2>3. spent[k].when \in Nat
    BY DEF ReplayInv, TypeOK
  <2> QED
    BY <1>1, <2>1, <2>2, <2>3 DEF ReplayInv, TimesPast
<1>4. NoTornRecord' /\ DiskOrdered' /\ MemoryDominates' /\ ReplayProgress'
  BY <1>1, <1>2, Zenon DEF ReplayInv, NoTornRecord, DiskOrdered, MemoryDominates,
                    Serving, ReplayProgress, Below
<1>5. SpentOnDisk'
  <2> SUFFICES ASSUME NEW k \in Keys, Live(k)'
               PROVE  \E x \in FreshEntries(k)' : Covers(x, k)'
    BY DEF SpentOnDisk
  <2>1. PICK x \in FreshEntries(k) : Covers(x, k)
    BY <1>2 DEF ReplayInv, SpentOnDisk
  <2>2. x \in DiskEntries(k) /\ x \in ChainState
    BY <2>1, DiskType, Zenon DEF FreshEntries, ReplayInv
  <2>3. /\ x.last_used \in Nat /\ spent[k].when \in Nat
        /\ spent[k].when <= x.last_used
    BY <2>1, <2>2, Fields, Zenon DEF Covers, ReplayInv, TypeOK
  <2>4. ~IsStale(x.last_used)'
    BY <1>1, <2>3, ChainAssumption DEF Live, IsStale, Cutoff
  <2> QED
    BY <1>1, <1>2, <2>1, <2>2, <2>4, Zenon DEF FreshEntries, Covers
<1>6. InFlight'
  <2>1. op.kind = "validate" => spent[op.key].when \in Nat
    BY PendingEntry, Zenon DEF ReplayInv, TypeOK
  <2> QED
    BY <1>1, <2>1, ChainAssumption DEF InFlight, ReplayInv, IsStale, Cutoff
<1> QED
  BY <1>3, <1>4, <1>5, <1>6, Zenon DEF ReplayInv

\* Every step keeps the inductive invariant when no write is torn.
LEMMA ReplayNext ==
  ASSUME Tears = {}, ReplayInv, [Next]_vars
  PROVE  ReplayInv'
<1>1. TypeOK'
  BY TypeNext DEF ReplayInv
<1>2. ASSUME NEW k \in Keys, NEW r \in Roots,
             NEW i \in 0..(MaxChainLength + 1), NEW p \in 0..MaxChainLength,
             Validate(k, i, <<r, p>>)
      PROVE  ReplayInv'
  <2>1. i \in Nat /\ <<r, p>> \in Values
    BY ChainAssumption DEF Values
  <2> QED
    BY <1>1, <1>2, <2>1, ReplayValidate
<1>3. CASE UNCHANGED vars
  BY <1>3, ReplayStutter DEF vars
<1> QED
  BY <1>1, <1>2, <1>3, ReplayRegister, ReplayGc, ReplayAppend, ReplaySnapshot,
     ReplayTruncate, ReplayIoError, ReplayCrash, ReplayLoad, ReplayStep, ReplayEnd,
     ReplayTick DEF Next

\* The inductive invariant holds of every store whose appends are not torn.
THEOREM ReplayInvariant ==
  ASSUME Tears = {}
  PROVE  Spec => []ReplayInv
<1>1. ReplayInv /\ [Next]_vars => ReplayInv'
  BY ReplayNext
<1> QED
  BY <1>1, ReplayInit, PTL DEF Spec

\* After any crashes, reloads, I/O errors and compactions, a serving store
\* has every cursor at or past every token it accepted within the idle TTL.
THEOREM CursorCovers ==
  ASSUME Tears = {}
  PROVE  Spec => []CursorCoversSpent
<1>1. ReplayInv => CursorCoversSpent
  BY MapCovers, Zenon DEF CursorCoversSpent, Serving, Live, Covers
<1> QED
  BY <1>1, ReplayInvariant, PTL

\* The replay guarantee of validate: no token at or below an accepted index
\* is accepted again while its chain is within the idle TTL.
THEOREM ReplayGuarantee ==
  ASSUME Tears = {}
  PROVE  Spec => NoReplay
<1> DEFINE Fresh == Accepting => \/ map[op.key].last_index > spent[op.key].index
                                 \/ IsStale(spent[op.key].when)
<1>1. ReplayInv /\ [Next]_vars => [Fresh]_vars
  BY Zenon DEF Accepting, ReplayInv, InFlight
<1> QED
  BY <1>1, ReplayInvariant, PTL DEF Spec, NoReplay
=============================================================================
