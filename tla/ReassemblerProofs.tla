------------------------- MODULE ReassemblerProofs -------------------------
(***************************************************************************)
(* What the receiving side of a file transfer guarantees, for any files,   *)
(* sizes, claims and limits, with chunks in any order and number, kills,   *)
(* wipes and the reaping walk in between.                                  *)
(*                                                                         *)
(* Neither property is inductive: the walk discards directories by their   *)
(* own age, so that a chunk which an entry counts stays readable only      *)
(* because its directory is no older than the entry, and the entry is      *)
(* reaped first (EntryInv).  The bytes behind a row stay because the row,  *)
(* the memory of the finished transfer and the file age together           *)
(* (RowInv).                                                               *)
(***************************************************************************)
EXTENDS Reassembler, TLAPS

USE SMTT(20), ZenonT(20)

\* A chunk of the transfer may still arrive.
Alive(a) == \E i \in Indices(a) : left[<<a, i>>] > 0

\* An entry waits for a chunk, and what it counts as received is in its
\* directory, which was written to after the entry was opened.
EntryInv(a) ==
    pending[a] # None =>
        /\ pending[a].got # Indices(a)
        /\ pending[a].got # {} /\ Alive(a) =>
              /\ disk[a] # None /\ pending[a].got \subseteq disk[a].chunks
              /\ disk[a].age <= pending[a].age \/ pending[a].age > PartialTtl

\* A row is as old as the memory of its transfer, and its file no older.
RowInv(a) ==
    row[a] \in 0 .. PartialTtl - 1 =>
        /\ completed[a] = row[a] /\ pending[a] = None
        /\ disk[a] # None /\ disk[a].whole /\ disk[a].age <= row[a]

FilesInv == FilesTypeOK /\ \A a \in Aids : EntryInv(a) /\ RowInv(a)

---------------------------------------------------------------------------
\* No two of the values that an entry, a directory or an age can be confused.
LEMMA NoneApart ==
  /\ \A e \in Entries : e # None
  /\ \A d \in Dirs : d # None
  /\ \A n \in Nat : n # None
  BY FilesAssumption

\* The pieces of a transfer.
LEMMA PieceOf == \A a \in Aids : \A i \in Indices(a) : <<a, i>> \in Pieces
  BY DEF Pieces

\* A directory, given or new, is one; so it is after a chunk was written.
LEMMA DirType ==
  ASSUME FilesTypeOK, NEW a \in Aids, NEW i \in Indices(a)
  PROVE  /\ Dir(a) \in Dirs /\ Staged(a, i) \in Dirs
         /\ Staged(a, i).chunks = Dir(a).chunks \cup {i} /\ Staged(a, i).age = 0
         /\ NewDir \in Dirs /\ [NewDir EXCEPT !.whole = TRUE] \in Dirs
         /\ [NewDir EXCEPT !.whole = TRUE].whole /\ [NewDir EXCEPT !.whole = TRUE].age = 0
  <1>1. NewDir \in Dirs BY FilesAssumption DEF NewDir, Dirs
  <1>2. Dir(a) \in Dirs BY <1>1 DEF Dir, FilesTypeOK
  <1>3. i \in Nat BY FilesAssumption DEF Indices
  <1>4. /\ Staged(a, i) \in Dirs
        /\ Staged(a, i).chunks = Dir(a).chunks \cup {i} /\ Staged(a, i).age = 0
    <2>1. 0 \in 0 .. Retention + 1 BY FilesAssumption
    <2>2. \A d \in Dirs : [d EXCEPT !.chunks = @ \cup {i}, !.age = 0] \in Dirs
      BY <1>3, <2>1, Zenon DEF Dirs
    <2>3. \A d \in Dirs : /\ [d EXCEPT !.chunks = @ \cup {i}, !.age = 0].age = 0
                         /\ [d EXCEPT !.chunks = @ \cup {i}, !.age = 0].chunks = d.chunks \cup {i}
      BY DEF Dirs
    <2> QED BY <1>2, <2>2, <2>3, Zenon DEF Staged
  <1>5. /\ [NewDir EXCEPT !.whole = TRUE] \in Dirs
        /\ [NewDir EXCEPT !.whole = TRUE].whole /\ [NewDir EXCEPT !.whole = TRUE].age = 0
    BY <1>1, Zenon DEF NewDir, Dirs
  <1> QED BY <1>1, <1>2, <1>4, <1>5

\* An entry, given or new, is one; so it is after a chunk was received.
LEMMA EntryType ==
  ASSUME FilesTypeOK, NEW a \in Aids, NEW i \in Indices(a), NEW claim \in Claims(a)
  PROVE  /\ Entry(a, claim) \in Entries /\ Received(Entry(a, claim), i) \in Entries
         /\ Received(Entry(a, claim), i).got = Entry(a, claim).got \cup {i}
         /\ Received(Entry(a, claim), i).age = Entry(a, claim).age
         /\ pending[a] = None => Entry(a, claim).got = {}
         /\ pending[a] # None => Entry(a, claim) = pending[a]
  <1>1. claim \in AnyClaim BY DEF AnyClaim
  <1>2. [got |-> {}, total |-> claim, age |-> 0] \in Entries
    BY <1>1, FilesAssumption DEF Entries
  <1>3. Entry(a, claim) \in Entries BY <1>2 DEF Entry, FilesTypeOK
  <1>4. i \in Nat BY FilesAssumption DEF Indices
  <1>5. /\ Received(Entry(a, claim), i) \in Entries
        /\ Received(Entry(a, claim), i).got = Entry(a, claim).got \cup {i}
        /\ Received(Entry(a, claim), i).age = Entry(a, claim).age
    BY <1>3, <1>4 DEF Received, Entries
  <1>6. /\ pending[a] = None => Entry(a, claim).got = {}
        /\ pending[a] # None => Entry(a, claim) = pending[a]
    BY DEF Entry
  <1> QED BY <1>3, <1>5, <1>6

\* The memory of finished transfers that a chunk leaves.
LEMMA MemoType ==
  ASSUME FilesTypeOK
  PROVE  /\ Memo \in [Aids -> 0 .. PartialTtl \cup {None}]
         /\ \A a \in Aids : completed[a] \in 0 .. PartialTtl - 1 => Memo[a] = completed[a]
         /\ \A a \in Aids : Memo[a] = None => completed[a] \notin 0 .. PartialTtl - 1
  BY FilesAssumption, NoneApart DEF Memo, FilesTypeOK

\* A chunk that arrives leaves fewer to come.
LEMMA ArriveFalls ==
  ASSUME FilesTypeOK, NEW a \in Aids, NEW i \in Indices(a), Arrive(a, i)
  PROVE  /\ left' \in [Pieces -> Nat] /\ Alive(a)
         /\ \A b \in Aids : Alive(b)' => Alive(b)
  <1>1. <<a, i>> \in Pieces BY PieceOf
  <1>2. left[<<a, i>>] \in Nat /\ left[<<a, i>>] > 0 BY <1>1 DEF FilesTypeOK, Arrive
  <1>3. left' \in [Pieces -> Nat] BY <1>1, <1>2 DEF FilesTypeOK, Arrive
  <1>4. \A c \in Pieces : left'[c] > 0 => left[c] > 0
    BY <1>1, <1>2 DEF FilesTypeOK, Arrive
  <1> QED BY <1>2, <1>3, <1>4, PieceOf DEF Alive, Indices

\* A transfer whose entry, directory and row a step leaves alone stays as the
\* invariant says.
LEMMA Untouched ==
  ASSUME FilesInv, NEW b \in Aids,
         pending'[b] = pending[b], disk'[b] = disk[b], row'[b] = row[b],
         completed'[b] \in {completed[b], Memo[b]}, Alive(b)' => Alive(b)
  PROVE  EntryInv(b)' /\ RowInv(b)'
  <1>1. EntryInv(b)' BY DEF FilesInv, EntryInv, Indices
  <1>2. RowInv(b)' BY MemoType DEF FilesInv, RowInv
  <1> QED BY <1>1, <1>2

---------------------------------------------------------------------------
(* The chunks. *)

\* A chunk that is refused changes nothing but the memory.
LEMMA RefuseKeeps ==
  ASSUME FilesInv, NEW a \in Aids, NEW i \in Indices(a), Refuse(a, i)
  PROVE  FilesInv'
  <1>1. /\ pending' = pending /\ disk' = disk /\ row' = row /\ kills' = kills
        /\ completed' = Memo /\ Arrive(a, i)
    BY DEF Refuse
  <1>2. FilesTypeOK' BY <1>1, ArriveFalls, MemoType DEF FilesInv, FilesTypeOK
  <1>3. \A b \in Aids : EntryInv(b)' /\ RowInv(b)'
    BY <1>1, ArriveFalls, Untouched DEF FilesInv
  <1> QED BY <1>2, <1>3 DEF FilesInv

\* A row in its window bars every chunk of its transfer.
LEMMA RowBars ==
  ASSUME FilesInv, NEW a \in Aids, Memo[a] = None
  PROVE  row[a] \notin 0 .. PartialTtl - 1
  BY MemoType DEF FilesInv, RowInv

\* A chunk that is dropped may have opened an entry, which has nothing yet.
LEMMA DropKeeps ==
  ASSUME FilesInv, NEW a \in Aids, NEW i \in Indices(a), NEW claim \in Claims(a),
         NEW wrote \in BOOLEAN, Drop(a, i, claim, wrote)
  PROVE  FilesInv'
  <1>1. /\ row' = row /\ kills' = kills /\ completed' = Memo /\ Arrive(a, i)
        /\ Memo[a] = None
        /\ pending' = [pending EXCEPT ![a] = Entry(a, claim)]
        /\ disk' = [disk EXCEPT ![a] = IF pending[a] = None THEN Dir(a) ELSE disk[a]]
    BY DEF Drop
  <1>2. FilesTypeOK'
    BY <1>1, ArriveFalls, MemoType, DirType, EntryType DEF FilesInv, FilesTypeOK
  <1>3. ASSUME NEW b \in Aids, b # a PROVE EntryInv(b)' /\ RowInv(b)'
    <2>1. pending'[b] = pending[b] /\ disk'[b] = disk[b] BY <1>1, <1>3 DEF FilesInv, FilesTypeOK
    <2> QED BY <1>1, <2>1, ArriveFalls, Untouched DEF FilesInv
  <1>4. EntryInv(a)' /\ RowInv(a)'
    <2>1. pending'[a] = Entry(a, claim) BY <1>1 DEF FilesInv, FilesTypeOK
    <2>2. CASE pending[a] = None
      <3>1. pending'[a].got = {} BY <2>1, <2>2, EntryType DEF FilesInv
      <3>2. {} # Indices(a) OBVIOUS
      <3>3. EntryInv(a)' BY <3>1, <3>2 DEF EntryInv, Indices
      <3> QED BY <1>1, <3>3, RowBars DEF RowInv
    <2>3. CASE pending[a] # None
      <3>1. pending'[a] = pending[a] /\ disk'[a] = disk[a]
        BY <1>1, <2>1, <2>3, EntryType DEF FilesInv, FilesTypeOK
      <3> QED BY <1>1, <3>1, ArriveFalls, Untouched DEF FilesInv
    <2> QED BY <2>2, <2>3
  <1> QED BY <1>2, <1>3, <1>4 DEF FilesInv

\* A chunk that is kept is in the directory, with those before it.
LEMMA ProgressKeeps ==
  ASSUME FilesInv, NEW a \in Aids, NEW i \in Indices(a), NEW claim \in Claims(a),
         Progress(a, i, claim)
  PROVE  FilesInv'
  <1> DEFINE e == Entry(a, claim)
  <1>1. /\ row' = row /\ kills' = kills /\ completed' = Memo /\ Arrive(a, i)
        /\ Memo[a] = None /\ e.got \cup {i} # Indices(a)
        /\ pending' = [pending EXCEPT ![a] = Received(e, i)]
        /\ disk' = [disk EXCEPT ![a] = Staged(a, i)]
    BY DEF Progress, Taken, LastMissing
  <1>2. FilesTypeOK'
    BY <1>1, ArriveFalls, MemoType, DirType, EntryType DEF FilesInv, FilesTypeOK
  <1>3. ASSUME NEW b \in Aids, b # a PROVE EntryInv(b)' /\ RowInv(b)'
    <2>1. pending'[b] = pending[b] /\ disk'[b] = disk[b] BY <1>1, <1>3 DEF FilesInv, FilesTypeOK
    <2> QED BY <1>1, <2>1, ArriveFalls, Untouched DEF FilesInv
  <1>4. EntryInv(a)'
    <2>1. /\ pending'[a].got = e.got \cup {i} /\ pending'[a].age \in Nat
          /\ disk'[a] \in Dirs /\ disk'[a].age = 0 /\ disk'[a].chunks = Dir(a).chunks \cup {i}
      BY <1>1, DirType, EntryType DEF FilesInv, FilesTypeOK, Entries
    <2>2. e.got \subseteq Dir(a).chunks
      <3>1. CASE pending[a] = None BY <3>1, EntryType DEF FilesInv
      <3>2. CASE pending[a] # None
        BY <1>1, <3>2, EntryType, ArriveFalls DEF FilesInv, EntryInv, Dir
      <3> QED BY <3>1, <3>2
    <2>3. disk'[a] # None BY <2>1, NoneApart
    <2>4. pending'[a].got # Indices(a) /\ pending'[a].got \subseteq disk'[a].chunks
      BY <1>1, <2>1, <2>2
    <2>5. disk'[a].age <= pending'[a].age BY <2>1
    <2> QED BY <2>3, <2>4, <2>5 DEF EntryInv, Indices
  <1>5. RowInv(a)' BY <1>1, RowBars DEF RowInv
  <1> QED BY <1>2, <1>3, <1>4, <1>5 DEF FilesInv

\* The last chunk closes the entry; a row begins with its file.
LEMMA CompleteKeeps ==
  ASSUME FilesInv, NEW a \in Aids, NEW i \in Indices(a), NEW claim \in Claims(a),
         NEW read \in BOOLEAN, Complete(a, i, claim, read)
  PROVE  FilesInv'
  <1>1. /\ kills' = kills /\ Arrive(a, i) /\ Memo[a] = None
        /\ pending' = [pending EXCEPT ![a] = None]
    BY DEF Complete, Taken
  <1>2. CASE /\ completed' = [Memo EXCEPT ![a] = 0]
             /\ disk' = [disk EXCEPT ![a] = [NewDir EXCEPT !.whole = TRUE]]
             /\ row' = [row EXCEPT ![a] = 0]
    <2>1. FilesTypeOK'
      <3>1. 0 \in 0 .. PartialTtl BY FilesAssumption
      <3> QED BY <1>1, <1>2, <3>1, ArriveFalls, MemoType, DirType, Zenon DEF FilesInv, FilesTypeOK
    <2>2. ASSUME NEW b \in Aids, b # a PROVE EntryInv(b)' /\ RowInv(b)'
      <3>1. /\ pending'[b] = pending[b] /\ disk'[b] = disk[b] /\ row'[b] = row[b]
            /\ completed'[b] = Memo[b]
        BY <1>1, <1>2, <2>2, MemoType DEF FilesInv, FilesTypeOK
      <3> QED BY <1>1, <3>1, ArriveFalls, Untouched DEF FilesInv
    <2>3. pending'[a] = None /\ completed'[a] = 0 /\ row'[a] = 0
      BY <1>1, <1>2, MemoType DEF FilesInv, FilesTypeOK
    <2>4. disk'[a] = [NewDir EXCEPT !.whole = TRUE] BY <1>2 DEF FilesInv, FilesTypeOK
    <2>5. disk'[a] # None /\ disk'[a].whole /\ disk'[a].age = 0
      BY <2>4, DirType, NoneApart, Zenon DEF FilesInv
    <2>6. EntryInv(a)' /\ RowInv(a)' BY <2>3, <2>5 DEF EntryInv, RowInv
    <2> QED BY <2>1, <2>2, <2>6 DEF FilesInv
  <1>3. CASE completed' = Memo /\ disk' = [disk EXCEPT ![a] = None] /\ row' = row
    <2>1. FilesTypeOK' BY <1>1, <1>3, ArriveFalls, MemoType DEF FilesInv, FilesTypeOK
    <2>2. ASSUME NEW b \in Aids, b # a PROVE EntryInv(b)' /\ RowInv(b)'
      <3>1. pending'[b] = pending[b] /\ disk'[b] = disk[b]
        BY <1>1, <1>3, <2>2 DEF FilesInv, FilesTypeOK
      <3> QED BY <1>1, <1>3, <3>1, ArriveFalls, Untouched DEF FilesInv
    <2>3. pending'[a] = None BY <1>1 DEF FilesInv, FilesTypeOK
    <2>4. EntryInv(a)' BY <2>3 DEF EntryInv
    <2>5. RowInv(a)' BY <1>1, <1>3, RowBars DEF RowInv
    <2> QED BY <2>1, <2>2, <2>4, <2>5 DEF FilesInv
  <1> QED BY <1>2, <1>3 DEF Complete

---------------------------------------------------------------------------
(* The walk, the wipe, time and the end of the process. *)

\* The walk takes the directory of no entry that it leaves, and of no row in
\* its window.
LEMMA WalkKeeps ==
  ASSUME FilesInv, runRetryWalk
  PROVE  FilesInv'
  <1>1. /\ completed' = completed /\ row' = row /\ left' = left /\ kills' = kills
        /\ pending' = [a \in Aids |-> IF a \in StaleEntries THEN None ELSE pending[a]]
        /\ disk' = [a \in Aids |-> IF a \in StaleEntries \cup OldDirs THEN None ELSE disk[a]]
    BY DEF runRetryWalk
  <1>2. FilesTypeOK' BY <1>1 DEF FilesInv, FilesTypeOK
  <1>3. ASSUME NEW a \in Aids PROVE EntryInv(a)' /\ RowInv(a)'
    <2>1. /\ pending[a] # None => pending[a].age \in Nat
          /\ disk[a] # None => disk[a].age \in Nat
      BY FilesAssumption DEF FilesInv, FilesTypeOK, Entries, Dirs
    <2>2. CASE a \in StaleEntries
      <3>1. pending'[a] = None BY <1>1, <2>2
      <3>2. pending[a] # None BY <2>2 DEF StaleEntries, Active
      <3> QED BY <1>1, <3>1, <3>2 DEF FilesInv, EntryInv, RowInv
    <2>3. CASE a \notin StaleEntries /\ a \in OldDirs
      <3>1. pending'[a] = pending[a] BY <1>1, <2>3
      <3>2. disk[a] # None /\ disk[a].age > Retention BY <2>3 DEF OldDirs
      <3>3. pending[a] # None => ~(pending[a].age > PartialTtl)
        BY <2>3 DEF StaleEntries, Active
      <3>4. pending[a] # None => ~(disk[a].age <= pending[a].age)
        BY <2>1, <3>2, <3>3, FilesAssumption
      <3>5. EntryInv(a)' BY <1>1, <3>1, <3>3, <3>4 DEF FilesInv, EntryInv, Alive, Indices
      <3>6. RowInv(a)'
        BY <1>1, <2>1, <3>2, FilesAssumption DEF FilesInv, RowInv
      <3> QED BY <3>5, <3>6
    <2>4. CASE a \notin StaleEntries /\ a \notin OldDirs
      <3>1. pending'[a] = pending[a] /\ disk'[a] = disk[a] BY <1>1, <2>4
      <3> QED BY <1>1, <3>1, Untouched DEF Alive, Indices
    <2> QED BY <2>2, <2>3, <2>4
  <1> QED BY <1>2, <1>3 DEF FilesInv

\* After the wipe nothing of the old identity arrives any more.
LEMMA WipeKeeps ==
  ASSUME FilesInv, eraseEverything
  PROVE  FilesInv'
  <1>1. /\ disk' = NoAids /\ row' = NoAids /\ left' = [c \in Pieces |-> 0]
        /\ pending' = pending /\ completed' = completed /\ kills' = kills
    BY DEF eraseEverything, FilesInv, FilesTypeOK
  <1>2. FilesTypeOK' BY <1>1 DEF FilesInv, FilesTypeOK, NoAids
  <1>3. ASSUME NEW a \in Aids PROVE EntryInv(a)' /\ RowInv(a)'
    <2>1. row'[a] = None BY <1>1 DEF NoAids
    <2>2. \A n \in 0 .. PartialTtl - 1 : n # None BY NoneApart, FilesAssumption
    <2>3. ~Alive(a)'
      <3>1. \A i \in Indices(a) : left'[<<a, i>>] = 0 BY <1>1, PieceOf
      <3>2. \A i \in Indices(a) : ~(left'[<<a, i>>] > 0) BY <3>1
      <3> QED BY <3>2, Zenon DEF Alive, Indices
    <2> QED BY <1>1, <2>1, <2>2, <2>3 DEF FilesInv, EntryInv, RowInv, Indices
  <1> QED BY <1>2, <1>3 DEF FilesInv

\* An entry and a directory grow older by themselves.
LEMMA OlderType ==
  /\ \A e \in Entries : /\ OlderRec(e, PartialTtl) \in Entries
                        /\ OlderRec(e, PartialTtl).got = e.got
                        /\ OlderRec(e, PartialTtl).age = Older(e.age, PartialTtl)
  /\ \A d \in Dirs : /\ OlderRec(d, Retention) \in Dirs
                     /\ OlderRec(d, Retention).chunks = d.chunks
                     /\ OlderRec(d, Retention).whole = d.whole
                     /\ OlderRec(d, Retention).age = Older(d.age, Retention)
  /\ \A n \in 0 .. PartialTtl \cup {None} : Older(n, PartialTtl - 1) \in 0 .. PartialTtl \cup {None}
  <1>1. /\ \A n \in 0 .. PartialTtl + 1 : Older(n, PartialTtl) \in 0 .. PartialTtl + 1
        /\ \A n \in 0 .. Retention + 1 : Older(n, Retention) \in 0 .. Retention + 1
        /\ \A n \in 0 .. PartialTtl : Older(n, PartialTtl - 1) \in 0 .. PartialTtl
    BY FilesAssumption DEF Older
  <1>2. Older(None, PartialTtl - 1) = None
    BY FilesAssumption, NoneApart DEF Older
  <1>3. ASSUME NEW e \in Entries
        PROVE  /\ OlderRec(e, PartialTtl) \in Entries
               /\ OlderRec(e, PartialTtl).got = e.got
               /\ OlderRec(e, PartialTtl).age = Older(e.age, PartialTtl)
    <2>1. OlderRec(e, PartialTtl) = [e EXCEPT !.age = Older(e.age, PartialTtl)]
      BY NoneApart DEF OlderRec
    <2> QED BY <1>1, <2>1 DEF Entries
  <1>4. ASSUME NEW d \in Dirs
        PROVE  /\ OlderRec(d, Retention) \in Dirs
               /\ OlderRec(d, Retention).chunks = d.chunks
               /\ OlderRec(d, Retention).whole = d.whole
               /\ OlderRec(d, Retention).age = Older(d.age, Retention)
    <2>1. OlderRec(d, Retention) = [d EXCEPT !.age = Older(d.age, Retention)]
      BY NoneApart DEF OlderRec
    <2> QED BY <1>1, <2>1 DEF Dirs
  <1> QED BY <1>1, <1>2, <1>3, <1>4

\* Time passes for an entry, its directory, its row and its memory alike.
LEMMA TickKeeps ==
  ASSUME FilesInv, Tick
  PROVE  FilesInv'
  <1>1. /\ left' = left /\ kills' = kills
        /\ pending' = [a \in Aids |-> OlderRec(pending[a], PartialTtl)]
        /\ disk' = [a \in Aids |-> OlderRec(disk[a], Retention)]
        /\ completed' = [a \in Aids |-> Older(completed[a], PartialTtl - 1)]
        /\ row' = [a \in Aids |-> Older(row[a], PartialTtl - 1)]
    BY DEF Tick
  <1>2. OlderRec(None, PartialTtl) = None /\ OlderRec(None, Retention) = None
    BY DEF OlderRec
  <1>3. FilesTypeOK' BY <1>1, <1>2, OlderType, Zenon DEF FilesInv, FilesTypeOK
  <1>4. ASSUME NEW a \in Aids PROVE EntryInv(a)' /\ RowInv(a)'
    <2>1. /\ pending[a] \in Entries \cup {None} /\ disk[a] \in Dirs \cup {None}
          /\ row[a] \in 0 .. PartialTtl \cup {None}
          /\ pending'[a] = OlderRec(pending[a], PartialTtl)
          /\ disk'[a] = OlderRec(disk[a], Retention)
          /\ completed'[a] = Older(completed[a], PartialTtl - 1)
          /\ row'[a] = Older(row[a], PartialTtl - 1)
      BY <1>1 DEF FilesInv, FilesTypeOK
    <2>2. EntryInv(a)'
      <3>1. CASE pending[a] = None BY <1>2, <2>1, <3>1 DEF EntryInv
      <3>2. CASE pending[a] # None
        <4>1. /\ pending'[a].got = pending[a].got
              /\ pending'[a].age = Older(pending[a].age, PartialTtl)
              /\ pending[a].age \in 0 .. PartialTtl + 1
          BY <2>1, <3>2, OlderType DEF Entries
        <4>2. CASE disk[a] = None
          BY <1>1, <1>2, <2>1, <3>2, <4>1, <4>2 DEF FilesInv, EntryInv, Alive, Indices
        <4>3. CASE disk[a] # None
          <5>1. /\ disk'[a] # None /\ disk'[a].chunks = disk[a].chunks
                /\ disk'[a].age = Older(disk[a].age, Retention)
                /\ disk[a].age \in 0 .. Retention + 1
            BY <2>1, <4>3, OlderType, NoneApart DEF Dirs
          <5>2. disk[a].age <= pending[a].age \/ pending[a].age > PartialTtl
                  => disk'[a].age <= pending'[a].age \/ pending'[a].age > PartialTtl
            BY <4>1, <5>1, FilesAssumption DEF Older
          <5> QED BY <1>1, <3>2, <4>1, <5>1, <5>2 DEF FilesInv, EntryInv, Alive, Indices
        <4> QED BY <4>2, <4>3
      <3> QED BY <3>1, <3>2
    <2>3. RowInv(a)'
      <3>1. SUFFICES ASSUME row'[a] \in 0 .. PartialTtl - 1
                     PROVE  /\ completed'[a] = row'[a] /\ pending'[a] = None
                            /\ disk'[a] # None /\ disk'[a].whole /\ disk'[a].age <= row'[a]
        BY DEF RowInv
      <3>2. row[a] \in 0 .. PartialTtl - 1 /\ row'[a] = row[a] + 1
        BY <2>1, <3>1, FilesAssumption, NoneApart DEF Older
      <3>3. /\ completed[a] = row[a] /\ pending[a] = None
            /\ disk[a] # None /\ disk[a].whole /\ disk[a].age <= row[a]
        BY <3>2 DEF FilesInv, RowInv
      <3>4. /\ disk'[a] # None /\ disk'[a].whole = disk[a].whole
            /\ disk'[a].age = Older(disk[a].age, Retention)
            /\ disk[a].age \in 0 .. Retention + 1
        <4>1. disk[a] \in Dirs BY <2>1, <3>3
        <4>2. disk'[a] \in Dirs BY <2>1, <4>1, OlderType
        <4>3. /\ disk'[a].whole = disk[a].whole
              /\ disk'[a].age = Older(disk[a].age, Retention)
          BY <2>1, <4>1, OlderType
        <4>4. disk[a].age \in 0 .. Retention + 1 BY <4>1 DEF Dirs
        <4> QED BY <4>2, <4>3, <4>4, NoneApart
      <3>5. disk'[a].age <= row'[a] BY <3>2, <3>3, <3>4, FilesAssumption DEF Older
      <3> QED BY <1>2, <2>1, <3>3, <3>4, <3>5
    <2> QED BY <2>2, <2>3
  <1> QED BY <1>3, <1>4 DEF FilesInv

\* A killed process forgets its entries and rows, whatever it leaves on disk.
LEMMA KilledKeeps ==
  ASSUME FilesInv, Killed, disk' \in [Aids -> Dirs \cup {None}], left' \in [Pieces -> Nat]
  PROVE  FilesInv'
  <1>1. /\ pending' = NoAids /\ completed' = NoAids /\ row' = NoAids
        /\ kills' = kills + 1 /\ kills < MaxKills
    BY DEF Killed
  <1>2. kills' \in 0 .. MaxKills BY <1>1, FilesAssumption DEF FilesInv, FilesTypeOK
  <1>3. FilesTypeOK' BY <1>1, <1>2 DEF FilesTypeOK, NoAids
  <1>4. \A n \in 0 .. PartialTtl - 1 : n # None BY NoneApart, FilesAssumption
  <1>5. \A a \in Aids : EntryInv(a)' /\ RowInv(a)'
    BY <1>1, <1>4 DEF EntryInv, RowInv, NoAids
  <1> QED BY <1>3, <1>5 DEF FilesInv

\* The process ends between two chunks.
LEMMA KillKeeps ==
  ASSUME FilesInv, Kill
  PROVE  FilesInv'
  <1>1. /\ Killed /\ disk' = disk /\ left' = left BY DEF Kill
  <1> QED BY <1>1, KilledKeeps DEF FilesInv, FilesTypeOK

\* A kill during the assembly may leave chunk files, and no entry.
LEMMA KillAssemblingKeeps ==
  ASSUME FilesInv, NEW a \in Aids, NEW i \in Indices(a), NEW claim \in Claims(a),
         KillAssembling(a, i, claim)
  PROVE  FilesInv'
  <1>1. /\ Arrive(a, i) /\ Killed /\ disk' = [disk EXCEPT ![a] = Staged(a, i)]
    BY DEF KillAssembling, Taken
  <1>2. Staged(a, i) \in Dirs BY DirType DEF FilesInv
  <1>3. disk' \in [Aids -> Dirs \cup {None}] BY <1>1, <1>2 DEF FilesInv, FilesTypeOK
  <1>4. left' \in [Pieces -> Nat] BY <1>1, ArriveFalls DEF FilesInv
  <1> QED BY <1>1, <1>3, <1>4, KilledKeeps

---------------------------------------------------------------------------
\* The inductive invariant holds in every reachable state.
LEMMA FilesInvariant == FilesSpec => []FilesInv
  <1>1. FilesInit => FilesInv
    <2> SUFFICES ASSUME FilesInit PROVE FilesInv OBVIOUS
    <2>1. /\ pending = NoAids /\ completed = NoAids /\ disk = NoAids /\ row = NoAids
          /\ left = [c \in Pieces |-> Copies(c[1])] /\ kills = 0
      BY DEF FilesInit
    <2>2. left \in [Pieces -> Nat] BY <2>1, FilesAssumption DEF Pieces
    <2>3. kills \in 0 .. MaxKills BY <2>1, FilesAssumption
    <2>4. FilesTypeOK BY <2>1, <2>2, <2>3 DEF FilesTypeOK, NoAids
    <2>5. \A n \in 0 .. PartialTtl - 1 : n # None BY NoneApart, FilesAssumption
    <2>6. \A a \in Aids : EntryInv(a) /\ RowInv(a)
      BY <2>1, <2>5 DEF EntryInv, RowInv, NoAids
    <2> QED BY <2>4, <2>6 DEF FilesInv
  <1>2. FilesInv /\ [FilesNext]_fileVars => FilesInv'
    <2> SUFFICES ASSUME FilesInv, [FilesNext]_fileVars PROVE FilesInv' OBVIOUS
    <2>1. ASSUME NEW a \in Aids, NEW i \in Indices(a), NEW claim \in Claims(a),
                 feed(a, i, claim) \/ KillAssembling(a, i, claim)
          PROVE  FilesInv'
      <3>1. CASE Refuse(a, i) BY <3>1, RefuseKeeps
      <3>2. ASSUME NEW ok \in BOOLEAN, Drop(a, i, claim, ok) PROVE FilesInv'
        BY <3>2, DropKeeps
      <3>3. ASSUME NEW ok \in BOOLEAN, Complete(a, i, claim, ok) PROVE FilesInv'
        BY <3>3, CompleteKeeps
      <3>4. CASE Progress(a, i, claim) BY <3>4, ProgressKeeps
      <3>5. CASE KillAssembling(a, i, claim) BY <3>5, KillAssemblingKeeps
      <3> QED BY <2>1, <3>1, <3>2, <3>3, <3>4, <3>5 DEF feed
    <2>2. CASE runRetryWalk BY <2>2, WalkKeeps
    <2>3. CASE eraseEverything BY <2>3, WipeKeeps
    <2>4. CASE Tick BY <2>4, TickKeeps
    <2>5. CASE Kill BY <2>5, KillKeeps
    <2>6. CASE UNCHANGED fileVars
      BY <2>6, Zenon DEF fileVars, FilesInv, FilesTypeOK, EntryInv, RowInv, Alive, Indices
    <2> QED BY <2>1, <2>2, <2>3, <2>4, <2>5, <2>6 DEF FilesNext
  <1> QED BY <1>1, <1>2, PTL DEF FilesSpec

\* What the reassembler counts as received is on disk when the last chunk
\* comes, and no complete transfer is left waiting, for any number of chunks,
\* copies and kills and any lifetimes with partialTTL within the retention.
THEOREM StagedStays == FilesSpec => []StagedIsThere
  <1>1. FilesInv => StagedIsThere
    <2> SUFFICES ASSUME FilesInv, NEW a \in Active
                 PROVE  /\ pending[a].got # Indices(a)
                        /\ Alive(a) => pending[a].got \subseteq Dir(a).chunks
      BY DEF StagedIsThere, Alive
    <2>1. a \in Aids /\ pending[a] # None BY DEF Active
    <2>2. EntryInv(a) BY <2>1 DEF FilesInv
    <2>3. CASE pending[a].got = {} BY <2>1, <2>2, <2>3 DEF EntryInv
    <2>4. CASE pending[a].got # {} BY <2>1, <2>2, <2>4 DEF EntryInv, Dir
    <2> QED BY <2>3, <2>4
  <1> QED BY <1>1, FilesInvariant, PTL

\* The bytes behind the row of a finished transfer stay for as long as the
\* transfer is remembered, whatever else arrives under its id.
THEOREM RowsStay == FilesSpec => []RowKeepsBytes
  <1>1. FilesInv => RowKeepsBytes BY DEF FilesInv, RowInv, RowKeepsBytes
  <1> QED BY <1>1, FilesInvariant, PTL
=============================================================================
