---------------------------- MODULE Reassembler ----------------------------
(***************************************************************************)
(* The receiving side of a file transfer: AttachmentReassembler.swift, the *)
(* directories of AttachmentSandbox.swift it writes to, the handler that   *)
(* feeds it and the walk that reaps it (ChatStore.swift).                  *)
(*                                                                         *)
(* A chunk reaches `feed' in any order, up to Copies(a) times, under any   *)
(* of the total sizes its sender may claim. What the table knows           *)
(* (`pending', `completed') is in memory, the chunks are files: a kill     *)
(* loses the one and keeps the other. Instants are kept as ages, which     *)
(* stop growing once they decide nothing more. Attachment ids are 16       *)
(* random bytes, so two peers never share one and PeerOf is a function of  *)
(* the id.                                                                 *)
(***************************************************************************)
EXTENDS Integers, FiniteSets, FiniteSetsExt

CONSTANTS Aids,            \* attachment ids
          PeerOf(_),       \* who sends it
          Chunks(_),       \* its number of chunks
          Size(_),         \* the size of each of them
          Claims(_),       \* the total sizes the sender may assert
          PartialTtl,      \* partialTTL, 24 h
          Retention,       \* the sandbox cutoff of the walk, 7 days
          PerPeerCap,      \* perPeerPendingCap
          Budget,          \* globalInFlightByteBudget
          Copies(_),       \* how often a chunk of it may arrive
          MaxKills, None

VARIABLES pending,    \* aid -> its Pending record or None
          completed,  \* aid -> age of completedAttachmentIds[aid] or None
          disk,       \* aid -> its inbound directory or None
          row,        \* aid -> age of its row inserted by this process, or None
          left,       \* <<aid, index>> -> copies still to arrive
          kills       \* kills so far

fileVars == <<pending, completed, disk, row, left, kills>>

Indices(a) == 0 .. Chunks(a) - 1
Pieces == UNION {{a} \X Indices(a) : a \in Aids}
AnyClaim == UNION {Claims(a) : a \in Aids}

\* A Pending record: receivedIndices, totalSize and firstSeenAt.
Entries == [got : SUBSET Nat, total : AnyClaim, age : 0 .. PartialTtl + 1]

\* A directory: its chunk files, whether it holds an assembled file, its mtime.
Dirs == [chunks : SUBSET Nat, whole : BOOLEAN, age : 0 .. Retention + 1]

ASSUME FilesAssumption ==
    /\ \A a \in Aids : Chunks(a) \in Nat /\ Copies(a) \in Nat
    /\ PartialTtl \in Nat /\ Retention \in Nat /\ PartialTtl <= Retention
    /\ MaxKills \in Nat
    /\ None \notin Nat \cup Entries \cup Dirs

NoAids == [a \in Aids |-> None]
Active == {a \in Aids : pending[a] # None}
NewDir == [chunks |-> {}, whole |-> FALSE, age |-> 0]

FilesInit ==
    /\ pending = NoAids /\ completed = NoAids /\ disk = NoAids /\ row = NoAids
    /\ left = [c \in Pieces |-> Copies(c[1])]
    /\ kills = 0

---------------------------------------------------------------------------
(* feed *)

\* The sum of bytesWritten.
InFlightBytes ==
    LET BytesWritten(a) == Size(a) * Cardinality(pending[a].got)
    IN  MapThenSumSet(BytesWritten, Active)

\* A budget that ends the transfers only once it is used up.
MutWouldExceed(inFlight, incoming) == inFlight >= Budget

WouldExceedDiskBudget(inFlight, incoming) ==
    inFlight >= Budget \/ incoming > Budget - inFlight

\* A table of finished transfers that is looked up after it was emptied.
MutMemo == NoAids

\* The memoisation of finished transfers that the next chunk finds.
Memo == [a \in Aids |-> IF completed[a] \in 0 .. PartialTtl - 1 THEN completed[a] ELSE None]

AtPeerCap(a) == Cardinality({b \in Active : PeerOf(b) = PeerOf(a)}) >= PerPeerCap

\* The entry and the directory that the chunk's transfer has, or is given.
Entry(a, claim) ==
    IF pending[a] = None THEN [got |-> {}, total |-> claim, age |-> 0] ELSE pending[a]
Dir(a) == IF disk[a] = None THEN NewDir ELSE disk[a]
Received(e, i) == [e EXCEPT !.got = @ \cup {i}]

Accepts(a, i, claim, wrote) ==
    /\ Entry(a, claim).total = claim
    /\ i \notin Entry(a, claim).got
    /\ Size(a) <= claim
    /\ ~WouldExceedDiskBudget(InFlightBytes, Size(a))
    /\ wrote

\* The chunk's file is written, by a rename: the directory's mtime moves.
Staged(a, i) == [Dir(a) EXCEPT !.chunks = @ \cup {i}, !.age = 0]

\* finalize: every chunk file is read back, and they add up to the claim.
Finalizes(a, i, claim, read) ==
    read /\ Indices(a) \subseteq Staged(a, i).chunks /\ Size(a) * Chunks(a) = claim

Arrive(a, i) == left[<<a, i>>] > 0 /\ left' = [left EXCEPT ![<<a, i>>] = @ - 1]

\* A chunk of a finished transfer, or a new one past the peer's cap.
Refuse(a, i) ==
    /\ Arrive(a, i)
    /\ Memo[a] # None \/ (pending[a] = None /\ AtPeerCap(a))
    /\ completed' = Memo
    /\ UNCHANGED <<pending, disk, row, kills>>

\* A chunk that is dropped once its transfer has an entry.
Drop(a, i, claim, wrote) ==
    /\ Arrive(a, i)
    /\ Memo[a] = None
    /\ pending[a] # None \/ ~AtPeerCap(a)
    /\ ~Accepts(a, i, claim, wrote)
    /\ completed' = Memo
    /\ pending' = [pending EXCEPT ![a] = Entry(a, claim)]
    /\ disk' = [disk EXCEPT ![a] = IF pending[a] = None THEN Dir(a) ELSE @]
    /\ UNCHANGED <<row, kills>>

Taken(a, i, claim) ==
    /\ Arrive(a, i)
    /\ Memo[a] = None
    /\ pending[a] # None \/ ~AtPeerCap(a)
    /\ Accepts(a, i, claim, TRUE)

LastMissing(a, i, claim) == Entry(a, claim).got \cup {i} = Indices(a)

\* A chunk that is kept while others are missing.
Progress(a, i, claim) ==
    /\ Taken(a, i, claim)
    /\ ~LastMissing(a, i, claim)
    /\ completed' = Memo
    /\ pending' = [pending EXCEPT ![a] = Received(Entry(a, claim), i)]
    /\ disk' = [disk EXCEPT ![a] = Staged(a, i)]
    /\ UNCHANGED <<row, kills>>

\* The last chunk: the file is assembled and its row inserted, or nothing is
\* left of the transfer.
Complete(a, i, claim, read) ==
    /\ Taken(a, i, claim)
    /\ LastMissing(a, i, claim)
    /\ pending' = [pending EXCEPT ![a] = None]
    /\ IF Finalizes(a, i, claim, read)
       THEN /\ completed' = [Memo EXCEPT ![a] = 0]
            /\ disk' = [disk EXCEPT ![a] = [NewDir EXCEPT !.whole = TRUE]]
            /\ row' = [row EXCEPT ![a] = 0]
       ELSE /\ completed' = Memo
            /\ disk' = [disk EXCEPT ![a] = None]
            /\ UNCHANGED row
    /\ UNCHANGED kills

feed(a, i, claim) ==
    \/ Refuse(a, i)
    \/ \E ok \in BOOLEAN : Drop(a, i, claim, ok) \/ Complete(a, i, claim, ok)
    \/ Progress(a, i, claim)

---------------------------------------------------------------------------
(* The walk, the wipe, the passage of time and the end of the process *)

\* staleEntries: transfers opened more than partialTTL ago.
StaleEntries == {a \in Active : pending[a].age > PartialTtl}

\* A cutoff no older than a day, and a cleanup of finished transfers only.
MutOldDirs == {a \in Aids : disk[a] # None /\ disk[a].age > 0}
MutWholeDirs == {a \in Aids : disk[a] # None /\ disk[a].whole /\ disk[a].age > Retention}

\* cleanup: directories whose mtime is before the cutoff.
OldDirs == {a \in Aids : disk[a] # None /\ disk[a].age > Retention}

\* The walk discards stale entries with their directories, then cleans up.
runRetryWalk ==
    /\ pending' = [a \in Aids |-> IF a \in StaleEntries THEN None ELSE pending[a]]
    /\ disk' = [a \in Aids |-> IF a \in StaleEntries \cup OldDirs THEN None ELSE disk[a]]
    /\ UNCHANGED <<completed, row, left, kills>>

\* The duress wipe unlinks the tree and forgets the rows.  The table is not
\* reset; what is still under way was sealed to the identity that is gone.
eraseEverything ==
    /\ disk' = NoAids /\ row' = NoAids
    /\ left' = [c \in DOMAIN left |-> 0]
    /\ UNCHANGED <<pending, completed, kills>>

Older(age, last) == IF age \in 0 .. last THEN age + 1 ELSE age
OlderRec(r, last) == IF r = None THEN r ELSE [r EXCEPT !.age = Older(@, last)]

Tick ==
    /\ pending' = [a \in Aids |-> OlderRec(pending[a], PartialTtl)]
    /\ disk' = [a \in Aids |-> OlderRec(disk[a], Retention)]
    /\ completed' = [a \in Aids |-> Older(completed[a], PartialTtl - 1)]
    /\ row' = [a \in Aids |-> Older(row[a], PartialTtl - 1)]
    /\ UNCHANGED <<left, kills>>

Killed == /\ kills < MaxKills /\ kills' = kills + 1
          /\ pending' = NoAids /\ completed' = NoAids /\ row' = NoAids

\* iOS ends the process, between two chunks or while a file is assembled.
Kill == Killed /\ UNCHANGED <<disk, left>>
KillAssembling(a, i, claim) ==
    /\ Taken(a, i, claim)
    /\ LastMissing(a, i, claim)
    /\ disk' = [disk EXCEPT ![a] = Staged(a, i)]
    /\ Killed

FilesNext ==
    \/ \E a \in Aids : \E i \in Indices(a), claim \in Claims(a) :
          feed(a, i, claim) \/ KillAssembling(a, i, claim)
    \/ runRetryWalk \/ eraseEverything \/ Tick \/ Kill

\* The walk runs on a timer of the app, and time passes.
FilesFairness == WF_fileVars(runRetryWalk) /\ WF_fileVars(Tick)

FilesSpec == FilesInit /\ [][FilesNext]_fileVars /\ FilesFairness

---------------------------------------------------------------------------
(* Properties *)

\* Type invariant of the table, the directories and what is still to come.
FilesTypeOK ==
    /\ pending \in [Aids -> Entries \cup {None}]
    /\ disk \in [Aids -> Dirs \cup {None}]
    /\ completed \in [Aids -> 0 .. PartialTtl \cup {None}]
    /\ row \in [Aids -> 0 .. PartialTtl \cup {None}]
    /\ left \in [Pieces -> Nat]
    /\ kills \in 0 .. MaxKills

\* The bytes of all transfers in flight stay within globalInFlightByteBudget,
\* and no peer has more than perPeerPendingCap of them
\* (AttachmentReassembler.swift, feed).
WithinLimits ==
    /\ InFlightBytes <= Budget
    /\ \A a \in Active :
          Cardinality({b \in Active : PeerOf(b) = PeerOf(a)}) <= PerPeerCap

\* A chunk the table counts as received can be read back when the last one
\* comes: neither the reaping of stale entries nor the sandbox's cleanup takes
\* the files of a transfer that can still finish, and no entry that has every
\* chunk is left waiting (AttachmentReassembler.swift, finalize).
StagedIsThere ==
    \A a \in Active :
        /\ pending[a].got # Indices(a)
        /\ (\E i \in Indices(a) : left[<<a, i>>] > 0) =>
              pending[a].got \subseteq Dir(a).chunks

\* While a finished transfer is remembered, the bytes behind its row stay,
\* whatever else arrives under its id (AttachmentReassembler.swift, feed).
RowKeepsBytes ==
    \A a \in Aids : row[a] \in 0 .. PartialTtl - 1 => disk[a] # None /\ disk[a].whole

\* Nothing stays for good: once chunks stop coming every entry is reaped and
\* every directory removed, those a killed process left behind included
\* (ChatStore.swift, runRetryWalk).
LeftoversGo == []<>(\A a \in Aids : pending[a] = None /\ disk[a] = None)
=============================================================================
