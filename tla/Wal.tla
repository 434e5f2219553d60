-------------------------------- MODULE Wal --------------------------------
(* The write-ahead log of the database library that holds the app's        *)
(* messages, sessions and token chains (wal.c of the vendored amalgamation *)
(* under journal_mode = WAL and synchronous = FULL): the log file, the     *)
(* wal-index in shared memory, readers that find a snapshot, the one       *)
(* writer, checkpoints that copy the log back, recovery.                   *)
(*                                                                         *)
(* A page's content is the number of the write that made it. A frame's     *)
(* checksum is the header's salt and the bodies of all frames up to it,    *)
(* which is what the running checksum stands for; a random salt is one     *)
(* nothing has yet. The connections are of one process: a crash ends all   *)
(* of them, loses the shared memory, and keeps of what was not synced any  *)
(* part. A step of Next is one access to the shared memory that another    *)
(* connection can come in before, or several that no other can tell from   *)
(* one: the scan for a reader's slot, a checkpoint's iterator with the     *)
(* lock it then takes, and recovery, which holds every lock. Closing the   *)
(* last connection is included. Left out: the database size, savepoints,   *)
(* read-only and exclusive-mode connections, I/O errors but for an         *)
(* interrupted checkpoint, and the FULL, RESTART and TRUNCATE checkpoints, *)
(* which the app never asks for.                                           *)
EXTENDS Naturals, Sequences, FiniteSets

LOCAL INSTANCE FiniteSetsExt
LOCAL INSTANCE Functions

CONSTANTS
    Conns,          \* connections
    Writers,        \* those that write and checkpoint
    Pages,
    NReader,        \* WAL_NREADER
    MaxFrames,      \* bound: frames of the log
    MaxWrites,      \* bound: page writes
    MaxCrashes,     \* bound: crashes
    None            \* no connection

ASSUME WalAssumption ==
    /\ Writers \subseteq Conns /\ None \notin Conns
    /\ NReader \in Nat \ {0, 1}
    /\ MaxFrames \in Nat /\ MaxWrites \in Nat /\ MaxCrashes \in Nat

VARIABLES
    wal, walD,      \* the log file [salt, frames], and what of it is synced
    db, dbD,        \* the database file, and what of it is synced
    h0, h1,         \* the two copies of the wal-index header
    ix,             \* aPgno: the page of each frame
    nBackfill,      \* frames that are known to be in the database file
    mark,           \* aReadMark[1 ..]
    writeLock, ckptLock,
    cn,             \* what each connection knows
    content,        \* history: the committed database
    view,           \* history: what each connection should read
    doubt,          \* history: the commit a crash cut off
    writes, crashes

files == <<wal, walD, db, dbD>>
shm == <<h0, h1, ix, nBackfill, mark>>
locks == <<writeLock, ckptLock>>
hist == <<content, view, doubt>>
vars == <<files, shm, locks, cn, hist, writes, crashes>>

Slots == 1 .. NReader - 1
NoSlot == NReader               \* readLock = -1
NotUsed == MaxFrames + 1        \* READMARK_NOT_USED
Torn == MaxWrites + 1           \* a page that was half written
Hole == [pg |-> None, val |-> Torn, commit |-> FALSE, ck |-> <<>>]
NoView == [p \in Pages |-> Torn]

NoHdr == [init |-> FALSE, mx |-> 0, salt |-> 0, ck |-> <<>>]
EmptyLog == [salt |-> 0, frames |-> <<>>]
Zeroed == [p \in Pages |-> 0]

Closed ==
    [pc |-> "idle", hdr |-> NoHdr, readLock |-> NoSlot, minFrame |-> 0,
     slot |-> 0, mxReadMark |-> 0, mxSafe |-> 0, todo |-> {}, iReCksum |-> 0,
     mode |-> "PASSIVE"]

Init ==
    /\ wal = EmptyLog /\ walD = EmptyLog
    /\ db = Zeroed /\ dbD = Zeroed
    /\ h0 = NoHdr /\ h1 = NoHdr /\ ix = <<>>
    /\ nBackfill = 0 /\ mark = [i \in Slots |-> 0]
    /\ writeLock = None /\ ckptLock = None
    /\ cn = [c \in Conns |-> Closed]
    /\ content = Zeroed /\ view = [c \in Conns |-> NoView] /\ doubt = {}
    /\ writes = 0 /\ crashes = 0

---------------------------------------------------------------------------
(* Frames, the index and the locks. *)

Body(f) == <<f.pg, f.val, f.commit>>

\* walChecksumBytes, walEncodeFrame: the checksum of the first n frames.
Cksum(w, n) == [k \in 1 .. n + 1 |-> IF k = 1 THEN w.salt ELSE Body(w.frames[k - 1])]

\* walDecodeFrame, for the frames of a log one after the other.
ValidFrames(w) ==
    {n \in 1 .. Len(w.frames) : \A k \in 1 .. n : w.frames[k].ck = Cksum(w, k)}

\* walIndexRecover: the last valid frame that ends a transaction.
LastCommit(w) == Max({0} \cup {n \in ValidFrames(w) : w.frames[n].commit})

\* The frame in from .. to that an index gives for a page, or 0.
LastFrame(index, p, from, to) ==
    Max({0} \cup {k \in from .. to : k <= Len(index) /\ index[k] = p})

\* The database seen through the first n frames of a log.
Overlay(d, w, n) ==
    [p \in Pages |->
        LET f == LastFrame([k \in 1 .. n |-> w.frames[k].pg], p, 1, n)
        IN IF f = 0 THEN d[p] ELSE w.frames[f].val]

PutFrame(w, n, f) ==
    [w EXCEPT !.frames = [k \in 1 .. Max({n, Len(w.frames)}) |->
                              IF k = n THEN f ELSE w.frames[k]]]

\* walIndexAppend, with the walCleanupHash of what a dead writer left there.
walIndexAppend(n, p) == Append(SubSeq(ix, 1, n - 1), p)

\* walFindFrame: 0 stands for the database file.
walFindFrame(c, p) ==
    IF cn[c].hdr.mx = 0 \/ cn[c].readLock = 0 THEN 0
    ELSE LastFrame(ix, p, cn[c].minFrame, cn[c].hdr.mx)

ReadPage(c, p) ==
    LET f == walFindFrame(c, p)
    IN IF f = 0 THEN db[p] ELSE wal.frames[f].val

At(c, l) == cn[c].pc = l
Go(c, l) == cn' = [cn EXCEPT ![c].pc = l]

\* Who keeps whom out.  A restart holds all slots but 0 for itself, a
\* backfill slot 0.
Restarting == \E c \in Conns : cn[c].pc \in {"restart1", "restart0", "restartInfo"}
FreeSlot(i) == ~Restarting /\ \A c \in Conns : cn[c].readLock # i
FreeSlots == \A i \in Slots : FreeSlot(i)
Closing == \E c \in Conns : cn[c].mode = "CLOSE"
Backfilling == \E c \in Conns : At(c, "copy")

HdrOk == h0 = h1 /\ h0.init

\* A random salt: none that a header or a frame still has.
FreshSalt ==
    LET used == {h.salt : h \in {wal, walD, h0, h1} \cup {cn[c].hdr : c \in Conns}}
                \cup {f.ck[1] : f \in {g \in UNION {Range(w.frames) : w \in {wal, walD}} :
                                         g # Hole}}
    IN Min(1 .. Cardinality(used) + 1 \ used)

\* The shared memory of the first connection.
NoIndex ==
    /\ h0' = NoHdr /\ h1' = NoHdr /\ ix' = <<>>
    /\ nBackfill' = 0 /\ mark' = [i \in Slots |-> 0]

---------------------------------------------------------------------------
(* Reading. *)

\* walIndexRecover: the header, the index and the read marks are built from
\* the log file.
walIndexRecover(c, conn) ==
    LET n == LastCommit(wal)
        hdr == [init |-> TRUE, mx |-> n, salt |-> wal.salt,
                ck |-> IF n = 0 THEN <<>> ELSE Cksum(wal, n)]
    IN /\ h0' = hdr /\ h1' = hdr
       /\ ix' = [k \in 1 .. Max({0} \cup ValidFrames(wal)) |-> wal.frames[k].pg]
       /\ nBackfill' = 0
       /\ mark' = [i \in Slots |-> IF i = 1 /\ n > 0 THEN n ELSE NotUsed]
       /\ cn' = [cn EXCEPT ![c] = [conn EXCEPT !.hdr = hdr]]
       /\ content' = Overlay(db, wal, n)
       /\ doubt' = {}

\* walIndexReadHdr, for a connection that goes on as conn.  A torn header is
\* read again later, or recovered if nobody is writing.
walIndexReadHdr(c, conn) ==
    \/ /\ HdrOk
       /\ cn' = [cn EXCEPT ![c] = [conn EXCEPT !.hdr = h0]]
       /\ UNCHANGED <<shm, content, doubt>>
    \/ /\ ~HdrOk /\ writeLock = None /\ ckptLock = None
       /\ walIndexRecover(c, conn)

ReadHdr(c) ==
    /\ At(c, "idle") /\ ~Closing
    /\ walIndexReadHdr(c, [Closed EXCEPT !.pc = "try"])
    /\ UNCHANGED <<files, locks, view, writes, crashes>>

\* A log that is all in the database file can be ignored.
TryBeginRead(c) ==
    /\ At(c, "try")
    /\ Go(c, IF nBackfill = cn[c].hdr.mx THEN "want0" ELSE "mark")
    /\ UNCHANGED <<files, shm, locks, hist, writes, crashes>>

\* READ_LOCK(0), and the header must be the one that was read.
LockDatabase(c) ==
    /\ At(c, "want0")
    /\ \/ Backfilling /\ Go(c, "mark") /\ UNCHANGED view
       \/ /\ ~Backfilling /\ h0 = cn[c].hdr
          /\ cn' = [cn EXCEPT ![c].pc = "read", ![c].readLock = 0]
          /\ view' = [view EXCEPT ![c] = content]
       \/ /\ ~Backfilling /\ h0 # cn[c].hdr
          /\ cn' = [cn EXCEPT ![c] = Closed] /\ UNCHANGED view
    /\ UNCHANGED <<files, shm, locks, content, doubt, writes, crashes>>

\* The slot with the largest mark not beyond our header (the last of them),
\* or, when that mark is older, the first free slot with a new mark.
PickSlot(c) ==
    /\ At(c, "mark")
    /\ LET mx == cn[c].hdr.mx
           fit == {i \in Slots : mark[i] <= mx}
           top == {i \in fit : \A j \in fit : mark[j] <= mark[i]}
           free == {i \in Slots : FreeSlot(i)}
           retry == IF writeLock = c THEN cn[c] ELSE Closed
       IN \/ /\ \E i \in top : mark[i] = mx
             /\ cn' = [cn EXCEPT ![c].pc = "slot", ![c].slot = Max(top),
                                 ![c].mxReadMark = mx]
             /\ UNCHANGED mark
          \/ /\ \A i \in top : mark[i] # mx
             /\ free # {}
             /\ mark' = [mark EXCEPT ![Min(free)] = mx]
             /\ cn' = [cn EXCEPT ![c].pc = "slot", ![c].slot = Min(free),
                                 ![c].mxReadMark = mx]
          \/ /\ \A i \in top : mark[i] # mx
             /\ free = {} /\ top # {}
             /\ cn' = [cn EXCEPT ![c].pc = "slot", ![c].slot = Max(top),
                                 ![c].mxReadMark = mark[Max(top)]]
             /\ UNCHANGED mark
          \/ /\ free = {} /\ top = {}
             /\ cn' = [cn EXCEPT ![c] = retry] /\ UNCHANGED mark
    /\ UNCHANGED <<files, h0, h1, ix, nBackfill, locks, hist, writes, crashes>>

\* READ_LOCK(slot), then minFrame.
LockSlot(c) ==
    /\ At(c, "slot")
    /\ IF Restarting THEN cn' = [cn EXCEPT ![c] = Closed]
       ELSE cn' = [cn EXCEPT ![c].pc = "check", ![c].readLock = cn[c].slot,
                             ![c].minFrame = nBackfill + 1]
    /\ UNCHANGED <<files, shm, locks, hist, writes, crashes>>

\* Neither the mark nor the header may have changed.  A writer that has only
\* moved to another slot goes on with its frames.
CheckSlot(c) ==
    /\ At(c, "check")
    /\ LET ok == mark[cn[c].slot] = cn[c].mxReadMark /\ h0 = cn[c].hdr
           writing == writeLock = c
       IN /\ cn' = [cn EXCEPT ![c] =
                IF ok THEN [@ EXCEPT !.pc = IF writing THEN "frames" ELSE "read",
                                     !.slot = 0, !.mxReadMark = 0]
                ELSE IF writing THEN [@ EXCEPT !.pc = "mark", !.readLock = NoSlot]
                ELSE Closed]
          /\ view' = IF ok /\ ~writing THEN [view EXCEPT ![c] = content] ELSE view
    /\ UNCHANGED <<files, shm, locks, content, doubt, writes, crashes>>

sqlite3WalEndReadTransaction(c) ==
    /\ At(c, "read")
    /\ cn' = [cn EXCEPT ![c] = Closed]
    /\ view' = [view EXCEPT ![c] = NoView]
    /\ UNCHANGED <<files, shm, locks, content, doubt, writes, crashes>>

---------------------------------------------------------------------------
(* Writing. *)

\* The write lock, unless somebody has written since we began to read
\* (SQLITE_BUSY_SNAPSHOT).
sqlite3WalBeginWriteTransaction(c) ==
    /\ At(c, "read") /\ c \in Writers
    /\ writes < MaxWrites
    /\ writeLock = None /\ h0 = cn[c].hdr
    /\ writeLock' = c
    /\ Go(c, "log")
    /\ UNCHANGED <<files, shm, ckptLock, hist, writes, crashes>>

\* walRestartHdr: a new header for an empty log, which the next steps store.
RestartHdr(c) ==
    cn' = [cn EXCEPT ![c].pc = "restart1",
                     ![c].hdr = [init |-> TRUE, mx |-> 0, salt |-> FreshSalt,
                                 ck |-> <<>>]]

\* walRestartLog: a writer that reads the database file alone starts the log
\* again when nobody reads it, and takes a slot in any case.
walRestartLog(c) ==
    /\ At(c, "log")
    /\ \/ /\ cn[c].readLock # 0
          /\ Go(c, "frames")
       \/ /\ cn[c].readLock = 0 /\ nBackfill > 0 /\ FreeSlots
          /\ RestartHdr(c)
       \/ /\ cn[c].readLock = 0 /\ ~(nBackfill > 0 /\ FreeSlots)
          /\ cn' = [cn EXCEPT ![c].pc = "mark", ![c].readLock = NoSlot]
         
    /\ UNCHANGED <<files, shm, locks, hist, writes, crashes>>

\* walRestartHdr: walIndexWriteHdr, second copy first, ...
Restart1(c) ==
    /\ At(c, "restart1")
    /\ h1' = cn[c].hdr
    /\ Go(c, "restart0")
    /\ UNCHANGED <<files, h0, ix, nBackfill, mark, locks, hist, writes, crashes>>

Restart0(c) ==
    /\ At(c, "restart0")
    /\ h0' = cn[c].hdr
    /\ Go(c, "restartInfo")
    /\ UNCHANGED <<files, h1, ix, nBackfill, mark, locks, hist, writes, crashes>>

\* ... then nBackfill and the marks.  The writer takes a slot.
RestartInfo(c) ==
    /\ At(c, "restartInfo")
    /\ nBackfill' = 0
    /\ mark' = [i \in Slots |-> IF i = 1 THEN 0 ELSE NotUsed]
    /\ cn' = [cn EXCEPT ![c].pc = "mark", ![c].readLock = NoSlot]
    /\ UNCHANGED <<files, h0, h1, ix, locks, hist, writes, crashes>>

\* walFrames, first frame of a log: the log's header, which is synced before
\* any frame.  The salts are drawn anew by a connection that has not seen a
\* checkpoint.
WriteLogHeader(c) ==
    /\ At(c, "frames") /\ cn[c].hdr.mx = 0 /\ cn[c].hdr.ck = <<>>
    /\ \E s \in {FreshSalt, cn[c].hdr.salt} \ {0} :
        /\ wal' = [wal EXCEPT !.salt = s] /\ walD' = wal'
        /\ cn' = [cn EXCEPT ![c].hdr.salt = s, ![c].hdr.ck = <<s>>]
    /\ UNCHANGED <<db, dbD, shm, locks, hist, writes, crashes>>

\* The frame appended for a page, and the private header after it.
NewFrame(c, p, commit) ==
    LET f == [pg |-> p, val |-> writes + 1, commit |-> commit, ck |-> <<>>]
    IN [f EXCEPT !.ck = Append(cn[c].hdr.ck, Body(f))]

CanWrite(c) ==
    /\ At(c, "frames") /\ cn[c].hdr.ck # <<>>
    /\ writes < MaxWrites
    /\ writes' = writes + 1

Writes(c, p) == view' = [view EXCEPT ![c][p] = writes + 1]

\* walFrames without commit, for one page (a cache spill; a call for several
\* pages is several of these): a page this transaction has already logged
\* is overwritten where it is, and its checksums are left wrong for now.
SpillOver(c, p) ==
    /\ CanWrite(c) /\ Writes(c, p)
    /\ LET f == walFindFrame(c, p)
       IN /\ cn[c].hdr # h0 /\ f > h0.mx
          /\ wal' = [wal EXCEPT !.frames[f].val = writes + 1]
          /\ cn' = [cn EXCEPT ![c].iReCksum = IF @ = 0 THEN f ELSE Min({@, f})]
    /\ UNCHANGED <<walD, db, dbD, shm, locks, content, doubt, crashes>>

SpillNew(c, p) ==
    /\ CanWrite(c) /\ Writes(c, p)
    /\ cn[c].hdr.mx + 1 < MaxFrames
    /\ cn[c].hdr = h0 \/ walFindFrame(c, p) <= h0.mx
    /\ LET n == cn[c].hdr.mx + 1
           f == NewFrame(c, p, FALSE)
       IN /\ wal' = PutFrame(wal, n, f)
          /\ ix' = walIndexAppend(n, p)
          /\ cn' = [cn EXCEPT ![c].hdr.mx = n, ![c].hdr.ck = f.ck]
    /\ UNCHANGED <<walD, db, dbD, h0, h1, nBackfill, mark, locks, content, doubt, crashes>>

\* walRewriteChecksums: from the first frame that was overwritten on.
walRewriteChecksums(w, from, to) ==
    IF from = 0 THEN w
    ELSE LET base == IF from = 1 THEN <<w.salt>> ELSE w.frames[from - 1].ck
         IN [w EXCEPT !.frames = [k \in 1 .. Len(w.frames) |->
                IF k \in from .. to
                THEN [w.frames[k] EXCEPT
                         !.ck = base \o [j \in 1 .. k - from + 1 |->
                                            Body(w.frames[from + j - 1])]]
                ELSE w.frames[k]]]

\* walFrames with commit: the last page is appended with the commit mark,
\* wherever else it is; checksums are put right.
CommitFrame(c, p) ==
    /\ CanWrite(c) /\ Writes(c, p)
    /\ cn[c].hdr.mx < MaxFrames
    /\ LET n == cn[c].hdr.mx + 1
           w == walRewriteChecksums(PutFrame(wal, n, NewFrame(c, p, TRUE)),
                                    cn[c].iReCksum, n)
       IN /\ wal' = w
          /\ cn' = [cn EXCEPT ![c].pc = "sync", ![c].hdr.mx = n,
                              ![c].hdr.ck = w.frames[n].ck, ![c].iReCksum = 0]
    /\ UNCHANGED <<walD, db, dbD, shm, locks, content, doubt, crashes>>

MutSyncLog(c) ==
    /\ At(c, "sync")
    /\ Go(c, "index")
    /\ UNCHANGED <<files, shm, locks, hist, writes, crashes>>

\* walFrames: the log is synced (synchronous = FULL) ...
SyncLog(c) ==
    /\ At(c, "sync")
    /\ walD' = wal
    /\ Go(c, "index")
    /\ UNCHANGED <<wal, db, dbD, shm, locks, hist, writes, crashes>>

\* ... the index extended and the header written, second copy first ...
Publish1(c) ==
    /\ At(c, "index")
    /\ ix' = walIndexAppend(cn[c].hdr.mx, wal.frames[cn[c].hdr.mx].pg)
    /\ h1' = cn[c].hdr
    /\ Go(c, "publish")
    /\ UNCHANGED <<files, h0, nBackfill, mark, locks, hist, writes, crashes>>

\* ... and the transaction is committed (sqlite3WalEndWriteTransaction).
Publish0(c) ==
    /\ At(c, "publish")
    /\ h0' = cn[c].hdr
    /\ content' = view[c]
    /\ writeLock' = None
    /\ Go(c, "read")
    /\ UNCHANGED <<files, h1, ix, nBackfill, mark, ckptLock, view, doubt, writes, crashes>>

\* Rollback.  walCleanupHash leaves the index of an empty log alone.
sqlite3WalUndo(c) ==
    /\ At(c, "frames")
    /\ cn' = [cn EXCEPT ![c].hdr = h0, ![c].iReCksum = 0, ![c].pc = "read"]
    /\ ix' = IF cn[c].hdr.mx # h0.mx /\ h0.mx > 0 THEN SubSeq(ix, 1, h0.mx) ELSE ix
    /\ writeLock' = None
    /\ view' = [view EXCEPT ![c] = content]
    /\ UNCHANGED <<files, h0, h1, nBackfill, mark, ckptLock, content, doubt, writes, crashes>>

---------------------------------------------------------------------------
(* Checkpoints. *)

\* sqlite3WalCheckpoint: the checkpoint lock, and the header.  A connection
\* that closes checkpoints in the same way (sqlite3WalClose) if it can lock
\* the database file, which no other has open then.
sqlite3WalCheckpoint(c, mode) ==
    /\ At(c, "idle") /\ c \in Writers /\ ~Closing
    /\ ckptLock = None
    /\ mode = "CLOSE" => cn = [d \in Conns |-> Closed]
    /\ ckptLock' = c
    /\ walIndexReadHdr(c, [Closed EXCEPT !.pc = "ckpt", !.mode = mode])
    /\ UNCHANGED <<files, writeLock, view, writes, crashes>>

\* walCheckpoint: is there something to copy?
CkptTest(c) ==
    /\ At(c, "ckpt")
    /\ cn' = IF nBackfill < cn[c].hdr.mx
             THEN [cn EXCEPT ![c].pc = "slots", ![c].slot = 1,
                             ![c].mxSafe = cn[c].hdr.mx]
             ELSE [cn EXCEPT ![c].pc = "ckptEnd"]
    /\ UNCHANGED <<files, shm, locks, hist, writes, crashes>>

MutCkptSlot(c) ==
    /\ At(c, "slots") /\ cn[c].slot \in Slots
    /\ mark' = [mark EXCEPT ![cn[c].slot] = IF cn[c].slot = 1 THEN cn[c].mxSafe ELSE NotUsed]
    /\ cn' = [cn EXCEPT ![c].slot = @ + 1]
    /\ UNCHANGED <<files, h0, h1, ix, nBackfill, locks, hist, writes, crashes>>

\* walCheckpoint: one slot after the other.  A mark nobody holds is moved
\* out of the way, one that is held limits the checkpoint.
CkptSlot(c) ==
    /\ At(c, "slots") /\ cn[c].slot \in Slots
    /\ LET i == cn[c].slot
           safe == cn[c].mxSafe
           low == safe > mark[i]
       IN /\ mark' = IF low /\ FreeSlot(i)
                     THEN [mark EXCEPT ![i] = IF i = 1 THEN safe ELSE NotUsed]
                     ELSE mark
          /\ cn' = [cn EXCEPT ![c].slot = i + 1,
                              ![c].mxSafe = IF low /\ ~FreeSlot(i) THEN mark[i]
                                            ELSE @]
    /\ UNCHANGED <<files, h0, h1, ix, nBackfill, locks, hist, writes, crashes>>

\* walIteratorInit: of every page the last frame, and of these the ones not
\* yet copied that are safe to copy.
Iterator(c) ==
    {t \in [pg : Pages, f : nBackfill + 1 .. cn[c].mxSafe] :
        t.f = LastFrame(ix, t.pg, 1, cn[c].hdr.mx)}

\* walCheckpoint: READ_LOCK(0), and the log is synced.
CkptLock(c) ==
    /\ At(c, "slots") /\ cn[c].slot \notin Slots
    /\ IF nBackfill < cn[c].mxSafe /\ \A d \in Conns : cn[d].readLock # 0
       THEN /\ cn' = [cn EXCEPT ![c].pc = "copy", ![c].todo = Iterator(c)]
            /\ walD' = wal
       ELSE /\ Go(c, "ckptEnd")
            /\ UNCHANGED walD
    /\ UNCHANGED <<wal, db, dbD, shm, locks, hist, writes, crashes>>

\* walCheckpoint: one page is copied, or the checkpoint is interrupted.
CkptCopy(c) ==
    /\ At(c, "copy") /\ cn[c].todo # {}
    /\ \/ \E t \in cn[c].todo :
            /\ db' = [db EXCEPT ![t.pg] = wal.frames[t.f].val]
            /\ cn' = [cn EXCEPT ![c].todo = @ \ {t}]
       \/ /\ cn' = [cn EXCEPT ![c].pc = "ckptEnd", ![c].todo = {}]
          /\ UNCHANGED db
    /\ UNCHANGED <<wal, walD, dbD, shm, locks, hist, writes, crashes>>

\* walCheckpoint: the database file is synced if it is complete.
CkptDone(c) ==
    /\ At(c, "copy") /\ cn[c].todo = {}
    /\ dbD' = IF cn[c].mxSafe = h0.mx THEN db ELSE dbD
    /\ nBackfill' = cn[c].mxSafe
    /\ Go(c, "ckptEnd")
    /\ UNCHANGED <<wal, walD, db, h0, h1, ix, mark, locks, hist, writes, crashes>>

\* sqlite3WalCheckpoint: the lock is released.  sqlite3WalClose: the log is
\* deleted if it was copied, and the shared memory goes with the last
\* connection.
CkptEnd(c) ==
    /\ At(c, "ckptEnd")
    /\ ckptLock' = None
    /\ cn' = [cn EXCEPT ![c] = Closed]
    /\ IF cn[c].mode = "CLOSE"
       THEN /\ wal' = IF nBackfill = cn[c].hdr.mx THEN EmptyLog ELSE wal
            /\ NoIndex
       ELSE UNCHANGED <<wal, shm>>
    /\ UNCHANGED <<walD, db, dbD, writeLock, hist, writes, crashes>>

---------------------------------------------------------------------------
(* Crashes. *)

\* A power loss keeps of what was written since the last sync any part: each
\* frame and page is the new one, the old one, or neither.  A truncation has
\* happened or not.
AfterCrash(new, old, neither) == IF new = old THEN {new} ELSE {new, old, neither}

FrameOf(w, k) == IF k <= Len(w.frames) THEN w.frames[k] ELSE Hole

OneOfEach(S, Of(_)) == {f \in [S -> UNION {Of(x) : x \in S}] : \A x \in S : f[x] \in Of(x)}

LogsAfterCrash ==
    IF wal = EmptyLog THEN {wal, walD}
    ELSE {[wal EXCEPT !.frames = fs] :
             fs \in OneOfEach(1 .. Len(wal.frames),
                            LAMBDA k : AfterCrash(wal.frames[k], FrameOf(walD, k), Hole))}

Crash ==
    /\ crashes < MaxCrashes /\ crashes' = crashes + 1
    /\ \E w \in LogsAfterCrash : wal' = w /\ walD' = w
    /\ \E d \in OneOfEach(Pages, LAMBDA p : AfterCrash(db[p], dbD[p], Torn)) :
        db' = d /\ dbD' = d
    /\ NoIndex
    /\ writeLock' = None /\ ckptLock' = None
    /\ cn' = [c \in Conns |-> Closed]
    /\ view' = [c \in Conns |-> NoView]
    /\ doubt' = doubt \cup {view[c] : c \in {d \in Conns :
                                cn[d].pc \in {"sync", "index", "publish"}}}
    /\ UNCHANGED <<content, writes>>

---------------------------------------------------------------------------
Reader(c) ==
    \/ ReadHdr(c) \/ TryBeginRead(c) \/ LockDatabase(c) \/ PickSlot(c)
    \/ LockSlot(c) \/ CheckSlot(c) \/ sqlite3WalEndReadTransaction(c)

Writer(c) ==
    \/ sqlite3WalBeginWriteTransaction(c) \/ walRestartLog(c)
    \/ Restart1(c) \/ Restart0(c) \/ RestartInfo(c) \/ WriteLogHeader(c)
    \/ \E p \in Pages : SpillOver(c, p) \/ SpillNew(c, p) \/ CommitFrame(c, p)
    \/ SyncLog(c) \/ Publish1(c) \/ Publish0(c) \/ sqlite3WalUndo(c)

Checkpointer(c) ==
    \/ \E mode \in {"PASSIVE", "CLOSE"} : sqlite3WalCheckpoint(c, mode)
    \/ CkptTest(c) \/ CkptSlot(c) \/ CkptLock(c) \/ CkptCopy(c) \/ CkptDone(c)
    \/ CkptEnd(c)

Next ==
    \/ \E c \in Conns : Reader(c) \/ Writer(c) \/ Checkpointer(c)
    \/ Crash

Spec == Init /\ [][Next]_vars

---------------------------------------------------------------------------
\* In a transaction, every page a connection would read is the one of its
\* snapshot, with its own writes: neither a commit, nor a checkpoint, nor a
\* restart of the log that happens meanwhile changes it (walFindFrame and
\* the read marks).
ReadsSnapshot ==
    \A c \in Conns : cn[c].pc \in {"read", "log", "frames"} =>
        \A p \in Pages : ReadPage(c, p) = view[c][p]

Store == INSTANCE SnapshotStore WITH
    Values <- 0 .. MaxWrites,
    writer <- writeLock

\* The log implements SnapshotStore: transactions begin at the latest
\* commit, writers follow one another, and a crash, with whatever part of
\* the unsynced writes, loses no commit and invents none.
ImplementsStore == Store!Spec

============================================================================
