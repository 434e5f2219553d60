---------------------------- MODULE KeyStoreProofs ----------------------------
(***************************************************************************)
(* What the database key's rows, file and erasures guarantee, for any      *)
(* number of failing Keychain calls and of retries.  No property of        *)
(* KeyStore is inductive as it stands.  KeyInv says what the process knows *)
(* at each step (ProcInv), how far an erasure and a rotation have come     *)
(* (EraseProgress, RotationProgress) and, as long as no call has failed,   *)
(* why the rows and the file fit together (CleanInv):                      *)
(*                                                                         *)
(*   - a wrap row has its enclave key, because the wrap row goes first in  *)
(*     every erasure and the enclave key last;                             *)
(*   - a file and a wrap row together mean complete rows that open the     *)
(*     file, because the first orphan check removes a file without rows    *)
(*     before a new wrap row is written;                                   *)
(*   - a wiped store has no wrap row, or was created empty after the       *)
(*     passcode slots were emptied.                                        *)
(*                                                                         *)
(* One lemma per action shows that it keeps KeyInv.  Each of them first    *)
(* states the step field by field, case by case; the conjuncts of KeyInv   *)
(* follow from those facts.                                                *)
(***************************************************************************)
EXTENDS KeyStore, TLAPS

USE SMTT(20), ZenonT(20)

(* The inductive invariant. *)

EraseSteps == {"eraseWrap", "noiseSalt", "eraseSalt", "eraseStamp",
               "noiseStaged", "eraseStaged", "eraseEnclave", "erased"}
SlotSteps == {"real", "duress"}

\* Between the opening of the store and the end of bootstrap.
OpenedSteps == {"staged", "promote", "unstage", "migrate", "due", "rekey",
                "vacuum", "live", "clear", "stamp", "booted"}

\* What eraseKeyMaterial has deleted so far, if every delete reported success.
EraseProgress ==
    proc.ok =>
        /\ proc.pc \in EraseSteps \ {"eraseWrap"} => rows.wrap = Absent
        /\ proc.pc \in {"eraseStamp", "noiseStaged", "eraseStaged",
                        "eraseEnclave", "erased"} => rows.salt = Absent
        /\ proc.pc \in {"eraseEnclave", "erased"} => rows.staged = Absent
        /\ proc.pc = "erased" => enclave = Absent

\* Where rotateKeyMaterial is: the salt of the file is in a row throughout.
RotationProgress ==
    /\ proc.pc = "rekey" => rows.staged = proc.new /\ proc.new # Absent
    /\ proc.pc \in {"vacuum", "live"} =>
          rows.staged = proc.new /\ file.salt = proc.new /\ proc.new # Absent
    /\ proc.pc = "clear" => rows.salt = file.salt

\* What the process knows at each step, with Keychain calls failing or not.
ProcInv ==
    /\ proc.pc \in EraseSteps => proc.call \in {"orphan2", "downgrade", "wipe", "late"}
    /\ proc.pc \in SlotSteps => proc.call \in Callers \ {"late"}
    /\ proc.pc \in OpenedSteps => ~NoFile
    /\ proc.pc = "salt" => rows.wrap # Absent
    /\ proc.pc = "open" => rows.wrap # Absent /\ rows.salt # Absent
    /\ proc.pc = "promote" => rows.staged # Absent
    /\ proc.open =>
          /\ ~NoFile
          /\ proc.pc \in {"up", "unlink"} \cup SlotSteps \cup EraseSteps
          /\ proc.pc \in SlotSteps \cup EraseSteps => proc.call \in {"wipe", "late"}
    /\ proc.pc \in SlotSteps \cup EraseSteps /\ proc.call = "wipe" => proc.task = "wipe"
    /\ proc.pc = "unlink" => proc.task \in {"wipe", "reset"}

\* The rows on their own: a wrap row has its enclave key, and the rows that
\* open a file are complete.
RowsAgree ==
    rows.wrap # Absent =>
        /\ rows.wrap.by = enclave
        /\ ~NoFile => /\ rows.salt # Absent
                      /\ rows.wrap.seed = file.seed
                      /\ file.salt \in {rows.salt, rows.staged}

\* No step that must find a file or a wrap row finds none.
StepsAgree ==
    /\ proc.pc \in {"orphan2", "orphan3", "derive"} => NoFile \/ rows.wrap # Absent
    /\ proc.pc \in SlotSteps \cup EraseSteps =>
          IF proc.call = "wipe" THEN proc.pc \in SlotSteps => rows.wrap = Absent
          ELSE NoFile
    /\ proc.pc = "unlink" =>
          IF proc.task = "wipe" THEN rows.wrap = Absent ELSE promise = "reset"
    /\ proc.pc \in OpenedSteps \cup {"up"} => rows.wrap # Absent
    /\ proc.pc \in {"staged", "promote"} => rows.staged = file.salt
    /\ proc.pc \in {"unstage", "migrate", "due", "rekey", "clear", "stamp"} =>
          rows.salt = file.salt
    /\ proc.pc = "up" => proc.open
    /\ proc.pc \in {"due", "rekey", "vacuum", "live", "clear", "stamp", "booted", "up"} =>
          ~file.ahead
    /\ proc.pc = "duress" => "real" \notin passcode

\* What the user was told.
PromiseKept ==
    /\ promise = "kept" =>
          ~NoFile /\ file.data = "user" /\ ~file.ahead /\ rows.wrap # Absent
    /\ promise = "wiped" =>
          \/ rows.wrap = Absent /\ proc.pc # "derive"
          \/ passcode = {} /\ (NoFile \/ file.data = "default")

\* As long as no Keychain call has failed.
CleanInv ==
    /\ ~incomplete /\ proc.complete /\ proc.ok
    /\ proc.pc \in EraseSteps => proc.call # "late"
    /\ proc.pc # "failed"
    /\ RowsAgree /\ StepsAgree /\ PromiseKept

KeyInv ==
    /\ KeyTypeOK /\ ProcInv /\ EraseProgress /\ RotationProgress
    /\ faults = 0 => CleanInv

---------------------------------------------------------------------------
(* How a step changes a record, field by field. *)

ProcAt(pc, task, call, ok, complete, new, open) ==
    /\ proc' \in ProcType
    /\ proc'.pc = pc /\ proc'.task = task /\ proc'.call = call /\ proc'.ok = ok
    /\ proc'.complete = complete /\ proc'.new = new /\ proc'.open = open

Moves(pc) ==
    ProcAt(pc, proc.task, proc.call, proc.ok, proc.complete, proc.new, proc.open)

RowsAt(wrap, salt, staged) ==
    /\ rows' \in RowsType
    /\ rows'.wrap = wrap /\ rows'.salt = salt /\ rows'.staged = staged

\* A step with nothing but a new place.
LEMMA PcMove ==
  ASSUME proc \in ProcType, NEW s \in Steps, proc' = [proc EXCEPT !.pc = s]
  PROVE  Moves(s)
  BY DEF ProcType, Moves, ProcAt

\* A step into a helper, for a caller.
LEMMA CallMove ==
  ASSUME proc \in ProcType, NEW s \in Steps, NEW c \in Callers
  PROVE  /\ proc' = [proc EXCEPT !.pc = s, !.call = c] =>
              ProcAt(s, proc.task, c, proc.ok, proc.complete, proc.new, proc.open)
         /\ proc' = [proc EXCEPT !.pc = s, !.call = c, !.ok = TRUE] =>
              ProcAt(s, proc.task, c, TRUE, proc.complete, proc.new, proc.open)
  BY ZenonT(60) DEF ProcType, ProcAt, Maybe

\* A step of an erasure, which counts what the Keychain said.
LEMMA OkMove ==
  ASSUME proc \in ProcType, NEW s \in Steps, NEW k \in BOOLEAN
  PROVE  proc' = [proc EXCEPT !.pc = s, !.ok = proc.ok /\ k] =>
            ProcAt(s, proc.task, proc.call, proc.ok /\ k, proc.complete, proc.new, proc.open)
  BY Zenon DEF ProcType, ProcAt

\* A row is written.
LEMMA RowMove ==
  ASSUME rows \in RowsType
  PROVE  /\ \A x \in Maybe([seed : Ids, by : Ids]) : rows' = [rows EXCEPT !.wrap = x] =>
              RowsAt(x, rows.salt, rows.staged)
         /\ \A x \in Maybe(Ids) : rows' = [rows EXCEPT !.salt = x] =>
              RowsAt(rows.wrap, x, rows.staged)
         /\ \A x \in Maybe(Ids) : rows' = [rows EXCEPT !.staged = x] =>
              RowsAt(rows.wrap, rows.salt, x)
         /\ \A x \in BOOLEAN : rows' = [rows EXCEPT !.recent = x] =>
              RowsAt(rows.wrap, rows.salt, rows.staged)
  BY Zenon DEF RowsType, RowsAt

\* A draw is a draw.
LEMMA FreshDraw ==
  /\ \A a \in Maybe(Ids) : Fresh({a}) \in Ids
  /\ KeyTypeOK => Fresh(SaltsInUse) \in Ids
  <1>1. ASSUME NEW a \in Maybe(Ids), NEW b \in Maybe(Ids), NEW c \in Maybe(Ids),
               NEW d \in Maybe(Ids)
        PROVE  Fresh({a, b, c, d}) \in Ids
    <2>1. \E id \in Ids : id \notin {a, b, c, d} BY KeyAssumption, Zenon DEF Maybe
    <2> QED BY <2>1 DEF Fresh
  <1>2. ASSUME NEW a \in Maybe(Ids) PROVE Fresh({a}) \in Ids
    <2>1. {a} = {a, a, a, a} OBVIOUS
    <2> QED BY <1>1, <2>1
  <1>3. ASSUME KeyTypeOK PROVE Fresh(SaltsInUse) \in Ids
    <2>1. /\ rows.salt \in Maybe(Ids) /\ rows.staged \in Maybe(Ids)
          /\ proc.new \in Maybe(Ids)
          /\ (IF NoFile THEN Absent ELSE file.salt) \in Maybe(Ids)
      BY <1>3 DEF KeyTypeOK, RowsType, ProcType, FileType, Maybe, NoFile
    <2> QED BY <1>1, <2>1, Zenon DEF SaltsInUse
  <1> QED BY <1>2, <1>3

\* A step that draws a salt to rotate to.
LEMMA NewMove ==
  ASSUME proc \in ProcType, NEW n \in Ids, proc' = [proc EXCEPT !.pc = "rekey", !.new = n]
  PROVE  ProcAt("rekey", proc.task, proc.call, proc.ok, proc.complete, n, proc.open)
  BY Zenon DEF ProcType, ProcAt, Maybe, Steps

FileAt(seed, salt, data, ahead) ==
    /\ file' \in FileType
    /\ file'.seed = seed /\ file'.salt = salt /\ file'.data = data /\ file'.ahead = ahead

\* The file is re-keyed, written to, or met by an older build.
LEMMA FileMove ==
  ASSUME file \in FileType
  PROVE  /\ \A x \in Ids : file' = [file EXCEPT !.salt = x] =>
              FileAt(file.seed, x, file.data, file.ahead)
         /\ file' = [file EXCEPT !.data = "user"] =>
              FileAt(file.seed, file.salt, "user", file.ahead)
         /\ file' = [file EXCEPT !.ahead = TRUE] =>
              FileAt(file.seed, file.salt, file.data, TRUE)
  BY Zenon DEF FileType, FileAt

\* A delete reports success.
LEMMA DeleteMove ==
  ASSUME proc \in ProcType, Deleted(TRUE), EraseOrder[proc.pc] \in Steps
  PROVE  ProcAt(EraseOrder[proc.pc], proc.task, proc.call, proc.ok, proc.complete,
                proc.new, proc.open)
  BY OkMove, Zenon DEF Deleted, ProcType

\* A delete reports failure.
LEMMA DeleteFails ==
  ASSUME proc \in ProcType, Deleted(FALSE), EraseOrder[proc.pc] \in Steps
  PROVE  ProcAt(EraseOrder[proc.pc], proc.task, proc.call, FALSE, proc.complete,
                proc.new, proc.open)
  BY OkMove, Zenon DEF Deleted, ProcType

ErasedWith(pc, complete, confirmed) ==
    /\ proc' = [proc EXCEPT !.pc = pc, !.complete = complete, !.tries = 0, !.ok = TRUE]
    /\ incomplete' = (incomplete /\ ~confirmed)

\* The last answer of eraseKeyMaterial is taken.
LEMMA ErasedMove ==
  ASSUME proc \in ProcType, incomplete \in BOOLEAN, NEW s \in Steps,
         NEW c \in BOOLEAN, NEW k \in BOOLEAN, ErasedWith(s, c, k)
  PROVE  /\ ProcAt(s, proc.task, proc.call, TRUE, c, proc.new, proc.open)
         /\ incomplete' \in BOOLEAN
         /\ k = FALSE => incomplete' = incomplete
         /\ ~incomplete => ~incomplete'
  BY Zenon DEF ProcType, ProcAt, ErasedWith

\* A wipe tries again.
LEMMA TriesMove ==
  ASSUME proc \in ProcType, NEW n \in Nat,
         proc' = [proc EXCEPT !.pc = "eraseWrap", !.ok = TRUE, !.tries = n]
  PROVE  ProcAt("eraseWrap", proc.task, proc.call, TRUE, proc.complete, proc.new, proc.open)
  BY Zenon DEF ProcType, ProcAt, Steps

\* Failures are counted, up to the bound.
LEMMA FaultsGrow ==
  ASSUME KeyInv, Works \/ Fails
  PROVE  faults' \in 0 .. MaxFaults /\ (faults' = 0 => faults = 0)
  <1>1. MaxFaults \in Nat BY KeyAssumption
  <1>2. faults \in 0 .. MaxFaults BY DEF KeyInv, KeyTypeOK
  <1>3. faults' = faults \/ (faults < MaxFaults /\ faults' = faults + 1) BY DEF Works, Fails
  <1> QED BY <1>1, <1>2, <1>3

USE DEF EraseSteps, SlotSteps, OpenedSteps, Doing

\* The app is launched.
LEMMA LaunchKeeps ==
  ASSUME KeyInv, Launch PROVE KeyInv'
  <1>1. proc \in ProcType /\ rows \in RowsType /\ file \in Maybe(FileType)
    BY DEF KeyInv, KeyTypeOK
  <1>2. /\ proc.pc = "off" /\ rows' = rows /\ enclave' = enclave
        /\ file' = file /\ passcode' = passcode /\ incomplete' = incomplete
        /\ promise' = promise /\ faults' = faults
    BY DEF Launch
  <1>3. CASE proc' = [Dead EXCEPT !.pc = "orphan1", !.task = "launch"]
    <2>1. /\ ProcAt("orphan1", "launch", Absent, TRUE, TRUE, Absent, FALSE)
      BY <1>1, <1>2, <1>3, KeyAssumption, Zenon
      DEF Dead, ProcAt, ProcType, Steps, Maybe
    <2>2. KeyTypeOK'
      BY <1>1, <1>2, <1>3, <2>1
      DEF KeyInv, KeyTypeOK, Maybe, Moves, ProcAt
    <2>3. ProcInv' /\ EraseProgress' /\ RotationProgress'
      BY <1>1, <1>2, <1>3, <2>1, KeyAssumption, Zenon
      DEF KeyInv, ProcInv, EraseProgress, RotationProgress, Callers, FileType,
          Maybe, Moves, ProcAt, NoFile, isInitialized, Derives
    <2>4. ASSUME faults' = 0 PROVE CleanInv'
      <3>1. faults = 0 BY <1>2, <2>4
      <3> QED
        BY <1>1, <1>2, <1>3, <2>1, <2>4, <3>1, KeyAssumption
        DEF KeyInv, KeyTypeOK, CleanInv, RowsAgree, StepsAgree, PromiseKept,
            ProcInv, EraseProgress, RotationProgress, FileType, Maybe, Moves,
            ProcAt, NoFile, isInitialized, Derives
    <2> QED BY <2>2, <2>3, <2>4 DEF KeyInv
  <1> QED
    BY <1>1, <1>2, <1>3
    DEF Launch, Works, Fails, KeyInv, ProcInv, Callers, AfterSlots, NoFile

\* The first orphan check of bootstrap removes a file without rows.
LEMMA OrphanFileKeeps ==
  ASSUME KeyInv, OrphanFile PROVE KeyInv'
  <1>1. proc \in ProcType /\ rows \in RowsType /\ file \in Maybe(FileType)
    BY DEF KeyInv, KeyTypeOK
  <1>2. /\ proc.pc = "orphan1" /\ rows' = rows /\ enclave' = enclave
        /\ passcode' = passcode /\ incomplete' = incomplete
        /\ promise' = promise /\ faults' = faults
    BY DEF OrphanFile
  <1>3. CASE /\ ~NoFile /\ ~isInitialized /\ file' = Absent
             /\ proc' = [proc EXCEPT !.pc = "real", !.call = "orphan1"]
    <2>1. /\ ProcAt("real", proc.task, "orphan1", proc.ok, proc.complete, proc.new, proc.open)
      BY <1>1, <1>2, <1>3, CallMove, Zenon
      DEF Steps, Callers
    <2>2. KeyTypeOK'
      BY <1>1, <1>2, <1>3, <2>1
      DEF KeyInv, KeyTypeOK, Maybe, Moves, ProcAt, FileAt
    <2>3. ProcInv' /\ EraseProgress' /\ RotationProgress'
      BY <1>1, <1>2, <1>3, <2>1, KeyAssumption
      DEF KeyInv, ProcInv, EraseProgress, RotationProgress, Callers, FileType,
          Maybe, Moves, ProcAt, FileAt, NoFile, isInitialized, Derives
    <2>4. ASSUME faults' = 0 PROVE CleanInv'
      <3>1. faults = 0 BY <1>2, <2>4
      <3> QED
        BY <1>1, <1>2, <1>3, <2>1, <2>4, <3>1, KeyAssumption, Zenon
        DEF KeyInv, KeyTypeOK, CleanInv, RowsAgree, StepsAgree, PromiseKept,
            ProcInv, EraseProgress, RotationProgress, FileType, Maybe, Moves,
            ProcAt, FileAt, NoFile, isInitialized, Derives
    <2> QED BY <2>2, <2>3, <2>4 DEF KeyInv
  <1>4. CASE (NoFile \/ isInitialized) /\ Proceed("orphan2") /\ file' = file
    <2>1. /\ Moves("orphan2")
      BY <1>1, <1>2, <1>4, PcMove
      DEF Steps, Proceed
    <2>2. KeyTypeOK'
      BY <1>1, <1>2, <1>4, <2>1
      DEF KeyInv, KeyTypeOK, Maybe, Moves, ProcAt, FileAt
    <2>3. ProcInv' /\ EraseProgress' /\ RotationProgress'
      BY <1>1, <1>2, <1>4, <2>1, KeyAssumption
      DEF KeyInv, ProcInv, EraseProgress, RotationProgress, Callers, FileType,
          Maybe, Moves, ProcAt, FileAt, NoFile, isInitialized, Derives
    <2>4. ASSUME faults' = 0 PROVE CleanInv'
      <3>1. faults = 0 BY <1>2, <2>4
      <3> QED
        BY <1>1, <1>2, <1>4, <2>1, <2>4, <3>1, KeyAssumption, Zenon
        DEF KeyInv, KeyTypeOK, CleanInv, RowsAgree, StepsAgree, PromiseKept,
            ProcInv, EraseProgress, RotationProgress, FileType, Maybe, Moves,
            ProcAt, FileAt, NoFile, isInitialized, Derives
    <2> QED BY <2>2, <2>3, <2>4 DEF KeyInv
  <1> QED
    BY <1>1, <1>2, <1>3, <1>4
    DEF OrphanFile, Works, Fails, KeyInv, ProcInv, Callers, AfterSlots, NoFile

\* The second orphan check erases rows without a file.
LEMMA OrphanKeysKeeps ==
  ASSUME KeyInv, OrphanKeys PROVE KeyInv'
  <1>1. proc \in ProcType /\ rows \in RowsType /\ file \in Maybe(FileType)
    BY DEF KeyInv, KeyTypeOK
  <1>2. /\ proc.pc = "orphan2" /\ rows' = rows /\ enclave' = enclave
        /\ file' = file /\ passcode' = passcode /\ incomplete' = incomplete
        /\ promise' = promise /\ faults' = faults
    BY DEF OrphanKeys
  <1>3. CASE /\ NoFile /\ isInitialized
             /\ proc' = [proc EXCEPT !.pc = "eraseWrap", !.call = "orphan2", !.ok = TRUE]
    <2>1. /\ ProcAt("eraseWrap", proc.task, "orphan2", TRUE, proc.complete, proc.new, proc.open)
      BY <1>1, <1>2, <1>3, CallMove, Zenon
      DEF Steps, Callers
    <2>2. KeyTypeOK'
      BY <1>1, <1>2, <1>3, <2>1
      DEF KeyInv, KeyTypeOK, Maybe, Moves, ProcAt
    <2>3. ProcInv' /\ EraseProgress' /\ RotationProgress'
      BY <1>1, <1>2, <1>3, <2>1, KeyAssumption
      DEF KeyInv, ProcInv, EraseProgress, RotationProgress, Callers, FileType,
          Maybe, Moves, ProcAt, NoFile, isInitialized, Derives
    <2>4. ASSUME faults' = 0 PROVE CleanInv'
      <3>1. faults = 0 BY <1>2, <2>4
      <3> QED
        BY <1>1, <1>2, <1>3, <2>1, <2>4, <3>1, KeyAssumption, Zenon
        DEF KeyInv, KeyTypeOK, CleanInv, RowsAgree, StepsAgree, PromiseKept,
            ProcInv, EraseProgress, RotationProgress, FileType, Maybe, Moves,
            ProcAt, NoFile, isInitialized, Derives
    <2> QED BY <2>2, <2>3, <2>4 DEF KeyInv
  <1>4. CASE Proceed("orphan3")
    <2>1. /\ Moves("orphan3")
      BY <1>1, <1>2, <1>4, PcMove
      DEF Steps, Proceed
    <2>2. KeyTypeOK'
      BY <1>1, <1>2, <1>4, <2>1
      DEF KeyInv, KeyTypeOK, Maybe, Moves, ProcAt
    <2>3. ProcInv' /\ EraseProgress' /\ RotationProgress'
      BY <1>1, <1>2, <1>4, <2>1, KeyAssumption
      DEF KeyInv, ProcInv, EraseProgress, RotationProgress, Callers, FileType,
          Maybe, Moves, ProcAt, NoFile, isInitialized, Derives
    <2>4. ASSUME faults' = 0 PROVE CleanInv'
      <3>1. faults = 0 BY <1>2, <2>4
      <3> QED
        BY <1>1, <1>2, <1>4, <2>1, <2>4, <3>1, KeyAssumption
        DEF KeyInv, KeyTypeOK, CleanInv, RowsAgree, StepsAgree, PromiseKept,
            ProcInv, EraseProgress, RotationProgress, FileType, Maybe, Moves,
            ProcAt, NoFile, isInitialized, Derives
    <2> QED BY <2>2, <2>3, <2>4 DEF KeyInv
  <1> QED
    BY <1>1, <1>2, <1>3, <1>4
    DEF OrphanKeys, Works, Fails, KeyInv, ProcInv, Callers, AfterSlots, NoFile

\* The reconciliation of the passcode slots with an empty store.
LEMMA OrphanSlotsKeeps ==
  ASSUME KeyInv, OrphanSlots PROVE KeyInv'
  <1>1. proc \in ProcType /\ rows \in RowsType /\ file \in Maybe(FileType)
    BY DEF KeyInv, KeyTypeOK
  <1>2. /\ proc.pc = "orphan3" /\ rows' = rows /\ enclave' = enclave
        /\ file' = file /\ passcode' = passcode /\ incomplete' = incomplete
        /\ promise' = promise /\ faults' = faults
    BY DEF OrphanSlots
  <1>3. CASE /\ NoFile
             /\ proc' = [proc EXCEPT !.pc = "real", !.call = "orphan3"]
    <2>1. /\ ProcAt("real", proc.task, "orphan3", proc.ok, proc.complete, proc.new, proc.open)
      BY <1>1, <1>2, <1>3, CallMove, Zenon
      DEF Steps, Callers
    <2>2. KeyTypeOK'
      BY <1>1, <1>2, <1>3, <2>1
      DEF KeyInv, KeyTypeOK, Maybe, Moves, ProcAt
    <2>3. ProcInv' /\ EraseProgress' /\ RotationProgress'
      BY <1>1, <1>2, <1>3, <2>1, KeyAssumption
      DEF KeyInv, ProcInv, EraseProgress, RotationProgress, Callers, FileType,
          Maybe, Moves, ProcAt, NoFile, isInitialized, Derives
    <2>4. ASSUME faults' = 0 PROVE CleanInv'
      <3>1. faults = 0 BY <1>2, <2>4
      <3> QED
        BY <1>1, <1>2, <1>3, <2>1, <2>4, <3>1, KeyAssumption
        DEF KeyInv, KeyTypeOK, CleanInv, RowsAgree, StepsAgree, PromiseKept,
            ProcInv, EraseProgress, RotationProgress, FileType, Maybe, Moves,
            ProcAt, NoFile, isInitialized, Derives
    <2> QED BY <2>2, <2>3, <2>4 DEF KeyInv
  <1>4. CASE ~(NoFile /\ ~isInitialized /\ passcode # {}) /\ Proceed("derive")
    <2>1. /\ Moves("derive")
      BY <1>1, <1>2, <1>4, PcMove
      DEF Steps, Proceed
    <2>2. KeyTypeOK'
      BY <1>1, <1>2, <1>4, <2>1
      DEF KeyInv, KeyTypeOK, Maybe, Moves, ProcAt
    <2>3. ProcInv' /\ EraseProgress' /\ RotationProgress'
      BY <1>1, <1>2, <1>4, <2>1, KeyAssumption
      DEF KeyInv, ProcInv, EraseProgress, RotationProgress, Callers, FileType,
          Maybe, Moves, ProcAt, NoFile, isInitialized, Derives
    <2>4. ASSUME faults' = 0 PROVE CleanInv'
      <3>1. faults = 0 BY <1>2, <2>4
      <3> QED
        BY <1>1, <1>2, <1>4, <2>1, <2>4, <3>1, KeyAssumption, ZenonT(60)
        DEF KeyInv, KeyTypeOK, CleanInv, RowsAgree, StepsAgree, PromiseKept,
            ProcInv, EraseProgress, RotationProgress, FileType, Maybe, Moves,
            ProcAt, NoFile, isInitialized, Derives
    <2> QED BY <2>2, <2>3, <2>4 DEF KeyInv
  <1> QED
    BY <1>1, <1>2, <1>3, <1>4
    DEF OrphanSlots, Works, Fails, KeyInv, ProcInv, Callers, AfterSlots, NoFile

\* A passcode slot is deleted, or its delete fails.
LEMMA eraseAllKeeps ==
  ASSUME KeyInv, eraseAll PROVE KeyInv'
  <1>1. proc \in ProcType /\ rows \in RowsType /\ file \in Maybe(FileType)
    BY DEF KeyInv, KeyTypeOK
  <1>2. /\ proc.pc \in {"real", "duress"} /\ rows' = rows
        /\ enclave' = enclave /\ file' = file /\ incomplete' = incomplete
        /\ promise' = promise /\ passcode' \subseteq passcode
        /\ faults' = faults => passcode' = passcode \ {proc.pc}
        /\ (Works \/ Fails)
    BY DEF eraseAll, Works, Fails, KeyInv, KeyTypeOK
  <1>3. /\ faults' = faults /\ proc.pc = "duress" /\ "real" \notin passcode => passcode' = {}
    BY <1>2 DEF KeyInv, KeyTypeOK
  <1>4. faults' \in 0 .. MaxFaults /\ (faults' = 0 => faults = 0)
    BY <1>2, FaultsGrow
  <1>5. CASE Doing("real") /\ Proceed("duress")
    <2>1. /\ Moves("duress")
      BY <1>1, <1>2, <1>5, PcMove
      DEF Steps, Proceed
    <2>2. KeyTypeOK'
      BY <1>1, <1>2, <1>3, <1>4, <1>5, <2>1
      DEF KeyInv, KeyTypeOK, Maybe, Moves, ProcAt
    <2>3. ProcInv' /\ EraseProgress' /\ RotationProgress'
      BY <1>1, <1>2, <1>3, <1>4, <1>5, <2>1, KeyAssumption
      DEF KeyInv, ProcInv, EraseProgress, RotationProgress, Callers, FileType,
          Maybe, Moves, ProcAt, NoFile, isInitialized, Derives
    <2>4. ASSUME faults' = 0 PROVE CleanInv'
      <3>1. faults = 0 BY <1>4, <2>4
      <3> QED
        BY <1>1, <1>2, <1>3, <1>4, <1>5, <2>1, <2>4, <3>1, KeyAssumption, ZenonT(60)
        DEF KeyInv, KeyTypeOK, CleanInv, RowsAgree, StepsAgree, PromiseKept,
            ProcInv, EraseProgress, RotationProgress, FileType, Maybe, Moves,
            ProcAt, NoFile, isInitialized, Derives
    <2> QED BY <2>2, <2>3, <2>4 DEF KeyInv
  <1>6. CASE Doing("duress") /\ proc.call = "orphan1" /\ Proceed("orphan2")
    <2>1. /\ Moves("orphan2")
      BY <1>1, <1>2, <1>6, PcMove
      DEF Steps, Proceed
    <2>2. KeyTypeOK'
      BY <1>1, <1>2, <1>3, <1>4, <1>6, <2>1
      DEF KeyInv, KeyTypeOK, Maybe, Moves, ProcAt
    <2>3. ProcInv' /\ EraseProgress' /\ RotationProgress'
      BY <1>1, <1>2, <1>3, <1>4, <1>6, <2>1, KeyAssumption
      DEF KeyInv, ProcInv, EraseProgress, RotationProgress, Callers, FileType,
          Maybe, Moves, ProcAt, NoFile, isInitialized, Derives
    <2>4. ASSUME faults' = 0 PROVE CleanInv'
      <3>1. faults = 0 BY <1>4, <2>4
      <3> QED
        BY <1>1, <1>2, <1>3, <1>4, <1>6, <2>1, <2>4, <3>1, KeyAssumption
        DEF KeyInv, KeyTypeOK, CleanInv, RowsAgree, StepsAgree, PromiseKept,
            ProcInv, EraseProgress, RotationProgress, FileType, Maybe, Moves,
            ProcAt, NoFile, isInitialized, Derives
    <2> QED BY <2>2, <2>3, <2>4 DEF KeyInv
  <1>7. CASE Doing("duress") /\ proc.call = "orphan2" /\ Proceed("orphan3")
    <2>1. /\ Moves("orphan3")
      BY <1>1, <1>2, <1>7, PcMove
      DEF Steps, Proceed
    <2>2. KeyTypeOK'
      BY <1>1, <1>2, <1>3, <1>4, <1>7, <2>1
      DEF KeyInv, KeyTypeOK, Maybe, Moves, ProcAt
    <2>3. ProcInv' /\ EraseProgress' /\ RotationProgress'
      BY <1>1, <1>2, <1>3, <1>4, <1>7, <2>1, KeyAssumption
      DEF KeyInv, ProcInv, EraseProgress, RotationProgress, Callers, FileType,
          Maybe, Moves, ProcAt, NoFile, isInitialized, Derives
    <2>4. ASSUME faults' = 0 PROVE CleanInv'
      <3>1. faults = 0 BY <1>4, <2>4
      <3> QED
        BY <1>1, <1>2, <1>3, <1>4, <1>7, <2>1, <2>4, <3>1, KeyAssumption
        DEF KeyInv, KeyTypeOK, CleanInv, RowsAgree, StepsAgree, PromiseKept,
            ProcInv, EraseProgress, RotationProgress, FileType, Maybe, Moves,
            ProcAt, NoFile, isInitialized, Derives
    <2> QED BY <2>2, <2>3, <2>4 DEF KeyInv
  <1>8. CASE Doing("duress") /\ proc.call = "orphan3" /\ Proceed("derive")
    <2>1. /\ Moves("derive")
      BY <1>1, <1>2, <1>8, PcMove
      DEF Steps, Proceed
    <2>2. KeyTypeOK'
      BY <1>1, <1>2, <1>3, <1>4, <1>8, <2>1
      DEF KeyInv, KeyTypeOK, Maybe, Moves, ProcAt
    <2>3. ProcInv' /\ EraseProgress' /\ RotationProgress'
      BY <1>1, <1>2, <1>3, <1>4, <1>8, <2>1, KeyAssumption
      DEF KeyInv, ProcInv, EraseProgress, RotationProgress, Callers, FileType,
          Maybe, Moves, ProcAt, NoFile, isInitialized, Derives
    <2>4. ASSUME faults' = 0 PROVE CleanInv'
      <3>1. faults = 0 BY <1>4, <2>4
      <3> QED
        BY <1>1, <1>2, <1>3, <1>4, <1>8, <2>1, <2>4, <3>1, KeyAssumption
        DEF KeyInv, KeyTypeOK, CleanInv, RowsAgree, StepsAgree, PromiseKept,
            ProcInv, EraseProgress, RotationProgress, FileType, Maybe, Moves,
            ProcAt, NoFile, isInitialized, Derives
    <2> QED BY <2>2, <2>3, <2>4 DEF KeyInv
  <1>9. CASE Doing("duress") /\ proc.call = "downgrade" /\ Proceed("derive")
    <2>1. /\ Moves("derive")
      BY <1>1, <1>2, <1>9, PcMove
      DEF Steps, Proceed
    <2>2. KeyTypeOK'
      BY <1>1, <1>2, <1>3, <1>4, <1>9, <2>1
      DEF KeyInv, KeyTypeOK, Maybe, Moves, ProcAt
    <2>3. ProcInv' /\ EraseProgress' /\ RotationProgress'
      BY <1>1, <1>2, <1>3, <1>4, <1>9, <2>1, KeyAssumption
      DEF KeyInv, ProcInv, EraseProgress, RotationProgress, Callers, FileType,
          Maybe, Moves, ProcAt, NoFile, isInitialized, Derives
    <2>4. ASSUME faults' = 0 PROVE CleanInv'
      <3>1. faults = 0 BY <1>4, <2>4
      <3> QED
        BY <1>1, <1>2, <1>3, <1>4, <1>9, <2>1, <2>4, <3>1, KeyAssumption
        DEF KeyInv, KeyTypeOK, CleanInv, RowsAgree, StepsAgree, PromiseKept,
            ProcInv, EraseProgress, RotationProgress, FileType, Maybe, Moves,
            ProcAt, NoFile, isInitialized, Derives
    <2> QED BY <2>2, <2>3, <2>4 DEF KeyInv
  <1>10. CASE Doing("duress") /\ proc.call = "wipe" /\ Proceed("unlink")
    <2>1. /\ Moves("unlink")
      BY <1>1, <1>2, <1>10, PcMove
      DEF Steps, Proceed
    <2>2. KeyTypeOK'
      BY <1>1, <1>2, <1>3, <1>4, <1>10, <2>1
      DEF KeyInv, KeyTypeOK, Maybe, Moves, ProcAt
    <2>3. ProcInv' /\ EraseProgress' /\ RotationProgress'
      BY <1>1, <1>2, <1>3, <1>4, <1>10, <2>1, KeyAssumption, Zenon
      DEF KeyInv, ProcInv, EraseProgress, RotationProgress, Callers, FileType,
          Maybe, Moves, ProcAt, NoFile, isInitialized, Derives
    <2>4. ASSUME faults' = 0 PROVE CleanInv'
      <3>1. faults = 0 BY <1>4, <2>4
      <3> QED
        BY <1>1, <1>2, <1>3, <1>4, <1>10, <2>1, <2>4, <3>1, KeyAssumption
        DEF KeyInv, KeyTypeOK, CleanInv, RowsAgree, StepsAgree, PromiseKept,
            ProcInv, EraseProgress, RotationProgress, FileType, Maybe, Moves,
            ProcAt, NoFile, isInitialized, Derives
    <2> QED BY <2>2, <2>3, <2>4 DEF KeyInv
  <1> QED
    BY <1>1, <1>2, <1>3, <1>4, <1>5, <1>6, <1>7, <1>8, <1>9, <1>10
    DEF eraseAll, Works, Fails, KeyInv, ProcInv, Callers, AfterSlots, NoFile

\* The seed is unwrapped, or a new one is wrapped.
LEMMA unwrapOrCreateSeedKeeps ==
  ASSUME KeyInv, unwrapOrCreateSeed PROVE KeyInv'
  <1>1. proc \in ProcType /\ rows \in RowsType /\ file \in Maybe(FileType)
    BY DEF KeyInv, KeyTypeOK
  <1>2. /\ proc.pc = "derive" /\ file' = file /\ passcode' = passcode
        /\ incomplete' = incomplete /\ promise' = promise /\ (Works \/ Fails)
    BY DEF unwrapOrCreateSeed, Works
  <1>3. faults' \in 0 .. MaxFaults /\ (faults' = 0 => faults = 0)
    BY <1>2, FaultsGrow
  <1>4. CASE /\ rows.wrap # Absent /\ rows.wrap.by = enclave /\ enclave' = enclave
             /\ Proceed("salt") /\ UNCHANGED <<rows, faults>>
    <2>1. /\ Moves("salt")
      BY <1>1, <1>2, <1>4, PcMove
      DEF Steps, Proceed
    <2>2. KeyTypeOK'
      BY <1>1, <1>2, <1>3, <1>4, <2>1
      DEF KeyInv, KeyTypeOK, Maybe, Moves, ProcAt, RowsAt
    <2>3. ProcInv' /\ EraseProgress' /\ RotationProgress'
      BY <1>1, <1>2, <1>3, <1>4, <2>1, KeyAssumption, Zenon
      DEF KeyInv, ProcInv, EraseProgress, RotationProgress, Callers, FileType,
          Maybe, Moves, ProcAt, RowsAt, NoFile, isInitialized, Derives
    <2>4. ASSUME faults' = 0 PROVE CleanInv'
      <3>1. faults = 0 BY <1>3, <2>4
      <3> QED
        BY <1>1, <1>2, <1>3, <1>4, <2>1, <2>4, <3>1, KeyAssumption
        DEF KeyInv, KeyTypeOK, CleanInv, RowsAgree, StepsAgree, PromiseKept,
            ProcInv, EraseProgress, RotationProgress, FileType, Maybe, Moves,
            ProcAt, RowsAt, NoFile, isInitialized, Derives
    <2> QED BY <2>2, <2>3, <2>4 DEF KeyInv
  <1>5. CASE /\ rows.wrap # Absent /\ rows.wrap.by # enclave /\ enclave' \in Ids
             /\ Proceed("failed") /\ UNCHANGED <<rows, faults>>
    <2>1. /\ Moves("failed")
      BY <1>1, <1>2, <1>5, PcMove
      DEF Steps, Proceed
    <2>2. KeyTypeOK'
      BY <1>1, <1>2, <1>3, <1>5, <2>1
      DEF KeyInv, KeyTypeOK, Maybe, Moves, ProcAt, RowsAt
    <2>3. ProcInv' /\ EraseProgress' /\ RotationProgress'
      BY <1>1, <1>2, <1>3, <1>5, <2>1, KeyAssumption
      DEF KeyInv, ProcInv, EraseProgress, RotationProgress, Callers, FileType,
          Maybe, Moves, ProcAt, RowsAt, NoFile, isInitialized, Derives
    <2>4. ASSUME faults' = 0 PROVE CleanInv'
      <3>1. faults = 0 BY <1>3, <2>4
      <3> QED
        BY <1>1, <1>2, <1>3, <1>5, <2>1, <2>4, <3>1, KeyAssumption, Zenon
        DEF KeyInv, KeyTypeOK, CleanInv, RowsAgree, StepsAgree, PromiseKept,
            ProcInv, EraseProgress, RotationProgress, FileType, Maybe, Moves,
            ProcAt, RowsAt, NoFile, isInitialized, Derives
    <2> QED BY <2>2, <2>3, <2>4 DEF KeyInv
  <1>6. CASE /\ rows.wrap = Absent /\ enclave' \in Ids /\ Proceed("salt") /\ faults' = faults
             /\ \E s \in Ids : rows' = [rows EXCEPT !.wrap = [seed |-> s, by |-> enclave']]
    <2>1. /\ Moves("salt")
          /\ \E s \in Ids : RowsAt([seed |-> s, by |-> enclave'], rows.salt, rows.staged)
      BY <1>1, <1>2, <1>6, PcMove, RowMove, KeyAssumption, Zenon
      DEF Steps, Proceed, Maybe
    <2>2. KeyTypeOK'
      BY <1>1, <1>2, <1>3, <1>6, <2>1
      DEF KeyInv, KeyTypeOK, Maybe, Moves, ProcAt, RowsAt
    <2>3. ProcInv' /\ EraseProgress' /\ RotationProgress'
      BY <1>1, <1>2, <1>3, <1>6, <2>1, KeyAssumption
      DEF KeyInv, ProcInv, EraseProgress, RotationProgress, Callers, FileType,
          Maybe, Moves, ProcAt, RowsAt, NoFile, isInitialized, Derives
    <2>4. ASSUME faults' = 0 PROVE CleanInv'
      <3>1. faults = 0 BY <1>3, <2>4
      <3> QED
        BY <1>1, <1>2, <1>3, <1>6, <2>1, <2>4, <3>1, KeyAssumption
        DEF KeyInv, KeyTypeOK, CleanInv, RowsAgree, StepsAgree, PromiseKept,
            ProcInv, EraseProgress, RotationProgress, FileType, Maybe, Moves,
            ProcAt, RowsAt, NoFile, isInitialized, Derives
    <2> QED BY <2>2, <2>3, <2>4 DEF KeyInv
  <1>7. CASE /\ rows.wrap = Absent /\ enclave' \in Ids /\ faults' = faults + 1
             /\ Proceed("failed") /\ rows' = rows
    <2>1. /\ Moves("failed")
      BY <1>1, <1>2, <1>7, PcMove
      DEF Steps, Proceed
    <2>2. KeyTypeOK'
      BY <1>1, <1>2, <1>3, <1>7, <2>1
      DEF KeyInv, KeyTypeOK, Maybe, Moves, ProcAt, RowsAt
    <2>3. ProcInv' /\ EraseProgress' /\ RotationProgress'
      BY <1>1, <1>2, <1>3, <1>7, <2>1, KeyAssumption, Zenon
      DEF KeyInv, ProcInv, EraseProgress, RotationProgress, Callers, FileType,
          Maybe, Moves, ProcAt, RowsAt, NoFile, isInitialized, Derives
    <2>4. ASSUME faults' = 0 PROVE CleanInv'
      <3>1. faults = 0 BY <1>3, <2>4
      <3> QED
        BY <1>1, <1>2, <1>3, <1>7, <2>1, <2>4, <3>1, KeyAssumption
        DEF KeyInv, KeyTypeOK, CleanInv, RowsAgree, StepsAgree, PromiseKept,
            ProcInv, EraseProgress, RotationProgress, FileType, Maybe, Moves,
            ProcAt, RowsAt, NoFile, isInitialized, Derives
    <2> QED BY <2>2, <2>3, <2>4 DEF KeyInv
  <1>8. /\ enclave = Absent \/ enclave \in Ids
        /\ \A a \in Maybe(Ids) : Fresh({a}) \in Ids
        /\ rows.wrap # Absent => rows.wrap.by \in Ids
        /\ ~NoFile => file.seed \in Ids
    BY <1>1, FreshDraw DEF KeyInv, KeyTypeOK, RowsType, FileType, Maybe, NoFile
  <1>9. enclave' \in Ids /\ (enclave \in Ids => enclave' = enclave)
    BY <1>8, KeyAssumption, Zenon DEF unwrapOrCreateSeed, Maybe
  <1>10. Fresh({IF NoFile THEN Absent ELSE file.seed}) \in Ids
    BY <1>8, Zenon DEF Maybe
  <1> QED
    BY <1>1, <1>2, <1>3, <1>4, <1>5, <1>6, <1>7, <1>8, <1>9, <1>10, Zenon
    DEF unwrapOrCreateSeed, Works, Fails, KeyInv, ProcInv, Callers, AfterSlots,
        NoFile

\* The salt is read, or a new one is drawn.
LEMMA loadOrCreateSaltKeeps ==
  ASSUME KeyInv, loadOrCreateSalt PROVE KeyInv'
  <1>1. proc \in ProcType /\ rows \in RowsType /\ file \in Maybe(FileType)
    BY DEF KeyInv, KeyTypeOK
  <1>2. /\ proc.pc = "salt" /\ enclave' = enclave /\ file' = file
        /\ passcode' = passcode /\ incomplete' = incomplete
        /\ promise' = promise /\ (Works \/ Fails)
    BY DEF loadOrCreateSalt, Works
  <1>3. faults' \in 0 .. MaxFaults /\ (faults' = 0 => faults = 0)
    BY <1>2, FaultsGrow
  <1>4. CASE rows.salt # Absent /\ Proceed("open") /\ UNCHANGED <<rows, faults>>
    <2>1. /\ Moves("open")
      BY <1>1, <1>2, <1>4, PcMove
      DEF Steps, Proceed
    <2>2. KeyTypeOK'
      BY <1>1, <1>2, <1>3, <1>4, <2>1
      DEF KeyInv, KeyTypeOK, Maybe, Moves, ProcAt, RowsAt
    <2>3. ProcInv' /\ EraseProgress' /\ RotationProgress'
      BY <1>1, <1>2, <1>3, <1>4, <2>1, KeyAssumption, Zenon
      DEF KeyInv, ProcInv, EraseProgress, RotationProgress, Callers, FileType,
          Maybe, Moves, ProcAt, RowsAt, NoFile, isInitialized, Derives
    <2>4. ASSUME faults' = 0 PROVE CleanInv'
      <3>1. faults = 0 BY <1>3, <2>4
      <3> QED
        BY <1>1, <1>2, <1>3, <1>4, <2>1, <2>4, <3>1, KeyAssumption
        DEF KeyInv, KeyTypeOK, CleanInv, RowsAgree, StepsAgree, PromiseKept,
            ProcInv, EraseProgress, RotationProgress, FileType, Maybe, Moves,
            ProcAt, RowsAt, NoFile, isInitialized, Derives
    <2> QED BY <2>2, <2>3, <2>4 DEF KeyInv
  <1>5. CASE /\ rows.salt = Absent /\ rows' = [rows EXCEPT !.salt = Fresh(SaltsInUse)]
             /\ Proceed("open") /\ faults' = faults
    <2>1. /\ Moves("open")
          /\ RowsAt(rows.wrap, Fresh(SaltsInUse), rows.staged)
          /\ Fresh(SaltsInUse) \in Ids
      BY <1>1, <1>2, <1>5, PcMove, RowMove, FreshDraw, KeyAssumption, Zenon
      DEF Steps, Proceed, Maybe, KeyInv
    <2>2. KeyTypeOK'
      BY <1>1, <1>2, <1>3, <1>5, <2>1
      DEF KeyInv, KeyTypeOK, Maybe, Moves, ProcAt, RowsAt
    <2>3. ProcInv' /\ EraseProgress' /\ RotationProgress'
      BY <1>1, <1>2, <1>3, <1>5, <2>1, KeyAssumption
      DEF KeyInv, ProcInv, EraseProgress, RotationProgress, Callers, FileType,
          Maybe, Moves, ProcAt, RowsAt, NoFile, isInitialized, Derives
    <2>4. ASSUME faults' = 0 PROVE CleanInv'
      <3>1. faults = 0 BY <1>3, <2>4
      <3> QED
        BY <1>1, <1>2, <1>3, <1>5, <2>1, <2>4, <3>1, KeyAssumption
        DEF KeyInv, KeyTypeOK, CleanInv, RowsAgree, StepsAgree, PromiseKept,
            ProcInv, EraseProgress, RotationProgress, FileType, Maybe, Moves,
            ProcAt, RowsAt, NoFile, isInitialized, Derives
    <2> QED BY <2>2, <2>3, <2>4 DEF KeyInv
  <1>6. CASE faults' = faults + 1 /\ Proceed("failed") /\ UNCHANGED rows
    <2>1. /\ Moves("failed")
      BY <1>1, <1>2, <1>6, PcMove
      DEF Steps, Proceed
    <2>2. KeyTypeOK'
      BY <1>1, <1>2, <1>3, <1>6, <2>1
      DEF KeyInv, KeyTypeOK, Maybe, Moves, ProcAt, RowsAt
    <2>3. ProcInv' /\ EraseProgress' /\ RotationProgress'
      BY <1>1, <1>2, <1>3, <1>6, <2>1, KeyAssumption, Zenon
      DEF KeyInv, ProcInv, EraseProgress, RotationProgress, Callers, FileType,
          Maybe, Moves, ProcAt, RowsAt, NoFile, isInitialized, Derives
    <2>4. ASSUME faults' = 0 PROVE CleanInv'
      <3>1. faults = 0 BY <1>3, <2>4
      <3> QED
        BY <1>1, <1>2, <1>3, <1>6, <2>1, <2>4, <3>1, KeyAssumption
        DEF KeyInv, KeyTypeOK, CleanInv, RowsAgree, StepsAgree, PromiseKept,
            ProcInv, EraseProgress, RotationProgress, FileType, Maybe, Moves,
            ProcAt, RowsAt, NoFile, isInitialized, Derives
    <2> QED BY <2>2, <2>3, <2>4 DEF KeyInv
  <1> QED
    BY <1>1, <1>2, <1>3, <1>4, <1>5, <1>6
    DEF loadOrCreateSalt, Works, Fails, KeyInv, ProcInv, Callers, AfterSlots,
        NoFile

\* The store is created, or opened under the salt.
LEMMA OpenPrimaryKeeps ==
  ASSUME KeyInv, OpenPrimary PROVE KeyInv'
  <1>1. proc \in ProcType /\ rows \in RowsType /\ file \in Maybe(FileType)
    BY DEF KeyInv, KeyTypeOK
  <1>2. /\ proc.pc = "open" /\ rows' = rows /\ enclave' = enclave
        /\ passcode' = passcode /\ incomplete' = incomplete
        /\ promise' = promise /\ faults' = faults
    BY DEF OpenPrimary
  <1>3. CASE /\ NoFile /\ Proceed("migrate")
             /\ file' = [seed |-> rows.wrap.seed, salt |-> rows.salt,
                          data |-> "default", ahead |-> FALSE]
    <2>1. /\ Moves("migrate")
          /\ FileAt(rows.wrap.seed, rows.salt, "default", FALSE)
      BY <1>1, <1>2, <1>3, PcMove, KeyAssumption
      DEF Steps, Proceed, FileAt, FileType, RowsType, Maybe, KeyInv, ProcInv
    <2>2. KeyTypeOK'
      BY <1>1, <1>2, <1>3, <2>1
      DEF KeyInv, KeyTypeOK, Maybe, Moves, ProcAt, FileAt
    <2>3. ProcInv' /\ EraseProgress' /\ RotationProgress'
      BY <1>1, <1>2, <1>3, <2>1, KeyAssumption, Zenon
      DEF KeyInv, ProcInv, EraseProgress, RotationProgress, Callers, FileType,
          Maybe, Moves, ProcAt, FileAt, NoFile, isInitialized, Derives
    <2>4. ASSUME faults' = 0 PROVE CleanInv'
      <3>1. faults = 0 BY <1>2, <2>4
      <3> QED
        BY <1>1, <1>2, <1>3, <2>1, <2>4, <3>1, KeyAssumption
        DEF KeyInv, KeyTypeOK, CleanInv, RowsAgree, StepsAgree, PromiseKept,
            ProcInv, EraseProgress, RotationProgress, FileType, Maybe, Moves,
            ProcAt, FileAt, NoFile, isInitialized, Derives
    <2> QED BY <2>2, <2>3, <2>4 DEF KeyInv
  <1>4. CASE ~NoFile /\ Derives(rows.salt) /\ Proceed("migrate") /\ UNCHANGED file
    <2>1. /\ Moves("migrate")
      BY <1>1, <1>2, <1>4, PcMove
      DEF Steps, Proceed
    <2>2. KeyTypeOK'
      BY <1>1, <1>2, <1>4, <2>1
      DEF KeyInv, KeyTypeOK, Maybe, Moves, ProcAt, FileAt
    <2>3. ProcInv' /\ EraseProgress' /\ RotationProgress'
      BY <1>1, <1>2, <1>4, <2>1, KeyAssumption, Zenon
      DEF KeyInv, ProcInv, EraseProgress, RotationProgress, Callers, FileType,
          Maybe, Moves, ProcAt, FileAt, NoFile, isInitialized, Derives
    <2>4. ASSUME faults' = 0 PROVE CleanInv'
      <3>1. faults = 0 BY <1>2, <2>4
      <3> QED
        BY <1>1, <1>2, <1>4, <2>1, <2>4, <3>1, KeyAssumption
        DEF KeyInv, KeyTypeOK, CleanInv, RowsAgree, StepsAgree, PromiseKept,
            ProcInv, EraseProgress, RotationProgress, FileType, Maybe, Moves,
            ProcAt, FileAt, NoFile, isInitialized, Derives
    <2> QED BY <2>2, <2>3, <2>4 DEF KeyInv
  <1>5. CASE ~NoFile /\ ~Derives(rows.salt) /\ Proceed("staged") /\ UNCHANGED file
    <2>1. /\ Moves("staged")
      BY <1>1, <1>2, <1>5, PcMove
      DEF Steps, Proceed
    <2>2. KeyTypeOK'
      BY <1>1, <1>2, <1>5, <2>1
      DEF KeyInv, KeyTypeOK, Maybe, Moves, ProcAt, FileAt
    <2>3. ProcInv' /\ EraseProgress' /\ RotationProgress'
      BY <1>1, <1>2, <1>5, <2>1, KeyAssumption
      DEF KeyInv, ProcInv, EraseProgress, RotationProgress, Callers, FileType,
          Maybe, Moves, ProcAt, FileAt, NoFile, isInitialized, Derives
    <2>4. ASSUME faults' = 0 PROVE CleanInv'
      <3>1. faults = 0 BY <1>2, <2>4
      <3> QED
        BY <1>1, <1>2, <1>5, <2>1, <2>4, <3>1, KeyAssumption, ZenonT(60)
        DEF KeyInv, KeyTypeOK, CleanInv, RowsAgree, StepsAgree, PromiseKept,
            ProcInv, EraseProgress, RotationProgress, FileType, Maybe, Moves,
            ProcAt, FileAt, NoFile, isInitialized, Derives
    <2> QED BY <2>2, <2>3, <2>4 DEF KeyInv
  <1> QED
    BY <1>1, <1>2, <1>3, <1>4, <1>5, Zenon
    DEF OpenPrimary, Works, Fails, KeyInv, ProcInv, Callers, AfterSlots, NoFile

\* openWithRecovery tries the staged salt.
LEMMA OpenStagedKeeps ==
  ASSUME KeyInv, OpenStaged PROVE KeyInv'
  <1>1. proc \in ProcType /\ rows \in RowsType /\ file \in Maybe(FileType)
    BY DEF KeyInv, KeyTypeOK
  <1>2. /\ proc.pc = "staged" /\ rows' = rows /\ enclave' = enclave
        /\ file' = file /\ passcode' = passcode /\ incomplete' = incomplete
        /\ promise' = promise /\ faults' = faults
    BY DEF OpenStaged
  <1>3. CASE rows.staged # Absent /\ Derives(rows.staged) /\ Proceed("promote")
    <2>1. /\ Moves("promote")
      BY <1>1, <1>2, <1>3, PcMove
      DEF Steps, Proceed
    <2>2. KeyTypeOK'
      BY <1>1, <1>2, <1>3, <2>1
      DEF KeyInv, KeyTypeOK, Maybe, Moves, ProcAt
    <2>3. ProcInv' /\ EraseProgress' /\ RotationProgress'
      BY <1>1, <1>2, <1>3, <2>1, KeyAssumption, Zenon
      DEF KeyInv, ProcInv, EraseProgress, RotationProgress, Callers, FileType,
          Maybe, Moves, ProcAt, NoFile, isInitialized, Derives
    <2>4. ASSUME faults' = 0 PROVE CleanInv'
      <3>1. faults = 0 BY <1>2, <2>4
      <3> QED
        BY <1>1, <1>2, <1>3, <2>1, <2>4, <3>1, KeyAssumption
        DEF KeyInv, KeyTypeOK, CleanInv, RowsAgree, StepsAgree, PromiseKept,
            ProcInv, EraseProgress, RotationProgress, FileType, Maybe, Moves,
            ProcAt, NoFile, isInitialized, Derives
    <2> QED BY <2>2, <2>3, <2>4 DEF KeyInv
  <1>4. CASE ~(rows.staged # Absent /\ Derives(rows.staged)) /\ Proceed("failed")
    <2>1. /\ Moves("failed")
      BY <1>1, <1>2, <1>4, PcMove
      DEF Steps, Proceed
    <2>2. KeyTypeOK'
      BY <1>1, <1>2, <1>4, <2>1
      DEF KeyInv, KeyTypeOK, Maybe, Moves, ProcAt
    <2>3. ProcInv' /\ EraseProgress' /\ RotationProgress'
      BY <1>1, <1>2, <1>4, <2>1, KeyAssumption
      DEF KeyInv, ProcInv, EraseProgress, RotationProgress, Callers, FileType,
          Maybe, Moves, ProcAt, NoFile, isInitialized, Derives
    <2>4. ASSUME faults' = 0 PROVE CleanInv'
      <3>1. faults = 0 BY <1>2, <2>4
      <3> QED
        BY <1>1, <1>2, <1>4, <2>1, <2>4, <3>1, KeyAssumption, ZenonT(60)
        DEF KeyInv, KeyTypeOK, CleanInv, RowsAgree, StepsAgree, PromiseKept,
            ProcInv, EraseProgress, RotationProgress, FileType, Maybe, Moves,
            ProcAt, NoFile, isInitialized, Derives
    <2> QED BY <2>2, <2>3, <2>4 DEF KeyInv
  <1> QED
    BY <1>1, <1>2, <1>3, <1>4
    DEF OpenStaged, Works, Fails, KeyInv, ProcInv, Callers, AfterSlots, NoFile

\* The staged salt that opened the store becomes the live one.
LEMMA promoteStagedSaltKeeps ==
  ASSUME KeyInv, promoteStagedSalt PROVE KeyInv'
  <1>1. proc \in ProcType /\ rows \in RowsType /\ file \in Maybe(FileType)
    BY DEF KeyInv, KeyTypeOK
  <1>2. /\ proc.pc = "promote" /\ enclave' = enclave /\ file' = file
        /\ passcode' = passcode /\ incomplete' = incomplete
        /\ promise' = promise /\ (Works \/ Fails)
    BY DEF promoteStagedSalt, Works
  <1>3. faults' \in 0 .. MaxFaults /\ (faults' = 0 => faults = 0)
    BY <1>2, FaultsGrow
  <1>4. CASE rows' = [rows EXCEPT !.salt = rows.staged] /\ Proceed("unstage") /\ faults' = faults
    <2>1. /\ Moves("unstage")
          /\ RowsAt(rows.wrap, rows.staged, rows.staged)
      BY <1>1, <1>2, <1>4, PcMove, RowMove
      DEF Steps, Proceed, RowsType
    <2>2. KeyTypeOK'
      BY <1>1, <1>2, <1>3, <1>4, <2>1
      DEF KeyInv, KeyTypeOK, Maybe, Moves, ProcAt, RowsAt
    <2>3. ProcInv' /\ EraseProgress' /\ RotationProgress'
      BY <1>1, <1>2, <1>3, <1>4, <2>1, KeyAssumption
      DEF KeyInv, ProcInv, EraseProgress, RotationProgress, Callers, FileType,
          Maybe, Moves, ProcAt, RowsAt, NoFile, isInitialized, Derives
    <2>4. ASSUME faults' = 0 PROVE CleanInv'
      <3>1. faults = 0 BY <1>3, <2>4
      <3> QED
        BY <1>1, <1>2, <1>3, <1>4, <2>1, <2>4, <3>1, KeyAssumption, ZenonT(60)
        DEF KeyInv, KeyTypeOK, CleanInv, RowsAgree, StepsAgree, PromiseKept,
            ProcInv, EraseProgress, RotationProgress, FileType, Maybe, Moves,
            ProcAt, RowsAt, NoFile, isInitialized, Derives
    <2> QED BY <2>2, <2>3, <2>4 DEF KeyInv
  <1>5. CASE faults' = faults + 1 /\ Proceed("migrate") /\ UNCHANGED rows
    <2>1. /\ Moves("migrate")
      BY <1>1, <1>2, <1>5, PcMove
      DEF Steps, Proceed
    <2>2. KeyTypeOK'
      BY <1>1, <1>2, <1>3, <1>5, <2>1
      DEF KeyInv, KeyTypeOK, Maybe, Moves, ProcAt, RowsAt
    <2>3. ProcInv' /\ EraseProgress' /\ RotationProgress'
      BY <1>1, <1>2, <1>3, <1>5, <2>1, KeyAssumption
      DEF KeyInv, ProcInv, EraseProgress, RotationProgress, Callers, FileType,
          Maybe, Moves, ProcAt, RowsAt, NoFile, isInitialized, Derives
    <2>4. ASSUME faults' = 0 PROVE CleanInv'
      <3>1. faults = 0 BY <1>3, <2>4
      <3> QED
        BY ONLY <1>1, <1>2, <1>3, <1>5, <2>1, <2>4, <3>1, KeyAssumption
        DEF KeyInv, KeyTypeOK, CleanInv, RowsAgree, StepsAgree, PromiseKept,
            ProcInv, EraseProgress, RotationProgress, FileType, Maybe, Moves,
            ProcAt, RowsAt, NoFile, isInitialized, Derives
    <2> QED BY <2>2, <2>3, <2>4 DEF KeyInv
  <1> QED
    BY <1>1, <1>2, <1>3, <1>4, <1>5
    DEF promoteStagedSalt, Works, Fails, KeyInv, ProcInv, Callers, AfterSlots,
        NoFile

\* The staged row is deleted after a promotion.
LEMMA ClearStagedKeeps ==
  ASSUME KeyInv, ClearStaged PROVE KeyInv'
  <1>1. proc \in ProcType /\ rows \in RowsType /\ file \in Maybe(FileType)
    BY DEF KeyInv, KeyTypeOK
  <1>2. /\ proc.pc \in {"unstage", "clear"} /\ enclave' = enclave
        /\ file' = file /\ passcode' = passcode /\ incomplete' = incomplete
        /\ promise' = promise /\ (Works \/ Fails)
    BY DEF ClearStaged, Works
  <1>3. faults' \in 0 .. MaxFaults /\ (faults' = 0 => faults = 0)
    BY <1>2, FaultsGrow
  <1>4. CASE /\ Doing("unstage") /\ Proceed("migrate")
             /\ rows' = [rows EXCEPT !.staged = Absent] /\ faults' = faults
    <2>1. /\ Moves("migrate")
          /\ RowsAt(rows.wrap, rows.salt, Absent)
      BY <1>1, <1>2, <1>4, PcMove, RowMove, KeyAssumption, Zenon
      DEF Steps, Proceed, Maybe
    <2>2. KeyTypeOK'
      BY <1>1, <1>2, <1>3, <1>4, <2>1
      DEF KeyInv, KeyTypeOK, Maybe, Moves, ProcAt, RowsAt
    <2>3. ProcInv' /\ EraseProgress' /\ RotationProgress'
      BY <1>1, <1>2, <1>3, <1>4, <2>1, KeyAssumption
      DEF KeyInv, ProcInv, EraseProgress, RotationProgress, Callers, FileType,
          Maybe, Moves, ProcAt, RowsAt, NoFile, isInitialized, Derives
    <2>4. ASSUME faults' = 0 PROVE CleanInv'
      <3>1. faults = 0 BY <1>3, <2>4
      <3> QED
        BY <1>1, <1>2, <1>3, <1>4, <2>1, <2>4, <3>1, KeyAssumption, ZenonT(60)
        DEF KeyInv, KeyTypeOK, CleanInv, RowsAgree, StepsAgree, PromiseKept,
            ProcInv, EraseProgress, RotationProgress, FileType, Maybe, Moves,
            ProcAt, RowsAt, NoFile, isInitialized, Derives
    <2> QED BY <2>2, <2>3, <2>4 DEF KeyInv
  <1>5. CASE Doing("unstage") /\ Proceed("migrate") /\ rows' = rows /\ faults' = faults + 1
    <2>1. /\ Moves("migrate")
      BY <1>1, <1>2, <1>5, PcMove
      DEF Steps, Proceed
    <2>2. KeyTypeOK'
      BY <1>1, <1>2, <1>3, <1>5, <2>1
      DEF KeyInv, KeyTypeOK, Maybe, Moves, ProcAt, RowsAt
    <2>3. ProcInv' /\ EraseProgress' /\ RotationProgress'
      BY <1>1, <1>2, <1>3, <1>5, <2>1, KeyAssumption
      DEF KeyInv, ProcInv, EraseProgress, RotationProgress, Callers, FileType,
          Maybe, Moves, ProcAt, RowsAt, NoFile, isInitialized, Derives
    <2>4. ASSUME faults' = 0 PROVE CleanInv'
      <3>1. faults = 0 BY <1>3, <2>4
      <3> QED
        BY <1>1, <1>2, <1>3, <1>5, <2>1, <2>4, <3>1, KeyAssumption, Zenon
        DEF KeyInv, KeyTypeOK, CleanInv, RowsAgree, StepsAgree, PromiseKept,
            ProcInv, EraseProgress, RotationProgress, FileType, Maybe, Moves,
            ProcAt, RowsAt, NoFile, isInitialized, Derives
    <2> QED BY <2>2, <2>3, <2>4 DEF KeyInv
  <1>6. CASE /\ Doing("clear") /\ Proceed("stamp")
             /\ rows' = [rows EXCEPT !.staged = Absent] /\ faults' = faults
    <2>1. /\ Moves("stamp")
          /\ RowsAt(rows.wrap, rows.salt, Absent)
      BY <1>1, <1>2, <1>6, PcMove, RowMove, KeyAssumption, Zenon
      DEF Steps, Proceed, Maybe
    <2>2. KeyTypeOK'
      BY <1>1, <1>2, <1>3, <1>6, <2>1
      DEF KeyInv, KeyTypeOK, Maybe, Moves, ProcAt, RowsAt
    <2>3. ProcInv' /\ EraseProgress' /\ RotationProgress'
      BY <1>1, <1>2, <1>3, <1>6, <2>1, KeyAssumption
      DEF KeyInv, ProcInv, EraseProgress, RotationProgress, Callers, FileType,
          Maybe, Moves, ProcAt, RowsAt, NoFile, isInitialized, Derives
    <2>4. ASSUME faults' = 0 PROVE CleanInv'
      <3>1. faults = 0 BY <1>3, <2>4
      <3> QED
        BY <1>1, <1>2, <1>3, <1>6, <2>1, <2>4, <3>1, KeyAssumption, ZenonT(60)
        DEF KeyInv, KeyTypeOK, CleanInv, RowsAgree, StepsAgree, PromiseKept,
            ProcInv, EraseProgress, RotationProgress, FileType, Maybe, Moves,
            ProcAt, RowsAt, NoFile, isInitialized, Derives
    <2> QED BY <2>2, <2>3, <2>4 DEF KeyInv
  <1>7. CASE Doing("clear") /\ Proceed("stamp") /\ rows' = rows /\ faults' = faults + 1
    <2>1. /\ Moves("stamp")
      BY <1>1, <1>2, <1>7, PcMove
      DEF Steps, Proceed
    <2>2. KeyTypeOK'
      BY <1>1, <1>2, <1>3, <1>7, <2>1
      DEF KeyInv, KeyTypeOK, Maybe, Moves, ProcAt, RowsAt
    <2>3. ProcInv' /\ EraseProgress' /\ RotationProgress'
      BY <1>1, <1>2, <1>3, <1>7, <2>1, KeyAssumption, ZenonT(60)
      DEF KeyInv, ProcInv, EraseProgress, RotationProgress, Callers, FileType,
          Maybe, Moves, ProcAt, RowsAt, NoFile, isInitialized, Derives
    <2>4. ASSUME faults' = 0 PROVE CleanInv'
      <3>1. faults = 0 BY <1>3, <2>4
      <3> QED
        BY <1>1, <1>2, <1>3, <1>7, <2>1, <2>4, <3>1, KeyAssumption
        DEF KeyInv, KeyTypeOK, CleanInv, RowsAgree, StepsAgree, PromiseKept,
            ProcInv, EraseProgress, RotationProgress, FileType, Maybe, Moves,
            ProcAt, RowsAt, NoFile, isInitialized, Derives
    <2> QED BY <2>2, <2>3, <2>4 DEF KeyInv
  <1> QED
    BY <1>1, <1>2, <1>3, <1>4, <1>5, <1>6, <1>7
    DEF ClearStaged, Works, Fails, KeyInv, ProcInv, Callers, AfterSlots, NoFile

\* A file of a newer schema is dropped, and its key with it.
LEMMA MigrateKeeps ==
  ASSUME KeyInv, Migrate PROVE KeyInv'
  <1>1. proc \in ProcType /\ rows \in RowsType /\ file \in Maybe(FileType)
    BY DEF KeyInv, KeyTypeOK
  <1>2. /\ proc.pc = "migrate" /\ rows' = rows /\ enclave' = enclave
        /\ passcode' = passcode /\ incomplete' = incomplete
        /\ promise' = promise /\ faults' = faults
    BY DEF Migrate
  <1>3. CASE /\ file.ahead /\ file' = Absent
             /\ proc' = [proc EXCEPT !.pc = "eraseWrap", !.call = "downgrade", !.ok = TRUE]
    <2>1. /\ ProcAt("eraseWrap", proc.task, "downgrade", TRUE, proc.complete, proc.new, proc.open)
      BY <1>1, <1>2, <1>3, CallMove, Zenon
      DEF Steps, Callers
    <2>2. KeyTypeOK'
      BY <1>1, <1>2, <1>3, <2>1
      DEF KeyInv, KeyTypeOK, Maybe, Moves, ProcAt, FileAt
    <2>3. ProcInv' /\ EraseProgress' /\ RotationProgress'
      BY <1>1, <1>2, <1>3, <2>1, KeyAssumption
      DEF KeyInv, ProcInv, EraseProgress, RotationProgress, Callers, FileType,
          Maybe, Moves, ProcAt, FileAt, NoFile, isInitialized, Derives
    <2>4. ASSUME faults' = 0 PROVE CleanInv'
      <3>1. faults = 0 BY <1>2, <2>4
      <3> QED
        BY <1>1, <1>2, <1>3, <2>1, <2>4, <3>1, KeyAssumption
        DEF KeyInv, KeyTypeOK, CleanInv, RowsAgree, StepsAgree, PromiseKept,
            ProcInv, EraseProgress, RotationProgress, FileType, Maybe, Moves,
            ProcAt, FileAt, NoFile, isInitialized, Derives
    <2> QED BY <2>2, <2>3, <2>4 DEF KeyInv
  <1>4. CASE ~file.ahead /\ Proceed("due") /\ file' = file
    <2>1. /\ Moves("due")
      BY <1>1, <1>2, <1>4, PcMove
      DEF Steps, Proceed
    <2>2. KeyTypeOK'
      BY <1>1, <1>2, <1>4, <2>1
      DEF KeyInv, KeyTypeOK, Maybe, Moves, ProcAt, FileAt
    <2>3. ProcInv' /\ EraseProgress' /\ RotationProgress'
      BY <1>1, <1>2, <1>4, <2>1, KeyAssumption, Zenon
      DEF KeyInv, ProcInv, EraseProgress, RotationProgress, Callers, FileType,
          Maybe, Moves, ProcAt, FileAt, NoFile, isInitialized, Derives
    <2>4. ASSUME faults' = 0 PROVE CleanInv'
      <3>1. faults = 0 BY <1>2, <2>4
      <3> QED
        BY <1>1, <1>2, <1>4, <2>1, <2>4, <3>1, KeyAssumption
        DEF KeyInv, KeyTypeOK, CleanInv, RowsAgree, StepsAgree, PromiseKept,
            ProcInv, EraseProgress, RotationProgress, FileType, Maybe, Moves,
            ProcAt, FileAt, NoFile, isInitialized, Derives
    <2> QED BY <2>2, <2>3, <2>4 DEF KeyInv
  <1> QED
    BY <1>1, <1>2, <1>3, <1>4
    DEF Migrate, Works, Fails, KeyInv, ProcInv, Callers, AfterSlots, NoFile

\* rotateKeyMaterial stages a new salt.
LEMMA StageSaltKeeps ==
  ASSUME KeyInv, StageSalt PROVE KeyInv'
  <1>1. proc \in ProcType /\ rows \in RowsType /\ file \in Maybe(FileType)
    BY DEF KeyInv, KeyTypeOK
  <1>2. /\ proc.pc = "due" /\ enclave' = enclave /\ file' = file
        /\ passcode' = passcode /\ incomplete' = incomplete
        /\ promise' = promise /\ (Works \/ Fails)
    BY DEF StageSalt, Works
  <1>3. faults' \in 0 .. MaxFaults /\ (faults' = 0 => faults = 0)
    BY <1>2, FaultsGrow
  <1>4. CASE Proceed("booted") /\ UNCHANGED <<rows, faults>>
    <2>1. /\ Moves("booted")
      BY <1>1, <1>2, <1>4, PcMove
      DEF Steps, Proceed
    <2>2. KeyTypeOK'
      BY <1>1, <1>2, <1>3, <1>4, <2>1
      DEF KeyInv, KeyTypeOK, Maybe, Moves, ProcAt, RowsAt
    <2>3. ProcInv' /\ EraseProgress' /\ RotationProgress'
      BY <1>1, <1>2, <1>3, <1>4, <2>1, KeyAssumption, Zenon
      DEF KeyInv, ProcInv, EraseProgress, RotationProgress, Callers, FileType,
          Maybe, Moves, ProcAt, RowsAt, NoFile, isInitialized, Derives
    <2>4. ASSUME faults' = 0 PROVE CleanInv'
      <3>1. faults = 0 BY <1>3, <2>4
      <3> QED
        BY <1>1, <1>2, <1>3, <1>4, <2>1, <2>4, <3>1, KeyAssumption
        DEF KeyInv, KeyTypeOK, CleanInv, RowsAgree, StepsAgree, PromiseKept,
            ProcInv, EraseProgress, RotationProgress, FileType, Maybe, Moves,
            ProcAt, RowsAt, NoFile, isInitialized, Derives
    <2> QED BY <2>2, <2>3, <2>4 DEF KeyInv
  <1>5. CASE /\ proc' = [proc EXCEPT !.pc = "rekey", !.new = Fresh(SaltsInUse)]
             /\ rows' = [rows EXCEPT !.staged = Fresh(SaltsInUse)] /\ faults' = faults
    <2>1. /\ ProcAt("rekey", proc.task, proc.call, proc.ok, proc.complete,
             Fresh(SaltsInUse), proc.open)
          /\ RowsAt(rows.wrap, rows.salt, Fresh(SaltsInUse))
          /\ Fresh(SaltsInUse) \in Ids
      BY <1>1, <1>2, <1>5, NewMove, RowMove, FreshDraw, KeyAssumption, Zenon
      DEF Maybe, KeyInv
    <2>2. KeyTypeOK'
      BY <1>1, <1>2, <1>3, <1>5, <2>1
      DEF KeyInv, KeyTypeOK, Maybe, Moves, ProcAt, RowsAt
    <2>3. ProcInv' /\ EraseProgress' /\ RotationProgress'
      BY <1>1, <1>2, <1>3, <1>5, <2>1, KeyAssumption
      DEF KeyInv, ProcInv, EraseProgress, RotationProgress, Callers, FileType,
          Maybe, Moves, ProcAt, RowsAt, NoFile, isInitialized, Derives
    <2>4. ASSUME faults' = 0 PROVE CleanInv'
      <3>1. faults = 0 BY <1>3, <2>4
      <3> QED
        BY <1>1, <1>2, <1>3, <1>5, <2>1, <2>4, <3>1, KeyAssumption, ZenonT(60)
        DEF KeyInv, KeyTypeOK, CleanInv, RowsAgree, StepsAgree, PromiseKept,
            ProcInv, EraseProgress, RotationProgress, FileType, Maybe, Moves,
            ProcAt, RowsAt, NoFile, isInitialized, Derives
    <2> QED BY <2>2, <2>3, <2>4 DEF KeyInv
  <1>6. CASE faults' = faults + 1 /\ Proceed("booted") /\ UNCHANGED rows
    <2>1. /\ Moves("booted")
      BY <1>1, <1>2, <1>6, PcMove
      DEF Steps, Proceed
    <2>2. KeyTypeOK'
      BY <1>1, <1>2, <1>3, <1>6, <2>1
      DEF KeyInv, KeyTypeOK, Maybe, Moves, ProcAt, RowsAt
    <2>3. ProcInv' /\ EraseProgress' /\ RotationProgress'
      BY <1>1, <1>2, <1>3, <1>6, <2>1, KeyAssumption
      DEF KeyInv, ProcInv, EraseProgress, RotationProgress, Callers, FileType,
          Maybe, Moves, ProcAt, RowsAt, NoFile, isInitialized, Derives
    <2>4. ASSUME faults' = 0 PROVE CleanInv'
      <3>1. faults = 0 BY <1>3, <2>4
      <3> QED
        BY <1>1, <1>2, <1>3, <1>6, <2>1, <2>4, <3>1, KeyAssumption, ZenonT(60)
        DEF KeyInv, KeyTypeOK, CleanInv, RowsAgree, StepsAgree, PromiseKept,
            ProcInv, EraseProgress, RotationProgress, FileType, Maybe, Moves,
            ProcAt, RowsAt, NoFile, isInitialized, Derives
    <2> QED BY <2>2, <2>3, <2>4 DEF KeyInv
  <1> QED
    BY <1>1, <1>2, <1>3, <1>4, <1>5, <1>6
    DEF StageSalt, Works, Fails, KeyInv, ProcInv, Callers, AfterSlots, NoFile

\* The file is re-keyed under the staged salt.
LEMMA RekeyKeeps ==
  ASSUME KeyInv, Rekey PROVE KeyInv'
  <1>1. proc \in ProcType /\ rows \in RowsType /\ file \in Maybe(FileType)
    BY DEF KeyInv, KeyTypeOK
  <1>2. /\ proc.pc = "rekey" /\ rows' = rows /\ enclave' = enclave
        /\ passcode' = passcode /\ incomplete' = incomplete
        /\ promise' = promise /\ faults' = faults
    BY DEF Rekey
  <1>3. CASE file' = [file EXCEPT !.salt = proc.new] /\ Proceed("vacuum")
    <2>1. /\ Moves("vacuum")
          /\ FileAt(file.seed, proc.new, file.data, file.ahead)
      BY <1>1, <1>2, <1>3, PcMove, FileMove, KeyAssumption, Zenon
      DEF Steps, Proceed, Maybe, ProcType, KeyInv, KeyTypeOK, ProcInv, NoFile,
          RotationProgress
    <2>2. KeyTypeOK'
      BY <1>1, <1>2, <1>3, <2>1
      DEF KeyInv, KeyTypeOK, Maybe, Moves, ProcAt, FileAt
    <2>3. ProcInv' /\ EraseProgress' /\ RotationProgress'
      BY <1>1, <1>2, <1>3, <2>1, KeyAssumption, Zenon
      DEF KeyInv, ProcInv, EraseProgress, RotationProgress, Callers, FileType,
          Maybe, Moves, ProcAt, FileAt, NoFile, isInitialized, Derives
    <2>4. ASSUME faults' = 0 PROVE CleanInv'
      <3>1. faults = 0 BY <1>2, <2>4
      <3> QED
        BY <1>1, <1>2, <1>3, <2>1, <2>4, <3>1, KeyAssumption, ZenonT(60)
        DEF KeyInv, KeyTypeOK, CleanInv, RowsAgree, StepsAgree, PromiseKept,
            ProcInv, EraseProgress, RotationProgress, FileType, Maybe, Moves,
            ProcAt, FileAt, NoFile, isInitialized, Derives
    <2> QED BY <2>2, <2>3, <2>4 DEF KeyInv
  <1>4. CASE UNCHANGED file /\ Proceed("booted")
    <2>1. /\ Moves("booted")
      BY <1>1, <1>2, <1>4, PcMove
      DEF Steps, Proceed
    <2>2. KeyTypeOK'
      BY <1>1, <1>2, <1>4, <2>1, Zenon
      DEF KeyInv, KeyTypeOK, Maybe, Moves, ProcAt, FileAt
    <2>3. ProcInv' /\ EraseProgress' /\ RotationProgress'
      BY <1>1, <1>2, <1>4, <2>1, KeyAssumption
      DEF KeyInv, ProcInv, EraseProgress, RotationProgress, Callers, FileType,
          Maybe, Moves, ProcAt, FileAt, NoFile, isInitialized, Derives
    <2>4. ASSUME faults' = 0 PROVE CleanInv'
      <3>1. faults = 0 BY <1>2, <2>4
      <3> QED
        BY <1>1, <1>2, <1>4, <2>1, <2>4, <3>1, KeyAssumption, ZenonT(60)
        DEF KeyInv, KeyTypeOK, CleanInv, RowsAgree, StepsAgree, PromiseKept,
            ProcInv, EraseProgress, RotationProgress, FileType, Maybe, Moves,
            ProcAt, FileAt, NoFile, isInitialized, Derives
    <2> QED BY <2>2, <2>3, <2>4 DEF KeyInv
  <1> QED
    BY <1>1, <1>2, <1>3, <1>4
    DEF Rekey, Works, Fails, KeyInv, ProcInv, Callers, AfterSlots, NoFile

\* VACUUM works or throws.
LEMMA VacuumKeeps ==
  ASSUME KeyInv, Vacuum PROVE KeyInv'
  <1>1. proc \in ProcType /\ rows \in RowsType /\ file \in Maybe(FileType)
    BY DEF KeyInv, KeyTypeOK
  <1>2. /\ proc.pc = "vacuum" /\ rows' = rows /\ enclave' = enclave
        /\ file' = file /\ passcode' = passcode /\ incomplete' = incomplete
        /\ promise' = promise /\ faults' = faults
    BY DEF Vacuum
  <1>3. CASE Proceed("live")
    <2>1. /\ Moves("live")
      BY <1>1, <1>2, <1>3, PcMove
      DEF Steps, Proceed
    <2>2. KeyTypeOK'
      BY <1>1, <1>2, <1>3, <2>1
      DEF KeyInv, KeyTypeOK, Maybe, Moves, ProcAt
    <2>3. ProcInv' /\ EraseProgress' /\ RotationProgress'
      BY <1>1, <1>2, <1>3, <2>1, KeyAssumption, Zenon
      DEF KeyInv, ProcInv, EraseProgress, RotationProgress, Callers, FileType,
          Maybe, Moves, ProcAt, NoFile, isInitialized, Derives
    <2>4. ASSUME faults' = 0 PROVE CleanInv'
      <3>1. faults = 0 BY <1>2, <2>4
      <3> QED
        BY <1>1, <1>2, <1>3, <2>1, <2>4, <3>1, KeyAssumption
        DEF KeyInv, KeyTypeOK, CleanInv, RowsAgree, StepsAgree, PromiseKept,
            ProcInv, EraseProgress, RotationProgress, FileType, Maybe, Moves,
            ProcAt, NoFile, isInitialized, Derives
    <2> QED BY <2>2, <2>3, <2>4 DEF KeyInv
  <1>4. CASE Proceed("booted")
    <2>1. /\ Moves("booted")
      BY <1>1, <1>2, <1>4, PcMove
      DEF Steps, Proceed
    <2>2. KeyTypeOK'
      BY <1>1, <1>2, <1>4, <2>1
      DEF KeyInv, KeyTypeOK, Maybe, Moves, ProcAt
    <2>3. ProcInv' /\ EraseProgress' /\ RotationProgress'
      BY <1>1, <1>2, <1>4, <2>1, KeyAssumption, ZenonT(60)
      DEF KeyInv, ProcInv, EraseProgress, RotationProgress, Callers, FileType,
          Maybe, Moves, ProcAt, NoFile, isInitialized, Derives
    <2>4. ASSUME faults' = 0 PROVE CleanInv'
      <3>1. faults = 0 BY <1>2, <2>4
      <3> QED
        BY <1>1, <1>2, <1>4, <2>1, <2>4, <3>1, KeyAssumption
        DEF KeyInv, KeyTypeOK, CleanInv, RowsAgree, StepsAgree, PromiseKept,
            ProcInv, EraseProgress, RotationProgress, FileType, Maybe, Moves,
            ProcAt, NoFile, isInitialized, Derives
    <2> QED BY <2>2, <2>3, <2>4 DEF KeyInv
  <1> QED
    BY <1>1, <1>2, <1>3, <1>4
    DEF Vacuum, Works, Fails, KeyInv, ProcInv, Callers, AfterSlots, NoFile

\* The new salt becomes the live one.
LEMMA PromoteNewKeeps ==
  ASSUME KeyInv, PromoteNew PROVE KeyInv'
  <1>1. proc \in ProcType /\ rows \in RowsType /\ file \in Maybe(FileType)
    BY DEF KeyInv, KeyTypeOK
  <1>2. /\ proc.pc = "live" /\ enclave' = enclave /\ file' = file
        /\ passcode' = passcode /\ incomplete' = incomplete
        /\ promise' = promise /\ (Works \/ Fails)
    BY DEF PromoteNew, Works
  <1>3. faults' \in 0 .. MaxFaults /\ (faults' = 0 => faults = 0)
    BY <1>2, FaultsGrow
  <1>4. CASE rows' = [rows EXCEPT !.salt = proc.new] /\ Proceed("clear") /\ faults' = faults
    <2>1. /\ Moves("clear")
          /\ RowsAt(rows.wrap, proc.new, rows.staged)
      BY <1>1, <1>2, <1>4, PcMove, RowMove
      DEF Steps, Proceed, ProcType
    <2>2. KeyTypeOK'
      BY <1>1, <1>2, <1>3, <1>4, <2>1
      DEF KeyInv, KeyTypeOK, Maybe, Moves, ProcAt, RowsAt
    <2>3. ProcInv' /\ EraseProgress' /\ RotationProgress'
      BY <1>1, <1>2, <1>3, <1>4, <2>1, KeyAssumption
      DEF KeyInv, ProcInv, EraseProgress, RotationProgress, Callers, FileType,
          Maybe, Moves, ProcAt, RowsAt, NoFile, isInitialized, Derives
    <2>4. ASSUME faults' = 0 PROVE CleanInv'
      <3>1. faults = 0 BY <1>3, <2>4
      <3>2. RowsAgree'
        BY <1>1, <1>2, <1>3, <1>4, <2>1, <2>4, <3>1, KeyAssumption, ZenonT(60)
        DEF KeyInv, KeyTypeOK, CleanInv, RowsAgree, StepsAgree, PromiseKept,
            ProcInv, EraseProgress, RotationProgress, FileType, Maybe, Moves,
            ProcAt, RowsAt, NoFile, isInitialized, Derives
      <3>3. StepsAgree'
        BY <1>1, <1>2, <1>3, <1>4, <2>1, <2>4, <3>1, KeyAssumption
        DEF KeyInv, KeyTypeOK, CleanInv, RowsAgree, StepsAgree, PromiseKept,
            ProcInv, EraseProgress, RotationProgress, FileType, Maybe, Moves,
            ProcAt, RowsAt, NoFile, isInitialized, Derives
      <3>4. PromiseKept'
        BY <1>1, <1>2, <1>3, <1>4, <2>1, <2>4, <3>1, KeyAssumption
        DEF KeyInv, KeyTypeOK, CleanInv, RowsAgree, StepsAgree, PromiseKept,
            ProcInv, EraseProgress, RotationProgress, FileType, Maybe, Moves,
            ProcAt, RowsAt, NoFile, isInitialized, Derives
      <3> QED
        BY <1>1, <1>2, <1>3, <1>4, <2>1, <2>4, <3>1, KeyAssumption, <3>2, <3>3,
           <3>4
        DEF KeyInv, KeyTypeOK, CleanInv, StepsAgree, ProcInv, EraseProgress,
            RotationProgress, FileType, Maybe, Moves, ProcAt, RowsAt, NoFile,
            isInitialized, Derives
    <2> QED BY <2>2, <2>3, <2>4 DEF KeyInv
  <1>5. CASE faults' = faults + 1 /\ Proceed("booted") /\ UNCHANGED rows
    <2>1. /\ Moves("booted")
      BY <1>1, <1>2, <1>5, PcMove
      DEF Steps, Proceed
    <2>2. KeyTypeOK'
      BY <1>1, <1>2, <1>3, <1>5, <2>1
      DEF KeyInv, KeyTypeOK, Maybe, Moves, ProcAt, RowsAt
    <2>3. ProcInv' /\ EraseProgress' /\ RotationProgress'
      BY <1>1, <1>2, <1>3, <1>5, <2>1, KeyAssumption, Zenon
      DEF KeyInv, ProcInv, EraseProgress, RotationProgress, Callers, FileType,
          Maybe, Moves, ProcAt, RowsAt, NoFile, isInitialized, Derives
    <2>4. ASSUME faults' = 0 PROVE CleanInv'
      <3>1. faults = 0 BY <1>3, <2>4
      <3> QED
        BY <1>1, <1>2, <1>3, <1>5, <2>1, <2>4, <3>1, KeyAssumption, ZenonT(60)
        DEF KeyInv, KeyTypeOK, CleanInv, RowsAgree, StepsAgree, PromiseKept,
            ProcInv, EraseProgress, RotationProgress, FileType, Maybe, Moves,
            ProcAt, RowsAt, NoFile, isInitialized, Derives
    <2> QED BY <2>2, <2>3, <2>4 DEF KeyInv
  <1> QED
    BY <1>1, <1>2, <1>3, <1>4, <1>5
    DEF PromoteNew, Works, Fails, KeyInv, ProcInv, Callers, AfterSlots, NoFile

\* The rotation stamp is written.
LEMMA StampKeeps ==
  ASSUME KeyInv, Stamp PROVE KeyInv'
  <1>1. proc \in ProcType /\ rows \in RowsType /\ file \in Maybe(FileType)
    BY DEF KeyInv, KeyTypeOK
  <1>2. /\ proc.pc = "stamp" /\ enclave' = enclave /\ file' = file
        /\ passcode' = passcode /\ incomplete' = incomplete
        /\ promise' = promise /\ (Works \/ Fails)
    BY DEF Stamp, Works
  <1>3. faults' \in 0 .. MaxFaults /\ (faults' = 0 => faults = 0)
    BY <1>2, FaultsGrow
  <1>4. CASE rows' = [rows EXCEPT !.recent = TRUE] /\ Proceed("booted") /\ faults' = faults
    <2>1. /\ Moves("booted")
          /\ RowsAt(rows.wrap, rows.salt, rows.staged)
      BY <1>1, <1>2, <1>4, PcMove, RowMove, Zenon
      DEF Steps, Proceed
    <2>2. KeyTypeOK'
      BY <1>1, <1>2, <1>3, <1>4, <2>1
      DEF KeyInv, KeyTypeOK, Maybe, Moves, ProcAt, RowsAt
    <2>3. ProcInv' /\ EraseProgress' /\ RotationProgress'
      BY <1>1, <1>2, <1>3, <1>4, <2>1, KeyAssumption
      DEF KeyInv, ProcInv, EraseProgress, RotationProgress, Callers, FileType,
          Maybe, Moves, ProcAt, RowsAt, NoFile, isInitialized, Derives
    <2>4. ASSUME faults' = 0 PROVE CleanInv'
      <3>1. faults = 0 BY <1>3, <2>4
      <3> QED
        BY <1>1, <1>2, <1>3, <1>4, <2>1, <2>4, <3>1, KeyAssumption
        DEF KeyInv, KeyTypeOK, CleanInv, RowsAgree, StepsAgree, PromiseKept,
            ProcInv, EraseProgress, RotationProgress, FileType, Maybe, Moves,
            ProcAt, RowsAt, NoFile, isInitialized, Derives
    <2> QED BY <2>2, <2>3, <2>4 DEF KeyInv
  <1>5. CASE faults' = faults + 1 /\ Proceed("booted") /\ UNCHANGED rows
    <2>1. /\ Moves("booted")
      BY <1>1, <1>2, <1>5, PcMove
      DEF Steps, Proceed
    <2>2. KeyTypeOK'
      BY <1>1, <1>2, <1>3, <1>5, <2>1, Zenon
      DEF KeyInv, KeyTypeOK, Maybe, Moves, ProcAt, RowsAt
    <2>3. ProcInv' /\ EraseProgress' /\ RotationProgress'
      BY <1>1, <1>2, <1>3, <1>5, <2>1, KeyAssumption
      DEF KeyInv, ProcInv, EraseProgress, RotationProgress, Callers, FileType,
          Maybe, Moves, ProcAt, RowsAt, NoFile, isInitialized, Derives
    <2>4. ASSUME faults' = 0 PROVE CleanInv'
      <3>1. faults = 0 BY <1>3, <2>4
      <3> QED
        BY <1>1, <1>2, <1>3, <1>5, <2>1, <2>4, <3>1, KeyAssumption, ZenonT(60)
        DEF KeyInv, KeyTypeOK, CleanInv, RowsAgree, StepsAgree, PromiseKept,
            ProcInv, EraseProgress, RotationProgress, FileType, Maybe, Moves,
            ProcAt, RowsAt, NoFile, isInitialized, Derives
    <2> QED BY <2>2, <2>3, <2>4 DEF KeyInv
  <1> QED
    BY <1>1, <1>2, <1>3, <1>4, <1>5
    DEF Stamp, Works, Fails, KeyInv, ProcInv, Callers, AfterSlots, NoFile

\* A row is deleted, or its delete fails.
LEMMA EraseRowKeeps ==
  ASSUME KeyInv, EraseRow PROVE KeyInv'
  <1>1. proc \in ProcType /\ rows \in RowsType /\ file \in Maybe(FileType)
    BY DEF KeyInv, KeyTypeOK
  <1>2. /\ proc.pc \in {"eraseWrap", "eraseSalt", "eraseStamp", "eraseStaged"}
        /\ enclave' = enclave /\ file' = file /\ passcode' = passcode
        /\ incomplete' = incomplete /\ (Works \/ Fails)
    BY Zenon DEF EraseRow, Works
  <1>3. faults' \in 0 .. MaxFaults /\ (faults' = 0 => faults = 0)
    BY <1>2, FaultsGrow
  <1>4. CASE /\ Doing("eraseWrap") /\ rows' = [rows EXCEPT !.wrap = Absent] /\ faults' = faults
             /\ Deleted(TRUE) /\ promise' = IF proc.call = "wipe" THEN "wiped" ELSE promise
    <2>1. /\ ProcAt("noiseSalt", proc.task, proc.call, proc.ok, proc.complete, proc.new, proc.open)
          /\ RowsAt(Absent, rows.salt, rows.staged)
      <3>1. EraseOrder[proc.pc] = "noiseSalt" /\ "noiseSalt" \in Steps
        BY <1>2, <1>4 DEF EraseOrder, Steps
      <3>2. ProcAt("noiseSalt", proc.task, proc.call, proc.ok, proc.complete, proc.new, proc.open)
        BY <1>1, <1>2, <1>4, <3>1, DeleteMove
      <3> QED
        BY <1>1, <1>4, <3>2, RowMove, KeyAssumption, Zenon
        DEF Maybe, KeyInv, RowsAt
    <2>2. KeyTypeOK'
      BY <1>1, <1>2, <1>3, <1>4, <2>1
      DEF KeyInv, KeyTypeOK, Maybe, Moves, ProcAt, RowsAt
    <2>3. ProcInv' /\ EraseProgress' /\ RotationProgress'
      BY <1>1, <1>2, <1>3, <1>4, <2>1, KeyAssumption
      DEF KeyInv, ProcInv, EraseProgress, RotationProgress, Callers, FileType,
          Maybe, Moves, ProcAt, RowsAt, NoFile, isInitialized, Derives
    <2>4. ASSUME faults' = 0 PROVE CleanInv'
      <3>1. faults = 0 BY <1>3, <2>4
      <3> QED
        BY <1>1, <1>2, <1>3, <1>4, <2>1, <2>4, <3>1, KeyAssumption
        DEF KeyInv, KeyTypeOK, CleanInv, RowsAgree, StepsAgree, PromiseKept,
            ProcInv, EraseProgress, RotationProgress, FileType, Maybe, Moves,
            ProcAt, RowsAt, NoFile, isInitialized, Derives
    <2> QED BY <2>2, <2>3, <2>4 DEF KeyInv
  <1>5. CASE /\ Doing("eraseWrap") /\ rows' = rows /\ faults' = faults + 1
             /\ promise' = promise /\ Deleted(FALSE)
    <2>1. /\ ProcAt("noiseSalt", proc.task, proc.call, FALSE, proc.complete, proc.new, proc.open)
          /\ RowsAt(rows.wrap, rows.salt, rows.staged)
      <3>1. EraseOrder[proc.pc] = "noiseSalt" /\ "noiseSalt" \in Steps
        BY <1>2, <1>5 DEF EraseOrder, Steps
      <3>2. ProcAt("noiseSalt", proc.task, proc.call, FALSE, proc.complete, proc.new, proc.open)
        BY <1>1, <1>2, <1>5, <3>1, DeleteFails, Zenon
      <3> QED
        BY <1>1, <1>5, <3>2, KeyAssumption, Zenon
        DEF Maybe, KeyInv, RowsAt
    <2>2. KeyTypeOK'
      BY <1>1, <1>2, <1>3, <1>5, <2>1
      DEF KeyInv, KeyTypeOK, Maybe, Moves, ProcAt, RowsAt
    <2>3. ProcInv' /\ EraseProgress' /\ RotationProgress'
      BY <1>1, <1>2, <1>3, <1>5, <2>1, KeyAssumption, ZenonT(60)
      DEF KeyInv, ProcInv, EraseProgress, RotationProgress, Callers, FileType,
          Maybe, Moves, ProcAt, RowsAt, NoFile, isInitialized, Derives
    <2>4. ASSUME faults' = 0 PROVE CleanInv'
      <3>1. faults = 0 BY <1>3, <2>4
      <3> QED
        BY ONLY <1>1, <1>2, <1>3, <1>5, <2>1, <2>4, <3>1, KeyAssumption
        DEF KeyInv, KeyTypeOK, CleanInv, RowsAgree, StepsAgree, PromiseKept,
            ProcInv, EraseProgress, RotationProgress, FileType, Maybe, Moves,
            ProcAt, RowsAt, NoFile, isInitialized, Derives
    <2> QED BY <2>2, <2>3, <2>4 DEF KeyInv
  <1>6. CASE /\ Doing("eraseSalt") /\ rows' = [rows EXCEPT !.salt = Absent] /\ faults' = faults
             /\ Deleted(TRUE) /\ promise' = promise
    <2>1. /\ ProcAt("eraseStamp", proc.task, proc.call, proc.ok, proc.complete, proc.new, proc.open)
          /\ RowsAt(rows.wrap, Absent, rows.staged)
      <3>1. EraseOrder[proc.pc] = "eraseStamp" /\ "eraseStamp" \in Steps
        BY <1>2, <1>6 DEF EraseOrder, Steps
      <3>2. ProcAt("eraseStamp", proc.task, proc.call, proc.ok, proc.complete, proc.new, proc.open)
        BY <1>1, <1>2, <1>6, <3>1, DeleteMove
      <3> QED
        BY <1>1, <1>6, <3>2, RowMove, KeyAssumption, Zenon
        DEF Maybe, KeyInv, RowsAt
    <2>2. KeyTypeOK'
      BY <1>1, <1>2, <1>3, <1>6, <2>1
      DEF KeyInv, KeyTypeOK, Maybe, Moves, ProcAt, RowsAt
    <2>3. ProcInv' /\ EraseProgress' /\ RotationProgress'
      BY <1>1, <1>2, <1>3, <1>6, <2>1, KeyAssumption
      DEF KeyInv, ProcInv, EraseProgress, RotationProgress, Callers, FileType,
          Maybe, Moves, ProcAt, RowsAt, NoFile, isInitialized, Derives
    <2>4. ASSUME faults' = 0 PROVE CleanInv'
      <3>1. faults = 0 BY <1>3, <2>4
      <3> QED
        BY <1>1, <1>2, <1>3, <1>6, <2>1, <2>4, <3>1, KeyAssumption, ZenonT(60)
        DEF KeyInv, KeyTypeOK, CleanInv, RowsAgree, StepsAgree, PromiseKept,
            ProcInv, EraseProgress, RotationProgress, FileType, Maybe, Moves,
            ProcAt, RowsAt, NoFile, isInitialized, Derives
    <2> QED BY <2>2, <2>3, <2>4 DEF KeyInv
  <1>7. CASE /\ Doing("eraseSalt") /\ rows' = rows /\ faults' = faults + 1
             /\ promise' = promise /\ Deleted(FALSE)
    <2>1. /\ ProcAt("eraseStamp", proc.task, proc.call, FALSE, proc.complete, proc.new, proc.open)
          /\ RowsAt(rows.wrap, rows.salt, rows.staged)
      <3>1. EraseOrder[proc.pc] = "eraseStamp" /\ "eraseStamp" \in Steps
        BY <1>2, <1>7 DEF EraseOrder, Steps
      <3>2. ProcAt("eraseStamp", proc.task, proc.call, FALSE, proc.complete, proc.new, proc.open)
        BY <1>1, <1>2, <1>7, <3>1, DeleteFails, Zenon
      <3> QED
        BY <1>1, <1>7, <3>2, KeyAssumption, Zenon
        DEF Maybe, KeyInv, RowsAt
    <2>2. KeyTypeOK'
      BY <1>1, <1>2, <1>3, <1>7, <2>1
      DEF KeyInv, KeyTypeOK, Maybe, Moves, ProcAt, RowsAt
    <2>3. ProcInv' /\ EraseProgress' /\ RotationProgress'
      BY <1>1, <1>2, <1>3, <1>7, <2>1, KeyAssumption, ZenonT(60)
      DEF KeyInv, ProcInv, EraseProgress, RotationProgress, Callers, FileType,
          Maybe, Moves, ProcAt, RowsAt, NoFile, isInitialized, Derives
    <2>4. ASSUME faults' = 0 PROVE CleanInv'
      <3>1. faults = 0 BY <1>3, <2>4
      <3> QED
        BY ONLY <1>1, <1>2, <1>3, <1>7, <2>1, <2>4, <3>1, KeyAssumption
        DEF KeyInv, KeyTypeOK, CleanInv, RowsAgree, StepsAgree, PromiseKept,
            ProcInv, EraseProgress, RotationProgress, FileType, Maybe, Moves,
            ProcAt, RowsAt, NoFile, isInitialized, Derives
    <2> QED BY <2>2, <2>3, <2>4 DEF KeyInv
  <1>8. CASE /\ Doing("eraseStamp") /\ rows' = [rows EXCEPT !.recent = FALSE] /\ faults' = faults
             /\ Deleted(TRUE) /\ promise' = promise
    <2>1. /\ ProcAt("noiseStaged", proc.task, proc.call, proc.ok, proc.complete, proc.new, proc.open)
          /\ RowsAt(rows.wrap, rows.salt, rows.staged)
      <3>1. EraseOrder[proc.pc] = "noiseStaged" /\ "noiseStaged" \in Steps
        BY <1>2, <1>8 DEF EraseOrder, Steps
      <3>2. ProcAt("noiseStaged", proc.task, proc.call, proc.ok, proc.complete, proc.new, proc.open)
        BY <1>1, <1>2, <1>8, <3>1, DeleteMove
      <3> QED
        BY <1>1, <1>8, <3>2, RowMove, KeyAssumption, Zenon
        DEF Maybe, KeyInv, RowsAt
    <2>2. KeyTypeOK'
      BY <1>1, <1>2, <1>3, <1>8, <2>1
      DEF KeyInv, KeyTypeOK, Maybe, Moves, ProcAt, RowsAt
    <2>3. ProcInv' /\ EraseProgress' /\ RotationProgress'
      BY <1>1, <1>2, <1>3, <1>8, <2>1, KeyAssumption
      DEF KeyInv, ProcInv, EraseProgress, RotationProgress, Callers, FileType,
          Maybe, Moves, ProcAt, RowsAt, NoFile, isInitialized, Derives
    <2>4. ASSUME faults' = 0 PROVE CleanInv'
      <3>1. faults = 0 BY <1>3, <2>4
      <3> QED
        BY <1>1, <1>2, <1>3, <1>8, <2>1, <2>4, <3>1, KeyAssumption
        DEF KeyInv, KeyTypeOK, CleanInv, RowsAgree, StepsAgree, PromiseKept,
            ProcInv, EraseProgress, RotationProgress, FileType, Maybe, Moves,
            ProcAt, RowsAt, NoFile, isInitialized, Derives
    <2> QED BY <2>2, <2>3, <2>4 DEF KeyInv
  <1>9. CASE /\ Doing("eraseStamp") /\ rows' \in {rows, [rows EXCEPT !.recent = FALSE]} /\ faults' = faults + 1
             /\ promise' = promise /\ Deleted(FALSE)
    <2>1. /\ ProcAt("noiseStaged", proc.task, proc.call, FALSE, proc.complete, proc.new, proc.open)
          /\ RowsAt(rows.wrap, rows.salt, rows.staged)
      <3>1. EraseOrder[proc.pc] = "noiseStaged" /\ "noiseStaged" \in Steps
        BY <1>2, <1>9 DEF EraseOrder, Steps
      <3>2. ProcAt("noiseStaged", proc.task, proc.call, FALSE, proc.complete, proc.new, proc.open)
        BY <1>1, <1>2, <1>9, <3>1, DeleteFails, Zenon
      <3> QED
        BY <1>1, <1>9, <3>2, RowMove, KeyAssumption, Zenon
        DEF Maybe, KeyInv, RowsAt
    <2>2. KeyTypeOK'
      BY <1>1, <1>2, <1>3, <1>9, <2>1
      DEF KeyInv, KeyTypeOK, Maybe, Moves, ProcAt, RowsAt
    <2>3. ProcInv' /\ EraseProgress' /\ RotationProgress'
      BY <1>1, <1>2, <1>3, <1>9, <2>1, KeyAssumption, Zenon
      DEF KeyInv, ProcInv, EraseProgress, RotationProgress, Callers, FileType,
          Maybe, Moves, ProcAt, RowsAt, NoFile, isInitialized, Derives
    <2>4. ASSUME faults' = 0 PROVE CleanInv'
      <3>1. faults = 0 BY <1>3, <2>4
      <3> QED
        BY <1>1, <1>2, <1>3, <1>9, <2>1, <2>4, <3>1, KeyAssumption
        DEF KeyInv, KeyTypeOK, CleanInv, RowsAgree, StepsAgree, PromiseKept,
            ProcInv, EraseProgress, RotationProgress, FileType, Maybe, Moves,
            ProcAt, RowsAt, NoFile, isInitialized, Derives
    <2> QED BY <2>2, <2>3, <2>4 DEF KeyInv
  <1>10. CASE /\ Doing("eraseStaged") /\ rows' = [rows EXCEPT !.staged = Absent] /\ faults' = faults
              /\ Deleted(TRUE) /\ promise' = promise
    <2>1. /\ ProcAt("eraseEnclave", proc.task, proc.call, proc.ok, proc.complete, proc.new, proc.open)
          /\ RowsAt(rows.wrap, rows.salt, Absent)
      <3>1. EraseOrder[proc.pc] = "eraseEnclave" /\ "eraseEnclave" \in Steps
        BY <1>2, <1>10 DEF EraseOrder, Steps
      <3>2. ProcAt("eraseEnclave", proc.task, proc.call, proc.ok, proc.complete, proc.new, proc.open)
        BY <1>1, <1>2, <1>10, <3>1, DeleteMove
      <3> QED
        BY <1>1, <1>10, <3>2, RowMove, KeyAssumption, Zenon
        DEF Maybe, KeyInv, RowsAt
    <2>2. KeyTypeOK'
      BY <1>1, <1>2, <1>3, <1>10, <2>1
      DEF KeyInv, KeyTypeOK, Maybe, Moves, ProcAt, RowsAt
    <2>3. ProcInv' /\ EraseProgress' /\ RotationProgress'
      BY <1>1, <1>2, <1>3, <1>10, <2>1, KeyAssumption
      DEF KeyInv, ProcInv, EraseProgress, RotationProgress, Callers, FileType,
          Maybe, Moves, ProcAt, RowsAt, NoFile, isInitialized, Derives
    <2>4. ASSUME faults' = 0 PROVE CleanInv'
      <3>1. faults = 0 BY <1>3, <2>4
      <3> QED
        BY <1>1, <1>2, <1>3, <1>10, <2>1, <2>4, <3>1, KeyAssumption, ZenonT(60)
        DEF KeyInv, KeyTypeOK, CleanInv, RowsAgree, StepsAgree, PromiseKept,
            ProcInv, EraseProgress, RotationProgress, FileType, Maybe, Moves,
            ProcAt, RowsAt, NoFile, isInitialized, Derives
    <2> QED BY <2>2, <2>3, <2>4 DEF KeyInv
  <1>11. CASE /\ Doing("eraseStaged") /\ rows' = rows /\ faults' = faults + 1
              /\ promise' = promise /\ Deleted(FALSE)
    <2>1. /\ ProcAt("eraseEnclave", proc.task, proc.call, FALSE, proc.complete, proc.new, proc.open)
          /\ RowsAt(rows.wrap, rows.salt, rows.staged)
      <3>1. EraseOrder[proc.pc] = "eraseEnclave" /\ "eraseEnclave" \in Steps
        BY <1>2, <1>11 DEF EraseOrder, Steps
      <3>2. ProcAt("eraseEnclave", proc.task, proc.call, FALSE, proc.complete, proc.new, proc.open)
        BY <1>1, <1>2, <1>11, <3>1, DeleteFails, Zenon
      <3> QED
        BY <1>1, <1>11, <3>2, KeyAssumption, Zenon
        DEF Maybe, KeyInv, RowsAt
    <2>2. KeyTypeOK'
      BY <1>1, <1>2, <1>3, <1>11, <2>1
      DEF KeyInv, KeyTypeOK, Maybe, Moves, ProcAt, RowsAt
    <2>3. ProcInv' /\ EraseProgress' /\ RotationProgress'
      BY <1>1, <1>2, <1>3, <1>11, <2>1, KeyAssumption, ZenonT(60)
      DEF KeyInv, ProcInv, EraseProgress, RotationProgress, Callers, FileType,
          Maybe, Moves, ProcAt, RowsAt, NoFile, isInitialized, Derives
    <2>4. ASSUME faults' = 0 PROVE CleanInv'
      <3>1. faults = 0 BY <1>3, <2>4
      <3> QED
        BY ONLY <1>1, <1>2, <1>3, <1>11, <2>1, <2>4, <3>1, KeyAssumption
        DEF KeyInv, KeyTypeOK, CleanInv, RowsAgree, StepsAgree, PromiseKept,
            ProcInv, EraseProgress, RotationProgress, FileType, Maybe, Moves,
            ProcAt, RowsAt, NoFile, isInitialized, Derives
    <2> QED BY <2>2, <2>3, <2>4 DEF KeyInv
  <1>12. CASE proc.pc = "eraseWrap"
    <2>1. RowOf[proc.pc] = "wrap" BY <1>12 DEF RowOf
    <2> QED BY <2>1, <1>4, <1>5, <1>12, Zenon DEF EraseRow, Works, Fails
  <1>13. CASE proc.pc = "eraseSalt"
    <2>1. RowOf[proc.pc] = "salt" BY ONLY <1>13 DEF RowOf
    <2> QED BY <2>1, <1>6, <1>7, <1>13, Zenon DEF EraseRow, Works, Fails
  <1>14. CASE proc.pc = "eraseStamp"
    <2>1. RowOf[proc.pc] = "recent" BY ONLY <1>14 DEF RowOf
    <2> QED BY <2>1, <1>8, <1>9, <1>14, Zenon DEF EraseRow, Works, Fails
  <1>15. CASE proc.pc = "eraseStaged"
    <2>1. RowOf[proc.pc] = "staged" BY ONLY <1>15 DEF RowOf
    <2> QED BY <2>1, <1>10, <1>11, <1>15, Zenon DEF EraseRow, Works, Fails
  <1> QED BY <1>2, <1>12, <1>13, <1>14, <1>15

\* A salt row is overwritten with noise, is absent, or the write fails.
LEMMA OverwriteKeeps ==
  ASSUME KeyInv, Overwrite PROVE KeyInv'
  <1>1. proc \in ProcType /\ rows \in RowsType /\ file \in Maybe(FileType)
    BY DEF KeyInv, KeyTypeOK
  <1>2. /\ proc.pc \in {"noiseSalt", "noiseStaged"} /\ passcode' = passcode
        /\ enclave' = enclave /\ file' = file /\ incomplete' = incomplete
        /\ promise' = promise /\ Deleted(TRUE) /\ (Works \/ Fails)
    BY Zenon DEF Overwrite, Works
  <1>3. faults' \in 0 .. MaxFaults /\ (faults' = 0 => faults = 0)
    BY <1>2, FaultsGrow
  <1>4. CASE /\ Doing("noiseSalt") /\ rows.salt # Absent /\ faults' = faults
             /\ rows' = [rows EXCEPT !.salt = Fresh(SaltsInUse)]
    <2>1. /\ ProcAt("eraseSalt", proc.task, proc.call, proc.ok, proc.complete, proc.new, proc.open)
          /\ RowsAt(rows.wrap, Fresh(SaltsInUse), rows.staged)
          /\ Fresh(SaltsInUse) \in Ids
      <3>1. EraseOrder[proc.pc] = "eraseSalt" /\ "eraseSalt" \in Steps
        BY <1>2, <1>4 DEF EraseOrder, Steps
      <3>2. ProcAt("eraseSalt", proc.task, proc.call, proc.ok, proc.complete, proc.new, proc.open)
        BY <1>1, <1>2, <1>4, <3>1, DeleteMove
      <3> QED
        BY <1>1, <1>4, <3>2, RowMove, FreshDraw, KeyAssumption, Zenon
        DEF Maybe, KeyInv
    <2>2. KeyTypeOK'
      BY <1>1, <1>2, <1>3, <1>4, <2>1
      DEF KeyInv, KeyTypeOK, Maybe, Moves, ProcAt, RowsAt
    <2>3. ProcInv' /\ EraseProgress' /\ RotationProgress'
      BY <1>1, <1>2, <1>3, <1>4, <2>1, KeyAssumption
      DEF KeyInv, ProcInv, EraseProgress, RotationProgress, Callers, FileType,
          Maybe, Moves, ProcAt, RowsAt, NoFile, isInitialized, Derives
    <2>4. ASSUME faults' = 0 PROVE CleanInv'
      <3>1. faults = 0 BY <1>3, <2>4
      <3> QED
        BY <1>1, <1>2, <1>3, <1>4, <2>1, <2>4, <3>1, KeyAssumption, ZenonT(60)
        DEF KeyInv, KeyTypeOK, CleanInv, RowsAgree, StepsAgree, PromiseKept,
            ProcInv, EraseProgress, RotationProgress, FileType, Maybe, Moves,
            ProcAt, RowsAt, NoFile, isInitialized, Derives
    <2> QED BY <2>2, <2>3, <2>4 DEF KeyInv
  <1>5. CASE Doing("noiseSalt") /\ rows' = rows
    <2>1. /\ ProcAt("eraseSalt", proc.task, proc.call, proc.ok, proc.complete, proc.new, proc.open)
      <3>1. EraseOrder[proc.pc] = "eraseSalt" /\ "eraseSalt" \in Steps
        BY <1>2, <1>5 DEF EraseOrder, Steps
      <3>2. ProcAt("eraseSalt", proc.task, proc.call, proc.ok, proc.complete, proc.new, proc.open)
        BY <1>1, <1>2, <1>5, <3>1, DeleteMove
      <3> QED
        BY <1>1, <1>5, <3>2, KeyAssumption
        DEF Maybe, KeyInv, RowsAt
    <2>2. KeyTypeOK'
      BY <1>1, <1>2, <1>3, <1>5, <2>1, Zenon
      DEF KeyInv, KeyTypeOK, Maybe, Moves, ProcAt, RowsAt
    <2>3. ProcInv' /\ EraseProgress' /\ RotationProgress'
      BY <1>1, <1>2, <1>3, <1>5, <2>1, KeyAssumption
      DEF KeyInv, ProcInv, EraseProgress, RotationProgress, Callers, FileType,
          Maybe, Moves, ProcAt, RowsAt, NoFile, isInitialized, Derives
    <2>4. ASSUME faults' = 0 PROVE CleanInv'
      <3>1. faults = 0 BY <1>3, <2>4
      <3> QED
        BY <1>1, <1>2, <1>3, <1>5, <2>1, <2>4, <3>1, KeyAssumption, ZenonT(60)
        DEF KeyInv, KeyTypeOK, CleanInv, RowsAgree, StepsAgree, PromiseKept,
            ProcInv, EraseProgress, RotationProgress, FileType, Maybe, Moves,
            ProcAt, RowsAt, NoFile, isInitialized, Derives
    <2> QED BY <2>2, <2>3, <2>4 DEF KeyInv
  <1>6. CASE /\ Doing("noiseStaged") /\ rows.staged # Absent /\ faults' = faults
             /\ rows' = [rows EXCEPT !.staged = Fresh(SaltsInUse)]
    <2>1. /\ ProcAt("eraseStaged", proc.task, proc.call, proc.ok, proc.complete, proc.new, proc.open)
          /\ RowsAt(rows.wrap, rows.salt, Fresh(SaltsInUse))
          /\ Fresh(SaltsInUse) \in Ids
      <3>1. EraseOrder[proc.pc] = "eraseStaged" /\ "eraseStaged" \in Steps
        BY <1>2, <1>6 DEF EraseOrder, Steps
      <3>2. ProcAt("eraseStaged", proc.task, proc.call, proc.ok, proc.complete, proc.new, proc.open)
        BY <1>1, <1>2, <1>6, <3>1, DeleteMove
      <3> QED
        BY <1>1, <1>6, <3>2, RowMove, FreshDraw, KeyAssumption, Zenon
        DEF Maybe, KeyInv
    <2>2. KeyTypeOK'
      BY <1>1, <1>2, <1>3, <1>6, <2>1
      DEF KeyInv, KeyTypeOK, Maybe, Moves, ProcAt, RowsAt
    <2>3. ProcInv' /\ EraseProgress' /\ RotationProgress'
      BY <1>1, <1>2, <1>3, <1>6, <2>1, KeyAssumption
      DEF KeyInv, ProcInv, EraseProgress, RotationProgress, Callers, FileType,
          Maybe, Moves, ProcAt, RowsAt, NoFile, isInitialized, Derives
    <2>4. ASSUME faults' = 0 PROVE CleanInv'
      <3>1. faults = 0 BY <1>3, <2>4
      <3> QED
        BY <1>1, <1>2, <1>3, <1>6, <2>1, <2>4, <3>1, KeyAssumption, ZenonT(60)
        DEF KeyInv, KeyTypeOK, CleanInv, RowsAgree, StepsAgree, PromiseKept,
            ProcInv, EraseProgress, RotationProgress, FileType, Maybe, Moves,
            ProcAt, RowsAt, NoFile, isInitialized, Derives
    <2> QED BY <2>2, <2>3, <2>4 DEF KeyInv
  <1>7. CASE Doing("noiseStaged") /\ rows' = rows
    <2>1. /\ ProcAt("eraseStaged", proc.task, proc.call, proc.ok, proc.complete, proc.new, proc.open)
      <3>1. EraseOrder[proc.pc] = "eraseStaged" /\ "eraseStaged" \in Steps
        BY <1>2, <1>7 DEF EraseOrder, Steps
      <3>2. ProcAt("eraseStaged", proc.task, proc.call, proc.ok, proc.complete, proc.new, proc.open)
        BY <1>1, <1>2, <1>7, <3>1, DeleteMove
      <3> QED
        BY <1>1, <1>7, <3>2, KeyAssumption
        DEF Maybe, KeyInv, RowsAt
    <2>2. KeyTypeOK'
      BY <1>1, <1>2, <1>3, <1>7, <2>1, Zenon
      DEF KeyInv, KeyTypeOK, Maybe, Moves, ProcAt, RowsAt
    <2>3. ProcInv' /\ EraseProgress' /\ RotationProgress'
      BY <1>1, <1>2, <1>3, <1>7, <2>1, KeyAssumption
      DEF KeyInv, ProcInv, EraseProgress, RotationProgress, Callers, FileType,
          Maybe, Moves, ProcAt, RowsAt, NoFile, isInitialized, Derives
    <2>4. ASSUME faults' = 0 PROVE CleanInv'
      <3>1. faults = 0 BY <1>3, <2>4
      <3> QED
        BY <1>1, <1>2, <1>3, <1>7, <2>1, <2>4, <3>1, KeyAssumption, ZenonT(60)
        DEF KeyInv, KeyTypeOK, CleanInv, RowsAgree, StepsAgree, PromiseKept,
            ProcInv, EraseProgress, RotationProgress, FileType, Maybe, Moves,
            ProcAt, RowsAt, NoFile, isInitialized, Derives
    <2> QED BY <2>2, <2>3, <2>4 DEF KeyInv
  <1> QED
    BY <1>1, <1>2, <1>3, <1>4, <1>5, <1>6, <1>7
    DEF Overwrite, Works, Fails, KeyInv, ProcInv, Callers, AfterSlots, NoFile,
        RowOf

\* The enclave key is deleted, or its delete fails.
LEMMA EraseEnclaveKeeps ==
  ASSUME KeyInv, EraseEnclave PROVE KeyInv'
  <1>1. proc \in ProcType /\ rows \in RowsType /\ file \in Maybe(FileType)
    BY DEF KeyInv, KeyTypeOK
  <1>2. /\ proc.pc = "eraseEnclave" /\ rows' = rows /\ file' = file
        /\ passcode' = passcode /\ incomplete' = incomplete
        /\ promise' = promise /\ (Works \/ Fails)
    BY Zenon DEF EraseEnclave, Works
  <1>3. faults' \in 0 .. MaxFaults /\ (faults' = 0 => faults = 0)
    BY <1>2, FaultsGrow
  <1>4. CASE enclave' = Absent /\ Deleted(TRUE) /\ faults' = faults
    <2>1. /\ ProcAt("erased", proc.task, proc.call, proc.ok, proc.complete, proc.new, proc.open)
      <3>1. EraseOrder[proc.pc] = "erased" /\ "erased" \in Steps
        BY <1>2, <1>4 DEF EraseOrder, Steps
      <3>2. ProcAt("erased", proc.task, proc.call, proc.ok, proc.complete, proc.new, proc.open)
        BY <1>1, <1>2, <1>4, <3>1, DeleteMove
      <3> QED
        BY <1>1, <1>4, <3>2, KeyAssumption
        DEF Maybe, KeyInv, RowsAt
    <2>2. KeyTypeOK'
      BY <1>1, <1>2, <1>3, <1>4, <2>1, Zenon
      DEF KeyInv, KeyTypeOK, Maybe, Moves, ProcAt
    <2>3. ProcInv' /\ EraseProgress' /\ RotationProgress'
      BY <1>1, <1>2, <1>3, <1>4, <2>1, KeyAssumption, Zenon
      DEF KeyInv, ProcInv, EraseProgress, RotationProgress, Callers, FileType,
          Maybe, Moves, ProcAt, NoFile, isInitialized, Derives
    <2>4. ASSUME faults' = 0 PROVE CleanInv'
      <3>1. faults = 0 BY <1>3, <2>4
      <3> QED
        BY <1>1, <1>2, <1>3, <1>4, <2>1, <2>4, <3>1, KeyAssumption, ZenonT(60)
        DEF KeyInv, KeyTypeOK, CleanInv, RowsAgree, StepsAgree, PromiseKept,
            ProcInv, EraseProgress, RotationProgress, FileType, Maybe, Moves,
            ProcAt, NoFile, isInitialized, Derives
    <2> QED BY <2>2, <2>3, <2>4 DEF KeyInv
  <1>5. CASE enclave' = enclave /\ Deleted(FALSE) /\ faults' = faults + 1
    <2>1. /\ ProcAt("erased", proc.task, proc.call, FALSE, proc.complete, proc.new, proc.open)
      <3>1. EraseOrder[proc.pc] = "erased" /\ "erased" \in Steps
        BY <1>2, <1>5 DEF EraseOrder, Steps
      <3>2. ProcAt("erased", proc.task, proc.call, FALSE, proc.complete, proc.new, proc.open)
        BY <1>1, <1>2, <1>5, <3>1, DeleteFails, Zenon
      <3> QED
        BY <1>1, <1>5, <3>2, KeyAssumption, Zenon
        DEF Maybe, KeyInv, RowsAt
    <2>2. KeyTypeOK'
      BY <1>1, <1>2, <1>3, <1>5, <2>1
      DEF KeyInv, KeyTypeOK, Maybe, Moves, ProcAt
    <2>3. ProcInv' /\ EraseProgress' /\ RotationProgress'
      BY <1>1, <1>2, <1>3, <1>5, <2>1, KeyAssumption, ZenonT(60)
      DEF KeyInv, ProcInv, EraseProgress, RotationProgress, Callers, FileType,
          Maybe, Moves, ProcAt, NoFile, isInitialized, Derives
    <2>4. ASSUME faults' = 0 PROVE CleanInv'
      <3>1. faults = 0 BY <1>3, <2>4
      <3> QED
        BY <1>1, <1>2, <1>3, <1>5, <2>1, <2>4, <3>1, KeyAssumption
        DEF KeyInv, KeyTypeOK, CleanInv, RowsAgree, StepsAgree, PromiseKept,
            ProcInv, EraseProgress, RotationProgress, FileType, Maybe, Moves,
            ProcAt, NoFile, isInitialized, Derives
    <2> QED BY <2>2, <2>3, <2>4 DEF KeyInv
  <1> QED
    BY <1>1, <1>2, <1>3, <1>4, <1>5, Zenon
    DEF EraseEnclave, Works, Fails, KeyInv, ProcInv, Callers, AfterSlots, NoFile

\* The caller of eraseKeyMaterial takes its answer.
LEMMA ErasedKeeps ==
  ASSUME KeyInv, Erased PROVE KeyInv'
  <1>1. proc \in ProcType /\ rows \in RowsType /\ file \in Maybe(FileType)
    BY DEF KeyInv, KeyTypeOK
  <1>2. /\ proc.pc = "erased" /\ rows' = rows /\ enclave' = enclave
        /\ file' = file /\ passcode' = passcode /\ promise' = promise
        /\ faults' = faults
    BY DEF Erased
  <1>3. CASE /\ ~proc.ok /\ incomplete' = incomplete
             /\ proc' = [proc EXCEPT !.pc = "eraseWrap", !.ok = TRUE, !.tries = proc.tries + 1]
    <2>1. ProcAt("eraseWrap", proc.task, proc.call, TRUE, proc.complete, proc.new, proc.open)
      <3>1. proc.tries + 1 \in Nat BY <1>1 DEF ProcType
      <3> QED BY <1>1, <1>3, <3>1, TriesMove, Zenon
    <2>2. KeyTypeOK'
      BY <1>1, <1>2, <1>3, <2>1, Zenon
      DEF KeyInv, KeyTypeOK, Maybe, Moves, ProcAt
    <2>3. ProcInv' /\ EraseProgress' /\ RotationProgress'
      BY <1>1, <1>2, <1>3, <2>1, KeyAssumption, Zenon
      DEF KeyInv, ProcInv, EraseProgress, RotationProgress, Callers, FileType,
          Maybe, Moves, ProcAt, NoFile, isInitialized, Derives
    <2>4. ASSUME faults' = 0 PROVE CleanInv'
      <3>1. faults = 0 BY <1>2, <2>4
      <3> QED
        BY <1>1, <1>2, <1>3, <2>1, <2>4, <3>1, KeyAssumption
        DEF KeyInv, KeyTypeOK, CleanInv, RowsAgree, StepsAgree, PromiseKept,
            ProcInv, EraseProgress, RotationProgress, FileType, Maybe, Moves,
            ProcAt, NoFile, isInitialized, Derives
    <2> QED BY <2>2, <2>3, <2>4 DEF KeyInv
  <1>4. CASE proc.call = "late" /\ ErasedWith("up", proc.complete, proc.ok)
    <2>1. /\ ProcAt("up", proc.task, proc.call, TRUE, proc.complete, proc.new, proc.open)
          /\ incomplete' \in BOOLEAN
      BY <1>1, <1>2, <1>4, ErasedMove, ZenonT(60)
      DEF ErasedWith, ProcType, Steps, KeyInv, KeyTypeOK
    <2>2. KeyTypeOK'
      BY <1>1, <1>2, <1>4, <2>1, Zenon
      DEF KeyInv, KeyTypeOK, Maybe, Moves, ProcAt
    <2>3. ProcInv' /\ EraseProgress' /\ RotationProgress'
      BY <1>1, <1>2, <1>4, <2>1, KeyAssumption, Zenon
      DEF KeyInv, ProcInv, EraseProgress, RotationProgress, Callers, FileType,
          Maybe, Moves, ProcAt, NoFile, isInitialized, Derives
    <2>4. ASSUME faults' = 0 PROVE CleanInv'
      <3>1. faults = 0 BY <1>2, <2>4
      <3> QED
        BY <1>1, <1>2, <1>4, <2>1, <2>4, <3>1, KeyAssumption
        DEF KeyInv, KeyTypeOK, CleanInv, RowsAgree, StepsAgree, PromiseKept,
            ProcInv, EraseProgress, RotationProgress, FileType, Maybe, Moves,
            ProcAt, NoFile, isInitialized, Derives
    <2> QED BY <2>2, <2>3, <2>4 DEF KeyInv
  <1>5. CASE proc.call = "wipe" /\ ErasedWith("real", proc.ok, FALSE)
    <2>1. /\ ProcAt("real", proc.task, proc.call, TRUE, proc.ok, proc.new, proc.open)
          /\ incomplete' = incomplete
      BY <1>1, <1>2, <1>5, ErasedMove, Zenon
      DEF ErasedWith, ProcType, Steps, KeyInv, KeyTypeOK
    <2>2. KeyTypeOK'
      BY <1>1, <1>2, <1>5, <2>1
      DEF KeyInv, KeyTypeOK, Maybe, Moves, ProcAt
    <2>3. ProcInv' /\ EraseProgress' /\ RotationProgress'
      BY <1>1, <1>2, <1>5, <2>1, KeyAssumption, ZenonT(60)
      DEF KeyInv, ProcInv, EraseProgress, RotationProgress, Callers, FileType,
          Maybe, Moves, ProcAt, NoFile, isInitialized, Derives
    <2>4. ASSUME faults' = 0 PROVE CleanInv'
      <3>1. faults = 0 BY <1>2, <2>4
      <3> QED
        BY <1>1, <1>2, <1>5, <2>1, <2>4, <3>1, KeyAssumption
        DEF KeyInv, KeyTypeOK, CleanInv, RowsAgree, StepsAgree, PromiseKept,
            ProcInv, EraseProgress, RotationProgress, FileType, Maybe, Moves,
            ProcAt, NoFile, isInitialized, Derives
    <2> QED BY <2>2, <2>3, <2>4 DEF KeyInv
  <1>6. CASE proc.call \notin {"late", "wipe"} /\ ErasedWith("real", proc.complete, FALSE)
    <2>1. /\ ProcAt("real", proc.task, proc.call, TRUE, proc.complete, proc.new, proc.open)
          /\ incomplete' = incomplete
      BY <1>1, <1>2, <1>6, ErasedMove, ZenonT(60)
      DEF ErasedWith, ProcType, Steps, KeyInv, KeyTypeOK
    <2>2. KeyTypeOK'
      BY <1>1, <1>2, <1>6, <2>1
      DEF KeyInv, KeyTypeOK, Maybe, Moves, ProcAt
    <2>3. ProcInv' /\ EraseProgress' /\ RotationProgress'
      BY <1>1, <1>2, <1>6, <2>1, KeyAssumption, Zenon
      DEF KeyInv, ProcInv, EraseProgress, RotationProgress, Callers, FileType,
          Maybe, Moves, ProcAt, NoFile, isInitialized, Derives
    <2>4. ASSUME faults' = 0 PROVE CleanInv'
      <3>1. faults = 0 BY <1>2, <2>4
      <3> QED
        BY <1>1, <1>2, <1>6, <2>1, <2>4, <3>1, KeyAssumption, ZenonT(60)
        DEF KeyInv, KeyTypeOK, CleanInv, RowsAgree, StepsAgree, PromiseKept,
            ProcInv, EraseProgress, RotationProgress, FileType, Maybe, Moves,
            ProcAt, NoFile, isInitialized, Derives
    <2> QED BY <2>2, <2>3, <2>4 DEF KeyInv
  <1> QED
    BY <1>1, <1>2, <1>3, <1>4, <1>5, <1>6, Zenon
    DEF Erased, Works, Fails, KeyInv, ProcInv, Callers, AfterSlots, NoFile,
        ErasedWith

\* The duress passcode is entered.
LEMMA duressWipeKeeps ==
  ASSUME KeyInv, duressWipe PROVE KeyInv'
  <1>1. proc \in ProcType /\ rows \in RowsType /\ file \in Maybe(FileType)
    BY DEF KeyInv, KeyTypeOK
  <1>2. /\ proc.pc = "up" /\ rows' = rows /\ enclave' = enclave
        /\ file' = file /\ passcode' = passcode /\ incomplete' = incomplete
        /\ promise' = promise /\ faults' = faults
    BY DEF duressWipe
  <1>3. CASE proc' = [Dead EXCEPT !.pc = "eraseWrap", !.task = "wipe", !.call = "wipe",
                                 !.open = proc.open]
    <2>1. /\ ProcAt("eraseWrap", "wipe", "wipe", TRUE, TRUE, Absent, proc.open)
      BY <1>1, <1>2, <1>3, KeyAssumption, Zenon
      DEF Dead, ProcAt, ProcType, Steps, Maybe, Callers
    <2>2. KeyTypeOK'
      BY <1>1, <1>2, <1>3, <2>1
      DEF KeyInv, KeyTypeOK, Maybe, Moves, ProcAt
    <2>3. ProcInv' /\ EraseProgress' /\ RotationProgress'
      BY <1>1, <1>2, <1>3, <2>1, KeyAssumption, Zenon
      DEF KeyInv, ProcInv, EraseProgress, RotationProgress, Callers, FileType,
          Maybe, Moves, ProcAt, NoFile, isInitialized, Derives
    <2>4. ASSUME faults' = 0 PROVE CleanInv'
      <3>1. faults = 0 BY <1>2, <2>4
      <3> QED
        BY <1>1, <1>2, <1>3, <2>1, <2>4, <3>1, KeyAssumption
        DEF KeyInv, KeyTypeOK, CleanInv, RowsAgree, StepsAgree, PromiseKept,
            ProcInv, EraseProgress, RotationProgress, FileType, Maybe, Moves,
            ProcAt, NoFile, isInitialized, Derives
    <2> QED BY <2>2, <2>3, <2>4 DEF KeyInv
  <1> QED
    BY <1>1, <1>2, <1>3
    DEF duressWipe, Works, Fails, KeyInv, ProcInv, Callers, AfterSlots, NoFile

\* The user resets their identity.
LEMMA resetEverythingKeeps ==
  ASSUME KeyInv, resetEverything PROVE KeyInv'
  <1>1. proc \in ProcType /\ rows \in RowsType /\ file \in Maybe(FileType)
    BY DEF KeyInv, KeyTypeOK
  <1>2. /\ proc.pc = "up" /\ rows' = rows /\ enclave' = enclave
        /\ file' = file /\ passcode' = passcode /\ incomplete' = incomplete
        /\ faults' = faults
    BY DEF resetEverything
  <1>3. CASE /\ Onboarded /\ promise' = "reset"
             /\ proc' = [Dead EXCEPT !.pc = "unlink", !.task = "reset", !.open = TRUE]
    <2>1. /\ ProcAt("unlink", "reset", Absent, TRUE, TRUE, Absent, TRUE)
          /\ proc.open
      BY <1>1, <1>2, <1>3, KeyAssumption, Zenon
      DEF Dead, ProcAt, ProcType, Steps, Maybe, Callers, Onboarded
    <2>2. KeyTypeOK'
      BY <1>1, <1>2, <1>3, <2>1
      DEF KeyInv, KeyTypeOK, Maybe, Moves, ProcAt
    <2>3. ProcInv' /\ EraseProgress' /\ RotationProgress'
      BY <1>1, <1>2, <1>3, <2>1, KeyAssumption, Zenon
      DEF KeyInv, ProcInv, EraseProgress, RotationProgress, Callers, FileType,
          Maybe, Moves, ProcAt, NoFile, isInitialized, Derives
    <2>4. ASSUME faults' = 0 PROVE CleanInv'
      <3>1. faults = 0 BY <1>2, <2>4
      <3> QED
        BY <1>1, <1>2, <1>3, <2>1, <2>4, <3>1, KeyAssumption
        DEF KeyInv, KeyTypeOK, CleanInv, RowsAgree, StepsAgree, PromiseKept,
            ProcInv, EraseProgress, RotationProgress, FileType, Maybe, Moves,
            ProcAt, NoFile, isInitialized, Derives
    <2> QED BY <2>2, <2>3, <2>4 DEF KeyInv
  <1> QED
    BY <1>1, <1>2, <1>3
    DEF resetEverything, Works, Fails, KeyInv, ProcInv, Callers, AfterSlots,
        NoFile

\* The file is unlinked.
LEMMA unlinkDatabaseFilesKeeps ==
  ASSUME KeyInv, unlinkDatabaseFiles PROVE KeyInv'
  <1>1. proc \in ProcType /\ rows \in RowsType /\ file \in Maybe(FileType)
    BY DEF KeyInv, KeyTypeOK
  <1>2. /\ proc.pc = "unlink" /\ rows' = rows /\ enclave' = enclave
        /\ passcode' = passcode /\ incomplete' = incomplete
        /\ promise' = promise /\ faults' = faults
    BY DEF unlinkDatabaseFiles
  <1>3. CASE /\ proc.task = "wipe" /\ file' = Absent
             /\ proc' = [proc EXCEPT !.open = FALSE, !.pc = "defaults"]
    <2>1. /\ ProcAt("defaults", proc.task, proc.call, proc.ok, proc.complete, proc.new, FALSE)
      BY <1>1, <1>2, <1>3, Zenon
      DEF ProcAt, ProcType, Steps
    <2>2. KeyTypeOK'
      BY <1>1, <1>2, <1>3, <2>1
      DEF KeyInv, KeyTypeOK, Maybe, Moves, ProcAt, FileAt
    <2>3. ProcInv' /\ EraseProgress' /\ RotationProgress'
      BY <1>1, <1>2, <1>3, <2>1, KeyAssumption
      DEF KeyInv, ProcInv, EraseProgress, RotationProgress, Callers, FileType,
          Maybe, Moves, ProcAt, FileAt, NoFile, isInitialized, Derives
    <2>4. ASSUME faults' = 0 PROVE CleanInv'
      <3>1. faults = 0 BY <1>2, <2>4
      <3> QED
        BY <1>1, <1>2, <1>3, <2>1, <2>4, <3>1, KeyAssumption, ZenonT(60)
        DEF KeyInv, KeyTypeOK, CleanInv, RowsAgree, StepsAgree, PromiseKept,
            ProcInv, EraseProgress, RotationProgress, FileType, Maybe, Moves,
            ProcAt, FileAt, NoFile, isInitialized, Derives
    <2> QED BY <2>2, <2>3, <2>4 DEF KeyInv
  <1>4. CASE /\ proc.task # "wipe" /\ file' = Absent
             /\ proc' = [proc EXCEPT !.open = FALSE, !.pc = "orphan1"]
    <2>1. /\ ProcAt("orphan1", proc.task, proc.call, proc.ok, proc.complete, proc.new, FALSE)
      BY <1>1, <1>2, <1>4, Zenon
      DEF ProcAt, ProcType, Steps
    <2>2. KeyTypeOK'
      BY <1>1, <1>2, <1>4, <2>1
      DEF KeyInv, KeyTypeOK, Maybe, Moves, ProcAt, FileAt
    <2>3. ProcInv' /\ EraseProgress' /\ RotationProgress'
      BY <1>1, <1>2, <1>4, <2>1, KeyAssumption
      DEF KeyInv, ProcInv, EraseProgress, RotationProgress, Callers, FileType,
          Maybe, Moves, ProcAt, FileAt, NoFile, isInitialized, Derives
    <2>4. ASSUME faults' = 0 PROVE CleanInv'
      <3>1. faults = 0 BY <1>2, <2>4
      <3> QED
        BY <1>1, <1>2, <1>4, <2>1, <2>4, <3>1, KeyAssumption, ZenonT(60)
        DEF KeyInv, KeyTypeOK, CleanInv, RowsAgree, StepsAgree, PromiseKept,
            ProcInv, EraseProgress, RotationProgress, FileType, Maybe, Moves,
            ProcAt, FileAt, NoFile, isInitialized, Derives
    <2> QED BY <2>2, <2>3, <2>4 DEF KeyInv
  <1> QED
    BY <1>1, <1>2, <1>3, <1>4, Zenon
    DEF unlinkDatabaseFiles, Works, Fails, KeyInv, ProcInv, Callers, AfterSlots,
        NoFile

\* The wipe clears the defaults.
LEMMA ClearDefaultsKeeps ==
  ASSUME KeyInv, ClearDefaults PROVE KeyInv'
  <1>1. proc \in ProcType /\ rows \in RowsType /\ file \in Maybe(FileType)
    BY DEF KeyInv, KeyTypeOK
  <1>2. /\ proc.pc = "defaults" /\ rows' = rows /\ enclave' = enclave
        /\ file' = file /\ passcode' = passcode /\ promise' = promise
        /\ faults' = faults
    BY DEF ClearDefaults
  <1>3. CASE incomplete' = FALSE /\ Proceed("orphan1")
    <2>1. /\ Moves("orphan1")
      BY <1>1, <1>2, <1>3, PcMove
      DEF Steps, Proceed
    <2>2. KeyTypeOK'
      BY <1>1, <1>2, <1>3, <2>1, Zenon
      DEF KeyInv, KeyTypeOK, Maybe, Moves, ProcAt
    <2>3. ProcInv' /\ EraseProgress' /\ RotationProgress'
      BY <1>1, <1>2, <1>3, <2>1, KeyAssumption, ZenonT(60)
      DEF KeyInv, ProcInv, EraseProgress, RotationProgress, Callers, FileType,
          Maybe, Moves, ProcAt, NoFile, isInitialized, Derives
    <2>4. ASSUME faults' = 0 PROVE CleanInv'
      <3>1. faults = 0 BY <1>2, <2>4
      <3> QED
        BY <1>1, <1>2, <1>3, <2>1, <2>4, <3>1, KeyAssumption
        DEF KeyInv, KeyTypeOK, CleanInv, RowsAgree, StepsAgree, PromiseKept,
            ProcInv, EraseProgress, RotationProgress, FileType, Maybe, Moves,
            ProcAt, NoFile, isInitialized, Derives
    <2> QED BY <2>2, <2>3, <2>4 DEF KeyInv
  <1> QED
    BY <1>1, <1>2, <1>3, Zenon
    DEF ClearDefaults, Works, Fails, KeyInv, ProcInv, Callers, AfterSlots,
        NoFile

\* The store is open, or bootstrap threw.
LEMMA FinishKeeps ==
  ASSUME KeyInv, Finish PROVE KeyInv'
  <1>1. proc \in ProcType /\ rows \in RowsType /\ file \in Maybe(FileType)
    BY DEF KeyInv, KeyTypeOK
  <1>2. /\ proc.pc \in {"booted", "failed"} /\ rows' = rows
        /\ enclave' = enclave /\ passcode' = passcode /\ faults' = faults
        /\ incomplete' = IF proc.task = "wipe" THEN ~proc.complete ELSE incomplete
        /\ incomplete' \in BOOLEAN
    BY Zenon DEF Finish, ProcType, KeyInv, KeyTypeOK
  <1>3. CASE /\ Doing("booted") /\ proc.task = "reset" /\ promise' = "kept"
             /\ file' = [file EXCEPT !.data = "user"] /\ proc' = [Dead EXCEPT !.pc = "up", !.open = TRUE]
    <2>1. /\ ProcAt("up", "off", Absent, TRUE, TRUE, Absent, TRUE)
          /\ FileAt(file.seed, file.salt, "user", file.ahead)
      BY <1>1, <1>2, <1>3, FileMove, KeyAssumption, Zenon
      DEF KeyInv, ProcInv, NoFile, Dead, ProcAt, ProcType, Steps, Maybe
    <2>2. KeyTypeOK'
      BY <1>1, <1>2, <1>3, <2>1
      DEF KeyInv, KeyTypeOK, Maybe, Moves, ProcAt, FileAt
    <2>3. ProcInv' /\ EraseProgress' /\ RotationProgress'
      BY <1>1, <1>2, <1>3, <2>1, KeyAssumption, Zenon
      DEF KeyInv, ProcInv, EraseProgress, RotationProgress, Callers, FileType,
          Maybe, Moves, ProcAt, FileAt, NoFile, isInitialized, Derives
    <2>4. ASSUME faults' = 0 PROVE CleanInv'
      <3>1. faults = 0 BY <1>2, <2>4
      <3> QED
        BY <1>1, <1>2, <1>3, <2>1, <2>4, <3>1, KeyAssumption, ZenonT(60)
        DEF KeyInv, KeyTypeOK, CleanInv, RowsAgree, StepsAgree, PromiseKept,
            ProcInv, EraseProgress, RotationProgress, FileType, Maybe, Moves,
            ProcAt, FileAt, NoFile, isInitialized, Derives
    <2> QED BY <2>2, <2>3, <2>4 DEF KeyInv
  <1>4. CASE /\ Doing("booted") /\ file' = file /\ promise' = promise
             /\ proc' = [Dead EXCEPT !.pc = "up", !.open = TRUE]
    <2>1. /\ ProcAt("up", "off", Absent, TRUE, TRUE, Absent, TRUE)
      BY <1>1, <1>2, <1>4, KeyAssumption, Zenon
      DEF Dead, ProcAt, ProcType, Steps, Maybe
    <2>2. KeyTypeOK'
      BY <1>1, <1>2, <1>4, <2>1
      DEF KeyInv, KeyTypeOK, Maybe, Moves, ProcAt, FileAt
    <2>3. ProcInv' /\ EraseProgress' /\ RotationProgress'
      BY <1>1, <1>2, <1>4, <2>1, KeyAssumption
      DEF KeyInv, ProcInv, EraseProgress, RotationProgress, Callers, FileType,
          Maybe, Moves, ProcAt, FileAt, NoFile, isInitialized, Derives
    <2>4. ASSUME faults' = 0 PROVE CleanInv'
      <3>1. faults = 0 BY <1>2, <2>4
      <3> QED
        BY <1>1, <1>2, <1>4, <2>1, <2>4, <3>1, KeyAssumption, ZenonT(60)
        DEF KeyInv, KeyTypeOK, CleanInv, RowsAgree, StepsAgree, PromiseKept,
            ProcInv, EraseProgress, RotationProgress, FileType, Maybe, Moves,
            ProcAt, FileAt, NoFile, isInitialized, Derives
    <2> QED BY <2>2, <2>3, <2>4 DEF KeyInv
  <1>5. CASE /\ Doing("failed") /\ file' = file /\ promise' = promise
             /\ proc' = [Dead EXCEPT !.pc = "up", !.open = FALSE]
    <2>1. /\ ProcAt("up", "off", Absent, TRUE, TRUE, Absent, FALSE)
      BY <1>1, <1>2, <1>5, KeyAssumption, Zenon
      DEF Dead, ProcAt, ProcType, Steps, Maybe
    <2>2. KeyTypeOK'
      BY <1>1, <1>2, <1>5, <2>1
      DEF KeyInv, KeyTypeOK, Maybe, Moves, ProcAt, FileAt
    <2>3. ProcInv' /\ EraseProgress' /\ RotationProgress'
      BY <1>1, <1>2, <1>5, <2>1, KeyAssumption, ZenonT(60)
      DEF KeyInv, ProcInv, EraseProgress, RotationProgress, Callers, FileType,
          Maybe, Moves, ProcAt, FileAt, NoFile, isInitialized, Derives
    <2>4. ASSUME faults' = 0 PROVE CleanInv'
      <3>1. faults = 0 BY <1>2, <2>4
      <3> QED
        BY <1>1, <1>2, <1>5, <2>1, <2>4, <3>1, KeyAssumption
        DEF KeyInv, KeyTypeOK, CleanInv, RowsAgree, StepsAgree, PromiseKept,
            ProcInv, EraseProgress, RotationProgress, FileType, Maybe, Moves,
            ProcAt, FileAt, NoFile, isInitialized, Derives
    <2> QED BY <2>2, <2>3, <2>4 DEF KeyInv
  <1> QED
    BY <1>1, <1>2, <1>3, <1>4, <1>5, Zenon
    DEF Finish, Works, Fails, KeyInv, ProcInv, Callers, AfterSlots, NoFile

\* The user commits an identity.
LEMMA OnboardKeeps ==
  ASSUME KeyInv, Onboard PROVE KeyInv'
  <1>1. proc \in ProcType /\ rows \in RowsType /\ file \in Maybe(FileType)
    BY DEF KeyInv, KeyTypeOK
  <1>2. /\ proc.pc = "up" /\ rows' = rows /\ enclave' = enclave
        /\ passcode' = passcode /\ incomplete' = incomplete /\ proc' = proc
        /\ faults' = faults
    BY DEF Onboard
  <1>3. CASE proc.open /\ file' = [file EXCEPT !.data = "user"] /\ promise' = "kept"
    <2>1. /\ FileAt(file.seed, file.salt, "user", file.ahead)
      BY <1>1, <1>2, <1>3, FileMove, KeyAssumption, Zenon
      DEF KeyInv, ProcInv, NoFile, Maybe
    <2>2. KeyTypeOK'
      BY <1>1, <1>2, <1>3, <2>1
      DEF KeyInv, KeyTypeOK, Maybe, Moves, ProcAt, FileAt
    <2>3. ProcInv' /\ EraseProgress' /\ RotationProgress'
      BY <1>1, <1>2, <1>3, <2>1, KeyAssumption, ZenonT(60)
      DEF KeyInv, ProcInv, EraseProgress, RotationProgress, Callers, FileType,
          Maybe, Moves, ProcAt, FileAt, NoFile, isInitialized, Derives
    <2>4. ASSUME faults' = 0 PROVE CleanInv'
      <3>1. faults = 0 BY <1>2, <2>4
      <3> QED
        BY <1>1, <1>2, <1>3, <2>1, <2>4, <3>1, KeyAssumption, ZenonT(60)
        DEF KeyInv, KeyTypeOK, CleanInv, RowsAgree, StepsAgree, PromiseKept,
            ProcInv, EraseProgress, RotationProgress, FileType, Maybe, Moves,
            ProcAt, FileAt, NoFile, isInitialized, Derives
    <2> QED BY <2>2, <2>3, <2>4 DEF KeyInv
  <1> QED
    BY <1>1, <1>2, <1>3
    DEF Onboard, Works, Fails, KeyInv, ProcInv, Callers, AfterSlots, NoFile

\* A passcode slot is set.
LEMMA SetPasscodeKeeps ==
  ASSUME KeyInv, SetPasscode PROVE KeyInv'
  <1>1. proc \in ProcType /\ rows \in RowsType /\ file \in Maybe(FileType)
    BY DEF KeyInv, KeyTypeOK
  <1>2. /\ proc.pc = "up" /\ rows' = rows /\ enclave' = enclave
        /\ file' = file /\ incomplete' = incomplete /\ proc' = proc
        /\ promise' = promise /\ faults' = faults
    BY DEF SetPasscode
  <1>3. CASE /\ Onboarded /\ passcode' \subseteq {"real", "duress"}
    <2>1. /\ proc.open /\ file.data = "user"
      BY <1>1, <1>2, <1>3
      DEF Onboarded
    <2>2. KeyTypeOK'
      BY <1>1, <1>2, <1>3, <2>1
      DEF KeyInv, KeyTypeOK, Maybe, Moves, ProcAt
    <2>3. ProcInv' /\ EraseProgress' /\ RotationProgress'
      BY <1>1, <1>2, <1>3, <2>1, KeyAssumption, Zenon
      DEF KeyInv, ProcInv, EraseProgress, RotationProgress, Callers, FileType,
          Maybe, Moves, ProcAt, NoFile, isInitialized, Derives
    <2>4. ASSUME faults' = 0 PROVE CleanInv'
      <3>1. faults = 0 BY <1>2, <2>4
      <3> QED
        BY <1>1, <1>2, <1>3, <2>1, <2>4, <3>1, KeyAssumption, ZenonT(60)
        DEF KeyInv, KeyTypeOK, CleanInv, RowsAgree, StepsAgree, PromiseKept,
            ProcInv, EraseProgress, RotationProgress, FileType, Maybe, Moves,
            ProcAt, NoFile, isInitialized, Derives
    <2> QED BY <2>2, <2>3, <2>4 DEF KeyInv
  <1> QED
    BY <1>1, <1>2, <1>3, Zenon
    DEF SetPasscode, Works, Fails, KeyInv, ProcInv, Callers, AfterSlots, NoFile,
        KeyTypeOK

\* The late retry of a wipe that was not confirmed.
LEMMA retryIncompleteDuressWipeIfNeededKeeps ==
  ASSUME KeyInv, retryIncompleteDuressWipeIfNeeded PROVE KeyInv'
  <1>1. proc \in ProcType /\ rows \in RowsType /\ file \in Maybe(FileType)
    BY DEF KeyInv, KeyTypeOK
  <1>2. /\ proc.pc = "up" /\ rows' = rows /\ enclave' = enclave
        /\ file' = file /\ passcode' = passcode /\ promise' = promise
        /\ faults' = faults
    BY DEF retryIncompleteDuressWipeIfNeeded
  <1>3. CASE incomplete /\ incomplete' = FALSE /\ proc' = proc
    <2>2. KeyTypeOK'
      BY <1>1, <1>2, <1>3, Zenon
      DEF KeyInv, KeyTypeOK, Maybe, Moves, ProcAt
    <2>3. ProcInv' /\ EraseProgress' /\ RotationProgress'
      BY <1>1, <1>2, <1>3, KeyAssumption, Zenon
      DEF KeyInv, ProcInv, EraseProgress, RotationProgress, Callers, FileType,
          Maybe, Moves, ProcAt, NoFile, isInitialized, Derives
    <2>4. ASSUME faults' = 0 PROVE CleanInv'
      <3>1. faults = 0 BY <1>2, <2>4
      <3> QED
        BY <1>1, <1>2, <1>3, <2>4, <3>1, KeyAssumption, ZenonT(60)
        DEF KeyInv, KeyTypeOK, CleanInv, RowsAgree, StepsAgree, PromiseKept,
            ProcInv, EraseProgress, RotationProgress, FileType, Maybe, Moves,
            ProcAt, NoFile, isInitialized, Derives
    <2> QED BY <2>2, <2>3, <2>4 DEF KeyInv
  <1>4. CASE /\ incomplete /\ incomplete' = incomplete
             /\ proc' = [proc EXCEPT !.pc = "eraseWrap", !.call = "late", !.ok = TRUE]
    <2>1. /\ ProcAt("eraseWrap", proc.task, "late", TRUE, proc.complete, proc.new, proc.open)
      BY <1>1, <1>2, <1>4, CallMove, Zenon
      DEF Steps, Callers
    <2>2. KeyTypeOK'
      BY <1>1, <1>2, <1>4, <2>1
      DEF KeyInv, KeyTypeOK, Maybe, Moves, ProcAt
    <2>3. ProcInv' /\ EraseProgress' /\ RotationProgress'
      BY <1>1, <1>2, <1>4, <2>1, KeyAssumption, ZenonT(60)
      DEF KeyInv, ProcInv, EraseProgress, RotationProgress, Callers, FileType,
          Maybe, Moves, ProcAt, NoFile, isInitialized, Derives
    <2>4. ASSUME faults' = 0 PROVE CleanInv'
      <3>1. faults = 0 BY <1>2, <2>4
      <3> QED
        BY <1>1, <1>2, <1>4, <2>1, <2>4, <3>1, KeyAssumption
        DEF KeyInv, KeyTypeOK, CleanInv, RowsAgree, StepsAgree, PromiseKept,
            ProcInv, EraseProgress, RotationProgress, FileType, Maybe, Moves,
            ProcAt, NoFile, isInitialized, Derives
    <2> QED BY <2>2, <2>3, <2>4 DEF KeyInv
  <1> QED
    BY <1>1, <1>2, <1>3, <1>4, Zenon
    DEF retryIncompleteDuressWipeIfNeeded, Works, Fails, KeyInv, ProcInv,
        Callers, AfterSlots, NoFile

\* The process is killed.
LEMMA KillKeeps ==
  ASSUME KeyInv, Kill PROVE KeyInv'
  <1>1. proc \in ProcType /\ rows \in RowsType /\ file \in Maybe(FileType)
    BY DEF KeyInv, KeyTypeOK
  <1>2. /\ rows' = rows /\ enclave' = enclave /\ file' = file
        /\ passcode' = passcode /\ incomplete' = incomplete
        /\ promise' = promise /\ faults' = faults
    BY DEF Kill
  <1>3. CASE proc' = Dead
    <2>1. /\ ProcAt("off", "off", Absent, TRUE, TRUE, Absent, FALSE)
      BY <1>1, <1>2, <1>3, KeyAssumption
      DEF Dead, ProcAt, ProcType, Steps, Maybe
    <2>2. KeyTypeOK'
      BY <1>1, <1>2, <1>3, <2>1, Zenon
      DEF KeyInv, KeyTypeOK, Maybe, Moves, ProcAt
    <2>3. ProcInv' /\ EraseProgress' /\ RotationProgress'
      BY <1>1, <1>2, <1>3, <2>1, KeyAssumption, ZenonT(60)
      DEF KeyInv, ProcInv, EraseProgress, RotationProgress, Callers, FileType,
          Maybe, Moves, ProcAt, NoFile, isInitialized, Derives
    <2>4. ASSUME faults' = 0 PROVE CleanInv'
      <3>1. faults = 0 BY <1>2, <2>4
      <3> QED
        BY <1>1, <1>2, <1>3, <2>1, <2>4, <3>1, KeyAssumption
        DEF KeyInv, KeyTypeOK, CleanInv, RowsAgree, StepsAgree, PromiseKept,
            ProcInv, EraseProgress, RotationProgress, FileType, Maybe, Moves,
            ProcAt, NoFile, isInitialized, Derives
    <2> QED BY <2>2, <2>3, <2>4 DEF KeyInv
  <1> QED
    BY <1>1, <1>2, <1>3
    DEF Kill, Works, Fails, KeyInv, ProcInv, Callers, AfterSlots, NoFile

\* A week passes.
LEMMA WeekPassesKeeps ==
  ASSUME KeyInv, WeekPasses PROVE KeyInv'
  <1>1. proc \in ProcType /\ rows \in RowsType /\ file \in Maybe(FileType)
    BY DEF KeyInv, KeyTypeOK
  <1>2. /\ proc.pc = "off" /\ enclave' = enclave /\ file' = file
        /\ passcode' = passcode /\ incomplete' = incomplete /\ proc' = proc
        /\ promise' = promise /\ faults' = faults
    BY DEF WeekPasses
  <1>3. CASE rows' = [rows EXCEPT !.recent = FALSE]
    <2>1. /\ RowsAt(rows.wrap, rows.salt, rows.staged)
      BY <1>1, <1>2, <1>3, RowMove, Zenon
    <2>2. KeyTypeOK'
      BY <1>1, <1>2, <1>3, <2>1
      DEF KeyInv, KeyTypeOK, Maybe, Moves, ProcAt, RowsAt
    <2>3. ProcInv' /\ EraseProgress' /\ RotationProgress'
      BY <1>1, <1>2, <1>3, <2>1, KeyAssumption, ZenonT(60)
      DEF KeyInv, ProcInv, EraseProgress, RotationProgress, Callers, FileType,
          Maybe, Moves, ProcAt, RowsAt, NoFile, isInitialized, Derives
    <2>4. ASSUME faults' = 0 PROVE CleanInv'
      <3>1. faults = 0 BY <1>2, <2>4
      <3> QED
        BY <1>1, <1>2, <1>3, <2>1, <2>4, <3>1, KeyAssumption, ZenonT(60)
        DEF KeyInv, KeyTypeOK, CleanInv, RowsAgree, StepsAgree, PromiseKept,
            ProcInv, EraseProgress, RotationProgress, FileType, Maybe, Moves,
            ProcAt, RowsAt, NoFile, isInitialized, Derives
    <2> QED BY <2>2, <2>3, <2>4 DEF KeyInv
  <1> QED
    BY <1>1, <1>2, <1>3
    DEF WeekPasses, Works, Fails, KeyInv, ProcInv, Callers, AfterSlots, NoFile

\* The app is deleted; the Keychain stays.
LEMMA UninstallKeeps ==
  ASSUME KeyInv, Uninstall PROVE KeyInv'
  <1>1. proc \in ProcType /\ rows \in RowsType /\ file \in Maybe(FileType)
    BY DEF KeyInv, KeyTypeOK
  <1>2. /\ proc.pc = "off" /\ rows' = rows /\ enclave' = enclave
        /\ passcode' = passcode /\ proc' = proc /\ faults' = faults
    BY DEF Uninstall
  <1>3. CASE file' = Absent /\ incomplete' = FALSE /\ promise' = "none"
    <2>2. KeyTypeOK'
      BY <1>1, <1>2, <1>3, Zenon
      DEF KeyInv, KeyTypeOK, Maybe, Moves, ProcAt, FileAt
    <2>3. ProcInv' /\ EraseProgress' /\ RotationProgress'
      BY <1>1, <1>2, <1>3, KeyAssumption, ZenonT(60)
      DEF KeyInv, ProcInv, EraseProgress, RotationProgress, Callers, FileType,
          Maybe, Moves, ProcAt, FileAt, NoFile, isInitialized, Derives
    <2>4. ASSUME faults' = 0 PROVE CleanInv'
      <3>1. faults = 0 BY <1>2, <2>4
      <3> QED
        BY <1>1, <1>2, <1>3, <2>4, <3>1, KeyAssumption, ZenonT(60)
        DEF KeyInv, KeyTypeOK, CleanInv, RowsAgree, StepsAgree, PromiseKept,
            ProcInv, EraseProgress, RotationProgress, FileType, Maybe, Moves,
            ProcAt, FileAt, NoFile, isInitialized, Derives
    <2> QED BY <2>2, <2>3, <2>4 DEF KeyInv
  <1> QED
    BY <1>1, <1>2, <1>3, Zenon
    DEF Uninstall, Works, Fails, KeyInv, ProcInv, Callers, AfterSlots, NoFile

\* An older build meets the file.
LEMMA InstallOlderKeeps ==
  ASSUME KeyInv, InstallOlder PROVE KeyInv'
  <1>1. proc \in ProcType /\ rows \in RowsType /\ file \in Maybe(FileType)
    BY DEF KeyInv, KeyTypeOK
  <1>2. /\ proc.pc = "off" /\ rows' = rows /\ enclave' = enclave
        /\ passcode' = passcode /\ incomplete' = incomplete /\ proc' = proc
        /\ faults' = faults
    BY DEF InstallOlder
  <1>3. CASE ~NoFile /\ file' = [file EXCEPT !.ahead = TRUE] /\ promise' = "none"
    <2>1. /\ FileAt(file.seed, file.salt, file.data, TRUE)
      BY <1>1, <1>2, <1>3, FileMove, KeyAssumption, Zenon
      DEF NoFile, Maybe
    <2>2. KeyTypeOK'
      BY <1>1, <1>2, <1>3, <2>1
      DEF KeyInv, KeyTypeOK, Maybe, Moves, ProcAt, FileAt
    <2>3. ProcInv' /\ EraseProgress' /\ RotationProgress'
      BY <1>1, <1>2, <1>3, <2>1, KeyAssumption, ZenonT(60)
      DEF KeyInv, ProcInv, EraseProgress, RotationProgress, Callers, FileType,
          Maybe, Moves, ProcAt, FileAt, NoFile, isInitialized, Derives
    <2>4. ASSUME faults' = 0 PROVE CleanInv'
      <3>1. faults = 0 BY <1>2, <2>4
      <3> QED
        BY <1>1, <1>2, <1>3, <2>1, <2>4, <3>1, KeyAssumption, ZenonT(60)
        DEF KeyInv, KeyTypeOK, CleanInv, RowsAgree, StepsAgree, PromiseKept,
            ProcInv, EraseProgress, RotationProgress, FileType, Maybe, Moves,
            ProcAt, FileAt, NoFile, isInitialized, Derives
    <2> QED BY <2>2, <2>3, <2>4 DEF KeyInv
  <1> QED
    BY <1>1, <1>2, <1>3
    DEF InstallOlder, Works, Fails, KeyInv, ProcInv, Callers, AfterSlots, NoFile

---------------------------------------------------------------------------
\* The invariant holds in every state, whatever fails and whenever the
\* process is killed.
LEMMA KeyInvariant == KeySpec => []KeyInv
  <1>1. ASSUME KeyInit PROVE KeyInv
    <2>1. /\ proc = Dead /\ faults = 0 /\ 0 \in 0 .. MaxFaults
          /\ rows.wrap = Absent /\ file = Absent
          /\ promise = "none" /\ incomplete = FALSE /\ passcode = {}
      BY <1>1, KeyAssumption DEF KeyInit
    <2>2. proc \in ProcType BY <2>1 DEF Dead, ProcType, Steps, Maybe
    <2>3. rows \in RowsType BY <1>1 DEF KeyInit, RowsType, Maybe
    <2>4. KeyTypeOK BY <1>1, <2>1, <2>2, <2>3, Zenon DEF KeyInit, KeyTypeOK, Maybe
    <2>5. ProcInv /\ EraseProgress /\ RotationProgress /\ CleanInv
      BY <2>1, Zenon
      DEF Dead, ProcInv, EraseProgress, RotationProgress, CleanInv, RowsAgree,
          StepsAgree, PromiseKept, NoFile
    <2> QED BY <2>4, <2>5 DEF KeyInv
  <1>2. KeyInv /\ [KeyNext]_keyVars => KeyInv'
    <2>1. ASSUME KeyInv, UNCHANGED keyVars PROVE KeyInv'
      BY ONLY <2>1
      DEF keyVars, KeyInv, KeyTypeOK, ProcInv, EraseProgress, RotationProgress,
          CleanInv, RowsAgree, StepsAgree, PromiseKept, NoFile
    <2>2. ASSUME KeyInv, KeyNext PROVE KeyInv'
      BY <2>2, LaunchKeeps, OrphanFileKeeps, OrphanKeysKeeps, OrphanSlotsKeeps,
         eraseAllKeeps, unwrapOrCreateSeedKeeps, loadOrCreateSaltKeeps,
         OpenPrimaryKeeps, OpenStagedKeeps, promoteStagedSaltKeeps,
         ClearStagedKeeps, MigrateKeeps, StageSaltKeeps, RekeyKeeps,
         VacuumKeeps, PromoteNewKeeps, StampKeeps, EraseRowKeeps,
         OverwriteKeeps, EraseEnclaveKeeps, ErasedKeeps, duressWipeKeeps,
         resetEverythingKeeps, unlinkDatabaseFilesKeeps, ClearDefaultsKeeps,
         FinishKeeps, OnboardKeeps, SetPasscodeKeeps,
         retryIncompleteDuressWipeIfNeededKeeps, KillKeeps, WeekPassesKeeps,
         UninstallKeeps, InstallOlderKeeps
      DEF KeyNext
    <2> QED BY <2>1, <2>2, ZenonT(60)
  <1> QED BY <1>1, <1>2, PTL DEF KeySpec

\* Whatever Keychain call fails, and however often eraseKeyMaterial is retried,
\* it answers true only with every row and the enclave key gone.
THEOREM EraseIsConfirmed == KeySpec => []ConfirmedErase
  <1>1. KeyInv => ConfirmedErase BY DEF KeyInv, EraseProgress, ConfirmedErase
  <1> QED BY <1>1, KeyInvariant, PTL

\* As long as the Keychain answers, no sequence of kills, rotations, wipes,
\* resets, reinstallations and downgrades leaves a launch that cannot open the
\* store.
THEOREM BootsAlways == KeySpec => []AlwaysBoots
  <1>1. KeyInv => AlwaysBoots BY DEF KeyInv, CleanInv, AlwaysBoots
  <1> QED BY <1>1, KeyInvariant, PTL

\* As long as the Keychain answers, what the user committed stays in the file
\* and the rows derive its key, until the user asks for it to go.
THEOREM IdentityStays == KeySpec => []IdentityKept
  <1>1. KeyInv => IdentityKept
    BY Zenon DEF KeyInv, CleanInv, PromiseKept, RowsAgree, IdentityKept, Opens, Derives, NoFile
  <1> QED BY <1>1, KeyInvariant, PTL

\* As long as the Keychain answers, the app never comes up after a duress wipe
\* with a passcode slot set or with the old data.
THEOREM WipeStays == KeySpec => []WipeIsFinal
  <1>1. KeyInv => WipeIsFinal
    BY DEF KeyInv, CleanInv, PromiseKept, StepsAgree, ProcInv, WipeIsFinal, NoFile
  <1> QED BY <1>1, KeyInvariant, PTL

\* Keychain calls failing or not, a step of rotateKeyMaterial, or a kill in the
\* middle of it, loses the key of the file in one way only: by staging a new
\* salt over one that the file is under and that could not be promoted.
THEOREM RotationStays == KeySpec => RotationKeepsKey
  <1> DEFINE Rotating == proc.pc \in {"due", "rekey", "vacuum", "live", "clear", "stamp"}
             Lost == Doing("due") /\ faults > 0 /\ file.salt = rows.staged
  <1>1. ASSUME KeyInv, [KeyNext]_keyVars, Rotating, Opens, ~Opens' PROVE Lost
    <2>0. /\ proc \in ProcType /\ rows \in RowsType /\ file \in FileType
          /\ ~NoFile /\ faults \in 0 .. MaxFaults
      BY <1>1 DEF KeyInv, KeyTypeOK, ProcInv, Maybe, NoFile
    <2>1. ASSUME rows' = rows, enclave' = enclave, file' = file PROVE FALSE
      BY <1>1, <2>1 DEF Opens, Derives, NoFile
    <2>2. CASE StageSalt
      <3>1. rows' # rows BY <2>1, <2>2 DEF StageSalt
      <3>2. /\ rows' = [rows EXCEPT !.staged = Fresh(SaltsInUse)]
            /\ enclave' = enclave /\ file' = file
        BY <2>2, <3>1 DEF StageSalt
      <3>3. RowsAt(rows.wrap, rows.salt, Fresh(SaltsInUse))
        BY <1>1, <2>0, <3>2, RowMove, FreshDraw DEF KeyInv, Maybe
      <3>4. ~Derives(rows.salt) /\ Derives(rows.staged)
        BY <1>1, <3>2, <3>3 DEF Opens, Derives, NoFile, RowsAt
      <3>5. faults # 0
        BY <1>1, <2>0, <2>2, <3>4
        DEF KeyInv, CleanInv, StepsAgree, Derives, StageSalt
      <3> QED BY <2>0, <2>2, <3>4, <3>5, KeyAssumption DEF StageSalt, Derives
    <2>3. CASE Rekey
      <3>1. file' = [file EXCEPT !.salt = proc.new] /\ rows' = rows /\ enclave' = enclave
        BY <2>1, <2>3 DEF Rekey
      <3>2. proc.new = rows.staged /\ proc.new \in Ids
        BY <1>1, <2>0, <2>3 DEF KeyInv, RotationProgress, Rekey, ProcType, Maybe
      <3>3. FileAt(file.seed, proc.new, file.data, file.ahead)
        BY <2>0, <3>1, <3>2, FileMove
      <3>4. file' # Absent BY <3>3, KeyAssumption DEF FileAt, FileType
      <3> QED BY <1>1, <3>1, <3>2, <3>3, <3>4 DEF Opens, Derives, NoFile, FileAt
    <2>4. CASE PromoteNew
      <3>1. rows' = [rows EXCEPT !.salt = proc.new] /\ file' = file /\ enclave' = enclave
        BY <2>1, <2>4 DEF PromoteNew
      <3>2. RowsAt(rows.wrap, proc.new, rows.staged)
        BY <2>0, <3>1, RowMove DEF ProcType
      <3> QED
        BY <1>1, <2>4, <3>1, <3>2
        DEF KeyInv, RotationProgress, PromoteNew, Opens, Derives, NoFile, RowsAt
    <2>5. CASE ClearStaged
      <3>1. /\ rows' = [rows EXCEPT !.staged = Absent] /\ file' = file /\ enclave' = enclave
            /\ proc.pc = "clear"
        BY <1>1, <2>1, <2>5 DEF ClearStaged
      <3>2. RowsAt(rows.wrap, rows.salt, Absent)
        BY <2>0, <3>1, RowMove DEF Maybe
      <3> QED
        BY <1>1, <3>1, <3>2
        DEF KeyInv, RotationProgress, Opens, Derives, NoFile, RowsAt
    <2>6. CASE Stamp
      <3>1. rows' = [rows EXCEPT !.recent = TRUE] /\ file' = file /\ enclave' = enclave
        BY <2>1, <2>6 DEF Stamp
      <3>2. RowsAt(rows.wrap, rows.salt, rows.staged)
        BY <2>0, <3>1, RowMove, Zenon
      <3> QED BY <1>1, <3>1, <3>2 DEF Opens, Derives, NoFile, RowsAt
    <2>7. CASE Vacuum BY <2>1, <2>7 DEF Vacuum
    <2>8. CASE Kill BY <2>1, <2>8 DEF Kill
    <2>9. CASE UNCHANGED keyVars BY <2>1, <2>9 DEF keyVars
    <2> QED
      BY <1>1, <2>2, <2>3, <2>4, <2>5, <2>6, <2>7, <2>8, <2>9, ZenonT(60)
      DEF KeyNext, Launch, OrphanFile, OrphanKeys, OrphanSlots, eraseAll,
          unwrapOrCreateSeed, loadOrCreateSalt, OpenPrimary, OpenStaged,
          promoteStagedSalt, Migrate, EraseRow, Overwrite, EraseEnclave, Erased,
          duressWipe, resetEverything, unlinkDatabaseFiles, ClearDefaults,
          Finish, Onboard, SetPasscode, retryIncompleteDuressWipeIfNeeded,
          WeekPasses, Uninstall, InstallOlder
  <1>2. KeyInv /\ [KeyNext]_keyVars =>
           [Rotating /\ Opens /\ ~Opens' => Lost]_keyVars
    BY <1>1
  <1> QED BY <1>2, KeyInvariant, PTL DEF KeySpec, RotationKeepsKey

=============================================================================
