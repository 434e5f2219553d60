------------------------------ MODULE KeyStore ------------------------------
(***************************************************************************)
(* The life of the key that encrypts the app's database (DBKey.swift,      *)
(* SQLiteStorage.bootstrap, Storage.eraseAndReinitialize).  The key is     *)
(* derived from a seed, wrapped by a Secure Enclave key in one Keychain    *)
(* row, and a salt in another; nothing else ties the rows to the file they *)
(* open, and there is no transaction over both.  Launching, rotating the   *)
(* salt, the duress wipe and "Reset identity" are each a sequence of       *)
(* Keychain calls and file operations, and the process can be killed       *)
(* between any two of them; one step of this module is one such call.      *)
(*                                                                         *)
(* A derived key is the pair of its seed and its salt; the Argon2id        *)
(* parameters row is left out (one preset was ever shipped and any other   *)
(* content reads as that one, so the third candidate of openWithRecovery   *)
(* is the first again).  rekey and VACUUM are transactions: a kill leaves  *)
(* the file before or after them.                                          *)
(***************************************************************************)
EXTENDS Integers

CONSTANTS
    Ids,         \* what SecRandomCopyBytes and the enclave draw from
    Absent,        \* an absent row, key or file
    WipeRetries, \* keyEraseRetries in eraseAndReinitialize (2)
    LateRetries, \* tries in retryIncompleteDuressWipeIfNeeded (4)
    MaxFaults    \* bound: how many Keychain calls fail in a behaviour

\* There is always another draw than those in use.
ASSUME KeyAssumption ==
    /\ \A a, b, c, d \in Ids \cup {Absent} : \E id \in Ids : id \notin {a, b, c, d}
    /\ Absent \notin Ids \cup [seed : Ids, by : Ids]
           \cup [seed : Ids, salt : Ids, data : {"default", "user"}, ahead : BOOLEAN]
    /\ WipeRetries \in Nat /\ LateRetries \in Nat /\ MaxFaults \in Nat

VARIABLES
    rows,        \* Keychain: wrap = [seed, by], salt, staged, and whether the
                 \* rotation stamp is less than a week old
    enclave,     \* the Secure Enclave key
    file,        \* the database: the seed and salt of its key, what it holds,
                 \* and whether its schema is ahead of the code
    passcode,    \* the AppPasscode slots that are set
    incomplete,  \* UserDefaults: the last wipe could not be confirmed
    proc,        \* the process: what it is doing and its local variables
    promise,     \* history: what the user was last told about their data
    faults       \* history: how many Keychain calls have failed so far

keyVars == <<rows, enclave, file, passcode, incomplete, proc, promise, faults>>

Callers == {"orphan1", "orphan2", "orphan3", "downgrade", "wipe", "late"}

Steps == {"off", "up", "orphan1", "orphan2", "orphan3", "derive", "salt",
          "open", "staged", "promote", "unstage", "migrate", "due", "rekey",
          "vacuum", "live", "clear", "stamp", "booted", "failed", "unlink",
          "defaults", "real", "duress", "eraseWrap", "noiseSalt",
          "eraseSalt", "eraseStamp", "noiseStaged", "eraseStaged",
          "eraseEnclave", "erased"}

Maybe(S) == S \cup {Absent}

RowsType == [wrap : Maybe([seed : Ids, by : Ids]), salt : Maybe(Ids),
             staged : Maybe(Ids), recent : BOOLEAN]

FileType == [seed : Ids, salt : Ids, data : {"default", "user"}, ahead : BOOLEAN]

ProcType == [pc : Steps, task : {"off", "launch", "wipe", "reset"},
             call : Maybe(Callers), ok : BOOLEAN, complete : BOOLEAN,
             tries : Nat, new : Maybe(Ids), open : BOOLEAN]

\* A type invariant over the persisted rows, the file and the process.
KeyTypeOK ==
    /\ rows \in RowsType /\ enclave \in Maybe(Ids) /\ file \in Maybe(FileType)
    /\ passcode \subseteq {"real", "duress"}
    /\ proc \in ProcType
    /\ promise \in {"none", "kept", "wiped", "reset"}
    /\ incomplete \in BOOLEAN /\ faults \in 0 .. MaxFaults

Fresh(used) == CHOOSE id \in Ids : id \notin used

Dead == [pc |-> "off", task |-> "off", call |-> Absent, ok |-> TRUE,
         complete |-> TRUE, tries |-> 0, new |-> Absent, open |-> FALSE]

NoFile == file = Absent

SaltsInUse == {rows.salt, rows.staged, proc.new,
               IF NoFile THEN Absent ELSE file.salt}

isInitialized == rows.wrap # Absent /\ rows.salt # Absent

\* The key that the wrap row and a salt derive is the one the file is under.
Derives(salt) ==
    ~NoFile /\ rows.wrap.seed = file.seed /\ salt = file.salt

Proceed(step) == proc' = [proc EXCEPT !.pc = step]

Doing(step) == proc.pc = step

(* A Keychain call reports an error (the Keychain is locked, say) or works. *)
Fails == faults < MaxFaults /\ faults' = faults + 1

Works == UNCHANGED faults

-----------------------------------------------------------------------------
KeyInit ==
    /\ rows = [wrap |-> Absent, salt |-> Absent, staged |-> Absent, recent |-> FALSE]
    /\ enclave = Absent /\ file = Absent /\ passcode = {} /\ incomplete = FALSE
    /\ proc = Dead /\ promise = "none" /\ faults = 0

Launch ==
    /\ Doing("off")
    /\ proc' = [Dead EXCEPT !.pc = "orphan1", !.task = "launch"]
    /\ UNCHANGED <<rows, enclave, file, passcode, incomplete, promise, faults>>

-----------------------------------------------------------------------------
(* bootstrap: the two orphan checks and the reconciliation. *)

OrphanFile ==
    /\ Doing("orphan1")
    /\ IF ~NoFile /\ ~isInitialized
       THEN file' = Absent /\ proc' = [proc EXCEPT !.pc = "real", !.call = "orphan1"]
       ELSE Proceed("orphan2") /\ UNCHANGED file
    /\ UNCHANGED <<rows, enclave, passcode, incomplete, promise, faults>>

OrphanKeys ==
    /\ Doing("orphan2")
    /\ IF NoFile /\ isInitialized
       THEN proc' = [proc EXCEPT !.pc = "eraseWrap", !.call = "orphan2", !.ok = TRUE]
       ELSE Proceed("orphan3")
    /\ UNCHANGED <<rows, enclave, file, passcode, incomplete, promise, faults>>

\* Mutant: without reconciliation #3.
MutOrphanSlots ==
    /\ Doing("orphan3")
    /\ Proceed("derive")
    /\ UNCHANGED <<rows, enclave, file, passcode, incomplete, promise, faults>>

OrphanSlots ==
    /\ Doing("orphan3")
    /\ IF NoFile /\ ~isInitialized /\ passcode # {}
       THEN proc' = [proc EXCEPT !.pc = "real", !.call = "orphan3"]
       ELSE Proceed("derive")
    /\ UNCHANGED <<rows, enclave, file, passcode, incomplete, promise, faults>>

(* AppPasscode.eraseAll, slot by slot; the status of the deletes is not read. *)
AfterSlots == [orphan1 |-> "orphan2", orphan2 |-> "orphan3",
               orphan3 |-> "derive", downgrade |-> "derive", wipe |-> "unlink"]

eraseAll ==
    /\ Doing("real") \/ Doing("duress")
    /\ \/ passcode' = passcode \ {proc.pc} /\ Works
       \/ Fails /\ UNCHANGED passcode
    /\ Proceed(IF Doing("real") THEN "duress" ELSE AfterSlots[proc.call])
    /\ UNCHANGED <<rows, enclave, file, incomplete, promise>>

-----------------------------------------------------------------------------
(* openWithRecovery. *)

unwrapOrCreateSeed ==
    /\ Doing("derive")
    /\ enclave' = IF enclave = Absent THEN Fresh({IF rows.wrap = Absent THEN Absent
                                               ELSE rows.wrap.by})
                  ELSE enclave
    /\ \/ /\ rows.wrap # Absent
          /\ Proceed(IF rows.wrap.by = enclave THEN "salt" ELSE "failed")
          /\ UNCHANGED <<rows, faults>>
       \/ /\ rows.wrap = Absent
          /\ rows' = [rows EXCEPT !.wrap =
                 [seed |-> Fresh({IF NoFile THEN Absent ELSE file.seed}),
                  by |-> enclave']]
          /\ Proceed("salt") /\ Works
       \/ rows.wrap = Absent /\ Fails /\ Proceed("failed") /\ UNCHANGED rows
    /\ UNCHANGED <<file, passcode, incomplete, promise>>

loadOrCreateSalt ==
    /\ Doing("salt")
    /\ \/ rows.salt # Absent /\ Proceed("open") /\ UNCHANGED <<rows, faults>>
       \/ /\ rows.salt = Absent
          /\ rows' = [rows EXCEPT !.salt = Fresh(SaltsInUse)]
          /\ Proceed("open") /\ Works
       \/ rows.salt = Absent /\ Fails /\ Proceed("failed") /\ UNCHANGED rows
    /\ UNCHANGED <<enclave, file, passcode, incomplete, promise>>

OpenPrimary ==
    /\ Doing("open")
    /\ \/ /\ NoFile
          /\ file' = [seed |-> rows.wrap.seed, salt |-> rows.salt,
                      data |-> "default", ahead |-> FALSE]
          /\ Proceed("migrate")
       \/ /\ ~NoFile
          /\ Proceed(IF Derives(rows.salt) THEN "migrate" ELSE "staged")
          /\ UNCHANGED file
    /\ UNCHANGED <<rows, enclave, passcode, incomplete, promise, faults>>

\* Mutant: the staged salt is not tried.
MutOpenStaged ==
    /\ Doing("staged")
    /\ Proceed("failed")
    /\ UNCHANGED <<rows, enclave, file, passcode, incomplete, promise, faults>>

OpenStaged ==
    /\ Doing("staged")
    /\ Proceed(IF rows.staged # Absent /\ Derives(rows.staged) THEN "promote"
          ELSE "failed")
    /\ UNCHANGED <<rows, enclave, file, passcode, incomplete, promise, faults>>

promoteStagedSalt ==
    /\ Doing("promote")
    /\ \/ rows' = [rows EXCEPT !.salt = rows.staged] /\ Proceed("unstage") /\ Works
       \/ Fails /\ Proceed("migrate") /\ UNCHANGED rows
    /\ UNCHANGED <<enclave, file, passcode, incomplete, promise>>

ClearStaged ==
    /\ Doing("unstage") \/ Doing("clear")
    /\ \/ rows' = [rows EXCEPT !.staged = Absent] /\ Works
       \/ Fails /\ UNCHANGED rows
    /\ Proceed(IF Doing("unstage") THEN "migrate" ELSE "stamp")
    /\ UNCHANGED <<enclave, file, passcode, incomplete, promise>>

Migrate ==
    /\ Doing("migrate")
    /\ IF file.ahead
       THEN /\ file' = Absent
            /\ proc' = [proc EXCEPT !.pc = "eraseWrap", !.call = "downgrade", !.ok = TRUE]
       ELSE Proceed("due") /\ UNCHANGED file
    /\ UNCHANGED <<rows, enclave, passcode, incomplete, promise, faults>>

-----------------------------------------------------------------------------
(* rotateKeyMaterial, run by bootstrap when the stamp is a week old or gone. *)
(* A throw anywhere in it is logged and the launch goes on.                  *)

\* Mutant: the file is re-keyed before the new salt is written anywhere.
MutStageSalt ==
    /\ Doing("due")
    /\ proc' = IF rows.recent THEN [proc EXCEPT !.pc = "booted"]
               ELSE [proc EXCEPT !.pc = "rekey", !.new = Fresh(SaltsInUse)]
    /\ UNCHANGED <<rows, enclave, file, passcode, incomplete, promise, faults>>

StageSalt ==
    /\ Doing("due")
    /\ \/ rows.recent /\ Proceed("booted") /\ UNCHANGED <<rows, faults>>
       \/ /\ ~rows.recent
          /\ proc' = [proc EXCEPT !.pc = "rekey", !.new = Fresh(SaltsInUse)]
          /\ rows' = [rows EXCEPT !.staged = Fresh(SaltsInUse)] /\ Works
       \/ ~rows.recent /\ Fails /\ Proceed("booted") /\ UNCHANGED rows
    /\ UNCHANGED <<enclave, file, passcode, incomplete, promise>>

Rekey ==
    /\ Doing("rekey")
    /\ \/ file' = [file EXCEPT !.salt = proc.new] /\ Proceed("vacuum")
       \/ UNCHANGED file /\ Proceed("booted")
    /\ UNCHANGED <<rows, enclave, passcode, incomplete, promise, faults>>

Vacuum ==
    /\ Doing("vacuum")
    /\ Proceed("live") \/ Proceed("booted")
    /\ UNCHANGED <<rows, enclave, file, passcode, incomplete, promise, faults>>

PromoteNew ==
    /\ Doing("live")
    /\ \/ rows' = [rows EXCEPT !.salt = proc.new] /\ Proceed("clear") /\ Works
       \/ Fails /\ UNCHANGED rows /\ Proceed("booted")
    /\ UNCHANGED <<enclave, file, passcode, incomplete, promise>>

Stamp ==
    /\ Doing("stamp")
    /\ \/ rows' = [rows EXCEPT !.recent = TRUE] /\ Works
       \/ Fails /\ UNCHANGED rows
    /\ Proceed("booted")
    /\ UNCHANGED <<enclave, file, passcode, incomplete, promise>>

-----------------------------------------------------------------------------
(* eraseKeyMaterial: the wrap row in one call, the salts overwritten before  *)
(* they are deleted, the enclave key last.  ok is the conjunction of what    *)
(* the deletes report; the overwrites are not looked at.                     *)

EraseOrder == [eraseWrap |-> "noiseSalt", noiseSalt |-> "eraseSalt",
               eraseSalt |-> "eraseStamp", eraseStamp |-> "noiseStaged",
               noiseStaged |-> "eraseStaged", eraseStaged |-> "eraseEnclave",
               eraseEnclave |-> "erased"]

RowOf == [eraseWrap |-> "wrap", eraseSalt |-> "salt", eraseStamp |-> "recent",
          eraseStaged |-> "staged", noiseSalt |-> "salt", noiseStaged |-> "staged"]

\* Mutant: only the last delete counts.
MutDeleted(ok) ==
    proc' = [proc EXCEPT !.pc = EraseOrder[proc.pc], !.ok = ok]

Deleted(ok) ==
    proc' = [proc EXCEPT !.pc = EraseOrder[proc.pc], !.ok = proc.ok /\ ok]

\* A stamp is overwritten too, and noise reads as no stamp, so it may be gone
\* although its delete failed.
EraseRow ==
    /\ proc.pc \in {"eraseWrap", "eraseSalt", "eraseStamp", "eraseStaged"}
    /\ \/ /\ rows' = [rows EXCEPT ![RowOf[proc.pc]] =
                          IF Doing("eraseStamp") THEN FALSE ELSE Absent]
          /\ promise' = IF Doing("eraseWrap") /\ proc.call = "wipe" THEN "wiped" ELSE promise
          /\ Deleted(TRUE) /\ Works
       \/ /\ Fails /\ Deleted(FALSE) /\ UNCHANGED promise
          /\ rows' \in {rows} \cup (IF Doing("eraseStamp") THEN {[rows EXCEPT !.recent = FALSE]}
                                  ELSE {})
    /\ UNCHANGED <<enclave, file, passcode, incomplete>>

Overwrite ==
    /\ proc.pc \in {"noiseSalt", "noiseStaged"}
    /\ \/ /\ rows[RowOf[proc.pc]] # Absent
          /\ rows' = [rows EXCEPT ![RowOf[proc.pc]] = Fresh(SaltsInUse)] /\ Works
       \/ rows[RowOf[proc.pc]] = Absent /\ UNCHANGED <<rows, faults>>
       \/ rows[RowOf[proc.pc]] # Absent /\ Fails /\ UNCHANGED rows
    /\ Deleted(TRUE)
    /\ UNCHANGED <<enclave, file, passcode, incomplete, promise>>

EraseEnclave ==
    /\ Doing("eraseEnclave")
    /\ \/ enclave' = Absent /\ Deleted(TRUE) /\ Works
       \/ Fails /\ Deleted(FALSE) /\ UNCHANGED enclave
    /\ UNCHANGED <<rows, file, passcode, incomplete, promise>>

Retries == [orphan2 |-> 0, downgrade |-> 0, wipe |-> WipeRetries, late |-> LateRetries]

(* What each caller does with the answer: a wipe and its late retry try      *)
(* again, bootstrap does not look.                                           *)
Erased ==
    /\ Doing("erased")
    /\ IF ~proc.ok /\ proc.tries < Retries[proc.call]
       THEN /\ proc' = [proc EXCEPT !.pc = "eraseWrap", !.ok = TRUE,
                                    !.tries = proc.tries + 1]
            /\ UNCHANGED incomplete
       ELSE /\ proc' = [proc EXCEPT !.pc = IF proc.call = "late" THEN "up" ELSE "real",
                                    !.complete = IF proc.call = "wipe" THEN proc.ok
                                                 ELSE proc.complete,
                                    !.tries = 0, !.ok = TRUE]
            /\ incomplete' = (incomplete /\ ~(proc.call = "late" /\ proc.ok))
    /\ UNCHANGED <<rows, enclave, file, passcode, promise, faults>>

-----------------------------------------------------------------------------
(* What the user does while the app is up, and how the tasks end. *)

Onboarded == proc.open /\ file.data = "user"

duressWipe ==
    /\ Doing("up") /\ "duress" \in passcode
    /\ proc' = [Dead EXCEPT !.pc = "eraseWrap", !.task = "wipe", !.call = "wipe",
                            !.open = proc.open]
    /\ UNCHANGED <<rows, enclave, file, passcode, incomplete, promise, faults>>

resetEverything ==
    /\ Doing("up") /\ Onboarded
    /\ proc' = [Dead EXCEPT !.pc = "unlink", !.task = "reset", !.open = TRUE]
    /\ promise' = "reset"
    /\ UNCHANGED <<rows, enclave, file, passcode, incomplete, faults>>

unlinkDatabaseFiles ==
    /\ Doing("unlink")
    /\ file' = Absent
    /\ proc' = [proc EXCEPT !.open = FALSE,
                            !.pc = IF proc.task = "wipe" THEN "defaults" ELSE "orphan1"]
    /\ UNCHANGED <<rows, enclave, passcode, incomplete, promise, faults>>

ClearDefaults ==
    /\ Doing("defaults")
    /\ incomplete' = FALSE /\ Proceed("orphan1")
    /\ UNCHANGED <<rows, enclave, file, passcode, promise, faults>>

(* The store is open (or bootstrap threw): a reset writes the settings back, *)
(* a wipe records whether it was confirmed.                                  *)
Finish ==
    /\ Doing("booted") \/ Doing("failed")
    /\ LET open == Doing("booted")
           back == open /\ proc.task = "reset"
       IN  /\ file' = IF back THEN [file EXCEPT !.data = "user"] ELSE file
           /\ promise' = IF back THEN "kept" ELSE promise
           /\ proc' = [Dead EXCEPT !.pc = "up", !.open = open]
    /\ incomplete' = IF proc.task = "wipe" THEN ~proc.complete ELSE incomplete
    /\ UNCHANGED <<rows, enclave, passcode, faults>>

Onboard ==
    /\ Doing("up") /\ proc.open /\ ~Onboarded
    /\ file' = [file EXCEPT !.data = "user"] /\ promise' = "kept"
    /\ UNCHANGED <<rows, enclave, passcode, incomplete, proc, faults>>

SetPasscode ==
    /\ Doing("up") /\ Onboarded
    /\ \E slot \in {"real", "duress"} : passcode' = passcode \cup {slot}
    /\ UNCHANGED <<rows, enclave, file, incomplete, proc, promise, faults>>

retryIncompleteDuressWipeIfNeeded ==
    /\ Doing("up") /\ incomplete
    /\ IF Onboarded
       THEN incomplete' = FALSE /\ UNCHANGED proc
       ELSE /\ proc' = [proc EXCEPT !.pc = "eraseWrap", !.call = "late", !.ok = TRUE]
            /\ UNCHANGED incomplete
    /\ UNCHANGED <<rows, enclave, file, passcode, promise, faults>>

-----------------------------------------------------------------------------
(* The world outside: the process is killed, a week goes by, the app is      *)
(* deleted (the Keychain outlives it) or replaced by an older build.         *)

Kill ==
    /\ ~Doing("off")
    /\ proc' = Dead
    /\ UNCHANGED <<rows, enclave, file, passcode, incomplete, promise, faults>>

WeekPasses ==
    /\ Doing("off") /\ rows.recent
    /\ rows' = [rows EXCEPT !.recent = FALSE]
    /\ UNCHANGED <<enclave, file, passcode, incomplete, proc, promise, faults>>

Uninstall ==
    /\ Doing("off") /\ ~NoFile
    /\ file' = Absent /\ incomplete' = FALSE /\ promise' = "none"
    /\ UNCHANGED <<rows, enclave, passcode, proc, faults>>

InstallOlder ==
    /\ Doing("off") /\ ~NoFile /\ ~file.ahead
    /\ file' = [file EXCEPT !.ahead = TRUE] /\ promise' = "none"
    /\ UNCHANGED <<rows, enclave, passcode, incomplete, proc, faults>>

KeyNext ==
    \/ Launch \/ OrphanFile \/ OrphanKeys \/ OrphanSlots \/ eraseAll
    \/ unwrapOrCreateSeed \/ loadOrCreateSalt \/ OpenPrimary \/ OpenStaged
    \/ promoteStagedSalt \/ ClearStaged \/ Migrate
    \/ StageSalt \/ Rekey \/ Vacuum \/ PromoteNew \/ Stamp
    \/ EraseRow \/ Overwrite \/ EraseEnclave \/ Erased
    \/ duressWipe \/ resetEverything \/ unlinkDatabaseFiles \/ ClearDefaults
    \/ Finish \/ Onboard \/ SetPasscode \/ retryIncompleteDuressWipeIfNeeded
    \/ Kill \/ WeekPasses \/ Uninstall \/ InstallOlder

KeySpec == KeyInit /\ [][KeyNext]_keyVars

-----------------------------------------------------------------------------
\* The rows in the Keychain derive the key of the file: under the salt, or
\* under the staged one.
Opens ==
    /\ rows.wrap # Absent /\ rows.wrap.by = enclave
    /\ Derives(rows.salt) \/ Derives(rows.staged)

\* However often the process is killed during launches, rotations, wipes and
\* resets, as long as the Keychain keeps answering every launch opens the
\* store: bootstrap never ends in keyMaterialUnavailable (the crash-atomicity
\* rotateKeyMaterial promises, and the orphan checks of bootstrap).
AlwaysBoots == faults = 0 => ~Doing("failed")

\* Data the user committed (onboarded, or kept through a reset) is still in the
\* file and the Keychain still opens it, until they ask for it to go: no orphan
\* check, no interrupted rotation and no late retry of a wipe takes it away.
IdentityKept ==
    faults = 0 /\ promise = "kept" => ~NoFile /\ file.data = "user" /\ Opens

\* Once the duress wipe deleted the wrap row, whatever kill interrupts it, every
\* later surface is that of a clean install: no passcode slot, nothing of the
\* old data (eraseAndReinitialize's ordering contract).
WipeIsFinal ==
    faults = 0 /\ promise = "wiped" /\ Doing("up") => passcode = {} /\ file.data = "default"

\* eraseKeyMaterial answers true only when every row and the enclave key are
\* gone, with Keychain calls failing at any point and over its retries.
ConfirmedErase ==
    Doing("erased") /\ proc.ok =>
        {rows.wrap, rows.salt, rows.staged, enclave} = {Absent}

\* With Keychain calls failing too, rotateKeyMaterial takes the Keychain from
\* deriving the key of the file to not deriving it in one step only: staging a
\* new salt over one that was staged before and could not be promoted.
RotationKeepsKey ==
    [][/\ proc.pc \in {"due", "rekey", "vacuum", "live", "clear", "stamp"}
       /\ Opens /\ ~Opens'
       => Doing("due") /\ faults > 0 /\ file.salt = rows.staged]_keyVars

=============================================================================
