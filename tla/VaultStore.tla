----------------------------- MODULE VaultStore -----------------------------
(***************************************************************************)
(* The encrypted store of src/storage/vault_store.cpp: server processes    *)
(* that open one vault path, keep its secrets in memory and replace the    *)
(* file on every change (write_file_atomically), over a file system that   *)
(* may lose what has not been synchronised.                                *)
(*                                                                         *)
(* The steps of a process are the system calls after which another process,*)
(* a crash or a power failure can observe something.  The salt is part of  *)
(* the file, so a key stands for the pair of password and salt, and a      *)
(* sealed file opens under its own key only.  get and list change nothing; *)
(* their answers are modelled in VaultService.                             *)
(***************************************************************************)
EXTENDS Integers, FiniteSets

CONSTANTS
    Procs, NoProc,      \* server processes on one vault path
    Ids,                \* valid secret identifiers
    Values, NoSecret,   \* secret values, and the mark of an absent one
    Passwords, NoKey,   \* master passwords, and the erased key
    NoFile, NoVault,    \* no file at a path, and its abstract counterpart
    MaxSecrets,         \* maximum_secret_count
    PlaintextSize,      \* the encoded size of a map of secrets
    HeaderSize, TagSize,\* bytes of the file header and of the AEAD tag
    MaxFileSize,        \* maximum_file_size
    DirSync             \* what fsync of the parent directory may report

EmptyMap == [i \in Ids |-> NoSecret]
Maps     == [Ids -> Values \cup {NoSecret}]
Present(m) == {i \in Ids : m[i] # NoSecret}

ASSUME StoreAssumption ==
    /\ NoProc \notin Procs
    /\ NoSecret \notin Values
    /\ NoKey \notin Passwords
    /\ IsFiniteSet(Ids)
    /\ MaxSecrets \in Nat
    /\ PlaintextSize \in [Maps -> Nat]
    /\ HeaderSize \in Nat /\ TagSize \in Nat /\ MaxFileSize \in Nat
    /\ PlaintextSize[EmptyMap] <= MaxFileSize - HeaderSize - TagSize
    /\ DirSync \subseteq BOOLEAN

Kinds == {"sealed", "torn", "foreign"}
Files == [kind : Kinds, key : Passwords \cup {NoKey}, data : Maps,
          synced : BOOLEAN]

ASSUME NoFileAssumption == NoFile \notin Files /\ NoVault \notin Maps

VARIABLES
    vault,     \* the file at the vault path, as open() sees it
    durable,   \* the file the vault path names after a power failure
    flock,     \* the process that holds the exclusive lock on <path>.lock
    pc,        \* where each process is
    op,        \* what persist was called for: "create" or "edit"
    key,       \* key_
    locked,    \* locked_
    secrets,   \* secrets_
    cand,      \* the candidate map handed to persist
    tmp,       \* the temporary file of write_file_atomically
    mayHold    \* ghost: the values the callers have been promised for an id

vars == <<vault, durable, flock, pc, op, key, locked, secrets, cand, tmp,
          mayHold>>

mem  == <<key, locked, secrets>>
disk == <<vault, durable>>

PCs == {"down", "opening", "ready", "seal", "write", "sync", "rename",
        "dirsync"}

(* The process is inside persist, and has not replaced the vault file yet. *)
Persisting == {"seal", "write", "sync", "rename"}

SealedFile(k, m, s) ==
    [kind |-> "sealed", key |-> k, data |-> m, synced |-> s]
TornFile == [kind |-> "torn", key |-> NoKey, data |-> EmptyMap,
             synced |-> FALSE]
ForeignFile == [kind |-> "foreign", key |-> NoKey, data |-> EmptyMap,
                synced |-> TRUE]

WithinCount(m) == Cardinality(Present(m)) <= MaxSecrets

(* serialize_plaintext refuses a map with too many entries or bytes. *)
FitsNoTag(m) == /\ WithinCount(m)
                /\ PlaintextSize[m] <= MaxFileSize - HeaderSize

Fits(m) == /\ WithinCount(m)
           /\ PlaintextSize[m] <= MaxFileSize - HeaderSize - TagSize

(* read_file and load_existing accept the file under key k. *)
Loadable(f, k) ==
    /\ f # NoFile
    /\ f.kind = "sealed"
    /\ f.key = k
    /\ HeaderSize + TagSize + PlaintextSize[f.data] <= MaxFileSize
    /\ WithinCount(f.data)

(* What is left of a file whose name survived a power failure. *)
AfterPowerLoss(f) ==
    IF f = NoFile THEN {NoFile}
    ELSE IF f.synced THEN {f} ELSE {f, TornFile}

Contents(f) == IF f = NoFile THEN EmptyMap ELSE f.data

InitFiles == {NoFile, ForeignFile} \cup
             {SealedFile(k, EmptyMap, TRUE) : k \in Passwords}

Init == /\ vault \in InitFiles
        /\ durable = vault
        /\ flock = NoProc
        /\ pc = [p \in Procs |-> "down"]
        /\ op = [p \in Procs |-> "edit"]
        /\ key = [p \in Procs |-> NoKey]
        /\ locked = [p \in Procs |-> TRUE]
        /\ secrets = [p \in Procs |-> EmptyMap]
        /\ cand = [p \in Procs |-> EmptyMap]
        /\ tmp = [p \in Procs |-> NoFile]
        /\ mayHold = [i \in Ids |-> {Contents(vault)[i]}]

-----------------------------------------------------------------------------
(* The constructor.                                                        *)

(* acquire_file_lock: LOCK_EX | LOCK_NB, so a second process is refused.   *)
(* Here and below, an operator with a suffix is a plausible wrong version  *)
(* of the one after it; Next does not use it.                              *)
OpenNoLock(p) == /\ pc[p] = "down"
                 /\ flock' = p
                 /\ pc' = [pc EXCEPT ![p] = "opening"]
                 /\ UNCHANGED <<disk, op, mem, cand, tmp, mayHold>>

Open(p) == /\ pc[p] = "down"
           /\ flock = NoProc
           /\ flock' = p
           /\ pc' = [pc EXCEPT ![p] = "opening"]
           /\ UNCHANGED <<disk, op, mem, cand, tmp, mayHold>>

(* load_existing with the key the entered password yields. *)
Load(p, k) == /\ pc[p] = "opening"
              /\ Loadable(vault, k)
              /\ secrets' = [secrets EXCEPT ![p] = vault.data]
              /\ key' = [key EXCEPT ![p] = k]
              /\ locked' = [locked EXCEPT ![p] = FALSE]
              /\ pc' = [pc EXCEPT ![p] = "ready"]
              /\ UNCHANGED <<disk, flock, op, cand, tmp, mayHold>>

(* create_new: the path does not exist; the empty map is persisted. *)
CreateNoCheck(p, k) ==
    /\ pc[p] = "opening"
    /\ key' = [key EXCEPT ![p] = k]
    /\ locked' = [locked EXCEPT ![p] = FALSE]
    /\ cand' = [cand EXCEPT ![p] = secrets[p]]
    /\ op' = [op EXCEPT ![p] = "create"]
    /\ pc' = [pc EXCEPT ![p] = "seal"]
    /\ UNCHANGED <<disk, flock, secrets, tmp, mayHold>>

Create(p, k) ==
    /\ pc[p] = "opening"
    /\ vault = NoFile
    /\ key' = [key EXCEPT ![p] = k]
    /\ locked' = [locked EXCEPT ![p] = FALSE]
    /\ cand' = [cand EXCEPT ![p] = secrets[p]]
    /\ op' = [op EXCEPT ![p] = "create"]
    /\ pc' = [pc EXCEPT ![p] = "seal"]
    /\ UNCHANGED <<disk, flock, secrets, tmp, mayHold>>

(* The object is gone and so is what it kept in memory; the kernel drops   *)
(* the lock of the descriptor.  A temporary file that is left behind has a *)
(* random name nothing ever opens, so it is forgotten.                     *)
Gone(p) == /\ pc' = [pc EXCEPT ![p] = "down"]
           /\ flock' = IF flock = p THEN NoProc ELSE flock
           /\ op' = [op EXCEPT ![p] = "edit"]
           /\ key' = [key EXCEPT ![p] = NoKey]
           /\ locked' = [locked EXCEPT ![p] = TRUE]
           /\ secrets' = [secrets EXCEPT ![p] = EmptyMap]
           /\ cand' = [cand EXCEPT ![p] = EmptyMap]
           /\ tmp' = [tmp EXCEPT ![p] = NoFile]
           /\ UNCHANGED <<disk, mayHold>>

(* The constructor throws: a wrong password, a file it cannot use, no      *)
(* memory for the key derivation, an I/O error.                            *)
Refuse(p) == pc[p] = "opening" /\ Gone(p)

-----------------------------------------------------------------------------
(* put and remove, up to the call of persist.                              *)

Edit(p, m) == /\ cand' = [cand EXCEPT ![p] = m]
              /\ op' = [op EXCEPT ![p] = "edit"]
              /\ pc' = [pc EXCEPT ![p] = "seal"]
              /\ UNCHANGED <<disk, flock, mem, tmp, mayHold>>

(* The identifier is already there, or there is room for one more. *)
RoomForOneTooMany(p, i) == \/ secrets[p][i] # NoSecret
                           \/ Cardinality(Present(secrets[p])) <= MaxSecrets

Room(p, i) == \/ secrets[p][i] # NoSecret
              \/ Cardinality(Present(secrets[p])) < MaxSecrets

Put(p, i, v) == /\ pc[p] = "ready"
                /\ ~locked[p]
                /\ Room(p, i)
                /\ Edit(p, [secrets[p] EXCEPT ![i] = v])

Remove(p, i) == /\ pc[p] = "ready"
                /\ ~locked[p]
                /\ secrets[p][i] # NoSecret
                /\ Edit(p, [secrets[p] EXCEPT ![i] = NoSecret])

-----------------------------------------------------------------------------
(* persist and write_file_atomically, one system call at a time.           *)

Goto(p, l) == pc' = [pc EXCEPT ![p] = l]

(* Encoding and encryption, then open(O_CREAT | O_EXCL) of <path>.tmp.*: *)
(* the file is there and still incomplete.                                 *)
Seal(p) == /\ pc[p] = "seal"
           /\ ~locked[p]
           /\ Fits(cand[p])
           /\ tmp' = [tmp EXCEPT ![p] = TornFile]
           /\ Goto(p, "write")
           /\ UNCHANGED <<disk, flock, op, mem, cand, mayHold>>

(* The write loop has copied all bytes. *)
Write(p) == /\ pc[p] = "write"
            /\ tmp' = [tmp EXCEPT ![p] = SealedFile(key[p], cand[p], FALSE)]
            /\ Goto(p, "sync")
            /\ UNCHANGED <<disk, flock, op, mem, cand, mayHold>>

(* fsync and close of the temporary file. *)
SyncCloseOnly(p) == /\ pc[p] = "sync"
                /\ Goto(p, "rename")
                /\ UNCHANGED <<disk, flock, op, mem, cand, tmp, mayHold>>

Sync(p) == /\ pc[p] = "sync"
           /\ tmp' = [tmp EXCEPT ![p].synced = TRUE]
           /\ Goto(p, "rename")
           /\ UNCHANGED <<disk, flock, op, mem, cand, mayHold>>

(* rename over the vault path: other processes see the new file, a power   *)
(* failure may still bring the old one back.                               *)
Rename(p) == /\ pc[p] = "rename"
             /\ vault' = tmp[p]
             /\ tmp' = [tmp EXCEPT ![p] = NoFile]
             /\ mayHold' = [i \in Ids |-> mayHold[i] \cup {cand[p][i]}]
             /\ Goto(p, "dirsync")
             /\ UNCHANGED <<durable, flock, op, mem, cand>>

(* open and fsync of the parent directory, whose failure is ignored; then  *)
(* the caller of persist takes the candidate as its map and returns, which *)
(* is what the server acknowledges.                                        *)
SyncDir(p, ok) == /\ pc[p] = "dirsync"
                  /\ durable' = IF ok THEN vault ELSE durable
                  /\ secrets' = [secrets EXCEPT ![p] = cand[p]]
                  /\ mayHold' = [i \in Ids |-> {cand[p][i]}]
                  /\ Goto(p, "ready")
                  /\ UNCHANGED <<vault, flock, op, key, locked, cand, tmp>>

(* Any call before the rename fails, or the map does not fit: the          *)
(* temporary file is unlinked and the exception leaves persist.  A         *)
(* constructor fails with it; put and remove leave secrets_ as it was.     *)
FailKeepsCandidate(p) ==
    /\ pc[p] \in Persisting
    /\ IF op[p] = "create"
       THEN Gone(p)
       ELSE /\ tmp' = [tmp EXCEPT ![p] = NoFile]
            /\ secrets' = [secrets EXCEPT ![p] = cand[p]]
            /\ Goto(p, "ready")
            /\ UNCHANGED <<disk, flock, op, key, locked, cand, mayHold>>

Fail(p) == /\ pc[p] \in Persisting
           /\ IF op[p] = "create"
              THEN Gone(p)
              ELSE /\ tmp' = [tmp EXCEPT ![p] = NoFile]
                   /\ Goto(p, "ready")
                   /\ UNCHANGED <<disk, flock, op, mem, cand, mayHold>>

-----------------------------------------------------------------------------
(* lock, the destructor, and the ways a process or the machine goes down.  *)

Lock(p) == /\ pc[p] = "ready"
           /\ secrets' = [secrets EXCEPT ![p] = EmptyMap]
           /\ key' = [key EXCEPT ![p] = NoKey]
           /\ locked' = [locked EXCEPT ![p] = TRUE]
           /\ UNCHANGED <<disk, flock, pc, op, cand, tmp, mayHold>>

Close(p) == pc[p] = "ready" /\ Gone(p)

(* The process is killed at any point. *)
Crash(p) == pc[p] # "down" /\ Gone(p)

(* The kernel writes the directory back on its own. *)
Writeback == /\ durable # vault
             /\ durable' = vault
             /\ UNCHANGED <<vault, flock, pc, op, mem, cand, tmp, mayHold>>

PowerLoss == /\ vault' \in AfterPowerLoss(durable)
             /\ durable' = vault'
             /\ flock' = NoProc
             /\ pc' = [p \in Procs |-> "down"]
             /\ op' = [p \in Procs |-> "edit"]
             /\ key' = [p \in Procs |-> NoKey]
             /\ locked' = [p \in Procs |-> TRUE]
             /\ secrets' = [p \in Procs |-> EmptyMap]
             /\ cand' = [p \in Procs |-> EmptyMap]
             /\ tmp' = [p \in Procs |-> NoFile]
             /\ UNCHANGED mayHold

Next == \/ \E p \in Procs :
             \/ Open(p)
             \/ \E k \in Passwords : Load(p, k) \/ Create(p, k)
             \/ Refuse(p)
             \/ \E i \in Ids, v \in Values : Put(p, i, v)
             \/ \E i \in Ids : Remove(p, i)
             \/ Seal(p) \/ Write(p) \/ Sync(p) \/ Rename(p)
             \/ \E ok \in DirSync : SyncDir(p, ok)
             \/ Fail(p) \/ Lock(p) \/ Close(p) \/ Crash(p)
        \/ Writeback
        \/ PowerLoss

Spec == Init /\ [][Next]_vars

-----------------------------------------------------------------------------
(* The state has its type, no process ever works on a map with more        *)
(* secrets than maximum_secret_count, and write_file_atomically has its    *)
(* temporary file from open to rename.                                     *)
TypeOK == /\ vault \in Files \cup {NoFile}
          /\ durable \in Files \cup {NoFile}
          /\ flock \in Procs \cup {NoProc}
          /\ pc \in [Procs -> PCs]
          /\ op \in [Procs -> {"create", "edit"}]
          /\ key \in [Procs -> Passwords \cup {NoKey}]
          /\ locked \in [Procs -> BOOLEAN]
          /\ secrets \in [Procs -> Maps]
          /\ cand \in [Procs -> Maps]
          /\ \A p \in Procs : WithinCount(secrets[p]) /\ WithinCount(cand[p])
          /\ tmp \in [Procs -> Files \cup {NoFile}]
          /\ \A p \in Procs :
               pc[p] \in {"write", "sync", "rename"} => tmp[p] # NoFile
          /\ mayHold \in [Ids -> SUBSET (Values \cup {NoSecret})]

(* An unlocked store between two operations serves what the file holds,    *)
(* under the key the file is sealed with: a failed put or remove left no   *)
(* trace in memory, and no other process replaced the file under it.       *)
MemoryMatchesVault ==
    \A p \in Procs :
        pc[p] = "ready" /\ ~locked[p] =>
            /\ vault # NoFile
            /\ vault.kind = "sealed"
            /\ vault.key = key[p]
            /\ vault.data = secrets[p]

(* "Stores or replaces a secret and persists the vault": once put or       *)
(* remove has returned, whoever opens the vault next, even after a power   *)
(* failure, finds the value returned for; while one is under way, the old  *)
(* or the new value.                                                       *)
NoLostWrite ==
    \A i \in Ids : /\ Contents(vault)[i] \in mayHold[i]
                   /\ Contents(durable)[i] \in mayHold[i]

(* Whatever file the processes leave at the vault path, now or after a     *)
(* power failure, its own password opens it again: it is never torn and    *)
(* never beyond a limit load_existing enforces.                            *)
Reopenable(f) == \/ f = NoFile
                 \/ f = ForeignFile
                 \/ \E k \in Passwords : Loadable(f, k)
AlwaysReopenable == Reopenable(vault) /\ Reopenable(durable)

(* A vault is never sealed again under another key, and a file that is no  *)
(* vault is never replaced by one.                                         *)
SealKept ==
    [][vault # NoFile /\ vault' # NoFile =>
           vault'.kind = vault.kind /\ vault'.key = vault.key]_vault

(* The processes together implement one durable map that changes one       *)
(* identifier at a time.                                                   *)
View(f) == IF f = NoFile THEN NoVault ELSE f.data
Durable == INSTANCE DurableMap WITH current <- View(vault),
                                    stable <- View(durable)
ImplementsDurableMap == Durable!Spec

-----------------------------------------------------------------------------
(* Why the above holds: the inductive invariant of VaultStoreProofs.       *)

(* Every process that lives holds the file lock. *)
Exclusive == \A p \in Procs : pc[p] # "down" => flock = p

(* key_ is there exactly while the store is unlocked, and a locked store   *)
(* keeps no secret.                                                        *)
KeyState ==
    \A p \in Procs :
        IF locked[p] THEN key[p] = NoKey /\ secrets[p] = EmptyMap
                     ELSE key[p] # NoKey /\ pc[p] \notin {"down", "opening"}
KeyInUse ==
    \A p \in Procs : pc[p] \in Persisting \cup {"dirsync"} => ~locked[p]

SealedAs(f, k, m) ==
    f # NoFile /\ f.kind = "sealed" /\ f.key = k /\ f.data = m

(* Until persist replaces the file, the file holds what memory holds - or  *)
(* nothing, when persist is to create it.                                  *)
BeforeRename ==
    \A p \in Procs :
        IF pc[p] \in Persisting /\ op[p] = "create"
        THEN vault = NoFile /\ cand[p] = EmptyMap
        ELSE ~locked[p] /\ pc[p] # "dirsync" =>
                 SealedAs(vault, key[p], secrets[p])

(* A candidate differs from memory in one identifier. *)
IsEdit(m, n) == \E i \in Ids, v \in Values \cup {NoSecret} :
                    n = [m EXCEPT ![i] = v]
OneEdit ==
    \A p \in Procs :
        pc[p] \in Persisting /\ op[p] = "edit" => IsEdit(secrets[p], cand[p])

(* The temporary file is on its way to hold the candidate. *)
TempFile ==
    \A p \in Procs :
        /\ pc[p] \in {"write", "sync", "rename"} => Fits(cand[p])
        /\ pc[p] = "sync" => tmp[p] = SealedFile(key[p], cand[p], FALSE)
        /\ pc[p] = "rename" => tmp[p] = SealedFile(key[p], cand[p], TRUE)

AfterRename ==
    \A p \in Procs :
        pc[p] = "dirsync" => vault = SealedFile(key[p], cand[p], TRUE)

GoodFile(f) == Reopenable(f) /\ (f # NoFile => f.synced)

(* What a power failure brings back carries the same seal. *)
FilesGood == /\ GoodFile(vault)
             /\ GoodFile(durable)
             /\ durable # NoFile =>
                  /\ vault # NoFile
                  /\ vault.kind = durable.kind
                  /\ vault.key = durable.key

IInv == /\ TypeOK
        /\ Exclusive
        /\ KeyState
        /\ KeyInUse
        /\ BeforeRename
        /\ OneEdit
        /\ TempFile
        /\ AfterRename
        /\ FilesGood
=============================================================================
