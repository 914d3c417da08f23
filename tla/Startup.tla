------------------------------ MODULE Startup ------------------------------
(***************************************************************************)
(* What main of the server (src/server/main.cpp) does before it serves:    *)
(* it looks whether there is a vault, asks for the password once or twice, *)
(* and makes a vault_store, whose constructor sees to a private directory  *)
(* (ensure_private_parent, src/common/io.cpp), takes the lock and opens or *)
(* creates the vault.  Several servers start on one vault, some of them in *)
(* its directory under a path without directory part; their users type any *)
(* passwords, change the permissions of the directory and remove the       *)
(* vault; processes are killed and the power fails.                        *)
(*                                                                         *)
(* The temporary file of a new vault is in VaultStore; a start adds the    *)
(* directory, and what a power failure leaves of it.                       *)
(***************************************************************************)
CONSTANTS
    Servers, Nobody,    \* servers on one vault, and a lock that is free
    Bare,               \* servers whose path has no directory part
    Passwords,          \* what users type
    NoPassword,         \* main has none
    NoVault,            \* no file at the path
    Umasked             \* what create_directories makes: "wide" or "private"

Privacy == {"none", "checked", "synced"}
Vaults == [key : Passwords, confirmed : BOOLEAN, privacy : Privacy]

ASSUME StartupAssumption ==
    /\ Nobody \notin Servers /\ Bare \subseteq Servers
    /\ NoPassword \notin Passwords
    /\ NoVault \notin Vaults
    /\ Umasked \in {"wide", "private"}

VARIABLES
    dir,        \* the directory of the vault, open to others if "wide"
    onDisk,     \* the directory after a power failure
    vault,      \* the file, known by its key, with two ghosts: whether the
                \* password was confirmed at its creation, and what its maker
                \* knew of the directory: nothing, that it was private, or
                \* that the disk has it so
    stored,     \* the vault after a power failure
    lock,       \* the server that holds the flock
    pc,         \* where each server is
    creating,   \* creating of main
    typed,      \* password of main, then key_ of the store
    removed     \* ghost: others have taken the vault away

files  == <<dir, onDisk, vault, stored>>
main   == <<creating, typed>>
server == <<lock, pc, main>>
vars   == <<files, server, removed>>

Places == {"down", "prompt", "confirm", "mkdir", "chmod", "lstat", "lock",
           "exists", "load", "create", "sync", "handlers", "serving"}
Directories == {"none", "wide", "private"}

Init == /\ dir \in Directories
        /\ vault \in Vaults \cup {NoVault}
        /\ vault # NoVault => /\ dir # "none" /\ vault.confirmed
                             /\ vault.privacy = IF dir = "private" THEN "synced"
                                               ELSE "none"
        /\ onDisk = dir /\ stored = vault
        /\ lock = Nobody
        /\ pc = [s \in Servers |-> "down"]
        /\ creating = [s \in Servers |-> FALSE]
        /\ typed = [s \in Servers |-> NoPassword]
        /\ removed = FALSE

Goto(s, place) == pc' = [pc EXCEPT ![s] = place]

(* A server ends: the kernel, or the destructor, releases its lock. *)
End(s) == /\ Goto(s, "down")
          /\ lock' = IF lock = s THEN Nobody ELSE lock
          /\ creating' = [creating EXCEPT ![s] = FALSE]
          /\ typed' = [typed EXCEPT ![s] = NoPassword]

(* The next step if c holds; otherwise an exception, which main reports.   *)
Require(s, c, place) == IF c THEN Goto(s, place) /\ UNCHANGED <<lock, main>>
                             ELSE End(s)

-----------------------------------------------------------------------------
(* main                                                                    *)

(* A path without directory part is one in the working directory.          *)
Start(s) == /\ pc[s] = "down"
            /\ s \in Bare => dir # "none"
            /\ creating' = [creating EXCEPT ![s] = (vault = NoVault)]
            /\ Goto(s, "prompt")
            /\ UNCHANGED <<files, lock, typed, removed>>

Prompt(s, p) == /\ pc[s] = "prompt"
                /\ typed' = [typed EXCEPT ![s] = p]
                /\ Goto(s, IF creating[s] THEN "confirm" ELSE "mkdir")
                /\ UNCHANGED <<files, lock, creating, removed>>

(* Here and below, an operator with a suffix is a plausible wrong version  *)
(* of the one after it; Next does not use it.                              *)
ConfirmOther(s, p) ==
    /\ pc[s] = "confirm"
    /\ creating' = [creating EXCEPT ![s] = (p = typed[s])]
    /\ Goto(s, "mkdir")
    /\ UNCHANGED <<files, lock, typed, removed>>

Confirm(s, p) == /\ pc[s] = "confirm"
                 /\ Require(s, p = typed[s], "mkdir")
                 /\ UNCHANGED <<files, removed>>

Handlers(s) == /\ pc[s] = "handlers"
               /\ Goto(s, "serving")
               /\ UNCHANGED <<files, lock, main, removed>>

(* run returns after a signal, and the store is destroyed. *)
Stop(s) == /\ pc[s] = "serving"
           /\ End(s)
           /\ UNCHANGED <<files, removed>>

-----------------------------------------------------------------------------
(* ensure_private_parent, which does nothing without a directory part      *)
MakeDirectory(s) ==
    /\ pc[s] = "mkdir"
    /\ IF s \in Bare THEN UNCHANGED dir /\ Goto(s, "lock")
       ELSE IF dir = "none" THEN dir' = Umasked /\ Goto(s, "chmod")
       ELSE UNCHANGED dir /\ Goto(s, "lstat")
    /\ UNCHANGED <<onDisk, vault, stored, lock, main, removed>>

Chmod(s) == /\ pc[s] = "chmod"
            /\ dir' = "private"
            /\ Goto(s, "lstat")
            /\ UNCHANGED <<onDisk, vault, stored, lock, main, removed>>

Lstat(s) == /\ pc[s] = "lstat"
            /\ Require(s, dir = "private", "lock")
            /\ UNCHANGED <<files, removed>>

-----------------------------------------------------------------------------
(* The constructor of vault_store                                          *)

LockByAnyone(s) == /\ pc[s] = "lock"
                   /\ lock' = s
                   /\ Goto(s, "exists")
                   /\ UNCHANGED <<files, main, removed>>

(* acquire_file_lock; "vault is already open" ends the server. *)
Lock(s) == /\ pc[s] = "lock"
           /\ IF lock = Nobody
              THEN lock' = s /\ Goto(s, "exists") /\ UNCHANGED main
              ELSE End(s)
           /\ UNCHANGED <<files, removed>>

Exists(s) == /\ pc[s] = "exists"
             /\ Goto(s, IF vault = NoVault THEN "create" ELSE "load")
             /\ UNCHANGED <<files, lock, main, removed>>

(* load_existing; the file may be gone, or opens under another password. *)
Load(s) == /\ pc[s] = "load"
           /\ Require(s, vault # NoVault /\ vault.key = typed[s], "handlers")
           /\ UNCHANGED <<files, removed>>

NewVault(s) == [key |-> typed[s], confirmed |-> creating[s],
                privacy |-> IF s \in Bare THEN "none" ELSE "checked"]

CreateUnchecked(s) == /\ pc[s] = "create"
                      /\ vault' = NewVault(s)
                      /\ Goto(s, "sync")
                      /\ UNCHANGED <<dir, onDisk, stored, lock, main, removed>>

(* create_new, down to the rename of write_file_atomically, which begins   *)
(* with another look at the directory.                                     *)
Create(s) == /\ pc[s] = "create"
             /\ Require(s, s \in Bare \/ dir = "private", "sync")
             /\ vault' = IF s \in Bare \/ dir = "private" THEN NewVault(s)
                         ELSE vault
             /\ UNCHANGED <<dir, onDisk, stored, removed>>

Synced(v) == IF v # NoVault /\ v.privacy = "checked"
             THEN [v EXCEPT !.privacy = "synced"] ELSE v

(* open and fsync of the directory, the name of which another directory    *)
(* has.  A failure is ignored; without a directory part it is certain.     *)
SyncDir(s, done) ==
    /\ pc[s] = "sync"
    /\ done => s \notin Bare
    /\ IF done THEN /\ vault' = Synced(vault) /\ stored' = vault'
                    /\ onDisk' = IF onDisk = "none" THEN "none" ELSE dir
               ELSE UNCHANGED <<onDisk, vault, stored>>
    /\ Goto(s, "handlers")
    /\ UNCHANGED <<dir, lock, main, removed>>

(* An exception before the store is there, or a signal, for which there    *)
(* are no handlers yet; afterwards only a signal that has none kills.      *)
Fail(s) == /\ pc[s] # "down"
           /\ End(s)
           /\ UNCHANGED <<files, removed>>

-----------------------------------------------------------------------------
(* Users, and the machine                                                  *)

RemoveVault == /\ vault # NoVault
               /\ vault' = NoVault
               /\ removed' = TRUE
               /\ UNCHANGED <<dir, onDisk, stored, server>>

(* Nobody vouches for the directory of this vault any more.                *)
Exposed(v) == IF v = NoVault THEN v ELSE [v EXCEPT !.privacy = "none"]

OpenDirectory == /\ dir = "private"
                 /\ dir' = "wide"
                 /\ vault' = Exposed(vault) /\ stored' = Exposed(stored)
                 /\ UNCHANGED <<onDisk, server, removed>>

CloseDirectory == /\ dir = "wide"
                  /\ dir' = "private"
                  /\ UNCHANGED <<onDisk, vault, stored, server, removed>>

(* The permissions of the directory and what is in it reach the disk by    *)
(* themselves, and in any order.                                           *)
Writeback == /\ \/ onDisk' = dir /\ UNCHANGED stored
                \/ stored' = vault /\ UNCHANGED onDisk
             /\ UNCHANGED <<dir, vault, server, removed>>

Survivor == IF onDisk = "none" THEN NoVault
            ELSE IF stored # NoVault /\ stored.privacy = "checked"
            THEN Exposed(stored) ELSE stored

PowerLoss == /\ dir' = onDisk
             /\ vault' = Survivor /\ stored' = Survivor
             /\ lock' = Nobody
             /\ pc' = [s \in Servers |-> "down"]
             /\ creating' = [s \in Servers |-> FALSE]
             /\ typed' = [s \in Servers |-> NoPassword]
             /\ UNCHANGED <<onDisk, removed>>

ServerNext(s) == \/ Start(s) \/ Handlers(s) \/ Stop(s) \/ Fail(s)
                 \/ (\E p \in Passwords : Prompt(s, p) \/ Confirm(s, p))
                 \/ MakeDirectory(s) \/ Chmod(s) \/ Lstat(s)
                 \/ Lock(s) \/ Exists(s) \/ Load(s) \/ Create(s)
                 \/ (\E done \in BOOLEAN : SyncDir(s, done))

Next == (\E s \in Servers : ServerNext(s))
        \/ RemoveVault \/ OpenDirectory \/ CloseDirectory
        \/ Writeback \/ PowerLoss

Spec == Init /\ [][Next]_vars

-----------------------------------------------------------------------------
(* The state has its type, and who is past the lock holds it.              *)
TypeOK == /\ dir \in Directories /\ onDisk \in Directories
          /\ vault \in Vaults \cup {NoVault}
          /\ stored \in Vaults \cup {NoVault}
          /\ lock \in Servers \cup {Nobody}
          /\ pc \in [Servers -> Places]
          /\ creating \in [Servers -> BOOLEAN]
          /\ typed \in [Servers -> Passwords \cup {NoPassword}]
          /\ removed \in BOOLEAN
          /\ \A s \in Servers :
               /\ pc[s] \in {"exists", "load", "create", "sync", "handlers",
                            "serving"} => lock = s
               /\ pc[s] \notin {"down", "prompt"} => typed[s] \in Passwords

(* A vault is created under a password typed twice, although main decides  *)
(* that before it has the lock - unless others take a vault away.          *)
ConfirmedUnlessRemoved == vault # NoVault => vault.confirmed \/ removed

(* A server that has opened its vault has the key of the file at the path  *)
(* as long as there is one: another that starts meanwhile, or after the    *)
(* file was removed, does not put a vault of its own there.                *)
ServesItsVault ==
    \A s \in Servers : pc[s] \in {"sync", "handlers", "serving"} =>
        IF vault = NoVault THEN removed ELSE vault.key = typed[s]

(* "Creates a private parent directory for a path when necessary": a vault *)
(* made under a path with a directory part is in a directory that denies   *)
(* access to others, until somebody opens it - after kills at any moment   *)
(* of this and other servers, and after a power failure unless that fell   *)
(* before the directory was synchronised, or this had failed.              *)
VaultIsPrivate ==
    vault # NoVault /\ vault.privacy # "none" => dir = "private"

-----------------------------------------------------------------------------
(* What the disk has of the directory, and what a server knows of the      *)
(* vault it has looked for; with the properties this is inductive.         *)
DiskIsPrivate ==
    /\ dir = "none" => vault = NoVault /\ stored = NoVault
    /\ \A v \in {vault, stored} :
         v # NoVault /\ v.privacy = "synced" =>
             dir = "private" /\ onDisk # "wide"

LookedFor ==
    /\ \A s \in Servers :
         /\ pc[s] # "down" /\ s \in Bare => dir # "none"
         /\ pc[s] = "create" => vault = NoVault
         /\ pc[s] # "down" /\ ~creating[s] => vault # NoVault \/ removed
    /\ stored # NoVault => stored.confirmed \/ removed

IInv == /\ TypeOK
        /\ DiskIsPrivate
        /\ LookedFor
        /\ ConfirmedUnlessRemoved
        /\ ServesItsVault
        /\ VaultIsPrivate
=============================================================================
