---------------------------- MODULE SecretOutput ----------------------------
(***************************************************************************)
(* zeta_vault_ctl get writes the secret to a new file                      *)
(* (write_new_file_atomically, src/ctl/ctl.cpp).  Several gets to one path *)
(* run at once, other programs create, replace and remove what is at the   *)
(* path, processes are killed and the power fails.                         *)
(*                                                                         *)
(* Every get has a temporary file under a random name of its own.  The     *)
(* directory on the disk follows the one in memory when it is synchronised *)
(* or written back; both names belong to one directory, so they follow     *)
(* together.                                                               *)
(***************************************************************************)
EXTENDS Naturals

CONSTANTS Gets,             \* runs of zeta_vault_ctl get to one path
          NoFile, Other     \* what else can be at the path: nothing, a file
                            \* of another program

ASSUME OutputAssumption ==
    /\ NoFile \notin Gets /\ Other \notin Gets /\ NoFile # Other

VARIABLES
    target,     \* what the path names
    temp,       \* whether the temporary name of a get is there
    written,    \* how much of a get's file holds its data
    synced,     \* whether fsync of that file has returned
    onDisk,     \* the two kinds of names in the directory on the disk
    pc,         \* where each get is
    safe,       \* ghost: whether its directory was synchronised
    removed,    \* ghost: whether others have taken away a file of the path
    lost        \* ghost: whether the power has failed

names == <<target, temp>>
files == <<written, synced>>
ghost == <<safe, removed, lost>>
outputVars  == <<names, files, onDisk, pc, ghost>>

Writing == {"write", "sync", "rename"}
Running == Writing \cup {"start", "dirsync"}

OutputInit == /\ target \in {NoFile, Other}
              /\ temp = [g \in Gets |-> FALSE]
              /\ written = [g \in Gets |-> "none"]
              /\ synced = [g \in Gets |-> FALSE]
              /\ onDisk = [target |-> target, temp |-> temp]
              /\ pc = [g \in Gets |-> "start"]
              /\ safe = [g \in Gets |-> FALSE]
              /\ removed = FALSE
              /\ lost = FALSE

Goto(g, place) == pc' = [pc EXCEPT ![g] = place]

-----------------------------------------------------------------------------
(* write_new_file_atomically                                               *)

(* The parent is a directory; open with O_EXCL of the random name. *)
Create(g) == /\ pc[g] = "start"
             /\ temp' = [temp EXCEPT ![g] = TRUE]
             /\ written' = [written EXCEPT ![g] = "part"]
             /\ Goto(g, "write")
             /\ UNCHANGED <<target, synced, onDisk, ghost>>

(* It is not, or open fails: there is nothing to clean up. *)
Refuse(g) == /\ pc[g] = "start"
             /\ Goto(g, "failed")
             /\ UNCHANGED <<names, files, onDisk, ghost>>

(* fchmod, and the loop of write. *)
Write(g) == /\ pc[g] = "write"
            /\ written' = [written EXCEPT ![g] = "whole"]
            /\ Goto(g, "sync")
            /\ UNCHANGED <<names, synced, onDisk, ghost>>

(* Here and below, an operator with a suffix is a plausible wrong version  *)
(* of the one after it; OutputNext does not use it.                        *)
SyncCloseOnly(g) == /\ pc[g] = "sync"
                    /\ Goto(g, "rename")
                    /\ UNCHANGED <<names, files, onDisk, ghost>>

(* fsync and close. *)
Sync(g) == /\ pc[g] = "sync"
           /\ synced' = [synced EXCEPT ![g] = TRUE]
           /\ Goto(g, "rename")
           /\ UNCHANGED <<names, written, onDisk, ghost>>

RenameOver(g) == /\ pc[g] = "rename"
                 /\ target' = g
                 /\ temp' = [temp EXCEPT ![g] = FALSE]
                 /\ Goto(g, "dirsync")
                 /\ UNCHANGED <<files, onDisk, ghost>>

(* renameat2 with RENAME_NOREPLACE. *)
Rename(g) == /\ pc[g] = "rename"
             /\ target = NoFile
             /\ target' = g
             /\ temp' = [temp EXCEPT ![g] = FALSE]
             /\ Goto(g, "dirsync")
             /\ UNCHANGED <<files, onDisk, ghost>>

SyncDirReported(g, ok) ==
    /\ pc[g] = "dirsync"
    /\ onDisk' = IF ok THEN [target |-> target, temp |-> temp] ELSE onDisk
    /\ safe' = [safe EXCEPT ![g] = ok]
    /\ Goto(g, IF ok THEN "done" ELSE "failed")
    /\ UNCHANGED <<names, files, removed, lost>>

(* open and fsync of the directory, whose failure is ignored. *)
SyncDir(g, ok) ==
    /\ pc[g] = "dirsync"
    /\ onDisk' = IF ok THEN [target |-> target, temp |-> temp] ELSE onDisk
    /\ safe' = [safe EXCEPT ![g] = ok]
    /\ Goto(g, "done")
    /\ UNCHANGED <<names, files, removed, lost>>

FailUnlinksPath(g) == /\ pc[g] \in Writing
                      /\ target' = NoFile
                      /\ Goto(g, "failed")
                      /\ UNCHANGED <<temp, files, onDisk, ghost>>

(* A call fails, EEXIST of the rename among them: catch unlinks. *)
Fail(g) == /\ pc[g] \in Writing
           /\ temp' = [temp EXCEPT ![g] = FALSE]
           /\ Goto(g, "failed")
           /\ UNCHANGED <<target, files, onDisk, ghost>>

Crash(g) == /\ pc[g] \in Running
            /\ Goto(g, "killed")
            /\ UNCHANGED <<names, files, onDisk, ghost>>

-----------------------------------------------------------------------------
(* Other programs, and the machine.                                        *)
Others == /\ target' \in {NoFile, Other}
          /\ removed' = (removed \/ target # NoFile)
          /\ UNCHANGED <<temp, files, onDisk, pc, safe, lost>>

Writeback == /\ onDisk' = [target |-> target, temp |-> temp]
             /\ UNCHANGED <<names, files, pc, ghost>>

(* A file that was not synchronised may have lost its data. *)
PowerLoss == /\ target' = onDisk.target
             /\ temp' = onDisk.temp
             /\ written' \in {w \in [Gets -> {"none", "part", "whole"}] :
                                \A g \in Gets :
                                   \/ w[g] = written[g]
                                   \/ ~synced[g] /\ w[g] = "part"}
             /\ pc' = [g \in Gets |-> IF pc[g] \in Running THEN "killed"
                                      ELSE pc[g]]
             /\ lost' = TRUE
             /\ UNCHANGED <<synced, onDisk, safe, removed>>

GetNext(g) == \/ Create(g) \/ Refuse(g) \/ Write(g) \/ Sync(g) \/ Rename(g)
              \/ (\E ok \in BOOLEAN : SyncDir(g, ok))
              \/ Fail(g) \/ Crash(g)

OutputNext == (\E g \in Gets : GetNext(g)) \/ Others \/ Writeback \/ PowerLoss

OutputSpec == OutputInit /\ [][OutputNext]_outputVars

-----------------------------------------------------------------------------
Targets == Gets \cup {NoFile, Other}

(* The state has its type; a get that is writing has its temporary file,   *)
(* unless the power failed, with as much in it as its place says.          *)
OutputTypeOK == /\ target \in Targets
                /\ temp \in [Gets -> BOOLEAN]
                /\ written \in [Gets -> {"none", "part", "whole"}]
                /\ synced \in [Gets -> BOOLEAN]
                /\ onDisk \in [target : Targets, temp : [Gets -> BOOLEAN]]
                /\ pc \in [Gets -> Running \cup {"done", "failed", "killed"}]
                /\ safe \in [Gets -> BOOLEAN]
                /\ removed \in BOOLEAN /\ lost \in BOOLEAN
                /\ \A g \in Gets :
                     /\ pc[g] \in Writing => temp[g]
                     /\ pc[g] \in {"sync", "rename"} => written[g] = "whole"

(* "get creates a new mode-0600 file and never overwrites": the file of a  *)
(* get comes only to a free path, however the gets and others race.  (A    *)
(* power failure may bring an earlier file back.)                          *)
NeverReplaces == [][target' \in Gets /\ target' # target =>
                        target = NoFile \/ PowerLoss]_outputVars

(* Whoever opens the path finds all of a secret or nothing of it, after a  *)
(* kill and a power failure too.                                           *)
PublishedWhole == target \in Gets => written[target] = "whole"

(* A get that reported success has its file at the path until others take  *)
(* it away - another get never does - and after a power failure as well,   *)
(* if the directory could be synchronised.                                 *)
SuccessStays == \A g \in Gets :
                    pc[g] = "done" => \/ target = g
                                      \/ removed
                                      \/ lost /\ ~safe[g]

(* A get that reported failure has put nothing at the path, and the        *)
(* plaintext under a temporary name outlives its get only if that was      *)
(* killed or the power failed; the unlink of the clean-up, whose result    *)
(* the code ignores, is taken to succeed.                                  *)
NoRemains == \A g \in Gets :
                 /\ pc[g] = "failed" => target # g
                 /\ temp[g] => pc[g] \in Writing \cup {"killed"} \/ lost

-----------------------------------------------------------------------------
(* What has once been renamed is complete and on the disk.                 *)
Complete(f) == f \in Gets => /\ written[f] = "whole"
                             /\ synced[f]
                             /\ pc[f] \in {"dirsync", "done", "killed"}

Published == /\ Complete(target)
             /\ Complete(onDisk.target)
             /\ \A g \in Gets : pc[g] = "rename" => synced[g]

(* Where the file of a get is, from its rename on.                         *)
Placed == \A g \in Gets :
             /\ pc[g] = "dirsync" => target = g \/ removed
             /\ pc[g] = "done" /\ safe[g] => onDisk.target = g \/ removed

OutputInv == /\ OutputTypeOK
             /\ Published
             /\ Placed
             /\ SuccessStays
             /\ NoRemains
=============================================================================
