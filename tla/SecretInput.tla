---------------------------- MODULE SecretInput ----------------------------
(***************************************************************************)
(* zeta_vault_ctl put reads the secret from a private file                 *)
(* (read_private_file, src/ctl/ctl.cpp) that other programs of the user    *)
(* may change, replace or remove meanwhile.                                *)
(*                                                                         *)
(* A byte of a file is the number of the change that wrote it, so that two *)
(* contents are equal only if they are one.  read() may return any part of *)
(* what is left; the model reads byte by byte, which has all the           *)
(* interleavings of larger parts among its own.                            *)
(***************************************************************************)
EXTENDS Naturals, Sequences, FiniteSets

CONSTANTS
    Files, Missing,  \* files (inodes), and the mark for a path that is free
    KindOf,         \* what each file is to fstat
    Modes,          \* sets of ways in which files may change together
    Limit,          \* maximum_secret_size
    MaxLength,      \* bound: length of a file
    MaxChanges      \* bound: changes of contents

ASSUME InputAssumption ==
    /\ Missing \notin Files
    /\ KindOf \in [Files -> {"private", "shared", "symlink"}]
    /\ Modes \subseteq SUBSET {"append", "truncate", "overwrite"}
    /\ Limit \in Nat /\ MaxLength \in Nat /\ MaxChanges \in Nat

VARIABLES
    path,       \* the file at secret_path
    content,    \* of every file
    changes,    \* how often a content has changed
    mode,       \* the ways in which contents change in this behaviour
    at,         \* where read_private_file is
    fd,         \* the file it has opened
    want,       \* metadata.st_size
    data,       \* what it has read
    start,      \* ghost: the content when fstat looked
    held        \* ghost: the contents of the open file since it was opened

file   == <<path, content, changes, mode>>
reader == <<at, fd, want, data>>
inputVars == <<file, reader, start, held>>

Contents == Seq(0 .. MaxChanges)
Regular == {f \in Files : KindOf[f] # "symlink"}

InputInit == /\ path \in Files \cup {Missing}
             /\ content \in [Files -> {[k \in 1 .. n |-> 0] :
                                         n \in 0 .. MaxLength}]
             /\ \A f \in Files \ Regular : content[f] = <<>>
             /\ changes = 0
             /\ mode \in Modes
             /\ at = "open" /\ fd = Missing /\ want = 0 /\ data = <<>>
             /\ start = <<>> /\ held = {}

-----------------------------------------------------------------------------
(* open with O_NOFOLLOW: from now on the path does not matter. *)
Open == /\ at = "open"
        /\ IF path = Missing \/ KindOf[path] = "symlink"
           THEN at' = "refused" /\ UNCHANGED <<fd, held>>
           ELSE /\ at' = "stat"
                /\ fd' = path
                /\ held' = {content[path]}
        /\ UNCHANGED <<file, want, data, start>>

(* Here and below, an operator with a suffix is a plausible wrong version  *)
(* of the one after it; InputNext does not use it.                         *)
StatPath == /\ at = "stat"
            /\ IF path # Missing /\ KindOf[path] = "private"
                  /\ Len(content[path]) <= Limit
               THEN /\ at' = "read"
                    /\ want' = Len(content[path])
                    /\ start' = content[path]
               ELSE at' = "refused" /\ UNCHANGED <<want, start>>
            /\ UNCHANGED <<file, fd, data, held>>

(* fstat and the tests of type, owner, permissions and size. *)
Stat == /\ at = "stat"
        /\ IF KindOf[fd] = "private" /\ Len(content[fd]) <= Limit
           THEN /\ at' = "read"
                /\ want' = Len(content[fd])
                /\ start' = content[fd]
           ELSE at' = "refused" /\ UNCHANGED <<want, start>>
        /\ UNCHANGED <<file, fd, data, held>>

Received == Len(data)

ReadShort == /\ at = "read"
             /\ Received < want
             /\ IF Len(content[fd]) <= Received
                THEN at' = "stored" /\ UNCHANGED data
                ELSE /\ data' = Append(data, content[fd][Received + 1])
                     /\ UNCHANGED at
             /\ UNCHANGED <<file, fd, want, start, held>>

(* One read of the loop: the end of the file comes too early, or a byte. *)
Read == /\ at = "read"
        /\ Received < want
        /\ IF Len(content[fd]) <= Received
           THEN at' = "changed" /\ UNCHANGED data
           ELSE /\ data' = Append(data, content[fd][Received + 1])
                /\ UNCHANGED at
        /\ UNCHANGED <<file, fd, want, start, held>>

ExtraOffByOne == /\ at = "read"
                 /\ Received = want
                 /\ at' = IF Len(content[fd]) >= want THEN "changed"
                                                        ELSE "stored"
                 /\ UNCHANGED <<file, fd, want, data, start, held>>

ExtraSkipped == /\ at = "read"
                /\ Received = want
                /\ at' = "stored"
                /\ UNCHANGED <<file, fd, want, data, start, held>>

(* The last read expects the end of the file; then the value is sent. *)
Extra == /\ at = "read"
         /\ Received = want
         /\ at' = IF Len(content[fd]) > want THEN "changed" ELSE "stored"
         /\ UNCHANGED <<file, fd, want, data, start, held>>

(* An error of fstat, read or close. *)
ReadFails == /\ at \in {"stat", "read"}
             /\ at' = "refused"
             /\ UNCHANGED <<file, fd, want, data, start, held>>

-----------------------------------------------------------------------------
(* Other programs: the path names another file, or none; a content changes *)
(* in one of the ways of this behaviour.                                   *)
Replace == /\ path' \in (Files \cup {Missing}) \ {path}
           /\ UNCHANGED <<content, changes, mode, reader, start, held>>

Change(f, way, c) ==
    /\ way \in mode
    /\ changes < MaxChanges
    /\ changes' = changes + 1
    /\ content' = [content EXCEPT ![f] = c]
    /\ held' = IF f = fd THEN held \cup {c} ELSE held
    /\ UNCHANGED <<path, mode, reader, start>>

Grow(f) == /\ Len(content[f]) < MaxLength
           /\ Change(f, "append", Append(content[f], changes + 1))

Truncate(f, n) == Change(f, "truncate", SubSeq(content[f], 1, n))

Overwrite(f, n) ==
    Change(f, "overwrite", [content[f] EXCEPT ![n] = changes + 1])

OthersNext == \/ Replace
              \/ \E f \in Regular :
                   \/ Grow(f)
                   \/ \E n \in 0 .. Len(content[f]) - 1 : Truncate(f, n)
                   \/ \E n \in 1 .. Len(content[f]) : Overwrite(f, n)

InputNext == Open \/ Stat \/ Read \/ Extra \/ ReadFails \/ OthersNext

InputSpec == InputInit /\ [][InputNext]_inputVars

-----------------------------------------------------------------------------
(* The state has its type, and there is an open file from the first look   *)
(* at it on.                                                               *)
InputTypeOK == /\ path \in Files \cup {Missing}
               /\ content \in [Files -> Contents]
               /\ changes \in 0 .. MaxChanges
               /\ mode \in Modes
               /\ at \in {"open", "stat", "read",
                          "stored", "changed", "refused"}
               /\ fd \in Files \cup {Missing}
               /\ at \in {"stat", "read", "stored", "changed"} => fd \in Files
               /\ want \in Nat
               /\ data \in Contents /\ Len(data) <= want
               /\ start \in Contents
               /\ held \in SUBSET Contents

(* What is stored is what the file held at one moment of the reading,      *)
(* never a mixture, if files only grow or only shrink while they are read. *)
WholeContent == /\ at = "stored"
                /\ mode \in {{"append"}, {"truncate"}}
                => data \in held

(* A file that only grows is stored as it is when the reading ends, not as *)
(* it was when fstat looked at it.                                         *)
GrowthNoticed ==
    [][at' = "stored" /\ mode = {"append"} => data = content[fd]]_at

(* Every byte comes from the very file that fstat found private and small  *)
(* enough, whatever has become of the path.                                *)
FromCheckedFile == data # <<>> \/ at = "stored" =>
                       KindOf[fd] = "private" /\ Len(data) <= Limit

(* A change is reported only if there was one: a file left alone is never  *)
(* refused as changing.                                                    *)
ChangedIsTrue == at = "changed" => Cardinality(held) > 1

-----------------------------------------------------------------------------
(* What the reader knows once fstat has looked, and how the content it     *)
(* reads is related to the one that was there then.                        *)
Opened == {"stat", "read", "stored", "changed"}
Looked == Opened \ {"stat"}
OneWay == mode \in {{"append"}, {"truncate"}}

Known == /\ IsFiniteSet(held)
         /\ at \in {"open", "stat"} => data = <<>>
         /\ at \in Opened => content[fd] \in held
         /\ at \in Looked => /\ KindOf[fd] = "private"
                            /\ start \in held
                            /\ want = Len(start)
                            /\ want <= Limit
         /\ at = "stored" => Len(data) = want

ReadFromStart == OneWay /\ at \in Looked =>
                     \A k \in 1 .. Len(data) : data[k] = start[k]

SameAsStart ==
    OneWay /\ at \in Looked =>
        /\ \A k \in 1 .. Len(content[fd]) :
              k <= want => content[fd][k] = start[k]
        /\ mode = {"append"} => Len(content[fd]) >= want
        /\ mode = {"truncate"} => Len(content[fd]) <= want

HasChanged == at = "changed" => \E s, t \in held : s # t

InputInv == /\ InputTypeOK
            /\ FromCheckedFile
            /\ Known
            /\ ReadFromStart
            /\ SameAsStart
            /\ HasChanged
=============================================================================
