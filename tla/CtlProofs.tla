----------------------------- MODULE CtlProofs -----------------------------
(***************************************************************************)
(* Proofs about the commands of zeta_vault_ctl: put (SecretInput) for      *)
(* files of every length, every limit and every number of changes; get     *)
(* (SecretOutput) for every number of gets; put-utf8 and show-utf8 (Utf8)  *)
(* for every value; and what follows for Ctl, which composes them.         *)
(***************************************************************************)
EXTENDS Ctl, FiniteSetTheorems, SequenceTheorems, TLAPS

-----------------------------------------------------------------------------
(* SecretInput                                                             *)

(* How a content that others give the open file relates to start. *)
Follows(c) == /\ \A k \in 1 .. Len(c) : k <= want => c[k] = start[k]
              /\ mode = {"append"} => Len(c) >= want
              /\ mode = {"truncate"} => Len(c) <= want

LEMMA InputInvInit == InputInit => InputInv
<1> SUFFICES ASSUME InputInit PROVE InputInv
  OBVIOUS
<1> USE InputAssumption
<1>1. content \in [Files -> Contents]
  <2>1. \A n \in 0 .. MaxLength : [k \in 1 .. n |-> 0] \in Contents
    BY DEF Contents
  <2> QED BY <2>1 DEF InputInit
<1>2. data \in Contents /\ start \in Contents /\ data = <<>>
  BY EmptySeq DEF InputInit, Contents
<1>3. IsFiniteSet(held)
  BY FS_EmptySet DEF InputInit
<1> QED BY <1>1, <1>2, <1>3
        DEF InputInit, InputInv, InputTypeOK, FromCheckedFile, Known, ReadFromStart,
            SameAsStart, HasChanged, Opened, Looked

(* The steps of the reader. *)
LEMMA OpenInv == InputInv /\ Open => InputInv'
<1> SUFFICES ASSUME InputInv, Open PROVE InputInv'
  OBVIOUS
<1> USE InputAssumption DEF InputInv
<1>1. /\ path' = path /\ content' = content /\ changes' = changes
      /\ mode' = mode /\ want' = want /\ data' = data /\ start' = start
  BY DEF Open, file
<1>2. CASE at' = "refused" /\ UNCHANGED <<fd, held>>
  BY <1>1, <1>2
  DEF InputTypeOK, FromCheckedFile, Known, ReadFromStart, SameAsStart, HasChanged,
      Opened, Looked, Open
<1>3. CASE /\ at' = "stat" /\ path \in Files /\ fd' = path
           /\ held' = {content[path]}
  <2>1. IsFiniteSet(held')
    BY <1>3, FS_Singleton
  <2> QED
    BY <1>1, <1>3, <2>1
    DEF InputTypeOK, FromCheckedFile, Known, ReadFromStart, SameAsStart, HasChanged,
        Opened, Looked, Open
<1> QED BY <1>2, <1>3 DEF Open, InputTypeOK

LEMMA StatInv == InputInv /\ Stat => InputInv'
<1> SUFFICES ASSUME InputInv, Stat PROVE InputInv'
  OBVIOUS
<1> USE InputAssumption DEF InputInv
<1>1. /\ path' = path /\ content' = content /\ changes' = changes
      /\ mode' = mode /\ fd' = fd /\ data' = data /\ held' = held
      /\ data = <<>> /\ fd \in Files /\ at = "stat"
  BY DEF Stat, file, Known, InputTypeOK
<1>2. CASE at' = "refused" /\ UNCHANGED <<want, start>>
  BY <1>1, <1>2
  DEF InputTypeOK, FromCheckedFile, Known, ReadFromStart, SameAsStart, HasChanged,
      Opened, Looked
<1>3. CASE /\ KindOf[fd] = "private" /\ Len(content[fd]) <= Limit
           /\ at' = "read" /\ want' = Len(content[fd]) /\ start' = content[fd]
  <2>1. start' \in Contents /\ want' \in Nat /\ Len(data) = 0
    BY <1>1, <1>3 DEF InputTypeOK, Contents
  <2> QED
    BY <1>1, <1>3, <2>1
    DEF InputTypeOK, FromCheckedFile, Known, ReadFromStart, SameAsStart, HasChanged,
        Opened, Looked
<1> QED BY <1>2, <1>3 DEF Stat

LEMMA ReadInv == InputInv /\ Read => InputInv'
<1> SUFFICES ASSUME InputInv, Read PROVE InputInv'
  OBVIOUS
<1> USE DEF InputInv
<1>1. /\ path' = path /\ content' = content /\ changes' = changes
      /\ mode' = mode /\ fd' = fd /\ want' = want /\ start' = start
      /\ held' = held /\ at = "read" /\ Len(data) < want /\ fd \in Files
  BY DEF Read, file, Received, InputTypeOK
<1>2. content[fd] \in Contents /\ start \in Contents /\ data \in Contents
  BY <1>1 DEF InputTypeOK
<1>3. CASE /\ Len(content[fd]) <= Received
           /\ at' = "changed" /\ UNCHANGED data
  <2>1. content[fd] # start /\ content[fd] \in held /\ start \in held
    BY <1>1, <1>2, <1>3 DEF Known, Opened, Looked, Received, Contents
  <2>2. InputTypeOK' /\ FromCheckedFile' /\ HasChanged'
    BY <1>1, <1>3, <2>1 DEF InputTypeOK, FromCheckedFile, HasChanged
  <2>3. Known' /\ ReadFromStart' /\ SameAsStart'
    BY <1>1, <1>3
    DEF Known, ReadFromStart, SameAsStart, OneWay, Opened, Looked
  <2> QED BY <2>2, <2>3
<1>4. CASE /\ Len(content[fd]) > Received
           /\ data' = Append(data, content[fd][Received + 1])
           /\ UNCHANGED at
  <2> DEFINE n == Len(data) + 1
             b == content[fd][n]
  <2>1. n \in 1 .. Len(content[fd]) /\ n \in Nat /\ n <= want
    BY <1>1, <1>2, <1>4 DEF Received, Contents, InputTypeOK
  <2>2. b \in 0 .. MaxChanges
    BY <1>2, <2>1, ElementOfSeq DEF Contents
  <2>3. /\ data' \in Contents /\ Len(data') = n
        /\ \A k \in 1 .. n : data'[k] = IF k = n THEN b ELSE data[k]
    BY <1>2, <1>4, <2>1, <2>2 DEF Received, Contents
  <2>4. ReadFromStart'
    BY <1>1, <1>4, <2>1, <2>3 DEF ReadFromStart, SameAsStart, OneWay, Looked,
                                  Opened
  <2> HIDE DEF b
  <2>5. InputTypeOK' /\ HasChanged'
    BY <1>1, <1>4, <2>1, <2>3 DEF InputTypeOK, HasChanged
  <2>6. Known' /\ SameAsStart'
    BY <1>1, <1>4 DEF Known, SameAsStart, OneWay, Opened, Looked
  <2>7. KindOf[fd] = "private" /\ want <= Limit /\ Limit \in Nat /\ want \in Nat
    BY <1>1, InputAssumption DEF Known, Opened, Looked, InputTypeOK
  <2>8. FromCheckedFile'
    BY <1>1, <1>4, <2>1, <2>3, <2>7 DEF FromCheckedFile
  <2> QED BY <2>4, <2>5, <2>6, <2>8
<1>5. Received \in Nat /\ Len(content[fd]) \in Nat
  BY <1>2 DEF Received, Contents
<1> QED BY <1>3, <1>4, <1>5 DEF Read

LEMMA ExtraInv == InputInv /\ Extra => InputInv'
<1> SUFFICES ASSUME InputInv, Extra PROVE InputInv'
  OBVIOUS
<1> USE DEF InputInv
<1>1. /\ path' = path /\ content' = content /\ changes' = changes
      /\ mode' = mode /\ fd' = fd /\ want' = want /\ start' = start
      /\ held' = held /\ data' = data /\ at = "read" /\ Len(data) = want
      /\ at' = IF Len(content[fd]) > want THEN "changed" ELSE "stored"
  BY DEF Extra, file, Received
<1>2. content[fd] \in held /\ start \in held /\ want = Len(start) /\ want \in Nat
  BY <1>1 DEF Known, Opened, Looked, InputTypeOK
<1>3. HasChanged'
  BY <1>1, <1>2 DEF HasChanged
<1>4. KindOf[fd] = "private" /\ want <= Limit
  BY <1>1 DEF Known, Opened, Looked
<1>5. FromCheckedFile'
  BY <1>1, <1>4 DEF FromCheckedFile
<1> QED
  BY <1>1, <1>2, <1>3, <1>4, <1>5
  DEF InputTypeOK, Known, ReadFromStart, SameAsStart, Opened, Looked, OneWay

LEMMA ReadFailsInv == InputInv /\ ReadFails => InputInv'
BY DEF InputInv, ReadFails, file, InputTypeOK, FromCheckedFile, Known, ReadFromStart,
       SameAsStart, HasChanged, Opened, Looked, OneWay

-----------------------------------------------------------------------------
(* The steps of others.                                                    *)
LEMMA ReplaceInv == InputInv /\ Replace => InputInv'
BY DEF InputInv, Replace, reader, InputTypeOK, FromCheckedFile, Known, ReadFromStart,
       SameAsStart, HasChanged, Opened, Looked, OneWay

LEMMA ChangeInv ==
    ASSUME InputInv, NEW f \in Files, NEW way, NEW c \in Contents,
           Change(f, way, c),
           f = fd /\ OneWay /\ at \in Looked => Follows(c)
    PROVE  InputInv'
<1> USE InputAssumption DEF InputInv
<1>1. /\ path' = path /\ mode' = mode /\ at' = at /\ fd' = fd /\ want' = want
      /\ data' = data /\ start' = start
      /\ content' = [content EXCEPT ![f] = c]
      /\ changes' = changes + 1 /\ changes < MaxChanges
      /\ held' = IF f = fd THEN held \cup {c} ELSE held
  BY DEF Change, reader
<1>2. /\ IsFiniteSet(held') /\ held \subseteq held' /\ held' \subseteq Contents
  BY <1>1, FS_AddElement DEF Known, InputTypeOK
<1>3. content' \in [Files -> Contents]
  BY <1>1 DEF InputTypeOK
<1>4. at \in Opened => fd \in Files /\ content'[fd] \in held'
  BY <1>1 DEF InputTypeOK, Known, Opened
<1>5. InputTypeOK'
  BY <1>1, <1>2, <1>3 DEF InputTypeOK
<1>6. FromCheckedFile' /\ ReadFromStart'
  BY <1>1 DEF FromCheckedFile, ReadFromStart, OneWay
<1>7. Known'
  BY <1>1, <1>2, <1>4 DEF Known
<1>8. HasChanged'
  BY <1>1, <1>2 DEF HasChanged
<1>9. SameAsStart'
  <2> SUFFICES ASSUME OneWay, at \in Looked
               PROVE  /\ \A k \in 1 .. Len(content'[fd]) :
                           k <= want => content'[fd][k] = start[k]
                      /\ mode = {"append"} => Len(content'[fd]) >= want
                      /\ mode = {"truncate"} => Len(content'[fd]) <= want
    BY <1>1 DEF SameAsStart, OneWay
  <2>1. fd \in Files
    BY <1>4 DEF Looked
  <2>2. CASE f = fd
    <3>1. content'[fd] = c
      BY <1>1, <2>1, <2>2 DEF InputTypeOK
    <3> QED BY <2>2, <3>1 DEF Follows
  <2>3. CASE f # fd
    <3>1. content'[fd] = content[fd]
      BY <1>1, <2>1, <2>3 DEF InputTypeOK
    <3> QED BY <3>1 DEF SameAsStart
  <2> QED BY <2>2, <2>3
<1> QED BY <1>5, <1>6, <1>7, <1>8, <1>9

LEMMA GrowInv == ASSUME InputInv, NEW f \in Regular, Grow(f) PROVE InputInv'
<1> DEFINE s == content[f]
           c == Append(s, changes + 1)
<1>1. f \in Files /\ Change(f, "append", c) /\ "append" \in mode
      /\ changes < MaxChanges
  BY DEF Grow, Regular, Change
<1>2. s \in Seq(0 .. MaxChanges) /\ changes + 1 \in 0 .. MaxChanges
  BY <1>1, InputAssumption DEF InputInv, InputTypeOK, Contents
<1>3. /\ c \in Seq(0 .. MaxChanges) /\ Len(c) = Len(s) + 1 /\ Len(s) \in Nat
      /\ \A k \in 1 .. Len(s) : c[k] = s[k]
  BY <1>2
<1>4. ASSUME f = fd, OneWay, at \in Looked PROVE Follows(c)
  <2>1. mode = {"append"}
    BY <1>1, <1>4 DEF OneWay
  <2>2. /\ \A k \in 1 .. Len(s) : k <= want => s[k] = start[k]
        /\ Len(s) >= want /\ want \in Nat
    BY <1>4, <2>1 DEF InputInv, SameAsStart, InputTypeOK
  <2>3. mode # {"truncate"}
    BY <2>1, {"append"} # {"truncate"}
  <2> HIDE DEF c, s
  <2>4. Len(c) >= want
    BY <1>3, <2>2
  <2>5. ASSUME NEW k \in 1 .. Len(c), k <= want PROVE c[k] = start[k]
    <3>1. k \in 1 .. Len(s)
      BY <1>3, <2>2, <2>5
    <3> QED BY <1>3, <2>2, <2>5, <3>1
  <2> QED BY <2>3, <2>4, <2>5 DEF Follows
<1>5. c \in Contents
  BY <1>3 DEF Contents
<1> QED BY <1>1, <1>4, <1>5, ChangeInv

LEMMA TruncateInv ==
    ASSUME InputInv, NEW f \in Regular, NEW n \in 0 .. Len(content[f]) - 1,
           Truncate(f, n)
    PROVE  InputInv'
<1> DEFINE s == content[f]
           c == SubSeq(s, 1, n)
<1>1. f \in Files /\ Change(f, "truncate", c) /\ "truncate" \in mode
  BY DEF Truncate, Regular, Change
<1>2. s \in Seq(0 .. MaxChanges)
  BY <1>1 DEF InputInv, InputTypeOK, Contents
<1>3. n \in Int /\ 0 <= n /\ n < Len(s) /\ Len(s) \in Nat
  BY <1>2
<1>4. \A k \in 1 .. n : s[k] \in 0 .. MaxChanges
  <2>1. \A k \in 1 .. n : k \in 1 .. Len(s)
    BY <1>3
  <2> QED BY <1>2, <2>1, ElementOfSeq
<1>5. /\ c \in Seq(0 .. MaxChanges) /\ Len(c) = n
      /\ \A k \in 1 .. n : c[k] = s[k]
  BY <1>3, <1>4
<1>6. ASSUME f = fd, OneWay, at \in Looked PROVE Follows(c)
  <2>1. mode = {"truncate"}
    BY <1>1, <1>6 DEF OneWay
  <2>2. /\ \A k \in 1 .. Len(s) : k <= want => s[k] = start[k]
        /\ Len(s) <= want /\ want \in Nat
    BY <1>6, <2>1 DEF InputInv, SameAsStart, InputTypeOK
  <2> HIDE DEF c, s
  <2>3. \A k \in 1 .. Len(c) : k \in 1 .. Len(s)
    BY <1>3, <1>5
  <2>4. \A k \in 1 .. Len(c) : k <= want => c[k] = start[k]
    BY <1>5, <2>2, <2>3
  <2>5. mode # {"append"}
    BY <2>1, {"append"} # {"truncate"}
  <2>6. Len(c) <= want
    BY <1>3, <1>5, <2>2
  <2> QED BY <2>4, <2>5, <2>6 DEF Follows
<1>7. c \in Contents
  BY <1>5 DEF Contents
<1> HIDE DEF c
<1> QED BY <1>1, <1>6, <1>7, ChangeInv

LEMMA OverwriteInv ==
    ASSUME InputInv, NEW f \in Regular, NEW n \in 1 .. Len(content[f]),
           Overwrite(f, n)
    PROVE  InputInv'
<1> DEFINE c == [content[f] EXCEPT ![n] = changes + 1]
<1>1. /\ f \in Files /\ Change(f, "overwrite", c) /\ "overwrite" \in mode
      /\ changes < MaxChanges
  BY DEF Overwrite, Regular, Change
<1>2. content[f] \in Seq(0 .. MaxChanges) /\ changes + 1 \in 0 .. MaxChanges
  BY <1>1, InputAssumption DEF InputInv, InputTypeOK, Contents
<1>3. c \in Contents
  BY <1>2, ExceptSeq DEF Contents
<1>4. ~OneWay
  BY <1>1 DEF OneWay
<1> HIDE DEF c
<1> QED BY <1>1, <1>3, <1>4, ChangeInv

(* InputInv is an invariant. *)
LEMMA InputInvStep == InputInv /\ [InputNext]_inputVars => InputInv'
<1> SUFFICES ASSUME InputInv, [InputNext]_inputVars PROVE InputInv'
  OBVIOUS
<1>1. CASE UNCHANGED inputVars
  BY <1>1 DEF inputVars, file, reader, InputInv, InputTypeOK, FromCheckedFile, Known,
              ReadFromStart, SameAsStart, HasChanged, OneWay
<1>2. CASE Open \/ Stat \/ Read \/ Extra \/ ReadFails
  BY <1>2, OpenInv, StatInv, ReadInv, ExtraInv, ReadFailsInv
<1>3. CASE OthersNext
  BY <1>3, ReplaceInv, GrowInv, TruncateInv, OverwriteInv DEF OthersNext
<1> QED BY <1>1, <1>2, <1>3 DEF InputNext

LEMMA InputInvariance == InputSpec => []InputInv
BY InputInvInit, InputInvStep, PTL DEF InputSpec

-----------------------------------------------------------------------------
(* Types, and a file behind every look at one. *)
THEOREM InputTypes == InputSpec => []InputTypeOK
<1>1. InputInv => InputTypeOK
  BY DEF InputInv
<1> QED BY <1>1, InputInvariance, PTL

(* A file that only grows, or only shrinks, while put reads it is stored   *)
(* as it was at one moment, or not at all.                                 *)
THEOREM NoMixture == InputSpec => []WholeContent
<1>1. InputInv => WholeContent
  <2> SUFFICES ASSUME InputInv, at = "stored", OneWay PROVE data \in held
    BY DEF WholeContent, OneWay
  <2>1. /\ start \in held /\ Len(data) = Len(start)
        /\ \A k \in 1 .. Len(data) : data[k] = start[k]
    BY DEF InputInv, Known, ReadFromStart, Looked, Opened
  <2>2. data \in Seq(0 .. MaxChanges) /\ start \in Seq(0 .. MaxChanges)
    BY DEF InputInv, InputTypeOK, Contents
  <2>3. data = start
    BY <2>1, <2>2, SeqEqual
  <2> QED BY <2>1, <2>3
<1> QED BY <1>1, InputInvariance, PTL

(* What is sent comes from the file whose owner, permissions, type and     *)
(* size were checked.                                                      *)
THEOREM CheckedFileOnly == InputSpec => []FromCheckedFile
<1>1. InputInv => FromCheckedFile
  BY DEF InputInv
<1> QED BY <1>1, InputInvariance, PTL

(* No file is refused as changing that did not change. *)
THEOREM NoFalseAlarm == InputSpec => []ChangedIsTrue
<1>1. InputInv => ChangedIsTrue
  <2> SUFFICES ASSUME InputInv, at = "changed" PROVE Cardinality(held) > 1
    BY DEF ChangedIsTrue
  <2>1. PICK s \in held, t \in held : s # t
    BY DEF InputInv, HasChanged
  <2>2. IsFiniteSet({s}) /\ Cardinality({s}) = 1
    BY FS_Singleton
  <2>3. IsFiniteSet({s} \cup {t}) /\ Cardinality({s} \cup {t}) = 1 + 1
    BY <2>1, <2>2, FS_AddElement
  <2>4. /\ IsFiniteSet(held) /\ {s} \cup {t} \in SUBSET held
        /\ Cardinality(held) \in Nat
    BY FS_CardinalityType DEF InputInv, Known
  <2>5. Cardinality({s} \cup {t}) <= Cardinality(held)
    BY <2>4, FS_Subset
  <2> QED BY <2>3, <2>4, <2>5
<1> QED BY <1>1, InputInvariance, PTL

(* A file that only grows is stored as it is at the end of the reading. *)
THEOREM GrowthIsNoticed == InputSpec => GrowthNoticed
<1>1. InputInv /\ [InputNext]_inputVars =>
        [at' = "stored" /\ mode = {"append"} => data = content[fd]]_at
  <2> SUFFICES ASSUME InputInv, InputNext, at' # at, at' = "stored", mode = {"append"}
               PROVE  data = content[fd]
    BY DEF inputVars, reader
  <2>1. Extra
    BY DEF InputNext, Open, Stat, Read, ReadFails, OthersNext, Replace, Grow,
           Truncate, Overwrite, Change, reader
  <2>2. /\ at = "read" /\ Len(data) = want /\ Len(content[fd]) <= want
        /\ fd \in Files
    BY <2>1 DEF Extra, Received, InputInv, InputTypeOK, Contents
  <2>3. /\ Len(content[fd]) >= want /\ OneWay /\ at \in Looked
        /\ \A k \in 1 .. Len(content[fd]) :
             k <= want => content[fd][k] = start[k]
    BY <2>2 DEF InputInv, SameAsStart, OneWay, Looked, Opened
  <2>4. /\ data \in Seq(0 .. MaxChanges) /\ content[fd] \in Seq(0 .. MaxChanges)
        /\ want \in Nat
    BY <2>2 DEF InputInv, InputTypeOK, Contents
  <2>5. Len(data) = Len(content[fd])
    BY <2>2, <2>3, <2>4
  <2>6. \A k \in 1 .. Len(data) : data[k] = content[fd][k]
    BY <2>2, <2>3, <2>4, <2>5 DEF InputInv, ReadFromStart
  <2> QED BY <2>4, <2>5, <2>6, SeqEqual
<1> QED BY <1>1, InputInvariance, PTL DEF InputSpec, GrowthNoticed

-----------------------------------------------------------------------------
(* SecretOutput                                                            *)

LEMMA OutputInvInit == OutputInit => OutputInv
<1> SUFFICES ASSUME OutputInit PROVE OutputInv
  OBVIOUS
<1>1. target \in {NoFile, Other} /\ onDisk.target = target
  BY DEF OutputInit
<1>2. onDisk \in [target : Targets, temp : [Gets -> BOOLEAN]]
  BY DEF OutputInit, Targets
<1>3. OutputTypeOK
  BY <1>1, <1>2 DEF OutputInit, OutputTypeOK, Targets, Running, Writing
<1>4. Published
  BY <1>1, OutputAssumption DEF OutputInit, Published, Complete
<1>5. Placed /\ SuccessStays /\ NoRemains
  BY DEF OutputInit, Placed, SuccessStays, NoRemains
<1> QED BY <1>3, <1>4, <1>5 DEF OutputInv

(* The steps of one get; each lemma is about one action. *)
LEMMA CreateInv == ASSUME OutputInv, NEW g \in Gets, Create(g) PROVE OutputInv'
BY OutputAssumption
DEF Create, Goto, ghost, OutputInv, OutputTypeOK, Targets, Running, Writing, Published,
    Complete, Placed, SuccessStays, NoRemains

LEMMA RefuseInv == ASSUME OutputInv, NEW g \in Gets, Refuse(g) PROVE OutputInv'
BY OutputAssumption
DEF Refuse, Goto, ghost, names, files, OutputInv, OutputTypeOK, Targets, Running, Writing,
    Published, Complete, Placed, SuccessStays, NoRemains

LEMMA WriteInv == ASSUME OutputInv, NEW g \in Gets, Write(g) PROVE OutputInv'
BY OutputAssumption
DEF Write, Goto, ghost, names, OutputInv, OutputTypeOK, Targets, Running, Writing,
    Published, Complete, Placed, SuccessStays, NoRemains

LEMMA SyncInv == ASSUME OutputInv, NEW g \in Gets, Sync(g) PROVE OutputInv'
BY OutputAssumption
DEF Sync, Goto, ghost, names, OutputInv, OutputTypeOK, Targets, Running, Writing,
    Published, Complete, Placed, SuccessStays, NoRemains

LEMMA RenameInv == ASSUME OutputInv, NEW g \in Gets, Rename(g) PROVE OutputInv'
BY OutputAssumption
DEF Rename, Goto, ghost, files, OutputInv, OutputTypeOK, Targets, Running, Writing,
    Published, Complete, Placed, SuccessStays, NoRemains

LEMMA SyncDirInv ==
    ASSUME OutputInv, NEW g \in Gets, NEW ok \in BOOLEAN, SyncDir(g, ok)
    PROVE  OutputInv'
BY OutputAssumption
DEF SyncDir, Goto, names, files, OutputInv, OutputTypeOK, Targets, Running, Writing,
    Published, Complete, Placed, SuccessStays, NoRemains

LEMMA FailInv == ASSUME OutputInv, NEW g \in Gets, Fail(g) PROVE OutputInv'
BY OutputAssumption
DEF Fail, Goto, ghost, files, OutputInv, OutputTypeOK, Targets, Running, Writing,
    Published, Complete, Placed, SuccessStays, NoRemains

LEMMA CrashInv == ASSUME OutputInv, NEW g \in Gets, Crash(g) PROVE OutputInv'
BY OutputAssumption
DEF Crash, Goto, ghost, names, files, OutputInv, OutputTypeOK, Targets, Running, Writing,
    Published, Complete, Placed, SuccessStays, NoRemains

-----------------------------------------------------------------------------
(* The steps of others.                                                    *)
LEMMA OthersInv == ASSUME OutputInv, Others PROVE OutputInv'
BY OutputAssumption
DEF Others, files, OutputInv, OutputTypeOK, Targets, Running, Writing, Published, Complete,
    Placed, SuccessStays, NoRemains

LEMMA WritebackInv == ASSUME OutputInv, Writeback PROVE OutputInv'
BY OutputAssumption
DEF Writeback, ghost, names, files, OutputInv, OutputTypeOK, Targets, Running, Writing,
    Published, Complete, Placed, SuccessStays, NoRemains

LEMMA PowerLossInv == ASSUME OutputInv, PowerLoss PROVE OutputInv'
BY OutputAssumption
DEF PowerLoss, OutputInv, OutputTypeOK, Targets, Running, Writing, Published, Complete,
    Placed, SuccessStays, NoRemains

(* OutputInv is an invariant. *)
LEMMA OutputInvStep == OutputInv /\ [OutputNext]_outputVars => OutputInv'
<1> SUFFICES ASSUME OutputInv, [OutputNext]_outputVars PROVE OutputInv'
  OBVIOUS
<1>1. CASE UNCHANGED outputVars
  BY <1>1 DEF outputVars, names, files, ghost, OutputInv, OutputTypeOK, Published, Complete,
              Placed, SuccessStays, NoRemains
<1>2. ASSUME NEW g \in Gets, GetNext(g) PROVE OutputInv'
  BY <1>2, CreateInv, RefuseInv, WriteInv, SyncInv, RenameInv, SyncDirInv,
     FailInv, CrashInv DEF GetNext
<1> QED BY <1>1, <1>2, OthersInv, WritebackInv, PowerLossInv DEF OutputNext

LEMMA OutputInvariance == OutputSpec => []OutputInv
BY OutputInvInit, OutputInvStep, PTL DEF OutputSpec

-----------------------------------------------------------------------------
(* Types, and the temporary file behind every writing get. *)
THEOREM OutputTypes == OutputSpec => []OutputTypeOK
<1>1. OutputInv => OutputTypeOK
  BY DEF OutputInv
<1> QED BY <1>1, OutputInvariance, PTL

(* The file of a get replaces nothing, however many gets there are. *)
THEOREM NothingReplaced == OutputSpec => NeverReplaces
<1>1. [OutputNext]_outputVars => [target' \in Gets /\ target' # target =>
                        target = NoFile \/ PowerLoss]_outputVars
  BY OutputAssumption
  DEF OutputNext, GetNext, Create, Refuse, Write, Sync, Rename, SyncDir, Fail, Crash,
      Others, Writeback, names
<1> QED BY <1>1, PTL DEF OutputSpec, NeverReplaces

(* The path never names a part of a secret. *)
THEOREM PublishedIsWhole == OutputSpec => []PublishedWhole
<1>1. OutputInv => PublishedWhole
  BY DEF OutputInv, Published, Complete, PublishedWhole
<1> QED BY <1>1, OutputInvariance, PTL

(* Success is not undone by other gets, nor by a power failure after the   *)
(* directory was synchronised.                                             *)
THEOREM SuccessIsKept == OutputSpec => []SuccessStays
<1>1. OutputInv => SuccessStays
  BY DEF OutputInv
<1> QED BY <1>1, OutputInvariance, PTL

(* A failed get leaves nothing, and plaintext stays under a temporary name *)
(* only after a kill or a power failure.                                   *)
THEOREM FailureIsClean == OutputSpec => []NoRemains
<1>1. OutputInv => NoRemains
  BY DEF OutputInv
<1> QED BY <1>1, OutputInvariance, PTL

-----------------------------------------------------------------------------
(* Utf8                                                                    *)

LEMMA WidthRange == ASSUME NEW b PROVE Width(b) \in {1, 2, 3, 4}
BY DEF Width

(* IsCharacter is what UTF-8 says: the bytes of some code point that is a  *)
(* character and does not end the line.                                    *)
LEMMA EncodedIsCharacter ==
    ASSUME NEW p \in Nat, Scalar(p), p \notin LineEnds
    PROVE  IsCharacter(Encoded(p))
<1> DEFINE c == Encoded(p)
<1>1. CASE p < 128
  <2>1. c = <<p>> /\ Len(c) = 1 /\ c[1] = p
    BY SMT, <1>1 DEF Encoded
  <2> QED BY SMT, <1>1, <2>1 DEF IsCharacter, Width, CodePoint
<1>2. CASE p >= 128 /\ p < 2048
  <2>1. /\ c = <<192 + (p \div 64), 128 + (p % 64)>> /\ Len(c) = 2
        /\ c[1] = 192 + (p \div 64) /\ c[2] = 128 + (p % 64)
    BY SMT, <1>2 DEF Encoded
  <2>2. Width(c[1]) = 2
    BY SMT, <1>2, <2>1 DEF Width
  <2>3. CodePoint(c) = p
    BY SMT, <1>2, <2>1 DEF CodePoint
  <2> QED BY SMT, <2>1, <2>2, <2>3 DEF IsCharacter
<1>3. CASE p >= 2048 /\ p < 65536
  <2>1. /\ c = <<224 + (p \div 4096), 128 + ((p \div 64) % 64),
                 128 + (p % 64)>>
        /\ Len(c) = 3 /\ c[1] = 224 + (p \div 4096)
        /\ c[2] = 128 + ((p \div 64) % 64) /\ c[3] = 128 + (p % 64)
    BY SMT, <1>3 DEF Encoded
  <2>2. Width(c[1]) = 3
    BY SMT, <1>3, <2>1 DEF Width
  <2>3. CodePoint(c) = p
    BY SMT, <1>3, <2>1 DEF CodePoint
  <2> QED BY SMT, <2>1, <2>2, <2>3 DEF IsCharacter
<1>4. CASE p >= 65536
  <2>1. /\ c = <<240 + (p \div 262144), 128 + ((p \div 4096) % 64),
                 128 + ((p \div 64) % 64), 128 + (p % 64)>>
        /\ Len(c) = 4 /\ c[1] = 240 + (p \div 262144)
        /\ c[2] = 128 + ((p \div 4096) % 64)
        /\ c[3] = 128 + ((p \div 64) % 64) /\ c[4] = 128 + (p % 64)
    BY SMT, <1>4 DEF Encoded
  <2>2. p <= 1114111
    BY SMT, <1>4 DEF Scalar
  <2>3. Width(c[1]) = 4
    BY SMT, <1>4, <2>1, <2>2 DEF Width
  <2>4. CodePoint(c) = p
    BY SMT, <1>4, <2>1, <2>2 DEF CodePoint
  <2> QED BY SMT, <2>1, <2>3, <2>4 DEF IsCharacter
<1> QED BY SMT, <1>1, <1>2, <1>3, <1>4

(* A short sequence of bytes, byte by byte. *)
LEMMA ByteAt ==
    ASSUME NEW c \in Seq(Byte), NEW k \in Nat, 1 <= k, k <= Len(c)
    PROVE  c[k] \in Nat /\ c[k] <= 255
<1>1. c[k] \in Byte
  <2>1. k \in 1 .. Len(c)
    BY SMT
  <2> QED BY <2>1, ElementOfSeq
<1>2. \A b \in Byte : b \in Nat /\ b <= 255
  BY SMT DEF Byte
<1> QED BY <1>1, <1>2

LEMMA OneByte ==
    ASSUME NEW c \in Seq(Byte), Len(c) = 1
    PROVE  /\ c[1] \in Nat /\ c[1] <= 255
           /\ c = <<c[1]>>
<1>1. c[1] \in Nat /\ c[1] <= 255
  BY ByteAt, SMTT(30)
<1>5. c = <<c[1]>>
  BY SeqEqual, SMT
<1> QED BY <1>1, <1>5

LEMMA TwoBytes ==
    ASSUME NEW c \in Seq(Byte), Len(c) = 2
    PROVE  /\ c[1] \in Nat /\ c[1] <= 255
           /\ c[2] \in Nat /\ c[2] <= 255
           /\ c = <<c[1], c[2]>>
<1>1. c[1] \in Nat /\ c[1] <= 255
  BY ByteAt, SMTT(30)
<1>2. c[2] \in Nat /\ c[2] <= 255
  BY ByteAt, SMTT(30)
<1>5. c = <<c[1], c[2]>>
  BY SeqEqual, SMT
<1> QED BY <1>1, <1>2, <1>5

LEMMA ThreeBytes ==
    ASSUME NEW c \in Seq(Byte), Len(c) = 3
    PROVE  /\ c[1] \in Nat /\ c[1] <= 255
           /\ c[2] \in Nat /\ c[2] <= 255
           /\ c[3] \in Nat /\ c[3] <= 255
           /\ c = <<c[1], c[2], c[3]>>
<1>1. c[1] \in Nat /\ c[1] <= 255
  BY ByteAt, SMTT(30)
<1>2. c[2] \in Nat /\ c[2] <= 255
  BY ByteAt, SMTT(30)
<1>3. c[3] \in Nat /\ c[3] <= 255
  BY ByteAt, SMTT(30)
<1>5. c = <<c[1], c[2], c[3]>>
  BY SeqEqual, SMT
<1> QED BY <1>1, <1>2, <1>3, <1>5

LEMMA FourBytes ==
    ASSUME NEW c \in Seq(Byte), Len(c) = 4
    PROVE  /\ c[1] \in Nat /\ c[1] <= 255
           /\ c[2] \in Nat /\ c[2] <= 255
           /\ c[3] \in Nat /\ c[3] <= 255
           /\ c[4] \in Nat /\ c[4] <= 255
           /\ c = <<c[1], c[2], c[3], c[4]>>
<1>1. c[1] \in Nat /\ c[1] <= 255
  <2>1. 1 \in Nat /\ 1 <= 1 /\ 1 <= Len(c)
    BY SMT
  <2> QED BY <2>1, ByteAt
<1>2. c[2] \in Nat /\ c[2] <= 255
  <2>1. 2 \in Nat /\ 1 <= 2 /\ 2 <= Len(c)
    BY SMT
  <2> QED BY <2>1, ByteAt
<1>3. c[3] \in Nat /\ c[3] <= 255
  <2>1. 3 \in Nat /\ 1 <= 3 /\ 3 <= Len(c)
    BY SMT
  <2> QED BY <2>1, ByteAt
<1>4. c[4] \in Nat /\ c[4] <= 255
  <2>1. 4 \in Nat /\ 1 <= 4 /\ 4 <= Len(c)
    BY SMT
  <2> QED BY <2>1, ByteAt
<1>5. c = <<c[1], c[2], c[3], c[4]>>
  BY SeqEqual, SMT
<1> QED BY <1>1, <1>2, <1>3, <1>4, <1>5

LEMMA CodePointThree ==
    ASSUME NEW a \in Nat, NEW b \in Nat, NEW d \in Nat, Width(a) = 3
    PROVE  CodePoint(<<a, b, d>>) \in Nat
BY SMT DEF CodePoint, Width

LEMMA CodePointFour ==
    ASSUME NEW a \in Nat, NEW b \in Nat, NEW d \in Nat, NEW e \in Nat
    PROVE  CodePoint(<<a, b, d, e>>) \in Nat
BY SMT DEF CodePoint

LEMMA CodePointNat ==
    ASSUME NEW c \in Seq(Byte), IsCharacter(c)
    PROVE  CodePoint(c) \in Nat
<1>1. Len(c) = Width(c[1]) /\ Width(c[1]) \in {1, 2, 3, 4}
  BY WidthRange DEF IsCharacter
<1>2. CASE Width(c[1]) = 1
  <2>0. Len(c) = 1
    BY <1>1, <1>2
  <2>1. c[1] \in Nat
    BY <2>0, OneByte
  <2> QED BY SMT, <1>2, <2>1 DEF CodePoint, Width
<1>3. CASE Width(c[1]) = 2
  <2>0. Len(c) = 2
    BY <1>1, <1>3
  <2>1. c[1] \in Nat /\ c[2] \in Nat
    BY <2>0, TwoBytes
  <2> QED BY SMT, <1>3, <2>1 DEF CodePoint, Width
<1>4. CASE Width(c[1]) = 3
  <2>0. Len(c) = 3
    BY <1>1, <1>4
  <2>1. /\ c[1] \in Nat /\ c[1] <= 255
        /\ c[2] \in Nat /\ c[2] <= 255
        /\ c[3] \in Nat /\ c[3] <= 255
        /\ c = <<c[1], c[2], c[3]>>
    BY <2>0, ThreeBytes
  <2>2. CodePoint(<<c[1], c[2], c[3]>>) \in Nat
    BY <1>4, <2>1, CodePointThree
  <2> QED BY <2>1, <2>2
<1>5. CASE Width(c[1]) = 4
  <2>0. Len(c) = 4
    BY <1>1, <1>5
  <2>1. /\ c[1] \in Nat /\ c[1] <= 255
        /\ c[2] \in Nat /\ c[2] <= 255
        /\ c[3] \in Nat /\ c[3] <= 255
        /\ c[4] \in Nat /\ c[4] <= 255
        /\ c = <<c[1], c[2], c[3], c[4]>>
    BY <2>0, FourBytes
  <2>2. CodePoint(<<c[1], c[2], c[3], c[4]>>) \in Nat
    BY <2>1, CodePointFour
  <2> QED BY <2>1, <2>2
<1> QED BY <1>1, <1>2, <1>3, <1>4, <1>5

(* IsCharacter says of a sequence that it encodes some code point that is  *)
(* a character and does not end the line.                                  *)
THEOREM CharacterIsEncoded ==
    ASSUME NEW c \in Seq(Byte)
    PROVE  IsCharacter(c) <=> \E p \in Nat : /\ Scalar(p) /\ p \notin LineEnds
                                             /\ c = Encoded(p)
<1>1. IsCharacter(c) => CodePoint(c) \in Nat
  BY CodePointNat
<1>2. IsCharacter(c) => Scalar(CodePoint(c)) /\ CodePoint(c) \notin LineEnds
                        /\ c = Encoded(CodePoint(c))
  BY SMT DEF IsCharacter
<1> QED BY <1>1, <1>2, EncodedIsCharacter

(* The byte ranges of is_valid_single_line_utf8 take exactly the           *)
(* characters: of one, two, three and four bytes.                          *)
LEMMA WellFormedOne ==
    ASSUME NEW a \in Nat, a <= 255
    PROVE  WellFormed(<<a>>) <=> IsCharacter(<<a>>)
BY SMT DEF WellFormed, IsCharacter, Width, CodePoint, Scalar, LineEnds,
       Encoded, Continuation

LEMMA WellFormedTwo ==
    ASSUME NEW a \in Nat, a <= 255,
           NEW b \in Nat, b <= 255
    PROVE  WellFormed(<<a, b>>) <=> IsCharacter(<<a, b>>)
BY SMT DEF WellFormed, IsCharacter, Width, CodePoint, Scalar, LineEnds,
       Encoded, Continuation

LEMMA WellFormedThree ==
    ASSUME NEW a \in Nat, a <= 255,
           NEW b \in Nat, b <= 255,
           NEW d \in Nat, d <= 255
    PROVE  WellFormed(<<a, b, d>>) <=> IsCharacter(<<a, b, d>>)
BY SMT DEF WellFormed, IsCharacter, Width, CodePoint, Scalar, LineEnds,
       Encoded, Continuation

LEMMA WellFormedFour ==
    ASSUME NEW a \in Nat, a <= 255,
           NEW b \in Nat, b <= 255,
           NEW d \in Nat, d <= 255,
           NEW e \in Nat, e <= 255
    PROVE  WellFormed(<<a, b, d, e>>) <=> IsCharacter(<<a, b, d, e>>)
BY SMTT(60) DEF WellFormed, IsCharacter, Width, CodePoint, Scalar, LineEnds,
       Encoded, Continuation

(* What the first walk takes is exactly what UTF-8 calls a character.      *)
THEOREM WellFormedIsCharacter ==
    ASSUME NEW c \in Seq(Byte)
    PROVE  WellFormed(c) <=> IsCharacter(c)
<1>1. CASE Len(c) = 1
  <2>1. /\ c[1] \in Nat /\ c[1] <= 255
        /\ c = <<c[1]>>
    BY <1>1, OneByte
  <2>2. WellFormed(<<c[1]>>)
        <=> IsCharacter(<<c[1]>>)
    BY <2>1, WellFormedOne
  <2> QED BY <2>1, <2>2
<1>2. CASE Len(c) = 2
  <2>1. /\ c[1] \in Nat /\ c[1] <= 255
        /\ c[2] \in Nat /\ c[2] <= 255
        /\ c = <<c[1], c[2]>>
    BY <1>2, TwoBytes
  <2>2. WellFormed(<<c[1], c[2]>>)
        <=> IsCharacter(<<c[1], c[2]>>)
    BY <2>1, WellFormedTwo
  <2> QED BY <2>1, <2>2
<1>3. CASE Len(c) = 3
  <2>1. /\ c[1] \in Nat /\ c[1] <= 255
        /\ c[2] \in Nat /\ c[2] <= 255
        /\ c[3] \in Nat /\ c[3] <= 255
        /\ c = <<c[1], c[2], c[3]>>
    BY <1>3, ThreeBytes
  <2>2. WellFormed(<<c[1], c[2], c[3]>>)
        <=> IsCharacter(<<c[1], c[2], c[3]>>)
    BY <2>1, WellFormedThree
  <2> QED BY <2>1, <2>2
<1>4. CASE Len(c) = 4
  <2>1. /\ c[1] \in Nat /\ c[1] <= 255
        /\ c[2] \in Nat /\ c[2] <= 255
        /\ c[3] \in Nat /\ c[3] <= 255
        /\ c[4] \in Nat /\ c[4] <= 255
        /\ c = <<c[1], c[2], c[3], c[4]>>
    BY <1>4, FourBytes
  <2>2. WellFormed(<<c[1], c[2], c[3], c[4]>>)
        <=> IsCharacter(<<c[1], c[2], c[3], c[4]>>)
    BY <2>1, WellFormedFour
  <2> QED BY <2>1, <2>2
<1>5. CASE Len(c) \notin {1, 2, 3, 4}
  <2>1. ~WellFormed(c)
    BY SMT, <1>5 DEF WellFormed
  <2>2. ~IsCharacter(c)
    BY <1>5, WidthRange DEF IsCharacter
  <2> QED BY <2>1, <2>2
<1> QED BY <1>1, <1>2, <1>3, <1>4, <1>5

-----------------------------------------------------------------------------
(* A part of the value, and how long a character in it is.                 *)
LEMMA PartOfText ==
    ASSUME text \in Seq(Byte), NEW i \in Nat, NEW n \in 1 .. 4,
           i + n <= Len(text)
    PROVE  /\ SubSeq(text, i + 1, i + n) \in Seq(Byte)
           /\ Len(SubSeq(text, i + 1, i + n)) = n
           /\ SubSeq(text, i + 1, i + n)[1] = text[i + 1]
<1>0. Len(text) \in Nat
  BY LenProperties
<1>1. n \in Nat /\ n >= 1 /\ i + 1 \in Int /\ i + n \in Int
  BY SMT
<1>2. \A k \in i + 1 .. i + n : text[k] \in Byte
  <2>1. \A k \in i + 1 .. i + n : k \in 1 .. Len(text)
    BY <1>0, <1>1, SMT
  <2> QED BY <2>1, ElementOfSeq
<1> DEFINE c == SubSeq(text, i + 1, i + n)
<1>3. /\ c \in Seq(Byte)
      /\ Len(c) = IF i + 1 <= i + n THEN i + n - (i + 1) + 1 ELSE 0
      /\ \A k \in 1 .. i + n - (i + 1) + 1 : c[k] = text[i + 1 + k - 1]
  BY <1>1, <1>2, SubSeqProperties, SMTT(60)
<1> HIDE DEF c
<1>4. Len(c) = n
  BY <1>1, <1>3, SMT
<1>5. c[1] = text[i + 1]
  <2>1. 1 \in 1 .. i + n - (i + 1) + 1 /\ i + 1 + 1 - 1 = i + 1
    BY <1>1, SMT
  <2> QED BY <1>3, <2>1
<1> QED BY <1>3, <1>4, <1>5 DEF c

LEMMA CharacterWidth ==
    ASSUME text \in Seq(Byte), NEW i \in Nat, NEW n \in 1 .. 4,
           CharacterAt(i, n)
    PROVE  n = WidthAt(i)
BY PartOfText DEF CharacterAt, IsCharacter, WidthAt

LEMMA WidthAtRange == ASSUME NEW i PROVE WidthAt(i) \in 1 .. 4
BY WidthRange, SMT DEF WidthAt

LEMMA InitUtf8Inv == Utf8Init => Utf8Inv
BY TextsAssumption, SMT
   DEF Utf8Init, Utf8Inv, Utf8TypeOK, Apart, SecondWalk, Refusal, Walked

(* The two walks keep the invariant: the first one by what it takes for a  *)
(* character, the second one because it can only stop where the first has. *)
LEMMA StepUtf8Inv == Utf8Inv /\ [Utf8Next]_utf8Vars => Utf8Inv'
<1> SUFFICES ASSUME Utf8Inv, [Utf8Next]_utf8Vars PROVE Utf8Inv'
  OBVIOUS
<1>0. /\ text \in Seq(Byte) /\ Len(text) \in Nat /\ index \in Nat
      /\ starts \subseteq 0 .. Len(text) - 1
      /\ \A i : WidthAt(i) \in 1 .. 4
  BY LenProperties, WidthAtRange DEF Utf8Inv, Utf8TypeOK
<1>1. CASE UNCHANGED utf8Vars
  BY <1>1 DEF utf8Vars, Utf8Inv, Utf8TypeOK, Apart, SecondWalk, Refusal, Walked,
     CharacterAt, SafeAt, WidthAt
<1>2. CASE Empty
  BY <1>0, <1>2, SMT
     DEF Empty, Utf8Inv, Utf8TypeOK, Apart, SecondWalk, Refusal, Walked,
         CharacterAt, SafeAt, WidthAt
<1>3. CASE Accept
  <2>1. PICK n \in 1 .. 4 : /\ n <= Rest /\ WellFormed(Part(n))
                            /\ index' = index + n
    BY <1>3 DEF Accept
  <2>2. index + n <= Len(text)
    BY <1>0, <2>1, SMT DEF Rest
  <2>3. CharacterAt(index, n)
    BY <1>0, <2>1, <2>2, PartOfText, WellFormedIsCharacter
       DEF CharacterAt, Part
  <2>4. n = WidthAt(index)
    BY <1>0, <2>3, CharacterWidth
  <2>5. Utf8TypeOK'
    BY <1>0, <1>3, <2>1, <2>2, SMT DEF Accept, Utf8Inv, Utf8TypeOK
  <2>6. Apart'
    <3>1. /\ text' = text /\ phase' = phase /\ phase = "validate"
          /\ starts' = starts \cup {index} /\ Walked = index
          /\ Walked' = index' /\ index' = index + WidthAt(index)
      BY <1>3, <2>1, <2>4 DEF Accept, Walked
    <3>2. \A i \in starts : /\ CharacterAt(i, WidthAt(i))
                             /\ i + WidthAt(i) \in starts \cup {index}
                             /\ i + WidthAt(i) <= index
                             /\ \A j \in starts : i < j => i + WidthAt(i) <= j
      BY <3>1 DEF Utf8Inv, Apart
    <3>3. /\ CharacterAt(index, WidthAt(index))
          /\ index + WidthAt(index) <= Len(text)
          /\ index = 0 \/ 0 \in starts
      <4>1. Walked = 0 \/ 0 \in starts
        BY DEF Utf8Inv, Apart
      <4> QED BY <2>2, <2>3, <2>4, <3>1, <4>1
    <3>4. \A i \in starts \cup {index} :
             /\ CharacterAt(i, WidthAt(i))
             /\ i + WidthAt(i) \in starts \cup {index, index + WidthAt(index)}
             /\ i + WidthAt(i) <= index + WidthAt(index)
             /\ \A j \in starts \cup {index} : i < j => i + WidthAt(i) <= j
      <4> SUFFICES ASSUME NEW i \in starts \cup {index}
                   PROVE  /\ CharacterAt(i, WidthAt(i))
                          /\ i + WidthAt(i)
                             \in starts \cup {index, index + WidthAt(index)}
                          /\ i + WidthAt(i) <= index + WidthAt(index)
                          /\ \A j \in starts \cup {index} :
                                i < j => i + WidthAt(i) <= j
        OBVIOUS
      <4>1. WidthAt(index) \in Nat /\ WidthAt(i) \in Nat /\ i \in Nat
            /\ WidthAt(i) >= 1
        BY <1>0, SMT
      <4>2. CASE i \in starts
        BY <1>0, <3>2, <4>1, <4>2, SMT
      <4>3. CASE i = index
        <5>1. \A j \in starts : j < index
          <6> SUFFICES ASSUME NEW j \in starts PROVE j < index
            OBVIOUS
          <6>1. WidthAt(j) \in Nat /\ WidthAt(j) >= 1 /\ j \in Nat
            BY <1>0, SMT
          <6> QED BY <1>0, <3>2, <6>1, SMT
        <5> QED BY <1>0, <3>3, <4>1, <4>3, <5>1, SMT
      <4> QED BY <4>2, <4>3
    <3>5. /\ \A i \in starts' : /\ CharacterAt(i, WidthAt(i))'
                                /\ i + WidthAt(i)' \in (starts \cup {Walked})'
                                /\ i + WidthAt(i)' <= Walked'
                                /\ \A j \in starts' :
                                      i < j => i + WidthAt(i)' <= j
          /\ Walked' = 0 \/ 0 \in starts'
      BY <3>1, <3>3, <3>4 DEF CharacterAt, WidthAt
    <3> QED BY <1>0, <3>1, <3>3, <3>5, SMT DEF Apart
  <2> QED BY <1>3, <2>5, <2>6 DEF Accept, Utf8Inv, SecondWalk, Refusal
<1>4. CASE Reject
  <2>1. \A n \in 1 .. 4 : ~CharacterAt(index, n)
    <3> SUFFICES ASSUME NEW n \in 1 .. 4, CharacterAt(index, n)
                 PROVE  n <= Rest /\ WellFormed(Part(n))
      BY <1>4 DEF Reject
    <3>1. index + n <= Len(text)
      BY DEF CharacterAt
    <3>2. n <= Rest
      BY <1>0, <3>1, SMT DEF Rest
    <3>3. SubSeq(text, index + 1, index + n) \in Seq(Byte)
      BY <1>0, <3>1, PartOfText
    <3> QED BY <3>2, <3>3, WellFormedIsCharacter DEF CharacterAt, Part
  <2> QED BY <1>4, <2>1
          DEF Reject, Utf8Inv, Utf8TypeOK, Apart, SecondWalk, Refusal, Walked,
              CharacterAt, SafeAt, WidthAt
<1>5. CASE Valid
  BY <1>0, <1>5, SMT
     DEF Valid, Utf8Inv, Utf8TypeOK, Apart, SecondWalk, Refusal, Walked,
         CharacterAt, SafeAt, WidthAt
<1>6. CASE Display
  <2>1. index \in starts /\ Walked = Len(text)
    BY <1>0, <1>6, SMT DEF Display, Utf8Inv, SecondWalk, Walked
  <2>2. index' = index + WidthAt(index)
    BY <1>6 DEF Display, FirstByte, WidthAt
  <2>3. CharacterAt(index, WidthAt(index))
    BY <2>1 DEF Utf8Inv, Apart
  <2>4. TerminalSafe(CodePoint(Part(WidthAt(index)))) <=> SafeAt(index)
    <3>1. CodePoint(SubSeq(text, index + 1, index + WidthAt(index))) \in Nat
      BY <1>0, <2>3, PartOfText, CodePointNat DEF CharacterAt
    <3> QED BY <3>1, SMT DEF TerminalSafe, SafeAt, Control, Part
  <2>5. phase' = IF SafeAt(index) THEN phase ELSE "unsafe"
    BY <1>6, <2>4 DEF Display, FirstByte, WidthAt
  <2>6. Utf8TypeOK' /\ Refusal'
    BY <1>0, <1>6, <2>2, <2>5, SMT
       DEF Display, Utf8Inv, Utf8TypeOK, Refusal
  <2>7. Apart'
    BY <1>0, <1>6, <2>1, <2>2, <2>5, SMT
       DEF Display, Utf8Inv, Apart, Walked, CharacterAt, WidthAt
  <2>8. SecondWalk'
    BY <1>0, <1>6, <2>1, <2>2, <2>5, SMT
       DEF Display, Utf8Inv, Apart, SecondWalk, SafeAt, WidthAt
  <2> QED BY <2>6, <2>7, <2>8 DEF Utf8Inv
<1>7. CASE Show
  BY <1>0, <1>7, SMT
     DEF Show, Utf8Inv, Utf8TypeOK, Apart, SecondWalk, Refusal, Walked,
         CharacterAt, SafeAt, WidthAt
<1> QED BY <1>1, <1>2, <1>3, <1>4, <1>5, <1>6, <1>7 DEF Utf8Next

LEMMA Utf8Invariance == Utf8Spec => []Utf8Inv
BY InitUtf8Inv, StepUtf8Inv, PTL DEF Utf8Spec

-----------------------------------------------------------------------------
(* The state of the walks has its type.                                    *)
THEOREM TextTypes == Utf8Spec => []Utf8TypeOK
<1>1. Utf8Inv => Utf8TypeOK
  BY DEF Utf8Inv
<1> QED BY <1>1, Utf8Invariance, PTL

(* put-utf8 stores, and show-utf8 goes on with, only a value that is UTF-8 *)
(* from its first byte to its last and of one line; what it refuses is not.*)
THEOREM ValueIsUtf8 == Utf8Spec => []SingleLineUtf8
<1>1. Utf8Inv => SingleLineUtf8
  <2> SUFFICES ASSUME Utf8Inv PROVE SingleLineUtf8
    OBVIOUS
  <2>1. \A i : WidthAt(i) \in 1 .. 4
    BY WidthAtRange
  <2> QED BY <2>1 DEF Utf8Inv, Apart, Refusal, SingleLineUtf8
<1> QED BY <1>1, Utf8Invariance, PTL

(* The second walk of show-utf8 stays inside the value it was given,       *)
(* although it looks at the first byte of a character only.                *)
THEOREM SecondWalkStaysInside == Utf8Spec => []ReadsInside
<1>1. Utf8Inv => ReadsInside
  <2> SUFFICES ASSUME Utf8Inv, phase = "display", index < Len(text)
               PROVE  index + Width(FirstByte) <= Len(text)
    BY DEF ReadsInside
  <2>1. Len(text) \in Nat /\ index \in Nat
    BY LenProperties DEF Utf8Inv, Utf8TypeOK
  <2>2. index \in starts
    BY <2>1, SMT DEF Utf8Inv, SecondWalk
  <2>3. index + WidthAt(index) <= Len(text)
    BY <2>2 DEF Utf8Inv, Apart, Walked
  <2> QED BY <2>3 DEF FirstByte, WidthAt
<1> QED BY <1>1, Utf8Invariance, PTL

(* show-utf8 writes a value to the terminal exactly when no character of   *)
(* it is a control character.                                              *)
THEOREM TerminalGetsNoControl == Utf8Spec => []ShownIsSafe
<1>1. Utf8Inv => ShownIsSafe
  <2> SUFFICES ASSUME Utf8Inv PROVE ShownIsSafe
    OBVIOUS
  <2>1. text \in Seq(Byte) /\ \A i \in starts : i \in Nat
    BY LenProperties, SMT DEF Utf8Inv, Utf8TypeOK
  <2>2. \A i \in starts, n \in 1 .. 4 :
          CharacterAt(i, n)
          => (Control(CodePoint(SubSeq(text, i + 1, i + n))) <=> ~SafeAt(i))
    BY <2>1, CharacterWidth DEF SafeAt
  <2>3. \A i \in starts : CharacterAt(i, WidthAt(i)) /\ WidthAt(i) \in 1 .. 4
    BY WidthAtRange DEF Utf8Inv, Apart
  <2> QED BY <2>2, <2>3 DEF Utf8Inv, SecondWalk, ShownIsSafe
<1> QED BY <1>1, Utf8Invariance, PTL

-----------------------------------------------------------------------------
(* Ctl                                                                     *)

(* A command of zeta_vault_ctl behaves as its component does, and the      *)
(* components of the other commands rest. *)
THEOREM CommandsBehave == Spec => InputSpec /\ OutputSpec /\ Utf8Spec
<1>1. Init => InputInit /\ OutputInit /\ Utf8Init
  BY DEF Init
<1>2. [Next]_allVars => /\ [InputNext]_inputVars
                        /\ [OutputNext]_outputVars
                        /\ [Utf8Next]_utf8Vars
  <2> SUFFICES ASSUME [Next]_allVars
               PROVE  /\ InputNext \/ UNCHANGED inputVars
                      /\ OutputNext \/ UNCHANGED outputVars
                      /\ Utf8Next \/ UNCHANGED utf8Vars
    OBVIOUS
  <2>1. CASE Put
    BY <2>1, Zenon DEF Put
  <2>2. CASE Get
    BY <2>2, Zenon DEF Get
  <2>3. CASE Text
    BY <2>3, Zenon DEF Text
  <2>4. CASE UNCHANGED allVars
    BY <2>4, Zenon DEF allVars
  <2> QED BY <2>1, <2>2, <2>3, <2>4, Zenon DEF Next
<1> QED BY <1>1, <1>2, PTL DEF Spec, InputSpec, OutputSpec, Utf8Spec

(* So zeta_vault_ctl keeps what its commands promise: put stores one whole *)
(* content of the file it has checked, get replaces nothing and publishes  *)
(* nothing unfinished, put-utf8 and show-utf8 let through what is UTF-8 of *)
(* one line and what is safe for a terminal. *)
THEOREM CtlKeepsItsPromises ==
    Spec => /\ [](WholeContent /\ FromCheckedFile /\ ChangedIsTrue)
            /\ GrowthNoticed
            /\ [](PublishedWhole /\ SuccessStays /\ NoRemains)
            /\ NeverReplaces
            /\ [](SingleLineUtf8 /\ ReadsInside /\ ShownIsSafe)
BY CommandsBehave, NoMixture, CheckedFileOnly, NoFalseAlarm, GrowthIsNoticed,
   PublishedIsWhole, SuccessIsKept, FailureIsClean, NothingReplaced, ValueIsUtf8,
   SecondWalkStaysInside, TerminalGetsNoControl, PTL
=============================================================================
