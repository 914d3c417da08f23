-------------------------- MODULE VaultStoreProofs --------------------------
(***************************************************************************)
(* Proofs about VaultStore for every number of processes, identifiers,     *)
(* values and passwords, every limit and every outcome of the directory    *)
(* synchronisation.                                                        *)
(***************************************************************************)
EXTENDS VaultStore, FiniteSetTheorems, TLAPS

(* One more identifier is present after it is stored, at most. *)
LEMMA PresentEdit ==
    ASSUME NEW m \in Maps, NEW i \in Ids, NEW v \in Values \cup {NoSecret}
    PROVE  /\ [m EXCEPT ![i] = v] \in Maps
           /\ IsFiniteSet(Present(m))
           /\ Cardinality(Present(m)) \in Nat
           /\ Cardinality(Present([m EXCEPT ![i] = v]))
                <= Cardinality(Present(m)) + 1
           /\ (m[i] # NoSecret \/ v = NoSecret) =>
                Cardinality(Present([m EXCEPT ![i] = v]))
                  <= Cardinality(Present(m))
<1> DEFINE n == [m EXCEPT ![i] = v]
<1>1. n \in Maps
  BY DEF Maps
<1>2. IsFiniteSet(Ids)
  BY StoreAssumption
<1>3. /\ IsFiniteSet(Present(m)) /\ Cardinality(Present(m)) \in Nat
      /\ IsFiniteSet(Present(n)) /\ Cardinality(Present(n)) \in Nat
  BY <1>2, FS_Subset, FS_CardinalityType DEF Present
<1>4. Present(n) \subseteq Present(m) \cup {i}
  BY DEF Present, Maps
<1>5. /\ IsFiniteSet(Present(m) \cup {i})
      /\ Cardinality(Present(m) \cup {i}) <= Cardinality(Present(m)) + 1
  <2> DEFINE S == Present(m)
  <2>1. IsFiniteSet(S) /\ Cardinality(S) \in Nat
    BY <1>3
  <2> HIDE DEF S
  <2>2. /\ IsFiniteSet(S \cup {i})
        /\ \/ Cardinality(S \cup {i}) = Cardinality(S)
           \/ Cardinality(S \cup {i}) = Cardinality(S) + 1
    BY <2>1, FS_AddElement
  <2>3. Cardinality(S \cup {i}) <= Cardinality(S) + 1
    BY <2>1, <2>2
  <2> QED BY <2>2, <2>3 DEF S
<1>6. Cardinality(Present(n)) <= Cardinality(Present(m)) + 1
  <2>1. Cardinality(Present(n)) <= Cardinality(Present(m) \cup {i})
    BY <1>4, <1>5, FS_Subset
  <2>2. Cardinality(Present(m) \cup {i}) \in Nat
    BY <1>5, FS_CardinalityType
  <2> QED BY <1>3, <1>5, <2>1, <2>2
<1>7. ASSUME m[i] # NoSecret \/ v = NoSecret
      PROVE  Cardinality(Present(n)) <= Cardinality(Present(m))
  <2>1. Present(n) \subseteq Present(m)
    BY <1>7 DEF Present, Maps
  <2> QED BY <2>1, <1>3, FS_Subset
<1> QED BY <1>1, <1>3, <1>6, <1>7

(* The empty map has its type and is within the count limit.               *)
LEMMA EmptyMapFacts ==
    EmptyMap \in Maps /\ WithinCount(EmptyMap)
<1>1. EmptyMap \in Maps
  BY DEF EmptyMap, Maps
<1>2. Present(EmptyMap) = {}
  BY DEF EmptyMap, Present
<1> QED BY <1>1, <1>2, FS_EmptySet, StoreAssumption DEF WithinCount

(* The files that the steps build have their type.                         *)
LEMMA FileTypes ==
    /\ TornFile \in Files /\ ForeignFile \in Files
    /\ \A k \in Passwords \cup {NoKey}, m \in Maps, s \in BOOLEAN :
         SealedFile(k, m, s) \in Files
    /\ NoFile \notin Files
BY EmptyMapFacts, NoFileAssumption
DEF Files, Kinds, TornFile, ForeignFile, SealedFile
-----------------------------------------------------------------------------
(* TypeOK.  Load takes a map from the disk, and Loadable limits its count. *)

(* A process that goes down keeps the types.                               *)
LEMMA GoneType ==
    ASSUME TypeOK, NEW p \in Procs, Gone(p)
    PROVE  TypeOK'
BY EmptyMapFacts, StoreAssumption
DEF Gone, TypeOK, PCs, disk

(* The call of persist with a map within the limits keeps the types.       *)
LEMMA EditType ==
    ASSUME TypeOK, NEW p \in Procs, NEW m \in Maps,
           WithinCount(m), Edit(p, m)
    PROVE  TypeOK'
BY DEF Edit, TypeOK, PCs, disk, mem

(* The initial states have their type.                                     *)
LEMMA TypeInit == Init => TypeOK
<1> SUFFICES ASSUME Init PROVE TypeOK
  OBVIOUS
<1>1. vault \in Files \cup {NoFile} /\ Contents(vault) = EmptyMap
  <2>1. CASE vault = NoFile
    BY <2>1 DEF Contents
  <2>2. CASE vault = ForeignFile
    BY <2>2, FileTypes DEF Contents, ForeignFile
  <2>3. ASSUME NEW k \in Passwords, vault = SealedFile(k, EmptyMap, TRUE)
        PROVE  vault \in Files \cup {NoFile} /\ Contents(vault) = EmptyMap
    <3>1. vault \in Files
      BY <2>3, EmptyMapFacts, FileTypes
    <3>2. vault.data = EmptyMap
      BY <2>3 DEF SealedFile
    <3> QED BY <3>1, <3>2, FileTypes DEF Contents
  <2> QED BY <2>1, <2>2, <2>3 DEF Init, InitFiles
<1>2. mayHold \in [Ids -> SUBSET (Values \cup {NoSecret})]
  BY <1>1 DEF Init, EmptyMap
<1> QED BY <1>1, <1>2, EmptyMapFacts, StoreAssumption DEF Init, TypeOK, PCs

(* Every step keeps the types and the count limit; Put is the one that     *)
(* needs its guard.                                                        *)
LEMMA TypeStep == TypeOK /\ [Next]_vars => TypeOK'
<1> USE DEF disk, mem
<1> SUFFICES ASSUME TypeOK, [Next]_vars PROVE TypeOK'
  OBVIOUS
<1>1. ASSUME NEW p \in Procs, Open(p) PROVE TypeOK'
  BY <1>1 DEF Open, TypeOK, PCs
<1>2. ASSUME NEW p \in Procs, NEW k \in Passwords, Load(p, k) PROVE TypeOK'
  BY <1>2 DEF Load, Loadable, TypeOK, PCs, Files
<1>3. ASSUME NEW p \in Procs, NEW k \in Passwords, Create(p, k)
      PROVE  TypeOK'
  BY <1>3 DEF Create, TypeOK, PCs
<1>4. ASSUME NEW p \in Procs, Refuse(p) PROVE TypeOK'
  BY <1>4, GoneType DEF Refuse
<1>5. ASSUME NEW p \in Procs, NEW i \in Ids, NEW v \in Values, Put(p, i, v)
      PROVE  TypeOK'
  <2> DEFINE m == [secrets[p] EXCEPT ![i] = v]
  <2>1. secrets[p] \in Maps /\ WithinCount(secrets[p])
    BY DEF TypeOK
  <2>2. m \in Maps /\ WithinCount(m)
    <3>1. CASE secrets[p][i] # NoSecret
      BY <2>1, <3>1, PresentEdit, StoreAssumption DEF WithinCount
    <3>2. CASE Cardinality(Present(secrets[p])) < MaxSecrets
      BY <2>1, <3>2, PresentEdit, StoreAssumption DEF WithinCount
    <3> QED BY <1>5, <3>1, <3>2 DEF Put, Room
  <2> QED BY <1>5, <2>2, EditType DEF Put
<1>6. ASSUME NEW p \in Procs, NEW i \in Ids, Remove(p, i) PROVE TypeOK'
  <2> DEFINE m == [secrets[p] EXCEPT ![i] = NoSecret]
  <2>1. secrets[p] \in Maps /\ WithinCount(secrets[p])
    BY DEF TypeOK
  <2>2. m \in Maps /\ WithinCount(m)
    BY <2>1, PresentEdit, StoreAssumption DEF WithinCount
  <2> QED BY <1>6, <2>2, EditType DEF Remove
<1>7. ASSUME NEW p \in Procs, Seal(p) PROVE TypeOK'
  BY <1>7, FileTypes DEF Seal, Goto, TypeOK, PCs
<1>8. ASSUME NEW p \in Procs, Write(p) PROVE TypeOK'
  <2>1. SealedFile(key[p], cand[p], FALSE) \in Files
    BY FileTypes DEF TypeOK
  <2> QED BY <1>8, <2>1, FileTypes DEF Write, Goto, TypeOK, PCs
<1>9. ASSUME NEW p \in Procs, Sync(p) PROVE TypeOK'
  <2>1. tmp[p] \in Files
    BY <1>9 DEF Sync, TypeOK
  <2>2. [tmp[p] EXCEPT !.synced = TRUE] \in Files
    BY <2>1 DEF Files
  <2>3. tmp' = [tmp EXCEPT ![p] = [tmp[p] EXCEPT !.synced = TRUE]]
    BY <1>9, Zenon DEF Sync
  <2> QED BY <1>9, <2>2, <2>3, FileTypes DEF Sync, Goto, TypeOK, PCs
<1>10. ASSUME NEW p \in Procs, Rename(p) PROVE TypeOK'
  BY <1>10 DEF Rename, Goto, TypeOK, PCs, Maps
<1>11. ASSUME NEW p \in Procs, NEW ok \in DirSync, SyncDir(p, ok)
       PROVE  TypeOK'
  BY <1>11 DEF SyncDir, Goto, TypeOK, PCs, Maps
<1>12. ASSUME NEW p \in Procs, Fail(p) PROVE TypeOK'
  BY <1>12, GoneType DEF Fail, Goto, TypeOK, PCs
<1>13. ASSUME NEW p \in Procs, Lock(p) PROVE TypeOK'
  BY <1>13, EmptyMapFacts, StoreAssumption DEF Lock, TypeOK
<1>14. ASSUME NEW p \in Procs, Close(p) \/ Crash(p) PROVE TypeOK'
  BY <1>14, GoneType DEF Close, Crash
<1>15. ASSUME Writeback PROVE TypeOK'
  BY <1>15 DEF Writeback, TypeOK
<1>16. ASSUME PowerLoss PROVE TypeOK'
  BY <1>16, EmptyMapFacts, FileTypes, StoreAssumption
  DEF PowerLoss, AfterPowerLoss, TypeOK, PCs
<1>17. ASSUME UNCHANGED vars PROVE TypeOK'
  BY <1>17 DEF vars, TypeOK
<1> QED BY <1>1, <1>2, <1>3, <1>4, <1>5, <1>6, <1>7, <1>8, <1>9, <1>10,
           <1>11, <1>12, <1>13, <1>14, <1>15, <1>16, <1>17 DEF Next

(* Type correctness, with the count limit of the maps in memory, for every *)
(* value of the constants.                                                 *)
THEOREM TypeCorrect == Spec => []TypeOK
BY TypeInit, TypeStep, PTL DEF Spec
-----------------------------------------------------------------------------
(* The marks for nothing are none of the things they are marks for.        *)
LEMMA Distinct ==
    /\ NoProc \notin Procs /\ NoKey \notin Passwords
    /\ NoFile \notin Files
BY StoreAssumption, NoFileAssumption

(* What a sealed file is made of.                                          *)
LEMMA SealedFields ==
    ASSUME NEW k \in Passwords \cup {NoKey}, NEW m \in Maps, NEW s \in BOOLEAN
    PROVE  /\ SealedFile(k, m, s) # NoFile
           /\ SealedFile(k, m, s).kind = "sealed"
           /\ SealedFile(k, m, s).key = k
           /\ SealedFile(k, m, s).data = m
           /\ SealedFile(k, m, s).synced = s
BY FileTypes DEF SealedFile

(* IInv holds after every step; one lemma per action, one step per         *)
(* conjunct.  A process that takes the free lock is alone.                 *)
LEMMA OpenInv ==
    ASSUME IInv, TypeOK', NEW p \in Procs, Open(p)
    PROVE  IInv'
<1> USE DEF IInv
<1>1. Exclusive'
  BY Distinct DEF Open, Exclusive, TypeOK, disk, mem
<1>2. KeyState'
  BY Distinct DEF Open, KeyState, TypeOK, disk, mem
<1>3. KeyInUse'
  BY Distinct DEF Open, KeyInUse, Persisting, TypeOK, disk, mem
<1>4. BeforeRename'
  BY Distinct DEF Open, BeforeRename, Exclusive, Persisting, TypeOK, disk, mem
<1>5. OneEdit'
  BY Distinct DEF Open, OneEdit, Persisting, TypeOK, disk, mem
<1>6. TempFile'
  BY Distinct DEF Open, TempFile, TypeOK, disk, mem
<1>7. AfterRename'
  BY Distinct DEF Open, AfterRename, Exclusive, TypeOK, disk, mem
<1>8. FilesGood'
  BY Distinct DEF Open, FilesGood, TypeOK, disk, mem
<1> QED BY <1>1, <1>2, <1>3, <1>4, <1>5, <1>6, <1>7, <1>8

(* Memory is taken from the vault, under the key that opened it.           *)
LEMMA LoadInv ==
    ASSUME IInv, TypeOK', NEW p \in Procs, NEW k \in Passwords, Load(p, k)
    PROVE  IInv'
<1> USE DEF IInv
<1>1. Exclusive'
  BY Distinct DEF Load, Exclusive, TypeOK, disk, mem
<1>2. KeyState'
  BY Distinct DEF Load, KeyState, TypeOK, disk, mem
<1>3. KeyInUse'
  BY Distinct DEF Load, KeyInUse, Persisting, TypeOK, disk, mem
<1>4. BeforeRename'
  BY DEF Load, Loadable, SealedAs, BeforeRename, Persisting, TypeOK, disk, mem
<1>5. OneEdit'
  BY Distinct DEF Load, OneEdit, Persisting, TypeOK, disk, mem
<1>6. TempFile'
  BY Distinct DEF Load, TempFile, TypeOK, disk, mem
<1>7. AfterRename'
  BY Distinct DEF Load, AfterRename, Exclusive, TypeOK, disk, mem
<1>8. FilesGood'
  BY Distinct DEF Load, FilesGood, TypeOK, disk, mem
<1> QED BY <1>1, <1>2, <1>3, <1>4, <1>5, <1>6, <1>7, <1>8

(* There is no vault, and the map to persist is empty.                     *)
LEMMA CreateInv ==
    ASSUME IInv, TypeOK', NEW p \in Procs, NEW k \in Passwords, Create(p, k)
    PROVE  IInv'
<1> USE DEF IInv
<1>1. Exclusive'
  BY Distinct DEF Create, Exclusive, TypeOK, disk, mem
<1>2. KeyState'
  BY Distinct DEF Create, KeyState, TypeOK, disk, mem
<1>3. KeyInUse'
  BY Distinct DEF Create, KeyInUse, Persisting, TypeOK, disk, mem
<1>4. BeforeRename'
  BY DEF Create, BeforeRename, KeyState, SealedAs, Persisting, TypeOK, disk, mem
<1>5. OneEdit'
  BY Distinct DEF Create, OneEdit, Persisting, TypeOK, disk, mem
<1>6. TempFile'
  BY Distinct DEF Create, TempFile, TypeOK, disk, mem
<1>7. AfterRename'
  BY Distinct DEF Create, AfterRename, Exclusive, TypeOK, disk, mem
<1>8. FilesGood'
  BY Distinct DEF Create, FilesGood, TypeOK, disk, mem
<1> QED BY <1>1, <1>2, <1>3, <1>4, <1>5, <1>6, <1>7, <1>8

(* A process that goes down has nothing left to answer for.                *)
LEMMA GoneInv ==
    ASSUME IInv, TypeOK', NEW p \in Procs, Gone(p)
    PROVE  IInv'
<1> USE DEF IInv
<1>1. Exclusive'
  BY Distinct DEF Gone, Exclusive, TypeOK, disk, mem
<1>2. KeyState'
  BY Distinct DEF Gone, KeyState, TypeOK, disk, mem
<1>3. KeyInUse'
  BY Distinct DEF Gone, KeyInUse, Persisting, TypeOK, disk, mem
<1>4. BeforeRename'
  BY Distinct DEF Gone, BeforeRename, Exclusive, Persisting, TypeOK, disk, mem
<1>5. OneEdit'
  BY Distinct DEF Gone, OneEdit, Persisting, TypeOK, disk, mem
<1>6. TempFile'
  BY Distinct DEF Gone, TempFile, TypeOK, disk, mem
<1>7. AfterRename'
  BY Distinct DEF Gone, AfterRename, Exclusive, TypeOK, disk, mem
<1>8. FilesGood'
  BY Distinct DEF Gone, FilesGood, TypeOK, disk, mem
<1> QED BY <1>1, <1>2, <1>3, <1>4, <1>5, <1>6, <1>7, <1>8

(* put and remove hand persist a map that differs in one identifier.       *)
LEMMA EditInv ==
    ASSUME IInv, TypeOK', NEW p \in Procs, NEW m \in Maps,
           pc[p] = "ready", ~locked[p], IsEdit(secrets[p], m), Edit(p, m)
    PROVE  IInv'
<1> USE DEF IInv
<1>1. Exclusive'
  BY Distinct DEF Edit, Exclusive, TypeOK, disk, mem
<1>2. KeyState'
  BY Distinct DEF Edit, KeyState, TypeOK, disk, mem
<1>3. KeyInUse'
  BY Distinct DEF Edit, KeyInUse, Persisting, TypeOK, disk, mem
<1>4. BeforeRename'
  BY Distinct DEF Edit, BeforeRename, Exclusive, Persisting, TypeOK, disk, mem
<1>5. OneEdit'
  BY Distinct DEF Edit, OneEdit, Persisting, TypeOK, disk, mem
<1>6. TempFile'
  BY Distinct DEF Edit, TempFile, TypeOK, disk, mem
<1>7. AfterRename'
  BY Distinct DEF Edit, AfterRename, Exclusive, TypeOK, disk, mem
<1>8. FilesGood'
  BY Distinct DEF Edit, FilesGood, TypeOK, disk, mem
<1> QED BY <1>1, <1>2, <1>3, <1>4, <1>5, <1>6, <1>7, <1>8

(* The candidate fits, or the step is not taken.                           *)
LEMMA SealInv ==
    ASSUME IInv, TypeOK', NEW p \in Procs, Seal(p)
    PROVE  IInv'
<1> USE DEF IInv
<1>1. Exclusive'
  BY Distinct DEF Seal, Goto, Exclusive, TypeOK, disk, mem
<1>2. KeyState'
  BY Distinct DEF Seal, Goto, KeyState, TypeOK, disk, mem
<1>3. KeyInUse'
  BY Distinct DEF Seal, Goto, KeyInUse, Persisting, TypeOK, disk, mem
<1>4. BeforeRename'
  BY Distinct DEF Seal, Goto, BeforeRename, Exclusive, Persisting, TypeOK, disk, mem
<1>5. OneEdit'
  BY Distinct DEF Seal, Goto, OneEdit, Persisting, TypeOK, disk, mem
<1>6. TempFile'
  BY Distinct DEF Seal, Goto, TempFile, TypeOK, disk, mem
<1>7. AfterRename'
  BY Distinct DEF Seal, Goto, AfterRename, Exclusive, TypeOK, disk, mem
<1>8. FilesGood'
  BY Distinct DEF Seal, Goto, FilesGood, TypeOK, disk, mem
<1> QED BY <1>1, <1>2, <1>3, <1>4, <1>5, <1>6, <1>7, <1>8

(* The temporary file holds the candidate.                                 *)
LEMMA WriteInv ==
    ASSUME IInv, TypeOK', NEW p \in Procs, Write(p)
    PROVE  IInv'
<1> USE DEF IInv
<1>1. Exclusive'
  BY Distinct DEF Write, Goto, Exclusive, TypeOK, disk, mem
<1>2. KeyState'
  BY Distinct DEF Write, Goto, KeyState, TypeOK, disk, mem
<1>3. KeyInUse'
  BY Distinct DEF Write, Goto, KeyInUse, Persisting, TypeOK, disk, mem
<1>4. BeforeRename'
  BY Distinct DEF Write, Goto, BeforeRename, Exclusive, Persisting, TypeOK, disk, mem
<1>5. OneEdit'
  BY Distinct DEF Write, Goto, OneEdit, Persisting, TypeOK, disk, mem
<1>6. TempFile'
  BY Distinct DEF Write, Goto, TempFile, TypeOK, disk, mem
<1>7. AfterRename'
  BY Distinct DEF Write, Goto, AfterRename, Exclusive, TypeOK, disk, mem
<1>8. FilesGood'
  BY Distinct DEF Write, Goto, FilesGood, TypeOK, disk, mem
<1> QED BY <1>1, <1>2, <1>3, <1>4, <1>5, <1>6, <1>7, <1>8

(* The temporary file survives a power failure from here on.               *)
LEMMA SyncInv ==
    ASSUME IInv, TypeOK', NEW p \in Procs, Sync(p)
    PROVE  IInv'
<1> USE DEF IInv
<1>1. Exclusive'
  BY Distinct DEF Sync, Goto, Exclusive, TypeOK, disk, mem
<1>2. KeyState'
  BY Distinct DEF Sync, Goto, KeyState, TypeOK, disk, mem
<1>3. KeyInUse'
  BY Distinct DEF Sync, Goto, KeyInUse, Persisting, TypeOK, disk, mem
<1>4. BeforeRename'
  BY Distinct DEF Sync, Goto, BeforeRename, Exclusive, Persisting, TypeOK, disk, mem
<1>5. OneEdit'
  BY Distinct DEF Sync, Goto, OneEdit, Persisting, TypeOK, disk, mem
<1>6. TempFile'
  <2>1. tmp[p] = SealedFile(key[p], cand[p], FALSE) /\ Fits(cand[p])
    BY DEF Sync, TempFile
  <2>2. tmp'[p] = SealedFile(key[p], cand[p], TRUE)
    <3>1. tmp'[p] = [SealedFile(key[p], cand[p], FALSE) EXCEPT !.synced = TRUE]
      BY <2>1 DEF Sync, TypeOK
    <3>2. [SealedFile(key[p], cand[p], FALSE) EXCEPT !.synced = TRUE]
            = SealedFile(key[p], cand[p], TRUE)
      <4> DEFINE f == SealedFile(key[p], cand[p], FALSE)
                 g == SealedFile(key[p], cand[p], TRUE)
      <4>1. f \in Files /\ g \in Files
        BY FileTypes DEF TypeOK
      <4>2. /\ g.kind = f.kind /\ g.key = f.key /\ g.data = f.data
            /\ g.synced = TRUE
        BY DEF SealedFile
      <4> HIDE DEF f, g
      <4>3. [f EXCEPT !.synced = TRUE] = g
        BY <4>1, <4>2 DEF Files
      <4> QED BY <4>3 DEF f, g
    <3> QED BY <3>1, <3>2
  <2>3. ASSUME NEW q \in Procs, q # p
        PROVE  tmp'[q] = tmp[q] /\ pc'[q] = pc[q]
    BY <2>3 DEF Sync, Goto, TypeOK
  <2> QED BY <2>1, <2>2, <2>3 DEF TempFile, Sync, Goto, TypeOK, mem
<1>7. AfterRename'
  BY Distinct DEF Sync, Goto, AfterRename, Exclusive, TypeOK, disk, mem
<1>8. FilesGood'
  BY Distinct DEF Sync, Goto, FilesGood, TypeOK, disk, mem
<1> QED BY <1>1, <1>2, <1>3, <1>4, <1>5, <1>6, <1>7, <1>8

(* The vault is now what the temporary file was: complete, synchronised,   *)
(* sealed under the same key as the file it replaces.                      *)
LEMMA RenameInv ==
    ASSUME IInv, TypeOK', NEW p \in Procs, Rename(p)
    PROVE  IInv'
<1> USE DEF IInv
<1>1. Exclusive'
  BY Distinct DEF Rename, Goto, Exclusive, TypeOK, disk, mem
<1>2. KeyState'
  BY Distinct DEF Rename, Goto, KeyState, TypeOK, disk, mem
<1>3. KeyInUse'
  BY Distinct DEF Rename, Goto, KeyInUse, Persisting, TypeOK, disk, mem
<1>4. BeforeRename'
  <2>1. ASSUME NEW q \in Procs, q # p PROVE pc[q] = "down" /\ locked[q]
    BY <2>1, Distinct DEF Rename, Exclusive, KeyState, TypeOK
  <2> QED BY <2>1 DEF BeforeRename, Rename, Goto, Persisting, TypeOK, mem
<1>5. OneEdit'
  BY Distinct DEF Rename, Goto, OneEdit, Persisting, TypeOK, disk, mem
<1>6. TempFile'
  BY Distinct DEF Rename, Goto, TempFile, TypeOK, disk, mem
<1>7. AfterRename'
  <2>1. tmp[p] = SealedFile(key[p], cand[p], TRUE)
    BY DEF Rename, TempFile
  <2>2. ASSUME NEW q \in Procs, q # p PROVE pc'[q] = "down"
    BY <2>2, Distinct DEF Rename, Goto, Exclusive, TypeOK
  <2> QED BY <2>1, <2>2 DEF AfterRename, Rename, mem
<1>8. FilesGood'
  <2>1. vault' = SealedFile(key[p], cand[p], TRUE) /\ Fits(cand[p])
    BY DEF Rename, TempFile
  <2>2. key[p] \in Passwords /\ cand[p] \in Maps /\ ~locked[p]
    BY DEF Rename, KeyInUse, KeyState, Persisting, TypeOK
  <2>3. GoodFile(vault')
    <3>1. HeaderSize + TagSize + PlaintextSize[cand[p]] <= MaxFileSize
      BY <2>1, <2>2, StoreAssumption DEF Fits
    <3>2. /\ vault' # NoFile /\ vault'.kind = "sealed"
          /\ vault'.key = key[p] /\ vault'.data = cand[p]
          /\ vault'.synced
      <4>1. vault' # NoFile
        BY DEF Rename, TypeOK
      <4>2. /\ vault'.kind = "sealed"
            /\ vault'.key = key[p] /\ vault'.data = cand[p]
        BY <2>1 DEF SealedFile
      <4>3. vault'.synced
        BY <2>1 DEF SealedFile
      <4> QED BY <4>1, <4>2, <4>3
    <3>3. Loadable(vault', key[p])
      BY <2>1, <3>1, <3>2 DEF Loadable, Fits
    <3> QED BY <2>2, <3>2, <3>3 DEF GoodFile, Reopenable
  <2>4. ASSUME durable # NoFile
        PROVE  SealedAs(vault, key[p], secrets[p])
    <3>1. pc[p] = "rename" /\ vault # NoFile
      BY <2>4 DEF FilesGood, Rename
    <3>2. pc[p] \in Persisting /\ pc[p] # "dirsync"
      BY <3>1 DEF Persisting
    <3> QED BY <2>2, <3>1, <3>2 DEF BeforeRename
  <2>5. /\ vault' # NoFile /\ vault'.kind = "sealed"
        /\ vault'.key = key[p]
    BY <2>1, <2>2, SealedFields
  <2> QED BY <2>3, <2>4, <2>5 DEF FilesGood, SealedAs, Rename
<1> QED BY <1>1, <1>2, <1>3, <1>4, <1>5, <1>6, <1>7, <1>8

(* Memory becomes the candidate, which the vault already holds.            *)
LEMMA SyncDirInv ==
    ASSUME IInv, TypeOK', NEW p \in Procs, NEW ok \in DirSync, SyncDir(p, ok)
    PROVE  IInv'
<1> USE DEF IInv
<1>1. Exclusive'
  BY Distinct DEF SyncDir, Goto, Exclusive, TypeOK, disk, mem
<1>2. KeyState'
  BY DEF SyncDir, Goto, KeyState, KeyInUse, TypeOK
<1>3. KeyInUse'
  BY Distinct DEF SyncDir, Goto, KeyInUse, Persisting, TypeOK, disk, mem
<1>4. BeforeRename'
  <2>1. vault' = SealedFile(key[p], cand[p], TRUE) /\ cand[p] \in Maps
        /\ key[p] \in Passwords \cup {NoKey}
    BY DEF SyncDir, AfterRename, TypeOK
  <2>2. SealedAs(vault', key[p], cand[p])
    <3>1. vault' \in Files
      BY <2>1 DEF SealedFile, Files, Kinds
    <3>2. vault' # NoFile
      BY <3>1, Distinct
    <3> QED BY <2>1, <3>2 DEF SealedAs, SealedFile
  <2> QED BY <2>2 DEF BeforeRename, SyncDir, Goto, Persisting, TypeOK
<1>5. OneEdit'
  BY Distinct DEF SyncDir, Goto, OneEdit, Persisting, TypeOK, disk, mem
<1>6. TempFile'
  BY Distinct DEF SyncDir, Goto, TempFile, TypeOK, disk, mem
<1>7. AfterRename'
  BY Distinct DEF SyncDir, Goto, AfterRename, Exclusive, TypeOK, disk, mem
<1>8. FilesGood'
  BY Distinct DEF SyncDir, Goto, FilesGood, TypeOK, disk, mem
<1> QED BY <1>1, <1>2, <1>3, <1>4, <1>5, <1>6, <1>7, <1>8

(* A failed edit goes back to the map that memory and the vault still      *)
(* hold.                                                                   *)
LEMMA FailInv ==
    ASSUME IInv, TypeOK', NEW p \in Procs, op[p] = "edit", Fail(p)
    PROVE  IInv'
<1> USE DEF IInv
<1>1. Exclusive'
  BY DEF Fail, Goto, Exclusive, Persisting, TypeOK
<1>2. KeyState'
  BY Distinct DEF Fail, Goto, KeyState, TypeOK, disk, mem
<1>3. KeyInUse'
  BY Distinct DEF Fail, Goto, KeyInUse, Persisting, TypeOK, disk, mem
<1>4. BeforeRename'
  BY Distinct DEF Fail, Goto, BeforeRename, Exclusive, Persisting, TypeOK, disk, mem
<1>5. OneEdit'
  BY Distinct DEF Fail, Goto, OneEdit, Persisting, TypeOK, disk, mem
<1>6. TempFile'
  <2>1. /\ pc' = [pc EXCEPT ![p] = "ready"]
        /\ tmp' = [tmp EXCEPT ![p] = NoFile]
        /\ key' = key /\ cand' = cand
    BY DEF Fail, Goto, mem
  <2>2. ASSUME NEW q \in Procs, q # p
        PROVE  pc'[q] = pc[q] /\ tmp'[q] = tmp[q]
    BY <2>1, <2>2 DEF TypeOK
  <2>3. pc'[p] = "ready"
    BY <2>1 DEF TypeOK
  <2> QED BY <2>1, <2>2, <2>3 DEF TempFile
<1>7. AfterRename'
  BY Distinct DEF Fail, Goto, AfterRename, Exclusive, TypeOK, disk, mem
<1>8. FilesGood'
  BY Distinct DEF Fail, Goto, FilesGood, TypeOK, disk, mem
<1> QED BY <1>1, <1>2, <1>3, <1>4, <1>5, <1>6, <1>7, <1>8

(* lock erases the key together with the secrets.                          *)
LEMMA LockInv ==
    ASSUME IInv, TypeOK', NEW p \in Procs, Lock(p)
    PROVE  IInv'
<1> USE DEF IInv
<1>1. Exclusive'
  BY Distinct DEF Lock, Exclusive, TypeOK, disk, mem
<1>2. KeyState'
  BY Distinct DEF Lock, KeyState, TypeOK, disk, mem
<1>3. KeyInUse'
  BY Distinct DEF Lock, KeyInUse, Persisting, TypeOK, disk, mem
<1>4. BeforeRename'
  BY Distinct DEF Lock, BeforeRename, Exclusive, Persisting, TypeOK, disk, mem
<1>5. OneEdit'
  BY Distinct DEF Lock, OneEdit, Persisting, TypeOK, disk, mem
<1>6. TempFile'
  BY Distinct DEF Lock, TempFile, TypeOK, disk, mem
<1>7. AfterRename'
  BY Distinct DEF Lock, AfterRename, Exclusive, TypeOK, disk, mem
<1>8. FilesGood'
  BY Distinct DEF Lock, FilesGood, TypeOK, disk, mem
<1> QED BY <1>1, <1>2, <1>3, <1>4, <1>5, <1>6, <1>7, <1>8

(* The directory entry on the disk catches up with the vault.              *)
LEMMA WritebackInv ==
    ASSUME IInv, TypeOK', Writeback
    PROVE  IInv'
<1> USE DEF IInv
<1>1. Exclusive'
  BY Distinct DEF Writeback, Exclusive, TypeOK, disk, mem
<1>2. KeyState'
  BY Distinct DEF Writeback, KeyState, TypeOK, disk, mem
<1>3. KeyInUse'
  BY Distinct DEF Writeback, KeyInUse, Persisting, TypeOK, disk, mem
<1>4. BeforeRename'
  BY Distinct DEF Writeback, BeforeRename, Exclusive, Persisting, TypeOK, disk, mem
<1>5. OneEdit'
  BY Distinct DEF Writeback, OneEdit, Persisting, TypeOK, disk, mem
<1>6. TempFile'
  BY Distinct DEF Writeback, TempFile, TypeOK, disk, mem
<1>7. AfterRename'
  BY Distinct DEF Writeback, AfterRename, Exclusive, TypeOK, disk, mem
<1>8. FilesGood'
  BY Distinct DEF Writeback, FilesGood, TypeOK, disk, mem
<1> QED BY <1>1, <1>2, <1>3, <1>4, <1>5, <1>6, <1>7, <1>8

(* Every file with a name is synchronised, so a power failure brings back  *)
(* a whole one.                                                            *)
LEMMA PowerLossInv ==
    ASSUME IInv, TypeOK', PowerLoss
    PROVE  IInv'
<1> USE DEF IInv
<1>1. Exclusive'
  BY Distinct DEF PowerLoss, Exclusive, TypeOK, disk, mem
<1>2. KeyState'
  BY Distinct DEF PowerLoss, KeyState, TypeOK, disk, mem
<1>3. KeyInUse'
  BY Distinct DEF PowerLoss, KeyInUse, Persisting, TypeOK, disk, mem
<1>4. BeforeRename'
  BY Distinct DEF PowerLoss, BeforeRename, Exclusive, Persisting, TypeOK, disk, mem
<1>5. OneEdit'
  BY Distinct DEF PowerLoss, OneEdit, Persisting, TypeOK, disk, mem
<1>6. TempFile'
  BY Distinct DEF PowerLoss, TempFile, TypeOK, disk, mem
<1>7. AfterRename'
  BY Distinct DEF PowerLoss, AfterRename, Exclusive, TypeOK, disk, mem
<1>8. FilesGood'
  <2>1. vault' = durable /\ durable' = durable
    BY DEF PowerLoss, AfterPowerLoss, FilesGood, GoodFile
  <2> QED BY <2>1 DEF FilesGood
<1> QED BY <1>1, <1>2, <1>3, <1>4, <1>5, <1>6, <1>7, <1>8
(* put and remove change one identifier. *)
LEMMA PutEdits ==
    ASSUME NEW p \in Procs, TypeOK,
           NEW i \in Ids, NEW v \in Values \cup {NoSecret}
    PROVE  /\ [secrets[p] EXCEPT ![i] = v] \in Maps
           /\ IsEdit(secrets[p], [secrets[p] EXCEPT ![i] = v])
BY DEF TypeOK, Maps, IsEdit

(* IInv holds when no process has started yet.                             *)
LEMMA InvInit == Init => IInv
<1> SUFFICES ASSUME Init PROVE IInv
  OBVIOUS
<1>1. TypeOK
  BY TypeInit
<1>2. durable = vault /\ GoodFile(vault)
  <2>1. ASSUME NEW k \in Passwords, vault = SealedFile(k, EmptyMap, TRUE)
        PROVE  Loadable(vault, k) /\ vault.synced
    <3>1. HeaderSize + TagSize + PlaintextSize[EmptyMap] <= MaxFileSize
      BY EmptyMapFacts, StoreAssumption
    <3>2. /\ vault # NoFile /\ vault.kind = "sealed"
          /\ vault.key = k /\ vault.data = EmptyMap /\ vault.synced
      BY <2>1, EmptyMapFacts, SealedFields
    <3> QED BY <3>1, <3>2, EmptyMapFacts DEF Loadable
  <2>2. ForeignFile.synced
    BY DEF ForeignFile
  <2> QED BY <2>1, <2>2 DEF Init, InitFiles, GoodFile, Reopenable
<1>3. Exclusive /\ KeyState /\ KeyInUse /\ OneEdit /\ TempFile /\ AfterRename
  BY DEF Init, Exclusive, KeyState, KeyInUse, OneEdit, TempFile, AfterRename,
         Persisting
<1>4. BeforeRename
  BY DEF Init, BeforeRename, Persisting
<1> QED BY <1>1, <1>2, <1>3, <1>4 DEF IInv, FilesGood

(* Every step keeps IInv.                                                  *)
LEMMA InvStep == IInv /\ [Next]_vars => IInv'
<1> SUFFICES ASSUME IInv, [Next]_vars PROVE IInv'
  OBVIOUS
<1>1. TypeOK /\ TypeOK'
  BY TypeStep DEF IInv
<1>2. ASSUME NEW p \in Procs, Open(p) PROVE IInv'
  BY <1>1, <1>2, OpenInv
<1>3. ASSUME NEW p \in Procs, NEW k \in Passwords, Load(p, k) \/ Create(p, k)
      PROVE  IInv'
  BY <1>1, <1>3, LoadInv, CreateInv
<1>4. ASSUME NEW p \in Procs, Gone(p) PROVE IInv'
  BY <1>1, <1>4, GoneInv
<1>5. ASSUME NEW p \in Procs, NEW i \in Ids, NEW v \in Values, Put(p, i, v)
      PROVE  IInv'
  <2>1. Edit(p, [secrets[p] EXCEPT ![i] = v]) /\ pc[p] = "ready" /\ ~locked[p]
    BY <1>5 DEF Put
  <2> QED BY <1>1, <2>1, PutEdits, EditInv
<1>6. ASSUME NEW p \in Procs, NEW i \in Ids, Remove(p, i) PROVE IInv'
  <2>1. /\ Edit(p, [secrets[p] EXCEPT ![i] = NoSecret])
        /\ pc[p] = "ready" /\ ~locked[p]
    BY <1>6 DEF Remove
  <2> QED BY <1>1, <2>1, PutEdits, EditInv
<1>7. ASSUME NEW p \in Procs, Seal(p) \/ Write(p) \/ Sync(p) \/ Rename(p)
      PROVE  IInv'
  BY <1>1, <1>7, SealInv, WriteInv, SyncInv, RenameInv
<1>8. ASSUME NEW p \in Procs, NEW ok \in DirSync, SyncDir(p, ok) PROVE IInv'
  BY <1>1, <1>8, SyncDirInv
<1>9. ASSUME NEW p \in Procs, Fail(p) PROVE IInv'
  <2>1. CASE op[p] = "create"
    BY <1>4, <1>9, <2>1 DEF Fail
  <2>2. CASE op[p] = "edit"
    BY <1>1, <1>9, <2>2, FailInv
  <2> QED BY <1>1, <2>1, <2>2 DEF TypeOK
<1>10. ASSUME NEW p \in Procs, Lock(p) PROVE IInv'
  BY <1>1, <1>10, LockInv
<1>11. CASE Writeback
  BY <1>1, <1>11, WritebackInv
<1>12. CASE PowerLoss
  BY <1>1, <1>12, PowerLossInv
<1>13. CASE UNCHANGED vars
  BY <1>1, <1>13
  DEF vars, IInv, Exclusive, KeyState, KeyInUse, BeforeRename, OneEdit,
      TempFile, AfterRename, FilesGood
<1> QED BY <1>2, <1>3, <1>4, <1>5, <1>6, <1>7, <1>8, <1>9, <1>10, <1>11,
           <1>12, <1>13 DEF Next, Refuse, Close, Crash

(* IInv is an invariant.                                                   *)
LEMMA Invariance == Spec => []IInv
BY InvInit, InvStep, PTL DEF Spec

(* What an unlocked store serves is what the vault file holds, whatever    *)
(* failed or crashed before.                                               *)
THEOREM MemoryIsVault == Spec => []MemoryMatchesVault
<1>1. IInv => MemoryMatchesVault
  BY DEF IInv, MemoryMatchesVault, BeforeRename, SealedAs, Persisting
<1> QED BY <1>1, Invariance, PTL

(* No process ever leaves a file that its own password does not open.      *)
THEOREM VaultReopens == Spec => []AlwaysReopenable
<1>1. IInv => AlwaysReopenable
  BY DEF IInv, FilesGood, GoodFile, AlwaysReopenable
<1> QED BY <1>1, Invariance, PTL

-----------------------------------------------------------------------------
(* The four steps that touch the two files, and what they make of them.    *)

(* rename puts the candidate in the place of the map it was made from.     *)
LEMMA RenameFile ==
    ASSUME IInv, NEW p \in Procs, Rename(p)
    PROVE  /\ vault' = SealedFile(key[p], cand[p], TRUE)
           /\ cand[p] \in Maps
           /\ vault' # NoFile /\ vault'.data = cand[p]
           /\ vault'.kind = "sealed" /\ vault'.key = key[p]
           /\ durable' = durable
           /\ \/ vault = NoFile /\ cand[p] = EmptyMap
              \/ SealedAs(vault, key[p], secrets[p]) /\ IsEdit(secrets[p], cand[p])
<1> USE DEF IInv
<1>1. /\ vault' = SealedFile(key[p], cand[p], TRUE)
      /\ cand[p] \in Maps /\ key[p] \in Passwords \cup {NoKey}
      /\ op[p] \in {"create", "edit"}
      /\ pc[p] \in Persisting /\ pc[p] # "dirsync"
  BY DEF TypeOK, TempFile, Rename, Persisting
<1>2. ~locked[p]
  BY <1>1 DEF KeyInUse
<1>3. ASSUME op[p] = "create"
      PROVE  vault = NoFile /\ cand[p] = EmptyMap
  BY <1>1, <1>3 DEF BeforeRename
<1>4. ASSUME op[p] = "edit"
      PROVE  SealedAs(vault, key[p], secrets[p]) /\ IsEdit(secrets[p], cand[p])
  <2>1. SealedAs(vault, key[p], secrets[p])
    BY <1>1, <1>2, <1>4 DEF BeforeRename
  <2>2. IsEdit(secrets[p], cand[p])
    BY <1>1, <1>4 DEF OneEdit
  <2> QED BY <2>1, <2>2
<1>5. /\ vault' # NoFile /\ vault'.data = cand[p]
      /\ vault'.kind = "sealed" /\ vault'.key = key[p]
  <2>1. vault' # NoFile
    BY DEF Rename, TypeOK
  <2>2. /\ vault'.data = cand[p] /\ vault'.kind = "sealed"
        /\ vault'.key = key[p]
    BY <1>1 DEF SealedFile
  <2> QED BY <2>1, <2>2
<1>6. durable' = durable
  BY DEF Rename
<1> QED BY <1>1, <1>3, <1>4, <1>5, <1>6

(* Synchronising the directory changes at most what survives.              *)
LEMMA SyncDirFile ==
    ASSUME IInv, NEW p \in Procs, NEW ok \in DirSync, SyncDir(p, ok)
    PROVE  /\ vault' = vault /\ vault # NoFile /\ vault.data = cand[p]
           /\ durable' = IF ok THEN vault ELSE durable
<1> USE DEF IInv
<1>1. /\ vault = SealedFile(key[p], cand[p], TRUE)
      /\ cand[p] \in Maps /\ key[p] \in Passwords \cup {NoKey}
  BY DEF TypeOK, AfterRename, SyncDir
<1>2. vault # NoFile /\ vault.data = cand[p]
  <2>1. vault \in Files
    BY <1>1 DEF SealedFile, Files, Kinds
  <2>2. vault.data = cand[p]
    BY <1>1 DEF SealedFile
  <2> QED BY <2>1, <2>2, Distinct
<1> QED BY <1>2 DEF SyncDir

(* A power failure brings back exactly the file on the disk.               *)
LEMMA PowerLossFile ==
    ASSUME IInv, PowerLoss
    PROVE  vault' = durable /\ durable' = durable
BY DEF IInv, PowerLoss, AfterPowerLoss, FilesGood, GoodFile

(* Every other step leaves both files and the promise to the callers alone. *)
LEMMA FileSteps ==
    ASSUME [Next]_vars
    PROVE  \/ \E p \in Procs : Rename(p)
           \/ \E p \in Procs, ok \in DirSync : SyncDir(p, ok)
           \/ Writeback
           \/ PowerLoss
           \/ UNCHANGED <<vault, durable, mayHold>>
<1>1. ASSUME NEW p \in Procs, Gone(p) PROVE UNCHANGED <<vault, durable, mayHold>>
  BY <1>1 DEF Gone, disk
<1>2. ASSUME NEW p \in Procs, NEW m, Edit(p, m)
      PROVE  UNCHANGED <<vault, durable, mayHold>>
  BY <1>2 DEF Edit, disk
<1>3. ASSUME NEW p \in Procs, Open(p) \/ Refuse(p) \/ Seal(p) \/ Write(p)
             \/ Sync(p) \/ Fail(p) \/ Lock(p) \/ Close(p) \/ Crash(p)
      PROVE  UNCHANGED <<vault, durable, mayHold>>
  BY <1>1, <1>3
  DEF Open, Refuse, Seal, Write, Sync, Fail, Lock, Close, Crash, disk
<1>4. ASSUME NEW p \in Procs, NEW k \in Passwords, Load(p, k) \/ Create(p, k)
      PROVE  UNCHANGED <<vault, durable, mayHold>>
  BY <1>4 DEF Load, Create, disk
<1>5. ASSUME NEW p \in Procs, NEW i \in Ids,
             Remove(p, i) \/ \E v \in Values : Put(p, i, v)
      PROVE  UNCHANGED <<vault, durable, mayHold>>
  BY <1>2, <1>5 DEF Put, Remove
<1> QED BY <1>3, <1>4, <1>5 DEF Next, vars

(* Provided that the parent directory can be synchronised, whoever opens   *)
(* the vault after an acknowledged put or remove finds what was            *)
(* acknowledged, after any crashes and power failures.                     *)
THEOREM AcknowledgedWritesSurvive ==
    ASSUME DirSync = {TRUE} PROVE Spec => []NoLostWrite
<1>1. Init => NoLostWrite
  BY DEF Init, NoLostWrite
<1>2. IInv /\ NoLostWrite /\ [Next]_vars => NoLostWrite'
  <2> SUFFICES ASSUME IInv, NoLostWrite, [Next]_vars PROVE NoLostWrite'
    OBVIOUS
  <2>1. ASSUME NEW p \in Procs, Rename(p) PROVE NoLostWrite'
    BY <2>1, RenameFile DEF NoLostWrite, Rename, Contents
  <2>2. ASSUME NEW p \in Procs, NEW ok \in DirSync, SyncDir(p, ok)
        PROVE  NoLostWrite'
    <3>1. ok = TRUE
      OBVIOUS
    <3> QED BY <2>2, <3>1, SyncDirFile DEF NoLostWrite, SyncDir, Contents
  <2>3. CASE Writeback
    BY <2>3 DEF NoLostWrite, Writeback
  <2>4. CASE PowerLoss
    BY <2>4, PowerLossFile DEF NoLostWrite, PowerLoss
  <2>5. CASE UNCHANGED <<vault, durable, mayHold>>
    BY <2>5 DEF NoLostWrite
  <2> QED BY <2>1, <2>2, <2>3, <2>4, <2>5, FileSteps
<1> QED BY <1>1, <1>2, Invariance, PTL DEF Spec

(* No step seals an existing vault under another key or replaces a file    *)
(* that is no vault.                                                       *)
THEOREM SealIsKept == Spec => SealKept
<1> DEFINE Kept == vault # NoFile /\ vault' # NoFile =>
                       vault'.kind = vault.kind /\ vault'.key = vault.key
<1>1. IInv /\ [Next]_vars => [Kept]_vault
  <2> SUFFICES ASSUME IInv, [Next]_vars PROVE Kept \/ UNCHANGED vault
    OBVIOUS
  <2>1. ASSUME NEW p \in Procs, Rename(p) PROVE Kept
    <3>1. vault'.kind = "sealed" /\ vault'.key = key[p]
      BY <2>1, RenameFile
    <3>2. vault = NoFile \/ SealedAs(vault, key[p], secrets[p])
      BY <2>1, RenameFile
    <3> QED BY <3>1, <3>2 DEF SealedAs
  <2>2. CASE PowerLoss
    BY <2>2, PowerLossFile DEF IInv, FilesGood
  <2> QED BY <2>1, <2>2, FileSteps DEF SyncDir, Writeback
<1> QED BY <1>1, Invariance, PTL DEF Spec, SealKept

(* The processes on one path, with their crashes and power failures,       *)
(* implement one durable map that changes one identifier at a time.        *)
THEOREM Refinement == Spec => ImplementsDurableMap
<1> USE DEF View, Durable!vars
<1>1. Init => Durable!Init
  <2> SUFFICES ASSUME Init PROVE Durable!Init
    OBVIOUS
  <2>1. vault \in Files \cup {NoFile} /\ durable = vault
    BY TypeInit DEF TypeOK, Init
  <2>2. View(vault) \in Maps \cup {NoVault}
    BY <2>1 DEF Files
  <2> QED BY <2>1, <2>2 DEF Durable!Init, Durable!Maps, Maps
<1>2. IInv /\ [Next]_vars => [Durable!Next]_Durable!vars
  <2> SUFFICES ASSUME IInv, [Next]_vars
               PROVE  Durable!Next \/ UNCHANGED Durable!vars
    BY DEF Durable!vars
  <2>1. ASSUME NEW p \in Procs, Rename(p)
        PROVE  Durable!Next
    <3>1. View(vault') = cand[p] /\ View(durable') = View(durable)
      BY <2>1, RenameFile
    <3>2. CASE vault = NoFile /\ cand[p] = EmptyMap
      BY <3>1, <3>2 DEF Durable!Next, Durable!Create, EmptyMap
    <3>3. CASE SealedAs(vault, key[p], secrets[p])
               /\ IsEdit(secrets[p], cand[p])
      <4>1. secrets[p] \in Maps
        BY DEF IInv, TypeOK
      <4>2. View(vault) = secrets[p] /\ View(vault) # NoVault
        BY <3>3, <4>1, NoFileAssumption DEF SealedAs
      <4>3. PICK i \in Ids, v \in Values \cup {NoSecret} :
                cand[p] = [secrets[p] EXCEPT ![i] = v]
        BY <3>3 DEF IsEdit
      <4>4. Durable!Write(i, v)
        BY <3>1, <4>2, <4>3 DEF Durable!Write
      <4> QED BY <4>4 DEF Durable!Next
    <3> QED BY <2>1, <3>2, <3>3, RenameFile
  <2>2. ASSUME NEW p \in Procs, NEW ok \in DirSync, SyncDir(p, ok)
        PROVE  Durable!Next \/ UNCHANGED Durable!vars
    BY <2>2, SyncDirFile DEF Durable!Next, Durable!Flush
  <2>3. CASE Writeback
    BY <2>3 DEF Writeback, Durable!Next, Durable!Flush
  <2>4. CASE PowerLoss
    BY <2>4, PowerLossFile DEF Durable!Next, Durable!Lose
  <2>5. CASE UNCHANGED <<vault, durable, mayHold>>
    BY <2>5
  <2> QED BY <2>1, <2>2, <2>3, <2>4, <2>5, FileSteps
<1> QED BY <1>1, <1>2, Invariance, PTL DEF Spec, ImplementsDurableMap, Durable!Spec
=============================================================================
