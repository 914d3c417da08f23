--------------------------- MODULE StartupProofs ---------------------------
(***************************************************************************)
(* Proofs about Startup for any number of servers and passwords.           *)
(***************************************************************************)
EXTENDS Startup, TLAPS

LEMMA InitIInv == Init => IInv
BY StartupAssumption
DEF Init, Vaults, Privacy, IInv, TypeOK, DiskIsPrivate, LookedFor,
    ConfirmedUnlessRemoved, ServesItsVault, VaultIsPrivate, Directories, Places

(* A server that ends leaves the vault and its directory as they are.      *)
LEMMA EndKeepsIInv ==
    ASSUME IInv, NEW s \in Servers, End(s), UNCHANGED <<files, removed>>
    PROVE  IInv'
BY StartupAssumption
DEF IInv, TypeOK, DiskIsPrivate, LookedFor, ConfirmedUnlessRemoved,
    ServesItsVault, VaultIsPrivate, Places, Goto, End, files

(* Every step of every server, and of its surroundings, keeps the          *)
(* invariant.                                                              *)
LEMMA StepIInv == IInv /\ [Next]_vars => IInv'
<1> SUFFICES ASSUME IInv, [Next]_vars PROVE IInv'
  OBVIOUS
<1> USE StartupAssumption
    DEF IInv, TypeOK, DiskIsPrivate, LookedFor, ConfirmedUnlessRemoved,
        ServesItsVault, VaultIsPrivate, Directories, Places, Vaults, Privacy,
        Goto, files, main, server
<1>1. CASE UNCHANGED vars
  BY <1>1 DEF vars
<1>2. ASSUME NEW s \in Servers, Start(s) PROVE IInv'
  BY <1>2 DEF Start
<1>3. ASSUME NEW s \in Servers, NEW p \in Passwords, Prompt(s, p)
      PROVE  IInv'
  BY <1>3 DEF Prompt
<1>4. ASSUME NEW s \in Servers, NEW p \in Passwords, Confirm(s, p)
      PROVE  IInv'
  <2>1. CASE p = typed[s]
    BY <1>4, <2>1 DEF Confirm, Require
  <2>2. CASE ~(p = typed[s])
    BY <1>4, <2>2, EndKeepsIInv, Zenon DEF Confirm, Require
  <2> QED BY <2>1, <2>2
<1>5. ASSUME NEW s \in Servers, Handlers(s) PROVE IInv'
  BY <1>5 DEF Handlers
<1>6. ASSUME NEW s \in Servers, Stop(s) PROVE IInv'
  BY <1>6, EndKeepsIInv DEF Stop
<1>7. ASSUME NEW s \in Servers, MakeDirectory(s) PROVE IInv'
  BY <1>7 DEF MakeDirectory
<1>8. ASSUME NEW s \in Servers, Chmod(s) PROVE IInv'
  BY <1>8 DEF Chmod
<1>9. ASSUME NEW s \in Servers, Lstat(s) PROVE IInv'
  <2>1. CASE dir = "private"
    BY <1>9, <2>1 DEF Lstat, Require
  <2>2. CASE ~(dir = "private")
    BY <1>9, <2>2, EndKeepsIInv, Zenon DEF Lstat, Require
  <2> QED BY <2>1, <2>2
<1>10. ASSUME NEW s \in Servers, Lock(s) PROVE IInv'
  <2>1. CASE lock = Nobody
    BY <1>10, <2>1 DEF Lock
  <2>2. CASE ~(lock = Nobody)
    BY <1>10, <2>2, EndKeepsIInv, Zenon DEF Lock
  <2> QED BY <2>1, <2>2
<1>11. ASSUME NEW s \in Servers, Exists(s) PROVE IInv'
  BY <1>11 DEF Exists
<1>12. ASSUME NEW s \in Servers, Load(s) PROVE IInv'
  <2>1. CASE vault # NoVault /\ vault.key = typed[s]
    BY <1>12, <2>1 DEF Load, Require
  <2>2. CASE ~(vault # NoVault /\ vault.key = typed[s])
    BY <1>12, <2>2, EndKeepsIInv, Zenon DEF Load, Require
  <2> QED BY <2>1, <2>2
<1>13. ASSUME NEW s \in Servers, Create(s) PROVE IInv'
  <2>1. CASE s \in Bare \/ dir = "private"
    <3>1. /\ vault' = NewVault(s) /\ vault = NoVault /\ lock = s
          /\ dir # "none" /\ typed[s] \in Passwords
      BY <1>13, <2>1 DEF Create
    <3>2. /\ NewVault(s) \in Vaults /\ NewVault(s).key = typed[s]
          /\ NewVault(s).confirmed \/ removed
          /\ NewVault(s).privacy # "synced"
          /\ NewVault(s).privacy # "none" => s \notin Bare
      BY <3>1, <1>13 DEF Create, NewVault
    <3> QED BY <1>13, <2>1, <3>1, <3>2 DEF Create, Require
  <2>2. CASE ~(s \in Bare \/ dir = "private")
    BY <1>13, <2>2, EndKeepsIInv, Zenon DEF Create, Require, files
  <2> QED BY <2>1, <2>2
<1>14. ASSUME NEW s \in Servers, NEW done \in BOOLEAN, SyncDir(s, done)
       PROVE  IInv'
  BY <1>14 DEF SyncDir, Synced
<1>15. ASSUME NEW s \in Servers, Fail(s) PROVE IInv'
  BY <1>15, EndKeepsIInv DEF Fail
<1>16. CASE RemoveVault
  BY <1>16 DEF RemoveVault
<1>17. CASE OpenDirectory
  BY <1>17 DEF OpenDirectory, Exposed
<1>18. CASE CloseDirectory
  BY <1>18 DEF CloseDirectory
<1>19. CASE Writeback
  BY <1>19 DEF Writeback
<1>20. CASE PowerLoss
  BY <1>20 DEF PowerLoss, Survivor, Exposed
<1> QED
  BY <1>1, <1>2, <1>3, <1>4, <1>5, <1>6, <1>7, <1>8, <1>9, <1>10, <1>11,
     <1>12, <1>13, <1>14, <1>15, <1>16, <1>17, <1>18, <1>19, <1>20
  DEF Next, ServerNext

LEMMA Invariance == Spec => []IInv
BY InitIInv, StepIInv, PTL DEF Spec

(* Whoever is past the lock of the vault holds it.                         *)
THEOREM TypeCorrect == Spec => []TypeOK
<1>1. IInv => TypeOK
  BY DEF IInv
<1> QED BY <1>1, Invariance, PTL

(* Every vault was created under a password that was typed twice, although *)
(* main decides before it has the lock whether to ask twice, unless users  *)
(* remove vaults meanwhile.                                                *)
THEOREM PasswordIsConfirmed == Spec => []ConfirmedUnlessRemoved
<1>1. IInv => ConfirmedUnlessRemoved
  BY DEF IInv
<1> QED BY <1>1, Invariance, PTL

(* No server comes to hold another key than that of the file at its path.  *)
THEOREM VaultIsItsOwn == Spec => []ServesItsVault
<1>1. IInv => ServesItsVault
  BY DEF IInv
<1> QED BY <1>1, Invariance, PTL

(* A vault made under a path with a directory part stays in a private      *)
(* directory until somebody opens it, whatever other servers do between    *)
(* the mkdir and the chmod of ensure_private_parent, wherever kills fall,  *)
(* and wherever a power failure falls after the fsync of the directory.    *)
THEOREM DirectoryIsPrivate == Spec => []VaultIsPrivate
<1>1. IInv => VaultIsPrivate
  BY DEF IInv
<1> QED BY <1>1, Invariance, PTL
=============================================================================
