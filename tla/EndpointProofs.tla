--------------------------- MODULE EndpointProofs ---------------------------
(***************************************************************************)
(* Proofs about Endpoint for every number of servers, vaults and socket    *)
(* paths.                                                                  *)
(***************************************************************************)
EXTENDS Endpoint, TLAPS

(* Every step keeps the types and the meaning of owns_endpoint_. *)
LEMMA TypeStep == TypeOK /\ [Next]_vars => TypeOK'
<1> SUFFICES ASSUME TypeOK, [Next]_vars PROVE TypeOK'
  OBVIOUS
<1> USE EndpointAssumption DEF TypeOK, PCs, Goto, SetEntry, Entry
<1>1. CASE UNCHANGED vars
  BY <1>1 DEF vars
<1>2. ASSUME NEW s \in Servers, Start(s) PROVE TypeOK'
  BY <1>2 DEF Start
<1>3. ASSUME NEW s \in Servers, Lstat(s) PROVE TypeOK'
  BY <1>3 DEF Lstat
<1>4. ASSUME NEW s \in Servers, Probe(s) PROVE TypeOK'
  BY <1>4 DEF Probe
<1>5. ASSUME NEW s \in Servers, Unlink(s) PROVE TypeOK'
  BY <1>5 DEF Unlink
<1>6. ASSUME NEW s \in Servers, Bind(s) PROVE TypeOK'
  BY <1>6 DEF Bind
<1>7. ASSUME NEW s \in Servers, AddressInUse(s) PROVE TypeOK'
  BY <1>7 DEF AddressInUse
<1>8. ASSUME NEW s \in Servers, Chmod(s) PROVE TypeOK'
  BY <1>8 DEF Chmod
<1>9. ASSUME NEW s \in Servers, Listen(s) PROVE TypeOK'
  BY <1>9 DEF Listen
<1>10. ASSUME NEW s \in Servers, Stop(s) PROVE TypeOK'
  BY <1>10 DEF Stop
<1>11. ASSUME NEW s \in Servers, Close(s) PROVE TypeOK'
  BY <1>11 DEF Close, CloseSocket
<1>12. ASSUME NEW s \in Servers, LstatOwn(s) PROVE TypeOK'
  <2>1. CASE Entry(s) \notin {NoSock, NotASocket}
    BY <1>12, <2>1 DEF LstatOwn
  <2>2. CASE Entry(s) \in {NoSock, NotASocket}
    <3>1. /\ pc' = [pc EXCEPT ![s] = "release"]
          /\ owns' = [owns EXCEPT ![s] = FALSE]
      BY <1>12, <2>2 DEF LstatOwn
    <3>2. /\ path' = path /\ sock' = sock /\ vlock' = vlock
          /\ killed' = killed
      BY <1>12 DEF LstatOwn
    <3> QED BY <3>1, <3>2
  <2> QED BY <2>1, <2>2
<1>13. ASSUME NEW s \in Servers, UnlinkOwn(s) PROVE TypeOK'
  BY <1>13 DEF UnlinkOwn
<1>14. ASSUME NEW s \in Servers, Release(s) PROVE TypeOK'
  BY <1>14 DEF Release
<1>15. ASSUME NEW s \in Servers, Crash(s) PROVE TypeOK'
  BY <1>15 DEF Crash, CloseSocket
<1> QED
  BY <1>1, <1>2, <1>3, <1>4, <1>5, <1>6, <1>7, <1>8, <1>9, <1>10, <1>11,
     <1>12, <1>13, <1>14, <1>15 DEF Next

(* The state of every server and path keeps its type, and owns_endpoint_   *)
(* is set exactly from bind to the removal of the entry, whatever paths    *)
(* and vaults the servers share.                                           *)
THEOREM TypeCorrect == Spec => []TypeOK
<1>1. Init => TypeOK
  BY EndpointAssumption DEF Init, TypeOK, PCs
<1> QED BY <1>1, TypeStep, PTL DEF Spec

-----------------------------------------------------------------------------
(* An entry keeps an owner as long as it is not unlinked or left behind.   *)
LEMMA OwnedStep == TypeOK /\ EntryOwned /\ [Next]_vars => EntryOwned'
<1> SUFFICES ASSUME TypeOK, EntryOwned, [Next]_vars PROVE EntryOwned'
  OBVIOUS
<1> USE EndpointAssumption
    DEF TypeOK, PCs, Bound, EntryOwned, Goto, SetEntry, Entry
<1>1. CASE UNCHANGED vars
  BY <1>1 DEF vars
<1>2. ASSUME NEW s \in Servers, Start(s) PROVE EntryOwned'
  BY <1>2 DEF Start
<1>3. ASSUME NEW s \in Servers, Lstat(s) PROVE EntryOwned'
  BY <1>3 DEF Lstat
<1>4. ASSUME NEW s \in Servers, Probe(s) PROVE EntryOwned'
  BY <1>4 DEF Probe, Answers
<1>5. ASSUME NEW s \in Servers, Unlink(s) PROVE EntryOwned'
  BY <1>5 DEF Unlink
<1>6. ASSUME NEW s \in Servers, Bind(s) PROVE EntryOwned'
  BY <1>6 DEF Bind
<1>7. ASSUME NEW s \in Servers, AddressInUse(s) PROVE EntryOwned'
  BY <1>7 DEF AddressInUse
<1>8. ASSUME NEW s \in Servers, Chmod(s) PROVE EntryOwned'
  BY <1>8 DEF Chmod
<1>9. ASSUME NEW s \in Servers, Listen(s) PROVE EntryOwned'
  BY <1>9 DEF Listen
<1>10. ASSUME NEW s \in Servers, Stop(s) PROVE EntryOwned'
  BY <1>10 DEF Stop
<1>11. ASSUME NEW s \in Servers, Close(s) PROVE EntryOwned'
  BY <1>11 DEF Close, CloseSocket
<1>12. ASSUME NEW s \in Servers, LstatOwn(s) PROVE EntryOwned'
  BY <1>12 DEF LstatOwn
<1>13. ASSUME NEW s \in Servers, UnlinkOwn(s) PROVE EntryOwned'
  BY <1>13 DEF UnlinkOwn
<1>14. ASSUME NEW s \in Servers, Release(s) PROVE EntryOwned'
  BY <1>14 DEF Release
<1>15. ASSUME NEW s \in Servers, Crash(s) PROVE EntryOwned'
  BY <1>15 DEF Crash, CloseSocket
<1> QED
  BY <1>1, <1>2, <1>3, <1>4, <1>5, <1>6, <1>7, <1>8, <1>9, <1>10, <1>11,
     <1>12, <1>13, <1>14, <1>15 DEF Next

(* An entry that has lost its listener without a kill still has the owner  *)
(* that is about to remove it, through every step.                         *)
LEMMA BehindStep ==
    TypeOK /\ EntryOwned /\ NothingLeftBehind /\ [Next]_vars
      => NothingLeftBehind'
<1> SUFFICES ASSUME TypeOK, EntryOwned, NothingLeftBehind, [Next]_vars
             PROVE  NothingLeftBehind'
  OBVIOUS
<1> USE EndpointAssumption
    DEF TypeOK, PCs, Bound, EntryOwned, NothingLeftBehind, Goto, SetEntry, Entry
<1>1. CASE UNCHANGED vars
  BY <1>1 DEF vars
<1>2. ASSUME NEW s \in Servers, Start(s) PROVE NothingLeftBehind'
  BY <1>2 DEF Start
<1>3. ASSUME NEW s \in Servers, Lstat(s) PROVE NothingLeftBehind'
  BY <1>3 DEF Lstat
<1>4. ASSUME NEW s \in Servers, Probe(s) PROVE NothingLeftBehind'
  BY <1>4 DEF Probe, Answers
<1>5. ASSUME NEW s \in Servers, Unlink(s) PROVE NothingLeftBehind'
  BY <1>5 DEF Unlink
<1>6. ASSUME NEW s \in Servers, Bind(s) PROVE NothingLeftBehind'
  BY <1>6 DEF Bind
<1>7. ASSUME NEW s \in Servers, AddressInUse(s) PROVE NothingLeftBehind'
  BY <1>7 DEF AddressInUse
<1>8. ASSUME NEW s \in Servers, Chmod(s) PROVE NothingLeftBehind'
  BY <1>8 DEF Chmod
<1>9. ASSUME NEW s \in Servers, Listen(s) PROVE NothingLeftBehind'
  BY <1>9 DEF Listen
<1>10. ASSUME NEW s \in Servers, Stop(s) PROVE NothingLeftBehind'
  BY <1>10 DEF Stop
<1>11. ASSUME NEW s \in Servers, Close(s) PROVE NothingLeftBehind'
  BY <1>11 DEF Close, CloseSocket
<1>12. ASSUME NEW s \in Servers, LstatOwn(s) PROVE NothingLeftBehind'
  BY <1>12 DEF LstatOwn
<1>13. ASSUME NEW s \in Servers, UnlinkOwn(s) PROVE NothingLeftBehind'
  BY <1>13 DEF UnlinkOwn
<1>14. ASSUME NEW s \in Servers, Release(s) PROVE NothingLeftBehind'
  BY <1>14 DEF Release
<1>15. ASSUME NEW s \in Servers, Crash(s) PROVE NothingLeftBehind'
  BY <1>15 DEF Crash, CloseSocket
<1> QED
  BY <1>1, <1>2, <1>3, <1>4, <1>5, <1>6, <1>7, <1>8, <1>9, <1>10, <1>11,
     <1>12, <1>13, <1>14, <1>15 DEF Next

(* Servers that end by the signal or an exception leave no stale entry     *)
(* between them, whatever paths and vaults they share: close_listener and  *)
(* open_listener clear what close() leaves.                                *)
THEOREM PathsCleared == Spec => []NothingLeftBehind
<1> DEFINE J == TypeOK /\ EntryOwned /\ NothingLeftBehind
<1>1. Init => J
  BY EndpointAssumption
     DEF Init, TypeOK, PCs, EntryOwned, NothingLeftBehind
<1>2. J /\ [Next]_vars => J'
  BY TypeStep, OwnedStep, BehindStep
<1>3. J => NothingLeftBehind
  OBVIOUS
<1> QED BY <1>1, <1>2, <1>3, PTL DEF Spec

-----------------------------------------------------------------------------
(* Two servers that live on a path of one vault are one: its lock has one  *)
(* holder.                                                                 *)
LEMMA Alone ==
    ASSUME Exclusive, NEW s \in Servers, NEW t \in Servers,
           OneVault(EndpointOf[s]),
           EndpointOf[s] = EndpointOf[t], pc[s] # "down", pc[t] # "down"
    PROVE  s = t
BY DEF OneVault, Exclusive

(* The lock of a vault stays with its holder until that server ends. *)
LEMMA ExclusiveStep == TypeOK /\ Exclusive /\ [Next]_vars => Exclusive'
<1> SUFFICES ASSUME TypeOK, Exclusive, [Next]_vars PROVE Exclusive'
  OBVIOUS
<1> USE EndpointAssumption DEF TypeOK, PCs, Exclusive, Goto
<1>1. CASE UNCHANGED vars
  BY <1>1 DEF vars
<1>2. ASSUME NEW s \in Servers, Start(s) PROVE Exclusive'
  BY <1>2 DEF Start
<1>3. ASSUME NEW s \in Servers, Release(s) \/ Crash(s) PROVE Exclusive'
  BY <1>3 DEF Release, Crash
<1>4. ASSUME NEW s \in Servers, pc[s] # "down", NEW l \in PCs, Goto(s, l),
             UNCHANGED vlock
      PROVE  Exclusive'
  BY <1>4
<1>5. ASSUME NEW s \in Servers,
             \/ Lstat(s) \/ Probe(s) \/ Unlink(s) \/ Bind(s) \/ AddressInUse(s)
             \/ Chmod(s) \/ Listen(s) \/ Stop(s) \/ Close(s) \/ LstatOwn(s)
             \/ UnlinkOwn(s)
      PROVE  Exclusive'
  BY <1>5, <1>4
     DEF Lstat, Probe, Unlink, Bind, AddressInUse, Chmod, Listen, Stop, Close,
         LstatOwn, UnlinkOwn
<1> QED BY <1>1, <1>2, <1>3, <1>5 DEF Next

(* The states the conjuncts about a path speak of are kept by every step:  *)
(* the server that takes it is the only one that lives on its path.        *)
LEMMA EntryStep ==
    ASSUME IInv, [Next]_vars
    PROVE  SocketState' /\ EntrySeen'
<1> USE EndpointAssumption
    DEF TypeOK, PCs, Bound, SocketState, EntryOwned, EntrySeen, Goto, SetEntry,
        Entry
<1>0. TypeOK /\ Exclusive /\ SocketState /\ EntryOwned /\ EntrySeen
  BY DEF IInv
<1>1. CASE UNCHANGED vars
  BY <1>0, <1>1 DEF vars
<1>2. ASSUME NEW s \in Servers, Start(s)
      PROVE  SocketState' /\ EntrySeen'
  BY <1>0, <1>2 DEF Start
<1>3. ASSUME NEW s \in Servers, pc[s] # "down"
      PROVE  \A t \in Servers :
                 pc[t] # "down" /\ EndpointOf[t] = EndpointOf[s]
                   /\ OneVault(EndpointOf[t]) => t = s
  BY <1>0, <1>3, Alone
<1>4. ASSUME NEW s \in Servers, Lstat(s)
      PROVE  SocketState' /\ EntrySeen'
  BY <1>0, <1>3, <1>4 DEF Lstat
<1>5. ASSUME NEW s \in Servers, Probe(s)
      PROVE  SocketState' /\ EntrySeen'
  BY <1>0, <1>5 DEF Probe, Answers
<1>6. ASSUME NEW s \in Servers, Unlink(s)
      PROVE  SocketState' /\ EntrySeen'
  BY <1>0, <1>3, <1>6 DEF Unlink
<1>7. ASSUME NEW s \in Servers, Bind(s)
      PROVE  SocketState' /\ EntrySeen'
  BY <1>0, <1>3, <1>7 DEF Bind
<1>8. ASSUME NEW s \in Servers, AddressInUse(s)
      PROVE  SocketState' /\ EntrySeen'
  BY <1>0, <1>8 DEF AddressInUse
<1>9. ASSUME NEW s \in Servers, Chmod(s)
      PROVE  SocketState' /\ EntrySeen'
  BY <1>0, <1>9 DEF Chmod
<1>10. ASSUME NEW s \in Servers, Listen(s)
       PROVE  SocketState' /\ EntrySeen'
  <2>1. SocketState'
    BY <1>0, <1>10 DEF Listen
  <2>2. EntrySeen'
    BY <1>0, <1>10 DEF Listen
  <2> QED BY <2>1, <2>2
<1>11. ASSUME NEW s \in Servers, Stop(s)
       PROVE  SocketState' /\ EntrySeen'
  BY <1>0, <1>11 DEF Stop
<1>12. ASSUME NEW s \in Servers, Close(s)
       PROVE  SocketState' /\ EntrySeen'
  BY <1>0, <1>3, <1>12 DEF Close, CloseSocket
<1>13. ASSUME NEW s \in Servers, LstatOwn(s)
       PROVE  SocketState' /\ EntrySeen'
  BY <1>0, <1>13 DEF LstatOwn
<1>14. ASSUME NEW s \in Servers, UnlinkOwn(s)
       PROVE  SocketState' /\ EntrySeen'
  BY <1>0, <1>3, <1>14 DEF UnlinkOwn
<1>15. ASSUME NEW s \in Servers, Release(s)
       PROVE  SocketState' /\ EntrySeen'
  BY <1>0, <1>15 DEF Release
<1>16. ASSUME NEW s \in Servers, Crash(s)
       PROVE  SocketState' /\ EntrySeen'
  BY <1>0, <1>3, <1>16 DEF Crash, CloseSocket
<1> QED
  BY <1>1, <1>2, <1>4, <1>5, <1>6, <1>7, <1>8, <1>9, <1>10, <1>11, <1>12,
     <1>13, <1>14, <1>15, <1>16 DEF Next

(* IInv is an inductive invariant. *)
LEMMA Invariance == Spec => []IInv
<1>1. Init => IInv
  BY EndpointAssumption
     DEF Init, IInv, TypeOK, PCs, Exclusive, SocketState, EntryOwned, EntrySeen,
         Bound, Entry
<1>2. IInv /\ [Next]_vars => IInv'
  BY TypeStep, ExclusiveStep, OwnedStep, EntryStep DEF IInv
<1> QED BY <1>1, <1>2, PTL DEF Spec

(* When the servers on its socket path serve one vault, a server that      *)
(* accepts clients is the one they reach: remove_stale_endpoint, bind and  *)
(* close_listener never take the entry of another.                         *)
THEOREM ServerReachable == Spec => []Reachable
<1>1. IInv => Reachable
  BY DEF IInv, EntrySeen, Bound, Reachable
<1> QED BY <1>1, Invariance, PTL

(* On such a path open_listener fails only if the path names something     *)
(* else than a socket: neither a crash nor the server before keeps the     *)
(* next one from starting.                                                 *)
THEOREM StartNotBlocked == Spec => []StartsOverRemains
<1>1. IInv => StartsOverRemains
  BY DEF IInv, EntrySeen, StartsOverRemains
<1> QED BY <1>1, Invariance, PTL

(* On such a path an entry goes away only when its own server has closed   *)
(* the socket.                                                             *)
THEOREM EntryKeptWhileLive == Spec => LiveEntryKept
<1>1. ASSUME IInv, IInv', [Next]_vars
      PROVE  [\A s \in Servers :
                  Entry(s) = s /\ Entry(s)' # s /\ OneVault(EndpointOf[s])
                      => sock'[s] = "none"]_vars
  <2> SUFFICES ASSUME NEW s \in Servers, Entry(s) = s, Entry(s)' # s,
                      OneVault(EndpointOf[s])
               PROVE  sock'[s] = "none"
    OBVIOUS
  <2>1. TypeOK' /\ SocketState' /\ EntrySeen'
    BY <1>1 DEF IInv
  <2>2. pc'[s] \notin Bound
    BY <2>1 DEF EntrySeen, Entry, OneVault
  <2> QED BY <2>1, <2>2 DEF SocketState, Bound, TypeOK, OneVault
<1> QED BY <1>1, Invariance, PTL DEF Spec, LiveEntryKept

(* On such a path close_listener "closes the listening socket and removes  *)
(* its filesystem entry": what it unlinks is what its own socket left.     *)
THEOREM OwnEntryRemoved ==
    Spec => [][\A s \in Servers : OneVault(EndpointOf[s]) => RemovesOwn(s)]_vars
<1>1. ASSUME IInv, [Next]_vars
      PROVE  [\A s \in Servers : OneVault(EndpointOf[s]) => RemovesOwn(s)]_vars
  BY <1>1 DEF IInv, EntrySeen, RemovesOwn
<1> QED BY <1>1, Invariance, PTL DEF Spec
=============================================================================
