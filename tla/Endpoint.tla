------------------------------ MODULE Endpoint ------------------------------
(***************************************************************************)
(* The life of the Unix socket path in src/server/server.cpp: a server     *)
(* looks for a stale entry at its socket path, removes it, binds, listens, *)
(* and removes the entry when it stops; it may be killed at any point.     *)
(* Before that it has taken the file lock of its vault, and it keeps the   *)
(* lock until the entry is removed (main.cpp, ~server).  --vault and       *)
(* --socket are independent: servers may share either, or both.            *)
(*                                                                         *)
(* Every step is one system call on the path, because another server can   *)
(* act between two of them.                                                *)
(***************************************************************************)
EXTENDS Naturals

CONSTANTS Servers,      \* server processes
          Vaults,       \* vault paths
          VaultOf,      \* the vault of each server
          Endpoints,    \* socket paths
          EndpointOf,   \* the socket path of each server
          NoSock,       \* nothing at the path
          Stale,        \* a socket at the path that no process has open
          NotASocket,   \* something else at the path
          NoServer

ASSUME EndpointAssumption ==
    /\ VaultOf \in [Servers -> Vaults]
    /\ EndpointOf \in [Servers -> Endpoints]
    /\ {NoSock, Stale, NotASocket, NoServer} \cap Servers = {}
    /\ NoSock # Stale /\ NoSock # NotASocket /\ Stale # NotASocket

VARIABLES path,    \* what is at each socket path; a server stands for its socket
          pc,      \* where each server is
          sock,    \* listener_: "none", "bound" or "listening"
          owns,    \* owns_endpoint_
          vlock,   \* the server that holds the lock of each vault
          killed   \* ghost: a server was killed, now or before the beginning

vars == <<path, pc, sock, owns, vlock, killed>>

PCs == {"down", "lstat", "probe", "unlink", "bind", "chmod", "listen",
        "serving", "refused", "stopping", "lstat_own", "unlink_own", "release"}

Init == /\ path \in [Endpoints -> {NoSock, Stale, NotASocket}]
        /\ pc = [s \in Servers |-> "down"]
        /\ sock = [s \in Servers |-> "none"]
        /\ owns = [s \in Servers |-> FALSE]
        /\ vlock = [v \in Vaults |-> NoServer]
        /\ killed = \E e \in Endpoints : path[e] = Stale

Goto(s, l) == pc' = [pc EXCEPT ![s] = l]

(* The path of a server, and what one system call on it leaves there. *)
Entry(s) == path[EndpointOf[s]]
SetEntry(s, x) == path' = [path EXCEPT ![EndpointOf[s]] = x]

(* What close() of a listener leaves at the path. *)
CloseSocket(s) == /\ SetEntry(s, IF Entry(s) = s THEN Stale ELSE Entry(s))
                  /\ sock' = [sock EXCEPT ![s] = "none"]

(* The vault is opened, which takes its lock, before the server starts. *)
Start(s) == /\ pc[s] = "down"
            /\ vlock[VaultOf[s]] = NoServer
            /\ vlock' = [vlock EXCEPT ![VaultOf[s]] = s]
            /\ Goto(s, "lstat")
            /\ UNCHANGED <<path, sock, owns, killed>>

-----------------------------------------------------------------------------
(* remove_stale_endpoint                                                   *)

Lstat(s) == /\ pc[s] = "lstat"
            /\ CASE Entry(s) = NoSock -> Goto(s, "bind")
                 [] Entry(s) = NotASocket -> Goto(s, "refused")
                 [] OTHER -> Goto(s, "probe")
            /\ UNCHANGED <<path, sock, owns, vlock, killed>>

(* connect reaches a listening socket; ECONNREFUSED, when nobody listens,  *)
(* and ENOENT count as stale.                                              *)
Answers(s) == Entry(s) \in Servers /\ sock[Entry(s)] = "listening"

(* Here and below, an operator with a longer name is a plausible wrong      *)
(* version of the one after it; Next does not use it.                      *)
ProbeLeavesEntry(s) ==
    /\ pc[s] = "probe"
    /\ Goto(s, IF Answers(s) \/ Entry(s) = NotASocket THEN "refused" ELSE "bind")
    /\ UNCHANGED <<path, sock, owns, vlock, killed>>

Probe(s) ==
    /\ pc[s] = "probe"
    /\ Goto(s, IF Answers(s) \/ Entry(s) = NotASocket THEN "refused" ELSE "unlink")
    /\ UNCHANGED <<path, sock, owns, vlock, killed>>

(* unlink removes whatever is at the path by now. *)
Unlink(s) == /\ pc[s] = "unlink"
             /\ SetEntry(s, NoSock)
             /\ Goto(s, "bind")
             /\ UNCHANGED <<sock, owns, vlock, killed>>

-----------------------------------------------------------------------------
(* open_listener                                                           *)

Bind(s) == /\ pc[s] = "bind"
           /\ Entry(s) = NoSock
           /\ SetEntry(s, s)
           /\ sock' = [sock EXCEPT ![s] = "bound"]
           /\ owns' = [owns EXCEPT ![s] = TRUE]
           /\ Goto(s, "chmod")
           /\ UNCHANGED <<vlock, killed>>

AddressInUse(s) == /\ pc[s] = "bind"
                   /\ Entry(s) # NoSock
                   /\ Goto(s, "refused")
                   /\ UNCHANGED <<path, sock, owns, vlock, killed>>

(* chmod works on the path, not on the socket. *)
Chmod(s) == /\ pc[s] = "chmod"
            /\ Goto(s, IF Entry(s) = NoSock THEN "refused" ELSE "listen")
            /\ UNCHANGED <<path, sock, owns, vlock, killed>>

Listen(s) == /\ pc[s] = "listen"
             /\ sock' = [sock EXCEPT ![s] = "listening"]
             /\ Goto(s, "serving")
             /\ UNCHANGED <<path, owns, vlock, killed>>

-----------------------------------------------------------------------------
(* The loop of run ends, by the signal or by an exception.                 *)

StopReleasesVault(s) ==
    /\ pc[s] = "serving"
    /\ Goto(s, "stopping")
    /\ vlock' = [vlock EXCEPT ![VaultOf[s]] = NoServer]
    /\ UNCHANGED <<path, sock, owns, killed>>

Stop(s) == /\ pc[s] = "serving"
           /\ Goto(s, "stopping")
           /\ UNCHANGED <<path, sock, owns, vlock, killed>>

(* close_listener: close, and return early when the entry is not ours. *)
CloseClearsFlagFirst(s) ==
    /\ pc[s] \in {"refused", "stopping"}
    /\ CloseSocket(s)
    /\ owns' = [owns EXCEPT ![s] = FALSE]
    /\ Goto(s, "release")
    /\ UNCHANGED <<vlock, killed>>

Close(s) == /\ pc[s] \in {"refused", "stopping"}
            /\ CloseSocket(s)
            /\ Goto(s, IF owns[s] THEN "lstat_own" ELSE "release")
            /\ UNCHANGED <<owns, vlock, killed>>

LstatOwn(s) == /\ pc[s] = "lstat_own"
               /\ IF Entry(s) \notin {NoSock, NotASocket}
                  THEN Goto(s, "unlink_own") /\ UNCHANGED owns
                  ELSE /\ Goto(s, "release")
                       /\ owns' = [owns EXCEPT ![s] = FALSE]
               /\ UNCHANGED <<path, sock, vlock, killed>>

UnlinkOwnKeepsFlag(s) == /\ pc[s] = "unlink_own"
                         /\ SetEntry(s, NoSock)
                         /\ Goto(s, "release")
                         /\ UNCHANGED <<sock, owns, vlock, killed>>

UnlinkOwn(s) == /\ pc[s] = "unlink_own"
                /\ SetEntry(s, NoSock)
                /\ owns' = [owns EXCEPT ![s] = FALSE]
                /\ Goto(s, "release")
                /\ UNCHANGED <<sock, vlock, killed>>

(* The members of the server go last, and with them the vault's lock. *)
Release(s) == /\ pc[s] = "release"
              /\ vlock' = [v \in Vaults |->
                             IF vlock[v] = s THEN NoServer ELSE vlock[v]]
              /\ Goto(s, "down")
              /\ UNCHANGED <<path, sock, owns, killed>>

(* The process is killed; the entry stays behind. *)
Crash(s) == /\ pc[s] # "down"
            /\ CloseSocket(s)
            /\ owns' = [owns EXCEPT ![s] = FALSE]
            /\ vlock' = [v \in Vaults |->
                           IF vlock[v] = s THEN NoServer ELSE vlock[v]]
            /\ Goto(s, "down")
            /\ killed' = TRUE

Next == \E s \in Servers :
            \/ Start(s) \/ Lstat(s) \/ Probe(s) \/ Unlink(s) \/ Bind(s)
            \/ AddressInUse(s) \/ Chmod(s) \/ Listen(s) \/ Stop(s) \/ Close(s)
            \/ LstatOwn(s) \/ UnlinkOwn(s) \/ Release(s) \/ Crash(s)

Spec == Init /\ [][Next]_vars

-----------------------------------------------------------------------------
(* The state has its type, and owns_endpoint_ is set exactly from bind to  *)
(* the removal of the entry.                                               *)
TypeOK == /\ path \in [Endpoints -> Servers \cup {NoSock, Stale, NotASocket}]
          /\ killed \in BOOLEAN
          /\ pc \in [Servers -> PCs]
          /\ sock \in [Servers -> {"none", "bound", "listening"}]
          /\ owns \in [Servers -> BOOLEAN]
          /\ vlock \in [Vaults -> Servers \cup {NoServer}]
          /\ \A s \in Servers :
               /\ pc[s] \in {"chmod", "listen", "serving", "stopping",
                             "lstat_own", "unlink_own"} => owns[s]
               /\ pc[s] \in {"down", "lstat", "probe", "unlink", "bind",
                             "release"} => ~owns[s]

(* Servers on this socket path serve one vault. *)
OneVault(e) == \A s, t \in Servers : EndpointOf[s] = e /\ EndpointOf[t] = e
                                        => VaultOf[s] = VaultOf[t]

(* A server that accepts clients is the one they reach at the path: no     *)
(* other server took its entry away, neither when starting nor when        *)
(* stopping.                                                               *)
Reachable == \A s \in Servers : pc[s] = "serving" /\ OneVault(EndpointOf[s])
                                   => Entry(s) = s

(* What a crash or another server left at the path never stops a server    *)
(* from starting, unless it is no socket at all.                           *)
StartsOverRemains ==
    \A s \in Servers : pc[s] = "refused" /\ OneVault(EndpointOf[s])
                          => Entry(s) = NotASocket

(* The entry of a server disappears only once that server has closed its   *)
(* socket.                                                                 *)
LiveEntryKept ==
    [][\A s \in Servers :
           Entry(s) = s /\ Entry(s)' # s /\ OneVault(EndpointOf[s])
               => sock'[s] = "none"]_vars

(* Servers that are stopped and not killed clear the path between them,    *)
(* however they interfere: an entry without a listener has an owner that   *)
(* is about to remove it.                                                  *)
NothingLeftBehind ==
    \A e \in Endpoints : path[e] = Stale /\ ~killed =>
        \E s \in Servers : /\ EndpointOf[s] = e
                           /\ owns[s]
                           /\ pc[s] \in {"lstat_own", "unlink_own"}

(* close_listener "closes the listening socket and removes its filesystem  *)
(* entry": what it removes is not the live entry of another server.        *)
RemovesOwn(s) == pc[s] = "unlink_own" /\ pc'[s] = "release"
                     => Entry(s) \in {s, Stale, NoSock}

RemovesItsEntry == [][\A s \in Servers : RemovesOwn(s)]_vars

-----------------------------------------------------------------------------
(* Why the above hold: the inductive invariant of EndpointProofs.          *)

(* The states between bind and close. *)
Bound == {"chmod", "listen", "serving", "stopping"}

(* Every server that lives holds the lock of its vault. *)
Exclusive == \A s \in Servers : pc[s] # "down" => vlock[VaultOf[s]] = s

SocketState ==
    \A s \in Servers : OneVault(EndpointOf[s]) =>
        /\ sock[s] = "bound" <=> pc[s] \in {"chmod", "listen"}
        /\ sock[s] = "listening" <=> pc[s] \in {"serving", "stopping"}

(* An entry with an owner is that of a server that bound it there and has  *)
(* not closed its socket.                                                  *)
EntryOwned ==
    \A e \in Endpoints : path[e] \in Servers =>
        /\ EndpointOf[path[e]] = e
        /\ owns[path[e]]
        /\ pc[path[e]] \in Bound \cup {"refused"}

(* What a server knows of its path, if nobody else can be there. *)
EntrySeen ==
    \A s \in Servers : OneVault(EndpointOf[s]) =>
        /\ pc[s] \in Bound => Entry(s) = s
        /\ pc[s] \in {"probe", "unlink", "lstat_own", "unlink_own"}
             => Entry(s) = Stale
        /\ pc[s] = "bind" => Entry(s) = NoSock
        /\ pc[s] = "refused" => Entry(s) = NotASocket /\ ~owns[s]

IInv == /\ TypeOK
        /\ Exclusive
        /\ SocketState
        /\ EntryOwned
        /\ EntrySeen
=============================================================================
