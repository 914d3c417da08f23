------------------------- MODULE VaultServiceProofs -------------------------
(***************************************************************************)
(* Proofs about VaultService: what the callers are told is what the vault  *)
(* holds, for any number of clients, connections and identifiers.          *)
(***************************************************************************)
EXTENDS VaultService, SequenceTheorems, TLAPS

(* What a request is. *)
LEMMA RequestFacts ==
    ASSUME NEW c \in Clients, NEW r \in Requests(c)
    PROVE  /\ r \in RealRequests /\ r \in AllRequests
           /\ r.op \in Operations
           /\ r.op \in {"get", "put", "remove"} => r.id \in Ids
           /\ r.op = "put" => r.value \in Values
           /\ r.op \in {"put", "remove"} => Writer[r.id] = c
<1>1. r \in RealRequests /\ r \in AllRequests
  BY DEF RealRequests, AllRequests
<1>2. CASE r \in {Request(o, NoId, NoSecret) : o \in Calls[c] \cap {"ping", "list", "lock"}}
  BY <1>1, <1>2, ServiceAssumption, SMT DEF Request, Operations
<1>3. CASE r \in {Request("get", i, NoSecret) : i \in IF "get" \in Calls[c] THEN Ids ELSE {}}
  BY <1>1, <1>3, SMT DEF Request, Operations
<1>4. CASE r \in {q \in {Request("put", i, v) : i \in Ids, v \in Values} :
                    "put" \in Calls[c] /\ Writer[q.id] = c}
  BY <1>1, <1>4, SMT DEF Request, Operations
<1>5. CASE r \in {q \in {Request("remove", i, NoSecret) : i \in Ids} :
                    "remove" \in Calls[c] /\ Writer[q.id] = c}
  BY <1>1, <1>5, SMT DEF Request, Operations
<1> QED BY <1>2, <1>3, <1>4, <1>5 DEF Requests

(* What a request of any client is.                                        *)
LEMMA RealRequestFacts ==
    ASSUME NEW r \in RealRequests
    PROVE  /\ r \in AllRequests
           /\ r.op \in Operations
           /\ r.op \in {"get", "put", "remove"} => r.id \in Ids
           /\ r.op = "put" => r.value \in Values
           /\ r.op \in {"put", "remove"} =>
                Writer[r.id] \in Clients /\ r \in Requests(Writer[r.id])
           /\ \A c \in Clients : r \in Requests(c) /\ r.op \in {"put", "remove"}
                                 => Writer[r.id] = c
<1>1. PICK c \in Clients : r \in Requests(c)
  BY DEF RealRequests
<1> QED BY <1>1, RequestFacts
-----------------------------------------------------------------------------
(* The invariant in parts that are easier to re-establish: the type of     *)
(* single variables, the sockets, and what the connections hold.           *)
Connections == [up : Seq(RealFrames), down : Seq(Tokens), cli : BOOLEAN,
                srv : BOOLEAN]

Local == /\ disk \in Maps
         /\ locked \in BOOLEAN /\ stop \in BOOLEAN
         /\ spc \in {"down", "head", "wait", "session", "closing", "exec",
                     "reply"}
         /\ cur \in Conns \cup {NoConn}
         /\ cur # NoConn <=> spc \in {"session", "closing", "exec", "reply"}
         /\ frame \in Frames
         /\ answer \in Replies
         /\ backlog \in Seq(Conns) /\ Len(backlog) <= Backlog
         /\ cpc \in [Clients -> {"none", "idle", "await", "payload"}]
         /\ sock \in [Clients -> Conns \cup {NoConn}]
         /\ nextId \in [Clients -> 1 .. MaxRequestId]
         /\ req \in [Clients -> AllRequests]
         /\ seen \in [Clients -> SUBSET (Values \cup {NoSecret})]
         /\ expect \in [Ids -> SUBSET (Values \cup {NoSecret})]

Sockets == \A c \in Clients : sock[c] # NoConn =>
               /\ conn[sock[c]].cli
               /\ \A d \in Clients \ {c} : sock[d] # sock[c]

Waiting == /\ conn \in [Conns -> Connections]
           /\ \A m, n \in DOMAIN backlog : backlog[m] = backlog[n] => m = n
           /\ \A k \in Conns : /\ conn[k].srv <=> k = cur \/ Waits(k)
                               /\ Waits(k) => k # cur /\ conn[k].down = <<>>
                               /\ ~conn[k].srv => conn[k].up = <<>>
                               /\ Busy(k) => frame \in RealFrames

Handles == \A c \in Clients : Handle(c)

Parts == Local /\ Sockets /\ Waiting /\ Known /\ Handles /\ LockIsKept

(* The invariant and its parts say the same.                               *)
LEMMA PartsOfInv == ServiceInv <=> Parts
<1>1. Queue <=> Waiting
  BY DEF Queue, Waiting, Connections
<1>2. ASSUME Waiting, Local
      PROVE  /\ \A n \in DOMAIN backlog : conn[backlog[n]].srv
             /\ \A k \in Conns : /\ conn[k].up \in Seq(Frames)
                                 /\ conn[k].down \in Seq(Tokens)
                                 /\ conn[k].cli \in BOOLEAN
                                 /\ conn[k].srv \in BOOLEAN
  <2>1. ASSUME NEW n \in DOMAIN backlog PROVE conn[backlog[n]].srv
    <3>1. backlog[n] \in Conns
      BY <1>2, <2>1, ElementOfSeq, LenProperties DEF Local
    <3> QED BY <3>1, <1>2 DEF Waiting, Waits
  <2>2. ASSUME NEW k \in Conns
        PROVE  /\ conn[k].up \in Seq(Frames)
               /\ conn[k].down \in Seq(Tokens)
               /\ conn[k].cli \in BOOLEAN
               /\ conn[k].srv \in BOOLEAN
    <3>1. conn[k] \in Connections
      BY <1>2 DEF Waiting
    <3>2. /\ conn[k].up \in Seq(RealFrames) /\ conn[k].down \in Seq(Tokens)
          /\ conn[k].cli \in BOOLEAN /\ conn[k].srv \in BOOLEAN
      BY <3>1 DEF Connections
    <3>3. RealFrames \subseteq Frames
      BY DEF RealFrames, Frames, RealRequests, AllRequests
    <3> QED BY <3>2, <3>3, SeqMonotonic
  <2> QED BY <2>1, <2>2
<1>3. ASSUME Waiting PROVE TypeOK <=> Local /\ Sockets
  <2>1. TypeOK => Local /\ Sockets
    BY DEF TypeOK, Local, Sockets
  <2>2. Local /\ Sockets => TypeOK
    BY <1>2, <1>3 DEF TypeOK, Local, Sockets
  <2> QED BY <2>1, <2>2
<1> QED BY <1>1, <1>3 DEF ServiceInv, Parts, Handles

(* The same of the next state. *)
LEMMA PartsNext == ServiceInv' <=> Parts'
BY PartsOfInv, PTL

(* What one connection is made of, and what closing it leaves. *)
LEMMA ConnectionFacts ==
    ASSUME NEW x \in Connections
    PROVE  /\ x.up \in Seq(RealFrames) /\ x.down \in Seq(Tokens)
           /\ x.cli \in BOOLEAN /\ x.srv \in BOOLEAN
BY DEF Connections

(* The server closes its end: nothing it has not read is left.             *)
LEMMA ServerCloses ==
    ASSUME NEW x \in Connections
    PROVE  /\ ClosedByServer(x) \in Connections
           /\ ClosedByServer(x).up = <<>> /\ ClosedByServer(x).srv = FALSE
           /\ ClosedByServer(x).cli = x.cli
           /\ x.cli => ClosedByServer(x).down = x.down
<1>1. <<>> \in Seq(RealFrames) /\ <<>> \in Seq(Tokens)
  OBVIOUS
<1> QED BY <1>1 DEF ClosedByServer, Free, Connections

(* The client closes its end: nothing it has not read is left.             *)
LEMMA ClientCloses ==
    ASSUME NEW x \in Connections, ~x.srv => x.up = <<>>
    PROVE  /\ ClosedByClient(x) \in Connections
           /\ ClosedByClient(x).up = x.up /\ ClosedByClient(x).srv = x.srv
           /\ ClosedByClient(x).cli = FALSE /\ ClosedByClient(x).down = <<>>
<1>1. <<>> \in Seq(RealFrames) /\ <<>> \in Seq(Tokens)
  OBVIOUS
<1> QED BY <1>1 DEF ClosedByClient, Free, Connections

-----------------------------------------------------------------------------
(* A client that a step leaves alone: at most its connection loses a       *)
(* request, and what precedes it still does.                               *)
LEMMA Undisturbed ==
    ASSUME NEW c \in Clients, Handle(c),
           cpc'[c] = cpc[c], sock'[c] = sock[c], req'[c] = req[c],
           seen'[c] = seen[c], disk' = disk,
           \A i \in Ids : /\ expect'[i] \subseteq expect[i]
                          /\ Writer[i] = c => expect'[i] = expect[i],
           sock[c] # NoConn =>
             /\ conn'[sock[c]].down = conn[sock[c]].down
             /\ \/ conn'[sock[c]].up = conn[sock[c]].up
                \/ conn'[sock[c]].up = <<>>
             /\ Busy(sock[c])' => /\ Busy(sock[c]) /\ spc' = spc
                                  /\ frame' = frame /\ answer' = answer,
           \A j \in Conns, r \in RealRequests : Unexecuted(j, r)' => Unexecuted(j, r),
           \A j \in Conns, r \in RealRequests :
               /\ Unexecuted(j, r)' /\ j # sock[c] /\ sock[c] # NoConn
               /\ sock[c] # cur /\ conn[sock[c]].srv /\ Precedes(j, sock[c])
               => /\ sock[c] # cur' /\ conn'[sock[c]].srv
                  /\ Precedes(j, sock[c])'
    PROVE  Handle(c)'
<1> DEFINE k == sock[c]
<1>0. CASE k = NoConn
  BY <1>0 DEF Handle
<1> SUFFICES ASSUME k # NoConn PROVE Handle(c)'
  BY <1>0
<1>1. Turn(c, k) /\ Ordered(c, k) /\ Remembered(c, k)
  BY DEF Handle
<1>2. \A a : Truthful(c, a)' <=> Truthful(c, a)
  BY DEF Truthful
<1>3. Turn(c, k)'
  BY <1>1, <1>2 DEF Turn, Stale
<1>4. Ordered(c, k)'
  BY <1>1 DEF Ordered
<1>5. Remembered(c, k)'
  <2> SUFFICES ASSUME cpc[c] \in {"await", "payload"}
               PROVE  Remembered(c, k)'
    BY DEF Remembered
  <2>1. req[c] \in Requests(c)
    BY <1>1 DEF Remembered
  <2>2. req[c].op \in {"get", "put", "remove"} =>
           /\ req[c].id \in Ids /\ expect'[req[c].id] \subseteq expect[req[c].id]
           /\ req[c].op # "get" => expect'[req[c].id] = expect[req[c].id]
    BY <2>1, RequestFacts
  <2> QED BY <1>1, <2>2 DEF Remembered
<1> QED BY <1>3, <1>4, <1>5 DEF Handle
-----------------------------------------------------------------------------
(* The invariant holds before anything has happened.                       *)
LEMMA InitInv == Init => ServiceInv
<1> SUFFICES ASSUME Init PROVE Parts
  BY PartsOfInv
<1>1. <<>> \in Seq(RealFrames) /\ <<>> \in Seq(Tokens) /\ <<>> \in Seq(Conns)
      /\ Len(<<>>) = 0
  OBVIOUS
<1>2. Local
  <2>1. Frame(0, NoRequest) \in Frames /\ NoRequest \in AllRequests
    BY ServiceAssumption DEF Frame, Frames, AllRequests
  <2>2. NoReply \in Replies
    BY SMT DEF NoReply, Replies, Statuses
  <2>3. 1 \in 1 .. MaxRequestId
    BY ServiceAssumption
  <2>4. Len(backlog) <= Backlog
    BY <1>1, ServiceAssumption DEF Init
  <2> QED BY <1>1, <2>1, <2>2, <2>3, <2>4 DEF Init, Local, Maps
<1>3. Sockets /\ Handles
  BY DEF Init, Sockets, Handles, Handle
<1>4. Waiting
  <2>1. Free \in Connections
    BY <1>1 DEF Free, Connections
  <2> QED BY <2>1, ServiceAssumption DEF Init, Waiting, Waits, Busy, Free
<1>5. Known
  BY ServiceAssumption DEF Init, Known, Unexecuted, Free
<1>6. LockIsKept
  BY DEF Init, LockIsKept
<1> QED BY <1>2, <1>3, <1>4, <1>5, <1>6 DEF Parts

-----------------------------------------------------------------------------
(* Steps that change neither the requests nor who holds what.              *)
Aside == UNCHANGED <<disk, cur, frame, answer, backlog, conn, client, ghost>>

(* A step aside keeps the invariant.                                       *)
LEMMA AsideKeepsInv ==
    ASSUME ServiceInv, Aside, stop' \in BOOLEAN, locked' \in BOOLEAN,
           \/ spc' = spc /\ locked' = locked
           \/ /\ {spc, spc'} \subseteq {"down", "head", "wait"}
              /\ cur = NoConn
           \/ {spc, spc'} \subseteq {"session", "closing"} /\ locked' = locked
    PROVE  ServiceInv'
<1>0. Parts
  BY PartsOfInv
<1>1. /\ disk' = disk /\ cur' = cur /\ frame' = frame /\ answer' = answer
      /\ backlog' = backlog /\ conn' = conn /\ cpc' = cpc /\ sock' = sock
      /\ nextId' = nextId /\ req' = req /\ seen' = seen /\ expect' = expect
  BY DEF Aside, client, ghost
<1>2. Local'
  BY <1>0, <1>1 DEF Parts, Local
<1>3. Sockets' /\ LockIsKept'
  BY <1>0, <1>1 DEF Parts, Sockets, LockIsKept
<1>4. \A k \in Conns : /\ (Busy(k))' <=> Busy(k)
                       /\ Busy(k) => spc' = spc
                       /\ (Waits(k))' <=> Waits(k)
  BY <1>1, ServiceAssumption DEF Busy, Waits
<1>5. \A k \in Conns, r \in RealRequests :
         /\ (Unexecuted(k, r))' <=> Unexecuted(k, r)
         /\ \A j \in Conns : (Precedes(j, k))' <=> Precedes(j, k)
  BY <1>1, ServiceAssumption DEF Unexecuted, Precedes
<1>6. Waiting'
  BY <1>0, <1>1, <1>4 DEF Parts, Waiting
<1>7. Known'
  BY <1>0, <1>1, <1>5 DEF Parts, Known
<1>8. ASSUME NEW c \in Clients PROVE Handle(c)'
  <2>1. Handle(c) /\ sock[c] \in Conns \cup {NoConn}
    BY <1>0 DEF Parts, Handles, Local
  <2> QED BY <1>1, <1>4, <1>5, <2>1, Undisturbed
<1> QED BY <1>2, <1>3, <1>6, <1>7, <1>8, PartsNext DEF Parts, Handles

(* The server ends, or is killed: every request it has not answered is     *)
(* gone.                                                                   *)
LEMMA DownKeepsInv == ASSUME ServiceInv, Down PROVE ServiceInv'
<1>0. Parts
  BY PartsOfInv
<1>1. /\ disk' = disk /\ locked' = locked /\ stop' = stop /\ cpc' = cpc
      /\ sock' = sock /\ nextId' = nextId /\ req' = req /\ seen' = seen
      /\ expect' = expect /\ spc' = "down" /\ cur' = NoConn
      /\ frame' = Frame(0, NoRequest) /\ answer' = NoReply /\ backlog' = <<>>
      /\ conn' = [k \in Conns |-> ClosedByServer(conn[k])]
  BY DEF Down, client, ghost
<1>2. ASSUME NEW k \in Conns
      PROVE  /\ conn'[k] \in Connections
             /\ conn'[k].up = <<>> /\ conn'[k].srv = FALSE
             /\ conn'[k].cli = conn[k].cli
             /\ conn[k].cli => conn'[k].down = conn[k].down
             /\ ~(Busy(k))' /\ ~(Waits(k))'
             /\ \A r \in RealRequests : ~(Unexecuted(k, r))'
  <2>1. conn[k] \in Connections /\ conn'[k] = ClosedByServer(conn[k])
    BY <1>0, <1>1 DEF Parts, Waiting
  <2>2. /\ conn'[k] \in Connections
        /\ conn'[k].up = <<>> /\ conn'[k].srv = FALSE
        /\ conn'[k].cli = conn[k].cli
        /\ conn[k].cli => conn'[k].down = conn[k].down
    BY <2>1, ServerCloses
  <2>3. ~(Busy(k))' /\ ~(Waits(k))'
    BY <1>1, ServiceAssumption DEF Busy, Waits
  <2>4. ASSUME NEW r \in RealRequests PROVE ~(Unexecuted(k, r))'
    BY <1>1, <2>2, ServiceAssumption DEF Unexecuted
  <2> QED BY <2>2, <2>3, <2>4
<1>3. Local'
  <2>1. Frame(0, NoRequest) \in Frames
    BY ServiceAssumption DEF Frame, Frames, AllRequests
  <2>2. NoReply \in Replies
    BY DEF NoReply, Replies, Statuses
  <2>3. <<>> \in Seq(Conns) /\ Len(<<>>) <= Backlog
    BY ServiceAssumption
  <2> QED BY <1>0, <1>1, <2>1, <2>2, <2>3 DEF Parts, Local
<1>4. Sockets' /\ LockIsKept'
  BY <1>0, <1>1, <1>2 DEF Parts, Sockets, LockIsKept, Local
<1>5. Waiting'
  <2>1. conn' \in [Conns -> Connections]
    BY <1>1, <1>2
  <2>2. \A m, n \in DOMAIN backlog' : backlog'[m] = backlog'[n] => m = n
    BY <1>1
  <2>3. \A k \in Conns : k # cur'
    BY <1>1, ServiceAssumption
  <2> QED BY <1>2, <2>1, <2>2, <2>3 DEF Waiting
<1>6. Known'
  BY <1>0, <1>1, <1>2 DEF Parts, Known
<1>7. ASSUME NEW c \in Clients PROVE Handle(c)'
  <2>1. Handle(c) /\ sock[c] \in Conns \cup {NoConn}
        /\ (sock[c] # NoConn => conn[sock[c]].cli)
    BY <1>0 DEF Parts, Handles, Local, Sockets
  <2> QED BY <1>1, <1>2, <2>1, Undisturbed
<1> QED BY <1>3, <1>4, <1>5, <1>6, <1>7, PartsNext DEF Parts, Handles

-----------------------------------------------------------------------------
(* The server takes connections, and requests from them, in order.         *)
LEMMA AcceptKeepsInv == ASSUME ServiceInv, Accept PROVE ServiceInv'
<1>0. Parts
  BY PartsOfInv
<1>1. /\ disk' = disk /\ locked' = locked /\ stop' = stop /\ cpc' = cpc
      /\ sock' = sock /\ nextId' = nextId /\ req' = req /\ seen' = seen
      /\ expect' = expect /\ spc = "wait" /\ spc' = "session" /\ frame' = frame
      /\ answer' = answer /\ conn' = conn /\ backlog # <<>>
      /\ cur' = Head(backlog) /\ backlog' = Tail(backlog)
  BY DEF Accept, client, ghost
<1> DEFINE x == Head(backlog)
<1>2. /\ backlog \in Seq(Conns) /\ DOMAIN backlog = 1 .. Len(backlog)
      /\ Len(backlog) \in Nat \ {0} /\ x \in Conns /\ x = backlog[1]
      /\ Tail(backlog) \in Seq(Conns)
      /\ DOMAIN Tail(backlog) = 1 .. Len(backlog) - 1
      /\ Len(Tail(backlog)) = Len(backlog) - 1
      /\ \A n \in DOMAIN Tail(backlog) : Tail(backlog)[n] = backlog[n + 1]
  <2>1. backlog \in Seq(Conns)
    BY <1>0 DEF Parts, Local
  <2> QED BY <1>1, <2>1, HeadTailProperties, LenProperties, EmptySeq
<1>3. cur = NoConn
  BY <1>0, <1>1 DEF Parts, Local
<1>4. ASSUME NEW k \in Conns
      PROVE  /\ (Waits(k))' <=> Waits(k) /\ k # x
             /\ ~Busy(k) /\ ~(Busy(k))'
             /\ \A r \in RealRequests : (Unexecuted(k, r))' <=> Unexecuted(k, r)
  <2>1. ASSUME Waits(k), k # x PROVE (Waits(k))'
    <3>1. PICK n \in DOMAIN backlog : backlog[n] = k
      BY <2>1 DEF Waits
    <3>2. n - 1 \in DOMAIN backlog' /\ backlog'[n - 1] = k
      BY <1>1, <1>2, <2>1, <3>1
    <3> QED BY <3>2 DEF Waits
  <2>2. ASSUME (Waits(k))' PROVE Waits(k) /\ k # x
    <3>1. PICK n \in DOMAIN backlog' : backlog'[n] = k
      BY <2>2 DEF Waits
    <3>2. n + 1 \in DOMAIN backlog /\ backlog[n + 1] = k /\ 1 \in DOMAIN backlog
          /\ n + 1 # 1
      BY <1>1, <1>2, <3>1
    <3> QED BY <1>0, <1>2, <3>2 DEF Waits, Parts, Waiting
  <2>3. ~Busy(k) /\ ~(Busy(k))'
    BY <1>1, <1>3, ServiceAssumption DEF Busy
  <2>4. ASSUME NEW r \in RealRequests
        PROVE  (Unexecuted(k, r))' <=> Unexecuted(k, r)
    BY <1>1, <1>3, ServiceAssumption DEF Unexecuted
  <2> QED BY <2>1, <2>2, <2>3, <2>4
<1>5. Waits(x)
  BY <1>2 DEF Waits
<1>6. Local'
  <2>1. Len(backlog') <= Backlog
    BY <1>0, <1>1, <1>2, ServiceAssumption DEF Parts, Local
  <2> QED BY <1>0, <1>1, <1>2, <2>1, ServiceAssumption DEF Parts, Local
<1>7. Sockets' /\ LockIsKept'
  BY <1>0, <1>1 DEF Parts, Sockets, LockIsKept
<1>8. Waiting'
  <2>1. \A m, n \in DOMAIN backlog' : backlog'[m] = backlog'[n] => m = n
    <3> SUFFICES ASSUME NEW m \in DOMAIN backlog', NEW n \in DOMAIN backlog',
                        backlog'[m] = backlog'[n]
                 PROVE  m = n
      OBVIOUS
    <3>1. /\ m + 1 \in DOMAIN backlog /\ n + 1 \in DOMAIN backlog
          /\ backlog[m + 1] = backlog[n + 1] /\ m \in Nat /\ n \in Nat
      BY <1>1, <1>2
    <3>2. m + 1 = n + 1
      BY <1>0, <3>1 DEF Parts, Waiting
    <3> QED BY <3>1, <3>2
  <2>2. ASSUME NEW k \in Conns
        PROVE  /\ conn[k].srv <=> k = x \/ (Waits(k))'
               /\ (Waits(k))' => k # x /\ conn[k].down = <<>>
               /\ ~conn[k].srv => conn[k].up = <<>>
    BY <1>0, <1>3, <1>4, <1>5, ServiceAssumption DEF Parts, Waiting
  <2>3. conn \in [Conns -> Connections]
    BY <1>0 DEF Parts, Waiting
  <2> QED BY <1>1, <1>4, <2>1, <2>2, <2>3 DEF Waiting
<1>9. Known'
  BY <1>0, <1>1, <1>4 DEF Parts, Known
<1>10. ASSUME NEW c \in Clients PROVE Handle(c)'
  <2>1. Handle(c) /\ sock[c] \in Conns \cup {NoConn}
    BY <1>0 DEF Parts, Handles, Local
  <2>2. ASSUME NEW j \in Conns, sock[c] # NoConn, Precedes(j, sock[c])
        PROVE  sock[c] # cur' /\ (Precedes(j, sock[c]))'
    <3>1. PICK m \in DOMAIN backlog, n \in DOMAIN backlog :
             m < n /\ backlog[m] = j /\ backlog[n] = sock[c]
      BY <1>3, <2>2, ServiceAssumption DEF Precedes
    <3>2. n # 1 /\ 1 \in DOMAIN backlog /\ n \in Nat /\ m \in Nat
      BY <1>2, <3>1
    <3>3. sock[c] # x
      BY <1>0, <1>2, <3>1, <3>2 DEF Parts, Waiting
    <3>4. CASE m = 1
      BY <1>1, <1>2, <3>1, <3>3, <3>4 DEF Precedes
    <3>5. CASE m # 1
      <4>1. /\ m - 1 \in DOMAIN backlog' /\ n - 1 \in DOMAIN backlog'
            /\ backlog'[m - 1] = j /\ backlog'[n - 1] = sock[c] /\ m - 1 < n - 1
        BY <1>1, <1>2, <3>1, <3>2, <3>5
      <4> QED BY <1>1, <3>3, <4>1 DEF Precedes
    <3> QED BY <3>4, <3>5
  <2> QED BY <1>1, <1>4, <2>1, <2>2, Undisturbed
<1> QED BY <1>6, <1>7, <1>8, <1>9, <1>10, PartsNext DEF Parts, Handles

(* A request that is read is the one its client waits for.                 *)
LEMMA ReadRequestKeepsInv == ASSUME ServiceInv, ReadRequest PROVE ServiceInv'
<1>0. Parts
  BY PartsOfInv
<1>1. /\ disk' = disk /\ locked' = locked /\ stop' = stop /\ cpc' = cpc
      /\ sock' = sock /\ nextId' = nextId /\ req' = req /\ seen' = seen
      /\ expect' = expect /\ spc = "session" /\ spc' = "exec" /\ cur' = cur
      /\ answer' = answer /\ backlog' = backlog /\ conn[cur].up # <<>>
      /\ frame' = Head(conn[cur].up)
      /\ conn' = [conn EXCEPT ![cur].up = Tail(@)]
  BY DEF ReadRequest, client, ghost
<1> DEFINE up == conn[cur].up
<1>2. /\ cur \in Conns /\ up \in Seq(RealFrames)
      /\ conn \in [Conns -> Connections]
  BY <1>0, <1>1, ServiceAssumption DEF Parts, Local, Waiting, Connections
<1>3. /\ Head(up) = up[1] /\ Head(up) \in RealFrames /\ Tail(up) \in Seq(RealFrames)
      /\ DOMAIN up = 1 .. Len(up) /\ Len(up) \in Nat \ {0}
      /\ DOMAIN Tail(up) = 1 .. Len(up) - 1
      /\ \A n \in DOMAIN Tail(up) : Tail(up)[n] = up[n + 1]
  BY <1>1, <1>2, HeadTailProperties, LenProperties, EmptySeq
<1>4. /\ conn' \in [Conns -> Connections] /\ conn'[cur].up = Tail(up)
      /\ \A k \in Conns : /\ conn'[k].down = conn[k].down
                          /\ conn'[k].cli = conn[k].cli
                          /\ conn'[k].srv = conn[k].srv
                          /\ k # cur => conn'[k] = conn[k]
  BY <1>1, <1>2, <1>3 DEF Connections
<1>5. ASSUME NEW k \in Conns, NEW r \in RealRequests, (Unexecuted(k, r))'
      PROVE  Unexecuted(k, r)
  <2>1. CASE k # cur
    BY <1>1, <1>4, <1>5, <2>1 DEF Unexecuted
  <2>2. CASE k = cur
    <3>1. CASE frame'.request = r
      <4>1. 1 \in DOMAIN up /\ up[1].request = r
        BY <1>1, <1>3, <3>1
      <4> QED BY <2>2, <4>1 DEF Unexecuted
    <3>2. CASE \E n \in DOMAIN Tail(up) : Tail(up)[n].request = r
      <4>1. PICK n \in DOMAIN Tail(up) : Tail(up)[n].request = r
        BY <3>2
      <4>2. n + 1 \in DOMAIN up /\ up[n + 1].request = r
        BY <1>3, <4>1
      <4> QED BY <2>2, <4>2 DEF Unexecuted
    <3> QED BY <1>4, <1>5, <2>2, <3>1, <3>2 DEF Unexecuted
  <2> QED BY <2>1, <2>2
<1>6. ASSUME NEW k \in Conns
      PROVE  /\ ~Busy(k) /\ ((Busy(k))' <=> k = cur)
             /\ (Waits(k))' <=> Waits(k)
             /\ \A j \in Conns : (Precedes(j, k))' <=> Precedes(j, k)
  BY <1>1 DEF Busy, Waits, Precedes
<1>7. frame' \in Frames /\ frame' \in RealFrames
  BY <1>1, <1>3 DEF RealFrames, Frames, RealRequests, AllRequests
<1>8. Local'
  BY <1>0, <1>1, <1>7 DEF Parts, Local
<1>9. Sockets' /\ LockIsKept'
  BY <1>0, <1>1, <1>4 DEF Parts, Sockets, LockIsKept, Local
<1>10. Waiting'
  <2>1. ASSUME NEW k \in Conns
        PROVE  /\ conn'[k].srv <=> k = cur' \/ (Waits(k))'
               /\ (Waits(k))' => k # cur' /\ conn'[k].down = <<>>
               /\ ~conn'[k].srv => conn'[k].up = <<>>
    BY <1>0, <1>1, <1>4, <1>6 DEF Parts, Waiting
  <2>2. \A m, n \in DOMAIN backlog' : backlog'[m] = backlog'[n] => m = n
    BY <1>0, <1>1 DEF Parts, Waiting
  <2> QED BY <1>4, <1>7, <2>1, <2>2 DEF Waiting
<1>11. Known'
  BY <1>0, <1>1, <1>5 DEF Parts, Known
<1>12. ASSUME NEW c \in Clients PROVE Handle(c)'
  <2>1. Handle(c) /\ sock[c] \in Conns \cup {NoConn}
    BY <1>0 DEF Parts, Handles, Local
  <2>2. CASE sock[c] # cur
    BY <1>1, <1>4, <1>5, <1>6, <2>1, <2>2, Undisturbed
  <2>3. CASE sock[c] = cur
    <3>1. Turn(c, cur) /\ Ordered(c, cur) /\ Remembered(c, cur)
      BY <1>2, <2>1, <2>3, ServiceAssumption DEF Handle
    <3>2. cpc[c] = "await"
      BY <1>0, <1>1, <2>1, <2>3, <3>1, <1>2, ServiceAssumption
      DEF Turn, Handle, Parts, Local
    <3>3. Len(up) = 1 /\ up[1].request = req[c] /\ Stale(cur)
      <4>1. Len(up) <= 1 /\ up[1].request = req[c] /\ Stale(cur)
        BY <1>1, <3>1, <3>2, Zenon DEF Turn
      <4>2. Len(up) = 1
        <5>1. Len(up) <= 1 /\ up \in Seq(RealFrames) /\ Len(up) \in Nat \ {0}
          BY <1>2, <1>3, <4>1, Zenon
        <5>2. \A n \in Nat \ {0} : n <= 1 => n = 1
          OBVIOUS
        <5> QED BY <5>1, <5>2
      <4> QED BY <4>1, <4>2
    <3>4. Tail(up) = <<>> /\ frame'.request = req[c]
      BY <1>1, <1>2, <1>3, <3>3
    <3>5. Turn(c, cur)'
      <4>1. (Stale(cur))' /\ Len(conn'[cur].up) <= 1 /\ conn'[cur].up = <<>>
        <5>1. conn'[cur].down = conn[cur].down /\ conn'[cur].up = <<>>
          BY <1>2, <1>4, <3>4
        <5>2. (Stale(cur))'
          BY <1>1, <3>3, <5>1 DEF Stale
        <5> QED BY <5>1, <5>2
      <4> QED BY <1>1, <3>2, <3>4, <4>1, Zenon DEF Turn
    <3>6. Ordered(c, cur)'
      BY <1>1, <1>5, <3>1 DEF Ordered
    <3>7. Remembered(c, cur)'
      BY <1>1, <1>5, <3>1 DEF Remembered
    <3> QED BY <1>1, <2>1, <2>3, <3>5, <3>6, <3>7 DEF Handle
  <2> QED BY <2>2, <2>3
<1> QED BY <1>8, <1>9, <1>10, <1>11, <1>12, PartsNext DEF Parts, Handles

-----------------------------------------------------------------------------
(* Where a handle stands when the server works on its request.             *)
LEMMA AtWork ==
    ASSUME Parts, NEW c \in Clients, sock[c] = cur, spc \in {"exec", "reply"}
    PROVE  /\ cpc[c] = "await" /\ frame.request = req[c] /\ conn[cur].up = <<>>
           /\ Stale(cur) /\ Turn(c, cur) /\ Ordered(c, cur)
           /\ Remembered(c, cur)
<1>1. Handle(c) /\ cur \in Conns /\ cur # NoConn
  BY ServiceAssumption DEF Parts, Handles, Local
<1>2. Turn(c, cur) /\ Ordered(c, cur) /\ Remembered(c, cur) /\ cpc[c] # "none"
  BY <1>1 DEF Handle
<1>3. Busy(cur)
  BY DEF Busy
<1>4. cpc[c] = "await"
  BY <1>2, <1>3 DEF Turn, Parts, Local
<1> QED BY <1>2, <1>3, <1>4 DEF Turn

(* The end of a session: nothing more, or the header of an answer only.    *)
LEMMA EndSessionKeepsInv ==
    ASSUME ServiceInv, NEW sent,
           EndSession(sent), UNCHANGED <<disk, locked, stop, backlog, client, ghost>>,
           spc \in {"session", "closing", "exec", "reply"},
           \/ sent = <<>>
           \/ spc = "reply" /\ \E h \in Tokens : sent = <<h>>
    PROVE  ServiceInv'
<1>0. Parts
  BY PartsOfInv
<1>1. /\ disk' = disk /\ locked' = locked /\ stop' = stop /\ cpc' = cpc
      /\ sock' = sock /\ nextId' = nextId /\ req' = req /\ seen' = seen
      /\ expect' = expect /\ spc' = "head" /\ cur' = NoConn
      /\ answer' = NoReply /\ backlog' = backlog
      /\ frame' = Frame(0, NoRequest)
      /\ conn' = [conn EXCEPT ![cur] =
                     ClosedByServer([conn[cur] EXCEPT !.down = @ \o sent])]
  BY DEF EndSession, client, ghost
<1> DEFINE before == conn[cur]
           open == [before EXCEPT !.down = @ \o sent]
<1>2. /\ cur \in Conns /\ before \in Connections
      /\ conn \in [Conns -> Connections]
  BY <1>0, <1>1, ServiceAssumption DEF Parts, Local, Waiting
<1>3. sent \in Seq(Tokens)
  <2>1. \A h \in Tokens : <<h>> \in Seq(Tokens)
    OBVIOUS
  <2>2. <<>> \in Seq(Tokens)
    OBVIOUS
  <2> QED BY <2>1, <2>2
<1>4. open \in Connections /\ open.cli = before.cli
      /\ open.down = before.down \o sent
  BY <1>2, <1>3, ConcatProperties DEF Connections
<1>5. /\ conn' \in [Conns -> Connections]
      /\ conn'[cur].up = <<>> /\ conn'[cur].srv = FALSE
      /\ conn'[cur].cli = before.cli
      /\ before.cli => conn'[cur].down = before.down \o sent
      /\ \A k \in Conns : k # cur => conn'[k] = conn[k]
  <2> DEFINE closed == ClosedByServer(open)
  <2>1. conn' = [conn EXCEPT ![cur] = closed]
    BY <1>1
  <2>2. /\ closed \in Connections /\ closed.up = <<>> /\ closed.srv = FALSE
        /\ closed.cli = before.cli
        /\ before.cli => closed.down = before.down \o sent
    BY <1>4, ServerCloses
  <2> HIDE DEF closed
  <2> QED BY <1>2, <2>1, <2>2
<1>6. ASSUME NEW k \in Conns
      PROVE  /\ ~(Busy(k))' /\ (k # cur => ~Busy(k))
             /\ (Waits(k))' <=> Waits(k)
             /\ \A r \in RealRequests :
                   (Unexecuted(k, r))' => Unexecuted(k, r) /\ k # cur
             /\ \A j \in Conns \ {cur} : Precedes(j, k) => (Precedes(j, k))'
  <2>1. ~(Busy(k))' /\ (k # cur => ~Busy(k)) /\ ((Waits(k))' <=> Waits(k))
    BY <1>1, ServiceAssumption DEF Busy, Waits
  <2>2. ASSUME NEW r \in RealRequests, (Unexecuted(k, r))'
        PROVE  Unexecuted(k, r) /\ k # cur
    <3>1. PICK n \in DOMAIN conn'[k].up : conn'[k].up[n].request = r
      BY <1>1, <2>2, ServiceAssumption DEF Unexecuted
    <3>2. k # cur
      BY <1>5, <3>1
    <3> QED BY <1>5, <3>1, <3>2 DEF Unexecuted
  <2>3. ASSUME NEW j \in Conns \ {cur}, Precedes(j, k) PROVE (Precedes(j, k))'
    BY <1>1, <2>3 DEF Precedes
  <2> QED BY <2>1, <2>2, <2>3
<1>7. Local'
  <2>1. Frame(0, NoRequest) \in Frames
    BY ServiceAssumption DEF Frame, Frames, AllRequests
  <2>2. NoReply \in Replies
    BY SMT DEF NoReply, Replies, Statuses
  <2> QED BY <1>0, <1>1, <2>1, <2>2 DEF Parts, Local
<1>8. Sockets' /\ LockIsKept'
  <2>1. \A k \in Conns : conn'[k].cli = conn[k].cli
    BY <1>5
  <2> QED BY <1>0, <1>1, <2>1 DEF Parts, Sockets, LockIsKept, Local
<1>9. Waiting'
  <2>1. ASSUME NEW k \in Conns
        PROVE  /\ conn'[k].srv <=> k = cur' \/ (Waits(k))'
               /\ (Waits(k))' => k # cur' /\ conn'[k].down = <<>>
               /\ ~conn'[k].srv => conn'[k].up = <<>>
    BY <1>0, <1>1, <1>5, <1>6, ServiceAssumption DEF Parts, Waiting
  <2>2. \A m, n \in DOMAIN backlog' : backlog'[m] = backlog'[n] => m = n
    BY <1>0, <1>1 DEF Parts, Waiting
  <2> QED BY <1>5, <1>6, <2>1, <2>2 DEF Waiting
<1>10. Known'
  BY <1>0, <1>1, <1>6 DEF Parts, Known
<1>11. ASSUME NEW c \in Clients PROVE Handle(c)'
  <2>1. Handle(c) /\ sock[c] \in Conns \cup {NoConn}
        /\ (sock[c] # NoConn => conn[sock[c]].cli)
    BY <1>0 DEF Parts, Handles, Local, Sockets
  <2>2. CASE sock[c] # cur \/ sent = <<>>
    <3>1. sock[c] # NoConn => conn'[sock[c]].down = conn[sock[c]].down
      BY <1>2, <1>5, <2>1, <2>2, ConcatEmptySeq DEF Connections
    <3>2. ASSUME NEW j \in Conns, NEW r \in RealRequests, (Unexecuted(j, r))',
                 sock[c] # NoConn, sock[c] # cur, conn[sock[c]].srv,
                 Precedes(j, sock[c])
          PROVE  /\ sock[c] # cur' /\ conn'[sock[c]].srv
                 /\ (Precedes(j, sock[c]))'
      BY <1>1, <1>5, <1>6, <2>1, <3>2
    <3>3. sock[c] # NoConn =>
             /\ \/ conn'[sock[c]].up = conn[sock[c]].up
                \/ conn'[sock[c]].up = <<>>
             /\ ~(Busy(sock[c]))'
      <4>1. ASSUME NEW k \in Conns
            PROVE  /\ conn'[k].up = conn[k].up \/ conn'[k].up = <<>>
                   /\ ~(Busy(k))'
        BY <1>5, <1>6
      <4> QED BY <1>1, <2>1, <4>1
    <3> QED BY <1>1, <1>6, <2>1, <3>1, <3>2, <3>3, Undisturbed
  <2>3. CASE sock[c] = cur /\ sent # <<>>
    <3> PICK x \in Conns : x = cur
      BY <1>2
    <3>1. spc = "reply" /\ Len(sent) = 1
      BY <2>3
    <3>2. /\ cpc[c] = "await" /\ Stale(x) /\ Turn(c, x)
          /\ Ordered(c, x) /\ Remembered(c, x)
      BY <1>0, <2>3, <3>1, AtWork
    <3>3. conn'[x].down = before.down \o sent /\ before.down \in Seq(Tokens)
      BY <1>2, <1>5, <2>1, <2>3, ServiceAssumption DEF Connections
    <3>4. (Stale(x))' \/ Len(conn'[x].down) = 1
      <4>1. CASE before.down = <<>>
        BY <1>3, <3>1, <3>3, <4>1, ConcatEmptySeq
      <4>2. CASE before.down # <<>>
        <5>1. Len(before.down) \in Nat \ {0}
          BY <3>3, <4>2, EmptySeq
        <5>2. (before.down \o sent)[1] = before.down[1]
          BY <1>3, <3>1, <3>3, <5>1, ConcatProperties
        <5>3. before.down[1].kind = "payload"
          BY <3>2, <4>2 DEF Stale
        <5> QED BY <3>3, <5>2, <5>3 DEF Stale
      <4> QED BY <4>1, <4>2
    <3>5. Turn(c, x)'
      <4>1. conn'[x].up = <<>> /\ Len(conn'[x].up) <= 1 /\ ~(Busy(x))'
        BY <1>2, <1>5, <1>6
      <4>2. cpc'[c] = "await"
        BY <1>1, <3>2
      <4> QED BY <3>4, <4>1, <4>2 DEF Turn
    <3>6. Ordered(c, x)'
      BY <1>1, <1>6, <3>2 DEF Ordered
    <3>7. Remembered(c, x)'
      <4>1. conn'[x].up = <<>> /\ ~(Busy(x))'
        BY <1>2, <1>5, <1>6
      <4> QED BY <1>1, <1>6, <3>2, <4>1 DEF Remembered
    <3> QED BY <1>1, <1>2, <2>1, <2>3, <3>5, <3>6, <3>7 DEF Handle
  <2> QED BY <2>2, <2>3
<1> QED BY <1>7, <1>8, <1>9, <1>10, <1>11, PartsNext DEF Parts, Handles

(* The header of an answer repeats the request it answers.                 *)
LEMMA HeaderIsToken ==
    ASSUME Parts, spc \in {"exec", "reply"}
    PROVE  /\ cur \in Conns /\ frame.request \in RealRequests
           /\ Header(frame.id, frame.request.op) \in Tokens
<1>1. cur \in Conns
  BY ServiceAssumption DEF Parts, Local
<1>2. frame \in RealFrames
  BY <1>1 DEF Parts, Waiting, Busy
<1>3. frame.id \in 1 .. MaxRequestId /\ frame.request \in RealRequests
  BY <1>2 DEF RealFrames
<1>4. frame.request.op \in Operations
  BY <1>3, RealRequestFacts
<1> QED BY <1>1, <1>3, <1>4 DEF Header, Tokens

(* Both ways a session ends keep the invariant.                            *)
LEMMA SessionEndsKeepInv ==
    ASSUME ServiceInv, CloseSession \/ ReplyFails PROVE ServiceInv'
<1>1. CASE CloseSession
  BY <1>1, EndSessionKeepsInv DEF CloseSession
<1>2. CASE ReplyFails
  <2>1. Header(frame.id, frame.request.op) \in Tokens
    BY <1>2, PartsOfInv, HeaderIsToken DEF ReplyFails
  <2> QED BY <1>2, <2>1, EndSessionKeepsInv DEF ReplyFails
<1> QED BY <1>1, <1>2

-----------------------------------------------------------------------------
(* The answer is sent to the client whose request it answers.              *)
LEMMA ReplyKeepsInv == ASSUME ServiceInv, Reply PROVE ServiceInv'
<1>0. Parts
  BY PartsOfInv
<1> DEFINE h == Header(frame.id, frame.request.op)
           sent == <<h, Payload(answer)>>
<1>1. /\ disk' = disk /\ locked' = locked /\ stop' = stop /\ cpc' = cpc
      /\ sock' = sock /\ nextId' = nextId /\ req' = req /\ seen' = seen
      /\ expect' = expect /\ spc = "reply" /\ spc' = "session" /\ cur' = cur
      /\ answer' = answer /\ backlog' = backlog
      /\ frame' = Frame(0, NoRequest)
      /\ conn' = [conn EXCEPT ![cur].down = @ \o sent]
  BY DEF Reply, client, ghost
<1> PICK x \in Conns : x = cur
  BY <1>0, <1>1, ServiceAssumption DEF Parts, Local
<1>2. conn \in [Conns -> Connections] /\ conn[x] \in Connections
      /\ conn[x].down \in Seq(Tokens)
  BY <1>0 DEF Parts, Waiting, Connections
<1>3. sent \in Seq(Tokens) /\ Len(sent) = 2 /\ sent[1] = h
      /\ sent[2] = Payload(answer)
  <2>1. h \in Tokens
    BY <1>0, <1>1, HeaderIsToken
  <2>2. Payload(answer) \in Tokens
    BY <1>0 DEF Payload, Tokens, Parts, Local
  <2> HIDE DEF h
  <2> QED BY <2>1, <2>2
<1> HIDE DEF sent
<1>4. conn[x].down \o sent \in Seq(Tokens)
  BY <1>2, <1>3, ConcatProperties
<1>5. /\ conn' \in [Conns -> Connections]
      /\ conn'[x].down = conn[x].down \o sent
      /\ \A k \in Conns : /\ conn'[k].up = conn[k].up
                          /\ conn'[k].cli = conn[k].cli
                          /\ conn'[k].srv = conn[k].srv
                          /\ k # x => conn'[k] = conn[k]
  BY <1>1, <1>2, <1>4 DEF Connections
<1>6. ASSUME NEW k \in Conns
      PROVE  /\ ~(Busy(k))' /\ (Busy(k) <=> k = x)
             /\ (Waits(k))' <=> Waits(k)
             /\ \A r \in RealRequests : (Unexecuted(k, r))' => Unexecuted(k, r)
             /\ \A j \in Conns : (Precedes(j, k))' <=> Precedes(j, k)
  <2>1. /\ ~(Busy(k))' /\ (Busy(k) <=> k = x) /\ ((Waits(k))' <=> Waits(k))
        /\ \A j \in Conns : (Precedes(j, k))' <=> Precedes(j, k)
    BY <1>1 DEF Busy, Waits, Precedes
  <2>2. ASSUME NEW r \in RealRequests, (Unexecuted(k, r))'
        PROVE  Unexecuted(k, r)
    <3>1. PICK n \in DOMAIN conn'[k].up : conn'[k].up[n].request = r
      BY <1>1, <2>2 DEF Unexecuted
    <3> QED BY <1>5, <3>1 DEF Unexecuted
  <2> QED BY <2>1, <2>2
<1>7. Local'
  <2>1. Frame(0, NoRequest) \in Frames
    BY ServiceAssumption DEF Frame, Frames, AllRequests
  <2> QED BY <1>0, <1>1, <2>1 DEF Parts, Local
<1>8. Sockets' /\ LockIsKept'
  BY <1>0, <1>1, <1>5 DEF Parts, Sockets, LockIsKept, Local
<1>9. Waiting'
  <2>1. ASSUME NEW k \in Conns
        PROVE  /\ conn'[k].srv <=> k = cur' \/ (Waits(k))'
               /\ (Waits(k))' => k # cur' /\ conn'[k].down = <<>>
               /\ ~conn'[k].srv => conn'[k].up = <<>>
    BY <1>0, <1>1, <1>5, <1>6 DEF Parts, Waiting
  <2>2. \A m, n \in DOMAIN backlog' : backlog'[m] = backlog'[n] => m = n
    BY <1>0, <1>1 DEF Parts, Waiting
  <2> QED BY <1>5, <1>6, <2>1, <2>2 DEF Waiting
<1>10. Known'
  BY <1>0, <1>1, <1>6 DEF Parts, Known
<1>11. ASSUME NEW c \in Clients PROVE Handle(c)'
  <2>1. Handle(c) /\ sock[c] \in Conns \cup {NoConn}
    BY <1>0 DEF Parts, Handles, Local
  <2>2. CASE sock[c] # x
    <3>1. ASSUME sock[c] # NoConn
          PROVE  /\ conn'[sock[c]].down = conn[sock[c]].down
                 /\ conn'[sock[c]].up = conn[sock[c]].up
                 /\ ~(Busy(sock[c]))'
                 /\ conn'[sock[c]].srv = conn[sock[c]].srv
                 /\ \A j \in Conns : (Precedes(j, sock[c]))' <=> Precedes(j, sock[c])
      BY <1>1, <1>5, <1>6, <2>1, <2>2, <3>1
    <3> QED BY <1>1, <1>6, <2>1, <3>1, Undisturbed
  <2>3. CASE sock[c] = x
    <3>1. /\ cpc[c] = "await" /\ Stale(x) /\ Turn(c, x) /\ conn[x].up = <<>>
          /\ Ordered(c, x) /\ Remembered(c, x)
      BY <1>0, <1>1, <2>3, AtWork
    <3>2. Truthful(c, answer)
      BY <1>1, <1>6, <3>1 DEF Turn
    <3>3. \A a : (Truthful(c, a))' <=> Truthful(c, a)
      BY <1>1 DEF Truthful
    <3>4. \/ (Stale(x))'
          \/ /\ Len(conn'[x].down) = 2
             /\ conn'[x].down[2].kind = "payload"
             /\ (Truthful(c, conn[x].down[2].reply))'
      <4>1. CASE conn[x].down = <<>>
        <5>1. conn'[x].down = sent
          BY <1>3, <1>5, <4>1, ConcatEmptySeq
        <5>2. conn'[x].down[2].kind = "payload" /\ conn'[x].down[2].reply = answer
          BY <1>3, <5>1 DEF Payload
        <5> QED BY <1>3, <3>2, <3>3, <5>1, <5>2
      <4>2. CASE conn[x].down # <<>>
        <5>1. Len(conn[x].down) \in Nat \ {0}
          BY <1>2, <4>2, EmptySeq
        <5>2. (conn[x].down \o sent)[1] = conn[x].down[1]
          BY <1>2, <1>3, <5>1, ConcatProperties
        <5>3. conn[x].down[1].kind = "payload"
          BY <3>1, <4>2 DEF Stale
        <5> QED BY <1>5, <5>2, <5>3 DEF Stale
      <4> QED BY <4>1, <4>2
    <3>5. Turn(c, x)'
      <4>1. conn'[x].up = <<>> /\ Len(conn'[x].up) <= 1 /\ ~(Busy(x))'
        BY <1>5, <1>6, <3>1
      <4>2. cpc'[c] = "await"
        BY <1>1, <3>1
      <4> QED BY <3>4, <4>1, <4>2 DEF Turn
    <3>6. Ordered(c, x)'
      BY <1>1, <1>6, <3>1 DEF Ordered
    <3>7. Remembered(c, x)'
      <4>1. conn'[x].up = <<>> /\ ~(Busy(x))'
        BY <1>5, <1>6, <3>1
      <4> QED BY <1>1, <1>6, <3>1, <4>1 DEF Remembered
    <3> QED BY <1>1, <2>1, <2>3, <3>5, <3>6, <3>7 DEF Handle
  <2> QED BY <2>2, <2>3
<1> QED BY <1>7, <1>8, <1>9, <1>10, <1>11, PartsNext DEF Parts, Handles

-----------------------------------------------------------------------------
(* What a call of the store and its answer have to do with each other.     *)
Answered(s) == [status |-> Classify[s.exception], value |-> s.value]

(* A result says what the store did: OK means done, anything else means    *)
(* that nothing changed.                                                   *)
LEMMA StoreFacts ==
    ASSUME disk \in Maps, NEW r \in RealRequests, NEW s \in StoreResults(r)
    PROVE  /\ s.secrets \in Maps /\ Answered(s) \in Replies
           /\ \/ s.secrets = disk
              \/ /\ r.op \in {"put", "remove"} /\ r.id \in Ids
                 /\ s.secrets = [disk EXCEPT ![r.id] = Target(r)]
           /\ r.op \in {"put", "remove"} =>
                /\ Answered(s).status = "OK" => s.secrets[r.id] = Target(r)
                /\ Answered(s).status # "OK" => s.secrets = disk
           /\ r.op \in {"remove", "get"} /\ Answered(s).status = "NOT_FOUND"
                => disk[r.id] = NoSecret
           /\ r.op = "get" /\ Answered(s).status = "OK" =>
                Answered(s).value = disk[r.id] /\ disk[r.id] # NoSecret
           /\ locked \/ r.op = "lock" =>
                /\ Answered(s).value = NoSecret
                /\ Answered(s).status = "OK" => r.op \in {"ping", "lock"}
           /\ Answered(s).status = "LOCKED" =>
                \/ locked
                \/ /\ r.op = "put" /\ s.secrets = disk
                   /\ Cardinality(Present(disk)) >= MaxSecrets
<1> DEFINE thrown(e) == s = Result(e, NoSecret, disk)
           done(v, m) == s = Result("none", v, m)
<1>1. /\ r.op \in Operations
      /\ r.op \in {"get", "put", "remove"} => r.id \in Ids
      /\ r.op = "put" => r.value \in Values
  BY RealRequestFacts
<1>2. \/ r.op \in {"ping", "lock"} /\ done(NoSecret, disk)
      \/ r.op \notin {"ping", "lock"} /\ locked /\ thrown("logic_error")
      \/ r.op = "list" /\ ~locked /\ done(NoSecret, disk)
      \/ r.op = "put" /\ ~locked /\ s \in PutResults(r.id, r.value)
      \/ r.op = "get" /\ ~locked /\ s \in GetResults(r.id)
      \/ r.op = "remove" /\ ~locked /\ s \in RemoveResults(r.id)
  BY <1>1 DEF StoreResults, Operations, Thrown
<1>3. ASSUME NEW e \in {"none", "out_of_range", "logic_error", "length_error",
                        "runtime_error"},
             NEW v \in Values \cup {NoSecret}, NEW m, s = Result(e, v, m)
      PROVE  /\ Answered(s).status = Classify[e] /\ Answered(s).value = v
             /\ s.secrets = m /\ Answered(s) \in Replies
  BY <1>3, SMT DEF Answered, Classify, Result, Replies, Statuses
<1>4. \A e \in {"logic_error", "length_error"} :
          thrown(e) => /\ Answered(s).status = "LOCKED"
                       /\ Answered(s).value = NoSecret
                       /\ s.secrets = disk /\ Answered(s) \in Replies
  BY <1>3, Zenon DEF Classify
<1>5. thrown("out_of_range") => /\ Answered(s).status = "NOT_FOUND"
                                /\ Answered(s).value = NoSecret
                                /\ s.secrets = disk /\ Answered(s) \in Replies
  BY <1>3, Zenon DEF Classify
<1>6. thrown("runtime_error") => /\ Answered(s).status = "INTERNAL_ERROR"
                                 /\ Answered(s).value = NoSecret
                                 /\ s.secrets = disk /\ Answered(s) \in Replies
  BY <1>3, Zenon DEF Classify
<1>7. ASSUME NEW v \in Values \cup {NoSecret}, NEW m, done(v, m)
      PROVE  /\ Answered(s).status = "OK" /\ Answered(s).value = v
             /\ s.secrets = m /\ Answered(s) \in Replies
  BY <1>3, <1>7, Zenon DEF Classify
<1>8. CASE r.op \in {"ping", "lock", "list"} /\ done(NoSecret, disk)
           /\ (r.op = "list" => ~locked)
  <2>1. /\ Answered(s).status = "OK" /\ Answered(s).value = NoSecret
        /\ s.secrets = disk /\ Answered(s) \in Replies
    BY <1>7, <1>8
  <2> QED BY <1>8, <2>1
<1>9. CASE r.op \notin {"ping", "lock"} /\ locked /\ thrown("logic_error")
  <2>1. /\ Answered(s).status = "LOCKED" /\ Answered(s).value = NoSecret
        /\ s.secrets = disk /\ Answered(s) \in Replies
    BY <1>4, <1>9
  <2> QED BY <1>9, <2>1
<1>10. CASE r.op = "put" /\ ~locked /\ s \in PutResults(r.id, r.value)
  <2> DEFINE written == [disk EXCEPT ![r.id] = r.value]
  <2>1. \/ thrown("length_error") /\ Cardinality(Present(disk)) >= MaxSecrets
        \/ done(NoSecret, written)
        \/ thrown("runtime_error")
    BY <1>10 DEF PutResults, Persisted, Thrown
  <2>2. /\ written \in Maps /\ written[r.id] = r.value
        /\ written = [disk EXCEPT ![r.id] = Target(r)]
    BY <1>1, <1>10 DEF Maps, Target
  <2> HIDE DEF written
  <2>3. CASE thrown("length_error") /\ Cardinality(Present(disk)) >= MaxSecrets
    BY <1>4, <1>10, <2>3
  <2>4. CASE done(NoSecret, written)
    <3>1. /\ Answered(s).status = "OK" /\ Answered(s).value = NoSecret
          /\ s.secrets = written /\ Answered(s) \in Replies
      BY <1>7, <2>4
    <3> QED BY <1>1, <1>10, <2>2, <3>1 DEF Target
  <2>5. CASE thrown("runtime_error")
    BY <1>6, <1>10, <2>5
  <2> QED BY <2>1, <2>3, <2>4, <2>5
<1>11. CASE r.op = "get" /\ ~locked /\ s \in GetResults(r.id)
  <2>1. \/ thrown("out_of_range") /\ disk[r.id] = NoSecret
        \/ done(disk[r.id], disk) /\ disk[r.id] # NoSecret
    BY <1>11 DEF GetResults, Thrown
  <2>2. disk[r.id] \in Values \cup {NoSecret}
    BY <1>1, <1>11 DEF Maps
  <2>3. CASE thrown("out_of_range") /\ disk[r.id] = NoSecret
    BY <1>5, <1>11, <2>3
  <2>4. CASE done(disk[r.id], disk) /\ disk[r.id] # NoSecret
    <3>1. /\ Answered(s).status = "OK" /\ Answered(s).value = disk[r.id]
          /\ s.secrets = disk /\ Answered(s) \in Replies
      BY <1>7, <2>2, <2>4
    <3> QED BY <1>11, <2>4, <3>1
  <2> QED BY <2>1, <2>3, <2>4
<1>12. CASE r.op = "remove" /\ ~locked /\ s \in RemoveResults(r.id)
  <2> DEFINE removed == [disk EXCEPT ![r.id] = NoSecret]
  <2>1. \/ thrown("out_of_range") /\ disk[r.id] = NoSecret
        \/ done(NoSecret, removed)
        \/ thrown("runtime_error")
    BY <1>12 DEF RemoveResults, Persisted, Thrown
  <2>2. /\ removed \in Maps /\ removed[r.id] = NoSecret
        /\ removed = [disk EXCEPT ![r.id] = Target(r)]
    BY <1>1, <1>12 DEF Maps, Target
  <2> HIDE DEF removed
  <2>3. CASE thrown("out_of_range") /\ disk[r.id] = NoSecret
    BY <1>5, <1>12, <2>3
  <2>4. CASE done(NoSecret, removed)
    <3>1. /\ Answered(s).status = "OK" /\ Answered(s).value = NoSecret
          /\ s.secrets = removed /\ Answered(s) \in Replies
      BY <1>7, <2>4
    <3> QED BY <1>1, <1>12, <2>2, <3>1 DEF Target
  <2>5. CASE thrown("runtime_error")
    BY <1>6, <1>12, <2>5
  <2> QED BY <2>1, <2>3, <2>4, <2>5
<1> QED BY <1>2, <1>8, <1>9, <1>10, <1>11, <1>12

(* A request is carried out: its own client will be told the truth, and    *)
(* no other answer becomes false, for the requests of one writer are       *)
(* carried out in the order in which it made its connections.              *)
LEMMA ExecuteKeepsInv == ASSUME ServiceInv, Execute PROVE ServiceInv'
<1>0. Parts
  BY PartsOfInv
<1> PICK s \in StoreResults(frame.request) :
      disk' = s.secrets /\ answer' = Answered(s)
  BY DEF Execute, Answered
<1>1. /\ stop' = stop /\ cpc' = cpc /\ sock' = sock /\ nextId' = nextId
      /\ req' = req /\ seen' = seen /\ expect' = expect /\ spc = "exec"
      /\ spc' = "reply" /\ cur' = cur /\ frame' = frame /\ backlog' = backlog
      /\ conn' = conn /\ locked' = (locked \/ frame.request.op = "lock")
  BY DEF Execute, client, ghost
<1> DEFINE r == frame.request
<1> PICK x \in Conns : x = cur
  BY <1>0, <1>1, ServiceAssumption DEF Parts, Local
<1>2. r \in RealRequests /\ disk \in Maps
  BY <1>0, <1>1, HeaderIsToken DEF Parts, Local
<1>3. /\ disk' \in Maps /\ answer' \in Replies
      /\ \/ disk' = disk
         \/ /\ r.op \in {"put", "remove"} /\ r.id \in Ids
            /\ disk' = [disk EXCEPT ![r.id] = Target(r)]
      /\ r.op \in {"put", "remove"} =>
           /\ answer'.status = "OK" => disk'[r.id] = Target(r)
           /\ answer'.status # "OK" => disk' = disk
      /\ r.op \in {"remove", "get"} /\ answer'.status = "NOT_FOUND"
           => disk[r.id] = NoSecret
      /\ r.op = "get" /\ answer'.status = "OK" =>
           answer'.value = disk[r.id] /\ disk[r.id] # NoSecret
  BY <1>2, StoreFacts
<1>4. /\ locked' => /\ answer'.value = NoSecret
                    /\ answer'.status = "OK" => r.op \in {"ping", "lock"}
      /\ answer'.status = "LOCKED" =>
           \/ locked'
           \/ r.op = "put" /\ Cardinality(Present(disk')) >= MaxSecrets
  BY <1>1, <1>2, StoreFacts
<1>5. Unexecuted(x, r)
  BY <1>1 DEF Unexecuted
<1>6. \A i \in Ids : \/ disk'[i] = disk[i]
                     \/ Changes(r, i) /\ disk'[i] = Target(r)
  BY <1>2, <1>3 DEF Maps, Changes
<1>7. ASSUME NEW k \in Conns
      PROVE  /\ (Busy(k))' <=> Busy(k)
             /\ Busy(k) <=> k = x
             /\ (Waits(k))' <=> Waits(k)
             /\ \A q \in RealRequests : (Unexecuted(k, q))' => Unexecuted(k, q)
             /\ \A j \in Conns : (Precedes(j, k))' <=> Precedes(j, k)
  BY <1>1 DEF Busy, Waits, Unexecuted, Precedes
<1>8. Local'
  BY <1>0, <1>1, <1>3 DEF Parts, Local
<1>9. Sockets'
  BY <1>0, <1>1 DEF Parts, Sockets
<1>10. LockIsKept'
  BY <1>1, <1>4 DEF LockIsKept
<1>11. Waiting'
  BY <1>0, <1>1, <1>7 DEF Parts, Waiting
<1>12. Known'
  <2>1. ASSUME NEW i \in Ids PROVE disk'[i] \in expect[i]
    BY <1>0, <1>2, <1>5, <1>6 DEF Parts, Known
  <2> QED BY <1>0, <1>1, <1>7, <2>1 DEF Parts, Known
<1>13. ASSUME NEW c \in Clients PROVE Handle(c)'
  <2>1. Handle(c) /\ sock[c] \in Conns \cup {NoConn}
    BY <1>0 DEF Parts, Handles, Local
  <2>2. CASE sock[c] = NoConn
    BY <1>1, <2>1, <2>2 DEF Handle
  <2>3. CASE sock[c] = x
    <3>1. /\ cpc[c] = "await" /\ r = req[c] /\ conn[x].up = <<>>
          /\ Stale(x) /\ Turn(c, x) /\ Ordered(c, x) /\ Remembered(c, x)
      BY <1>0, <1>1, <2>3, AtWork
    <3>2. /\ r.op = "get" => expect[r.id] \subseteq seen[c] /\ r.id \in Ids
          /\ r.op \in {"put", "remove"} => disk[r.id] \in seen[c]
      BY <1>1, <1>2, <1>7, <3>1, RealRequestFacts DEF Remembered
    <3>3. (Truthful(c, answer))'
      <4>1. r.op \in {"put", "remove"} =>
              disk'[r.id] \in Concludes(r, answer', seen[c], {})
        BY <1>3, <3>2 DEF Concludes, Target
      <4>2. r.op = "get" =>
              /\ answer'.status = "OK" => answer'.value \in seen[c] \ {NoSecret}
              /\ answer'.status = "NOT_FOUND" => NoSecret \in seen[c]
        BY <1>0, <1>3, <3>2 DEF Parts, Known
      <4> QED BY <1>1, <3>1, <4>1, <4>2 DEF Truthful
    <3>4. (Stale(x))' /\ Len(conn'[x].up) <= 1 /\ conn'[x].up = <<>>
      BY <1>1, <3>1 DEF Stale
    <3>5. Turn(c, x)'
      BY <1>1, <3>1, <3>3, <3>4 DEF Turn
    <3>6. Ordered(c, x)'
      BY <1>1, <1>7, <3>1 DEF Ordered
    <3>7. Remembered(c, x)'
      BY <1>1, <1>7, <3>1, <3>4 DEF Remembered
    <3> QED BY <1>1, <2>1, <2>3, <3>5, <3>6, <3>7 DEF Handle
  <2>4. CASE sock[c] \in Conns \ {x}
    <3> PICK k \in Conns \ {x} : sock[c] = k
      BY <2>4
    <3>1. Turn(c, k) /\ Ordered(c, k) /\ Remembered(c, k)
      BY <2>1, ServiceAssumption DEF Handle
    <3>2. ASSUME NEW i \in Ids, disk'[i] # disk[i], Writer[i] = c
          PROVE  conn[k].down = <<>>
      <4>1. Changes(r, i)
        BY <1>6, <3>2
      <4>2. k # cur /\ conn[k].srv
        BY <1>2, <1>5, <3>1, <3>2, <4>1 DEF Ordered
      <4> QED BY <1>0, <4>2 DEF Parts, Waiting
    <3>3. ASSUME cpc[c] \in {"await", "payload"}, conn[k].down # <<>>
          PROVE  \A a : Truthful(c, a) => (Truthful(c, a))'
      <4>1. req[c].op \in {"put", "remove"} => req[c].id \in Ids /\ Writer[req[c].id] = c
        BY <3>1, <3>3, RequestFacts DEF Remembered
      <4>2. req[c].op \in {"put", "remove"} => disk'[req[c].id] = disk[req[c].id]
        BY <3>2, <3>3, <4>1
      <4> QED BY <1>1, <4>2 DEF Truthful
    <3>4. Turn(c, k)'
      <4>1. ~Busy(k) /\ ~(Busy(k))'
        BY <1>7
      <4>2. CASE conn[k].down = <<>>
        BY <1>1, <3>1, <4>1, <4>2 DEF Turn, Stale
      <4>3. CASE conn[k].down # <<>> /\ cpc[c] \in {"await", "payload"}
        BY <1>1, <3>1, <3>3, <4>1, <4>3 DEF Turn, Stale
      <4>4. CASE cpc[c] \notin {"await", "payload"}
        BY <1>1, <3>1, <4>1, <4>4 DEF Turn, Stale
      <4> QED BY <4>2, <4>3, <4>4
    <3>5. Ordered(c, k)'
      BY <1>1, <1>7, <3>1 DEF Ordered
    <3>6. Remembered(c, k)'
      <4> SUFFICES ASSUME cpc[c] \in {"await", "payload"},
                          req[c].op \in {"put", "remove"},
                          conn[k].up # <<>>
                   PROVE  disk'[req[c].id] \in seen[c]
        BY <1>1, <1>7, <3>1 DEF Remembered
      <4>1. req[c].id \in Ids /\ disk[req[c].id] \in seen[c]
        BY <3>1, RequestFacts DEF Remembered
      <4>2. CASE disk'[req[c].id] # disk[req[c].id]
        <5>1. Changes(r, req[c].id) /\ disk'[req[c].id] = Target(r)
          BY <1>6, <4>1, <4>2
        <5> QED BY <1>2, <1>5, <3>1, <5>1 DEF Remembered
      <4> QED BY <4>1, <4>2
    <3> QED BY <1>1, <2>1, <3>4, <3>5, <3>6 DEF Handle
  <2> QED BY <2>1, <2>2, <2>3, <2>4
<1> QED BY <1>8, <1>9, <1>10, <1>11, <1>12, <1>13, PartsNext DEF Parts, Handles

-----------------------------------------------------------------------------
(* A new connection waits behind all requests that are under way.          *)
LEMMA ConnectKeepsInv ==
    ASSUME ServiceInv, NEW c \in Clients, Connect(c) PROVE ServiceInv'
<1>0. Parts
  BY PartsOfInv
<1> PICK x \in Conns :
      /\ conn[x] = Free
      /\ conn' = [conn EXCEPT ![x] = Established]
      /\ backlog' = Append(backlog, x)
      /\ sock' = [sock EXCEPT ![c] = x]
  BY DEF Connect
<1>1. /\ disk' = disk /\ locked' = locked /\ stop' = stop /\ spc' = spc
      /\ cur' = cur /\ frame' = frame /\ answer' = answer /\ nextId' = nextId
      /\ req' = req /\ seen' = seen /\ expect' = expect /\ cpc[c] = "none"
      /\ cpc' = [cpc EXCEPT ![c] = "idle"] /\ Len(backlog) < Backlog
  BY DEF Connect, server, ghost
<1>2. /\ conn \in [Conns -> Connections] /\ backlog \in Seq(Conns)
      /\ cpc' \in [Clients -> {"none", "idle", "await", "payload"}]
      /\ sock \in [Clients -> Conns \cup {NoConn}]
      /\ \A d \in Clients \ {c} : cpc'[d] = cpc[d] /\ sock'[d] = sock[d]
      /\ cpc'[c] = "idle" /\ sock'[c] = x
  BY <1>0, <1>1 DEF Parts, Waiting, Local
<1>3. /\ conn' \in [Conns -> Connections] /\ conn'[x].up = <<>>
      /\ conn'[x].down = <<>> /\ conn'[x].cli /\ conn'[x].srv
      /\ \A k \in Conns : k # x => conn'[k] = conn[k]
      /\ ~conn[x].srv /\ ~conn[x].cli /\ conn[x].up = <<>>
  <2>1. /\ conn[x].up = <<>> /\ conn[x].down = <<>>
        /\ conn[x].cli = FALSE /\ conn[x].srv = FALSE
    BY DEF Free
  <2>2. Established \in Connections
    <3>1. <<>> \in Seq(RealFrames) /\ <<>> \in Seq(Tokens)
      OBVIOUS
    <3> QED BY <3>1 DEF Established, Connections
  <2>3. conn'[x] = Established /\ conn' \in [Conns -> Connections]
        /\ \A k \in Conns : k # x => conn'[k] = conn[k]
    BY <1>2, <2>2
  <2> QED BY <2>1, <2>3 DEF Established
<1>4. x # cur /\ ~Waits(x)
  BY <1>0, <1>3 DEF Parts, Waiting
<1>5. /\ backlog' \in Seq(Conns) /\ Len(backlog) \in Nat
      /\ Len(backlog') = Len(backlog) + 1
      /\ DOMAIN backlog = 1 .. Len(backlog)
      /\ DOMAIN backlog' = 1 .. Len(backlog) + 1
      /\ \A n \in DOMAIN backlog : backlog'[n] = backlog[n]
      /\ backlog'[Len(backlog) + 1] = x
  BY <1>2, AppendProperties, LenProperties
<1>6. ASSUME NEW k \in Conns
      PROVE  /\ (Busy(k))' <=> Busy(k)
             /\ k = x => ~Busy(k)
             /\ (Waits(k))' <=> Waits(k) \/ k = x
             /\ \A r \in RealRequests : (Unexecuted(k, r))' <=> Unexecuted(k, r)
             /\ \A j \in Conns : Precedes(j, k) => (Precedes(j, k))'
  <2>1. ((Busy(k))' <=> Busy(k)) /\ (k = x => ~Busy(k))
    BY <1>1, <1>4 DEF Busy
  <2>2. (Waits(k))' <=> Waits(k) \/ k = x
    <3>1. ASSUME Waits(k) \/ k = x PROVE (Waits(k))'
      <4>1. CASE k = x
        BY <1>5, <4>1 DEF Waits
      <4>2. CASE Waits(k)
        BY <1>5, <4>2 DEF Waits
      <4> QED BY <3>1, <4>1, <4>2
    <3>2. ASSUME (Waits(k))', k # x PROVE Waits(k)
      <4>1. PICK n \in DOMAIN backlog' : backlog'[n] = k
        BY <3>2 DEF Waits
      <4>2. n \in DOMAIN backlog
        BY <1>5, <3>2, <4>1
      <4> QED BY <1>5, <4>1, <4>2 DEF Waits
    <3> QED BY <3>1, <3>2
  <2>3. ASSUME NEW r \in RealRequests
        PROVE  (Unexecuted(k, r))' <=> Unexecuted(k, r)
    <3>1. conn'[k].up = conn[k].up
      BY <1>3
    <3> QED BY <1>1, <3>1 DEF Unexecuted
  <2>4. ASSUME NEW j \in Conns, Precedes(j, k) PROVE (Precedes(j, k))'
    <3>1. CASE j = cur
      BY <1>1, <3>1 DEF Precedes
    <3>2. CASE \E m, n \in DOMAIN backlog :
                  m < n /\ backlog[m] = j /\ backlog[n] = k
      <4>1. PICK m, n \in DOMAIN backlog :
                  m < n /\ backlog[m] = j /\ backlog[n] = k
        BY <3>2
      <4>2. /\ m \in DOMAIN backlog' /\ n \in DOMAIN backlog'
            /\ backlog'[m] = j /\ backlog'[n] = k
        BY <1>5, <4>1
      <4> QED BY <4>1, <4>2 DEF Precedes
    <3> QED BY <2>4, <3>1, <3>2 DEF Precedes
  <2> QED BY <2>1, <2>2, <2>3, <2>4
<1>7. Local'
  <2>1. sock' \in [Clients -> Conns \cup {NoConn}]
    BY <1>2
  <2>2. Len(backlog') <= Backlog
    BY <1>1, <1>5, ServiceAssumption
  <2> QED BY <1>0, <1>1, <1>2, <1>5, <2>1, <2>2 DEF Parts, Local
<1>8. Sockets'
  <2>1. \A d \in Clients \ {c} :
           sock[d] # NoConn => sock[d] # x /\ sock[d] \in Conns
    BY <1>0, <1>2, <1>3 DEF Parts, Sockets
  <2>2. ASSUME NEW d \in Clients, sock'[d] # NoConn
        PROVE  /\ conn'[sock'[d]].cli
               /\ \A e \in Clients \ {d} : sock'[e] # sock'[d]
    <3>1. CASE d = c
      BY <1>2, <1>3, <2>1, <3>1, ServiceAssumption
    <3>2. CASE d # c
      <4>1. sock[d] # x /\ sock[d] \in Conns /\ conn[sock[d]].cli
            /\ \A e \in Clients \ {d} : sock[e] # sock[d]
        BY <1>0, <1>2, <2>1, <2>2, <3>2 DEF Parts, Sockets
      <4> QED BY <1>2, <1>3, <3>2, <4>1
    <3> QED BY <3>1, <3>2
  <2> QED BY <2>2 DEF Sockets
<1>9. LockIsKept'
  BY <1>0, <1>1 DEF Parts, LockIsKept
<1>10. Waiting'
  <2>1. ASSUME NEW k \in Conns
        PROVE  /\ conn'[k].srv <=> k = cur' \/ (Waits(k))'
               /\ (Waits(k))' => k # cur' /\ conn'[k].down = <<>>
               /\ ~conn'[k].srv => conn'[k].up = <<>>
               /\ (Busy(k))' => frame' \in RealFrames
    <3>1. CASE k = x
      BY <1>1, <1>3, <1>4, <1>6, <3>1
    <3>2. CASE k # x
      BY <1>0, <1>1, <1>3, <1>6, <3>2 DEF Parts, Waiting
    <3> QED BY <3>1, <3>2
  <2>2. ASSUME NEW m \in DOMAIN backlog', NEW n \in DOMAIN backlog',
               backlog'[m] = backlog'[n]
        PROVE  m = n
    <3>1. CASE m \in DOMAIN backlog /\ n \in DOMAIN backlog
      BY <1>0, <1>5, <2>2, <3>1 DEF Parts, Waiting
    <3>2. CASE m \notin DOMAIN backlog \/ n \notin DOMAIN backlog
      <4>1. \A l \in DOMAIN backlog : backlog'[l] # x
        BY <1>4, <1>5 DEF Waits
      <4>2. \A l \in DOMAIN backlog' : l \notin DOMAIN backlog =>
               l = Len(backlog) + 1
        BY <1>5
      <4> QED BY <1>5, <2>2, <3>2, <4>1, <4>2
    <3> QED BY <3>1, <3>2
  <2> QED BY <1>3, <2>1, <2>2 DEF Waiting
<1>11. Known'
  BY <1>0, <1>1, <1>6 DEF Parts, Known
<1>12. ASSUME NEW d \in Clients PROVE Handle(d)'
  <2>1. Handle(d) /\ sock[d] \in Conns \cup {NoConn}
    BY <1>0 DEF Parts, Handles, Local
  <2>2. CASE d = c
    <3>1. Turn(c, x)'
      BY <1>2, <1>3, <1>6 DEF Turn, Stale
    <3>2. Remembered(c, x)'
      BY <1>2 DEF Remembered
    <3>3. ASSUME NEW j \in Conns \ {x}, NEW r \in RealRequests, Unexecuted(j, r)
          PROVE  (Precedes(j, x))'
      <4>1. j = cur \/ Waits(j)
        <5>1. CASE j = cur
          BY <5>1
        <5>2. CASE j # cur
          <6>1. conn[j].up # <<>>
            BY <3>3, <5>2 DEF Unexecuted
          <6> QED BY <1>0, <6>1 DEF Parts, Waiting
        <5> QED BY <5>1, <5>2
      <4>2. CASE j = cur
        BY <1>1, <4>2 DEF Precedes
      <4>3. CASE Waits(j)
        <5>1. PICK m \in DOMAIN backlog : backlog[m] = j
          BY <4>3 DEF Waits
        <5>2. /\ m \in DOMAIN backlog' /\ Len(backlog) + 1 \in DOMAIN backlog'
              /\ m < Len(backlog) + 1 /\ backlog'[m] = j
          BY <1>5, <5>1
        <5> QED BY <1>5, <5>2 DEF Precedes
      <4> QED BY <4>1, <4>2, <4>3
    <3>4. Ordered(c, x)'
      BY <1>1, <1>3, <1>4, <1>6, <3>3 DEF Ordered
    <3> QED BY <1>2, <2>2, <3>1, <3>2, <3>4, ServiceAssumption DEF Handle
  <2>3. CASE d # c
    <3>1. sock'[d] = sock[d] /\ cpc'[d] = cpc[d]
      BY <1>2, <2>3
    <3>2. ASSUME sock[d] # NoConn
          PROVE  /\ conn'[sock[d]] = conn[sock[d]] /\ sock[d] \in Conns
                 /\ (Busy(sock[d]))' <=> Busy(sock[d])
                 /\ \A j \in Conns : Precedes(j, sock[d]) => (Precedes(j, sock[d]))'
      <4>1. sock[d] \in Conns /\ sock[d] # x
        BY <1>0, <1>3, <2>1, <3>2 DEF Parts, Sockets
      <4> PICK k \in Conns : k = sock[d]
        BY <4>1
      <4>2. /\ (Busy(k))' <=> Busy(k)
            /\ \A j \in Conns : Precedes(j, k) => (Precedes(j, k))'
        BY <1>6
      <4> QED BY <1>3, <3>1, <4>1, <4>2
    <3> QED BY <1>1, <1>6, <2>1, <3>1, <3>2, Undisturbed
  <2> QED BY <2>2, <2>3
<1> QED BY <1>7, <1>8, <1>9, <1>10, <1>11, <1>12, PartsNext DEF Parts, Handles

-----------------------------------------------------------------------------
(* A handle gives its connection up: its requests may still be carried     *)
(* out, the others are not concerned.                                      *)
LEMMA HangUpKeepsInv ==
    ASSUME ServiceInv, NEW c \in Clients, HangUp(c),
           NEW p \in {"none", "idle"}, cpc' = [cpc EXCEPT ![c] = p],
           UNCHANGED <<disk, locked, server, backlog, expect>>
    PROVE  ServiceInv'
<1>0. Parts
  BY PartsOfInv
<1>1. /\ disk' = disk /\ locked' = locked /\ stop' = stop /\ spc' = spc
      /\ cur' = cur /\ frame' = frame /\ answer' = answer
      /\ backlog' = backlog /\ expect' = expect
      /\ sock' = [sock EXCEPT ![c] = NoConn]
      /\ nextId' = [nextId EXCEPT ![c] = 1]
      /\ req' = [req EXCEPT ![c] = NoRequest]
      /\ seen' = [seen EXCEPT ![c] = {}]
      /\ conn' = IF sock[c] = NoConn THEN conn
                 ELSE [conn EXCEPT ![sock[c]] = ClosedByClient(@)]
  BY DEF HangUp, server
<1>2. /\ sock \in [Clients -> Conns \cup {NoConn}] /\ conn \in [Conns -> Connections]
      /\ sock'[c] = NoConn /\ cpc'[c] = p
      /\ \A d \in Clients \ {c} :
            /\ cpc'[d] = cpc[d] /\ sock'[d] = sock[d] /\ req'[d] = req[d]
            /\ seen'[d] = seen[d]
  BY <1>0, <1>1 DEF Parts, Local, Waiting
<1>3. /\ conn' \in [Conns -> Connections]
      /\ \A k \in Conns : /\ conn'[k].up = conn[k].up
                          /\ conn'[k].srv = conn[k].srv
                          /\ k # sock[c] => conn'[k] = conn[k]
                          /\ conn'[k].down \in {conn[k].down, <<>>}
  <2>1. CASE sock[c] = NoConn
    BY <1>1, <1>2, <2>1
  <2>2. CASE sock[c] # NoConn
    <3> PICK x \in Conns : x = sock[c]
      BY <1>2, <2>2
    <3> DEFINE closed == ClosedByClient(conn[x])
    <3>1. conn' = [conn EXCEPT ![x] = closed]
      BY <1>1, <2>2
    <3>2. /\ closed \in Connections /\ closed.up = conn[x].up
          /\ closed.srv = conn[x].srv /\ closed.down = <<>>
      BY <1>0, ClientCloses DEF Parts, Waiting
    <3> HIDE DEF closed
    <3> QED BY <1>2, <3>1, <3>2
  <2> QED BY <2>1, <2>2
<1>4. ASSUME NEW k \in Conns
      PROVE  /\ (Busy(k))' <=> Busy(k)
             /\ (Waits(k))' <=> Waits(k)
             /\ \A r \in RealRequests : (Unexecuted(k, r))' <=> Unexecuted(k, r)
             /\ \A j \in Conns : (Precedes(j, k))' <=> Precedes(j, k)
  <2>1. conn'[k].up = conn[k].up
    BY <1>3
  <2> QED BY <1>1, <2>1 DEF Busy, Waits, Unexecuted, Precedes
<1>5. Local'
  <2>1. NoRequest \in AllRequests /\ 1 \in 1 .. MaxRequestId
    BY ServiceAssumption DEF AllRequests
  <2> QED BY <1>0, <1>1, <2>1 DEF Parts, Local
<1>6. Sockets'
  <2> SUFFICES ASSUME NEW d \in Clients, sock'[d] # NoConn
               PROVE  /\ conn'[sock'[d]].cli
                      /\ \A e \in Clients \ {d} : sock'[e] # sock'[d]
    BY DEF Sockets
  <2>1. d # c /\ sock[d] # sock[c] /\ sock[d] \in Conns /\ conn[sock[d]].cli
        /\ sock'[d] = sock[d] /\ \A e \in Clients \ {d} : sock[e] # sock[d]
    BY <1>0, <1>2 DEF Parts, Sockets
  <2> QED BY <1>2, <1>3, <2>1, ServiceAssumption
<1>7. LockIsKept'
  BY <1>0, <1>1 DEF Parts, LockIsKept
<1>8. Waiting'
  <2>1. ASSUME NEW k \in Conns
        PROVE  /\ conn'[k].srv <=> k = cur' \/ (Waits(k))'
               /\ (Waits(k))' => k # cur' /\ conn'[k].down = <<>>
               /\ ~conn'[k].srv => conn'[k].up = <<>>
               /\ (Busy(k))' => frame' \in RealFrames
    BY <1>0, <1>1, <1>3, <1>4 DEF Parts, Waiting
  <2>2. \A m, n \in DOMAIN backlog' : backlog'[m] = backlog'[n] => m = n
    BY <1>0, <1>1 DEF Parts, Waiting
  <2> QED BY <1>3, <2>1, <2>2 DEF Waiting
<1>9. Known'
  BY <1>0, <1>1, <1>4 DEF Parts, Known
<1>10. ASSUME NEW d \in Clients PROVE Handle(d)'
  <2>1. Handle(d) /\ sock[d] \in Conns \cup {NoConn}
    BY <1>0 DEF Parts, Handles, Local
  <2>2. CASE d = c
    BY <1>2, <2>2 DEF Handle
  <2>3. CASE d # c
    <3>1. /\ sock'[d] = sock[d] /\ cpc'[d] = cpc[d] /\ req'[d] = req[d]
          /\ seen'[d] = seen[d]
      BY <1>2, <2>3
    <3>2. ASSUME sock[d] # NoConn
          PROVE  /\ conn'[sock[d]] = conn[sock[d]] /\ sock[d] \in Conns
                 /\ (Busy(sock[d]))' <=> Busy(sock[d])
                 /\ \A j \in Conns : Precedes(j, sock[d]) => (Precedes(j, sock[d]))'
      <4>1. sock[d] \in Conns /\ sock[d] # sock[c]
        BY <1>0, <2>1, <2>3, <3>2 DEF Parts, Sockets
      <4> PICK k \in Conns : k = sock[d]
        BY <4>1
      <4>2. /\ (Busy(k))' <=> Busy(k)
            /\ \A j \in Conns : Precedes(j, k) => (Precedes(j, k))'
        BY <1>4
      <4> QED BY <1>3, <3>1, <4>1, <4>2
    <3> QED BY <1>1, <1>4, <2>1, <3>1, <3>2, Undisturbed
  <2> QED BY <2>2, <2>3
<1> QED BY <1>5, <1>6, <1>7, <1>8, <1>9, <1>10, PartsNext DEF Parts, Handles

(* The four ways in which a handle loses its connection.                   *)
LEMMA GivingUpKeepsInv ==
    ASSUME ServiceInv, NEW c \in Clients,
           Destroy(c) \/ SendFails(c) \/ RecvMismatch(c) \/ RecvFails(c)
    PROVE  ServiceInv'
<1>1. \E p \in {"none", "idle"} :
         /\ HangUp(c) /\ cpc' = [cpc EXCEPT ![c] = p]
         /\ UNCHANGED <<disk, locked, server, backlog, expect>>
  BY DEF Destroy, SendFails, RecvMismatch, RecvFails, FailTransaction
<1> QED BY <1>1, HangUpKeepsInv

-----------------------------------------------------------------------------
(* A call is the only request its handle has under way.                    *)
LEMMA CallKeepsInv ==
    ASSUME ServiceInv, NEW c \in Clients, NEW r \in Requests(c), Call(c, r)
    PROVE  ServiceInv'
<1>0. Parts
  BY PartsOfInv
<1>1. /\ disk' = disk /\ locked' = locked /\ stop' = stop /\ spc' = spc
      /\ cur' = cur /\ frame' = frame /\ answer' = answer /\ sock' = sock
      /\ backlog' = backlog /\ cpc[c] = "idle" /\ sock[c] # NoConn
      /\ nextId' = [nextId EXCEPT ![c] = NextRequestId(@)]
      /\ req' = [req EXCEPT ![c] = r]
      /\ cpc' = [cpc EXCEPT ![c] = "await"]
      /\ conn' = [conn EXCEPT ![sock[c]].up = Append(@, Frame(nextId[c], r))]
  BY DEF Call, server
<1> DEFINE changes == r.op \in {"put", "remove"}
<1>2. /\ r \in RealRequests /\ r \in AllRequests /\ r.op \in Operations
      /\ r.op \in {"get", "put", "remove"} => r.id \in Ids
      /\ r.op = "put" => r.value \in Values
      /\ changes => Writer[r.id] = c
  BY RequestFacts
<1>3. /\ expect' = IF changes
                   THEN [expect EXCEPT ![r.id] = @ \cup {Target(r)}] ELSE expect
      /\ seen' = [d \in Clients |->
                    IF d = c THEN IF r.id \in Ids THEN expect[r.id] ELSE {}
                    ELSE IF changes /\ req[d].op = "get" /\ req[d].id = r.id
                         THEN seen[d] \cup {Target(r)} ELSE seen[d]]
  BY DEF Call, Announce, Target
<1> PICK x \in Conns : x = sock[c]
  BY <1>0, <1>1 DEF Parts, Local
<1>4. /\ Turn(c, x) /\ Ordered(c, x) /\ conn[x].up = <<>> /\ ~Busy(x) /\ Stale(x)
      /\ conn[x].srv
  <2>1. Turn(c, x) /\ Ordered(c, x)
    BY <1>0, <1>1 DEF Parts, Handles, Handle
  <2> QED BY <1>1, <2>1 DEF Turn, Call
<1>5. /\ conn \in [Conns -> Connections]
      /\ sock \in [Clients -> Conns \cup {NoConn}]
      /\ nextId \in [Clients -> 1 .. MaxRequestId]
      /\ expect \in [Ids -> SUBSET (Values \cup {NoSecret})]
      /\ seen \in [Clients -> SUBSET (Values \cup {NoSecret})]
  BY <1>0 DEF Parts, Local, Waiting
<1> DEFINE f == Frame(nextId[c], r)
<1>6. f \in RealFrames /\ f.request = r
  BY <1>2, <1>5 DEF Frame, RealFrames
<1> HIDE DEF f
<1>7. /\ conn' \in [Conns -> Connections] /\ conn'[x].up = <<f>>
      /\ \A k \in Conns : /\ conn'[k].down = conn[k].down
                          /\ conn'[k].cli = conn[k].cli
                          /\ conn'[k].srv = conn[k].srv
                          /\ k # x => conn'[k] = conn[k]
  <2>1. conn' = [conn EXCEPT ![x].up = <<f>>]
    <3>1. Append(conn[x].up, f) = <<f>>
      BY <1>4
    <3> QED BY <1>1, <1>5, <3>1 DEF f
  <2>2. <<f>> \in Seq(RealFrames)
    BY <1>6
  <2> DEFINE asked == [conn[x] EXCEPT !.up = <<f>>]
  <2>3. /\ asked \in Connections /\ asked.up = <<f>>
        /\ asked.down = conn[x].down /\ asked.cli = conn[x].cli
        /\ asked.srv = conn[x].srv
    BY <1>5, <2>2 DEF Connections
  <2>4. conn' = [conn EXCEPT ![x] = asked]
    BY <2>1
  <2> HIDE DEF asked
  <2> QED BY <1>5, <2>3, <2>4
<1>8. ASSUME NEW k \in Conns
      PROVE  /\ (Busy(k))' <=> Busy(k)
             /\ (Waits(k))' <=> Waits(k)
             /\ \A q \in RealRequests :
                   (Unexecuted(k, q))' => Unexecuted(k, q) \/ (k = x /\ q = r)
             /\ \A j \in Conns : (Precedes(j, k))' <=> Precedes(j, k)
  <2>1. /\ ((Busy(k))' <=> Busy(k)) /\ ((Waits(k))' <=> Waits(k))
        /\ \A j \in Conns : (Precedes(j, k))' <=> Precedes(j, k)
    BY <1>1 DEF Busy, Waits, Precedes
  <2>2. ASSUME NEW q \in RealRequests, (Unexecuted(k, q))'
        PROVE  Unexecuted(k, q) \/ (k = x /\ q = r)
    <3>1. CASE k = x
      <4>1. CASE \E n \in DOMAIN conn'[x].up : conn'[x].up[n].request = q
        <5>1. PICK n \in DOMAIN <<f>> : <<f>>[n].request = q
          BY <1>7, <4>1
        <5>2. <<f>>[n] = f
          OBVIOUS
        <5> QED BY <1>6, <3>1, <5>1, <5>2
      <4>2. CASE x = cur /\ spc = "exec" /\ frame.request = q
        BY <3>1, <4>2 DEF Unexecuted
      <4> QED BY <1>1, <2>2, <3>1, <4>1, <4>2 DEF Unexecuted
    <3>2. CASE k # x
      BY <1>1, <1>7, <2>2, <3>2 DEF Unexecuted
    <3> QED BY <3>1, <3>2
  <2> QED BY <2>1, <2>2
<1>9. ASSUME NEW i \in Ids
      PROVE  /\ expect'[i] = IF changes /\ r.id = i
                             THEN expect[i] \cup {Target(r)} ELSE expect[i]
             /\ expect[i] \subseteq expect'[i]
  BY <1>2, <1>3, <1>5
<1>10. changes => Target(r) \in Values \cup {NoSecret}
  BY <1>2 DEF Target
<1>11. /\ seen' \in [Clients -> SUBSET (Values \cup {NoSecret})]
       /\ expect' \in [Ids -> SUBSET (Values \cup {NoSecret})]
  <2>1. ASSUME NEW d \in Clients PROVE seen'[d] \subseteq Values \cup {NoSecret}
    BY <1>3, <1>5, <1>10
  <2>2. expect' \in [Ids -> SUBSET (Values \cup {NoSecret})]
    BY <1>2, <1>3, <1>5, <1>10
  <2> QED BY <1>3, <2>1, <2>2
<1>12. Local'
  <2>1. NextRequestId(nextId[c]) \in 1 .. MaxRequestId
    BY <1>5, ServiceAssumption DEF NextRequestId
  <2> QED BY <1>0, <1>1, <1>2, <1>11, <2>1 DEF Parts, Local
<1>13. Sockets' /\ LockIsKept'
  BY <1>0, <1>1, <1>5, <1>7 DEF Parts, Sockets, LockIsKept
<1>14. Waiting'
  <2>1. ASSUME NEW k \in Conns
        PROVE  /\ conn'[k].srv <=> k = cur' \/ (Waits(k))'
               /\ (Waits(k))' => k # cur' /\ conn'[k].down = <<>>
               /\ ~conn'[k].srv => conn'[k].up = <<>>
               /\ (Busy(k))' => frame' \in RealFrames
    BY <1>0, <1>1, <1>4, <1>7, <1>8 DEF Parts, Waiting
  <2>2. \A m, n \in DOMAIN backlog' : backlog'[m] = backlog'[n] => m = n
    BY <1>0, <1>1 DEF Parts, Waiting
  <2> QED BY <1>7, <2>1, <2>2 DEF Waiting
<1>15. Known'
  <2>1. ASSUME NEW i \in Ids PROVE disk'[i] \in expect'[i]
    BY <1>0, <1>1, <1>9 DEF Parts, Known
  <2>2. ASSUME NEW k \in Conns, NEW q \in RealRequests, NEW i \in Ids,
               (Unexecuted(k, q))', Changes(q, i)
        PROVE  Target(q) \in expect'[i]
    <3>1. CASE Unexecuted(k, q)
      BY <1>0, <1>9, <2>2, <3>1 DEF Parts, Known
    <3>2. CASE q = r
      BY <1>9, <2>2, <3>2 DEF Changes
    <3> QED BY <1>8, <2>2, <3>1, <3>2
  <2> QED BY <2>1, <2>2 DEF Known
<1>16. ASSUME NEW d \in Clients PROVE Handle(d)'
  <2>1. Handle(d) /\ sock[d] \in Conns \cup {NoConn}
    BY <1>0 DEF Parts, Handles, Local
  <2>2. CASE d = c
    <3>1. cpc'[c] = "await" /\ req'[c] = r
      BY <1>0, <1>1 DEF Parts, Local
    <3>2. Turn(c, x)'
      <4>1. (Stale(x))' /\ ~(Busy(x))'
        BY <1>4, <1>7, <1>8 DEF Stale
      <4>2. Len(conn'[x].up) <= 1 /\ conn'[x].up[1].request = req'[c]
        BY <1>6, <1>7, <3>1
      <4> QED BY <3>1, <4>1, <4>2 DEF Turn
    <3>3. Ordered(c, x)'
      BY <1>1, <1>4, <1>7, <1>8 DEF Ordered
    <3>4. Remembered(c, x)'
      <4>1. r.id \in Ids => seen'[c] = expect[r.id]
        BY <1>3
      <4>2. r.op = "get" => expect'[r.id] \subseteq seen'[c]
        BY <1>2, <1>9, <4>1
      <4>3. ASSUME changes
            PROVE  /\ Target(r) \in expect'[r.id]
                   /\ seen'[c] \subseteq expect'[r.id]
                   /\ disk'[r.id] \in seen'[c]
        BY <1>0, <1>1, <1>2, <1>9, <4>1, <4>3 DEF Parts, Known
      <4>4. ASSUME changes, NEW j \in Conns \ {x}, NEW q \in RealRequests,
                   (Unexecuted(j, q))', Changes(q, r.id)
            PROVE  Target(q) \in seen'[c]
        BY <1>0, <1>2, <1>8, <4>1, <4>4 DEF Parts, Known
      <4> QED BY <3>1, <4>2, <4>3, <4>4 DEF Remembered
    <3> QED BY <1>1, <2>2, <3>1, <3>2, <3>3, <3>4 DEF Handle
  <2>3. CASE d # c
    <3>1. /\ cpc'[d] = cpc[d] /\ req'[d] = req[d] /\ sock'[d] = sock[d]
          /\ seen[d] \subseteq seen'[d]
          /\ req[d].op # "get" => seen'[d] = seen[d]
          /\ changes /\ req[d].op = "get" /\ req[d].id = r.id
               => Target(r) \in seen'[d]
      BY <1>0, <1>1, <1>3, <2>3 DEF Parts, Local
    <3>2. CASE sock[d] = NoConn
      BY <2>1, <3>1, <3>2 DEF Handle
    <3>3. CASE sock[d] # NoConn
      <4> PICK k \in Conns : k = sock[d]
        BY <2>1, <3>3
      <4>1. Turn(d, k) /\ Ordered(d, k) /\ Remembered(d, k)
        BY <2>1, <3>3 DEF Handle
      <4>2. k # x
        BY <1>0, <1>1, <2>3 DEF Parts, Sockets
      <4>3. conn'[k] = conn[k] /\ ((Busy(k))' <=> Busy(k))
        BY <1>7, <1>8, <4>2
      <4>4. ASSUME NEW a, Truthful(d, a) PROVE (Truthful(d, a))'
        BY <1>1, <3>1, <4>4 DEF Truthful
      <4>5. Turn(d, k)'
        BY <1>1, <3>1, <4>1, <4>3, <4>4 DEF Turn, Stale
      <4>6. Ordered(d, k)'
        <5> SUFFICES ASSUME NEW j \in Conns \ {k}, NEW q \in RealRequests,
                            NEW i \in Ids, (Unexecuted(j, q))', Changes(q, i),
                            Writer[i] = d
                     PROVE  k # cur' /\ conn'[k].srv /\ (Precedes(j, k))'
          BY DEF Ordered
        <5>1. q # r
          BY <1>2, <2>3 DEF Changes
        <5> QED BY <1>1, <1>8, <4>1, <4>3, <5>1 DEF Ordered
      <4>7. Remembered(d, k)'
        <5> SUFFICES ASSUME cpc[d] \in {"await", "payload"}
                     PROVE  Remembered(d, k)'
          BY <3>1 DEF Remembered
        <5>1. req[d] \in Requests(d)
          BY <4>1 DEF Remembered
        <5>2. ASSUME req[d].op = "get" PROVE expect'[req[d].id] \subseteq seen'[d]
          <6>1. req[d].id \in Ids /\ expect[req[d].id] \subseteq seen[d]
            BY <4>1, <5>1, <5>2, RequestFacts DEF Remembered
          <6> QED BY <1>9, <3>1, <5>2, <6>1
        <5>3. ASSUME req[d].op \in {"put", "remove"}
              PROVE  /\ Target(req[d]) \in expect'[req[d].id]
                     /\ seen'[d] \subseteq expect'[req[d].id]
                     /\ \A j \in Conns \ {k}, q \in RealRequests :
                           (Unexecuted(j, q))' /\ Changes(q, req[d].id)
                              => Target(q) \in seen'[d]
                     /\ conn'[k].up # <<>> \/ ((Busy(k))' /\ spc' = "exec")
                          => disk'[req[d].id] \in seen'[d]
          <6>1. req[d].id \in Ids /\ Writer[req[d].id] = d /\ seen'[d] = seen[d]
            BY <3>1, <5>1, <5>3, RequestFacts
          <6>2. /\ Target(req[d]) \in expect[req[d].id]
                /\ seen[d] \subseteq expect[req[d].id]
                /\ \A j \in Conns \ {k}, q \in RealRequests :
                      Unexecuted(j, q) /\ Changes(q, req[d].id)
                         => Target(q) \in seen[d]
                /\ conn[k].up # <<>> \/ (Busy(k) /\ spc = "exec")
                     => disk[req[d].id] \in seen[d]
            BY <4>1, <5>3 DEF Remembered
          <6>3. ~Changes(r, req[d].id)
            BY <1>2, <2>3, <6>1 DEF Changes
          <6>4. ASSUME NEW j \in Conns \ {k}, NEW q \in RealRequests,
                       (Unexecuted(j, q))', Changes(q, req[d].id)
                PROVE  Target(q) \in seen'[d]
            BY <1>8, <6>1, <6>2, <6>3, <6>4
          <6> QED BY <1>1, <1>9, <4>3, <6>1, <6>2, <6>4
        <5> QED BY <3>1, <5>1, <5>2, <5>3 DEF Remembered
      <4> QED BY <3>1, <3>3, <4>5, <4>6, <4>7, <2>1 DEF Handle
    <3> QED BY <3>2, <3>3
  <2> QED BY <2>2, <2>3
<1> QED BY <1>12, <1>13, <1>14, <1>15, <1>16, PartsNext DEF Parts, Handles

-----------------------------------------------------------------------------
(* Reading changes one direction of one connection.                        *)
LEMMA DownReplaced ==
    ASSUME conn \in [Conns -> Connections], NEW x \in Conns,
           NEW rest \in Seq(Tokens), conn' = [conn EXCEPT ![x].down = rest]
    PROVE  /\ conn' \in [Conns -> Connections]
           /\ \A k \in Conns : /\ conn'[k].up = conn[k].up
                               /\ conn'[k].cli = conn[k].cli
                               /\ conn'[k].srv = conn[k].srv
                               /\ k # x => conn'[k] = conn[k]
BY DEF Connections

(* A client reads from its connection, or not, and only its own call is    *)
(* concerned.                                                              *)
LEMMA ReadingKeepsInv ==
    ASSUME ServiceInv, NEW c \in Clients, NEW x \in Conns, sock[c] = x,
           \/ conn' = conn
           \/ conn[x].down # <<>> /\ conn' = [conn EXCEPT ![x].down = Tail(@)],
           UNCHANGED <<disk, locked, server, backlog, sock>>,
           \A d \in Clients \ {c} :
              cpc'[d] = cpc[d] /\ req'[d] = req[d] /\ seen'[d] = seen[d],
           \A i \in Ids : /\ expect'[i] \subseteq expect[i]
                          /\ Writer[i] # c => expect'[i] = expect[i],
           Local', Known', Handle(c)'
    PROVE  ServiceInv'
<1>0. Parts
  BY PartsOfInv
<1>1. /\ disk' = disk /\ locked' = locked /\ stop' = stop /\ spc' = spc
      /\ cur' = cur /\ frame' = frame /\ answer' = answer /\ sock' = sock
      /\ backlog' = backlog
  BY DEF server
<1>2. conn \in [Conns -> Connections] /\ conn[x].down \in Seq(Tokens)
  BY <1>0 DEF Parts, Waiting, Connections
<1>3. /\ conn' \in [Conns -> Connections]
      /\ \A k \in Conns : /\ conn'[k].up = conn[k].up
                          /\ conn'[k].cli = conn[k].cli
                          /\ conn'[k].srv = conn[k].srv
                          /\ k # x => conn'[k] = conn[k]
                          /\ conn[k].down = <<>> => conn'[k].down = <<>>
  <2>1. CASE conn' = conn
    BY <1>2, <2>1
  <2>2. CASE conn[x].down # <<>> /\ conn' = [conn EXCEPT ![x].down = Tail(@)]
    <3> DEFINE rest == Tail(conn[x].down)
    <3>1. rest \in Seq(Tokens)
      BY <1>2, <2>2, HeadTailProperties
    <3>2. conn' = [conn EXCEPT ![x].down = rest]
      BY <2>2
    <3> HIDE DEF rest
    <3>3. /\ conn' \in [Conns -> Connections]
          /\ \A k \in Conns : /\ conn'[k].up = conn[k].up
                              /\ conn'[k].cli = conn[k].cli
                              /\ conn'[k].srv = conn[k].srv
                              /\ k # x => conn'[k] = conn[k]
      BY <1>2, <3>1, <3>2, DownReplaced, Zenon
    <3> QED BY <2>2, <3>3, Zenon
  <2> QED BY <2>1, <2>2
<1>4. ASSUME NEW k \in Conns
      PROVE  /\ (Busy(k))' <=> Busy(k)
             /\ (Waits(k))' <=> Waits(k)
             /\ \A q \in RealRequests : (Unexecuted(k, q))' => Unexecuted(k, q)
             /\ \A j \in Conns : (Precedes(j, k))' <=> Precedes(j, k)
  <2>1. conn'[k].up = conn[k].up
    BY <1>3
  <2> QED BY <1>1, <2>1 DEF Busy, Waits, Unexecuted, Precedes
<1>5. Sockets' /\ LockIsKept'
  <2>1. \A d \in Clients : sock[d] # NoConn => sock[d] \in Conns
    BY <1>0 DEF Parts, Local
  <2> QED BY <1>0, <1>1, <1>3, <2>1 DEF Parts, Sockets, LockIsKept
<1>6. Waiting'
  <2>1. ASSUME NEW k \in Conns
        PROVE  /\ conn'[k].srv <=> k = cur' \/ (Waits(k))'
               /\ (Waits(k))' => k # cur' /\ conn'[k].down = <<>>
               /\ ~conn'[k].srv => conn'[k].up = <<>>
               /\ (Busy(k))' => frame' \in RealFrames
    BY <1>0, <1>1, <1>3, <1>4 DEF Parts, Waiting
  <2>2. \A m, n \in DOMAIN backlog' : backlog'[m] = backlog'[n] => m = n
    BY <1>0, <1>1 DEF Parts, Waiting
  <2> QED BY <1>3, <2>1, <2>2 DEF Waiting
<1>7. ASSUME NEW d \in Clients \ {c} PROVE Handle(d)'
  <2>1. Handle(d) /\ sock[d] \in Conns \cup {NoConn}
    BY <1>0 DEF Parts, Handles, Local
  <2>2. ASSUME sock[d] # NoConn
        PROVE  /\ conn'[sock[d]] = conn[sock[d]] /\ sock[d] \in Conns
               /\ (Busy(sock[d]))' <=> Busy(sock[d])
               /\ \A j \in Conns : Precedes(j, sock[d]) => (Precedes(j, sock[d]))'
    <3>1. sock[d] \in Conns /\ sock[d] # x
      BY <1>0, <2>1, <2>2 DEF Parts, Sockets
    <3> PICK k \in Conns : k = sock[d]
      BY <3>1
    <3>2. /\ (Busy(k))' <=> Busy(k)
          /\ \A j \in Conns : Precedes(j, k) => (Precedes(j, k))'
      BY <1>4
    <3> QED BY <1>1, <1>3, <3>1, <3>2
  <2> QED BY <1>1, <1>4, <2>1, <2>2, Undisturbed
<1> QED BY <1>5, <1>6, <1>7, PartsNext DEF Parts, Handles

(* A header that matches is the header of the answer to the call in        *)
(* progress, and its payload follows or never comes.                       *)
LEMMA RecvHeaderKeepsInv ==
    ASSUME ServiceInv, NEW c \in Clients, RecvHeader(c) PROVE ServiceInv'
<1>0. Parts
  BY PartsOfInv
<1>1. /\ disk' = disk /\ locked' = locked /\ server' = server /\ sock' = sock
      /\ backlog' = backlog /\ cpc[c] = "await" /\ nextId' = nextId /\ req' = req
      /\ seen' = seen /\ expect' = expect /\ spc' = spc /\ cur' = cur
      /\ frame' = frame /\ answer' = answer /\ stop' = stop
      /\ cpc' = [cpc EXCEPT ![c] = "payload"]
      /\ conn[sock[c]].down # <<>>
      /\ Head(conn[sock[c]].down).kind = "header"
      /\ conn' = [conn EXCEPT ![sock[c]].down = Tail(@)]
  BY DEF RecvHeader, Incoming, Matches, server, ghost
<1>2. sock[c] \in Conns /\ Handle(c)
  BY <1>0, <1>1 DEF Parts, Handles, Handle, Local
<1> PICK x \in Conns : x = sock[c]
  BY <1>2
<1> DEFINE down == conn[x].down
<1>3. Turn(c, x) /\ Ordered(c, x) /\ Remembered(c, x)
  BY <1>2, ServiceAssumption DEF Handle
<1>4. conn \in [Conns -> Connections] /\ down \in Seq(Tokens)
  BY <1>0 DEF Parts, Waiting, Connections
<1>5. /\ down[1].kind = "header" /\ Len(Tail(down)) = Len(down) - 1
      /\ Len(down) \in Nat \ {0} /\ Tail(down) \in Seq(Tokens)
      /\ \A n \in 1 .. Len(down) - 1 : Tail(down)[n] = down[n + 1]
  BY <1>1, <1>4, HeadTailProperties, EmptySeq
<1>6. conn[x].up = <<>> /\ ~Busy(x) /\ ~Stale(x)
  BY <1>1, <1>3, <1>5 DEF Turn, Stale
<1>7. /\ conn'[x].down = Tail(down) /\ conn'[x].up = <<>>
      /\ \A k \in Conns : conn'[k].srv = conn[k].srv /\ conn'[k].up = conn[k].up
  BY <1>1, <1>4, <1>6 DEF Connections
<1>8. /\ cpc' \in [Clients -> {"none", "idle", "await", "payload"}]
      /\ cpc'[c] = "payload" /\ \A d \in Clients \ {c} : cpc'[d] = cpc[d]
  BY <1>0, <1>1 DEF Parts, Local
<1>9. Local'
  BY <1>0, <1>1, <1>8 DEF Parts, Local
<1>10. ASSUME NEW k \in Conns
       PROVE  /\ (Busy(k))' <=> Busy(k)
              /\ \A q \in RealRequests : (Unexecuted(k, q))' => Unexecuted(k, q)
              /\ \A j \in Conns : (Precedes(j, k))' <=> Precedes(j, k)
  <2>1. conn'[k].up = conn[k].up
    BY <1>7
  <2> QED BY <1>1, <2>1 DEF Busy, Unexecuted, Precedes
<1>11. Known'
  BY <1>0, <1>1, <1>10 DEF Parts, Known
<1>12. Handle(c)'
  <2>1. Turn(c, x)'
    <3>1. \/ Len(down) = 1
          \/ /\ Len(down) = 2 /\ down[2].kind = "payload"
             /\ Truthful(c, down[2].reply)
      BY <1>1, <1>3, <1>6 DEF Turn
    <3>2. \/ conn'[x].down = <<>>
          \/ /\ Len(conn'[x].down) = 1
             /\ conn'[x].down[1].kind = "payload"
             /\ Truthful(c, conn'[x].down[1].reply)
      <4>1. CASE Len(down) = 1
        <5>1. Len(Tail(down)) = 0
          BY <1>5, <4>1
        <5> QED BY <1>5, <1>7, <5>1, EmptySeq
      <4>2. CASE Len(down) = 2 /\ down[2].kind = "payload"
                 /\ Truthful(c, down[2].reply)
        <5>1. Len(Tail(down)) = 1 /\ Tail(down)[1] = down[2]
          BY <1>5, <4>2
        <5> QED BY <1>7, <4>2, <5>1
      <4> QED BY <3>1, <4>1, <4>2
    <3>3. \A a : (Truthful(c, a))' <=> Truthful(c, a)
      BY <1>1 DEF Truthful
    <3>4. \/ conn'[x].down = <<>>
          \/ /\ Len(conn'[x].down) = 1
             /\ conn'[x].down[1].kind = "payload"
             /\ (Truthful(c, conn[x].down[1].reply))'
      BY <3>2, <3>3
    <3>5. conn'[x].up = <<>> /\ ~(Busy(x))'
      BY <1>6, <1>7, <1>10
    <3> QED BY <1>8, <3>4, <3>5 DEF Turn
  <2>2. Ordered(c, x)'
    BY <1>1, <1>3, <1>7, <1>10 DEF Ordered
  <2>3. Remembered(c, x)'
    BY <1>1, <1>3, <1>6, <1>7, <1>10 DEF Remembered
  <2> QED BY <1>1, <1>8, <2>1, <2>2, <2>3, ServiceAssumption DEF Handle
<1> QED BY <1>1, <1>8, <1>9, <1>11, <1>12, ReadingKeepsInv

-----------------------------------------------------------------------------
(* The end of a call whose handle stays connected.                         *)
LEMMA ReturnKeepsInv ==
    ASSUME ServiceInv, NEW c \in Clients, cpc[c] = "payload", Return(c),
           \/ conn' = conn
           \/ /\ conn[sock[c]].down # <<>>
              /\ conn' = [conn EXCEPT ![sock[c]].down = Tail(@)],
           \A i \in Ids : /\ expect'[i] \subseteq expect[i]
                          /\ Writer[i] # c => expect'[i] = expect[i],
           expect' \in [Ids -> SUBSET (Values \cup {NoSecret})],
           Known'
    PROVE  ServiceInv'
<1>0. Parts
  BY PartsOfInv
<1>1. /\ disk' = disk /\ locked' = locked /\ server' = server /\ sock' = sock
      /\ backlog' = backlog /\ nextId' = nextId
      /\ spc' = spc /\ cur' = cur /\ frame' = frame /\ answer' = answer
      /\ stop' = stop /\ cpc' = [cpc EXCEPT ![c] = "idle"]
      /\ req' = [req EXCEPT ![c] = NoRequest]
      /\ seen' = [seen EXCEPT ![c] = {}]
  BY DEF Return, server
<1>2. sock[c] \in Conns /\ Handle(c)
  BY <1>0 DEF Parts, Handles, Handle, Local
<1> PICK x \in Conns : x = sock[c]
  BY <1>2
<1>3. Turn(c, x) /\ Ordered(c, x)
  BY <1>2, ServiceAssumption DEF Handle
<1>4. conn \in [Conns -> Connections] /\ conn[x].down \in Seq(Tokens)
  BY <1>0 DEF Parts, Waiting, Connections
<1>5. /\ conn[x].up = <<>> /\ ~Busy(x)
      /\ \/ conn[x].down = <<>>
         \/ Len(conn[x].down) = 1 /\ conn[x].down[1].kind = "payload"
  BY <1>3 DEF Turn
<1>6. /\ \A k \in Conns : conn'[k].srv = conn[k].srv /\ conn'[k].up = conn[k].up
      /\ conn'[x].down \in {conn[x].down, <<>>}
  <2>1. CASE conn' = conn
    BY <2>1
  <2>2. CASE conn[x].down # <<>> /\ conn' = [conn EXCEPT ![x].down = Tail(@)]
    <3>1. Tail(conn[x].down) = <<>>
      <4>1. /\ Tail(conn[x].down) \in Seq(Tokens)
            /\ Len(Tail(conn[x].down)) = Len(conn[x].down) - 1
        BY <1>4, <2>2, HeadTailProperties
      <4>2. Len(Tail(conn[x].down)) = 0
        BY <1>5, <2>2, <4>1
      <4> QED BY <4>1, <4>2, EmptySeq
    <3> QED BY <1>4, <2>2, <3>1 DEF Connections
  <2> QED BY <2>1, <2>2
<1>7. /\ cpc'[c] = "idle" /\ req'[c] = NoRequest
      /\ \A d \in Clients \ {c} :
            cpc'[d] = cpc[d] /\ req'[d] = req[d] /\ seen'[d] = seen[d]
  BY <1>0, <1>1 DEF Parts, Local
<1>8. Local'
  <2>1. NoRequest \in AllRequests
    BY DEF AllRequests
  <2> QED BY <1>0, <1>1, <2>1 DEF Parts, Local
<1>9. ASSUME NEW k \in Conns
      PROVE  /\ (Busy(k))' <=> Busy(k)
             /\ \A q \in RealRequests : (Unexecuted(k, q))' => Unexecuted(k, q)
             /\ \A j \in Conns : (Precedes(j, k))' <=> Precedes(j, k)
  <2>1. conn'[k].up = conn[k].up
    BY <1>6
  <2> QED BY <1>1, <2>1 DEF Busy, Unexecuted, Precedes
<1>10. Handle(c)'
  <2>1. Turn(c, x)'
    <3>1. (Stale(x))'
      BY <1>5, <1>6 DEF Stale
    <3>2. conn'[x].up = <<>> /\ ~(Busy(x))'
      BY <1>5, <1>6, <1>9
    <3> QED BY <1>7, <3>1, <3>2 DEF Turn
  <2>2. Ordered(c, x)'
    BY <1>1, <1>3, <1>6, <1>9 DEF Ordered
  <2>3. Remembered(c, x)'
    BY <1>7 DEF Remembered
  <2> QED BY <1>1, <1>7, <2>1, <2>2, <2>3, ServiceAssumption DEF Handle
<1> QED BY <1>1, <1>7, <1>8, <1>10, ReadingKeepsInv

(* A call that ends with an exception concludes nothing.                   *)
LEMMA AllocationFailsKeepsInv ==
    ASSUME ServiceInv, NEW c \in Clients, AllocationFails(c) PROVE ServiceInv'
<1>0. Parts
  BY PartsOfInv
<1>1. /\ cpc[c] = "payload" /\ Return(c) /\ expect' = expect
      /\ \/ conn' = conn
         \/ /\ conn[sock[c]].down # <<>>
            /\ conn' = [conn EXCEPT ![sock[c]].down = Tail(@)]
  BY DEF AllocationFails, Incoming
<1>2. disk' = disk /\ spc' = spc /\ cur' = cur /\ frame' = frame
  BY <1>1 DEF Return, server
<1>3. expect' \in [Ids -> SUBSET (Values \cup {NoSecret})]
  BY <1>0, <1>1 DEF Parts, Local
<1>4. sock[c] \in Conns /\ conn \in [Conns -> Connections]
  BY <1>0, <1>1 DEF Parts, Handles, Handle, Local, Waiting
<1>5. ASSUME NEW k \in Conns PROVE conn'[k].up = conn[k].up
  <2>1. CASE conn' = conn
    BY <2>1
  <2>2. CASE conn' = [conn EXCEPT ![sock[c]].down = Tail(@)]
    BY <1>4, <2>2 DEF Connections
  <2> QED BY <1>1, <2>1, <2>2
<1>6. \A k \in Conns, q \in RealRequests :
         (Unexecuted(k, q))' => Unexecuted(k, q)
  BY <1>2, <1>5 DEF Unexecuted
<1>7. Known'
  BY <1>0, <1>1, <1>2, <1>6 DEF Parts, Known
<1> QED BY <1>1, <1>3, <1>7, ReturnKeepsInv

(* What the caller concludes from the answer covers the vault: no change   *)
(* of its identifier can be left anywhere.                                 *)
LEMMA RecvPayloadKeepsInv ==
    ASSUME ServiceInv, NEW c \in Clients, RecvPayload(c) PROVE ServiceInv'
<1>0. Parts
  BY PartsOfInv
<1> DEFINE r == req[c]
           a == Head(conn[sock[c]].down).reply
           now(i) == Concludes(r, a, seen[c], expect[i])
<1>1. /\ cpc[c] = "payload" /\ Return(c) /\ conn[sock[c]].down # <<>>
      /\ conn' = [conn EXCEPT ![sock[c]].down = Tail(@)]
      /\ expect' = IF r.id \in Ids THEN [expect EXCEPT ![r.id] = now(r.id)]
                   ELSE expect
  BY DEF RecvPayload, Incoming
<1>2. disk' = disk /\ spc' = spc /\ cur' = cur /\ frame' = frame
  BY <1>1 DEF Return, server
<1>3. sock[c] \in Conns /\ Handle(c) /\ conn \in [Conns -> Connections]
      /\ expect \in [Ids -> SUBSET (Values \cup {NoSecret})]
  BY <1>0, <1>1 DEF Parts, Handles, Handle, Local, Waiting
<1> PICK x \in Conns : x = sock[c]
  BY <1>3
<1>4. Turn(c, x) /\ Ordered(c, x) /\ Remembered(c, x)
  BY <1>3, ServiceAssumption DEF Handle
<1>5. conn[x].up = <<>> /\ ~Busy(x) /\ Truthful(c, a)
  <2>1. Head(conn[x].down) = conn[x].down[1]
    BY <1>1
  <2> QED BY <1>1, <1>4, <2>1 DEF Turn
<1>6. /\ r \in Requests(c)
      /\ r.op \in {"put", "remove"} => r.id \in Ids /\ Writer[r.id] = c
  BY <1>1, <1>4, RequestFacts DEF Remembered
<1>7. ASSUME r.op \in {"put", "remove"}
      PROVE  now(r.id) \subseteq expect[r.id] /\ disk[r.id] \in now(r.id)
  <2>1. Target(r) \in expect[r.id] /\ seen[c] \subseteq expect[r.id]
    BY <1>1, <1>4, <1>7 DEF Remembered
  <2>2. disk[r.id] \in Concludes(r, a, seen[c], {})
    BY <1>5, <1>7 DEF Truthful
  <2> QED BY <1>7, <2>1, <2>2 DEF Concludes, Target
<1>8. r.op \notin {"put", "remove"} => \A i : now(i) = expect[i]
  BY DEF Concludes
<1>9. ASSUME NEW i \in Ids
      PROVE  /\ expect'[i] \subseteq expect[i] /\ disk[i] \in expect'[i]
             /\ expect'[i] # expect[i] =>
                   r.op \in {"put", "remove"} /\ r.id = i /\ Writer[i] = c
  <2>0. disk[i] \in expect[i]
    BY <1>0 DEF Parts, Known
  <2>1. CASE r.id = i
    <3>1. expect'[i] = now(i)
      BY <1>1, <1>3, <2>1
    <3>2. CASE r.op \in {"put", "remove"}
      <4>1. now(i) \subseteq expect[i] /\ disk[i] \in now(i) /\ Writer[i] = c
        BY <1>6, <1>7, <2>1, <3>2
      <4> QED BY <2>1, <3>1, <3>2, <4>1
    <3>3. CASE r.op \notin {"put", "remove"}
      BY <1>8, <2>0, <3>1, <3>3
    <3> QED BY <3>2, <3>3
  <2>2. CASE r.id # i
    <3>1. expect'[i] = expect[i]
      BY <1>1, <1>3, <2>2
    <3> QED BY <2>0, <3>1
  <2> QED BY <2>1, <2>2
<1>10. expect' \in [Ids -> SUBSET (Values \cup {NoSecret})]
  <2>1. \A i \in Ids : expect'[i] \subseteq Values \cup {NoSecret}
    BY <1>3, <1>9
  <2>2. CASE r.id \in Ids
    <3> DEFINE v == now(r.id)
    <3>1. expect' = [expect EXCEPT ![r.id] = v]
      BY <1>1, <2>2
    <3>2. v \subseteq Values \cup {NoSecret}
      <4>1. expect'[r.id] = v
        BY <1>3, <2>2, <3>1
      <4> QED BY <2>1, <2>2, <4>1
    <3> HIDE DEF v
    <3> QED BY <1>3, <3>1, <3>2
  <2>3. CASE r.id \notin Ids
    BY <1>1, <1>3, <2>3
  <2> QED BY <2>2, <2>3
<1>11. \A k \in Conns : conn'[k].up = conn[k].up
  BY <1>1, <1>3 DEF Connections
<1>12. \A k \in Conns, q \in RealRequests :
          (Unexecuted(k, q))' => Unexecuted(k, q)
  BY <1>2, <1>11 DEF Unexecuted
<1>13. ASSUME NEW k \in Conns, NEW q \in RealRequests, NEW i \in Ids,
              Unexecuted(k, q), Changes(q, i)
       PROVE  Target(q) \in expect'[i]
  <2>1. Target(q) \in expect[i]
    BY <1>0, <1>13 DEF Parts, Known
  <2>2. CASE expect'[i] = expect[i]
    BY <2>1, <2>2
  <2>3. CASE expect'[i] # expect[i]
    <3>1. Writer[i] = c
      BY <1>9, <2>3
    <3>2. k # x
      BY <1>5, <1>13 DEF Unexecuted, Busy
    <3>3. x # cur /\ conn[x].srv
      BY <1>4, <1>13, <3>1, <3>2 DEF Ordered
    <3>4. conn[x].down = <<>>
      BY <1>0, <3>3 DEF Parts, Waiting
    <3> QED BY <1>1, <3>4
  <2> QED BY <2>2, <2>3
<1>14. Known'
  BY <1>2, <1>9, <1>12, <1>13 DEF Known
<1> QED BY <1>1, <1>9, <1>10, <1>14, ReturnKeepsInv

-----------------------------------------------------------------------------
(* Every step keeps the invariant.                                         *)
LEMMA NextKeepsInv == ServiceInv /\ [Next]_vars => ServiceInv'
<1> SUFFICES ASSUME ServiceInv, [Next]_vars PROVE ServiceInv'
  OBVIOUS
<1>0. locked \in BOOLEAN /\ stop \in BOOLEAN
      /\ (cur # NoConn <=> spc \in {"session", "closing", "exec", "reply"})
  BY DEF ServiceInv, TypeOK
<1>1. CASE Start
  BY <1>0, <1>1, AsideKeepsInv DEF Start, Aside
<1>2. CASE Poll
  <2>1. CASE Down
    BY <2>1, DownKeepsInv
  <2>2. CASE ~stop
    BY <1>0, <1>2, <2>2, AsideKeepsInv DEF Poll, Aside
  <2> QED BY <1>2, <2>1, <2>2 DEF Poll
<1>3. CASE PollAgain
  BY <1>0, <1>3, AsideKeepsInv DEF PollAgain, Aside
<1>4. CASE Accept
  BY <1>4, AcceptKeepsInv
<1>5. CASE AcceptFails \/ Crash
  BY <1>5, DownKeepsInv DEF AcceptFails, Crash
<1>6. CASE Signal
  BY <1>0, <1>6, AsideKeepsInv DEF Signal, Aside
<1>7. CASE ReadRequest
  BY <1>7, ReadRequestKeepsInv
<1>8. CASE GiveUp \/ SessionFails
  BY <1>0, <1>8, AsideKeepsInv DEF GiveUp, SessionFails, Aside
<1>9. CASE CloseSession \/ ReplyFails
  BY <1>9, SessionEndsKeepInv
<1>10. CASE Execute
  BY <1>10, ExecuteKeepsInv
<1>11. CASE Reply
  BY <1>11, ReplyKeepsInv
<1>12. CASE CallNext
  BY <1>12, CallKeepsInv DEF CallNext
<1>13. ASSUME NEW c \in Clients,
              Connect(c) \/ Destroy(c) \/ SendFails(c) \/ RecvHeader(c)
              \/ RecvMismatch(c) \/ RecvPayload(c) \/ AllocationFails(c)
              \/ RecvFails(c)
       PROVE  ServiceInv'
  BY <1>13, ConnectKeepsInv, GivingUpKeepsInv, RecvHeaderKeepsInv,
     RecvPayloadKeepsInv, AllocationFailsKeepsInv
<1>14. CASE UNCHANGED vars
  BY <1>0, <1>14, AsideKeepsInv DEF vars, server, Aside
<1> QED BY <1>1, <1>2, <1>3, <1>4, <1>5, <1>6, <1>7, <1>8, <1>9, <1>10, <1>11,
           <1>12, <1>13, <1>14
    DEF Next, ServerNext, ClientNext

(* The invariant always holds.                                             *)
LEMMA InvHolds == Spec => []ServiceInv
BY InitInv, NextKeepsInv, PTL DEF Spec

(* The state keeps its type, and each handle its socket.                   *)
THEOREM TypeCorrect == Spec => []TypeOK
<1>1. ServiceInv => TypeOK
  BY DEF ServiceInv
<1> QED BY <1>1, InvHolds, PTL

(* However many clients, connections and crashes there are, the vault      *)
(* holds what its callers were told or may still expect.                   *)
THEOREM VaultWithinContract == Spec => []StoreWithinContract
<1>1. ServiceInv => StoreWithinContract
  BY DEF ServiceInv, Known, StoreWithinContract
<1> QED BY <1>1, InvHolds, PTL

(* No get returns another request's answer or the rest of an earlier one.  *)
THEOREM AnswersAreTrue == Spec => []GetAnswers
<1>1. ServiceInv => GetAnswers
  <2> SUFFICES ASSUME ServiceInv, NEW c \in Clients, cpc[c] = "payload",
                      req[c].op = "get", Incoming(c) # <<>>
               PROVE  LET got == Head(Incoming(c)).reply IN
                      /\ got.status = "OK" => got.value \in seen[c] \ {NoSecret}
                      /\ got.status = "NOT_FOUND" => NoSecret \in seen[c]
    BY DEF GetAnswers
  <2>1. Turn(c, sock[c])
    BY DEF ServiceInv, Handle
  <2>2. Truthful(c, Head(Incoming(c)).reply)
    BY <2>1 DEF Turn, Incoming
  <2> QED BY <2>2 DEF Truthful
<1> QED BY <1>1, InvHolds, PTL

(* A locked server gives nothing away until it is restarted.               *)
THEOREM LockedStaysLocked == Spec => []LockIsKept
<1>1. ServiceInv => LockIsKept
  BY DEF ServiceInv
<1> QED BY <1>1, InvHolds, PTL

LEMMA ChangeIsCall ==
    ASSUME ServiceInv, [Next]_vars, disk' # disk
    PROVE  CallChanges
<1>1. Execute
  BY Zenon
  DEF Next, ServerNext, ClientNext, CallNext, vars, Start, Poll, PollAgain,
      Accept, AcceptFails, Signal, Crash, Down, ReadRequest, GiveUp,
      SessionFails, CloseSession, Reply, ReplyFails, Call, Connect, Destroy,
      SendFails, FailTransaction, RecvHeader, RecvMismatch, RecvPayload,
      AllocationFails, RecvFails, Return
<1> DEFINE r == frame.request
<1>2. PICK s \in StoreResults(r) : disk' = s.secrets
  BY <1>1 DEF Execute
<1>3. spc = "exec" /\ r \in RealRequests /\ disk \in Maps
  <2>1. spc = "exec"
    BY <1>1 DEF Execute
  <2>2. Busy(cur) /\ cur \in Conns
    BY <2>1 DEF Busy, ServiceInv, TypeOK
  <2>3. frame \in RealFrames
    BY <2>2 DEF ServiceInv, Queue
  <2> QED BY <2>1, <2>3 DEF RealFrames, ServiceInv, TypeOK
<1>4. /\ r.op \in {"put", "remove"} /\ r.id \in Ids
      /\ s.secrets = [disk EXCEPT ![r.id] = Target(r)]
  BY <1>2, <1>3, StoreFacts
<1>5. ~locked
  BY <1>2, <1>3, <1>4, StoreFacts
<1> QED BY <1>2, <1>3, <1>4, <1>5 DEF CallChanges

(* Nothing but a put or remove that is under way changes the vault: no     *)
(* crash, restart, lost connection or refused call does, and a put of one  *)
(* client never touches the identifier of another. *)
THEOREM VaultChangesByCalls == Spec => ChangesAreCalls
<1>1. ServiceInv /\ [Next]_vars => [CallChanges]_disk
  BY ChangeIsCall
<1> QED BY <1>1, InvHolds, PTL DEF Spec, ChangesAreCalls

(* The vault of the service is the map that VaultStore implements, as      *)
(* callers see it on a machine that does not lose power: the copy on the   *)
(* disk is not gone back to. *)
Durable(none) == INSTANCE DurableMap
                     WITH current <- disk, stable <- [i \in Ids |-> NoSecret],
                          NoVault <- none

THEOREM VaultIsDurableMap ==
    ASSUME NEW none, none \notin Maps
    PROVE  Spec => Durable(none)!Spec
<1>1. Init => Durable(none)!Init
  BY DEF Init, Durable!Init, Durable!Maps
<1>2. ServiceInv /\ [Next]_vars => [Durable(none)!Next]_(Durable(none)!vars)
  <2> SUFFICES ASSUME ServiceInv, [Next]_vars
               PROVE  Durable(none)!Next \/ UNCHANGED Durable(none)!vars
    OBVIOUS
  <2>1. CASE disk' = disk
    BY <2>1 DEF Durable!vars
  <2>2. CASE disk' # disk
    <3>1. PICK r \in RealRequests : /\ r.op \in {"put", "remove"} /\ r.id \in Ids
                                    /\ disk' = [disk EXCEPT ![r.id] = Target(r)]
      BY <2>2, ChangeIsCall DEF CallChanges
    <3>2. Target(r) \in Values \cup {NoSecret}
      BY <3>1, RealRequestFacts DEF Target
    <3>3. disk # none
      BY DEF ServiceInv, TypeOK
    <3>4. Durable(none)!Write(r.id, Target(r))
      BY <3>1, <3>3 DEF Durable!Write
    <3> QED BY <3>1, <3>2, <3>4 DEF Durable!Next
  <2> QED BY <2>1, <2>2
<1> QED BY <1>1, <1>2, InvHolds, PTL DEF Spec, Durable!Spec
=============================================================================
