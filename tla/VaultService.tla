---------------------------- MODULE VaultService ----------------------------
(***************************************************************************)
(* Client handles (src/client/client.cpp), Unix socket connections and the *)
(* server that serves one connection at a time (src/server/server.cpp).    *)
(*                                                                         *)
(* The store is what VaultStore is proved to implement: one map that a put *)
(* or a remove changes in one place, or not at all.  A connection carries  *)
(* whole frames: a frame that is only partly written or read has the       *)
(* effect of none, because both ends then give the connection up.  The     *)
(* answer is sent as a header and a payload, as the client reads it.       *)
(***************************************************************************)
EXTENDS Naturals, Sequences, FiniteSets

CONSTANTS
    Clients,            \* client processes with at most one handle each
    Ids, NoId,          \* secret identifiers
    Values, NoSecret,   \* secret values, and the mark of an absent one
    MaxSecrets,         \* maximum_secret_count
    Writer,             \* the one client that changes an identifier
    Calls,              \* the kinds of calls each client makes
    Conns, NoConn,      \* connections, numbered from 1
    Backlog,            \* connections that may wait to be accepted
    MaxRequestId,       \* the largest request identifier
    MaySignal           \* whether SIGINT or SIGTERM ever arrives

ASSUME ServiceAssumption ==
    /\ NoSecret \notin Values
    /\ NoId \notin Ids
    /\ MaxSecrets \in Nat /\ Backlog \in Nat
    /\ MaxRequestId \in Nat \ {0}
    /\ Writer \in [Ids -> Clients]
    /\ Calls \in [Clients -> SUBSET {"ping", "put", "get", "remove", "list",
                                   "lock"}]
    /\ MaySignal \in BOOLEAN
    /\ Conns = 1 .. Cardinality(Conns) /\ NoConn \notin Conns

Maps == [Ids -> Values \cup {NoSecret}]
Present(m) == {i \in Ids : m[i] # NoSecret}

Request(o, i, v) == [op |-> o, id |-> i, value |-> v]

Operations == {"ping", "put", "get", "remove", "list", "lock"}

(* The calls of the C ABI; each identifier is changed by its writer only.  *)
Requests(c) ==
    {Request(o, NoId, NoSecret) : o \in Calls[c] \cap {"ping", "list", "lock"}}
    \cup {Request("get", i, NoSecret) : i \in IF "get" \in Calls[c] THEN Ids ELSE {}}
    \cup {r \in {Request("put", i, v) : i \in Ids, v \in Values} :
              "put" \in Calls[c] /\ Writer[r.id] = c}
    \cup {r \in {Request("remove", i, NoSecret) : i \in Ids} :
              "remove" \in Calls[c] /\ Writer[r.id] = c}
NoRequest == Request("none", NoId, NoSecret)
AllRequests == (UNION {Requests(c) : c \in Clients}) \cup {NoRequest}

Statuses == {"OK", "NOT_FOUND", "LOCKED", "INTERNAL_ERROR"}
Replies  == [status : Statuses, value : Values \cup {NoSecret}]
NoReply  == [status |-> "OK", value |-> NoSecret]

(* What travels on a connection. *)
Frame(n, r)   == [id |-> n, request |-> r]
Header(n, o)  == [kind |-> "header", id |-> n, op |-> o]
Payload(a)    == [kind |-> "payload", reply |-> a]

VARIABLES
    disk,       \* the secrets of the vault
    locked,     \* locked_
    stop,       \* stop_requested
    spc,        \* where the server is
    cur,        \* the connection of its session
    frame,      \* the request it has read
    answer,     \* the response it is about to send
    backlog,    \* connections that wait for accept, oldest first
    conn,       \* the two directions of every connection, and its open ends
    cpc,        \* where each client is
    sock,       \* socket of its handle
    nextId,     \* next_request_id of its handle
    req,        \* the request of the call in progress
    seen,       \* ghost: what the identifier of the call may have held so far
    expect      \* ghost: what the vault may hold for an identifier

server  == <<stop, spc, cur, frame, answer>>
client  == <<cpc, sock, nextId, req>>
ghost   == <<seen, expect>>
vars    == <<disk, locked, server, backlog, conn, client, ghost>>

Free == [up |-> <<>>, down |-> <<>>, cli |-> FALSE, srv |-> FALSE]
Established == [up |-> <<>>, down |-> <<>>, cli |-> TRUE, srv |-> TRUE]

(* close() at one end; what the peer had sent is lost, what was sent to    *)
(* the peer can still be read.  With both ends gone nothing is left.       *)
ClosedByClient(k) == IF k.srv THEN [k EXCEPT !.cli = FALSE, !.down = <<>>]
                              ELSE Free
ClosedByServer(k) == IF k.cli THEN [k EXCEPT !.srv = FALSE, !.up = <<>>]
                              ELSE Free

Init == /\ disk = [i \in Ids |-> NoSecret]
        /\ locked = FALSE
        /\ stop = FALSE
        /\ spc = "head"
        /\ cur = NoConn
        /\ frame = Frame(0, NoRequest)
        /\ answer = NoReply
        /\ backlog = <<>>
        /\ conn = [k \in Conns |-> Free]
        /\ cpc = [c \in Clients |-> "none"]
        /\ sock = [c \in Clients |-> NoConn]
        /\ nextId = [c \in Clients |-> 1]
        /\ req = [c \in Clients |-> NoRequest]
        /\ seen = [c \in Clients |-> {}]
        /\ expect = [i \in Ids |-> {NoSecret}]

-----------------------------------------------------------------------------
(* server::run                                                             *)

(* main opens the vault again: the store is unlocked, the listener is new. *)
Start == /\ spc = "down"
         /\ spc' = "head"
         /\ locked' = FALSE
         /\ stop' = FALSE
         /\ UNCHANGED <<disk, cur, frame, answer, backlog, conn, client, ghost>>

(* The process is gone and every connection with it, accepted or not. *)
Down == /\ spc' = "down"
        /\ cur' = NoConn
        /\ frame' = Frame(0, NoRequest)
        /\ answer' = NoReply
        /\ backlog' = <<>>
        /\ conn' = [k \in Conns |-> ClosedByServer(conn[k])]
        /\ UNCHANGED <<disk, locked, stop, client, ghost>>

(* The loop condition: this is the only place that reads stop_requested. *)
Poll == /\ spc = "head"
        /\ IF stop THEN Down
           ELSE /\ spc' = "wait"
                /\ UNCHANGED <<disk, locked, stop, cur, frame, answer, backlog,
                               conn, client, ghost>>

(* poll ends after 500 ms without a client, or with EINTR on the signal. *)
PollAgain == /\ spc = "wait"
             /\ backlog = <<>> \/ stop
             /\ spc' = "head"
             /\ UNCHANGED <<disk, locked, stop, cur, frame, answer, backlog,
                            conn, client, ghost>>

Accept == /\ spc = "wait"
          /\ backlog # <<>>
          /\ cur' = Head(backlog)
          /\ backlog' = Tail(backlog)
          /\ spc' = "session"
          /\ UNCHANGED <<disk, locked, stop, frame, answer, conn, client, ghost>>

(* poll or accept4 fails, ECONNABORTED or EMFILE among the errors: run     *)
(* throws and the server ends.                                             *)
AcceptFails == spc = "wait" /\ Down

Signal == /\ MaySignal
          /\ spc # "down"
          /\ ~stop
          /\ stop' = TRUE
          /\ UNCHANGED <<disk, locked, spc, cur, frame, answer, backlog, conn,
                         client, ghost>>

(* The process is killed.  A put that had reached the disk stays there. *)
Crash == spc # "down" /\ Down

-----------------------------------------------------------------------------
(* server::handle_client                                                   *)

ReadRequest == /\ spc = "session"
               /\ conn[cur].up # <<>>
               /\ frame' = Head(conn[cur].up)
               /\ conn' = [conn EXCEPT ![cur].up = Tail(@)]
               /\ spc' = "exec"
               /\ UNCHANGED <<disk, locked, stop, cur, answer, backlog, client,
                              ghost>>

(* read_all returns false: the client has closed, or has been silent for   *)
(* the five seconds of the session's receive timeout.                      *)
(* Here and below, an operator with a suffix is a plausible wrong version  *)
(* of the one after it; Next does not use it.                              *)
GiveUpOnClosed == /\ spc = "session"
                  /\ conn[cur].up = <<>>
                  /\ ~conn[cur].cli
                  /\ spc' = "closing"
                  /\ UNCHANGED <<disk, locked, stop, cur, frame, answer,
                                 backlog, conn, client, ghost>>

GiveUp == /\ spc = "session"
          /\ conn[cur].up = <<>>
          /\ spc' = "closing"
          /\ UNCHANGED <<disk, locked, stop, cur, frame, answer, backlog, conn,
                         client, ghost>>

(* The exceptions of a session while a request may be unread or is being   *)
(* read: the timeouts cannot be set, the peer is not authorized, memory    *)
(* for the payload is short, the header is refused.                        *)
SessionFails == /\ spc = "session"
                /\ conn[cur].up # <<>>
                /\ spc' = "closing"
                /\ UNCHANGED <<disk, locked, stop, cur, frame, answer, backlog,
                               conn, client, ghost>>

(* Leaving handle_client, after the last bytes that were sent; a request   *)
(* that arrived meanwhile is not read.                                     *)
EndSession(sent) ==
    /\ conn' = [conn EXCEPT ![cur] =
                    ClosedByServer([conn[cur] EXCEPT !.down = @ \o sent])]
    /\ cur' = NoConn
    /\ spc' = "head"
    /\ frame' = Frame(0, NoRequest)
    /\ answer' = NoReply

CloseSession == /\ spc = "closing"
                /\ EndSession(<<>>)
                /\ UNCHANGED <<disk, locked, stop, backlog, client, ghost>>

(* classify_exception: invalid_argument and out_of_range are tested first, *)
(* any other logic_error, length_error among them, is LOCKED.              *)
Classify == [none          |-> "OK",
             out_of_range  |-> "NOT_FOUND",
             logic_error   |-> "LOCKED",
             length_error  |-> "LOCKED",
             runtime_error |-> "INTERNAL_ERROR"]

(* A call of the store: the exception it ends with, the value it returns   *)
(* and the secrets it leaves.                                              *)
Result(e, v, m) == [exception |-> e, value |-> v, secrets |-> m]

(* persist succeeds, or throws and leaves the vault as it was. *)
Persisted(m) == {Result("none", NoSecret, m),
                 Result("runtime_error", NoSecret, disk)}
Thrown(e) == {Result(e, NoSecret, disk)}

PutResults(i, v) ==
    IF disk[i] = NoSecret /\ Cardinality(Present(disk)) >= MaxSecrets
    THEN Thrown("length_error")
    ELSE Persisted([disk EXCEPT ![i] = v])

GetResultsEmpty(i) == {Result("none", disk[i], disk)}

GetResults(i) ==
    IF disk[i] = NoSecret THEN Thrown("out_of_range")
    ELSE {Result("none", disk[i], disk)}

RemoveResults(i) ==
    IF disk[i] = NoSecret THEN Thrown("out_of_range")
    ELSE Persisted([disk EXCEPT ![i] = NoSecret])

StoreResultsUnguarded(r) ==
    CASE r.op \in {"ping", "lock"} -> {Result("none", NoSecret, disk)}
      [] r.op = "list" -> {Result("none", NoSecret, disk)}
      [] r.op = "put" -> PutResults(r.id, r.value)
      [] r.op = "get" -> GetResults(r.id)
      [] r.op = "remove" -> RemoveResults(r.id)

StoreResults(r) ==
    CASE r.op \in {"ping", "lock"} -> {Result("none", NoSecret, disk)}
      [] r.op \notin {"ping", "lock"} /\ locked -> Thrown("logic_error")
      [] r.op = "list" /\ ~locked -> {Result("none", NoSecret, disk)}
      [] r.op = "put" /\ ~locked -> PutResults(r.id, r.value)
      [] r.op = "get" /\ ~locked -> GetResults(r.id)
      [] r.op = "remove" /\ ~locked -> RemoveResults(r.id)

ExecuteOkOnFailure ==
    /\ spc = "exec"
    /\ \E s \in StoreResults(frame.request) :
         /\ disk' = s.secrets
         /\ answer' = [status |-> IF s.exception = "runtime_error" THEN "OK"
                                  ELSE Classify[s.exception],
                       value |-> s.value]
    /\ locked' = (locked \/ frame.request.op = "lock")
    /\ spc' = "reply"
    /\ UNCHANGED <<stop, cur, frame, backlog, conn, client, ghost>>

(* The switch over the message type, with its catch. *)
Execute ==
    /\ spc = "exec"
    /\ \E s \in StoreResults(frame.request) :
         /\ disk' = s.secrets
         /\ answer' = [status |-> Classify[s.exception], value |-> s.value]
    /\ locked' = (locked \/ frame.request.op = "lock")
    /\ spc' = "reply"
    /\ UNCHANGED <<stop, cur, frame, backlog, conn, client, ghost>>

(* write_all of the response. *)
Reply == /\ spc = "reply"
         /\ conn[cur].cli
         /\ conn' = [conn EXCEPT ![cur].down =
                         @ \o <<Header(frame.id, frame.request.op),
                                Payload(answer)>>]
         /\ spc' = "session"
         /\ frame' = Frame(0, NoRequest)
         /\ UNCHANGED <<disk, locked, stop, cur, answer, backlog, client, ghost>>

(* encode_response throws (SizeLimits says when), the client has closed,   *)
(* or it does not read for five seconds: the session ends, at most with a  *)
(* header that has no payload.                                             *)
ReplyFails ==
    /\ spc = "reply"
    /\ \/ EndSession(<<>>)
       \/ /\ conn[cur].cli
          /\ EndSession(<<Header(frame.id, frame.request.op)>>)
    /\ UNCHANGED <<disk, locked, stop, backlog, client, ghost>>

-----------------------------------------------------------------------------
(* zeta_vault_client_create and _destroy                                   *)

(* connect succeeds as soon as the connection is queued. *)
Connect(c) ==
    /\ cpc[c] = "none"
    /\ spc # "down"
    /\ Len(backlog) < Backlog
    /\ \E k \in Conns :
         /\ conn[k] = Free /\ \A j \in 1 .. k - 1 : conn[j] # Free
         /\ conn' = [conn EXCEPT ![k] = Established]
         /\ backlog' = Append(backlog, k)
         /\ sock' = [sock EXCEPT ![c] = k]
    /\ cpc' = [cpc EXCEPT ![c] = "idle"]
    /\ UNCHANGED <<disk, locked, server, nextId, req, ghost>>

(* disconnect: the socket of a handle is closed and forgotten.  A handle   *)
(* never connects again, so its next request identifier has no use any     *)
(* more.                                                                   *)
HangUpKeepsSocket(c) ==
    /\ conn' = IF sock[c] = NoConn THEN conn
               ELSE [conn EXCEPT ![sock[c]] = ClosedByClient(@)]
    /\ nextId' = [nextId EXCEPT ![c] = 1]
    /\ req' = [req EXCEPT ![c] = NoRequest]
    /\ seen' = [seen EXCEPT ![c] = {}]
    /\ UNCHANGED sock

HangUp(c) == /\ conn' = IF sock[c] = NoConn THEN conn
                        ELSE [conn EXCEPT ![sock[c]] = ClosedByClient(@)]
             /\ sock' = [sock EXCEPT ![c] = NoConn]
             /\ nextId' = [nextId EXCEPT ![c] = 1]
             /\ req' = [req EXCEPT ![c] = NoRequest]
             /\ seen' = [seen EXCEPT ![c] = {}]

(* The handle is destroyed, or its process ends in the middle of a call.   *)
Destroy(c) == /\ cpc[c] # "none"
              /\ HangUp(c)
              /\ cpc' = [cpc EXCEPT ![c] = "none"]
              /\ UNCHANGED <<disk, locked, server, backlog, expect>>

-----------------------------------------------------------------------------
(* transact                                                                *)

NextRequestId(n) == IF n = MaxRequestId THEN 1 ELSE n + 1

(* The callers' side of the contract: a change under way may be in effect  *)
(* from the moment it is sent.                                             *)
Announce(c, r) ==
    LET v == IF r.op = "put" THEN {r.value} ELSE {NoSecret}
        changes == r.op \in {"put", "remove"}
    IN  /\ expect' = IF changes THEN [expect EXCEPT ![r.id] = @ \cup v]
                     ELSE expect
        /\ seen' = [d \in Clients |->
                      IF d = c THEN IF r.id \in Ids THEN expect[r.id] ELSE {}
                      ELSE IF changes /\ req[d].op = "get" /\ req[d].id = r.id
                           THEN seen[d] \cup v
                           ELSE seen[d]]

(* The request is written as a whole. *)
Call(c, r) ==
    /\ cpc[c] = "idle"
    /\ sock[c] # NoConn
    /\ conn[sock[c]].srv
    /\ conn' = [conn EXCEPT ![sock[c]].up = Append(@, Frame(nextId[c], r))]
    /\ nextId' = [nextId EXCEPT ![c] = NextRequestId(@)]
    /\ req' = [req EXCEPT ![c] = r]
    /\ cpc' = [cpc EXCEPT ![c] = "await"]
    /\ Announce(c, r)
    /\ UNCHANGED <<disk, locked, server, backlog, sock>>

(* fail_transaction: the handle loses its connection for good. *)
FailTransaction(c) == /\ HangUp(c)
                      /\ cpc' = [cpc EXCEPT ![c] = "idle"]
                      /\ UNCHANGED <<disk, locked, server, backlog, expect>>

(* The request cannot be written: EPIPE, or a timeout on the way. *)
SendFails(c) == /\ cpc[c] = "idle"
                /\ sock[c] # NoConn
                /\ FailTransaction(c)

Incoming(c) == conn[sock[c]].down

(* The identifier and type the answer to the call in progress must carry.  *)
Matches(c, h) == /\ h.kind = "header"
                 /\ NextRequestId(h.id) = nextId[c]
                 /\ h.op = req[c].op

RecvHeader(c) == /\ cpc[c] = "await"
                 /\ Incoming(c) # <<>>
                 /\ Matches(c, Head(Incoming(c)))
                 /\ conn' = [conn EXCEPT ![sock[c]].down = Tail(@)]
                 /\ cpc' = [cpc EXCEPT ![c] = "payload"]
                 /\ UNCHANGED <<disk, locked, server, backlog, sock, nextId, req,
                                ghost>>

(* decode_header rejects the bytes, or the answer is not to this request. *)
RecvMismatch(c) == /\ cpc[c] = "await"
                   /\ Incoming(c) # <<>>
                   /\ ~Matches(c, Head(Incoming(c)))
                   /\ FailTransaction(c)

(* The call ends and the handle stays connected. *)
Return(c) == /\ cpc' = [cpc EXCEPT ![c] = "idle"]
             /\ req' = [req EXCEPT ![c] = NoRequest]
             /\ seen' = [seen EXCEPT ![c] = {}]
             /\ UNCHANGED <<disk, locked, server, backlog, sock, nextId>>

(* What an answer to r lets its caller conclude about the identifier: a    *)
(* put or remove is in effect, or was refused and changed nothing.         *)
Concludes(r, a, before, now) ==
    IF r.op = "put" /\ a.status = "OK" THEN {r.value}
    ELSE IF r.op = "remove" /\ a.status \in {"OK", "NOT_FOUND"} THEN {NoSecret}
    ELSE IF r.op \in {"put", "remove"} THEN before
    ELSE now

RecvPayload(c) ==
    /\ cpc[c] = "payload"
    /\ Incoming(c) # <<>>
    /\ conn' = [conn EXCEPT ![sock[c]].down = Tail(@)]
    /\ expect' = IF req[c].id \in Ids
                 THEN [expect EXCEPT ![req[c].id] =
                          Concludes(req[c], Head(Incoming(c)).reply, seen[c], @)]
                 ELSE expect
    /\ Return(c)

(* A buffer for the payload, or for what it holds, cannot be allocated:    *)
(* the exception ends the call but leaves the connection, with the payload *)
(* still unread or not.                                                    *)
AllocationFails(c) ==
    /\ cpc[c] = "payload"
    /\ \/ UNCHANGED conn
       \/ /\ Incoming(c) # <<>>
          /\ conn' = [conn EXCEPT ![sock[c]].down = Tail(@)]
    /\ Return(c)
    /\ UNCHANGED expect

(* recv reports the timeout or the closed connection. *)
RecvFailsOnClosed(c) == /\ cpc[c] \in {"await", "payload"}
                        /\ Incoming(c) = <<>>
                        /\ ~conn[sock[c]].srv
                        /\ FailTransaction(c)

RecvFails(c) == /\ cpc[c] \in {"await", "payload"}
                /\ Incoming(c) = <<>>
                /\ FailTransaction(c)

-----------------------------------------------------------------------------
ServerNext == \/ Start \/ Poll \/ PollAgain \/ Accept \/ AcceptFails
              \/ Signal \/ Crash \/ ReadRequest \/ GiveUp \/ SessionFails
              \/ CloseSession \/ Execute \/ Reply \/ ReplyFails

CallNext == \E c \in Clients : \E r \in Requests(c) : Call(c, r)

ClientNext == \/ CallNext
              \/ \E c \in Clients :
                   \/ Connect(c) \/ Destroy(c) \/ SendFails(c)
                   \/ RecvHeader(c) \/ RecvMismatch(c) \/ RecvPayload(c)
                   \/ AllocationFails(c) \/ RecvFails(c)

Next == ServerNext \/ ClientNext

Spec == Init /\ [][Next]_vars

(* The server's thread runs and its receive timeout expires; so does the   *)
(* thread of a client inside a call.  Starting, stopping and calling are   *)
(* up to their users.                                                      *)
Fairness == /\ WF_vars(Poll) /\ WF_vars(PollAgain) /\ WF_vars(Accept)
            /\ WF_vars(ReadRequest) /\ WF_vars(GiveUp) /\ WF_vars(CloseSession)
            /\ WF_vars(Execute) /\ WF_vars(Reply \/ ReplyFails)
            /\ \A c \in Clients :
                 /\ WF_vars(RecvHeader(c) \/ RecvMismatch(c))
                 /\ WF_vars(RecvPayload(c) \/ AllocationFails(c))
                 /\ WF_vars(RecvFails(c))

FairSpec == Spec /\ Fairness

-----------------------------------------------------------------------------
Frames == [id : 0 .. MaxRequestId, request : AllRequests]
Tokens == [kind : {"header"}, id : 1 .. MaxRequestId, op : Operations]
          \cup [kind : {"payload"}, reply : Replies]

(* The state has its type; the server has a connection exactly during a    *)
(* session, a connection it still has to accept is open at its end, and    *)
(* the socket of a handle is open and nobody else's.                       *)
TypeOK == /\ disk \in Maps
          /\ locked \in BOOLEAN /\ stop \in BOOLEAN
          /\ spc \in {"down", "head", "wait", "session", "closing", "exec",
                      "reply"}
          /\ cur \in Conns \cup {NoConn}
          /\ cur # NoConn <=> spc \in {"session", "closing", "exec", "reply"}
          /\ frame \in Frames
          /\ answer \in Replies
          /\ backlog \in Seq(Conns) /\ Len(backlog) <= Backlog
          /\ \A n \in DOMAIN backlog : conn[backlog[n]].srv
          /\ \A k \in Conns : /\ conn[k].up \in Seq(Frames)
                              /\ conn[k].down \in Seq(Tokens)
                              /\ conn[k].cli \in BOOLEAN
                              /\ conn[k].srv \in BOOLEAN
          /\ cpc \in [Clients -> {"none", "idle", "await", "payload"}]
          /\ sock \in [Clients -> Conns \cup {NoConn}]
          /\ \A c \in Clients : sock[c] # NoConn =>
               /\ conn[sock[c]].cli
               /\ \A d \in Clients \ {c} : sock[d] # sock[c]
          /\ nextId \in [Clients -> 1 .. MaxRequestId]
          /\ req \in [Clients -> AllRequests]
          /\ seen \in [Clients -> SUBSET (Values \cup {NoSecret})]
          /\ expect \in [Ids -> SUBSET (Values \cup {NoSecret})]

(* An acknowledged put or remove is in effect until its caller sends       *)
(* another, a refused one never is, and one whose outcome is unknown does  *)
(* not come into effect after a later one was acknowledged - not even when *)
(* it still waits in a connection its caller has given up.                 *)
StoreWithinContract == \A i \in Ids : disk[i] \in expect[i]

(* The answer a get is about to return is a value the identifier may have  *)
(* held while the call lasted: never another request's answer, never the   *)
(* remains of an earlier one.                                              *)
GetAnswers ==
    \A c \in Clients :
        cpc[c] = "payload" /\ req[c].op = "get" /\ Incoming(c) # <<>> =>
            LET got == Head(Incoming(c)).reply IN
            /\ got.status = "OK" => got.value \in seen[c] \ {NoSecret}
            /\ got.status = "NOT_FOUND" => NoSecret \in seen[c]

(* "Locks the server until it is restarted": no value leaves a locked      *)
(* server and nothing else is done, and ZETA_VAULT_STATUS_LOCKED is the    *)
(* answer of a locked server only - or to a put into a full vault, whose   *)
(* length_error is a logic_error too.                                      *)
LockIsKept ==
    spc = "reply" =>
        /\ locked => /\ answer.value = NoSecret
                     /\ answer.status = "OK" => frame.request.op \in {"ping", "lock"}
        /\ answer.status = "LOCKED" =>
             \/ locked
             \/ frame.request.op = "put" /\ Cardinality(Present(disk)) >= MaxSecrets

Quiet == ~[]<><<CallNext>>_vars

(* As long as calls do not go on for ever, a connection that waits is      *)
(* accepted or closed: no session holds the only thread for good.          *)
Served == Quiet => \A k \in Conns :
              (\E n \in DOMAIN backlog : backlog[n] = k)
                  ~> ~(\E n \in DOMAIN backlog : backlog[n] = k)

(* Every call returns, whatever the server and the other clients do. *)
CallsReturn == \A c \in Clients :
                   cpc[c] \in {"await", "payload"} ~> cpc[c] \in {"idle", "none"}

(* As long as calls do not go on for ever, the server obeys the signal. *)
StopsWhenQuiet == Quiet => (stop ~> spc = "down")

-----------------------------------------------------------------------------
(* Why the contract holds: requests wait in connections, connections in    *)
(* the backlog, and the server takes both in order.                        *)
RealRequests == UNION {Requests(c) : c \in Clients}
RealFrames == [id : 1 .. MaxRequestId, request : RealRequests]

Changes(r, i) == r.op \in {"put", "remove"} /\ r.id = i
Target(r) == IF r.op = "put" THEN r.value ELSE NoSecret

(* The server is at work on a request of k.                                *)
Busy(k) == k = cur /\ spc \in {"exec", "reply"}

(* r has been sent on k and is not carried out yet.                        *)
Unexecuted(k, r) ==
    \/ \E n \in DOMAIN conn[k].up : conn[k].up[n].request = r
    \/ k = cur /\ spc = "exec" /\ frame.request = r

Waits(k) == \E n \in DOMAIN backlog : backlog[n] = k
Precedes(j, k) == \/ j = cur
                  \/ \E m, n \in DOMAIN backlog :
                        m < n /\ backlog[m] = j /\ backlog[n] = k

(* The server's end of a connection is open while it waits or is served.   *)
Queue ==
    /\ conn \in [Conns -> [up : Seq(RealFrames), down : Seq(Tokens),
                           cli : BOOLEAN, srv : BOOLEAN]]
    /\ \A m, n \in DOMAIN backlog : backlog[m] = backlog[n] => m = n
    /\ \A k \in Conns : /\ conn[k].srv <=> k = cur \/ Waits(k)
                        /\ Waits(k) => k # cur /\ conn[k].down = <<>>
                        /\ ~conn[k].srv => conn[k].up = <<>>
                        /\ Busy(k) => frame \in RealFrames

(* a answers the call of c truthfully.                                     *)
Truthful(c, a) ==
    /\ req[c].op \in {"put", "remove"} =>
          disk[req[c].id] \in Concludes(req[c], a, seen[c], {})
    /\ req[c].op = "get" => /\ a.status = "OK" => a.value \in seen[c] \ {NoSecret}
                            /\ a.status = "NOT_FOUND" => NoSecret \in seen[c]

(* A handle has one request under way at most.  What it has left unread of *)
(* an answer is a payload, and that is never taken for a header.           *)
Stale(k) == conn[k].down # <<>> => conn[k].down[1].kind = "payload"

Turn(c, k) ==
    /\ cpc[c] \in {"idle", "payload"} => conn[k].up = <<>> /\ ~Busy(k)
    /\ cpc[c] = "idle" => Stale(k)
    /\ cpc[c] = "await" =>
          /\ Len(conn[k].up) <= 1
          /\ conn[k].up # <<>> => conn[k].up[1].request = req[c] /\ ~Busy(k)
          /\ Busy(k) => frame.request = req[c]
          /\ conn[k].up # <<>> \/ Busy(k) => Stale(k)
          /\ Busy(k) /\ spc = "reply" => Truthful(c, answer)
          /\ \/ Stale(k)
             \/ Len(conn[k].down) = 1
             \/ /\ Len(conn[k].down) = 2
                /\ conn[k].down[2].kind = "payload"
                /\ Truthful(c, conn[k].down[2].reply)
    /\ cpc[c] = "payload" => \/ conn[k].down = <<>>
                             \/ /\ Len(conn[k].down) = 1
                                /\ conn[k].down[1].kind = "payload"
                                /\ Truthful(c, conn[k].down[1].reply)

(* Changes of an identifier that a client has left behind in connections   *)
(* it gave up come before its present connection. *)
Ordered(c, k) ==
    \A j \in Conns \ {k}, r \in RealRequests, i \in Ids :
        Unexecuted(j, r) /\ Changes(r, i) /\ Writer[i] = c =>
            k # cur /\ conn[k].srv /\ Precedes(j, k)

(* What the callers know covers what the vault holds and what may still    *)
(* happen to it.                                                           *)
Known ==
    /\ \A i \in Ids : disk[i] \in expect[i]
    /\ \A k \in Conns, r \in RealRequests, i \in Ids :
          Unexecuted(k, r) /\ Changes(r, i) => Target(r) \in expect[i]

Remembered(c, k) ==
    cpc[c] \in {"await", "payload"} =>
    /\ req[c] \in Requests(c)
    /\ req[c].op = "get" => expect[req[c].id] \subseteq seen[c]
    /\ req[c].op \in {"put", "remove"} =>
          /\ Target(req[c]) \in expect[req[c].id]
          /\ seen[c] \subseteq expect[req[c].id]
          /\ \A j \in Conns \ {k}, r \in RealRequests :
                Unexecuted(j, r) /\ Changes(r, req[c].id) => Target(r) \in seen[c]
          /\ conn[k].up # <<>> \/ (Busy(k) /\ spc = "exec") =>
                disk[req[c].id] \in seen[c]

Handle(c) ==
    /\ cpc[c] \in {"await", "payload"} => sock[c] # NoConn
    /\ cpc[c] = "none" => sock[c] = NoConn
    /\ sock[c] # NoConn => /\ Turn(c, sock[c])
                           /\ Ordered(c, sock[c])
                           /\ Remembered(c, sock[c])

ServiceInv == TypeOK /\ Queue /\ Known /\ (\A c \in Clients : Handle(c)) /\ LockIsKept

(* What the server takes for granted of the store is no more than          *)
(* VaultStore is proved to give (DurableMap): the vault changes in one     *)
(* identifier at a time.  It changes only while it is unlocked, to what a  *)
(* put or remove asks for that one of the clients makes, and only while    *)
(* the server works on that request, which it has read in full.            *)
CallChanges == \E r \in RealRequests :
                  /\ r.op \in {"put", "remove"} /\ r.id \in Ids
                  /\ spc = "exec" /\ frame.request = r /\ ~locked
                  /\ disk' = [disk EXCEPT ![r.id] = Target(r)]
ChangesAreCalls == [][CallChanges]_disk
=============================================================================
