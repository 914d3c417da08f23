-------------------------------- MODULE Wire --------------------------------
(***************************************************************************)
(* One connection, byte by byte.  send and recv move a part of what they   *)
(* are given, as much as the buffer of the socket has room or bytes for;   *)
(* write_all and read_all (src/common/io.cpp) go on until a whole frame, a *)
(* header or a payload is through.  The client's end is transact           *)
(* (src/client/client.cpp), the server's end is handle_client              *)
(* (src/server/server.cpp), the frames are those of                        *)
(* src/protocol/protocol.cpp.                                              *)
(***************************************************************************)
EXTENDS Naturals, Sequences

CONSTANTS HeaderSize,       \* header_size, in bytes of the model
          RequestSizes,     \* payloads of requests
          ResponseSizes,    \* payloads of responses, never empty
          Buffer,           \* bytes a socket holds for one reader
          MaxCalls          \* bound on the calls of the client

ASSUME WireAssumption ==
    /\ HeaderSize \in Nat \ {0} /\ Buffer \in Nat \ {0} /\ MaxCalls \in Nat
    /\ RequestSizes \subseteq Nat /\ ResponseSizes \subseteq Nat \ {0}

Ends == {"client", "server"}
Peer(e) == IF e = "client" THEN "server" ELSE "client"

Frame(e, n, s) == [from |-> e, id |-> n, size |-> s]
NoFrame == Frame("client", 0, 0)
Frames == [from : {"client"}, id : 0 .. MaxCalls, size : RequestSizes \cup {0}]
          \cup [from : {"server"}, id : 1 .. MaxCalls, size : ResponseSizes]

(* A byte is known by its frame and its place in it. *)
Byte(f, k) == [of |-> f, at |-> k]
HeaderOf(f)  == [k \in 1 .. HeaderSize |-> Byte(f, k)]
PayloadOf(f) == [k \in 1 .. f.size |-> Byte(f, HeaderSize + k)]
encode_frame(f) == HeaderOf(f) \o PayloadOf(f)

(* Bytes that do not begin with the magic are refused.  Behind the magic   *)
(* of a frame that was cut off, anything may look like the other fields.   *)
decode_header(bytes) == {f \in Frames : \/ bytes = HeaderOf(f)
                                        \/ /\ bytes[1].at = 1
                                           /\ \A g \in Frames : bytes # HeaderOf(g)}

VARIABLES
    at,         \* where each end is
    data,       \* what write_all still has to send
    buffer,     \* what read_all has received
    pipe,       \* the bytes on their way to each end
    header,     \* the header each end has read last
    asked,      \* the request of the call in progress, or the last one
    calls,      \* next_request_id - 1
    done        \* the request that was carried out last

vars == <<at, data, buffer, pipe, header, asked, calls, done>>

Init == /\ at = [client |-> "idle", server |-> "header"]
        /\ data = [e \in Ends |-> <<>>]
        /\ buffer = [e \in Ends |-> <<>>]
        /\ pipe = [e \in Ends |-> <<>>]
        /\ header = [e \in Ends |-> NoFrame]
        /\ asked = NoFrame
        /\ calls = 0 /\ done = 0

Drop(f, n) == SubSeq(f, n + 1, Len(f))
Take(f, n) == SubSeq(f, 1, n)

(* close(): what this end has not read is lost. *)
Close(e) == /\ at' = [at EXCEPT ![e] = "closed"]
            /\ data' = [data EXCEPT ![e] = <<>>]
            /\ buffer' = [buffer EXCEPT ![e] = <<>>]
            /\ pipe' = [pipe EXCEPT ![e] = <<>>]
            /\ UNCHANGED <<header, asked, calls, done>>

(* disconnect forgotten: the handle stays as it is for the next call.      *)
(* Here and below, an operator with a suffix is a plausible wrong version  *)
(* of the one after it; Next does not use it.                              *)
GiveUpKeepsSocket(e) ==
    IF e = "client"
    THEN /\ at' = [at EXCEPT ![e] = "idle"]
         /\ data' = [data EXCEPT ![e] = <<>>]
         /\ buffer' = [buffer EXCEPT ![e] = <<>>]
         /\ UNCHANGED <<pipe, header, asked, calls, done>>
    ELSE Close(e)

(* fail_transaction of the client, the exception of the session.           *)
GiveUp(e) == Close(e)

-----------------------------------------------------------------------------
(* src/common/io.cpp                                                       *)

(* set_socket_timeout: a call that has to wait ends after a while. *)
TimesOutNever(blocked) == FALSE

TimesOut(blocked) == blocked

Room(e) == Buffer - Len(pipe[Peer(e)])

(* One round of the loop of write_all; after the last one the end waits    *)
(* for the next header. *)
Send(e) == /\ at[e] = "send"
           /\ at[Peer(e)] # "closed"
           /\ \E n \in 1 .. Room(e) :
                /\ n <= Len(data[e])
                /\ pipe' = [pipe EXCEPT ![Peer(e)] = @ \o Take(data[e], n)]
                /\ data' = [data EXCEPT ![e] = Drop(@, n)]
                /\ at' = IF n = Len(data[e]) THEN [at EXCEPT ![e] = "header"]
                         ELSE at
           /\ UNCHANGED <<buffer, header, asked, calls, done>>

(* EPIPE, or the timeout. *)
SendFails(e) == /\ at[e] = "send"
                /\ at[Peer(e)] = "closed" \/ TimesOut(Room(e) = 0)
                /\ GiveUp(e)

Wanted(e) == IF at[e] = "header" THEN HeaderSize ELSE header[e].size
Reading(e) == at[e] \in {"header", "payload"} /\ Len(buffer[e]) < Wanted(e)

(* recv of as much as there is. *)
RecvOverrun(e) ==
    /\ Reading(e)
    /\ \E n \in 1 .. Len(pipe[e]) :
         /\ buffer' = [buffer EXCEPT ![e] = @ \o Take(pipe[e], n)]
         /\ pipe' = [pipe EXCEPT ![e] = Drop(@, n)]
    /\ UNCHANGED <<at, data, header, asked, calls, done>>

(* One round of the loop of read_all. *)
Recv(e) == /\ Reading(e)
           /\ \E n \in 1 .. Len(pipe[e]) :
                /\ n <= Wanted(e) - Len(buffer[e])
                /\ buffer' = [buffer EXCEPT ![e] = @ \o Take(pipe[e], n)]
                /\ pipe' = [pipe EXCEPT ![e] = Drop(@, n)]
           /\ UNCHANGED <<at, data, header, asked, calls, done>>

(* The end of the stream, or the timeout. *)
RecvFails(e) == /\ Reading(e)
                /\ pipe[e] = <<>>
                /\ at[Peer(e)] = "closed" \/ TimesOut(pipe[e] = <<>>)
                /\ GiveUp(e)

-----------------------------------------------------------------------------
(* transact                                                                *)

Call == /\ at["client"] = "idle"
        /\ calls < MaxCalls
        /\ calls' = calls + 1
        /\ \/ \E s \in RequestSizes :
                /\ asked' = Frame("client", calls + 1, s)
                /\ data' = [data EXCEPT !["client"] = encode_frame(asked')]
                /\ at' = [at EXCEPT !["client"] = "send"]
           \/ UNCHANGED <<asked, data, at>>      \* encode_frame throws
        /\ UNCHANGED <<buffer, pipe, header, done>>

(* A header is complete: it is the one that is expected, or the end gives  *)
(* the connection up. *)
Expected(e, f) == f.from = Peer(e) /\ (e = "client" => f.id = asked.id)

HeaderRead(e) ==
    /\ at[e] = "header"
    /\ Len(buffer[e]) >= HeaderSize
    /\ LET found == {f \in decode_header(buffer[e]) : Expected(e, f)}
       IN  \/ /\ \E f \in found : header' = [header EXCEPT ![e] = f]
              /\ at' = [at EXCEPT ![e] = "payload"]
              /\ buffer' = [buffer EXCEPT ![e] = <<>>]
              /\ UNCHANGED <<data, pipe, asked, calls, done>>
           \/ found = {} /\ GiveUp(e)

Complete(e) == at[e] = "payload" /\ Len(buffer[e]) >= header[e].size

(* The call returns what the response holds. *)
Return == /\ Complete("client")
          /\ at' = [at EXCEPT !["client"] = "idle"]
          /\ buffer' = [buffer EXCEPT !["client"] = <<>>]
          /\ UNCHANGED <<data, pipe, header, asked, calls, done>>

(* There is no memory for the payload of the response: the call ends, the  *)
(* payload stays where it is, the handle goes on. *)
NoMemory == /\ at["client"] = "payload"
            /\ buffer["client"] = <<>>
            /\ at' = [at EXCEPT !["client"] = "idle"]
            /\ UNCHANGED <<data, buffer, pipe, header, asked, calls, done>>

(* zeta_vault_client_destroy, or the end of the process. *)
Destroy == at["client"] # "closed" /\ Close("client")

-----------------------------------------------------------------------------
(* handle_client: the request is carried out and the response encoded.     *)
Execute == /\ Complete("server")
           /\ done' = header["server"].id
           /\ \E s \in ResponseSizes :
                data' = [data EXCEPT !["server"] =
                            encode_frame(Frame("server", done', s))]
           /\ at' = [at EXCEPT !["server"] = "send"]
           /\ buffer' = [buffer EXCEPT !["server"] = <<>>]
           /\ UNCHANGED <<pipe, header, asked, calls>>

(* An exception ends the session, or the process is killed. *)
SessionEnds == at["server"] # "closed" /\ Close("server")

Io(e) == \/ Send(e) \/ SendFails(e) \/ Recv(e) \/ RecvFails(e)
         \/ HeaderRead(e)
ClientWork == Io("client") \/ Return \/ NoMemory
ServerWork == Io("server") \/ Execute

Next == Call \/ ClientWork \/ Destroy \/ ServerWork \/ SessionEnds

Spec == Init /\ [][Next]_vars

(* The two threads run while they are in a transaction or a session. *)
FairSpec == Spec /\ WF_vars(ClientWork) /\ WF_vars(ServerWork)

-----------------------------------------------------------------------------
(* Whatever was cut off, given up or left unread before, an end that has   *)
(* taken a header reads the payload of that very frame, sent by its peer;  *)
(* the client's is the answer to its call, which was carried out.          *)
Framed == \A e \in Ends : at[e] = "payload" =>
            /\ header[e].from = Peer(e)
            /\ buffer[e] = Take(PayloadOf(header[e]), Len(buffer[e]))
            /\ e = "client" => done = calls

(* A connection is an exchange: calls are carried out at most once, each   *)
(* as it was made, and a call succeeds only after it was carried out. *)
exchange == INSTANCE Exchange
    WITH handle <- CASE at["client"] = "idle" -> "idle"
                     [] at["client"] = "closed" -> "failed"
                     [] OTHER -> "calling",
         pending <- IF asked.id = done THEN 0 ELSE asked.id,
         executed <- done
ImplementsExchange == exchange!Spec

(* Every call ends.  The two ends can both wait for room, when an unread   *)
(* response fills the one direction and a request the other: the timeouts  *)
(* get them out of it. *)
CallEnds == at["client"] \in {"send", "header", "payload"}
            ~> at["client"] \in {"idle", "closed"}

-----------------------------------------------------------------------------
(* Why frames are whole.  What an end has received, what is on its way and *)
(* what its peer still has to send are one stream, which holds a part of   *)
(* one frame - or, for the client, begins with a payload it left unread.   *)
Bytes == [of : Frames, at : Nat \ {0}]

TypeOK == /\ at \in [Ends -> {"idle", "send", "header", "payload", "closed"}]
          /\ at["server"] # "idle"
          /\ data \in [Ends -> Seq(Bytes)]
          /\ buffer \in [Ends -> Seq(Bytes)]
          /\ pipe \in [Ends -> Seq(Bytes)]
          /\ header \in [Ends -> Frames]
          /\ asked \in Frames /\ asked.from = "client"
          /\ calls \in 0 .. MaxCalls /\ done \in Nat

Stream(e) == buffer[e] \o pipe[e] \o data[Peer(e)]

(* The bytes of f from the k-th on, or a beginning of them.                *)
Part(s, f, k) == /\ Len(s) <= HeaderSize + f.size - k
                 /\ \A i \in 1 .. Len(s) : s[i] = Byte(f, k + i)

Stale(s) == s # <<>> => s[1].at > HeaderSize

(* read_all asks for no more than it wants, write_all has something left.  *)
Bounded == \A e \in Ends :
             /\ at[e] # "send" <=> data[e] = <<>>
             /\ at[e] \in {"idle", "send"} => buffer[e] = <<>>
             /\ at[e] \in {"header", "payload"} => Len(buffer[e]) <= Wanted(e)

Numbered == /\ done <= asked.id /\ asked.id <= calls
            /\ at["client"] \in {"idle", "payload"} => asked.id = done
            /\ at["client"] \in {"send", "header", "payload"} =>
                  asked.id = calls /\ calls # 0

(* One request at most is on its way to the server. *)
ToServer ==
    at["server"] # "closed" =>
        IF asked.id = done
        THEN at["server"] # "payload" /\ Stream("server") = <<>>
        ELSE /\ at["server"] = "payload" => header["server"] = asked
             /\ Part(Stream("server"), asked,
                     IF at["server"] = "payload" THEN HeaderSize ELSE 0)

ToClient ==
    /\ at["client"] \in {"idle", "send", "header"} =>
          \/ Stale(Stream("client"))
          \/ /\ at["client"] = "header" /\ asked.id = done
             /\ \E s \in ResponseSizes :
                   Part(Stream("client"), Frame("server", done, s), 0)
    /\ at["client"] = "payload" =>
          /\ \E s \in ResponseSizes : header["client"] = Frame("server", done, s)
          /\ Part(Stream("client"), header["client"], HeaderSize)

WireInv == TypeOK /\ Bounded /\ Numbered /\ ToServer /\ ToClient
=============================================================================
