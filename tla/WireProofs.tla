----------------------------- MODULE WireProofs -----------------------------
(***************************************************************************)
(* Proofs about Wire for all sizes of headers, payloads and sockets and    *)
(* any number of calls.                                                    *)
(***************************************************************************)
EXTENDS Wire, SequenceTheorems, TLAPS

LEMMA Regrouped ==
    \A s, t, u \in Seq(Bytes) : s \o t \o u = s \o (t \o u)
BY ConcatAssociative, SMTT(20)

(* The provers are quicker with a name for what is known of \o. *)
Joined(s, t) == s \o t

LEMMA JoinedBytes ==
    \A s, t \in Seq(Bytes) :
        /\ Joined(s, t) \in Seq(Bytes)
        /\ Len(Joined(s, t)) = Len(s) + Len(t)
        /\ \A i \in 1 .. Len(s) + Len(t) :
              Joined(s, t)[i] = IF i <= Len(s) THEN s[i] ELSE t[i - Len(s)]
BY ConcatProperties, SMTT(20) DEF Joined

LEMMA JoinedTwice ==
    \A s, t, u \in Seq(Bytes) : Joined(Joined(s, t), u) = Joined(s, Joined(t, u))
BY Regrouped, SMTT(20) DEF Joined

(* What moves from one sequence to the next stays in its place. *)
LEMMA MovedForward ==
    \A s, p, x, y \in Seq(Bytes) :
        Joined(Joined(s, Joined(p, x)), y) = Joined(Joined(s, p), Joined(x, y))
<1> SUFFICES ASSUME NEW s \in Seq(Bytes), NEW p \in Seq(Bytes),
                    NEW x \in Seq(Bytes), NEW y \in Seq(Bytes)
             PROVE  Joined(Joined(s, Joined(p, x)), y) =
                    Joined(Joined(s, p), Joined(x, y))
  OBVIOUS
<1>1. Joined(s, p) \in Seq(Bytes)
  BY JoinedBytes
<1>2. Joined(s, Joined(p, x)) = Joined(Joined(s, p), x)
  BY JoinedTwice
<1>3. Joined(Joined(Joined(s, p), x), y) = Joined(Joined(s, p), Joined(x, y))
  BY <1>1, JoinedTwice
<1> QED BY <1>2, <1>3

USE WireAssumption DEF WireAssumption

-----------------------------------------------------------------------------
(* Frames and their parts                                                  *)

LEMMA FrameTypes ==
    /\ NoFrame \in Frames /\ NoFrame.from = "client" /\ NoFrame.id = 0
    /\ \A f \in Frames : f.size \in Nat /\ f.id \in Nat
                         /\ f.from \in Ends
    /\ \A n \in 1 .. MaxCalls, s \in RequestSizes :
          /\ Frame("client", n, s) \in Frames
          /\ Frame("client", n, s).from = "client" /\ Frame("client", n, s).id = n
    /\ \A n \in 1 .. MaxCalls, s \in ResponseSizes :
          /\ Frame("server", n, s) \in Frames
          /\ Frame("server", n, s).from = "server" /\ Frame("server", n, s).id = n
          /\ Frame("server", n, s).size = s
<1>1. /\ NoFrame \in Frames /\ NoFrame.from = "client" /\ NoFrame.id = 0
  BY DEF Frames, Frame, NoFrame
<1>2. ASSUME NEW f \in Frames
      PROVE  f.size \in Nat /\ f.id \in Nat /\ f.from \in Ends
  <2>1. CASE f \in [from : {"client"}, id : 0 .. MaxCalls,
                    size : RequestSizes \cup {0}]
    <3>1. /\ f.from = "client" /\ f.id \in 0 .. MaxCalls
          /\ f.size \in RequestSizes \cup {0}
      BY <2>1
    <3>2. f.id \in Nat
      BY <3>1
    <3>3. f.size \in Nat
      <4>1. RequestSizes \cup {0} \subseteq Nat
        OBVIOUS
      <4> QED BY <3>1, <4>1
    <3>4. f.from \in Ends
      BY <3>1 DEF Ends
    <3> QED BY <3>2, <3>3, <3>4
  <2>2. CASE f \in [from : {"server"}, id : 1 .. MaxCalls, size : ResponseSizes]
    <3>1. /\ f.from = "server" /\ f.id \in 1 .. MaxCalls
          /\ f.size \in ResponseSizes
      BY <2>2
    <3>2. f.id \in Nat
      BY <3>1
    <3>3. f.size \in Nat
      BY <3>1
    <3>4. f.from \in Ends
      BY <3>1 DEF Ends
    <3> QED BY <3>2, <3>3, <3>4
  <2> QED BY <2>1, <2>2 DEF Frames
<1>3. ASSUME NEW n \in 1 .. MaxCalls, NEW s \in RequestSizes
      PROVE  /\ Frame("client", n, s) \in Frames
             /\ Frame("client", n, s).from = "client"
             /\ Frame("client", n, s).id = n
  BY DEF Frames, Frame
<1>4. ASSUME NEW n \in 1 .. MaxCalls, NEW s \in ResponseSizes
      PROVE  /\ Frame("server", n, s) \in Frames
             /\ Frame("server", n, s).from = "server"
             /\ Frame("server", n, s).id = n
             /\ Frame("server", n, s).size = s
  BY DEF Frames, Frame
<1> QED BY <1>1, <1>2, <1>3, <1>4

LEMMA ByteTypes ==
    ASSUME NEW f \in Frames, NEW k \in Nat \ {0}
    PROVE  Byte(f, k) \in Bytes /\ Byte(f, k).of = f /\ Byte(f, k).at = k
BY DEF Byte, Bytes

LEMMA HeaderBytes ==
    ASSUME NEW f \in Frames
    PROVE  /\ HeaderOf(f) \in Seq(Bytes) /\ Len(HeaderOf(f)) = HeaderSize
           /\ \A i \in 1 .. HeaderSize : HeaderOf(f)[i] = Byte(f, i)
BY ByteTypes DEF HeaderOf

LEMMA PayloadBytes ==
    ASSUME NEW f \in Frames
    PROVE  /\ PayloadOf(f) \in Seq(Bytes) /\ Len(PayloadOf(f)) = f.size
           /\ \A i \in 1 .. f.size : PayloadOf(f)[i] = Byte(f, HeaderSize + i)
<1>1. f.size \in Nat
  BY FrameTypes
<1>2. \A i \in 1 .. f.size : Byte(f, HeaderSize + i) \in Bytes
  BY <1>1, ByteTypes
<1>3. PayloadOf(f) = [k \in 1 .. f.size |-> Byte(f, HeaderSize + k)]
  BY DEF PayloadOf
<1>4. PayloadOf(f) \in [1 .. f.size -> Bytes]
  BY <1>2, <1>3
<1>5. PayloadOf(f) \in Seq(Bytes)
  BY <1>1, <1>4
<1>6. Len(PayloadOf(f)) = f.size
  BY <1>1, <1>3
<1> QED BY <1>3, <1>5, <1>6

LEMMA FrameBytes ==
    ASSUME NEW f \in Frames
    PROVE  /\ encode_frame(f) \in Seq(Bytes) /\ encode_frame(f) # <<>>
           /\ Part(encode_frame(f), f, 0)
<1>1. f.size \in Nat
  BY FrameTypes
<1>2. /\ encode_frame(f) \in Seq(Bytes)
      /\ Len(encode_frame(f)) = HeaderSize + f.size
      /\ \A i \in 1 .. HeaderSize + f.size : encode_frame(f)[i] =
            IF i <= HeaderSize THEN HeaderOf(f)[i] ELSE PayloadOf(f)[i - HeaderSize]
  <2>1. HeaderOf(f) \in Seq(Bytes) /\ PayloadOf(f) \in Seq(Bytes)
        /\ Len(HeaderOf(f)) = HeaderSize /\ Len(PayloadOf(f)) = f.size
    BY HeaderBytes, PayloadBytes
  <2>2. encode_frame(f) = Joined(HeaderOf(f), PayloadOf(f))
    BY Zenon DEF encode_frame, Joined
  <2>3. /\ Joined(HeaderOf(f), PayloadOf(f)) \in Seq(Bytes)
        /\ Len(Joined(HeaderOf(f), PayloadOf(f))) = Len(HeaderOf(f)) + Len(PayloadOf(f))
        /\ \A i \in 1 .. Len(HeaderOf(f)) + Len(PayloadOf(f)) :
              Joined(HeaderOf(f), PayloadOf(f))[i] =
                IF i <= Len(HeaderOf(f)) THEN HeaderOf(f)[i]
                ELSE PayloadOf(f)[i - Len(HeaderOf(f))]
    BY <2>1, JoinedBytes, Zenon
  <2> QED BY <2>1, <2>2, <2>3, Zenon
<1>3. ASSUME NEW i \in 1 .. HeaderSize + f.size
      PROVE  encode_frame(f)[i] = Byte(f, 0 + i)
  BY <1>1, <1>2, HeaderBytes, PayloadBytes
<1> QED BY <1>1, <1>2, <1>3 DEF Part

(* The beginning of a part is a part. *)
LEMMA PartPrefix ==
    ASSUME NEW f \in Frames, NEW k \in Nat,
           NEW s \in Seq(Bytes), NEW t \in Seq(Bytes), Part(s \o t, f, k)
    PROVE  Part(s, f, k)
<1>1. f.size \in Nat
  BY FrameTypes
<1>2. Len(s \o t) = Len(s) + Len(t) /\ Len(s) \in Nat /\ Len(t) \in Nat
      /\ \A i \in 1 .. Len(s) : (s \o t)[i] = s[i]
  BY ConcatProperties
<1>3. /\ Len(s \o t) <= HeaderSize + f.size - k
      /\ \A i \in 1 .. Len(s \o t) : (s \o t)[i] = Byte(f, k + i)
  BY Zenon DEF Part
<1>4. Len(s) <= HeaderSize + f.size - k
  BY <1>1, <1>2, <1>3
<1>5. ASSUME NEW i \in 1 .. Len(s)
      PROVE  s[i] = Byte(f, k + i)
  <2>1. i \in 1 .. Len(s \o t)
    BY <1>2
  <2> QED BY <1>2, <1>3, <2>1, Zenon
<1> QED BY <1>4, <1>5, Zenon DEF Part

(* What is left after the beginning is the part that follows. *)
LEMMA PartSuffix ==
    ASSUME NEW f \in Frames, NEW s \in Seq(Bytes), NEW t \in Seq(Bytes),
           Part(s \o t, f, 0), Len(s) = HeaderSize
    PROVE  s = HeaderOf(f) /\ Part(t, f, HeaderSize)
<1>1. f.size \in Nat
  BY FrameTypes
<1>2. /\ Len(s \o t) = HeaderSize + Len(t) /\ Len(t) \in Nat
      /\ \A i \in 1 .. HeaderSize + Len(t) :
            (s \o t)[i] = IF i <= HeaderSize THEN s[i] ELSE t[i - HeaderSize]
  <2>1. Len(t) \in Nat
    BY LenProperties
  <2>2. /\ Len(s \o t) = Len(s) + Len(t)
        /\ \A i \in 1 .. Len(s) + Len(t) :
              (s \o t)[i] = IF i <= Len(s) THEN s[i] ELSE t[i - Len(s)]
    BY ConcatProperties, Zenon
  <2> QED BY <2>1, <2>2
<1>3. ASSUME NEW i \in 1 .. Len(t) PROVE t[i] = Byte(f, HeaderSize + i)
  <2>0. /\ HeaderSize + i \in 1 .. HeaderSize + Len(t)
        /\ ~(HeaderSize + i <= HeaderSize) /\ (HeaderSize + i) - HeaderSize = i
    BY <1>2
  <2>1. (s \o t)[HeaderSize + i] = t[i]
    BY <1>2, <2>0
  <2>2. (s \o t)[HeaderSize + i] = Byte(f, 0 + (HeaderSize + i))
    BY <1>2 DEF Part
  <2> QED BY <1>2, <2>1, <2>2
<1>4. ASSUME NEW i \in 1 .. HeaderSize PROVE s[i] = HeaderOf(f)[i]
  <2>1. (s \o t)[i] = s[i]
    BY <1>2
  <2>2. (s \o t)[i] = Byte(f, 0 + i)
    BY <1>2 DEF Part
  <2> QED BY <2>1, <2>2, HeaderBytes
<1>5. s = HeaderOf(f)
  BY <1>4, HeaderBytes, SeqEqual
<1> QED BY <1>1, <1>2, <1>3, <1>5 DEF Part

LEMMA PartOfPayload ==
    ASSUME NEW f \in Frames, NEW s \in Seq(Bytes), Part(s, f, HeaderSize)
    PROVE  s = Take(PayloadOf(f), Len(s))
<1>1. f.size \in Nat /\ Len(s) \in Nat
  BY FrameTypes, LenProperties
<1>2. Len(s) <= f.size /\ \A i \in 1 .. Len(s) : s[i] = Byte(f, HeaderSize + i)
  BY <1>1 DEF Part
<1>3. /\ Len(PayloadOf(f)) = f.size
      /\ \A i \in 1 .. Len(s) : PayloadOf(f)[i] = Byte(f, HeaderSize + i)
      /\ \A i \in 1 .. Len(s) : PayloadOf(f)[i] \in Bytes
  <2>1. \A i \in 1 .. f.size : Byte(f, HeaderSize + i) \in Bytes
    BY <1>1, ByteTypes
  <2> QED BY <1>1, <1>2, <2>1, PayloadBytes
<1>4. /\ Take(PayloadOf(f), Len(s)) \in Seq(Bytes)
      /\ Len(Take(PayloadOf(f), Len(s))) = Len(s)
      /\ \A i \in 1 .. Len(s) : Take(PayloadOf(f), Len(s))[i] = PayloadOf(f)[i]
  BY <1>1, <1>3, SubSeqProperties DEF Take
<1>5. \A i \in 1 .. Len(s) : s[i] = Take(PayloadOf(f), Len(s))[i]
  BY <1>2, <1>3, <1>4
<1> QED BY <1>4, <1>5, SeqEqual

LEMMA StalePrefix ==
    ASSUME NEW s \in Seq(Bytes), NEW t \in Seq(Bytes), Stale(s \o t)
    PROVE  Stale(s)
<1>1. s # <<>> => s \o t # <<>> /\ (s \o t)[1] = s[1]
  BY ConcatProperties
<1> QED BY <1>1 DEF Stale

(* What is appended to something stale does not show. *)
LEMMA StaleAppended ==
    ASSUME NEW s \in Seq(Bytes), NEW t \in Seq(Bytes), Stale(s), s # <<>>
    PROVE  Stale(s \o t)
<1>1. (s \o t)[1] = s[1]
  BY ConcatProperties
<1> QED BY <1>1 DEF Stale

LEMMA PayloadIsStale ==
    ASSUME NEW f \in Frames, NEW s \in Seq(Bytes), Part(s, f, HeaderSize)
    PROVE  Stale(s)
<1>1. s # <<>> => s[1] = Byte(f, HeaderSize + 1)
  BY DEF Part
<1> QED BY <1>1, ByteTypes DEF Stale

(* The first HeaderSize bytes tell a frame; those of an unread payload are *)
(* refused. *)
LEMMA DecodeHeader ==
    ASSUME NEW f \in Frames
    PROVE  decode_header(HeaderOf(f)) = {f}
<1>1. ASSUME NEW g \in Frames, HeaderOf(f) = HeaderOf(g) PROVE f = g
  BY <1>1, HeaderBytes, ByteTypes
<1> QED BY <1>1 DEF decode_header

LEMMA DecodeStale ==
    ASSUME NEW s \in Seq(Bytes), Len(s) >= HeaderSize, Stale(s)
    PROVE  decode_header(s) = {}
<1>1. s # <<>> /\ s[1] \in Bytes /\ s[1].at > HeaderSize
  BY DEF Stale
<1>2. s[1].at # 1
  BY <1>1 DEF Bytes
<1>3. ASSUME NEW f \in Frames PROVE s # HeaderOf(f)
  BY <1>2, HeaderBytes, ByteTypes
<1> QED BY <1>2, <1>3 DEF decode_header

-----------------------------------------------------------------------------
(* Bytes move from data to pipe and from pipe to buffer; the stream stays. *)
LEMMA TakeDrop ==
    ASSUME NEW s \in Seq(Bytes), NEW n \in 0 .. Len(s)
    PROVE  /\ Take(s, n) \in Seq(Bytes) /\ Len(Take(s, n)) = n
           /\ Drop(s, n) \in Seq(Bytes) /\ Len(Drop(s, n)) = Len(s) - n
           /\ Take(s, n) \o Drop(s, n) = s
<1>1. Len(s) \in Nat /\ \A i \in 1 .. Len(s) : s[i] \in Bytes
  BY LenProperties, ElementOfSeq
<1>2. /\ 1 \in 1 .. Len(s) + 1 /\ n \in 1 - 1 .. Len(s)
      /\ Len(s) \in n .. Len(s)
  BY <1>1
<1>3. SubSeq(s, 1, n) \o SubSeq(s, n + 1, Len(s)) = SubSeq(s, 1, Len(s))
  BY <1>2, ConcatAdjacentSubSeq, Zenon
<1>4. SubSeq(s, 1, Len(s)) = s
  BY SubSeqFull
<1>5. Take(s, n) \in Seq(Bytes) /\ Len(Take(s, n)) = n
  BY <1>1, SubSeqProperties DEF Take
<1>6. Drop(s, n) \in Seq(Bytes) /\ Len(Drop(s, n)) = Len(s) - n
  BY <1>1, SubSeqProperties DEF Drop
<1>7. Take(s, n) \o Drop(s, n) = s
  BY <1>3, <1>4, Zenon DEF Take, Drop
<1> QED BY <1>5, <1>6, <1>7

-----------------------------------------------------------------------------
(* What the steps do to the streams                                        *)

LEMMA TwoEnds ==
    /\ Peer("client") = "server" /\ Peer("server") = "client"
    /\ \A e \in Ends : Peer(e) \in Ends /\ Peer(e) # e /\ Peer(Peer(e)) = e
BY DEF Ends, Peer

LEMMA StreamTypes ==
    ASSUME TypeOK, NEW e \in Ends
    PROVE  /\ data[e] \in Seq(Bytes) /\ buffer[e] \in Seq(Bytes)
           /\ pipe[e] \in Seq(Bytes) /\ Stream(e) \in Seq(Bytes)
<1>1. \A x \in Ends : data[x] \in Seq(Bytes) /\ buffer[x] \in Seq(Bytes)
                      /\ pipe[x] \in Seq(Bytes)
  BY DEF TypeOK
<1>2. Peer(e) \in Ends
  BY TwoEnds
<1> QED BY <1>1, <1>2, ConcatProperties, ConcatEmptySeq DEF Stream

LEMMA StreamLength ==
    ASSUME TypeOK, NEW e \in Ends
    PROVE  /\ Len(Stream(e)) = Len(buffer[e]) + Len(pipe[e]) + Len(data[Peer(e)])
           /\ Len(buffer[e]) \in Nat /\ Len(pipe[e]) \in Nat
           /\ Len(data[Peer(e)]) \in Nat
           /\ Len(buffer[e]) = 0 => buffer[e] = <<>>
           /\ Len(pipe[e]) = 0 => pipe[e] = <<>>
           /\ Len(data[Peer(e)]) = 0 => data[Peer(e)] = <<>>
<1>1. /\ buffer[e] \in Seq(Bytes) /\ pipe[e] \in Seq(Bytes)
      /\ data[Peer(e)] \in Seq(Bytes)
  BY StreamTypes, TwoEnds
<1>2. ASSUME NEW s \in Seq(Bytes), NEW p \in Seq(Bytes), NEW d \in Seq(Bytes)
      PROVE  /\ Len(s \o p \o d) = Len(s) + Len(p) + Len(d)
             /\ Len(s) \in Nat /\ (Len(s) = 0 => s = <<>>)
  <2>1. Len(s \o p \o d) = Len(s \o p) + Len(d) /\ Len(s \o p) = Len(s) + Len(p)
    BY ConcatProperties
  <2>2. Len(s) \in Nat /\ (Len(s) = 0 => s = <<>>)
    BY EmptySeq, LenProperties
  <2> QED BY <2>1, <2>2
<1> QED BY <1>1, <1>2 DEF Stream

LEMMA SendStreams ==
    ASSUME TypeOK, NEW e \in Ends, Send(e)
    PROVE  /\ pipe' \in [Ends -> Seq(Bytes)] /\ data' \in [Ends -> Seq(Bytes)]
           /\ \A x \in Ends : Stream(x)' = Stream(x)
           /\ data[e] # <<>> /\ \A x \in Ends \ {e} : data'[x] = data[x]
           /\ \/ data'[e] = <<>> /\ at' = [at EXCEPT ![e] = "header"]
              \/ data'[e] # <<>> /\ at' = at
<1>1. Peer(e) \in Ends /\ Peer(e) # e /\ Peer(Peer(e)) = e
  BY TwoEnds
<1>2. PICK n \in 1 .. Room(e) :
        /\ n <= Len(data[e])
        /\ pipe' = [pipe EXCEPT ![Peer(e)] = @ \o Take(data[e], n)]
        /\ data' = [data EXCEPT ![e] = Drop(@, n)]
        /\ at' = IF n = Len(data[e]) THEN [at EXCEPT ![e] = "header"] ELSE at
  BY DEF Send
<1>3. Len(data[e]) \in Nat /\ n \in Nat \ {0}
  BY <1>2, StreamTypes, LenProperties
<1>4. n \in 0 .. Len(data[e]) /\ Len(data[e]) > 0
  BY <1>2, <1>3
<1>5. /\ Take(data[e], n) \in Seq(Bytes) /\ Drop(data[e], n) \in Seq(Bytes)
      /\ Len(Drop(data[e], n)) = Len(data[e]) - n
  BY <1>4, StreamTypes, TakeDrop
<1>6. pipe[Peer(e)] \o Take(data[e], n) \in Seq(Bytes)
  BY <1>1, <1>5, StreamTypes, ConcatProperties
<1>7. pipe' \in [Ends -> Seq(Bytes)] /\ data' \in [Ends -> Seq(Bytes)]
  BY <1>2, <1>5, <1>6 DEF TypeOK
<1>8. /\ pipe'[Peer(e)] = pipe[Peer(e)] \o Take(data[e], n)
      /\ pipe'[e] = pipe[e] /\ data'[Peer(e)] = data[Peer(e)]
      /\ data'[e] = Drop(data[e], n)
  BY <1>1, <1>2 DEF TypeOK
<1>9. buffer' = buffer
  BY DEF Send
<1>10. Stream(e)' = Stream(e)
  BY <1>8, <1>9 DEF Stream
<1>11. Stream(Peer(e))' = Stream(Peer(e))
  <2>1. /\ data[e] \in Seq(Bytes) /\ buffer[Peer(e)] \in Seq(Bytes)
        /\ pipe[Peer(e)] \in Seq(Bytes)
    BY <1>1, StreamTypes
  <2>2. buffer[Peer(e)] \o (pipe[Peer(e)] \o Take(data[e], n)) \o Drop(data[e], n)
           = buffer[Peer(e)] \o pipe[Peer(e)] \o data[e]
    <3>1. /\ Take(data[e], n) \in Seq(Bytes) /\ Drop(data[e], n) \in Seq(Bytes)
          /\ Take(data[e], n) \o Drop(data[e], n) = data[e]
      BY <1>4, <2>1, TakeDrop
    <3>2. Joined(Take(data[e], n), Drop(data[e], n)) = data[e]
      BY <3>1, Zenon DEF Joined
    <3>3. Joined(Joined(buffer[Peer(e)], Joined(pipe[Peer(e)], Take(data[e], n))),
                 Drop(data[e], n))
             = Joined(Joined(buffer[Peer(e)], pipe[Peer(e)]), data[e])
      BY <2>1, <3>1, <3>2, MovedForward
    <3> QED BY <3>3, Zenon DEF Joined
  <2> QED BY <1>1, <1>8, <1>9, <2>2 DEF Stream
<1>12. Ends = {e, Peer(e)}
  BY DEF Ends, Peer
<1>13. /\ data[e] # <<>>
       /\ \A x \in Ends \ {e} : data'[x] = data[x]
       /\ data'[e] = <<>> <=> n = Len(data[e])
  BY <1>1, <1>3, <1>4, <1>5, <1>8, <1>12, StreamTypes, EmptySeq
<1> QED BY <1>2, <1>7, <1>10, <1>11, <1>12, <1>13

LEMMA RecvStreams ==
    ASSUME TypeOK, NEW e \in Ends, Recv(e)
    PROVE  /\ buffer' \in [Ends -> Seq(Bytes)] /\ pipe' \in [Ends -> Seq(Bytes)]
           /\ \A x \in Ends : Stream(x)' = Stream(x)
           /\ \A x \in Ends \ {e} : buffer'[x] = buffer[x]
           /\ Len(buffer'[e]) <= Wanted(e)
<1>1. Peer(e) \in Ends /\ Peer(e) # e /\ Peer(Peer(e)) = e
  BY TwoEnds
<1>2. PICK n \in 1 .. Len(pipe[e]) :
        /\ n <= Wanted(e) - Len(buffer[e])
        /\ buffer' = [buffer EXCEPT ![e] = @ \o Take(pipe[e], n)]
        /\ pipe' = [pipe EXCEPT ![e] = Drop(@, n)]
  BY DEF Recv
<1>3. Len(pipe[e]) \in Nat /\ Len(buffer[e]) \in Nat /\ n \in 0 .. Len(pipe[e])
  BY <1>2, StreamTypes, LenProperties
<1>4. /\ Take(pipe[e], n) \in Seq(Bytes) /\ Drop(pipe[e], n) \in Seq(Bytes)
      /\ Len(Take(pipe[e], n)) = n
  BY <1>3, StreamTypes, TakeDrop
<1>5. /\ buffer[e] \o Take(pipe[e], n) \in Seq(Bytes)
      /\ Len(buffer[e] \o Take(pipe[e], n)) = Len(buffer[e]) + n
  BY <1>4, StreamTypes, ConcatProperties
<1>6. buffer' \in [Ends -> Seq(Bytes)] /\ pipe' \in [Ends -> Seq(Bytes)]
  BY <1>2, <1>4, <1>5 DEF TypeOK
<1>7. /\ buffer'[e] = buffer[e] \o Take(pipe[e], n)
      /\ pipe'[e] = Drop(pipe[e], n)
      /\ buffer'[Peer(e)] = buffer[Peer(e)] /\ pipe'[Peer(e)] = pipe[Peer(e)]
  BY <1>1, <1>2 DEF TypeOK
<1>8. data' = data
  BY DEF Recv
<1>9. Stream(Peer(e))' = Stream(Peer(e))
  BY <1>7, <1>8 DEF Stream
<1>10. Stream(e)' = Stream(e)
  <2>1. /\ data[Peer(e)] \in Seq(Bytes) /\ buffer[e] \in Seq(Bytes)
        /\ pipe[e] \in Seq(Bytes)
    BY <1>1, StreamTypes
  <2>2. buffer[e] \o Take(pipe[e], n) \o Drop(pipe[e], n) \o data[Peer(e)]
           = buffer[e] \o pipe[e] \o data[Peer(e)]
    <3>1. /\ Take(pipe[e], n) \in Seq(Bytes) /\ Drop(pipe[e], n) \in Seq(Bytes)
          /\ Take(pipe[e], n) \o Drop(pipe[e], n) = pipe[e]
      BY <1>3, <2>1, TakeDrop
    <3>2. Joined(Take(pipe[e], n), Drop(pipe[e], n)) = pipe[e]
      BY <3>1, Zenon DEF Joined
    <3>3. Joined(Joined(buffer[e], Take(pipe[e], n)), Drop(pipe[e], n))
             = Joined(buffer[e], pipe[e])
      BY <2>1, <3>1, <3>2, JoinedTwice
    <3> QED BY <3>3, Zenon DEF Joined
  <2> QED BY <1>7, <1>8, <2>2 DEF Stream
<1>11. Ends = {e, Peer(e)}
  BY DEF Ends, Peer
<1>12. Wanted(e) \in Nat
  BY FrameTypes DEF Wanted, TypeOK
<1>13. Len(buffer'[e]) <= Wanted(e)
  <2>1. n <= Wanted(e) - Len(buffer[e]) /\ n \in Nat
    BY <1>2, <1>3
  <2>2. Len(buffer'[e]) = Len(buffer[e]) + n
    BY <1>5, <1>7
  <2> QED BY <1>3, <1>12, <2>1, <2>2
<1> QED BY <1>6, <1>7, <1>9, <1>10, <1>11, <1>13

(* The peer of an end that closes is left with what has been sent to it.   *)
LEMMA CloseStreams ==
    ASSUME TypeOK, NEW e \in Ends, Close(e)
    PROVE  /\ TypeOK'
           /\ Stream(Peer(e)) = Stream(Peer(e))' \o data[e]
           /\ at'[e] = "closed" /\ data'[e] = <<>> /\ buffer'[e] = <<>>
           /\ \A x \in Ends \ {e} : at'[x] = at[x] /\ data'[x] = data[x]
                                    /\ buffer'[x] = buffer[x]
<1>1. Peer(e) \in Ends /\ Peer(e) # e /\ Peer(Peer(e)) = e
  BY TwoEnds
<1>2. <<>> \in Seq(Bytes)
  BY EmptySeq
<1>3. /\ at'[e] = "closed" /\ data'[e] = <<>> /\ buffer'[e] = <<>>
      /\ \A x \in Ends \ {e} : at'[x] = at[x] /\ data'[x] = data[x]
                               /\ buffer'[x] = buffer[x] /\ pipe'[x] = pipe[x]
  BY DEF Close, TypeOK
<1>4. Stream(Peer(e))' = buffer[Peer(e)] \o pipe[Peer(e)]
  <2>1. buffer[Peer(e)] \in Seq(Bytes) /\ pipe[Peer(e)] \in Seq(Bytes)
    BY <1>1, StreamTypes
  <2>2. buffer[Peer(e)] \o pipe[Peer(e)] \o <<>> = buffer[Peer(e)] \o pipe[Peer(e)]
    BY <1>2, <2>1, ConcatProperties, ConcatEmptySeq
  <2>3. /\ buffer'[Peer(e)] = buffer[Peer(e)] /\ pipe'[Peer(e)] = pipe[Peer(e)]
        /\ data'[Peer(Peer(e))] = <<>>
    BY <1>1, <1>3
  <2> QED BY <2>2, <2>3 DEF Stream
<1>5. Stream(Peer(e)) = buffer[Peer(e)] \o pipe[Peer(e)] \o data[e]
  BY <1>1 DEF Stream
<1>6. TypeOK'
  <2>1. at' \in [Ends -> {"idle", "send", "header", "payload", "closed"}]
        /\ at'["server"] # "idle"
    BY DEF Close, TypeOK, Ends
  <2>2. data' \in [Ends -> Seq(Bytes)]
    BY <1>2 DEF Close, TypeOK
  <2>3. buffer' \in [Ends -> Seq(Bytes)]
    BY <1>2 DEF Close, TypeOK
  <2>4. pipe' \in [Ends -> Seq(Bytes)]
    BY <1>2 DEF Close, TypeOK
  <2>5. UNCHANGED <<header, asked, calls, done>>
    BY DEF Close
  <2> QED BY <2>1, <2>2, <2>3, <2>4, <2>5 DEF TypeOK
<1> QED BY <1>3, <1>4, <1>5, <1>6

-----------------------------------------------------------------------------
(* The invariant                                                           *)

LEMMA InitInv == Init => WireInv
<1> SUFFICES ASSUME Init PROVE WireInv
  OBVIOUS
<1>1. <<>> \in Seq(Bytes) /\ Len(<<>>) = 0 /\ <<>> \o <<>> \o <<>> = <<>>
  BY EmptySeq, ConcatEmptySeq
<1>2. TypeOK
  BY <1>1, FrameTypes DEF Init, TypeOK, Ends
<1>3. Bounded
  BY <1>1 DEF Init, Bounded, Ends, Wanted
<1>4. Numbered
  BY FrameTypes DEF Init, Numbered
<1>5. Stream("client") = <<>> /\ Stream("server") = <<>>
  BY <1>1, TwoEnds DEF Init, Stream, Ends
<1>6. ToServer
  BY <1>5, FrameTypes DEF Init, ToServer
<1>7. ToClient
  BY <1>5 DEF Init, ToClient, Stale
<1> QED BY <1>2, <1>3, <1>4, <1>6, <1>7 DEF WireInv

(* The stream to the server is empty between two calls, so it holds the    *)
(* new request alone. *)
LEMMA CallInv == ASSUME WireInv, Call PROVE WireInv'
<1> USE DEF WireInv
<1>1. /\ at["client"] = "idle" /\ calls < MaxCalls /\ calls' = calls + 1
      /\ UNCHANGED <<buffer, pipe, header, done>>
  BY DEF Call
<1>2. calls \in Nat /\ calls' \in 1 .. MaxCalls /\ done \in Nat
  BY <1>1 DEF TypeOK
<1>3. asked.id = done /\ done <= calls /\ asked.id \in Nat
  BY <1>1, <1>2, FrameTypes DEF Numbered, TypeOK
<1>4. CASE UNCHANGED <<asked, data, at>>
  <2>1. TypeOK'
    BY <1>1, <1>2, <1>4 DEF TypeOK
  <2>2. Bounded'
    BY <1>1, <1>4 DEF Bounded, Wanted
  <2>3. Numbered'
    BY <1>1, <1>2, <1>3, <1>4 DEF Numbered
  <2>4. ToServer'
    BY <1>1, <1>4 DEF ToServer, Stream
  <2>5. ToClient'
    BY <1>1, <1>4 DEF ToClient, Stream
  <2> QED BY <2>1, <2>2, <2>3, <2>4, <2>5
<1>5. ASSUME NEW s \in RequestSizes,
             asked' = Frame("client", calls + 1, s),
             data' = [data EXCEPT !["client"] = encode_frame(asked')],
             at' = [at EXCEPT !["client"] = "send"]
      PROVE  WireInv'
  <2>1. asked' \in Frames /\ asked'.from = "client" /\ asked'.id = calls + 1
    BY <1>1, <1>2, <1>5, FrameTypes
  <2>2. /\ encode_frame(asked') \in Seq(Bytes) /\ encode_frame(asked') # <<>>
        /\ Part(encode_frame(asked'), asked', 0)
    BY <2>1, FrameBytes
  <2>3. TypeOK'
    <3>1. at' \in [Ends -> {"idle", "send", "header", "payload", "closed"}]
          /\ at'["server"] # "idle"
      BY <1>5 DEF TypeOK, Ends
    <3>2. data' \in [Ends -> Seq(Bytes)]
      BY <1>5, <2>2 DEF TypeOK
    <3> QED BY <1>1, <1>2, <2>1, <3>1, <3>2 DEF TypeOK
  <2>4. /\ at'["client"] = "send" /\ at'["server"] = at["server"]
        /\ data'["client"] = encode_frame(asked') /\ data'["server"] = data["server"]
    BY <1>5 DEF TypeOK, Ends
  <2>5. Bounded'
    BY <1>1, <2>2, <2>4 DEF Bounded, Wanted, Ends
  <2>6. Numbered'
    BY <1>1, <1>2, <1>3, <2>1, <2>4 DEF Numbered
  <2>7. ToServer'
    <3> SUFFICES ASSUME at["server"] # "closed" PROVE ToServer'
      BY <2>4 DEF ToServer
    <3>1. at["server"] # "payload" /\ Stream("server") = <<>>
      BY <1>3 DEF ToServer
    <3>2. buffer["server"] = <<>> /\ pipe["server"] = <<>>
      <4>1. Len(Stream("server")) = 0
        BY <3>1, EmptySeq
      <4>2. /\ Len(buffer["server"]) = 0 => buffer["server"] = <<>>
            /\ Len(pipe["server"]) = 0 => pipe["server"] = <<>>
            /\ Len(buffer["server"]) \in Nat /\ Len(pipe["server"]) \in Nat
            /\ Len(data["client"]) \in Nat
            /\ Len(Stream("server")) = Len(buffer["server"])
                    + Len(pipe["server"]) + Len(data["client"])
        BY StreamLength, TwoEnds DEF Ends
      <4>3. Len(buffer["server"]) = 0 /\ Len(pipe["server"]) = 0
        <5>1. ASSUME NEW b \in Nat, NEW p \in Nat, NEW d \in Nat, b + p + d = 0
              PROVE  b = 0 /\ p = 0
          BY <5>1
        <5> QED BY <4>1, <4>2, <5>1
      <4> QED BY <4>2, <4>3, Zenon
    <3>3. Stream("server")' = encode_frame(asked')
      BY <1>1, <2>2, <2>4, <3>2, TwoEnds, ConcatEmptySeq, EmptySeq DEF Stream
    <3>4. asked'.id # done'
      BY <1>1, <1>2, <1>3, <2>1
    <3> QED BY <2>2, <2>4, <3>1, <3>3, <3>4 DEF ToServer
  <2>8. ToClient'
    <3>1. Stream("client")' = Stream("client")
      BY <1>1, <2>4, TwoEnds DEF Stream
    <3> QED BY <1>1, <2>4, <3>1 DEF ToClient
  <2> QED BY <2>3, <2>5, <2>6, <2>7, <2>8
<1> QED BY <1>4, <1>5 DEF Call

LEMMA SendInv == ASSUME WireInv, NEW e \in Ends, Send(e) PROVE WireInv'
<1> USE DEF WireInv
<1>1. at[e] = "send" /\ UNCHANGED <<buffer, header, asked, calls, done>>
  BY DEF Send
<1>2. /\ pipe' \in [Ends -> Seq(Bytes)] /\ data' \in [Ends -> Seq(Bytes)]
      /\ \A x \in Ends : Stream(x)' = Stream(x)
      /\ \A x \in Ends \ {e} : data'[x] = data[x]
      /\ \/ data'[e] = <<>> /\ at' = [at EXCEPT ![e] = "header"]
         \/ data'[e] # <<>> /\ at' = at
  BY SendStreams
<1>3. /\ \/ at'[e] = "header" /\ data'[e] = <<>>
         \/ at'[e] = "send" /\ data'[e] # <<>>
      /\ \A x \in Ends \ {e} : at'[x] = at[x]
      /\ at' \in [Ends -> {"idle", "send", "header", "payload", "closed"}]
      /\ at'["server"] # "idle"
  <2>1. /\ at \in [Ends -> {"idle", "send", "header", "payload", "closed"}]
        /\ at["server"] # "idle" /\ "server" \in Ends
    BY DEF TypeOK, Ends
  <2>2. CASE data'[e] = <<>> /\ at' = [at EXCEPT ![e] = "header"]
    BY <2>1, <2>2
  <2>3. CASE data'[e] # <<>> /\ at' = at
    BY <1>1, <2>1, <2>3
  <2> QED BY <1>2, <2>2, <2>3
<1>4. TypeOK'
  BY <1>1, <1>2, <1>3 DEF TypeOK
<1>5. Bounded'
  <2> SUFFICES ASSUME NEW x \in Ends
               PROVE  /\ at'[x] # "send" <=> data'[x] = <<>>
                      /\ at'[x] \in {"idle", "send"} => buffer'[x] = <<>>
                      /\ at'[x] \in {"header", "payload"} =>
                            Len(buffer'[x]) <= Wanted(x)'
    BY DEF Bounded
  <2>1. CASE x # e
    BY <1>1, <1>2, <1>3, <2>1 DEF Bounded, Wanted
  <2>2. CASE x = e
    <3>1. buffer'[e] = <<>> /\ Len(<<>>) = 0
      BY <1>1, EmptySeq DEF Bounded
    <3> QED BY <1>3, <2>2, <3>1 DEF Wanted
  <2> QED BY <2>1, <2>2
<1>6. Numbered'
  BY <1>1, <1>3 DEF Numbered, Ends
<1>7. Stream("client")' = Stream("client") /\ Stream("server")' = Stream("server")
  BY <1>2 DEF Ends
<1>8. /\ at'["server"] = "closed" <=> at["server"] = "closed"
      /\ at'["server"] = "payload" <=> at["server"] = "payload"
      /\ at'["client"] = "payload" <=> at["client"] = "payload"
      /\ at'["client"] = at["client"] \/ at["client"] = "send"
      /\ at["client"] = "header" => at'["client"] = "header"
  BY <1>1, <1>3 DEF Ends
<1>9. ToServer'
  BY <1>1, <1>7, <1>8 DEF ToServer
<1>10. ToClient'
  BY <1>1, <1>7, <1>8 DEF ToClient
<1> QED BY <1>4, <1>5, <1>6, <1>9, <1>10

LEMMA RecvInv == ASSUME WireInv, NEW e \in Ends, Recv(e) PROVE WireInv'
<1> USE DEF WireInv
<1>1. /\ at[e] \in {"header", "payload"}
      /\ UNCHANGED <<at, data, header, asked, calls, done>>
  BY DEF Recv, Reading
<1>2. /\ buffer' \in [Ends -> Seq(Bytes)] /\ pipe' \in [Ends -> Seq(Bytes)]
      /\ \A x \in Ends : Stream(x)' = Stream(x)
      /\ \A x \in Ends \ {e} : buffer'[x] = buffer[x]
      /\ Len(buffer'[e]) <= Wanted(e)
  BY RecvStreams
<1>3. TypeOK'
  BY <1>1, <1>2 DEF TypeOK
<1>4. Bounded'
  BY <1>1, <1>2 DEF Bounded, Wanted
<1>5. Numbered'
  BY <1>1 DEF Numbered
<1>6. Stream("client")' = Stream("client") /\ Stream("server")' = Stream("server")
  BY <1>2 DEF Ends
<1>7. ToServer'
  BY <1>1, <1>6 DEF ToServer
<1>8. ToClient'
  BY <1>1, <1>6 DEF ToClient
<1> QED BY <1>3, <1>4, <1>5, <1>7, <1>8

(* A stream that is cut off is a beginning of what it was.                 *)
LEMMA CloseInv == ASSUME WireInv, NEW e \in Ends, Close(e) PROVE WireInv'
<1> USE DEF WireInv
<1>1. UNCHANGED <<header, asked, calls, done>>
  BY DEF Close
<1>2. /\ TypeOK'
      /\ Stream(Peer(e)) = Stream(Peer(e))' \o data[e]
      /\ at'[e] = "closed" /\ data'[e] = <<>> /\ buffer'[e] = <<>>
      /\ \A x \in Ends \ {e} : at'[x] = at[x] /\ data'[x] = data[x]
                               /\ buffer'[x] = buffer[x]
  BY CloseStreams
<1>3. Bounded'
  BY <1>1, <1>2 DEF Bounded, Wanted
<1>4. Numbered'
  BY <1>1, <1>2 DEF Numbered, Ends
<1>5. Stream(Peer(e))' \in Seq(Bytes) /\ data[e] \in Seq(Bytes)
  <2>1. \A x \in Ends : data'[x] \in Seq(Bytes) /\ buffer'[x] \in Seq(Bytes)
                        /\ pipe'[x] \in Seq(Bytes)
    BY <1>2 DEF TypeOK
  <2>2. Peer(e) \in Ends /\ Peer(Peer(e)) \in Ends
    BY TwoEnds
  <2> QED BY <2>1, <2>2, StreamTypes, ConcatProperties DEF Stream
<1>6. CASE e = "client"
  <2>1. /\ Stream("server") = Stream("server")' \o data["client"]
        /\ Stream("server")' \in Seq(Bytes) /\ data["client"] \in Seq(Bytes)
        /\ at'["client"] = "closed" /\ at'["server"] = at["server"]
    BY <1>2, <1>5, <1>6, TwoEnds DEF Ends
  <2>2. ToClient'
    BY <2>1 DEF ToClient
  <2>3. ToServer'
    <3>1. Stream("server") = <<>> => Stream("server")' = <<>>
      <4>1. Len(Stream("server")) = Len(Stream("server")') + Len(data["client"])
        BY <2>1, ConcatProperties
      <4> QED BY <2>1, <4>1, EmptySeq, LenProperties
    <3>2. ASSUME NEW k \in Nat, Part(Stream("server"), asked, k)
          PROVE  Part(Stream("server")', asked, k)
      BY <2>1, <3>2, PartPrefix DEF TypeOK
    <3> QED BY <1>1, <2>1, <3>1, <3>2 DEF ToServer
  <2> QED BY <1>2, <1>3, <1>4, <2>2, <2>3
<1>7. CASE e = "server"
  <2>1. /\ Stream("client") = Stream("client")' \o data["server"]
        /\ Stream("client")' \in Seq(Bytes) /\ data["server"] \in Seq(Bytes)
        /\ at'["server"] = "closed" /\ at'["client"] = at["client"]
    BY <1>2, <1>5, <1>7, TwoEnds DEF Ends
  <2>2. ToServer'
    BY <2>1 DEF ToServer
  <2>3. Stale(Stream("client")) => Stale(Stream("client")')
    BY <2>1, StalePrefix
  <2>4. ASSUME NEW f \in Frames, NEW k \in Nat, Part(Stream("client"), f, k)
        PROVE  Part(Stream("client")', f, k)
    BY <2>1, <2>4, PartPrefix
  <2>5. ASSUME at["client"] \in {"idle", "send", "header"} PROVE ToClient'
    <3>1. ASSUME at["client"] = "header", asked.id = done,
                 NEW s \in ResponseSizes,
                 Part(Stream("client"), Frame("server", done, s), 0)
          PROVE  Part(Stream("client")', Frame("server", done, s), 0)
      <4>1. done \in 1 .. MaxCalls
        BY <3>1 DEF Numbered, TypeOK
      <4>2. Frame("server", done, s) \in Frames
        BY <4>1, FrameTypes
      <4> QED BY <3>1, <4>2, <2>4
    <3>2. \/ Stale(Stream("client"))
          \/ /\ at["client"] = "header" /\ asked.id = done
             /\ \E s \in ResponseSizes :
                   Part(Stream("client"), Frame("server", done, s), 0)
      BY <2>5 DEF ToClient
    <3>3. \/ Stale(Stream("client")')
          \/ /\ at["client"] = "header" /\ asked.id = done
             /\ \E s \in ResponseSizes :
                   Part(Stream("client")', Frame("server", done, s), 0)
      BY <2>3, <3>1, <3>2
    <3>4. at'["client"] # "payload" /\ at'["client"] = at["client"]
      BY <2>1, <2>5
    <3>5. asked' = asked /\ done' = done
      BY <1>1
    <3> QED BY <3>3, <3>4, <3>5 DEF ToClient
  <2>6. ASSUME at["client"] = "payload" PROVE ToClient'
    <3>1. header["client"] \in Frames
      BY DEF TypeOK, Ends
    <3>2. /\ \E s \in ResponseSizes : header["client"] = Frame("server", done, s)
          /\ Part(Stream("client"), header["client"], HeaderSize)
      BY <2>6 DEF ToClient
    <3>3. Part(Stream("client")', header["client"], HeaderSize)
      BY <2>4, <3>1, <3>2
    <3>4. at'["client"] \notin {"idle", "send", "header"}
      BY <2>1, <2>6
    <3>5. header' = header /\ done' = done
      BY <1>1
    <3> QED BY <3>2, <3>3, <3>4, <3>5 DEF ToClient
  <2>7. ToClient'
    <3>1. CASE at["client"] \notin {"idle", "send", "header", "payload"}
      BY <2>1, <3>1 DEF ToClient
    <3> QED BY <2>5, <2>6, <3>1
  <2> QED BY <1>2, <1>3, <1>4, <2>2, <2>7
<1> QED BY <1>6, <1>7 DEF Ends

(* A whole header is at the beginning of the stream, or of what is left of *)
(* a payload. *)
LEMMA HeaderOfStream ==
    ASSUME WireInv, NEW e \in Ends, at[e] = "header", Len(buffer[e]) >= HeaderSize,
           NEW f \in decode_header(buffer[e]), Expected(e, f)
    PROVE  /\ f \in Frames /\ Part(pipe[e] \o data[Peer(e)], f, HeaderSize)
           /\ e = "server" => asked.id # done /\ f = asked
           /\ e = "client" => \E s \in ResponseSizes : f = Frame("server", done, s)
<1> USE DEF WireInv
<1>1. /\ buffer[e] \in Seq(Bytes) /\ pipe[e] \in Seq(Bytes)
      /\ data[Peer(e)] \in Seq(Bytes) /\ Peer(e) \in Ends
  BY StreamTypes, TwoEnds
<1>2. Len(buffer[e]) = HeaderSize
  <2>1. Len(buffer[e]) <= HeaderSize
    BY DEF Bounded, Wanted
  <2> QED BY <1>1, <2>1, LenProperties
<1>3. /\ pipe[e] \o data[Peer(e)] \in Seq(Bytes)
      /\ Stream(e) = buffer[e] \o (pipe[e] \o data[Peer(e)])
  <2>1. pipe[e] \o data[Peer(e)] \in Seq(Bytes)
    BY <1>1, ConcatProperties
  <2>2. ASSUME NEW s \in Seq(Bytes), NEW p \in Seq(Bytes), NEW d \in Seq(Bytes)
        PROVE  s \o p \o d = s \o (p \o d)
    BY Regrouped
  <2>3. buffer[e] \o pipe[e] \o data[Peer(e)] = buffer[e] \o (pipe[e] \o data[Peer(e)])
    BY <1>1, <2>2
  <2> QED BY <2>1, <2>3, Zenon DEF Stream
<1>4. ASSUME NEW g \in Frames, Part(Stream(e), g, 0)
      PROVE  f = g /\ Part(pipe[e] \o data[Peer(e)], g, HeaderSize)
  <2>1. buffer[e] = HeaderOf(g) /\ Part(pipe[e] \o data[Peer(e)], g, HeaderSize)
    BY <1>1, <1>2, <1>3, <1>4, PartSuffix
  <2> QED BY <2>1, DecodeHeader
<1>5. ~Stale(Stream(e))
  <2> SUFFICES ASSUME Stale(Stream(e)) PROVE FALSE
    OBVIOUS
  <2>1. Stale(buffer[e])
    BY <1>1, <1>3, StalePrefix
  <2> QED BY <1>1, <1>2, <2>1, DecodeStale
<1>6. CASE e = "server"
  <2>1. Stream(e) # <<>>
    BY <1>5 DEF Stale
  <2>2. asked.id # done /\ Part(Stream(e), asked, 0)
    BY <1>6, <2>1 DEF ToServer
  <2> QED BY <1>4, <1>6, <2>2 DEF TypeOK
<1>7. CASE e = "client"
  <2>1. PICK s \in ResponseSizes :
            asked.id = done /\ Part(Stream("client"), Frame("server", done, s), 0)
    BY <1>5, <1>7 DEF ToClient
  <2>2. done \in 1 .. MaxCalls
    BY <1>7, <2>1 DEF Numbered, TypeOK
  <2>3. Frame("server", done, s) \in Frames
    BY <2>2, FrameTypes
  <2> QED BY <1>4, <1>7, <2>1, <2>3
<1> QED BY <1>6, <1>7 DEF Ends

LEMMA HeaderReadInv == ASSUME WireInv, NEW e \in Ends, HeaderRead(e) PROVE WireInv'
<1> USE DEF WireInv
<1>1. at[e] = "header" /\ Len(buffer[e]) >= HeaderSize
  BY DEF HeaderRead
<1>2. CASE Close(e)
  BY <1>2, CloseInv
<1>3. ASSUME NEW f \in decode_header(buffer[e]), Expected(e, f),
             header' = [header EXCEPT ![e] = f],
             at' = [at EXCEPT ![e] = "payload"],
             buffer' = [buffer EXCEPT ![e] = <<>>],
             UNCHANGED <<data, pipe, asked, calls, done>>
      PROVE  WireInv'
  <2>1. /\ f \in Frames /\ Part(pipe[e] \o data[Peer(e)], f, HeaderSize)
        /\ e = "server" => asked.id # done /\ f = asked
        /\ e = "client" => \E s \in ResponseSizes : f = Frame("server", done, s)
    BY <1>1, <1>3, HeaderOfStream
  <2>2. /\ header'[e] = f /\ at'[e] = "payload" /\ buffer'[e] = <<>>
        /\ \A x \in Ends \ {e} : header'[x] = header[x] /\ at'[x] = at[x]
                                 /\ buffer'[x] = buffer[x]
        /\ data' = data /\ pipe' = pipe /\ asked' = asked /\ calls' = calls
        /\ done' = done
    BY <1>3 DEF TypeOK
  <2>3. TypeOK'
    <3>1. at' \in [Ends -> {"idle", "send", "header", "payload", "closed"}]
          /\ at'["server"] # "idle"
      BY <1>3 DEF TypeOK, Ends
    <3>2. buffer' \in [Ends -> Seq(Bytes)]
      BY <1>3, EmptySeq DEF TypeOK
    <3>3. header' \in [Ends -> Frames]
      BY <1>3, <2>1 DEF TypeOK
    <3> QED BY <2>2, <3>1, <3>2, <3>3 DEF TypeOK
  <2>4. Bounded'
    <3>1. data[e] = <<>>
      BY <1>1 DEF Bounded
    <3>2. Len(buffer'[e]) = 0 /\ f.size \in Nat
      BY <2>1, <2>2, EmptySeq, FrameTypes
    <3>3. ASSUME NEW x \in Ends
          PROVE  /\ at'[x] # "send" <=> data'[x] = <<>>
                 /\ at'[x] \in {"idle", "send"} => buffer'[x] = <<>>
                 /\ at'[x] \in {"header", "payload"} =>
                       Len(buffer'[x]) <= Wanted(x)'
      <4>1. CASE x # e
        BY <2>2, <4>1 DEF Bounded, Wanted
      <4>2. CASE x = e
        BY <2>2, <3>1, <3>2, <4>2 DEF Wanted
      <4> QED BY <4>1, <4>2
    <3> QED BY <3>3 DEF Bounded
  <2>5. Stream(e)' = pipe[e] \o data[Peer(e)]
    <3>1. Stream(e)' = <<>> \o pipe[e] \o data[Peer(e)]
      BY <2>2 DEF Stream
    <3>2. <<>> \o pipe[e] = pipe[e]
      BY StreamTypes, ConcatEmptySeq
    <3> QED BY <3>1, <3>2
  <2>6. \A x \in Ends \ {e} : Stream(x)' = Stream(x)
    BY <2>2 DEF Stream
  <2>7. CASE e = "server"
    <3>1. /\ at["server"] = "header" /\ at'["server"] = "payload"
          /\ header'["server"] = asked /\ asked.id # done
          /\ Part(Stream("server")', asked, HeaderSize)
      BY <1>1, <2>1, <2>2, <2>5, <2>7
    <3>2. /\ at'["client"] = at["client"] /\ header'["client"] = header["client"]
          /\ Stream("client")' = Stream("client")
      BY <2>2, <2>6, <2>7 DEF Ends
    <3>3. Numbered'
      BY <2>2, <3>2 DEF Numbered
    <3>4. ToServer'
      BY <2>2, <3>1 DEF ToServer
    <3>5. ToClient'
      BY <2>2, <3>2 DEF ToClient
    <3> QED BY <2>3, <2>4, <3>3, <3>4, <3>5
  <2>8. CASE e = "client"
    <3>1. PICK s \in ResponseSizes : f = Frame("server", done, s)
      BY <2>1, <2>8
    <3>2. /\ at["client"] = "header" /\ at'["client"] = "payload"
          /\ header'["client"] = f /\ Part(Stream("client")', f, HeaderSize)
      BY <1>1, <2>1, <2>2, <2>5, <2>8
    <3>3. /\ at'["server"] = at["server"] /\ header'["server"] = header["server"]
          /\ Stream("server")' = Stream("server")
      BY <2>2, <2>6, <2>8 DEF Ends
    <3>4. f.id = asked.id /\ f.id = done
      <4>1. done \in 1 .. MaxCalls
        <5>1. f.from = "server" /\ f.id = done
          BY <1>3, <2>8, <3>1, TwoEnds DEF Expected, Frame
        <5> QED BY <2>1, <5>1 DEF Frames
      <4> QED BY <1>3, <2>8, <3>1, <4>1, FrameTypes DEF Expected
    <3>5. Numbered'
      BY <2>2, <3>2, <3>4 DEF Numbered
    <3>6. ToServer'
      BY <2>2, <3>3 DEF ToServer
    <3>7. ToClient'
      BY <2>2, <3>1, <3>2 DEF ToClient
    <3> QED BY <2>3, <2>4, <3>5, <3>6, <3>7
  <2> QED BY <2>7, <2>8 DEF Ends
<1> QED BY <1>2, <1>3 DEF HeaderRead, GiveUp

(* What is complete has nothing behind it.                                 *)
LEMMA CompleteAlone ==
    ASSUME WireInv, NEW e \in Ends, Complete(e), NEW f \in Frames,
           header[e] = f, Part(Stream(e), f, HeaderSize)
    PROVE  pipe[e] = <<>> /\ data[Peer(e)] = <<>>
<1>1. /\ Len(Stream(e)) = Len(buffer[e]) + Len(pipe[e]) + Len(data[Peer(e)])
      /\ Len(buffer[e]) \in Nat /\ Len(pipe[e]) \in Nat
      /\ Len(data[Peer(e)]) \in Nat
      /\ Len(pipe[e]) = 0 => pipe[e] = <<>>
      /\ Len(data[Peer(e)]) = 0 => data[Peer(e)] = <<>>
  BY StreamLength DEF WireInv
<1>2. f.size \in Nat /\ Len(Stream(e)) <= HeaderSize + f.size - HeaderSize
  BY FrameTypes DEF Part
<1>3. Len(buffer[e]) >= f.size
  BY DEF Complete
<1>4. Len(pipe[e]) = 0 /\ Len(data[Peer(e)]) = 0
  <2>1. ASSUME NEW l \in Nat, NEW b \in Nat, NEW p \in Nat, NEW d \in Nat,
               NEW z \in Nat, l = b + p + d, l <= HeaderSize + z - HeaderSize,
               b >= z
        PROVE  p = 0 /\ d = 0
    BY <2>1
  <2>2. Len(Stream(e)) \in Nat
    BY StreamTypes, LenProperties DEF WireInv
  <2> QED BY <1>1, <1>2, <1>3, <2>1, <2>2
<1> QED BY <1>1, <1>4

LEMMA ReturnInv == ASSUME WireInv, Return PROVE WireInv'
<1> USE DEF WireInv
<1>1. /\ at["client"] = "payload" /\ Complete("client")
      /\ at' = [at EXCEPT !["client"] = "idle"]
      /\ buffer' = [buffer EXCEPT !["client"] = <<>>]
      /\ UNCHANGED <<data, pipe, header, asked, calls, done>>
  BY DEF Return, Complete
<1>2. /\ at'["client"] = "idle" /\ at'["server"] = at["server"]
      /\ buffer'["client"] = <<>> /\ buffer'["server"] = buffer["server"]
  BY <1>1 DEF TypeOK, Ends
<1>3. TypeOK'
  <2>1. at' \in [Ends -> {"idle", "send", "header", "payload", "closed"}]
        /\ at'["server"] # "idle"
    BY <1>1 DEF TypeOK, Ends
  <2>2. buffer' \in [Ends -> Seq(Bytes)]
    BY <1>1, EmptySeq DEF TypeOK
  <2> QED BY <1>1, <2>1, <2>2 DEF TypeOK
<1>4. Bounded'
  BY <1>1, <1>2 DEF Bounded, Wanted, Ends
<1>5. Numbered'
  BY <1>1, <1>2 DEF Numbered
<1>6. Stream("server")' = Stream("server")
  BY <1>1, <1>2 DEF Stream
<1>7. ToServer'
  BY <1>1, <1>2, <1>6 DEF ToServer
<1>8. Stream("client")' = <<>>
  <2>1. header["client"] \in Frames /\ Part(Stream("client"), header["client"], HeaderSize)
    BY <1>1 DEF ToClient, TypeOK, Ends
  <2>2. pipe["client"] = <<>> /\ data[Peer("client")] = <<>>
    BY <1>1, <2>1, CompleteAlone DEF Ends
  <2>3. <<>> \o <<>> \o <<>> = <<>>
    BY EmptySeq, ConcatEmptySeq
  <2> QED BY <1>1, <1>2, <2>2, <2>3 DEF Stream
<1>9. ToClient'
  BY <1>2, <1>8 DEF ToClient, Stale
<1> QED BY <1>3, <1>4, <1>5, <1>7, <1>9

LEMMA NoMemoryInv == ASSUME WireInv, NoMemory PROVE WireInv'
<1> USE DEF WireInv
<1>1. /\ at["client"] = "payload" /\ buffer["client"] = <<>>
      /\ at' = [at EXCEPT !["client"] = "idle"]
      /\ UNCHANGED <<data, buffer, pipe, header, asked, calls, done>>
  BY DEF NoMemory
<1>2. at'["client"] = "idle" /\ at'["server"] = at["server"]
  BY <1>1 DEF TypeOK, Ends
<1>3. TypeOK'
  <2>1. at' \in [Ends -> {"idle", "send", "header", "payload", "closed"}]
        /\ at'["server"] # "idle"
    BY <1>1 DEF TypeOK, Ends
  <2> QED BY <1>1, <2>1 DEF TypeOK
<1>4. Bounded'
  BY <1>1, <1>2 DEF Bounded, Wanted, Ends
<1>5. Numbered'
  BY <1>1, <1>2 DEF Numbered
<1>6. Stream("server")' = Stream("server") /\ Stream("client")' = Stream("client")
  BY <1>1 DEF Stream
<1>7. ToServer'
  BY <1>1, <1>2, <1>6 DEF ToServer
<1>8. Stale(Stream("client"))
  <2>1. header["client"] \in Frames /\ Part(Stream("client"), header["client"], HeaderSize)
    BY <1>1 DEF ToClient, TypeOK, Ends
  <2>2. Stream("client") \in Seq(Bytes)
    BY StreamTypes DEF Ends
  <2> QED BY <2>1, <2>2, PayloadIsStale
<1>9. ToClient'
  BY <1>2, <1>6, <1>8 DEF ToClient
<1> QED BY <1>3, <1>4, <1>5, <1>7, <1>9

(* A request is carried out while its client waits for the answer, or has  *)
(* left. *)
LEMMA ExecuteFacts ==
    ASSUME WireInv, Execute
    PROVE  /\ at["server"] = "payload" /\ asked.id # done
           /\ header["server"] = asked /\ done' = asked.id
           /\ asked.id \in 1 .. MaxCalls /\ calls \in Nat /\ asked.id <= calls
           /\ pipe["server"] = <<>> /\ data["client"] = <<>>
           /\ at["client"] \in {"header", "closed"}
<1> USE DEF WireInv
<1>1. at["server"] = "payload" /\ Complete("server")
  BY DEF Execute, Complete
<1>2. /\ asked.id # done /\ header["server"] = asked
      /\ Part(Stream("server"), asked, HeaderSize)
  BY <1>1 DEF ToServer
<1>3. done' = asked.id
  BY <1>2 DEF Execute
<1>4. asked.id \in 1 .. MaxCalls /\ calls \in Nat /\ asked.id <= calls
  BY <1>2, FrameTypes DEF Numbered, TypeOK
<1>5. pipe["server"] = <<>> /\ data["client"] = <<>>
  BY <1>1, <1>2, CompleteAlone, TwoEnds DEF TypeOK, Ends
<1>6. at["client"] \in {"idle", "send", "header", "payload", "closed"}
  BY DEF TypeOK, Ends
<1>7. at["client"] # "send"
  BY <1>5 DEF Bounded, Ends
<1>8. at["client"] \notin {"idle", "payload"}
  BY <1>2 DEF Numbered
<1> QED BY <1>1, <1>2, <1>3, <1>4, <1>5, <1>6, <1>7, <1>8

LEMMA ExecuteInv == ASSUME WireInv, Execute PROVE WireInv'
<1> USE DEF WireInv
<1>1. /\ at["server"] = "payload" /\ asked.id # done
      /\ header["server"] = asked /\ done' = asked.id
      /\ asked.id \in 1 .. MaxCalls /\ calls \in Nat /\ asked.id <= calls
      /\ pipe["server"] = <<>> /\ data["client"] = <<>>
      /\ at["client"] \in {"header", "closed"}
  BY ExecuteFacts
<1>2. PICK s \in ResponseSizes :
        data' = [data EXCEPT !["server"] = encode_frame(Frame("server", done', s))]
  BY DEF Execute
<1>3. /\ at' = [at EXCEPT !["server"] = "send"]
      /\ buffer' = [buffer EXCEPT !["server"] = <<>>]
      /\ pipe' = pipe /\ header' = header /\ asked' = asked /\ calls' = calls
  BY DEF Execute
<1> DEFINE f == Frame("server", done', s)
<1>4. f \in Frames
  BY <1>1, FrameTypes
<1>5. encode_frame(f) \in Seq(Bytes) /\ encode_frame(f) # <<>> /\ Part(encode_frame(f), f, 0)
  BY <1>4, FrameBytes
<1>6. /\ at'["server"] = "send" /\ at'["client"] = at["client"]
      /\ buffer'["server"] = <<>> /\ buffer'["client"] = buffer["client"]
      /\ data'["server"] = encode_frame(f) /\ data'["client"] = data["client"]
  BY <1>2, <1>3 DEF TypeOK, Ends
<1>7. TypeOK'
  <2>1. at' \in [Ends -> {"idle", "send", "header", "payload", "closed"}]
        /\ at'["server"] # "idle"
    BY <1>3 DEF TypeOK, Ends
  <2>2. buffer' \in [Ends -> Seq(Bytes)]
    BY <1>3, EmptySeq DEF TypeOK
  <2>3. data' \in [Ends -> Seq(Bytes)]
    BY <1>2, <1>5 DEF TypeOK
  <2>4. done' \in Nat
    BY <1>1
  <2> QED BY <1>3, <2>1, <2>2, <2>3, <2>4 DEF TypeOK
<1>8. Bounded'
  BY <1>3, <1>5, <1>6 DEF Bounded, Wanted, Ends
<1>9. Numbered'
  BY <1>1, <1>3, <1>6 DEF Numbered
<1>10. ToServer'
  <2>1. <<>> \o <<>> \o <<>> = <<>>
    BY EmptySeq, ConcatEmptySeq
  <2>2. Stream("server")' = <<>>
    BY <1>1, <1>3, <1>6, <2>1, TwoEnds DEF Stream
  <2> QED BY <1>1, <1>3, <1>6, <2>2 DEF ToServer
<1>11. ToClient'
  <2> SUFFICES ASSUME at["client"] = "header"
               PROVE  \/ Stale(Stream("client")')
                      \/ Part(Stream("client")', f, 0)
    BY <1>1, <1>3, <1>6 DEF ToClient
  <2>1. Stale(Stream("client"))
    BY <1>1 DEF ToClient
  <2>2. data["server"] = <<>>
    BY <1>1 DEF Bounded, Ends
  <2>3. buffer["client"] \in Seq(Bytes) /\ pipe["client"] \in Seq(Bytes)
    BY StreamTypes DEF Ends
  <2> DEFINE old == buffer["client"] \o pipe["client"]
  <2>4. old \in Seq(Bytes)
    BY <2>3, ConcatProperties
  <2>5. Stream("client") = old
    <3>1. old \o <<>> = old
      BY <2>4, ConcatEmptySeq
    <3> QED BY <2>2, <3>1, TwoEnds DEF Stream
  <2>6. Stream("client")' = old \o encode_frame(f)
    BY <1>3, <1>6, TwoEnds DEF Stream
  <2>7. CASE old = <<>>
    <3>1. old \o encode_frame(f) = encode_frame(f)
      BY <1>5, <2>7, ConcatEmptySeq
    <3> QED BY <1>5, <2>6, <3>1
  <2>8. CASE old # <<>>
    <3>1. Stale(old \o encode_frame(f))
      BY <1>5, <2>1, <2>4, <2>5, <2>8, StaleAppended
    <3> QED BY <2>6, <3>1
  <2> QED BY <2>7, <2>8
<1> QED BY <1>7, <1>8, <1>9, <1>10, <1>11

LEMMA StepInv == WireInv /\ [Next]_vars => WireInv'
<1> SUFFICES ASSUME WireInv, [Next]_vars PROVE WireInv'
  OBVIOUS
<1>1. CASE Call
  BY <1>1, CallInv
<1>2. ASSUME NEW e \in Ends, Io(e) PROVE WireInv'
  <2>1. CASE Close(e)
    BY <2>1, CloseInv
  <2>2. CASE Send(e)
    BY <2>2, SendInv
  <2>3. CASE Recv(e)
    BY <2>3, RecvInv
  <2>4. CASE HeaderRead(e)
    BY <2>4, HeaderReadInv
  <2> QED BY <1>2, <2>1, <2>2, <2>3, <2>4 DEF Io, SendFails, RecvFails, GiveUp
<1>3. CASE Return
  BY <1>3, ReturnInv
<1>4. CASE NoMemory
  BY <1>4, NoMemoryInv
<1>5. CASE Execute
  BY <1>5, ExecuteInv
<1>6. CASE Destroy \/ SessionEnds
  BY <1>6, CloseInv DEF Destroy, SessionEnds, Ends
<1>7. CASE UNCHANGED vars
  BY <1>7 DEF vars, WireInv, TypeOK, Bounded, Wanted, Numbered, ToServer,
              ToClient, Stream
<1>8. "client" \in Ends /\ "server" \in Ends
  BY DEF Ends
<1> QED BY <1>1, <1>2, <1>3, <1>4, <1>5, <1>6, <1>7, <1>8
        DEF Next, ClientWork, ServerWork

LEMMA Invariance == Spec => []WireInv
BY InitInv, StepInv, PTL DEF Spec

(* Ends, frames and bytes stay of their types: a client never reads a      *)
(* header that is no response, a server none that is no request.           *)
THEOREM TypeCorrect == Spec => []TypeOK
<1>1. WireInv => TypeOK
  BY DEF WireInv
<1> QED BY <1>1, Invariance, PTL

(* Whatever was cut off, given up or left unread before on the connection, *)
(* the payload that read_all collects is a beginning of the one that       *)
(* belongs to the header before it, and a client reads the answer to its   *)
(* last call and to no other. *)
THEOREM FramesAreWhole == Spec => []Framed
<1>1. WireInv => Framed
  <2> SUFFICES ASSUME WireInv, NEW e \in Ends, at[e] = "payload"
               PROVE  /\ header[e].from = Peer(e)
                      /\ buffer[e] = Take(PayloadOf(header[e]), Len(buffer[e]))
                      /\ e = "client" => done = calls
    BY DEF Framed
  <2> USE DEF WireInv
  <2>1. header[e] \in Frames /\ buffer[e] \in Seq(Bytes) /\ pipe[e] \in Seq(Bytes)
        /\ data[Peer(e)] \in Seq(Bytes)
    BY StreamTypes, TwoEnds DEF TypeOK
  <2>2. Part(Stream(e), header[e], HeaderSize) /\ header[e].from = Peer(e)
    <3>1. CASE e = "server"
      <4>1. header["server"] = asked /\ Part(Stream("server"), asked, HeaderSize)
        BY <3>1 DEF ToServer
      <4> QED BY <3>1, <4>1, TwoEnds DEF TypeOK
    <3>2. CASE e = "client"
      <4>1. PICK s \in ResponseSizes : header["client"] = Frame("server", done, s)
        BY <3>2 DEF ToClient
      <4>2. header["client"].from = "server"
        BY <4>1 DEF Frame
      <4> QED BY <3>2, <4>2, TwoEnds DEF ToClient
    <3> QED BY <3>1, <3>2 DEF Ends
  <2>3. Part(buffer[e], header[e], HeaderSize)
    <3>1. pipe[e] \o data[Peer(e)] \in Seq(Bytes)
      BY <2>1, ConcatProperties
    <3>2. buffer[e] \o pipe[e] \in Seq(Bytes)
      BY <2>1, ConcatProperties
    <3>3. Part(buffer[e] \o pipe[e], header[e], HeaderSize)
      BY <2>1, <2>2, <3>2, PartPrefix DEF Stream
    <3> QED BY <2>1, <3>3, PartPrefix
  <2>4. buffer[e] = Take(PayloadOf(header[e]), Len(buffer[e]))
    BY <2>1, <2>3, PartOfPayload
  <2>5. e = "client" => done = calls
    BY DEF Numbered
  <2> QED BY <2>2, <2>4, <2>5
<1> QED BY <1>1, Invariance, PTL

-----------------------------------------------------------------------------
(* The refinement of Exchange                                              *)

Handle == CASE at["client"] = "idle" -> "idle"
            [] at["client"] = "closed" -> "failed"
            [] OTHER -> "calling"
Pending == IF asked.id = done THEN 0 ELSE asked.id

(* The handle goes from idle to calling and back, or fails for good.       *)
LEMMA HandleValues ==
    /\ at["client"] = "idle" => Handle = "idle"
    /\ at["client"] = "closed" => Handle = "failed"
    /\ at["client"] \in {"send", "header", "payload"} => Handle = "calling"
BY DEF Handle

LEMMA HandleValuesNext ==
    /\ at'["client"] = "idle" => Handle' = "idle"
    /\ at'["client"] = "closed" => Handle' = "failed"
    /\ at'["client"] \in {"send", "header", "payload"} => Handle' = "calling"
BY DEF Handle

LEMMA CallExchanges ==
    ASSUME WireInv, Call
    PROVE  /\ Handle = "idle" /\ calls' = calls + 1 /\ done' = done
           /\ \/ Handle' = "calling" /\ Pending' = calls + 1
              \/ Handle' = Handle /\ Pending' = Pending
<1>1. /\ at["client"] = "idle" /\ calls' = calls + 1 /\ done' = done
  BY DEF Call
<1>2. asked.id = done /\ done <= calls /\ calls \in Nat /\ done \in Nat
  BY <1>1, FrameTypes DEF WireInv, Numbered, TypeOK
<1>3. ASSUME NEW s \in RequestSizes, asked' = Frame("client", calls + 1, s),
             at' = [at EXCEPT !["client"] = "send"]
      PROVE  Handle' = "calling" /\ Pending' = calls + 1
  <2>1. at'["client"] = "send" /\ asked'.id = calls + 1
    BY <1>3 DEF WireInv, TypeOK, Ends, Frame
  <2>2. calls + 1 # done
    BY <1>2
  <2> QED BY <1>1, <2>1, <2>2, HandleValuesNext DEF Pending
<1>4. CASE UNCHANGED <<asked, data, at>>
  BY <1>1, <1>4 DEF Handle, Pending
<1> QED BY <1>1, <1>3, <1>4, HandleValues DEF Call

(* The client is in a call while it sends or reads.                        *)
LEMMA MovesAreHidden ==
    ASSUME WireInv, NEW e \in Ends, Io(e), ~Close(e)
    PROVE  Handle' = Handle /\ Pending' = Pending /\ UNCHANGED <<calls, done>>
<1>1. UNCHANGED <<asked, calls, done>>
  BY DEF Io, SendFails, RecvFails, HeaderRead, GiveUp, Send, Recv
<1>2. /\ at[e] \in {"send", "header", "payload"}
      /\ at'[e] \in {"send", "header", "payload"}
      /\ \A x \in Ends \ {e} : at'[x] = at[x]
  <2>1. at \in [Ends -> {"idle", "send", "header", "payload", "closed"}]
    BY DEF WireInv, TypeOK
  <2>2. CASE Send(e)
    <3>1. at' = [at EXCEPT ![e] = "header"] \/ at' = at
      BY <2>2, SendStreams DEF WireInv
    <3> QED BY <2>1, <2>2, <3>1 DEF Send
  <2>3. CASE Recv(e)
    BY <2>1, <2>3 DEF Recv, Reading
  <2>4. CASE HeaderRead(e)
    <3>1. at[e] = "header" /\ at' = [at EXCEPT ![e] = "payload"]
      BY <2>4 DEF HeaderRead, GiveUp
    <3> QED BY <2>1, <3>1
  <2> QED BY <2>2, <2>3, <2>4 DEF Io, SendFails, RecvFails, GiveUp
<1>3. Handle' = Handle
  <2>1. CASE e = "client"
    BY <1>2, <2>1, HandleValues, HandleValuesNext
  <2>2. CASE e = "server"
    <3>1. at'["client"] = at["client"]
      BY <1>2, <2>2 DEF Ends
    <3> QED BY <3>1 DEF Handle
  <2> QED BY <2>1, <2>2 DEF Ends
<1> QED BY <1>1, <1>3 DEF Pending

LEMMA AnswerExchanges ==
    ASSUME WireInv, Return \/ NoMemory
    PROVE  /\ Handle = "calling" /\ done = calls /\ Handle' = "idle"
           /\ Pending' = Pending /\ UNCHANGED <<calls, done>>
<1>1. /\ at["client"] = "payload" /\ at' = [at EXCEPT !["client"] = "idle"]
      /\ UNCHANGED <<asked, calls, done>>
  BY DEF Return, NoMemory, Complete
<1>2. at'["client"] = "idle"
  BY <1>1 DEF WireInv, TypeOK, Ends
<1>3. done = calls
  BY <1>1 DEF WireInv, Numbered
<1> QED BY <1>1, <1>2, <1>3, HandleValues, HandleValuesNext DEF Pending

LEMMA CloseExchanges ==
    ASSUME WireInv, NEW e \in Ends, Close(e), at[e] # "closed"
    PROVE  /\ Pending' = Pending /\ UNCHANGED <<calls, done>>
           /\ \/ Handle # "failed" /\ Handle' = "failed"
              \/ Handle' = Handle
<1>1. UNCHANGED <<asked, calls, done>>
  BY DEF Close
<1>2. at'[e] = "closed" /\ \A x \in Ends \ {e} : at'[x] = at[x]
  BY CloseStreams DEF WireInv
<1>3. CASE e = "client"
  <2>1. Handle # "failed"
    BY <1>3 DEF Handle
  <2> QED BY <1>1, <1>2, <1>3, <2>1, HandleValuesNext DEF Pending
<1>4. CASE e = "server"
  <2>1. at'["client"] = at["client"]
    BY <1>2, <1>4 DEF Ends
  <2> QED BY <1>1, <2>1 DEF Handle, Pending
<1> QED BY <1>3, <1>4 DEF Ends

(* The connection keeps the promises of Exchange: a call is carried out at *)
(* most once and as it was made, it returns with an answer only after it   *)
(* was carried out, and a handle that has failed stays so. *)
THEOREM Refinement == Spec => ImplementsExchange
<1>1. Init => exchange!Init
  BY FrameTypes DEF Init, exchange!Init
<1>2. WireInv /\ [Next]_vars => [exchange!Next]_exchange!vars
  <2> SUFFICES ASSUME WireInv, [Next]_vars
               PROVE  exchange!Next \/ UNCHANGED exchange!vars
    BY DEF exchange!vars
  <2>1. CASE Call
    <3>1. exchange!Call
      BY <2>1, CallExchanges DEF exchange!Call, Handle, Pending
    <3> QED BY <3>1 DEF exchange!Next
  <2>2. ASSUME NEW e \in Ends, Close(e), at[e] # "closed"
        PROVE  exchange!Next \/ UNCHANGED exchange!vars
    <3>1. exchange!Fail \/ UNCHANGED exchange!vars
      BY <2>2, CloseExchanges DEF exchange!Fail, exchange!vars, Handle, Pending
    <3> QED BY <3>1 DEF exchange!Next
  <2>3. ASSUME NEW e \in Ends, Io(e)
        PROVE  exchange!Next \/ UNCHANGED exchange!vars
    <3>1. at[e] # "closed"
      BY <2>3 DEF Io, Send, SendFails, Recv, RecvFails, HeaderRead, Reading
    <3>2. CASE ~Close(e)
      BY <2>3, <3>2, MovesAreHidden DEF exchange!vars, Handle, Pending
    <3> QED BY <2>2, <3>1, <3>2
  <2>4. CASE Return \/ NoMemory
    <3>1. exchange!Answer
      BY <2>4, AnswerExchanges DEF exchange!Answer, Handle, Pending
    <3> QED BY <3>1 DEF exchange!Next
  <2>5. CASE Execute
    <3>1. asked.id # done /\ done' = asked.id /\ asked.id \in 1 .. MaxCalls
      BY <2>5, ExecuteFacts
    <3>2. /\ at' = [at EXCEPT !["server"] = "send"]
          /\ asked' = asked /\ calls' = calls
      BY <2>5 DEF Execute
    <3>3. at'["client"] = at["client"]
      BY <3>2 DEF WireInv, TypeOK, Ends
    <3>4. exchange!Execute
      BY <3>1, <3>2, <3>3 DEF exchange!Execute
    <3> QED BY <3>4 DEF exchange!Next
  <2>6. CASE Destroy \/ SessionEnds
    BY <2>2, <2>6 DEF Destroy, SessionEnds, Ends
  <2>7. CASE UNCHANGED vars
    BY <2>7 DEF vars, exchange!vars
  <2> QED BY <2>1, <2>3, <2>4, <2>5, <2>6, <2>7
          DEF Next, ClientWork, ServerWork, Ends
<1> QED BY <1>1, <1>2, Invariance, PTL DEF Spec, ImplementsExchange, exchange!Spec
=============================================================================
