-------------------------- MODULE SizeLimitsProofs --------------------------
(***************************************************************************)
(* Proofs about SizeLimits for every length of identifier and value and    *)
(* every number of secrets.                                                *)
(***************************************************************************)
EXTENDS SizeLimits, TLAPS

(* A product grows with its first factor. *)
LEMMA TimesMonotonic ==
    ASSUME NEW c \in Nat, NEW m \in Nat, NEW b \in Nat, m <= c
    PROVE  m * b \in Nat /\ m * b <= c * b
BY SMT

(* The fullest list, with its count, in a response. *)
LEMMA ListedBytes ==
    ASSUME NEW n \in Nat, n < 10000, NEW i \in Nat, i <= 63
    PROVE  4 + (n + 1) * (4 + i) + 12 <= 1024 * 1024
<1> DEFINE m == n + 1
           b == 4 + i
           bytes == m * b
           most == 10000
<1>1. m \in Nat /\ m <= 10000 /\ b \in Nat /\ b <= 67
  OBVIOUS
<1>2. most \in Nat /\ m <= most
  OBVIOUS
<1> HIDE DEF m, b, most
<1>3. m * b \in Nat /\ m * b <= most * b
  BY <1>1, <1>2, TimesMonotonic
<1>4. bytes \in Nat /\ bytes <= 10000 * b
  BY <1>3 DEF most
<1> HIDE DEF bytes
<1>5. 4 + bytes + 12 <= 1024 * 1024
  BY <1>1, <1>4
<1> QED BY <1>5 DEF bytes, m, b

(* IInv holds initially. *)
LEMMA InvInit == Init => IInv
BY SizesAssumption
DEF Init, IInv, TypeOK, Places, Passed, SentIsStored, StoredReloads, ListFits,
    LongIdReadable

(* The list is always encoded. *)
LEMMA ListKeepsInv == IInv /\ List => IInv'
<1> SUFFICES ASSUME IInv, List PROVE IInv'
  OBVIOUS
<1> DEFINE data == 4 + (count + 1) * Sized(idSize)
<1>1. /\ at = "stored" /\ UNCHANGED <<idSize, size, count>>
      /\ at' = IF /\ count + 1 <= protocol_secret_count
                 /\ Encodes(data)
                 /\ Encodes(Response(data))
              THEN "listed" ELSE "unlisted"
  BY Zenon DEF List, Step
<1>2. count \in Nat /\ count < 10000 /\ idSize \in Nat /\ idSize <= 63
  BY <1>1 DEF IInv, TypeOK, Passed, Places, maximum_secret_id_size,
              maximum_secret_count
<1>3. 4 + (count + 1) * (4 + idSize) + 12 <= 1024 * 1024
  BY <1>2, ListedBytes
<1>4. data \in Nat /\ data + 12 <= 1024 * 1024
  BY <1>2, <1>3 DEF Sized
<1> HIDE DEF data
<1>5. Encodes(data) /\ Encodes(Response(data))
  BY <1>4 DEF Encodes, Response, Sized, maximum_payload_size
<1>6. at' = "listed"
  BY <1>1, <1>2, <1>5 DEF protocol_secret_count
<1> QED BY <1>1, <1>6
        DEF IInv, TypeOK, Places, Passed, SentIsStored, StoredReloads, ListFits,
            LongIdReadable, PutPayload

(* Every layer keeps IInv. *)
LEMMA InvStep == IInv /\ [Next]_vars => IInv'
<1> SUFFICES ASSUME IInv, [Next]_vars PROVE IInv'
  OBVIOUS
<1> USE DEF IInv, TypeOK, Places, Passed, SentIsStored, StoredReloads, ListFits,
            LongIdReadable, Step, Sized, PutPayload, Encodes, Response,
            maximum_payload_size, maximum_secret_id_size, maximum_secret_count,
            maximum_secret_size, protocol_secret_count
<1>1. CASE UNCHANGED vars
  BY <1>1, SMT DEF vars
<1>2. CASE EncodePut
  BY <1>2, SMT DEF EncodePut
<1>3. CASE DecodePut
  BY <1>3, SMT DEF DecodePut
<1>4. CASE StorePut
  BY <1>4, SMT DEF StorePut
<1>5. CASE Reload
  BY <1>5, SMT DEF Reload
<1>6. CASE EncodeGet
  BY <1>6, SMT DEF EncodeGet
<1>7. CASE DecodeGet
  BY <1>7, SMT DEF DecodeGet
<1>8. CASE List
  BY <1>8, ListKeepsInv
<1> QED BY <1>1, <1>2, <1>3, <1>4, <1>5, <1>6, <1>7, <1>8 DEF Next

(* IInv is an invariant. *)
LEMMA Invariance == Spec => []IInv
BY InvInit, InvStep, PTL DEF Spec

(* Whatever the client encodes, the server takes: no size it lets through  *)
(* is refused by put.                                                      *)
THEOREM NoSizeRefusedLate == Spec => []SentIsStored
<1>1. IInv => SentIsStored
  BY DEF IInv
<1> QED BY <1>1, Invariance, PTL

(* Whatever put has stored, the restarted server loads again. *)
THEOREM NoSizeUnloadable == Spec => []StoredReloads
<1>1. IInv => StoredReloads
  BY DEF IInv
<1> QED BY <1>1, Invariance, PTL

(* The list of a full vault fits its response for every length the         *)
(* identifiers may have: encode_id_list does not throw.                    *)
THEOREM FullListFits == Spec => []ListFits
<1>1. IInv => ListFits
  BY DEF IInv
<1> QED BY <1>1, Invariance, PTL

(* A value stored under an identifier of four characters or more is        *)
(* returned by get, whatever its size.                                     *)
THEOREM LongIdIsReadable == Spec => []LongIdReadable
<1>1. IInv => LongIdReadable
  BY DEF IInv
<1> QED BY <1>1, Invariance, PTL
=============================================================================
