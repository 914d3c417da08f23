----------------------------- MODULE SizeLimits -----------------------------
(***************************************************************************)
(* One secret on its way from a caller to the vault file and back, and the *)
(* list of all identifiers, as far as sizes decide: every layer            *)
(* (src/protocol/protocol.cpp, src/storage/vault_store.cpp) has limits of  *)
(* its own, and what one layer lets through must not be lost in the next.  *)
(* Only lengths are modelled; the numbers are those of the code.           *)
(***************************************************************************)
EXTENDS Naturals

CONSTANTS IdSizes,      \* lengths of the identifier a caller tries
          ValueSizes,   \* lengths of the value
          Counts        \* numbers of secrets the vault holds with it

maximum_payload_size == 1024 * 1024
maximum_secret_id_size == 63

(* The protocol and the store have a constant of this name each.  Here and *)
(* below, a definition with a longer name is a plausible wrong version of  *)
(* the one after it, which nothing uses.                                   *)
protocol_secret_count == 10000
maximum_secret_count_doubled == 20000
maximum_secret_count == 10000

maximum_secret_size_decimal == 1000 * 1000
maximum_secret_size == 1024 * 1024

ASSUME SizesAssumption ==
    IdSizes \subseteq Nat /\ ValueSizes \subseteq Nat /\ Counts \subseteq Nat

VARIABLES idSize, size, count,
          at            \* how far the secret has come

vars == <<idSize, size, count, at>>

Places == {"caller", "invalid", "request", "refused", "accepted", "stored",
           "unloadable", "answer", "unanswered", "read", "garbled",
           "listed", "unlisted"}

(* write_sized_bytes and write_string: a 32-bit length, then the bytes. *)
Sized(n) == 4 + n

Init == /\ idSize \in IdSizes
        /\ size \in ValueSizes
        /\ count \in Counts
        /\ at = "caller"

Step(from, good, to, otherwise) ==
    /\ at = from
    /\ at' = IF good THEN to ELSE otherwise
    /\ UNCHANGED <<idSize, size, count>>

(* encode_payload of so many bytes. *)
Encodes(n) == n <= maximum_payload_size

PutPayload == Sized(idSize) + Sized(size)

(* valid_id, encode_put_request and encode_frame of the client. *)
EncodePut ==
    Step("caller",
         /\ idSize \in 1 .. maximum_secret_id_size
         /\ size <= maximum_payload_size
         /\ Encodes(PutPayload),
         "request", "invalid")

(* decode_header and decode_put_request of the server. *)
DecodePut ==
    Step("request",
         /\ PutPayload <= maximum_payload_size
         /\ idSize \in 1 .. maximum_secret_id_size
         /\ size <= maximum_payload_size,
         "accepted", "refused")

(* put when count other secrets are there.  A vault that is full in number *)
(* or in bytes refuses the secret whatever its size, which is no step.     *)
StorePutOneTooMany ==
    /\ count <= maximum_secret_count
    /\ Step("accepted", size <= maximum_secret_size, "stored", "refused")

StorePut == /\ count < maximum_secret_count
            /\ Step("accepted", size <= maximum_secret_size, "stored", "refused")

(* A restart: deserialize_plaintext. *)
Reload == Step("stored",
               /\ count + 1 <= maximum_secret_count
               /\ idSize \in 1 .. maximum_secret_id_size
               /\ size <= maximum_secret_size,
               "stored", "unloadable")

(* A response: the status, an empty diagnostic, the data. *)
ResponseWithDiagnostic(n) == 4 + Sized(2) + Sized(n)

Response(n) == 4 + Sized(0) + Sized(n)

(* get, then encode_response, outside the try of handle_client: when it    *)
(* throws the session ends and the caller gets no answer.                  *)
EncodeGet == Step("stored", Encodes(Response(size)), "answer", "unanswered")

(* decode_header and decode_response of the client. *)
DecodeGet == Step("answer",
                  /\ Response(size) <= maximum_payload_size
                  /\ size <= maximum_payload_size,
                  "read", "garbled")

(* list, encode_id_list in a response, and decode_id_list, when all        *)
(* identifiers are as long as this one.                                    *)
List == LET data == 4 + (count + 1) * Sized(idSize) IN
        Step("stored",
             /\ count + 1 <= protocol_secret_count
             /\ Encodes(data)
             /\ Encodes(Response(data)),
             "listed", "unlisted")

Next == \/ EncodePut \/ DecodePut \/ StorePut \/ Reload
        \/ EncodeGet \/ DecodeGet \/ List

Spec == Init /\ [][Next]_vars

-----------------------------------------------------------------------------
(* Every size is a number, and the secret is at one of the places.         *)
TypeOK == /\ idSize \in Nat /\ size \in Nat /\ count \in Nat
          /\ at \in Places

(* What the client encodes the server stores: it never refuses, for its    *)
(* size, a secret that encode_put_request let through.                     *)
SentIsStored == at # "refused"

(* A vault the server has written it can read again: no limit of           *)
(* deserialize_plaintext is tighter than those of put.                     *)
StoredReloads == at # "unloadable"

(* All identifiers of the fullest vault fit into one response.             *)
ListFits == at # "unlisted"

(* A stored secret can be read back, if its identifier has four characters *)
(* or more: a put carries the identifier and its length where the answer   *)
(* to a get carries the status and the length of the diagnostic.           *)
LongIdReadable == idSize >= 4 => at \notin {"unanswered", "garbled"}

(* "Stores or replaces an exportable secret", "Retrieves an exportable     *)
(* secret": what is stored can be read back.                               *)
StoredIsReadable == at \notin {"unanswered", "garbled"}

-----------------------------------------------------------------------------
(* What the layers have established about the sizes that passed them.      *)
Passed == /\ at \notin {"caller", "invalid"} =>
               /\ idSize \in 1 .. maximum_secret_id_size
               /\ PutPayload <= maximum_payload_size
          /\ at \in Places \ {"caller", "invalid", "request", "accepted"} =>
               /\ count < maximum_secret_count
               /\ size <= maximum_secret_size
          /\ at = "answer" => Encodes(Response(size))

IInv == /\ TypeOK
        /\ Passed
        /\ SentIsStored
        /\ StoredReloads
        /\ ListFits
        /\ LongIdReadable
=============================================================================
