----------------------------- MODULE MessageCodec -----------------------------
(***************************************************************************)
(* basic_codec: messages as arrays of bytes, integers most significant     *)
(* byte first.  The ESP32 keeps them the other way round.                  *)
(*                                                                         *)
(* A byte has Base values, to keep instances small.  The event id has the  *)
(* width of the enumeration's underlying type; the nonce and the signature *)
(* are arrays of bytes.                                                    *)
(***************************************************************************)
EXTENDS Naturals, Sequences

CONSTANTS
    Base,           \* values of a byte
    EventWidth,     \* sizeof(event_id_t)
    NonceSize,      \* size of nonce_t
    SignatureSize   \* signature_engine::signature_size

ASSUME CodecAssumption ==
    /\ Base \in Nat /\ Base > 3
    /\ EventWidth \in Nat \ {0}
    /\ NonceSize \in Nat
    /\ SignatureSize \in Nat

Bytes == 0..(Base - 1)
Arrays(n) == [1..n -> Bytes]

msg_challenge_type == 1
msg_signature_type == 3

-----------------------------------------------------------------------------
(* What a byte counts in front of n others.                                *)
Weight[n \in Nat] == IF n = 0 THEN 1 ELSE Base * Weight[n - 1]

(* An integer of that many bytes as it lies in memory, and back: the value *)
(* of the first n bytes, for all n.                                        *)
InMemory(value, width) ==
    [i \in 1..width |-> (value \div Weight[i - 1]) % Base]

FromMemory(bytes) ==
    LET Value[n \in 0..Len(bytes)] ==
            IF n = 0 THEN 0 ELSE Value[n - 1] + bytes[n] * Weight[n - 1]
    IN  Value[Len(bytes)]

reverse_memcpy(src) == [i \in DOMAIN src |-> src[Len(src) - i + 1]]

(* Seeded bug: the bytes are copied as they lie in memory, on one side.    *)
PlainCopy(bytes) == FromMemory(bytes)

SerializeInt(value, width) == reverse_memcpy(InMemory(value, width))
DeserializeInt(bytes) == FromMemory(reverse_memcpy(bytes))

(* msg_challenge_t and msg_signature_t.                                    *)
Challenges == [event : 0..(Weight[EventWidth] - 1), nonce : Arrays(NonceSize)]
Signatures == [event : 0..(Weight[EventWidth] - 1), nonce : Arrays(NonceSize),
               id : Bytes, signature : Arrays(SignatureSize)]

ChallengeSize == 1 + EventWidth + NonceSize
BodySize == ChallengeSize + 1
MessageSize == BodySize + SignatureSize

SerializeChallenge(m) ==
    SerializeInt(msg_challenge_type, 1) \o SerializeInt(m.event, EventWidth)
      \o m.nonce

SerializeSignature(m) ==
    SerializeInt(msg_signature_type, 1) \o SerializeInt(m.event, EventWidth)
      \o m.nonce \o SerializeInt(m.id, 1) \o m.signature

DeserializeChallenge(buffer) ==
    [event |-> DeserializeInt(SubSeq(buffer, 2, 1 + EventWidth)),
     nonce |-> SubSeq(buffer, 2 + EventWidth, ChallengeSize)]

DeserializeSignature(buffer) ==
    [event |-> DeserializeInt(SubSeq(buffer, 2, 1 + EventWidth)),
     nonce |-> SubSeq(buffer, 2 + EventWidth, ChallengeSize),
     id |-> DeserializeInt(SubSeq(buffer, BodySize, BodySize)),
     signature |-> SubSeq(buffer, BodySize + 1, MessageSize)]

TypeOf(buffer) == DeserializeInt(SubSeq(buffer, 1, 1))

(* Seeded bug: the field before the signature is counted out.              *)
OffsetOfId == ChallengeSize

(* serialize_at<4>: behind the four fields before the signature.           *)
OffsetOfSignature == 1 + EventWidth + NonceSize + 1

SerializeSignatureAt(signature, buffer) ==
    [i \in DOMAIN buffer |->
        IF i - OffsetOfSignature \in DOMAIN signature
        THEN signature[i - OffsetOfSignature]
        ELSE buffer[i]]

(* What is signed and verified: the message up to its last signature_size  *)
(* bytes.                                                                  *)
Body(buffer) == SubSeq(buffer, 1, Len(buffer) - SignatureSize)

=============================================================================
