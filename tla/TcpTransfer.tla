----------------------------- MODULE TcpTransfer -----------------------------
(***************************************************************************)
(* One message on its way from challenge_socket_send on one node to        *)
(* challenge_socket_receive on the other, byte by byte: both sides move    *)
(* what the socket takes or has, go on after a failure that the code calls *)
(* temporary where they left off, and give up on the others.               *)
(***************************************************************************)
EXTENDS MessageCodec, SocketErrors

CONSTANTS
    Retries,    \* CONFIG_TCP_COMMUNICATON_RETRIES
    Errnos,     \* the errnos that send() and recv() fail with
    Capacity    \* bytes that the two TCP stacks buffer

ASSUME TransferAssumption ==
    /\ Retries \in Nat
    /\ "EINTR" \notin Errnos    \* lwIP has no signals
    /\ Capacity \in Nat \ {0}

VARIABLES
    kind,          \* "challenge" or "signature"
    message,       \* the fields that are sent
    signedBody,    \* msg_body when the signature was made
    to_be_sent,    \* span of send: the bytes left
    wire,          \* written and not yet read
    buffer,        \* the bytes of msg_buffer that have been received
    tries,         \* tries_left of both sides
    result,        \* of both sides: "none" while the call runs
    open,          \* the sides that have not shut the connection down
    broken         \* the connection was reset

vars == <<kind, message, signedBody, to_be_sent, wire, buffer, tries, result,
          open, broken>>

Sides == {"send", "receive"}
Results == {"none", "ok"} \cup ErrorCodes

Encoded == IF kind = "challenge" THEN SerializeChallenge(message)
                                 ELSE SerializeSignature(message)
Expected == IF kind = "challenge" THEN ChallengeSize ELSE MessageSize

TypeOK ==
    /\ kind \in {"challenge", "signature"}
    /\ message \in Challenges \cup Signatures
    /\ to_be_sent \in Seq(Bytes)
    /\ wire \in Seq(Bytes)
    /\ Len(wire) <= Capacity
    /\ buffer \in Seq(Bytes)
    /\ Len(buffer) <= Expected
    /\ tries \in [Sides -> 0..(1 + Retries)]
    /\ result \in [Sides -> Results]
    /\ open \in SUBSET Sides
    /\ broken \in BOOLEAN

(* send_signature serializes the message without the signature, signs the  *)
(* body and puts the signature in its place.                               *)
Unsigned(m) ==
    SerializeSignature([m EXCEPT !.signature = [i \in 1..SignatureSize |-> 0]])

SendChallenge ==
    /\ kind = "challenge"
    /\ message \in Challenges
    /\ signedBody = << >>
    /\ to_be_sent = SerializeChallenge(message)

SendSignature ==
    /\ kind = "signature"
    /\ message \in Signatures
    /\ signedBody = Body(Unsigned(message))
    /\ to_be_sent = SerializeSignatureAt(message.signature, Unsigned(message))

Init ==
    /\ SendChallenge \/ SendSignature
    /\ wire = << >>
    /\ buffer = << >>
    /\ tries = [n \in Sides |-> 1 + Retries]
    /\ result = [n \in Sides |-> "none"]
    /\ open = Sides
    /\ broken = FALSE

-----------------------------------------------------------------------------
Drop(bytes, n) == SubSeq(bytes, n + 1, Len(bytes))
Take(bytes, n) == SubSeq(bytes, 1, n)

Running(side) == result[side] = "none"
Return(side, code) == result' = [result EXCEPT ![side] = code]

(* Seeded bug: the try that fails last is not counted.                     *)
AfterErrorUncounted(side, code) ==
    IF code # "retry"
    THEN Return(side, code) /\ UNCHANGED tries
    ELSE /\ tries' = [tries EXCEPT ![side] = @ - 1]
         /\ IF tries[side] = 0 THEN Return(side, "ran_out_of_tries")
                               ELSE UNCHANGED result

(* The retry loop after an error: once more with what is left of the span, *)
(* out of tries, or the code of the switch.                                *)
AfterError(side, code) ==
    IF code # "retry"
    THEN Return(side, code) /\ UNCHANGED tries
    ELSE /\ tries' = [tries EXCEPT ![side] = @ - 1]
         /\ IF tries[side] = 1 THEN Return(side, "ran_out_of_tries")
                               ELSE UNCHANGED result

(* Seeded bug: each try starts with the whole message.                     *)
SpanOfWholeMessage == Encoded

SpanAfterError == to_be_sent

(* ::send takes the first n bytes.                                         *)
Send(n) ==
    /\ Running("send") /\ ~broken /\ "receive" \in open
    /\ n <= Len(to_be_sent)
    /\ Len(wire) + n <= Capacity
    /\ wire' = wire \o Take(to_be_sent, n)
    /\ to_be_sent' = Drop(to_be_sent, n)
    /\ IF n = Len(to_be_sent) THEN Return("send", "ok") ELSE UNCHANGED result
    /\ UNCHANGED <<kind, message, signedBody, buffer, tries, open, broken>>

SendFails(e) ==
    /\ Running("send")
    /\ AfterError("send", ChallengeSendCode(e))
    /\ to_be_sent' = SpanAfterError
    /\ UNCHANGED <<kind, message, signedBody, wire, buffer, open, broken>>

(* recv has the next n bytes.                                              *)
Receive(n) ==
    /\ Running("receive")
    /\ n <= Len(wire)
    /\ Len(buffer) + n <= Expected
    /\ buffer' = buffer \o Take(wire, n)
    /\ wire' = Drop(wire, n)
    /\ IF Len(buffer) + n = Expected THEN Return("receive", "ok")
                                     ELSE UNCHANGED result
    /\ UNCHANGED <<kind, message, signedBody, to_be_sent, tries, open, broken>>

ReceiveFails(e) ==
    /\ Running("receive")
    /\ AfterError("receive", ChallengeReceiveCode(e))
    /\ UNCHANGED <<kind, message, signedBody, to_be_sent, wire, buffer, open,
                   broken>>

(* SO_SNDTIMEO, SO_RCVTIMEO: a call that is blocked fails with EAGAIN.     *)
SendTimeout ==
    /\ ~broken /\ "receive" \in open
    /\ Len(wire) = Capacity
    /\ SendFails("EAGAIN")

ReceiveTimeout ==
    /\ ~broken /\ "send" \in open
    /\ wire = << >>
    /\ ReceiveFails("EAGAIN")

(* The peer has gone: lwIP's errno at the end of the stream is ENOTCONN.   *)
SendToClosed ==
    /\ broken \/ "receive" \notin open
    /\ SendFails("ECONNRESET")

ReceiveFromClosed ==
    /\ wire = << >>
    /\ \/ broken /\ ReceiveFails("ECONNRESET")
       \/ "send" \notin open /\ ReceiveFails("ENOTCONN")

(* disconnect(), once the call has returned.                               *)
Disconnect(side) ==
    /\ ~Running(side)
    /\ open' = open \ {side}
    /\ UNCHANGED <<kind, message, signedBody, to_be_sent, wire, buffer, tries,
                   result, broken>>

(* A node restarts or the connection is reset: what is under way is lost.  *)
Break ==
    /\ broken' = TRUE
    /\ wire' = << >>
    /\ UNCHANGED <<kind, message, signedBody, to_be_sent, buffer, tries, result,
                   open>>

Next ==
    \/ \E n \in 1..Len(to_be_sent) : Send(n)
    \/ \E n \in 1..Len(wire) : Receive(n)
    \/ SendTimeout
    \/ ReceiveTimeout
    \/ SendToClosed
    \/ ReceiveFromClosed
    \/ \E e \in Errnos : SendFails(e) \/ ReceiveFails(e)
    \/ \E side \in Sides : Disconnect(side)
    \/ Break

Spec == Init /\ [][Next]_vars

-----------------------------------------------------------------------------
(* No byte is lost, repeated or moved, however often either side is        *)
(* interrupted and resumes: both loops advance the caller's span, which    *)
(* survives the failed call (bytes_left is a reference).                   *)
StreamIntact ==
    IF broken
    THEN Take(Encoded, Len(buffer)) = buffer
    ELSE buffer \o wire \o to_be_sent = Encoded

(* A receive that succeeds has all the fields the peer put in, the type    *)
(* first, whatever the widths: reverse_memcpy undoes reverse_memcpy, and   *)
(* both sides agree on where a field lies.                                 *)
OkMeansWhole ==
    result["receive"] = "ok" =>
        IF kind = "challenge"
        THEN /\ TypeOf(buffer) = msg_challenge_type
             /\ DeserializeChallenge(buffer) = message
        ELSE /\ TypeOf(buffer) = msg_signature_type
             /\ DeserializeSignature(buffer) = message

(* The bytes the receiver verifies are the bytes the sender signed:        *)
(* writing the signature into the buffer leaves the body alone.            *)
VerifiedBodyIsSigned ==
    (result["receive"] = "ok" /\ kind = "signature") =>
        Body(buffer) = signedBody

=============================================================================
