------------------------- MODULE NetworkEventHandler -------------------------
(***************************************************************************)
(* network_event_handler: send() on the sender nodes, await() on the       *)
(* receiver nodes, and the network between them.                           *)
(*                                                                         *)
(* A sender broadcasts an event in a UDP datagram and then serves, one     *)
(* after the other, the TCP connections of receivers that challenge it:    *)
(* each receiver sends the event and a random nonce, the sender answers    *)
(* with a signature over both, the receiver verifies it and only then      *)
(* hands the event to its caller.                                          *)
(*                                                                         *)
(* An action is one return of a blocking socket call (or of sign/verify)   *)
(* together with all the code up to the next one.  Every socket call may   *)
(* fail at any time with any of Errnos.  Datagrams may be lost, delayed,   *)
(* reordered and duplicated.  A node may restart at any time.              *)
(***************************************************************************)
EXTENDS Naturals, Sequences, SocketErrors

CONSTANTS
    Senders,       \* nodes that run sender_node_task
    Receivers,     \* nodes that run receiver_node_task
    Events,        \* values of the Event enumeration
    TrustedCount,  \* template parameter: number of public keys
    SenderId,      \* SenderId[s]: m_sender_id of sender s
    PrivateKey,    \* PrivateKey[s]: the key sender s signs with
    PublicKeys,    \* PublicKeys[i]: key the receivers check id i against
    Wanted,        \* Wanted[r]: the events receiver r passes to await()
    MaxRetries,    \* the max_retries argument of send()
    UdpRetries,    \* CONFIG_UDP_COMMUNICATON_RETRIES
    TcpRetries,    \* CONFIG_TCP_COMMUNICATON_RETRIES
    Errnos,        \* the errnos that socket calls fail with
    MaxAttempts,   \* bound: connections a receiver makes, over all time
    None

Nodes == Senders \cup Receivers

ASSUME CountsAssumption ==
    /\ TrustedCount \in Nat \ {0}
    /\ MaxRetries \in Nat
    /\ UdpRetries \in Nat
    /\ TcpRetries \in Nat
    /\ MaxAttempts \in Nat

(* lwIP has no signals: EINTR is never seen, although the switches list it. *)
ASSUME ErrnosAssumption == "EINTR" \notin Errnos

ASSUME NodesAssumption ==
    /\ Senders \cap Receivers = {}
    /\ None \notin Senders
    /\ None \notin Events
    /\ Wanted \in [Receivers -> SUBSET Events]

ASSUME KeysAssumption ==
    /\ SenderId \in [Senders -> Nat]
    /\ DOMAIN PrivateKey = Senders
    /\ DOMAIN PublicKeys = 0..(TrustedCount - 1)

VARIABLES
    (* The program: m_current_mode, m_challenge_socket and the locals of   *)
    (* the call to send() or await() that is running.                      *)
    mode,        \* m_current_mode
    sock,        \* m_challenge_socket: a connection, or NoConnection
    timed,       \* SO_SNDTIMEO and SO_RCVTIMEO are set on m_challenge_socket
    pc,          \* the blocking call the node is in; "idle" outside a call
    tries,       \* tries_left of the innermost retry loop
    loop,        \* send(): tries_left, i and listen_timeout
    event,       \* event_id
    nonce,       \* challenge_nonce
    peer,        \* await(): sender_address
    result,      \* what the last call returned: code, errno behind it

    (* The network.                                                        *)
    datagrams,   \* event datagrams under way to, or queued at, a receiver
    backlog,     \* connections waiting in the acceptor of each sender
    challenges,  \* challenge messages under way, with their connection
    signatures,  \* signature messages under way, with their connection

    (* History.                                                            *)
    used,        \* connections each receiver has made so far
    aired,       \* the running, or last, send() has broadcast its event
    issued,      \* every challenge ever written to a connection
    vouched,     \* every event and nonce ever signed, with the signer
    delivered    \* what await() has returned to each receiver, in order

locals == <<pc, tries, loop, event, nonce, result>>
network == <<datagrams, backlog, challenges, signatures>>
history == <<used, aired, issued, vouched, delivered>>
vars == <<mode, sock, timed, locals, peer, network, history>>

-----------------------------------------------------------------------------
(* Values                                                                  *)

(* A connection is named by the receiver that opened it and a sequence     *)
(* number.  A nonce is 16 random bytes: it never repeats, and is named in  *)
(* the same way.                                                           *)
Connections == Receivers \X Nat
NoConnection == << >>
Nonces == Receivers \X Nat
NoNonce == << >>

Datagrams == [from : Senders, event : Events]
Challenges == [receiver : Receivers, event : Events, nonce : Nonces]

(* msg_challenge_t and msg_signature_t, on their connection.  A signature  *)
(* is the key that made it: it verifies under that key, and only over the  *)
(* body it travels with.                                                   *)
ChallengeMessages ==
    [connection : Connections, event : Events, nonce : Nonces]
SignatureMessages ==
    [connection : Connections, event : Events, nonce : Nonces,
     id : Nat, signer : Senders]

NoLoop == [triesLeft |-> 0, served |-> 0, queued |-> FALSE]
(* What a call returns: ok, one of the handler's own errors, or the error  *)
(* of set_mode or of setsockopt as it is.                                  *)
ResultCodes == ErrorCodes \cup {"none", "ok", "system"}
ResultErrnos == Errnos \cup {"none", "EAGAIN", "ETIMEDOUT"}
NoResult == [code |-> "none", errno |-> "none"]

(* The senders whose signatures the receivers accept.                      *)
Trusted ==
    {s \in Senders :
        \E i \in 0..(TrustedCount - 1) : PublicKeys[i] = PrivateKey[s]}

TypeOK ==
    /\ mode \in [Nodes -> {"none", "sender", "receiver"}]
    /\ sock \in [Nodes -> Connections \cup {NoConnection}]
    /\ timed \in [Nodes -> BOOLEAN]
    /\ pc \in [Nodes ->
         {"idle", "broadcast", "listen", "receive", "sign", "reply",
          "event", "connect", "challenge", "signature"}]
    /\ tries \in [Nodes -> Nat]
    /\ loop \in [Nodes ->
         [triesLeft : Nat, served : 0..TrustedCount, queued : BOOLEAN]]
    /\ event \in [Nodes -> Events \cup {None}]
    /\ nonce \in [Nodes -> Nonces \cup {NoNonce}]
    /\ peer \in [Receivers -> Senders \cup {None}]
    /\ result \in [Nodes -> [code : ResultCodes, errno : ResultErrnos]]
    /\ datagrams \in [Receivers -> SUBSET Datagrams]
    /\ backlog \in [Senders -> Seq(Connections)]
    /\ challenges \in SUBSET ChallengeMessages
    /\ signatures \in SUBSET SignatureMessages
    /\ used \in [Receivers -> Nat]
    /\ aired \in [Senders -> BOOLEAN]
    /\ issued \in SUBSET Challenges
    /\ vouched \in SUBSET [sender : Senders, event : Events, nonce : Nonces]
    /\ delivered \in [Receivers -> Seq(Challenges)]

Init ==
    /\ mode = [n \in Nodes |-> "none"]
    /\ sock = [n \in Nodes |-> NoConnection]
    /\ timed = [n \in Nodes |-> FALSE]
    /\ pc = [n \in Nodes |-> "idle"]
    /\ tries = [n \in Nodes |-> 0]
    /\ loop = [n \in Nodes |-> NoLoop]
    /\ event = [n \in Nodes |-> None]
    /\ nonce = [n \in Nodes |-> NoNonce]
    /\ peer = [r \in Receivers |-> None]
    /\ result = [n \in Nodes |-> NoResult]
    /\ datagrams = [r \in Receivers |-> {}]
    /\ backlog = [s \in Senders |-> << >>]
    /\ challenges = {}
    /\ signatures = {}
    /\ used = [r \in Receivers |-> 0]
    /\ aired = [s \in Senders |-> FALSE]
    /\ issued = {}
    /\ vouched = {}
    /\ delivered = [r \in Receivers |-> << >>]

-----------------------------------------------------------------------------
(* Control flow.  Each operator below says what becomes of all of locals:  *)
(* a step of a node uses exactly one of them.                              *)

(* The retry loops start with 1 + max_retries tries.                       *)
TriesFor(retries) == 1 + retries

TrySending == TriesFor(UdpRetries)
TryTransfer == TriesFor(TcpRetries)
TryConnecting == TriesFor(TrustedCount)

(* return from send() or await(): the locals are gone.                     *)
Return(n, code, errno) ==
    /\ pc' = [pc EXCEPT ![n] = "idle"]
    /\ tries' = [tries EXCEPT ![n] = 0]
    /\ loop' = [loop EXCEPT ![n] = NoLoop]
    /\ event' = [event EXCEPT ![n] = None]
    /\ nonce' = [nonce EXCEPT ![n] = NoNonce]
    /\ result' = [result EXCEPT ![n] = [code |-> code, errno |-> errno]]

(* On to the next blocking call, which gets its own number of tries, with  *)
(* challenge_nonce as it then is.                                          *)
Proceed(n, label, count, nonceThen) ==
    /\ pc' = [pc EXCEPT ![n] = label]
    /\ tries' = [tries EXCEPT ![n] = count]
    /\ nonce' = [nonce EXCEPT ![n] = nonceThen]
    /\ UNCHANGED <<loop, event, result>>

(* Go round the retry loop of the current blocking call once more.         *)
Retry(n) ==
    /\ tries' = [tries EXCEPT ![n] = @ - 1]
    /\ UNCHANGED <<pc, loop, event, nonce, result>>

(* What a blocking call does about a failure of class code: go round its   *)
(* loop, give up when no try is left, or return the code.                  *)
AfterFailure(n, code) ==
    IF code # "retry" THEN code
    ELSE IF tries[n] > 1 THEN "retry"
    ELSE "ran_out_of_tries"

(* Seeded bug: the tries of send() are not counted down.                   *)
NextTryUncounted(s) ==
    /\ pc' = [pc EXCEPT ![s] = "broadcast"]
    /\ tries' = [tries EXCEPT ![s] = TrySending]
    /\ loop' = [loop EXCEPT ![s] = [NoLoop EXCEPT !.triesLeft = @ + 1]]
    /\ nonce' = [nonce EXCEPT ![s] = NoNonce]
    /\ UNCHANGED <<event, result>>

(* send(): `while (--tries_left)`, the end of one broadcast and its        *)
(* challengers.                                                            *)
NextTry(s) ==
    \/ /\ loop[s].triesLeft = 1
       /\ Return(s, "ok", "none")
    \/ /\ loop[s].triesLeft > 1
       /\ pc' = [pc EXCEPT ![s] = "broadcast"]
       /\ tries' = [tries EXCEPT ![s] = TrySending]
       /\ loop' = [loop EXCEPT ![s] =
                     [NoLoop EXCEPT !.triesLeft = loop[s].triesLeft - 1]]
       /\ nonce' = [nonce EXCEPT ![s] = NoNonce]
       /\ UNCHANGED <<event, result>>

(* Seeded bug: one challenger too many.                                    *)
NextChallengerOneMore(s) ==
    /\ pc' = [pc EXCEPT ![s] = "listen"]
    /\ tries' = [tries EXCEPT ![s] = 0]
    /\ loop' = [loop EXCEPT ![s].served = @ + 1]
    /\ nonce' = [nonce EXCEPT ![s] = NoNonce]
    /\ loop[s].served <= TrustedCount
    /\ UNCHANGED <<event, result>>

(* send(): `++i` and `i <= TrustedCount`, the end of one challenger.  The  *)
(* sender goes back to listen() or the loop is over.                       *)
NextChallenger(s) ==
    \/ /\ loop[s].served = TrustedCount
       /\ NextTry(s)
    \/ /\ loop[s].served < TrustedCount
       /\ pc' = [pc EXCEPT ![s] = "listen"]
       /\ tries' = [tries EXCEPT ![s] = 0]
       /\ loop' = [loop EXCEPT ![s].served = @ + 1]
       /\ nonce' = [nonce EXCEPT ![s] = NoNonce]
       /\ UNCHANGED <<event, result>>

(* await(): the gotos.                                                     *)
TryReceiveEvent(r) == Proceed(r, "event", 0, NoNonce)

(* Bound: the network only delivers an event, or breaks a connection, that *)
(* a receiver has a connection left for.  A receiver that has gone to      *)
(* connect always may.                                                     *)
AttemptsLeft(r) == used[r] < MaxAttempts

TryConnectToSender(r) ==
    /\ AttemptsLeft(r)
    /\ Proceed(r, "connect", TryConnecting, NoNonce)

(* disconnect(): the connection is shut down, and what is under way to     *)
(* this end of it is lost.  What this end has written still arrives.       *)
Elsewhere(messages, n) == {m \in messages : m.connection # sock[n]}

Disconnect(n) ==
    /\ sock' = [sock EXCEPT ![n] = NoConnection]
    /\ timed' = [timed EXCEPT ![n] = FALSE]
    /\ challenges' = IF n \in Senders THEN Elsewhere(challenges, n)
                                     ELSE challenges
    /\ signatures' = IF n \in Receivers THEN Elsewhere(signatures, n)
                                       ELSE signatures

(* listen() and connect() start with disconnect(); the other ways on, the  *)
(* returns with an error among them, leave the connection open.            *)
DisconnectOnEntry(n) ==
    IF pc'[n] \in {"listen", "connect"}
    THEN Disconnect(n)
    ELSE UNCHANGED <<sock, timed, challenges, signatures>>

-----------------------------------------------------------------------------
(* set_mode                                                                *)

SetMode(n, newMode) == mode' = [mode EXCEPT ![n] = newMode]

(* The sockets of the mode are opened by the first call only; when that    *)
(* fails the error goes to the caller and the mode stays as it was.        *)
SetModeFails(n, e) ==
    /\ pc[n] = "idle"
    /\ mode[n] = "none"
    /\ Return(n, "system", e)
    /\ UNCHANGED <<mode, sock, timed, peer, network, history>>

-----------------------------------------------------------------------------
(* send()                                                                  *)

Send(s, e) ==
    /\ pc[s] = "idle"
    /\ SetMode(s, "sender")
    /\ pc' = [pc EXCEPT ![s] = "broadcast"]
    /\ tries' = [tries EXCEPT ![s] = TrySending]
    /\ loop' = [loop EXCEPT ![s] =
                  [NoLoop EXCEPT !.triesLeft = TriesFor(MaxRetries)]]
    /\ event' = [event EXCEPT ![s] = e]
    /\ result' = [result EXCEPT ![s] = NoResult]
    /\ aired' = [aired EXCEPT ![s] = FALSE]
    /\ UNCHANGED <<sock, timed, nonce, peer, network, used, issued, vouched,
                   delivered>>

(* The datagram goes out to every node whose event socket is bound to the  *)
(* broadcast port.  Then the first listen(), with the initial timeout.     *)
Broadcast(s) ==
    /\ pc[s] = "broadcast"
    /\ datagrams' = [r \in Receivers |->
                       IF mode[r] = "receiver"
                       THEN datagrams[r] \cup {[from |-> s, event |-> event[s]]}
                       ELSE datagrams[r]]
    /\ aired' = [aired EXCEPT ![s] = TRUE]
    /\ Proceed(s, "listen", 0, NoNonce)
    /\ Disconnect(s)
    /\ UNCHANGED <<mode, peer, backlog, used, issued, vouched, delivered>>

(* Seeded bug: out of tries, the sender listens for challengers anyway.    *)
BroadcastFailsAndListens(s, e) ==
    /\ pc[s] = "broadcast"
    /\ Proceed(s, "listen", 0, NoNonce)
    /\ Disconnect(s)
    /\ UNCHANGED <<mode, peer, datagrams, backlog, history>>

(* Out of tries: `continue`, straight to the next try of the event.        *)
BroadcastFails(s, e) ==
    /\ pc[s] = "broadcast"
    /\ LET code == AfterFailure(s, BroadcastSendCode(e)) IN
         \/ code = "retry" /\ Retry(s)
         \/ code = "ran_out_of_tries" /\ NextTry(s)
         \/ code \notin {"retry", "ran_out_of_tries"} /\ Return(s, code, e)
    /\ UNCHANGED <<mode, sock, timed, peer, network, history>>

(* Seeded bug: the timeouts are not set.                                   *)
NoCommunicationTimeout(n) == UNCHANGED timed

(* set_tcp_communication_timeout on a new connection.                      *)
SetCommunicationTimeout(n) == timed' = [timed EXCEPT ![n] = TRUE]

(* A challenger is waiting, or comes in time, and gets the communication   *)
(* timeout; from now on listen() waits for the queued timeout only.        *)
Accept(s) ==
    /\ pc[s] = "listen"
    /\ backlog[s] # << >>
    /\ sock' = [sock EXCEPT ![s] = Head(backlog[s])]
    /\ SetCommunicationTimeout(s)
    /\ backlog' = [backlog EXCEPT ![s] = Tail(@)]
    /\ pc' = [pc EXCEPT ![s] = "receive"]
    /\ tries' = [tries EXCEPT ![s] = TryTransfer]
    /\ loop' = [loop EXCEPT ![s].queued = TRUE]
    /\ UNCHANGED <<mode, event, nonce, peer, result, datagrams, challenges,
                   signatures, history>>

(* setsockopt fails on the accepted connection: its error is returned.     *)
AcceptTimeoutFails(s, e) ==
    /\ pc[s] = "listen"
    /\ backlog[s] # << >>
    /\ sock' = [sock EXCEPT ![s] = Head(backlog[s])]
    /\ backlog' = [backlog EXCEPT ![s] = Tail(@)]
    /\ Return(s, "system", e)
    /\ UNCHANGED <<mode, timed, peer, datagrams, challenges, signatures, history>>

(* After a temporary failure of the first listen() no one is expected to   *)
(* answer any more (`break`); later ones only cost a turn (`continue`).    *)
ListenFailed(s, code, e) ==
    \/ /\ code = "temporary_listening_error"
       /\ IF loop[s].queued THEN NextChallenger(s) ELSE NextTry(s)
    \/ /\ code # "temporary_listening_error"
       /\ Return(s, code, e)

(* select() times out: no challenger is waiting.                           *)
ListenTimeout(s) ==
    /\ pc[s] = "listen"
    /\ backlog[s] = << >>
    /\ ListenFailed(s, ListenCode("generic", "EAGAIN"), "EAGAIN")
    /\ UNCHANGED <<mode, sock, timed, peer, network, history>>

SelectFails(s, e) ==
    /\ pc[s] = "listen"
    /\ ListenFailed(s, ListenCode("generic", e), e)
    /\ UNCHANGED <<mode, sock, timed, peer, network, history>>

(* accept() takes the connection off the queue and then fails; the error   *)
(* carries the system category.                                            *)
AcceptFails(s, e) ==
    /\ pc[s] = "listen"
    /\ backlog[s] # << >>
    /\ backlog' = [backlog EXCEPT ![s] = Tail(@)]
    /\ challenges' = {m \in challenges : m.connection # Head(backlog[s])}
    /\ ListenFailed(s, ListenCode("system", e), e)
    /\ UNCHANGED <<mode, sock, timed, peer, datagrams, signatures, history>>

(* Seeded bug: a challenge for any event is signed.                        *)
AcceptsAnyChallenge(s, m) == m \in ChallengeMessages

(* The checks of receive_challenge.                                        *)
AcceptsChallenge(s, m) == m.event = event[s]

(* The challenge arrives whole.  For another event it is skipped; else it  *)
(* is signed next.                                                         *)
ReceiveChallenge(s) ==
    /\ pc[s] = "receive"
    /\ \E m \in challenges :
         /\ m.connection = sock[s]
         /\ \/ /\ AcceptsChallenge(s, m)
               /\ Proceed(s, "sign", 0, m.nonce)
               /\ challenges' = challenges \ {m}
               /\ UNCHANGED <<sock, timed, signatures>>
            \/ /\ ~AcceptsChallenge(s, m)
               /\ NextChallenger(s)
               /\ DisconnectOnEntry(s)
    /\ UNCHANGED <<mode, peer, datagrams, backlog, history>>

(* A broken connection or too many tries cost this challenger its turn;    *)
(* every other failure ends send() with the connection still open.         *)
ReceiveChallengeFailed(s, e) ==
    /\ LET code == AfterFailure(s, ChallengeReceiveCode(e))
           skipped == {"challenge_connection_broken", "ran_out_of_tries"} IN
         \/ code = "retry" /\ Retry(s)
         \/ code \in skipped /\ NextChallenger(s)
         \/ code \notin skipped \cup {"retry"} /\ Return(s, code, e)
    /\ DisconnectOnEntry(s)
    /\ UNCHANGED <<mode, peer, datagrams, backlog, history>>

ReceiveChallengeFails(s, e) ==
    /\ pc[s] = "receive"
    /\ ReceiveChallengeFailed(s, e)

(* SO_RCVTIMEO runs out before the challenge is there.                     *)
ReceiveChallengeTimeout(s) ==
    /\ pc[s] = "receive"
    /\ timed[s]
    /\ \A m \in challenges : m.connection # sock[s]
    /\ ReceiveChallengeFailed(s, "EAGAIN")

(* m_signator.sign over the event being sent and the nonce received.       *)
Sign(s) ==
    /\ pc[s] = "sign"
    /\ vouched' = vouched \cup
         {[sender |-> s, event |-> event[s], nonce |-> nonce[s]]}
    /\ Proceed(s, "reply", TryTransfer, nonce[s])
    /\ UNCHANGED <<mode, sock, timed, peer, network, used, aired, issued,
                   delivered>>

SignFails(s) ==
    /\ pc[s] = "sign"
    /\ Return(s, "internal_signing_error", "none")
    /\ UNCHANGED <<mode, sock, timed, peer, network, history>>

(* The signature message is written, the connection closed and the next    *)
(* challenger served.  A receiver that has left gets nothing.              *)
SendSignature(s) ==
    /\ pc[s] = "reply"
    /\ signatures' = signatures \cup
         {m \in {[connection |-> sock[s], event |-> event[s],
                  nonce |-> nonce[s], id |-> SenderId[s], signer |-> s]} :
            \E r \in Receivers : sock[r] = sock[s]}
    /\ sock' = [sock EXCEPT ![s] = NoConnection]
    /\ timed' = [timed EXCEPT ![s] = FALSE]
    /\ NextChallenger(s)
    /\ UNCHANGED <<mode, peer, datagrams, backlog, challenges, history>>

SendSignatureFails(s, e) ==
    /\ pc[s] = "reply"
    /\ LET code == AfterFailure(s, ChallengeSendCode(e))
           skipped == {"challenge_connection_broken", "ran_out_of_tries"} IN
         \/ code = "retry" /\ Retry(s)
         \/ code \in skipped /\ NextChallenger(s)
         \/ code \notin skipped \cup {"retry"} /\ Return(s, code, e)
    /\ DisconnectOnEntry(s)
    /\ UNCHANGED <<mode, peer, datagrams, backlog, history>>

-----------------------------------------------------------------------------
(* await()                                                                 *)

Await(r) ==
    /\ pc[r] = "idle"
    /\ SetMode(r, "receiver")
    /\ pc' = [pc EXCEPT ![r] = "event"]
    /\ result' = [result EXCEPT ![r] = NoResult]
    /\ UNCHANGED <<sock, timed, tries, loop, event, nonce, peer, network, history>>

(* std::find over the events passed to await().                            *)
WantsEvent(r, e) == e \in Wanted[r]

(* A datagram is received; the network may hold a copy of it.  A wanted    *)
(* event makes the receiver connect to its sender.                         *)
ReceiveEvent(r) ==
    /\ pc[r] = "event"
    /\ \E d \in datagrams[r] :
         /\ \E rest \in {datagrams[r], datagrams[r] \ {d}} :
              datagrams' = [datagrams EXCEPT ![r] = rest]
         /\ \/ /\ WantsEvent(r, d.event)
               /\ AttemptsLeft(r)
               /\ pc' = [pc EXCEPT ![r] = "connect"]
               /\ tries' = [tries EXCEPT ![r] = TryConnecting]
               /\ event' = [event EXCEPT ![r] = d.event]
               /\ peer' = [peer EXCEPT ![r] = d.from]
               /\ UNCHANGED <<loop, nonce, result>>
               /\ Disconnect(r)
            \/ /\ ~WantsEvent(r, d.event)
               /\ UNCHANGED <<locals, peer, sock, timed, challenges, signatures>>
    /\ UNCHANGED <<mode, backlog, history>>

(* Out of tries, await() starts over with as many: only a failure that is  *)
(* not to be retried makes a difference.                                   *)
ReceiveEventFails(r, e) ==
    /\ pc[r] = "event"
    /\ BroadcastReceiveCode(e) # "retry"
    /\ Return(r, BroadcastReceiveCode(e), e)
    /\ UNCHANGED <<mode, sock, timed, peer, network, history>>

(* The acceptor of a node exists from its first send() on, also between    *)
(* two calls, and queues TrustedCount connections.                         *)
Connectable(r) ==
    /\ mode[peer[r]] = "sender"
    /\ Len(backlog[peer[r]]) < TrustedCount

(* A connection, and the random nonce for it, are new.                     *)
NewConnection(r) == <<r, used[r] + 1>>

(* Seeded bug: the nonce is filled once and then kept.                     *)
NonceOfOldConnection(r) == <<r, 1>>

NewNonce(r) == <<r, used[r] + 1>>

(* The connection is made and gets the communication timeout;              *)
(* challenge_nonce is filled.                                              *)
Connect(r) ==
    /\ pc[r] = "connect"
    /\ Connectable(r)
    /\ sock' = [sock EXCEPT ![r] = NewConnection(r)]
    /\ SetCommunicationTimeout(r)
    /\ backlog' = [backlog EXCEPT ![peer[r]] = Append(@, NewConnection(r))]
    /\ used' = [used EXCEPT ![r] = @ + 1]
    /\ Proceed(r, "challenge", TryTransfer, NewNonce(r))
    /\ UNCHANGED <<mode, peer, datagrams, challenges, signatures, aired, issued,
                   vouched, delivered>>

ConnectTimeoutFails(r, e) ==
    /\ pc[r] = "connect"
    /\ Connectable(r)
    /\ sock' = [sock EXCEPT ![r] = NewConnection(r)]
    /\ backlog' = [backlog EXCEPT ![peer[r]] = Append(@, NewConnection(r))]
    /\ used' = [used EXCEPT ![r] = @ + 1]
    /\ Return(r, "system", e)
    /\ UNCHANGED <<mode, timed, peer, datagrams, challenges, signatures, aired,
                   issued, vouched, delivered>>

ConnectFailed(r, e) ==
    /\ LET code == AfterFailure(r, ConnectCode(e))
           skipped == {"cannot_connect_to_sender", "ran_out_of_tries"} IN
         \/ code = "retry" /\ Retry(r)
         \/ code \in skipped /\ TryReceiveEvent(r)
         \/ code \notin skipped \cup {"retry"} /\ Return(r, code, e)
    /\ UNCHANGED <<mode, sock, timed, peer, network, history>>

ConnectFails(r, e) ==
    /\ pc[r] = "connect"
    /\ ConnectFailed(r, e)

(* No one listens at the sender, or its queue is full.                     *)
ConnectTimeout(r) ==
    /\ pc[r] = "connect"
    /\ ~Connectable(r)
    /\ ConnectFailed(r, "ETIMEDOUT")

(* The challenge is written to the connection.  It is lost when the sender *)
(* has closed, or never taken, its end.                                    *)
SendChallenge(r) ==
    /\ pc[r] = "challenge"
    /\ issued' = issued \cup
         {[receiver |-> r, event |-> event[r], nonce |-> nonce[r]]}
    /\ challenges' = challenges \cup
         {m \in {[connection |-> sock[r], event |-> event[r],
                  nonce |-> nonce[r]]} :
            \E s \in Senders :
               \/ sock[s] = sock[r]
               \/ \E i \in 1..Len(backlog[s]) : backlog[s][i] = sock[r]}
    /\ Proceed(r, "signature", TryTransfer, nonce[r])
    /\ UNCHANGED <<mode, sock, timed, peer, datagrams, backlog, signatures, used,
                   aired, vouched, delivered>>

SendChallengeFails(r, e) ==
    /\ pc[r] = "challenge"
    /\ LET code == AfterFailure(r, ChallengeSendCode(e)) IN
         \/ code = "retry" /\ Retry(r)
         \/ code = "challenge_connection_broken" /\ TryConnectToSender(r)
         \/ code = "ran_out_of_tries" /\ TryReceiveEvent(r)
         \/ /\ code \notin {"retry", "challenge_connection_broken",
                            "ran_out_of_tries"}
            /\ Return(r, code, e)
    /\ DisconnectOnEntry(r)
    /\ UNCHANGED <<mode, peer, datagrams, backlog, history>>

(* Seeded bug: the signature is not verified under the listed key.         *)
AcceptsUnverified(r, m) ==
    /\ m.event = event[r]
    /\ m.nonce = nonce[r]
    /\ m.id < TrustedCount

(* The checks of receive_signature: event, nonce, sender id, and that the  *)
(* signature was made with the key listed for that id.                     *)
AcceptsSignature(r, m) ==
    /\ m.event = event[r]
    /\ m.nonce = nonce[r]
    /\ m.id < TrustedCount
    /\ PrivateKey[m.signer] = PublicKeys[m.id]

(* The signature arrives whole.  await() returns the event, or starts over *)
(* without closing the connection.                                         *)
ReceiveSignature(r) ==
    /\ pc[r] = "signature"
    /\ \E m \in signatures :
         /\ m.connection = sock[r]
         /\ \/ /\ AcceptsSignature(r, m)
               /\ delivered' = [delivered EXCEPT ![r] = Append(@,
                    [receiver |-> r, event |-> event[r], nonce |-> nonce[r]])]
               /\ Return(r, "ok", "none")
               /\ Disconnect(r)
            \/ /\ ~AcceptsSignature(r, m)
               /\ TryReceiveEvent(r)
               /\ signatures' = signatures \ {m}
               /\ UNCHANGED <<sock, timed, challenges, delivered>>
    /\ UNCHANGED <<mode, peer, datagrams, backlog, used, aired, issued, vouched>>

(* set_verification_key or verify fails.                                   *)
VerifyFails(r) ==
    /\ pc[r] = "signature"
    /\ \E m \in signatures :
         /\ m.connection = sock[r]
         /\ m.event = event[r] /\ m.nonce = nonce[r] /\ m.id < TrustedCount
         /\ signatures' = signatures \ {m}
    /\ \/ Return(r, "internal_verification_error", "none")
       \/ TryReceiveEvent(r)
    /\ UNCHANGED <<mode, sock, timed, peer, datagrams, backlog, challenges, history>>

(* Running out of tries is an error of await() here.                       *)
ReceiveSignatureFailed(r, e) ==
    /\ LET code == AfterFailure(r, ChallengeReceiveCode(e)) IN
         \/ code = "retry" /\ Retry(r)
         \/ code = "challenge_connection_broken" /\ TryConnectToSender(r)
         \/ /\ code \notin {"retry", "challenge_connection_broken"}
            /\ Return(r, code, e)
    /\ DisconnectOnEntry(r)
    /\ UNCHANGED <<mode, peer, datagrams, backlog, history>>

ReceiveSignatureFails(r, e) ==
    /\ pc[r] = "signature"
    /\ ReceiveSignatureFailed(r, e)

ReceiveSignatureTimeout(r) ==
    /\ pc[r] = "signature"
    /\ timed[r]
    /\ \A m \in signatures : m.connection # sock[r]
    /\ ReceiveSignatureFailed(r, "EAGAIN")

-----------------------------------------------------------------------------
(* The environment                                                         *)

LoseDatagram(r, d) ==
    /\ datagrams' = [datagrams EXCEPT ![r] = @ \ {d}]
    /\ UNCHANGED <<mode, sock, timed, locals, peer, backlog, challenges,
                   signatures, history>>

(* A node restarts: all its state and its sockets are gone, and with them  *)
(* what was under way to it.  It keeps nothing across a restart.           *)
Held(n) ==
    {sock[n]} \cup
    (IF n \in Senders THEN {backlog[n][i] : i \in 1..Len(backlog[n])} ELSE {})

Reboot(n) ==
    /\ mode[n] # "none"
    /\ mode' = [mode EXCEPT ![n] = "none"]
    /\ Return(n, "none", "none")
    /\ sock' = [sock EXCEPT ![n] = NoConnection]
    /\ timed' = [timed EXCEPT ![n] = FALSE]
    /\ IF n \in Senders
       THEN /\ backlog' = [backlog EXCEPT ![n] = << >>]
            /\ challenges' = {m \in challenges : m.connection \notin Held(n)}
            /\ UNCHANGED <<datagrams, signatures>>
       ELSE /\ datagrams' = [datagrams EXCEPT ![n] = {}]
            /\ signatures' = {m \in signatures : m.connection \notin Held(n)}
            /\ UNCHANGED <<backlog, challenges>>
    /\ UNCHANGED <<peer, history>>

-----------------------------------------------------------------------------
(* What a call does when nothing fails: a write is done, what is there is  *)
(* read, a wait ends with its timeout.                                     *)
SenderStep(s) ==
    \/ Broadcast(s)
    \/ Accept(s)
    \/ ListenTimeout(s)
    \/ ReceiveChallenge(s)
    \/ ReceiveChallengeTimeout(s)
    \/ Sign(s)
    \/ SendSignature(s)

ReceiverStep(r) ==
    \/ ReceiveEvent(r)
    \/ Connect(r)
    \/ ConnectTimeout(r)
    \/ SendChallenge(r)
    \/ ReceiveSignature(r)
    \/ ReceiveSignatureTimeout(r)

SenderFault(s) ==
    \/ SignFails(s)
    \/ \E e \in Errnos :
         \/ SetModeFails(s, e)
         \/ BroadcastFails(s, e)
         \/ SelectFails(s, e)
         \/ AcceptFails(s, e)
         \/ AcceptTimeoutFails(s, e)
         \/ ReceiveChallengeFails(s, e)
         \/ SendSignatureFails(s, e)

ReceiverFault(r) ==
    \/ VerifyFails(r)
    \/ \E e \in Errnos :
         \/ SetModeFails(r, e)
         \/ ReceiveEventFails(r, e)
         \/ ConnectFails(r, e)
         \/ ConnectTimeoutFails(r, e)
         \/ SendChallengeFails(r, e)
         \/ ReceiveSignatureFails(r, e)

Next ==
    \/ \E s \in Senders :
         \/ \E e \in Events : Send(s, e)
         \/ SenderStep(s)
         \/ SenderFault(s)
         \/ Reboot(s)
    \/ \E r \in Receivers :
         \/ Await(r)
         \/ ReceiverStep(r)
         \/ ReceiverFault(r)
         \/ Reboot(r)
         \/ \E d \in datagrams[r] : LoseDatagram(r, d)

Spec == Init /\ [][Next]_vars

(* FreeRTOS runs every task, and a blocking call ends once it can.  Nobody *)
(* has to call send() or await(), and no datagram has to arrive.           *)
Fairness ==
    /\ \A s \in Senders : WF_vars(SenderStep(s))
    /\ \A r \in Receivers : WF_vars(ReceiverStep(r) /\ pc[r] # "event")

FairSpec == Spec /\ Fairness

-----------------------------------------------------------------------------
(* Safety                                                                  *)

(* The receiver whose challenge the message or signature answers.          *)
Challenging(r) == pc[r] = "signature"

(* await() only returns events that a trusted sender signed over exactly   *)
(* the nonce this receiver had issued for that event: await() ends in      *)
(* received_event only behind receive_signature, whatever was lost,        *)
(* duplicated, replayed or left over from an earlier call.                 *)
AuthenticDelivery ==
    \A r \in Receivers : \A i \in 1..Len(delivered[r]) :
        LET c == delivered[r][i] IN
        /\ c.receiver = r
        /\ c \in issued
        /\ \E s \in Trusted :
             [sender |-> s, event |-> c.event, nonce |-> c.nonce] \in vouched

(* When a sender has read a challenge from a connection on which its       *)
(* receiver is still waiting, the two agree on who talks to whom, on the   *)
(* event and on the nonce, and so does the signature on its way back.      *)
(* receive_challenge compares the event because a connection may have      *)
(* waited in the acceptor's queue since an earlier send() of another one.  *)
SessionAgreement ==
    \A r \in Receivers : Challenging(r) =>
        /\ \A s \in Senders :
             (pc[s] \in {"sign", "reply"} /\ sock[s] = sock[r]) =>
                /\ peer[r] = s
                /\ event[s] = event[r]
                /\ nonce[s] = nonce[r]
        /\ \A m \in signatures : m.connection = sock[r] =>
                /\ m.signer = peer[r]
                /\ m.event = event[r]
                /\ m.nonce = nonce[r]

(* No challenge is answered to the caller twice: duplicated datagrams and  *)
(* the unconditional resends of send() make a receiver hear of one event   *)
(* several times, but each delivery costs a nonce of its own.              *)
DeliveredOnce ==
    \A r \in Receivers : \A i, j \in 1..Len(delivered[r]) :
        delivered[r][i].nonce = delivered[r][j].nonce => i = j

(* send() and await() keep the promise of EventDelivery.                   *)
Promise == INSTANCE EventDelivery WITH
    Nonces <- Receivers \X (1..MaxAttempts),
    sending <- [s \in Senders |-> event[s]],
    outstanding <- [r \in Receivers |->
        IF Challenging(r)
        THEN {[receiver |-> r, event |-> event[r], nonce |-> nonce[r]]}
        ELSE {}]

ImplementsEventDelivery == Promise!Spec

-----------------------------------------------------------------------------
(* Liveness                                                                *)

(* send() returns, whatever the receivers do: a timeout bounds each call   *)
(* of a socket (.ipp:814), and the loops over tries and challengers end.   *)
SendReturns == \A s \in Senders : pc[s] # "idle" ~> pc[s] = "idle"

(* A socket call reports a broken connection, and the goto of .ipp:248 or  *)
(* 261 makes another one.                                                  *)
ConnectionBreaks(r) ==
    /\ \E e \in Errnos : SendChallengeFails(r, e) \/ ReceiveSignatureFails(r, e)
    /\ pc'[r] = "connect"

(* A receiver that has heard of an event returns from await() or goes back *)
(* to waiting for datagrams, even when the sender restarts or never        *)
(* answers, unless its connections break again and again: the goto that    *)
(* follows has no bound in the code, and is the only way to stay.          *)
HandshakeSettles ==
    \A r \in Receivers :
        \/ pc[r] \in {"connect", "challenge", "signature"}
               ~> pc[r] \in {"idle", "event"}
        \/ []<><<ConnectionBreaks(r)>>_vars

-----------------------------------------------------------------------------
(* What the code's comments and logs say and the code does not do          *)

(* sender_node_task.cpp:55-59 logs "Sent event" when send() returns ok and *)
(* an error otherwise.                                                     *)
SendOkMeansBroadcast ==
    \A s \in Senders : result[s].code = "ok" => aired[s]

(* network_event_handler.ipp:543-550: an aborted connection or a lack of   *)
(* memory at listen() "might be resolved in next retry", so it does not    *)
(* end send().                                                             *)
TemporaryListenErrorsTolerated ==
    \A s \in Senders :
        result[s].code = "internal_listening_error" =>
            result[s].errno \notin TemporaryListenErrnos

=============================================================================
