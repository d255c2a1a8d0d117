------------------------- MODULE EventDeliveryProofs -------------------------
(***************************************************************************)
(* The refinement: send() and await(), over any network and any number of  *)
(* nodes, implement EventDelivery.                                         *)
(***************************************************************************)
EXTENDS NetworkEventHandlerProofs

-----------------------------------------------------------------------------
(* What the refinement needs beyond IInv                                   *)

(* The blocking calls that send() gets to behind a broadcast only.         *)
OnAir == {"listen", "receive", "sign", "reply"}

(* A sender has an event exactly while send() runs, and takes challengers  *)
(* for it only after it has broadcast it.                                  *)
OnAirWhenServing ==
    \A s \in Senders :
        /\ pc[s] = "idle" => event[s] = None
        /\ pc[s] \in OnAir => aired[s]

WasIssued(e, n) ==
    \E r \in Receivers : [receiver |-> r, event |-> e, nonce |-> n] \in issued

(* What a sender is about to sign was issued by a receiver, for the event  *)
(* it is sending; so was all that is on its way to a sender.               *)
ChallengesIssued ==
    /\ \A m \in challenges : WasIssued(m.event, m.nonce)
    /\ \A s \in Senders : pc[s] = "sign" => WasIssued(event[s], nonce[s])

(* The nonces of the challenges issued are numbered by the connections     *)
(* they were issued on, and the next one is not among them.                *)
NoncesFresh ==
    /\ \A r \in Receivers :
         /\ used[r] \in 0..MaxAttempts
         /\ InSession(r) => used[r] # 0
         /\ pc[r] = "connect" => AttemptsLeft(r)
    /\ \A c \in issued : \E r \in Receivers : \E k \in 0..used[r] :
         /\ c.nonce = <<r, k>>
         /\ pc[r] = "challenge" => k < used[r]

PromiseInv ==
    /\ IInv
    /\ OnAirWhenServing
    /\ ChallengesIssued
    /\ NoncesFresh

-----------------------------------------------------------------------------
(* The sender's side: from the call of send() to its return                *)

(* The call goes on with its event, and gets on the air by a broadcast     *)
(* only; or it is over.                                                    *)
GoesOnOrEnds(s) ==
    \/ pc'[s] = "idle" /\ event'[s] = None
    \/ /\ pc'[s] # "idle"
       /\ event'[s] = event[s]
       /\ pc'[s] \in OnAir => pc[s] \in OnAir

LEMMA ReturnEnds ==
  ASSUME LocalsType, NEW s \in Senders, NEW c, NEW e, Return(s, c, e)
  PROVE  GoesOnOrEnds(s)
  BY NodesAreApart DEF LocalsType, Return, GoesOnOrEnds

LEMMA RetryGoesOn ==
  ASSUME NEW s \in Senders, pc[s] # "idle", Retry(s)
  PROVE  GoesOnOrEnds(s)
  BY DEF Retry, GoesOnOrEnds

LEMMA ProceedGoesOn ==
  ASSUME LocalsType, NEW s \in Senders, NEW label \in OnAir, NEW k, NEW x,
         pc[s] \in OnAir, Proceed(s, label, k, x)
  PROVE  GoesOnOrEnds(s)
  BY NodesAreApart DEF LocalsType, Proceed, GoesOnOrEnds, OnAir

LEMMA NextTryGoesOn ==
  ASSUME LocalsType, NEW s \in Senders, NextTry(s)
  PROVE  GoesOnOrEnds(s)
<1>1. CASE Return(s, "ok", "none")
  BY <1>1, ReturnEnds
<1>2. CASE pc' = [pc EXCEPT ![s] = "broadcast"] /\ UNCHANGED <<event, result>>
  BY <1>2, NodesAreApart DEF LocalsType, GoesOnOrEnds, OnAir
<1> QED
  BY <1>1, <1>2 DEF NextTry

LEMMA NextChallengerGoesOn ==
  ASSUME LocalsType, NEW s \in Senders, pc[s] \in OnAir, NextChallenger(s)
  PROVE  GoesOnOrEnds(s)
<1>1. CASE NextTry(s)
  BY <1>1, NextTryGoesOn
<1>2. CASE pc' = [pc EXCEPT ![s] = "listen"] /\ UNCHANGED <<event, result>>
  BY <1>2, NodesAreApart DEF LocalsType, GoesOnOrEnds, OnAir
<1> QED
  BY <1>1, <1>2 DEF NextChallenger

LEMMA ListenFailedGoesOn ==
  ASSUME LocalsType, NEW s \in Senders, NEW c, NEW e, pc[s] = "listen",
         ListenFailed(s, c, e)
  PROVE  GoesOnOrEnds(s)
  BY ReturnEnds, NextTryGoesOn, NextChallengerGoesOn DEF ListenFailed, OnAir

LEMMA ServingFailedGoesOn ==
  ASSUME LocalsType, NEW s \in Senders, NEW c, NEW e, pc[s] \in OnAir,
         Retry(s) \/ NextChallenger(s) \/ Return(s, c, e)
  PROVE  GoesOnOrEnds(s)
  BY ReturnEnds, RetryGoesOn, NextChallengerGoesOn DEF OnAir

(* Every step of a sender but the call of send() and the broadcast.        *)
LEMMA SenderGoesOn ==
  ASSUME IInv, NEW s \in Senders,
         \/ Accept(s) \/ ListenTimeout(s) \/ ReceiveChallenge(s)
         \/ ReceiveChallengeTimeout(s) \/ Sign(s) \/ SendSignature(s)
         \/ SenderFault(s) \/ Reboot(s)
  PROVE  GoesOnOrEnds(s) /\ UNCHANGED <<aired, delivered, issued>>
<1>1. LocalsType
  BY TypeParts DEF IInv
<1>2. UNCHANGED <<aired, delivered, issued>>
  BY DEF Accept, ListenTimeout, ReceiveChallenge, ReceiveChallengeTimeout,
         ReceiveChallengeFailed, Sign, SendSignature, SenderFault, SignFails,
         SetModeFails, BroadcastFails, SelectFails, AcceptFails,
         AcceptTimeoutFails, ReceiveChallengeFails, SendSignatureFails, Reboot,
         history
<1> SUFFICES GoesOnOrEnds(s)
  BY <1>2
<1>3. CASE Accept(s)
  BY <1>1, <1>3, NodesAreApart DEF Accept, LocalsType, GoesOnOrEnds, OnAir
<1>4. CASE ListenTimeout(s) \/ (\E e \in Errnos : SelectFails(s, e) \/ AcceptFails(s, e))
  BY <1>1, <1>4, ListenFailedGoesOn DEF ListenTimeout, SelectFails, AcceptFails
<1>5. CASE ReceiveChallenge(s)
  <2>1. pc[s] \in OnAir
    BY <1>5 DEF ReceiveChallenge, OnAir
  <2>2. CASE \E m \in challenges : Proceed(s, "sign", 0, m.nonce)
    BY <1>1, <2>1, <2>2, ProceedGoesOn DEF OnAir
  <2>3. CASE NextChallenger(s)
    BY <1>1, <2>1, <2>3, NextChallengerGoesOn
  <2> QED
    BY <1>5, <2>2, <2>3 DEF ReceiveChallenge
<1>6. CASE \/ ReceiveChallengeTimeout(s)
           \/ \E e \in Errnos : ReceiveChallengeFails(s, e)
  <2>1. PICK e : pc[s] = "receive" /\ ReceiveChallengeFailed(s, e)
    BY <1>6 DEF ReceiveChallengeTimeout, ReceiveChallengeFails
  <2> QED
    BY <1>1, <2>1, ServingFailedGoesOn DEF ReceiveChallengeFailed, OnAir
<1>7. CASE Sign(s)
  BY <1>1, <1>7, ProceedGoesOn DEF Sign, OnAir
<1>8. CASE SendSignature(s)
  BY <1>1, <1>8, NextChallengerGoesOn DEF SendSignature, OnAir
<1>9. CASE SignFails(s)
  BY <1>1, <1>9, ReturnEnds DEF SignFails
<1>10. CASE \E e \in Errnos : SetModeFails(s, e) \/ AcceptTimeoutFails(s, e)
  BY <1>1, <1>10, ReturnEnds DEF SetModeFails, AcceptTimeoutFails
<1>11. CASE \E e \in Errnos : BroadcastFails(s, e)
  BY <1>1, <1>11, ReturnEnds, RetryGoesOn, NextTryGoesOn DEF BroadcastFails
<1>12. CASE \E e \in Errnos : SendSignatureFails(s, e)
  BY <1>1, <1>12, ServingFailedGoesOn DEF SendSignatureFails, OnAir
<1>13. CASE Reboot(s)
  BY <1>1, <1>13, ReturnEnds DEF Reboot
<1> QED
  BY <1>3, <1>4, <1>5, <1>6, <1>7, <1>8, <1>9, <1>10, <1>11, <1>12, <1>13
     DEF SenderFault

-----------------------------------------------------------------------------
(* PromiseInv is inductive                                                 *)

(* The sender's part, for a step of the sender n.                          *)
LEMMA OnAirKept ==
  ASSUME OnAirWhenServing, NEW n \in Senders, OthersKeepLocals(n),
         GoesOnOrEnds(n), UNCHANGED aired
  PROVE  OnAirWhenServing'
<1> SUFFICES ASSUME NEW s \in Senders
             PROVE  /\ pc'[s] = "idle" => event'[s] = None
                    /\ pc'[s] \in OnAir => aired'[s]
  BY DEF OnAirWhenServing
<1>1. CASE s = n
  BY <1>1 DEF OnAirWhenServing, GoesOnOrEnds, OnAir
<1>2. CASE s # n
  BY <1>2, NodesAreApart DEF OnAirWhenServing, OthersKeepLocals
<1> QED
  BY <1>1, <1>2

LEMMA OnAirAtSend ==
  ASSUME IInv, OnAirWhenServing, NEW n \in Senders, NEW e \in Events, Send(n, e)
  PROVE  OnAirWhenServing'
<1>1. /\ pc'[n] = "broadcast"
      /\ \A s \in Senders : s # n => /\ pc'[s] = pc[s]
                                     /\ event'[s] = event[s]
                                     /\ aired'[s] = aired[s]
  BY NodesAreApart, TypeParts DEF IInv, LocalsType, RestType, Send
<1> QED
  BY <1>1 DEF OnAirWhenServing, OnAir

LEMMA OnAirAtBroadcast ==
  ASSUME IInv, OnAirWhenServing, NEW n \in Senders, Broadcast(n)
  PROVE  OnAirWhenServing'
<1>1. /\ pc'[n] = "listen"
      /\ aired'[n] = TRUE
      /\ \A s \in Senders : s # n => /\ pc'[s] = pc[s]
                                     /\ event'[s] = event[s]
                                     /\ aired'[s] = aired[s]
  BY NodesAreApart, TypeParts DEF IInv, LocalsType, RestType, Broadcast, Proceed
<1> QED
  BY <1>1 DEF OnAirWhenServing

(* A receiver does not touch the senders' variables.                       *)
LEMMA OnAirElsewhere ==
  ASSUME OnAirWhenServing, NEW r \in Receivers, OthersKeepLocals(r),
         UNCHANGED aired
  PROVE  OnAirWhenServing'
  BY NodesAreApart DEF OnAirWhenServing, OthersKeepLocals

(* A receiver goes to connect with a connection left.                      *)
MayConnect(r) == pc'[r] = "connect" => pc[r] = "connect" \/ AttemptsLeft(r)

LEMMA ReceiverMayConnect ==
  ASSUME IInv, NEW r \in Receivers, ReceiverLeaves(r) \/ ReceiveSignature(r)
  PROVE  MayConnect(r)
<1> USE NodesAreApart
<1>1. LocalsType
  BY TypeParts DEF IInv
<1>2. ASSUME NEW c, NEW e, Return(r, c, e)
      PROVE  MayConnect(r)
  BY <1>1, <1>2 DEF Return, LocalsType, MayConnect
<1>3. CASE Retry(r) \/ TryReceiveEvent(r) \/ TryConnectToSender(r)
  BY <1>1, <1>3 DEF Retry, TryReceiveEvent, TryConnectToSender, Proceed,
                    LocalsType, MayConnect
<1>4. CASE Await(r) \/ ReceiveEvent(r) \/ (\E d \in datagrams[r] : LoseDatagram(r, d))
  BY <1>1, <1>4 DEF Await, ReceiveEvent, LoseDatagram, locals, LocalsType,
                    MayConnect
<1>5. CASE ConnectTimeout(r) \/ (\E e \in Errnos : ConnectFails(r, e))
  BY <1>2, <1>3, <1>5 DEF ConnectTimeout, ConnectFails, ConnectFailed
<1>6. CASE \/ ReceiveSignatureTimeout(r)
           \/ \E e \in Errnos : ReceiveSignatureFails(r, e) \/ SendChallengeFails(r, e)
  BY <1>2, <1>3, <1>6 DEF ReceiveSignatureTimeout, ReceiveSignatureFails,
                          ReceiveSignatureFailed, SendChallengeFails
<1>7. CASE \/ ReceiveSignature(r) \/ VerifyFails(r) \/ Reboot(r)
           \/ \E e \in Errnos : SetModeFails(r, e) \/ ReceiveEventFails(r, e)
  BY <1>2, <1>3, <1>7 DEF ReceiveSignature, VerifyFails, Reboot, SetModeFails,
                          ReceiveEventFails
<1> QED
  BY <1>4, <1>5, <1>6, <1>7 DEF ReceiverLeaves

(* The rest, for a step that issues nothing and opens no session.          *)
IssuesNothing(n) ==
    /\ OthersKeepLocals(n)
    /\ challenges' \subseteq challenges
    /\ UNCHANGED <<used, issued>>
    /\ n \in Senders /\ pc'[n] = "sign" =>
         /\ pc[n] = "sign"
         /\ event'[n] = event[n]
         /\ nonce'[n] = nonce[n]
    /\ n \in Receivers =>
         /\ pc'[n] = "challenge" => pc[n] = "challenge"
         /\ pc'[n] = "signature" => pc[n] = "signature"
         /\ MayConnect(n)

LEMMA QuietIssuesNothing ==
  ASSUME NEW n \in Nodes, Quiet(n), n \in Receivers => MayConnect(n)
  PROVE  IssuesNothing(n)
  BY DEF Quiet, QuietSender, QuietReceiver, IssuesNothing

LEMMA IssuedKept ==
  ASSUME ChallengesIssued, NoncesFresh, NEW n \in Nodes, IssuesNothing(n)
  PROVE  ChallengesIssued' /\ NoncesFresh'
<1>1. \A e, x : WasIssued(e, x)' <=> WasIssued(e, x)
  BY DEF WasIssued, IssuesNothing
<1>2. ASSUME NEW s \in Senders, pc'[s] = "sign"
      PROVE  WasIssued(event'[s], nonce'[s])
  <2>1. pc[s] = "sign" /\ event'[s] = event[s] /\ nonce'[s] = nonce[s]
    BY <1>2, NodesAreApart DEF IssuesNothing, OthersKeepLocals
  <2> QED
    BY <2>1 DEF ChallengesIssued
<1>3. \A m \in challenges' : WasIssued(m.event, m.nonce)
  BY DEF ChallengesIssued, IssuesNothing
<1>4. ASSUME NEW r \in Receivers
      PROVE  /\ pc'[r] = "challenge" => pc[r] = "challenge"
             /\ pc'[r] = "signature" => pc[r] = "signature"
             /\ pc'[r] = "connect" => pc[r] = "connect" \/ AttemptsLeft(r)
  BY NodesAreApart DEF IssuesNothing, OthersKeepLocals, MayConnect
<1>5. ChallengesIssued'
  <2>1. \A s \in Senders : pc'[s] = "sign" => WasIssued(event'[s], nonce'[s])
    BY <1>2
  <2> QED
    BY <1>1, <1>3, <2>1 DEF ChallengesIssued, WasIssued, IssuesNothing
<1>6. NoncesFresh'
  BY <1>4 DEF NoncesFresh, IssuesNothing, InSession, AttemptsLeft
<1> QED
  BY <1>5, <1>6

(* A challenge that is accepted was on its way to the sender.              *)
LEMMA IssuedAtReceiveChallenge ==
  ASSUME IInv, ChallengesIssued, NoncesFresh, NEW s \in Senders,
         ReceiveChallenge(s)
  PROVE  ChallengesIssued' /\ NoncesFresh'
<1> USE NodesAreApart
<1>1. LocalsType /\ SocketsType
  BY TypeParts DEF IInv
<1>2. /\ pc[s] = "receive"
      /\ UNCHANGED <<used, issued>>
  BY DEF ReceiveChallenge, history
<1>3. CASE NextChallenger(s) /\ DisconnectOnEntry(s)
  <2>1. /\ OthersKeepLocals(s)
        /\ pc'[s] \in {"idle", "broadcast", "listen"}
    BY <1>1, <1>3, NextChallengerLocals
  <2>2. challenges' \subseteq challenges
    BY <1>1, <1>3, EntrySockets
  <2> QED
    BY <1>2, <2>1, <2>2, IssuedKept DEF IssuesNothing
<1>4. ASSUME NEW m \in challenges, AcceptsChallenge(s, m),
             Proceed(s, "sign", 0, m.nonce), challenges' = challenges \ {m}
      PROVE  ChallengesIssued' /\ NoncesFresh'
  <2>1. m.nonce \in Nonces /\ m.event = event[s]
    BY <1>1, <1>4 DEF SocketsType, ChallengeMessages, AcceptsChallenge
  <2>2. /\ OthersKeepLocals(s)
        /\ nonce'[s] = m.nonce
        /\ event' = event
    <3>1. 0 \in Nat
      OBVIOUS
    <3> QED
      BY <1>1, <1>4, <2>1, <3>1, ProceedLocals
  <2>3. WasIssued(event[s], m.nonce)
    BY <2>1 DEF ChallengesIssued
  <2>4. ChallengesIssued'
    <3>1. \A z \in Senders : pc'[z] = "sign" => WasIssued(event'[z], nonce'[z])
      BY <2>2, <2>3 DEF OthersKeepLocals, ChallengesIssued
    <3>2. \A x \in challenges' : WasIssued(x.event, x.nonce)
      BY <1>4 DEF ChallengesIssued
    <3> QED
      BY <1>2, <3>1, <3>2 DEF ChallengesIssued, WasIssued
  <2>5. NoncesFresh'
    <3>1. \A r \in Receivers : pc'[r] = pc[r]
      BY <2>2 DEF OthersKeepLocals
    <3> QED
      BY <1>2, <3>1 DEF NoncesFresh, InSession, AttemptsLeft
  <2> QED
    BY <2>4, <2>5
<1> QED
  BY <1>3, <1>4 DEF ReceiveChallenge

(* A new connection has the next number, and nothing issued has it yet.    *)
LEMMA IssuedAtNewConnection ==
  ASSUME IInv, ChallengesIssued, NoncesFresh, NEW r \in Receivers,
         NewConnectionMade(r), used[r] < MaxAttempts
  PROVE  ChallengesIssued' /\ NoncesFresh'
<1> USE NodesAreApart
<1>1. /\ used \in [Receivers -> Nat]
      /\ used' = [used EXCEPT ![r] = @ + 1]
      /\ UNCHANGED <<challenges, issued>>
      /\ pc'[r] \in {"idle", "challenge"}
      /\ OthersKeepLocals(r)
  BY TypeParts DEF IInv, RestType, NewConnectionMade
<1>2. /\ used'[r] = used[r] + 1
      /\ \A q \in Receivers : q # r => used'[q] = used[q] /\ pc'[q] = pc[q]
  BY <1>1 DEF OthersKeepLocals
<1>3. ChallengesIssued'
  BY <1>1 DEF ChallengesIssued, WasIssued, OthersKeepLocals
<1>4. ASSUME NEW q \in Receivers
      PROVE  /\ used'[q] \in 0..MaxAttempts
             /\ InSession(q)' => used'[q] # 0
             /\ pc'[q] = "connect" => used'[q] < MaxAttempts
  <2>1. used[q] \in 0..MaxAttempts /\ (InSession(q) => used[q] # 0)
    BY DEF NoncesFresh
  <2>2. CASE q = r
    BY <1>1, <1>2, <2>1, <2>2, CountsAssumption
  <2>3. CASE q # r
    BY <1>2, <2>1, <2>3 DEF InSession, NoncesFresh, AttemptsLeft
  <2> QED
    BY <2>2, <2>3
<1>5. ASSUME NEW c \in issued
      PROVE  \E q \in Receivers : \E k \in 0..used'[q] :
                /\ c.nonce = <<q, k>>
                /\ pc'[q] = "challenge" => k < used'[q]
  <2>1. PICK q \in Receivers : \E k \in 0..used[q] :
                /\ c.nonce = <<q, k>>
                /\ pc[q] = "challenge" => k < used[q]
    BY DEF NoncesFresh
  <2>2. PICK k \in 0..used[q] :
                /\ c.nonce = <<q, k>>
                /\ pc[q] = "challenge" => k < used[q]
    BY <2>1
  <2>3. CASE q = r
    <3>1. used[q] \in Nat /\ used'[q] = used[q] + 1
      BY <1>1, <1>2, <2>3
    <3>2. k \in 0..used'[q] /\ k < used'[q]
      BY <3>1
    <3> QED
      BY <2>2, <3>2
  <2>4. CASE q # r
    BY <1>2, <2>2, <2>4
  <2> QED
    BY <2>3, <2>4
<1> QED
  BY <1>1, <1>3, <1>4, <1>5 DEF NoncesFresh, AttemptsLeft

(* The challenge that is sent is issued, under the nonce of its session.   *)
LEMMA SendChallengeLocals ==
  ASSUME IInv, NEW r \in Receivers, SendChallenge(r)
  PROVE  /\ event[r] \in Wanted[r] /\ event[r] \in Events
         /\ nonce[r] = <<r, used[r]>> /\ used[r] \in Nat
         /\ pc[r] = "challenge" /\ pc'[r] = "signature"
         /\ OthersKeepLocals(r)
         /\ nonce'[r] = nonce[r]
         /\ event' = event
<1>1. /\ event[r] \in Wanted[r]
      /\ nonce[r] = <<r, used[r]>>
      /\ pc[r] = "challenge"
  BY DEF IInv, ReceiverScope, SendChallenge, InSession
<1>2. used[r] \in Nat
  BY TypeParts DEF IInv, RestType
<1>3. nonce[r] \in Nonces
  BY <1>1, <1>2 DEF Nonces
<1>4. /\ OthersKeepLocals(r)
      /\ pc'[r] = "signature"
      /\ nonce'[r] = nonce[r]
      /\ event' = event
  BY <1>3, TypeParts, TriesAreNat, ProceedLocals, NodesAreApart
     DEF IInv, SendChallenge
<1> QED
  BY <1>1, <1>2, <1>4, NodesAssumption

LEMMA IssuedAtSendChallenge ==
  ASSUME IInv, ChallengesIssued, NoncesFresh, NEW r \in Receivers,
         SendChallenge(r)
  PROVE  ChallengesIssued' /\ NoncesFresh'
<1> USE NodesAreApart
<1> DEFINE c == [receiver |-> r, event |-> event[r], nonce |-> nonce[r]]
<1>1. /\ nonce[r] = <<r, used[r]>> /\ used[r] \in Nat
      /\ pc[r] = "challenge" /\ pc'[r] = "signature"
      /\ event' = event
      /\ \A n \in Nodes : nonce'[n] = nonce[n]
      /\ \A n \in Nodes : n # r => pc'[n] = pc[n]
  BY SendChallengeLocals DEF OthersKeepLocals
<1>2. /\ issued' = issued \cup {c}
      /\ \A m \in challenges' : \/ m \in challenges
                                \/ m.event = event[r] /\ m.nonce = nonce[r]
      /\ UNCHANGED used
  BY DEF SendChallenge
<1>3. \A e, x : WasIssued(e, x) => WasIssued(e, x)'
  BY <1>2 DEF WasIssued
<1>4. WasIssued(event[r], nonce[r])'
  BY <1>1, <1>2 DEF WasIssued
<1>5. ChallengesIssued'
  <2>1. \A m \in challenges' : \E q \in Receivers :
           [receiver |-> q, event |-> m.event, nonce |-> m.nonce] \in issued'
    BY <1>2, <1>3, <1>4 DEF ChallengesIssued, WasIssued
  <2>2. \A s \in Senders : pc'[s] = "sign" => \E q \in Receivers :
           [receiver |-> q, event |-> event'[s], nonce |-> nonce'[s]] \in issued'
    BY <1>1, <1>3 DEF ChallengesIssued, WasIssued
  <2> QED
    BY <2>1, <2>2 DEF ChallengesIssued, WasIssued
<1>6. NoncesFresh'
  <2>1. \A q \in Receivers :
          /\ used'[q] \in 0..MaxAttempts
          /\ InSession(q)' => used'[q] # 0
          /\ pc'[q] = "connect" => used'[q] < MaxAttempts
    BY <1>1, <1>2 DEF NoncesFresh, InSession, AttemptsLeft
  <2>2. ASSUME NEW d \in issued
        PROVE  \E q \in Receivers : \E k \in 0..used'[q] :
                  /\ d.nonce = <<q, k>>
                  /\ pc'[q] = "challenge" => k < used'[q]
    BY <1>1, <1>2 DEF NoncesFresh
  <2>3. \E q \in Receivers : \E k \in 0..used'[q] :
                  /\ c.nonce = <<q, k>>
                  /\ pc'[q] = "challenge" => k < used'[q]
    <3>1. used'[r] \in 0..used'[r]
      BY <1>1, <1>2
    <3> QED
      BY <1>1, <1>2, <3>1
  <2> QED
    BY <1>2, <2>1, <2>2, <2>3 DEF NoncesFresh, AttemptsLeft
<1> QED
  BY <1>5, <1>6

(* Handing the event over ends the session.                                *)
LEMMA DeliveryLocals ==
  ASSUME IInv, NEW r \in Receivers, ReceiveSignature(r),
         Delivers(r), Return(r, "ok", "none"), Disconnect(r)
  PROVE  /\ OthersKeepLocals(r) /\ pc'[r] = "idle"
         /\ UNCHANGED <<challenges, used, aired, issued, vouched>>
<1>1. "ok" \in ResultCodes /\ "none" \in ResultErrnos
  BY DEF ResultCodes, ResultErrnos, ErrorCodes
<1>2. OthersKeepLocals(r) /\ pc'[r] = "idle"
  BY <1>1, TypeParts, ReturnLocals, NodesAreApart DEF IInv
<1>3. UNCHANGED <<challenges, used, aired, issued, vouched>>
  BY NodesAreApart DEF ReceiveSignature, Disconnect
<1> QED
  BY <1>2, <1>3

LEMMA ServingLocals ==
  ASSUME IInv, NEW s \in Senders, ReceiveChallenge(s) \/ SendSignature(s)
  PROVE  OthersKeepLocals(s)
<1> USE NodesAreApart
<1>1. LocalsType /\ SocketsType
  BY TypeParts DEF IInv
<1>2. CASE NextChallenger(s)
  BY <1>1, <1>2, NextChallengerLocals
<1>3. ASSUME NEW m \in challenges, Proceed(s, "sign", 0, m.nonce)
      PROVE  OthersKeepLocals(s)
  <2>1. m.nonce \in Nonces /\ 0 \in Nat
    BY <1>1 DEF SocketsType, ChallengeMessages
  <2> QED
    BY <1>1, <1>3, <2>1, ProceedLocals
<1> QED
  BY <1>2, <1>3 DEF ReceiveChallenge, SendSignature

LEMMA SenderKeepsPromiseInv ==
  ASSUME PromiseInv, NEW s \in Senders,
         \/ \E e \in Events : Send(s, e)
         \/ SenderStep(s)
         \/ SenderFault(s)
         \/ Reboot(s)
  PROVE  PromiseInv'
<1> USE NodesAreApart
<1>1. IInv' /\ IInv
  BY SenderInvariant DEF PromiseInv
<1>2. CASE \/ \E e \in Events : Send(s, e)
           \/ Broadcast(s) \/ Accept(s) \/ ListenTimeout(s)
           \/ ReceiveChallengeTimeout(s)
           \/ SenderFault(s)
           \/ Reboot(s)
  <2>1. Quiet(s)
    BY <1>1, <1>2, SenderQuietSteps
  <2>2. ChallengesIssued' /\ NoncesFresh'
    BY <2>1, QuietIssuesNothing, IssuedKept DEF PromiseInv
  <2>3. OnAirWhenServing'
    <3>1. CASE \E e \in Events : Send(s, e)
      BY <1>1, <3>1, OnAirAtSend DEF PromiseInv
    <3>2. CASE Broadcast(s)
      BY <1>1, <3>2, OnAirAtBroadcast DEF PromiseInv
    <3>3. CASE \/ Accept(s) \/ ListenTimeout(s) \/ ReceiveChallengeTimeout(s)
               \/ SenderFault(s) \/ Reboot(s)
      BY <1>1, <2>1, <3>3, SenderGoesOn, OnAirKept DEF PromiseInv, Quiet
    <3> QED
      BY <1>2, <3>1, <3>2, <3>3
  <2> QED
    BY <1>1, <2>2, <2>3 DEF PromiseInv
<1>3. ASSUME ReceiveChallenge(s) \/ Sign(s) \/ SendSignature(s),
             OthersKeepLocals(s)
      PROVE  OnAirWhenServing'
  BY <1>1, <1>3, SenderGoesOn, OnAirKept DEF PromiseInv
<1>4. CASE ReceiveChallenge(s)
  <2>1. OthersKeepLocals(s)
    BY <1>1, <1>4, ServingLocals
  <2> QED
    BY <1>1, <1>3, <1>4, <2>1, IssuedAtReceiveChallenge DEF PromiseInv
<1>5. CASE Sign(s)
  <2>1. nonce[s] \in Nonces
    BY <1>1, <1>5 DEF IInv, SenderScope, Sign
  <2>2. OthersKeepLocals(s) /\ pc'[s] = "reply"
    BY <1>1, <1>5, <2>1, TypeParts, TriesAreNat, ProceedLocals DEF IInv, Sign
  <2>3. IssuesNothing(s)
    BY <1>5, <2>2 DEF IssuesNothing, Sign, network
  <2> QED
    BY <1>1, <1>3, <1>5, <2>2, <2>3, IssuedKept DEF PromiseInv
<1>6. CASE SendSignature(s)
  <2>1. /\ OthersKeepLocals(s)
        /\ pc'[s] \in {"idle", "broadcast", "listen"}
    BY <1>1, <1>6, TypeParts, NextChallengerLocals DEF IInv, SendSignature
  <2>2. IssuesNothing(s)
    BY <1>6, <2>1 DEF IssuesNothing, SendSignature, history
  <2> QED
    BY <1>1, <1>3, <1>6, <2>1, <2>2, IssuedKept DEF PromiseInv
<1> QED
  BY <1>2, <1>4, <1>5, <1>6 DEF SenderStep

LEMMA ReceiverLeavesAired ==
  ASSUME NEW r \in Receivers, ReceiverLeaves(r)
  PROVE  UNCHANGED aired
  BY DEF ReceiverLeaves, Await, ReceiveEvent, ConnectTimeout, ConnectFailed,
         ReceiveSignatureTimeout, ReceiveSignatureFailed, VerifyFails,
         SetModeFails, ReceiveEventFails, ConnectFails, SendChallengeFails,
         ReceiveSignatureFails, Reboot, LoseDatagram, history

LEMMA ReceiverKeepsPromiseInv ==
  ASSUME PromiseInv, NEW r \in Receivers,
         \/ Await(r)
         \/ ReceiverStep(r)
         \/ ReceiverFault(r)
         \/ Reboot(r)
         \/ \E d \in datagrams[r] : LoseDatagram(r, d)
  PROVE  PromiseInv'
<1> USE NodesAreApart
<1>1. IInv' /\ IInv
  BY ReceiverInvariant DEF PromiseInv
<1>2. ASSUME Quiet(r), UNCHANGED aired, MayConnect(r)
      PROVE  PromiseInv'
  <2>1. ChallengesIssued' /\ NoncesFresh'
    BY <1>2, QuietIssuesNothing, IssuedKept DEF PromiseInv
  <2>2. OnAirWhenServing'
    BY <1>2, OnAirElsewhere DEF PromiseInv, Quiet
  <2> QED
    BY <1>1, <2>1, <2>2 DEF PromiseInv
<1>3. CASE ReceiverLeaves(r)
  BY <1>1, <1>2, <1>3, ReceiverQuietSteps, ReceiverLeavesAired,
     ReceiverMayConnect
<1>4. CASE Connect(r) \/ (\E e \in Errnos : ConnectTimeoutFails(r, e))
  <2>1. NewConnectionMade(r)
    BY <1>1, <1>4, ConnectInvariant, ConnectTimeoutFailsInvariant
  <2>2. used[r] < MaxAttempts /\ UNCHANGED aired
    BY <1>4 DEF Connect, ConnectTimeoutFails, PromiseInv, NoncesFresh,
                AttemptsLeft
  <2>3. ChallengesIssued' /\ NoncesFresh'
    BY <1>1, <2>1, <2>2, IssuedAtNewConnection DEF PromiseInv
  <2>4. OnAirWhenServing'
    BY <2>1, <2>2, OnAirElsewhere DEF PromiseInv, NewConnectionMade
  <2> QED
    BY <1>1, <2>3, <2>4 DEF PromiseInv
<1>5. CASE SendChallenge(r)
  <2>1. OthersKeepLocals(r) /\ UNCHANGED aired
    BY <1>1, <1>5, SendChallengeLocals DEF SendChallenge
  <2>2. OnAirWhenServing'
    BY <2>1, OnAirElsewhere DEF PromiseInv
  <2> QED
    BY <1>1, <1>5, <2>2, IssuedAtSendChallenge DEF PromiseInv
<1>6. CASE ReceiveSignature(r)
  <2>1. CASE Quiet(r)
    BY <1>1, <1>2, <1>6, <2>1, ReceiverMayConnect DEF ReceiveSignature
  <2>2. CASE Delivers(r) /\ Return(r, "ok", "none") /\ Disconnect(r)
    <3>1. /\ OthersKeepLocals(r) /\ pc'[r] = "idle"
          /\ UNCHANGED <<challenges, used, aired, issued, vouched>>
      BY <1>1, <1>6, <2>2, DeliveryLocals
    <3>2. ChallengesIssued' /\ NoncesFresh'
      BY <3>1, IssuedKept DEF PromiseInv, IssuesNothing, MayConnect
    <3>3. OnAirWhenServing'
      BY <3>1, OnAirElsewhere DEF PromiseInv
    <3> QED
      BY <1>1, <3>2, <3>3 DEF PromiseInv
  <2> QED
    BY <1>1, <1>6, <2>1, <2>2, ReceiveSignatureCases
<1> QED
  BY <1>3, <1>4, <1>5, <1>6, ReceiverActions

LEMMA PromiseInvInit == Init => PromiseInv
<1>1. Init => IInv
  BY InitInvariant
<1>2. Init => OnAirWhenServing /\ ChallengesIssued
  BY NodesAreApart
     DEF Init, OnAirWhenServing, OnAir, ChallengesIssued
<1>3. Init => NoncesFresh
  BY NodesAreApart, CountsAssumption DEF Init, NoncesFresh, InSession
<1> QED
  BY <1>1, <1>2, <1>3 DEF PromiseInv

LEMMA PromiseInvStep ==
  ASSUME PromiseInv, [Next]_vars
  PROVE  PromiseInv'
<1>1. CASE UNCHANGED vars
  <2>1. IInv'
    BY <1>1, StutterInvariant DEF PromiseInv
  <2>2. UNCHANGED <<pc, event, nonce, challenges, used, aired, issued>>
    BY <1>1 DEF vars, locals, network, history
  <2>3. OnAirWhenServing' /\ ChallengesIssued' /\ NoncesFresh'
    BY <2>2 DEF PromiseInv, OnAirWhenServing, ChallengesIssued, WasIssued,
                NoncesFresh, InSession, AttemptsLeft
  <2> QED
    BY <2>1, <2>3 DEF PromiseInv
<1>2. CASE Next
  BY <1>2, SenderKeepsPromiseInv, ReceiverKeepsPromiseInv DEF Next
<1> QED
  BY <1>1, <1>2

-----------------------------------------------------------------------------
(* Every step is a step of EventDelivery                                   *)

(* The refinement mapping of Promise.                                      *)
Sending == [s \in Senders |-> event[s]]
CurrentChallenge(r) ==
    [receiver |-> r, event |-> event[r], nonce |-> nonce[r]]
Outstanding ==
    [r \in Receivers |-> IF Challenging(r) THEN {CurrentChallenge(r)} ELSE {}]

PromiseVars == <<Sending, aired, Outstanding, issued, vouched, delivered>>

LEMMA PromiseStutters == UNCHANGED PromiseVars => UNCHANGED (Promise!vars)
  BY DEF Promise!vars, PromiseVars, Sending, Outstanding, CurrentChallenge

(* A sender does not touch the receivers' challenges, nor a receiver the   *)
(* events of the senders.                                                  *)
LEMMA OutstandingKept ==
  ASSUME NEW s \in Senders, OthersKeepLocals(s)
  PROVE  UNCHANGED Outstanding
  BY NodesAreApart DEF OthersKeepLocals, Outstanding, CurrentChallenge, Challenging

LEMMA SendingKept ==
  ASSUME NEW r \in Receivers, OthersKeepLocals(r)
  PROVE  UNCHANGED Sending
  BY NodesAreApart DEF OthersKeepLocals, Sending

(* The call of send() goes on, or ends.                                    *)
LEMMA SendingGoesOnOrEnds ==
  ASSUME PromiseInv, NEW s \in Senders, OthersKeepLocals(s), GoesOnOrEnds(s)
  PROVE  \/ UNCHANGED Sending
         \/ Sending[s] # None /\ Sending' = [Sending EXCEPT ![s] = None]
<1>1. \A z \in Senders : z # s => event'[z] = event[z]
  BY NodesAreApart DEF OthersKeepLocals
<1>2. CASE event'[s] = event[s]
  BY <1>1, <1>2 DEF Sending
<1>3. CASE event'[s] # event[s] /\ event'[s] = None
  BY <1>1, <1>3 DEF Sending
<1> QED
  BY <1>2, <1>3 DEF GoesOnOrEnds

(* A receiver leaves its challenge, or keeps it.                           *)
LEMMA OutstandingKeptOrLeft ==
  ASSUME NEW r \in Receivers, OthersKeepLocals(r),
         \/ pc'[r] # "signature"
         \/ pc'[r] = pc[r] /\ event'[r] = event[r] /\ nonce'[r] = nonce[r]
  PROVE  \/ UNCHANGED Outstanding
         \/ Outstanding' = [Outstanding EXCEPT ![r] = {}]
<1>1. ASSUME NEW q \in Receivers, q # r
      PROVE  Outstanding'[q] = Outstanding[q]
  BY <1>1, NodesAreApart
     DEF OthersKeepLocals, Outstanding, CurrentChallenge, Challenging
<1>2. CASE pc'[r] # "signature"
  BY <1>1, <1>2 DEF Outstanding, Challenging
<1>3. CASE pc'[r] = pc[r] /\ event'[r] = event[r] /\ nonce'[r] = nonce[r]
  BY <1>1, <1>3 DEF Outstanding, CurrentChallenge, Challenging
<1> QED
  BY <1>2, <1>3

LEMMA SendRefines ==
  ASSUME PromiseInv, NEW s \in Senders, NEW e \in Events, Send(s, e)
  PROVE  Promise!BeginSend(s, e)
<1>1. /\ event \in [Nodes -> Events \cup {None}]
      /\ pc[s] = "idle" /\ event[s] = None
      /\ event' = [event EXCEPT ![s] = e]
      /\ aired' = [aired EXCEPT ![s] = FALSE]
      /\ UNCHANGED <<issued, vouched, delivered>>
  BY TypeParts DEF PromiseInv, IInv, LocalsType, OnAirWhenServing, Send
<1>2. OthersKeepLocals(s)
  BY SendQuiet DEF PromiseInv, Quiet
<1>3. UNCHANGED Outstanding
  BY <1>2, OutstandingKept
<1>4. Sending[s] = None /\ Sending' = [Sending EXCEPT ![s] = e]
  BY <1>1, NodesAreApart DEF Sending
<1> QED
  BY <1>1, <1>3, <1>4
     DEF Promise!BeginSend, Sending, Outstanding, CurrentChallenge

LEMMA BroadcastRefines ==
  ASSUME PromiseInv, NEW s \in Senders, Broadcast(s)
  PROVE  Promise!Air(s)
<1>1. /\ event[s] \in Events
      /\ event' = event
      /\ aired' = [aired EXCEPT ![s] = TRUE]
      /\ UNCHANGED <<issued, vouched, delivered>>
  BY DEF PromiseInv, IInv, SenderScope, Broadcast, Proceed
<1>2. OthersKeepLocals(s)
  BY BroadcastQuiet DEF PromiseInv, Quiet
<1>3. UNCHANGED Outstanding
  BY <1>2, OutstandingKept
<1>4. Sending[s] # None /\ Sending' = Sending
  BY <1>1, NodesAssumption DEF Sending
<1> QED
  BY <1>1, <1>3, <1>4
     DEF Promise!Air, Sending, Outstanding, CurrentChallenge

(* The signature is over a challenge that was issued, for the event on the *)
(* air.                                                                    *)
LEMMA SignRefines ==
  ASSUME PromiseInv, NEW s \in Senders, Sign(s)
  PROVE  \E c \in issued : Promise!Vouch(s, c)
<1>1. /\ WasIssued(event[s], nonce[s])
      /\ aired[s]
      /\ nonce[s] \in Nonces
      /\ pc[s] = "sign"
  BY DEF PromiseInv, IInv, ChallengesIssued, OnAirWhenServing, OnAir,
         SenderScope, Sign
<1>2. PICK r \in Receivers :
         [receiver |-> r, event |-> event[s], nonce |-> nonce[s]] \in issued
  BY <1>1 DEF WasIssued
<1> PICK c \in issued :
         c = [receiver |-> r, event |-> event[s], nonce |-> nonce[s]]
  BY <1>2
<1>3. /\ vouched' = vouched \cup
           {[sender |-> s, event |-> c.event, nonce |-> c.nonce]}
      /\ UNCHANGED <<aired, issued, delivered>>
  BY DEF Sign
<1>4. OthersKeepLocals(s) /\ event' = event
  BY <1>1, TypeParts, TriesAreNat, ProceedLocals, NodesAreApart
     DEF PromiseInv, IInv, Sign
<1>5. UNCHANGED <<Outstanding, Sending>>
  BY <1>4, OutstandingKept DEF Sending
<1>6. c.event = Sending[s]
  BY DEF Sending
<1>7. Promise!Vouch(s, c)
  BY <1>1, <1>3, <1>5, <1>6
     DEF Promise!Vouch, Sending, Outstanding, CurrentChallenge
<1> QED
  BY <1>7

(* Everything else a sender does is at most the end of its call.           *)
LEMMA GoingOnRefines ==
  ASSUME PromiseInv, NEW s \in Senders, OthersKeepLocals(s), GoesOnOrEnds(s),
         UNCHANGED <<aired, issued, vouched, delivered>>
  PROVE  Promise!EndSend(s) \/ UNCHANGED PromiseVars
<1>1. UNCHANGED Outstanding
  BY OutstandingKept
<1>2. CASE UNCHANGED Sending
  BY <1>1, <1>2 DEF PromiseVars
<1>3. CASE Sending[s] # None /\ Sending' = [Sending EXCEPT ![s] = None]
  BY <1>1, <1>3 DEF Promise!EndSend, Sending, Outstanding, CurrentChallenge
<1> QED
  BY <1>2, <1>3, SendingGoesOnOrEnds

LEMMA SenderRefines ==
  ASSUME PromiseInv, NEW s \in Senders,
         \/ \E e \in Events : Send(s, e)
         \/ SenderStep(s)
         \/ SenderFault(s)
         \/ Reboot(s)
  PROVE  \/ \E e \in Events : Promise!BeginSend(s, e)
         \/ Promise!Air(s)
         \/ Promise!EndSend(s)
         \/ \E c \in issued : Promise!Vouch(s, c)
         \/ UNCHANGED PromiseVars
<1> USE NodesAreApart
<1>1. IInv
  BY DEF PromiseInv
<1>2. CASE \E e \in Events : Send(s, e)
  BY <1>2, SendRefines
<1>3. CASE Broadcast(s)
  BY <1>3, BroadcastRefines
<1>4. CASE Sign(s)
  BY <1>4, SignRefines
<1>5. CASE \/ Accept(s) \/ ListenTimeout(s) \/ ReceiveChallengeTimeout(s)
           \/ SenderFault(s) \/ Reboot(s)
  <2>1. Quiet(s)
    BY <1>1, <1>5, SenderQuietSteps
  <2>2. GoesOnOrEnds(s) /\ UNCHANGED aired
    BY <1>1, <1>5, SenderGoesOn
  <2> QED
    BY <2>1, <2>2, GoingOnRefines DEF Quiet
<1>6. CASE ReceiveChallenge(s) \/ SendSignature(s)
  <2>1. GoesOnOrEnds(s)
    BY <1>1, <1>6, SenderGoesOn
  <2>2. OthersKeepLocals(s)
    BY <1>1, <1>6, ServingLocals
  <2>3. UNCHANGED <<aired, issued, vouched, delivered>>
    BY <1>6 DEF ReceiveChallenge, SendSignature, history
  <2> QED
    BY <2>1, <2>2, <2>3, GoingOnRefines
<1> QED
  BY <1>2, <1>3, <1>4, <1>5, <1>6 DEF SenderStep

(* The nonce of a challenge is none of those issued before.                *)
LEMMA SendChallengeRefines ==
  ASSUME PromiseInv, NEW r \in Receivers, SendChallenge(r)
  PROVE  \E e \in Events, n \in Receivers \X (1..MaxAttempts) :
           Promise!Issue(r, e, n)
<1> DEFINE c == CurrentChallenge(r)
<1>1. /\ event[r] \in Wanted[r] /\ event[r] \in Events
      /\ nonce[r] = <<r, used[r]>> /\ used[r] \in Nat
      /\ pc[r] = "challenge" /\ pc'[r] = "signature"
      /\ OthersKeepLocals(r)
      /\ nonce'[r] = nonce[r]
      /\ event' = event
  BY SendChallengeLocals DEF PromiseInv
<1>2. nonce[r] \in Receivers \X (1..MaxAttempts)
  <2>1. used[r] \in 0..MaxAttempts /\ used[r] # 0
    BY <1>1 DEF PromiseInv, NoncesFresh, InSession
  <2>2. used[r] \in 1..MaxAttempts
    BY <2>1, CountsAssumption
  <2> QED
    BY <1>1, <2>2
<1>3. \A d \in issued : d.nonce # nonce[r]
  <2> SUFFICES ASSUME NEW d \in issued PROVE d.nonce # nonce[r]
    OBVIOUS
  <2>1. PICK q \in Receivers : \E k \in 0..used[q] :
           /\ d.nonce = <<q, k>>
           /\ pc[q] = "challenge" => k < used[q]
    BY DEF PromiseInv, NoncesFresh
  <2>2. PICK k \in 0..used[q] :
           /\ d.nonce = <<q, k>>
           /\ pc[q] = "challenge" => k < used[q]
    BY <2>1
  <2> QED
    BY <1>1, <2>2
<1>4. UNCHANGED Sending
  BY <1>1, SendingKept
<1>5. Outstanding[r] = {} /\ Outstanding' = [Outstanding EXCEPT ![r] = {c}]
  <2>1. \A q \in Receivers : q # r => Outstanding'[q] = Outstanding[q]
    BY <1>1, NodesAreApart
       DEF OthersKeepLocals, Outstanding, CurrentChallenge, Challenging
  <2>2. Outstanding'[r] = {c} /\ Outstanding[r] = {}
    BY <1>1 DEF Outstanding, CurrentChallenge, Challenging
  <2> QED
    BY <2>1, <2>2 DEF Outstanding
<1>6. /\ issued' = issued \cup {c}
      /\ UNCHANGED <<aired, vouched, delivered>>
  BY DEF SendChallenge, CurrentChallenge
<1>7. PICK e \in Events, n \in Receivers \X (1..MaxAttempts) :
         e = event[r] /\ n = nonce[r]
  BY <1>1, <1>2
<1>8. Promise!Issue(r, e, n)
  BY <1>1, <1>3, <1>4, <1>5, <1>6, <1>7
     DEF Promise!Issue, Sending, Outstanding, CurrentChallenge
<1> QED
  BY <1>8

LEMMA DeliveryRefines ==
  ASSUME PromiseInv, NEW r \in Receivers, ReceiveSignature(r),
         Delivers(r), Return(r, "ok", "none"), Disconnect(r)
  PROVE  \E c \in Outstanding[r] : Promise!Deliver(r, c)
<1> PICK c : c = CurrentChallenge(r)
  OBVIOUS
<1>1. /\ OthersKeepLocals(r) /\ pc'[r] = "idle"
      /\ UNCHANGED <<aired, issued, vouched>>
  BY DeliveryLocals DEF PromiseInv
<1>2. c \in Outstanding[r]
  BY DEF Delivers, Outstanding, Challenging
<1>3. UNCHANGED Sending
  BY <1>1, SendingKept
<1>4. Outstanding' = [Outstanding EXCEPT ![r] = {}]
  <2>1. \A q \in Receivers : q # r => Outstanding'[q] = Outstanding[q]
    BY <1>1, NodesAreApart
       DEF OthersKeepLocals, Outstanding, CurrentChallenge, Challenging
  <2>2. Outstanding'[r] = {}
    BY <1>1 DEF Outstanding, Challenging
  <2> QED
    BY <2>1, <2>2 DEF Outstanding
<1>5. \E s \in Trusted :
         [sender |-> s, event |-> c.event, nonce |-> c.nonce] \in vouched
  BY DeliveredIsVouched DEF PromiseInv, CurrentChallenge
<1>6. delivered' = [delivered EXCEPT ![r] = Append(@, c)]
  BY DEF Delivers, CurrentChallenge
<1>7. Promise!Deliver(r, c)
  BY <1>1, <1>2, <1>3, <1>4, <1>5, <1>6
     DEF Promise!Deliver, Sending, Outstanding, CurrentChallenge
<1> QED
  BY <1>2, <1>7

(* Everything else a receiver does is at most the end of its challenge.    *)
LEMMA LeavingRefines ==
  ASSUME NEW r \in Receivers, OthersKeepLocals(r),
         \/ pc'[r] # "signature"
         \/ pc'[r] = pc[r] /\ event'[r] = event[r] /\ nonce'[r] = nonce[r],
         UNCHANGED <<aired, issued, vouched, delivered>>
  PROVE  Promise!Abandon(r) \/ UNCHANGED PromiseVars
<1>1. UNCHANGED Sending
  BY SendingKept
<1>2. CASE UNCHANGED Outstanding
  BY <1>1, <1>2 DEF PromiseVars
<1>3. CASE Outstanding' = [Outstanding EXCEPT ![r] = {}]
  BY <1>1, <1>3 DEF Promise!Abandon, Sending, Outstanding, CurrentChallenge
<1> QED
  BY <1>2, <1>3, OutstandingKeptOrLeft

LEMMA ReceiverRefines ==
  ASSUME PromiseInv, NEW r \in Receivers,
         \/ Await(r)
         \/ ReceiverStep(r)
         \/ ReceiverFault(r)
         \/ Reboot(r)
         \/ \E d \in datagrams[r] : LoseDatagram(r, d)
  PROVE  \/ \E e \in Events, n \in Receivers \X (1..MaxAttempts) :
              Promise!Issue(r, e, n)
         \/ Promise!Abandon(r)
         \/ \E c \in Outstanding[r] : Promise!Deliver(r, c)
         \/ UNCHANGED PromiseVars
<1> USE NodesAreApart
<1>1. IInv
  BY DEF PromiseInv
<1>2. ASSUME Quiet(r), UNCHANGED aired
      PROVE  Promise!Abandon(r) \/ UNCHANGED PromiseVars
  BY <1>2, LeavingRefines DEF Quiet, QuietReceiver
<1>3. CASE ReceiverLeaves(r)
  BY <1>1, <1>2, <1>3, ReceiverQuietSteps, ReceiverLeavesAired
<1>4. CASE Connect(r) \/ (\E e \in Errnos : ConnectTimeoutFails(r, e))
  <2>1. NewConnectionMade(r)
    BY <1>1, <1>4, ConnectInvariant, ConnectTimeoutFailsInvariant
  <2>2. UNCHANGED aired
    BY <1>4 DEF Connect, ConnectTimeoutFails
  <2> QED
    BY <2>1, <2>2, LeavingRefines DEF NewConnectionMade
<1>5. CASE SendChallenge(r)
  BY <1>5, SendChallengeRefines
<1>6. CASE ReceiveSignature(r)
  <2>1. CASE Quiet(r)
    BY <1>2, <1>6, <2>1 DEF ReceiveSignature
  <2>2. CASE Delivers(r) /\ Return(r, "ok", "none") /\ Disconnect(r)
    BY <1>6, <2>2, DeliveryRefines
  <2> QED
    BY <1>1, <1>6, <2>1, <2>2, ReceiveSignatureCases
<1> QED
  BY <1>3, <1>4, <1>5, <1>6, ReceiverActions

LEMMA StepRefines ==
  ASSUME PromiseInv, [Next]_vars
  PROVE  [Promise!Next]_(Promise!vars)
<1>1. CASE UNCHANGED vars
  <2>1. UNCHANGED PromiseVars
    BY <1>1 DEF vars, locals, network, history, PromiseVars, Sending,
                Outstanding, CurrentChallenge, Challenging
  <2> QED
    BY <2>1, PromiseStutters
<1>2. ASSUME NEW s \in Senders,
             \/ \E e \in Events : Send(s, e)
             \/ SenderStep(s)
             \/ SenderFault(s)
             \/ Reboot(s)
      PROVE  Promise!Next \/ UNCHANGED PromiseVars
  BY <1>2, SenderRefines DEF Promise!Next
<1>3. ASSUME NEW r \in Receivers,
             \/ Await(r)
             \/ ReceiverStep(r)
             \/ ReceiverFault(r)
             \/ Reboot(r)
             \/ \E d \in datagrams[r] : LoseDatagram(r, d)
      PROVE  Promise!Next \/ UNCHANGED PromiseVars
  BY <1>3, ReceiverRefines DEF Promise!Next, Outstanding, CurrentChallenge
<1> QED
  BY <1>1, <1>2, <1>3, PromiseStutters DEF Next

-----------------------------------------------------------------------------
(* The theorems                                                            *)

(* A sender answers challengers only for an event it is sending and has    *)
(* broadcast, and only challenges that a receiver issued for that event;   *)
(* no nonce is issued twice.                                               *)
THEOREM PromiseInvariance == Spec => []PromiseInv
<1>1. PromiseInv /\ [Next]_vars => PromiseInv'
  BY PromiseInvStep
<1> QED
  BY <1>1, PromiseInvInit, PTL DEF Spec

(* send() and await() implement EventDelivery: whatever the network loses, *)
(* repeats or delays, whichever calls fail and whichever nodes restart.    *)
THEOREM Refinement == Spec => ImplementsEventDelivery
<1>1. Init => Promise!Init
  BY NodesAreApart DEF Init, Promise!Init, Challenging
<1>2. PromiseInv /\ [Next]_vars => [Promise!Next]_(Promise!vars)
  BY StepRefines
<1> QED
  BY <1>1, <1>2, PromiseInvariance, PTL
     DEF Spec, ImplementsEventDelivery, Promise!Spec

=============================================================================
