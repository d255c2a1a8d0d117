---------------------- MODULE NetworkEventHandlerProofs ----------------------
(***************************************************************************)
(* Proofs about NetworkEventHandler, for every set of nodes and events,    *)
(* every number of retries and every assignment of keys.                   *)
(***************************************************************************)
EXTENDS NetworkEventHandler, TLAPS

-----------------------------------------------------------------------------
(* The inductive invariant                                                 *)

SenderLabels == {"idle", "broadcast", "listen", "receive", "sign", "reply"}
ReceiverLabels == {"idle", "event", "connect", "challenge", "signature"}

(* A receiver is in a session from connect() to the return of              *)
(* receive_signature.                                                      *)
InSession(r) == pc[r] \in {"challenge", "signature"}

(* Which locals are in scope at which blocking call.                       *)
SenderScope ==
    \A s \in Senders :
        /\ pc[s] \in SenderLabels
        /\ pc[s] # "idle" => event[s] \in Events
        /\ pc[s] \in {"receive", "sign", "reply"} => sock[s] \in Connections
        /\ pc[s] \in {"sign", "reply"} => nonce[s] \in Nonces

ReceiverScope ==
    \A r \in Receivers :
        /\ pc[r] \in ReceiverLabels
        /\ pc[r] \in {"connect", "challenge", "signature"} =>
             /\ event[r] \in Wanted[r]
             /\ peer[r] \in Senders
        /\ InSession(r) =>
             /\ sock[r] = <<r, used[r]>>
             /\ nonce[r] = <<r, used[r]>>

(* Signatures are made by Sign only, and challenges by SendChallenge.      *)
Provenance ==
    /\ \A s \in Senders : pc[s] = "reply" =>
         [sender |-> s, event |-> event[s], nonce |-> nonce[s]] \in vouched
    /\ \A m \in signatures :
         [sender |-> m.signer, event |-> m.event, nonce |-> m.nonce] \in vouched
    /\ \A r \in Receivers : pc[r] = "signature" =>
         [receiver |-> r, event |-> event[r], nonce |-> nonce[r]] \in issued

(* The connections waiting at a sender.                                    *)
Queued(s) == {backlog[s][i] : i \in 1..Len(backlog[s])}

(* Every connection in use, and every nonce delivered, was counted.        *)
Below(c, count) ==
    \A r \in Receivers, k \in Nat : c = <<r, k>> => k <= count[r]

Counted(c) == Below(c, used)

Numbered ==
    /\ \A s \in Senders :
         /\ sock[s] # NoConnection => Counted(sock[s])
         /\ \A c \in Queued(s) : Counted(c)
    /\ \A m \in challenges : Counted(m.connection)
    /\ \A m \in signatures : Counted(m.connection)
    /\ \A r \in Receivers : \A i \in 1..Len(delivered[r]) :
         \E k \in 0..used[r] :
            /\ delivered[r][i].nonce = <<r, k>>
            /\ InSession(r) => k < used[r]

(* The connection of a session is known to the sender it was made to only, *)
(* and everything on it belongs to the session.                            *)
Exclusive ==
    \A r \in Receivers : InSession(r) =>
        /\ \A s \in Senders :
             /\ sock[s] = sock[r] =>
                  /\ peer[r] = s
                  /\ pc[s] \in {"sign", "reply"} =>
                       /\ pc[r] = "signature"
                       /\ event[s] = event[r]
                       /\ nonce[s] = nonce[r]
             /\ sock[r] \in Queued(s) => peer[r] = s
        /\ \A m \in challenges : m.connection = sock[r] =>
             /\ pc[r] = "signature"
             /\ m.event = event[r]
             /\ m.nonce = nonce[r]
        /\ \A m \in signatures : m.connection = sock[r] =>
             /\ m.signer = peer[r]
             /\ m.event = event[r]
             /\ m.nonce = nonce[r]

IInv ==
    /\ TypeOK
    /\ SenderScope
    /\ ReceiverScope
    /\ Provenance
    /\ Numbered
    /\ Exclusive

-----------------------------------------------------------------------------
(* TypeOK, by the variables that are assigned together                     *)

LocalsType ==
    /\ pc \in [Nodes ->
         {"idle", "broadcast", "listen", "receive", "sign", "reply",
          "event", "connect", "challenge", "signature"}]
    /\ tries \in [Nodes -> Nat]
    /\ loop \in [Nodes ->
         [triesLeft : Nat, served : 0..TrustedCount, queued : BOOLEAN]]
    /\ event \in [Nodes -> Events \cup {None}]
    /\ nonce \in [Nodes -> Nonces \cup {NoNonce}]
    /\ result \in [Nodes -> [code : ResultCodes, errno : ResultErrnos]]

SocketsType ==
    /\ sock \in [Nodes -> Connections \cup {NoConnection}]
    /\ timed \in [Nodes -> BOOLEAN]
    /\ challenges \in SUBSET ChallengeMessages
    /\ signatures \in SUBSET SignatureMessages

RestType ==
    /\ mode \in [Nodes -> {"none", "sender", "receiver"}]
    /\ peer \in [Receivers -> Senders \cup {None}]
    /\ datagrams \in [Receivers -> SUBSET Datagrams]
    /\ backlog \in [Senders -> Seq(Connections)]
    /\ used \in [Receivers -> Nat]
    /\ aired \in [Senders -> BOOLEAN]
    /\ issued \in SUBSET Challenges
    /\ vouched \in SUBSET [sender : Senders, event : Events, nonce : Nonces]
    /\ delivered \in [Receivers -> Seq(Challenges)]

LEMMA TypeParts == TypeOK <=> LocalsType /\ SocketsType /\ RestType
  BY Zenon DEF TypeOK, LocalsType, SocketsType, RestType

LEMMA TypePartsPrime == TypeOK' <=> LocalsType' /\ SocketsType' /\ RestType'
  BY Zenon DEF TypeOK, LocalsType, SocketsType, RestType

-----------------------------------------------------------------------------
(* What the control operators do to the locals: the other nodes keep       *)
(* theirs.                                                                 *)

OthersKeepLocals(n) ==
    \A m \in Nodes : m # n =>
        /\ pc'[m] = pc[m]
        /\ event'[m] = event[m]
        /\ nonce'[m] = nonce[m]

LEMMA TriesForNat == ASSUME NEW k \in Nat PROVE TriesFor(k) \in Nat
  BY DEF TriesFor

LEMMA TriesAreNat ==
  TrySending \in Nat /\ TryTransfer \in Nat /\ TryConnecting \in Nat
  BY CountsAssumption, TriesForNat DEF TrySending, TryTransfer, TryConnecting

(* A classified failure is to be retried or is an error code.              *)
Outcomes == ErrorCodes \cup {"retry"}

LEMMA CodesAreOutcomes ==
  ASSUME NEW e
  PROVE  /\ BroadcastSendCode(e) \in Outcomes
         /\ BroadcastReceiveCode(e) \in Outcomes
         /\ ConnectCode(e) \in Outcomes
         /\ ChallengeSendCode(e) \in Outcomes
         /\ ChallengeReceiveCode(e) \in Outcomes
         /\ \A c : ListenCode(c, e) \in ErrorCodes
<1>1. BroadcastSendCode(e) \in Outcomes
  BY DEF BroadcastSendCode, Outcomes, ErrorCodes
<1>2. BroadcastReceiveCode(e) \in Outcomes
  BY DEF BroadcastReceiveCode, Outcomes, ErrorCodes
<1>3. ConnectCode(e) \in Outcomes
  BY DEF ConnectCode, Outcomes, ErrorCodes
<1>4. ChallengeSendCode(e) \in Outcomes
  BY DEF ChallengeSendCode, ChallengeSocketCode, Outcomes, ErrorCodes
<1>5. ChallengeReceiveCode(e) \in Outcomes
  BY DEF ChallengeReceiveCode, ChallengeSocketCode, Outcomes, ErrorCodes
<1>6. \A c : ListenCode(c, e) \in ErrorCodes
  BY DEF ListenCode, ErrorCodes
<1> QED
  BY <1>1, <1>2, <1>3, <1>4, <1>5, <1>6

LEMMA AfterFailureOutcome ==
  ASSUME NEW n, NEW c \in Outcomes, AfterFailure(n, c) # "retry"
  PROVE  AfterFailure(n, c) \in ErrorCodes
  BY DEF AfterFailure, Outcomes, ErrorCodes

(* Only a failure that leaves another try goes round the loop.             *)
LEMMA AfterFailureRetry ==
  ASSUME NEW n, NEW c, AfterFailure(n, c) = "retry"
  PROVE  tries[n] > 1
  BY DEF AfterFailure

LEMMA ReturnLocals ==
  ASSUME LocalsType, NEW n \in Nodes, NEW c \in ResultCodes, NEW e \in ResultErrnos,
         Return(n, c, e)
  PROVE  /\ LocalsType'
         /\ OthersKeepLocals(n)
         /\ pc'[n] = "idle"
  BY CountsAssumption DEF LocalsType, Return, OthersKeepLocals, NoLoop, NoNonce

LEMMA ProceedLocals ==
  ASSUME LocalsType, NEW n \in Nodes, NEW k \in Nat,
         NEW x \in Nonces \cup {NoNonce},
         NEW label \in {"listen", "sign", "reply", "event", "connect",
                        "challenge", "signature"},
         Proceed(n, label, k, x)
  PROVE  /\ LocalsType'
         /\ OthersKeepLocals(n)
         /\ pc'[n] = label
         /\ nonce'[n] = x
         /\ event' = event
  BY DEF LocalsType, Proceed, OthersKeepLocals

LEMMA RetryLocals ==
  ASSUME LocalsType, NEW n \in Nodes, Retry(n), tries[n] > 1
  PROVE  /\ LocalsType'
         /\ pc' = pc
         /\ nonce' = nonce
         /\ event' = event
  BY DEF LocalsType, Retry

LEMMA NextTryLocals ==
  ASSUME LocalsType, NEW s \in Nodes, NextTry(s)
  PROVE  /\ LocalsType'
         /\ OthersKeepLocals(s)
         /\ pc'[s] \in {"idle", "broadcast"}
         /\ pc'[s] # "idle" => event'[s] = event[s]
<1>1. CASE loop[s].triesLeft = 1 /\ Return(s, "ok", "none")
  <2>1. "ok" \in ResultCodes
    BY DEF ResultCodes, ErrorCodes
  <2>2. "none" \in ResultErrnos
    BY DEF ResultErrnos
  <2> QED
    BY <1>1, <2>1, <2>2, ReturnLocals
<1>2. CASE loop[s].triesLeft > 1 /\ ~(loop[s].triesLeft = 1)
  <2> DEFINE next == [NoLoop EXCEPT !.triesLeft = loop[s].triesLeft - 1]
  <2>1. next \in [triesLeft : Nat, served : 0..TrustedCount, queued : BOOLEAN]
    <3>1. loop[s].triesLeft - 1 \in Nat
      BY <1>2 DEF LocalsType
    <3>2. NoLoop \in [triesLeft : Nat, served : 0..TrustedCount, queued : BOOLEAN]
      BY CountsAssumption DEF NoLoop
    <3> QED
      BY <3>1, <3>2
  <2>2. NoNonce \in Nonces \cup {NoNonce}
    OBVIOUS
  <2>3. /\ pc' = [pc EXCEPT ![s] = "broadcast"]
        /\ tries' = [tries EXCEPT ![s] = TrySending]
        /\ loop' = [loop EXCEPT ![s] = next]
        /\ nonce' = [nonce EXCEPT ![s] = NoNonce]
        /\ UNCHANGED <<event, result>>
    BY <1>2 DEF NextTry
  <2> HIDE DEF next
  <2> QED
    BY <2>1, <2>2, <2>3, TriesAreNat DEF LocalsType, OthersKeepLocals
<1> QED
  BY <1>1, <1>2 DEF NextTry, LocalsType

LEMMA NextChallengerLocals ==
  ASSUME LocalsType, NEW s \in Nodes, NextChallenger(s)
  PROVE  /\ LocalsType'
         /\ OthersKeepLocals(s)
         /\ pc'[s] \in {"idle", "broadcast", "listen"}
         /\ pc'[s] # "idle" => event'[s] = event[s]
<1>1. CASE loop[s].served = TrustedCount /\ NextTry(s)
  BY <1>1, NextTryLocals
<1>2. CASE loop[s].served < TrustedCount /\ ~(loop[s].served = TrustedCount)
  <2> DEFINE next == [loop[s] EXCEPT !.served = @ + 1]
  <2>1. next \in [triesLeft : Nat, served : 0..TrustedCount, queued : BOOLEAN]
    <3>1. loop[s] \in [triesLeft : Nat, served : 0..TrustedCount, queued : BOOLEAN]
      BY DEF LocalsType
    <3> QED
      BY <1>2, <3>1, CountsAssumption
  <2>2. /\ pc' = [pc EXCEPT ![s] = "listen"]
        /\ tries' = [tries EXCEPT ![s] = 0]
        /\ loop' = [loop EXCEPT ![s] = next]
        /\ nonce' = [nonce EXCEPT ![s] = NoNonce]
        /\ UNCHANGED <<event, result>>
    BY <1>2 DEF NextChallenger
  <2> HIDE DEF next
  <2> QED
    BY <2>1, <2>2 DEF LocalsType, OthersKeepLocals
<1> QED
  BY <1>1, <1>2, CountsAssumption DEF NextChallenger, LocalsType

-----------------------------------------------------------------------------
(* Most steps of a node only take it out of what it was doing.  They       *)
(* preserve the invariant for one reason, given once.                      *)

QuietSender(s) ==
    \/ /\ pc'[s] = pc[s]
       /\ event'[s] = event[s]
       /\ nonce'[s] = nonce[s]
       /\ sock'[s] = sock[s]
    \/ /\ pc'[s] \in {"idle", "broadcast", "listen", "receive"}
       /\ pc'[s] # "idle" => event'[s] \in Events
       /\ pc'[s] = "receive" => sock'[s] \in Connections
       /\ sock'[s] \in {sock[s], NoConnection} \cup Queued(s)

QuietReceiver(r) ==
    \/ /\ pc'[r] = pc[r]
       /\ event'[r] = event[r]
       /\ nonce'[r] = nonce[r]
       /\ sock'[r] = sock[r]
       /\ peer'[r] = peer[r]
    \/ /\ pc'[r] \in {"idle", "event", "connect"}
       /\ pc'[r] = "connect" => event'[r] \in Wanted[r] /\ peer'[r] \in Senders

Quiet(n) ==
    /\ OthersKeepLocals(n)
    /\ \A m \in Nodes : m # n => sock'[m] = sock[m]
    /\ \A r \in Receivers : r # n => peer'[r] = peer[r]
    /\ challenges' \subseteq challenges
    /\ signatures' \subseteq signatures
    /\ \A s \in Senders : Queued(s)' \subseteq Queued(s)
    /\ UNCHANGED <<used, issued, vouched, delivered>>
    /\ n \in Senders => QuietSender(n)
    /\ n \in Receivers => QuietReceiver(n)

LEMMA NodesAreApart ==
  /\ Senders \subseteq Nodes
  /\ Receivers \subseteq Nodes
  /\ \A s \in Senders, r \in Receivers : s # r
  BY NodesAssumption DEF Nodes

LEMMA PairIsNotEmpty == ASSUME NEW a, NEW b PROVE <<a, b>> # << >>
  OBVIOUS

LEMMA TailElements ==
  ASSUME NEW S, NEW q \in Seq(S), q # << >>
  PROVE  /\ Head(q) \in {q[i] : i \in 1..Len(q)}
         /\ Tail(q) \in Seq(S)
         /\ {Tail(q)[i] : i \in 1..Len(Tail(q))} \subseteq {q[i] : i \in 1..Len(q)}
  OBVIOUS

LEMMA AppendElements ==
  ASSUME NEW S, NEW q \in Seq(S), NEW x \in S
  PROVE  /\ Append(q, x) \in Seq(S)
         /\ {Append(q, x)[i] : i \in 1..Len(Append(q, x))}
                \subseteq {q[i] : i \in 1..Len(q)} \cup {x}
  OBVIOUS

LEMMA QuietScope ==
  ASSUME IInv, TypeOK', NEW n \in Nodes, Quiet(n)
  PROVE  SenderScope' /\ ReceiverScope'
<1>1. SenderScope'
  <2> SUFFICES ASSUME NEW s \in Senders
               PROVE  /\ pc'[s] \in SenderLabels
                      /\ pc'[s] # "idle" => event'[s] \in Events
                      /\ pc'[s] \in {"receive", "sign", "reply"} =>
                            sock'[s] \in Connections
                      /\ pc'[s] \in {"sign", "reply"} => nonce'[s] \in Nonces
    BY DEF SenderScope
  <2>1. CASE s = n
    BY <2>1 DEF Quiet, QuietSender, IInv, SenderScope, SenderLabels
  <2>2. CASE s # n
    BY <2>2, NodesAreApart
       DEF Quiet, OthersKeepLocals, IInv, SenderScope
  <2> QED
    BY <2>1, <2>2
<1>2. ReceiverScope'
  <2> SUFFICES ASSUME NEW r \in Receivers
               PROVE  /\ pc'[r] \in ReceiverLabels
                      /\ pc'[r] \in {"connect", "challenge", "signature"} =>
                           event'[r] \in Wanted[r] /\ peer'[r] \in Senders
                      /\ InSession(r)' =>
                           /\ sock'[r] = <<r, used'[r]>>
                           /\ nonce'[r] = <<r, used'[r]>>
    BY DEF ReceiverScope
  <2>1. CASE r = n
    BY <2>1 DEF Quiet, QuietReceiver, IInv, ReceiverScope, ReceiverLabels, InSession
  <2>2. CASE r # n
    BY <2>2, NodesAreApart
       DEF Quiet, OthersKeepLocals, IInv, ReceiverScope, InSession
  <2> QED
    BY <2>1, <2>2
<1> QED
  BY <1>1, <1>2

LEMMA QuietProvenance ==
  ASSUME IInv, NEW n \in Nodes, Quiet(n)
  PROVE  Provenance'
<1>1. ASSUME NEW s \in Senders, pc'[s] = "reply"
      PROVE  [sender |-> s, event |-> event'[s], nonce |-> nonce'[s]] \in vouched'
  <2>1. /\ pc[s] = "reply"
        /\ event'[s] = event[s]
        /\ nonce'[s] = nonce[s]
    BY <1>1, NodesAreApart DEF Quiet, QuietSender, OthersKeepLocals
  <2> QED
    BY <2>1 DEF Quiet, IInv, Provenance
<1>2. \A m \in signatures' :
         [sender |-> m.signer, event |-> m.event, nonce |-> m.nonce] \in vouched'
  BY DEF Quiet, IInv, Provenance
<1>3. ASSUME NEW r \in Receivers, pc'[r] = "signature"
      PROVE  [receiver |-> r, event |-> event'[r], nonce |-> nonce'[r]] \in issued'
  <2>1. /\ pc[r] = "signature"
        /\ event'[r] = event[r]
        /\ nonce'[r] = nonce[r]
    BY <1>3, NodesAreApart DEF Quiet, QuietReceiver, OthersKeepLocals
  <2> QED
    BY <2>1 DEF Quiet, IInv, Provenance
<1> QED
  BY <1>1, <1>2, <1>3 DEF Provenance

LEMMA QuietNumbered ==
  ASSUME IInv, NEW n \in Nodes, Quiet(n)
  PROVE  Numbered'
<1>1. \A c : Counted(c)' <=> Counted(c)
  BY DEF Quiet, Counted, Below
<1>2. ASSUME NEW s \in Senders
      PROVE  /\ sock'[s] # NoConnection => Counted(sock'[s])
             /\ \A c \in Queued(s)' : Counted(c)
  <2>1. sock'[s] \in {sock[s], NoConnection} \cup Queued(s)
    BY NodesAreApart DEF Quiet, QuietSender
  <2> QED
    BY <2>1 DEF Quiet, IInv, Numbered
<1>3. \A m \in challenges' \cup signatures' : Counted(m.connection)
  BY DEF Quiet, IInv, Numbered
<1>4. ASSUME NEW r \in Receivers
      PROVE  InSession(r)' => InSession(r)
  BY NodesAreApart DEF Quiet, QuietReceiver, OthersKeepLocals, InSession
<1>5. ASSUME NEW r \in Receivers, NEW i \in 1..Len(delivered'[r])
      PROVE  \E k \in 0..used'[r] :
                /\ delivered'[r][i].nonce = <<r, k>>
                /\ InSession(r)' => k < used'[r]
  <2>1. delivered' = delivered /\ used' = used
    BY DEF Quiet
  <2> QED
    BY <1>4, <2>1 DEF IInv, Numbered
<1> QED
  BY <1>1, <1>2, <1>3, <1>5 DEF Numbered

LEMMA QuietExclusive ==
  ASSUME IInv, TypeOK', NEW n \in Nodes, Quiet(n)
  PROVE  Exclusive'
<1> SUFFICES ASSUME NEW r \in Receivers, InSession(r)'
             PROVE  /\ \A s \in Senders :
                         /\ sock'[s] = sock'[r] =>
                              /\ peer'[r] = s
                              /\ pc'[s] \in {"sign", "reply"} =>
                                   /\ pc'[r] = "signature"
                                   /\ event'[s] = event'[r]
                                   /\ nonce'[s] = nonce'[r]
                         /\ sock'[r] \in Queued(s)' => peer'[r] = s
                    /\ \A m \in challenges' : m.connection = sock'[r] =>
                         /\ pc'[r] = "signature"
                         /\ m.event = event'[r]
                         /\ m.nonce = nonce'[r]
                    /\ \A m \in signatures' : m.connection = sock'[r] =>
                         /\ m.signer = peer'[r]
                         /\ m.event = event'[r]
                         /\ m.nonce = nonce'[r]
  BY DEF Exclusive
<1>1. /\ InSession(r)
      /\ pc'[r] = pc[r]
      /\ event'[r] = event[r]
      /\ nonce'[r] = nonce[r]
      /\ sock'[r] = sock[r]
      /\ peer'[r] = peer[r]
  BY NodesAreApart DEF Quiet, QuietReceiver, OthersKeepLocals, InSession
<1>2. sock[r] # NoConnection
  BY <1>1, PairIsNotEmpty DEF IInv, ReceiverScope, NoConnection
<1>3. ASSUME NEW s \in Senders, sock'[s] = sock'[r]
      PROVE  /\ sock[s] = sock[r] \/ sock[r] \in Queued(s)
             /\ pc'[s] \in {"sign", "reply"} =>
                  /\ sock[s] = sock[r]
                  /\ pc[s] = pc'[s]
                  /\ event'[s] = event[s]
                  /\ nonce'[s] = nonce[s]
  BY <1>1, <1>2, <1>3, NodesAreApart DEF Quiet, QuietSender, OthersKeepLocals
<1>4. /\ challenges' \subseteq challenges
      /\ signatures' \subseteq signatures
      /\ \A s \in Senders : Queued(s)' \subseteq Queued(s)
  BY DEF Quiet
<1> QED
  BY <1>1, <1>3, <1>4 DEF IInv, Exclusive

LEMMA QuietKeepsInvariant ==
  ASSUME IInv, TypeOK', NEW n \in Nodes, Quiet(n)
  PROVE  IInv'
  BY QuietScope, QuietProvenance, QuietNumbered, QuietExclusive DEF IInv

-----------------------------------------------------------------------------
(* The quiet steps                                                         *)

LEMMA DisconnectSockets ==
  ASSUME SocketsType, NEW n \in Nodes, Disconnect(n)
  PROVE  /\ SocketsType'
         /\ sock'[n] = NoConnection
         /\ \A m \in Nodes : m # n => sock'[m] = sock[m]
         /\ challenges' \subseteq challenges
         /\ signatures' \subseteq signatures
  BY DEF SocketsType, Disconnect, Elsewhere

LEMMA EntrySockets ==
  ASSUME SocketsType, NEW n \in Nodes, DisconnectOnEntry(n)
  PROVE  /\ SocketsType'
         /\ sock'[n] \in {sock[n], NoConnection}
         /\ pc'[n] \notin {"listen", "connect"} => sock'[n] = sock[n]
         /\ \A m \in Nodes : m # n => sock'[m] = sock[m]
         /\ challenges' \subseteq challenges
         /\ signatures' \subseteq signatures
<1>1. CASE pc'[n] \in {"listen", "connect"}
  BY <1>1, DisconnectSockets DEF DisconnectOnEntry
<1>2. CASE pc'[n] \notin {"listen", "connect"}
  BY <1>2 DEF DisconnectOnEntry, SocketsType
<1> QED
  BY <1>1, <1>2

(* The locals of a sender that leaves the challenger it serves.            *)
SenderMovesOn(s) ==
    /\ LocalsType'
    /\ OthersKeepLocals(s)
    /\ \/ pc' = pc /\ event' = event /\ nonce' = nonce
       \/ /\ pc'[s] \in {"idle", "broadcast", "listen"}
          /\ pc'[s] # "idle" => event'[s] = event[s]

(* Every error branch of send() is one of: retry, next challenger, next    *)
(* try, return.                                                            *)
LEMMA SenderFailure ==
  ASSUME LocalsType, NEW s \in Senders, NEW e \in ResultErrnos,
         NEW c \in Outcomes, NEW code, code = AfterFailure(s, c),
         \/ code = "retry" /\ Retry(s)
         \/ code # "retry" /\ NextTry(s)
         \/ code # "retry" /\ NextChallenger(s)
         \/ code # "retry" /\ Return(s, code, e)
  PROVE  SenderMovesOn(s)
<1> USE NodesAreApart
<1>1. CASE code = "retry" /\ Retry(s)
  BY <1>1, AfterFailureRetry, RetryLocals DEF SenderMovesOn, OthersKeepLocals
<1>2. CASE NextTry(s)
  BY <1>2, NextTryLocals DEF SenderMovesOn
<1>3. CASE NextChallenger(s)
  BY <1>3, NextChallengerLocals DEF SenderMovesOn
<1>4. CASE code # "retry" /\ Return(s, code, e)
  <2>1. code \in ResultCodes
    BY <1>4, AfterFailureOutcome DEF ResultCodes
  <2> QED
    BY <1>4, <2>1, ReturnLocals DEF SenderMovesOn
<1> QED
  BY <1>1, <1>2, <1>3, <1>4

(* A sender that moves on, with its sockets as DisconnectOnEntry or        *)
(* unchanged, and nothing new on the network, is quiet.                    *)
LEMMA MovingOnIsQuiet ==
  ASSUME IInv, NEW s \in Senders, SenderMovesOn(s), pc[s] # "idle",
         DisconnectOnEntry(s) \/ UNCHANGED <<sock, timed, challenges, signatures>>,
         UNCHANGED <<peer, backlog, used, issued, vouched, delivered>>
  PROVE  Quiet(s) /\ LocalsType' /\ SocketsType'
<1>1. /\ LocalsType
      /\ SocketsType
      /\ event[s] \in Events
  BY TypeParts DEF IInv, SenderScope
<1>2. /\ SocketsType'
      /\ sock'[s] \in {sock[s], NoConnection}
      /\ pc'[s] # "listen" /\ pc'[s] # "connect" => sock'[s] = sock[s]
      /\ \A m \in Nodes : m # s => sock'[m] = sock[m]
      /\ challenges' \subseteq challenges
      /\ signatures' \subseteq signatures
  <2>1. CASE DisconnectOnEntry(s)
    BY <1>1, <2>1, EntrySockets, NodesAreApart
  <2>2. CASE UNCHANGED <<sock, timed, challenges, signatures>>
    BY <1>1, <2>2 DEF SocketsType
  <2> QED
    BY <2>1, <2>2
<1>3. \A z \in Senders : Queued(z)' = Queued(z)
  BY DEF Queued
<1>4. QuietSender(s)
  <2>1. CASE pc' = pc /\ event' = event /\ nonce' = nonce
    <3>1. CASE pc[s] = "listen"
      BY <1>1, <1>2, <2>1, <3>1 DEF QuietSender
    <3>2. CASE pc[s] # "listen"
      BY <1>2, <2>1, <3>2 DEF QuietSender, IInv, SenderScope, SenderLabels
    <3> QED
      BY <3>1, <3>2
  <2>2. CASE /\ pc'[s] \in {"idle", "broadcast", "listen"}
             /\ pc'[s] # "idle" => event'[s] = event[s]
    BY <1>1, <1>2, <2>2 DEF QuietSender
  <2> QED
    BY <2>1, <2>2 DEF SenderMovesOn
<1> QED
  BY <1>2, <1>3, <1>4, NodesAreApart DEF Quiet, SenderMovesOn

LEMMA SetModeFailsQuiet ==
  ASSUME IInv, NEW n \in Nodes, NEW e \in Errnos, SetModeFails(n, e)
  PROVE  TypeOK' /\ Quiet(n)
<1>1. /\ LocalsType'
      /\ OthersKeepLocals(n)
      /\ pc'[n] = "idle"
  <2>1. "system" \in ResultCodes /\ e \in ResultErrnos
    BY DEF ResultCodes, ResultErrnos
  <2> QED
    BY <2>1, TypeParts, ReturnLocals DEF IInv, SetModeFails
<1>2. /\ SocketsType'
      /\ RestType'
  BY TypeParts DEF IInv, SetModeFails, SocketsType, RestType, network, history
<1>3. Quiet(n)
  BY <1>1 DEF Quiet, QuietSender, QuietReceiver, SetModeFails, network, history,
              Queued
<1> QED
  BY <1>1, <1>2, <1>3, TypePartsPrime

LEMMA SendQuiet ==
  ASSUME IInv, NEW s \in Senders, NEW e \in Events, Send(s, e)
  PROVE  TypeOK' /\ Quiet(s)
<1> USE NodesAreApart
<1> DEFINE first == [NoLoop EXCEPT !.triesLeft = TriesFor(MaxRetries)]
<1>1. first \in [triesLeft : Nat, served : 0..TrustedCount, queued : BOOLEAN]
  <2>1. NoLoop \in [triesLeft : Nat, served : 0..TrustedCount, queued : BOOLEAN]
    BY CountsAssumption DEF NoLoop
  <2>2. TriesFor(MaxRetries) \in Nat
    BY CountsAssumption, TriesForNat
  <2> QED
    BY <2>1, <2>2
<1>2. loop' = [loop EXCEPT ![s] = first]
  BY DEF Send
<1> HIDE DEF first
<1>3. LocalsType'
  <2>1. NoResult \in [code : ResultCodes, errno : ResultErrnos]
    BY DEF NoResult, ResultCodes, ResultErrnos
  <2> QED
    BY <1>1, <1>2, <2>1, TypeParts, TriesAreNat DEF IInv, LocalsType, Send
<1>4. SocketsType'
  BY TypeParts DEF IInv, SocketsType, Send, network
<1>5. RestType'
  BY TypeParts DEF IInv, RestType, Send, network, SetMode
<1>6. Quiet(s)
  <2>1. QuietSender(s)
    BY TypeParts DEF IInv, LocalsType, QuietSender, Send
  <2>2. OthersKeepLocals(s)
    BY TypeParts DEF IInv, LocalsType, OthersKeepLocals, Send
  <2> QED
    BY <2>1, <2>2 DEF Quiet, Send, network, Queued
<1> QED
  BY <1>3, <1>4, <1>5, <1>6, TypePartsPrime

LEMMA BroadcastQuiet ==
  ASSUME IInv, NEW s \in Senders, Broadcast(s)
  PROVE  TypeOK' /\ Quiet(s)
<1> USE NodesAreApart
<1>1. /\ LocalsType'
      /\ OthersKeepLocals(s)
      /\ pc'[s] = "listen"
      /\ event' = event
  <2>1. 0 \in Nat /\ NoNonce \in Nonces \cup {NoNonce}
    OBVIOUS
  <2> QED
    BY <2>1, TypeParts, ProceedLocals DEF IInv, Broadcast
<1>2. /\ SocketsType'
      /\ sock'[s] = NoConnection
      /\ \A m \in Nodes : m # s => sock'[m] = sock[m]
      /\ challenges' \subseteq challenges
      /\ signatures' \subseteq signatures
  BY TypeParts, DisconnectSockets DEF IInv, Broadcast
<1>3. event[s] \in Events
  BY DEF IInv, SenderScope, Broadcast
<1>4. RestType'
  BY <1>3, TypeParts DEF IInv, RestType, Broadcast, Datagrams
<1>5. Quiet(s)
  BY <1>1, <1>2, <1>3 DEF Quiet, QuietSender, Broadcast, Queued
<1> QED
  BY <1>1, <1>2, <1>4, <1>5, TypePartsPrime

LEMMA BroadcastFailsQuiet ==
  ASSUME IInv, NEW s \in Senders, NEW e \in Errnos, BroadcastFails(s, e)
  PROVE  TypeOK' /\ Quiet(s)
<1>1. SenderMovesOn(s)
  <2>1. e \in ResultErrnos
    BY DEF ResultErrnos
  <2> QED
    BY <2>1, TypeParts, CodesAreOutcomes, SenderFailure DEF IInv, BroadcastFails
<1>2. Quiet(s) /\ LocalsType' /\ SocketsType'
  BY <1>1, MovingOnIsQuiet DEF BroadcastFails, network, history
<1>3. RestType'
  BY TypeParts DEF IInv, RestType, BroadcastFails, network, history
<1> QED
  BY <1>2, <1>3, TypePartsPrime

(* What taking the first connection off the queue leaves.                  *)
LEMMA TakeFirst ==
  ASSUME IInv, NEW s \in Senders, backlog[s] # << >>,
         backlog' = [backlog EXCEPT ![s] = Tail(@)]
  PROVE  /\ backlog' \in [Senders -> Seq(Connections)]
         /\ \A z \in Senders : Queued(z)' \subseteq Queued(z)
         /\ Head(backlog[s]) \in Queued(s)
         /\ Head(backlog[s]) \in Connections
<1>1. /\ backlog \in [Senders -> Seq(Connections)]
      /\ backlog[s] \in Seq(Connections)
  BY TypeParts DEF IInv, RestType
<1>2. /\ Head(backlog[s]) \in Queued(s)
      /\ Tail(backlog[s]) \in Seq(Connections)
      /\ {Tail(backlog[s])[i] : i \in 1..Len(Tail(backlog[s]))} \subseteq Queued(s)
  BY <1>1, TailElements DEF Queued
<1>3. ASSUME NEW z \in Senders
      PROVE  Queued(z)' \subseteq Queued(z)
  <2>1. CASE z = s
    BY <1>1, <1>2, <2>1 DEF Queued
  <2>2. CASE z # s
    BY <1>1, <2>2 DEF Queued
  <2> QED
    BY <2>1, <2>2
<1>4. Head(backlog[s]) \in Connections
  BY <1>1
<1> QED
  BY <1>1, <1>2, <1>3, <1>4

LEMMA AcceptQuiet ==
  ASSUME IInv, NEW s \in Senders, Accept(s)
  PROVE  TypeOK' /\ Quiet(s)
<1> USE NodesAreApart
<1>1. /\ backlog' \in [Senders -> Seq(Connections)]
      /\ \A z \in Senders : Queued(z)' \subseteq Queued(z)
      /\ Head(backlog[s]) \in Queued(s)
      /\ Head(backlog[s]) \in Connections
  BY TakeFirst DEF Accept
<1>2. LocalsType'
  <2>1. [loop[s] EXCEPT !.queued = TRUE]
           \in [triesLeft : Nat, served : 0..TrustedCount, queued : BOOLEAN]
    BY TypeParts DEF IInv, LocalsType
  <2> QED
    BY <2>1, TypeParts, TriesAreNat DEF IInv, LocalsType, Accept
<1>3. SocketsType'
  BY <1>1, TypeParts DEF IInv, SocketsType, Accept, SetCommunicationTimeout
<1>4. RestType'
  BY <1>1, TypeParts DEF IInv, RestType, Accept, history
<1>5. OthersKeepLocals(s)
  BY TypeParts DEF IInv, LocalsType, OthersKeepLocals, Accept
<1>6. /\ \A m \in Nodes : m # s => sock'[m] = sock[m]
      /\ sock'[s] = Head(backlog[s])
      /\ pc'[s] = "receive"
      /\ event'[s] \in Events
  BY TypeParts DEF IInv, LocalsType, SocketsType, SenderScope, Accept
<1>7. Quiet(s)
  BY <1>1, <1>5, <1>6 DEF Quiet, QuietSender, Accept, history
<1> QED
  BY <1>2, <1>3, <1>4, <1>7, TypePartsPrime

LEMMA AcceptTimeoutFailsQuiet ==
  ASSUME IInv, NEW s \in Senders, NEW e \in Errnos, AcceptTimeoutFails(s, e)
  PROVE  TypeOK' /\ Quiet(s)
<1> USE NodesAreApart
<1>1. /\ backlog' \in [Senders -> Seq(Connections)]
      /\ \A z \in Senders : Queued(z)' \subseteq Queued(z)
      /\ Head(backlog[s]) \in Queued(s)
      /\ Head(backlog[s]) \in Connections
  BY TakeFirst DEF AcceptTimeoutFails
<1>2. /\ LocalsType'
      /\ OthersKeepLocals(s)
      /\ pc'[s] = "idle"
  <2>1. "system" \in ResultCodes /\ e \in ResultErrnos
    BY DEF ResultCodes, ResultErrnos
  <2> QED
    BY <2>1, TypeParts, ReturnLocals DEF IInv, AcceptTimeoutFails
<1>3. SocketsType'
  BY <1>1, TypeParts DEF IInv, SocketsType, AcceptTimeoutFails
<1>4. RestType'
  BY <1>1, TypeParts DEF IInv, RestType, AcceptTimeoutFails, history
<1>5. /\ \A m \in Nodes : m # s => sock'[m] = sock[m]
      /\ sock'[s] = Head(backlog[s])
  BY TypeParts DEF IInv, SocketsType, AcceptTimeoutFails
<1>6. Quiet(s)
  BY <1>1, <1>2, <1>5 DEF Quiet, QuietSender, AcceptTimeoutFails, history
<1> QED
  BY <1>2, <1>3, <1>4, <1>6, TypePartsPrime

LEMMA ListenFailedLocals ==
  ASSUME IInv, NEW s \in Senders, NEW c, NEW e \in ResultErrnos, NEW x,
         ListenFailed(s, ListenCode(c, x), e)
  PROVE  SenderMovesOn(s)
<1> USE NodesAreApart
<1>1. LocalsType
  BY TypeParts DEF IInv
<1>2. CASE NextChallenger(s)
  BY <1>1, <1>2, NextChallengerLocals DEF SenderMovesOn
<1>3. CASE NextTry(s)
  BY <1>1, <1>3, NextTryLocals DEF SenderMovesOn
<1>4. CASE Return(s, ListenCode(c, x), e)
  <2>1. ListenCode(c, x) \in ResultCodes
    BY CodesAreOutcomes DEF ResultCodes
  <2> QED
    BY <1>1, <1>4, <2>1, ReturnLocals DEF SenderMovesOn
<1> QED
  BY <1>2, <1>3, <1>4 DEF ListenFailed

LEMMA ListenTimeoutQuiet ==
  ASSUME IInv, NEW s \in Senders, ListenTimeout(s)
  PROVE  TypeOK' /\ Quiet(s)
<1>1. SenderMovesOn(s)
  BY ListenFailedLocals DEF ListenTimeout, ResultErrnos
<1>2. Quiet(s) /\ LocalsType' /\ SocketsType'
  BY <1>1, MovingOnIsQuiet DEF ListenTimeout, network, history
<1>3. RestType'
  BY TypeParts DEF IInv, RestType, ListenTimeout, network, history
<1> QED
  BY <1>2, <1>3, TypePartsPrime

LEMMA SelectFailsQuiet ==
  ASSUME IInv, NEW s \in Senders, NEW e \in Errnos, SelectFails(s, e)
  PROVE  TypeOK' /\ Quiet(s)
<1>1. SenderMovesOn(s)
  BY ListenFailedLocals DEF SelectFails, ResultErrnos
<1>2. Quiet(s) /\ LocalsType' /\ SocketsType'
  BY <1>1, MovingOnIsQuiet DEF SelectFails, network, history
<1>3. RestType'
  BY TypeParts DEF IInv, RestType, SelectFails, network, history
<1> QED
  BY <1>2, <1>3, TypePartsPrime

LEMMA AcceptFailsQuiet ==
  ASSUME IInv, NEW s \in Senders, NEW e \in Errnos, AcceptFails(s, e)
  PROVE  TypeOK' /\ Quiet(s)
<1> USE NodesAreApart
<1>1. /\ backlog' \in [Senders -> Seq(Connections)]
      /\ \A z \in Senders : Queued(z)' \subseteq Queued(z)
  BY TakeFirst DEF AcceptFails
<1>2. SenderMovesOn(s)
  BY ListenFailedLocals DEF AcceptFails, ResultErrnos
<1>3. SocketsType' /\ challenges' \subseteq challenges
  BY TypeParts DEF IInv, SocketsType, AcceptFails
<1>4. RestType'
  BY <1>1, TypeParts DEF IInv, RestType, AcceptFails, history
<1>5. QuietSender(s)
  <2>1. event[s] \in Events /\ sock' = sock
    BY DEF IInv, SenderScope, AcceptFails
  <2> QED
    BY <1>2, <2>1 DEF SenderMovesOn, QuietSender
<1>6. Quiet(s)
  BY <1>1, <1>2, <1>3, <1>5 DEF Quiet, SenderMovesOn, AcceptFails, history
<1> QED
  BY <1>2, <1>3, <1>4, <1>6, TypePartsPrime DEF SenderMovesOn

LEMMA ReceiveChallengeFailedQuiet ==
  ASSUME IInv, NEW s \in Senders, NEW e \in ResultErrnos, pc[s] = "receive",
         ReceiveChallengeFailed(s, e)
  PROVE  TypeOK' /\ Quiet(s)
<1>1. SenderMovesOn(s)
  BY TypeParts, CodesAreOutcomes, SenderFailure DEF IInv, ReceiveChallengeFailed
<1>2. Quiet(s) /\ LocalsType' /\ SocketsType'
  BY <1>1, MovingOnIsQuiet DEF ReceiveChallengeFailed, history
<1>3. RestType'
  BY TypeParts DEF IInv, RestType, ReceiveChallengeFailed, history
<1> QED
  BY <1>2, <1>3, TypePartsPrime

LEMMA SendSignatureFailsQuiet ==
  ASSUME IInv, NEW s \in Senders, NEW e \in Errnos, SendSignatureFails(s, e)
  PROVE  TypeOK' /\ Quiet(s)
<1>1. SenderMovesOn(s)
  <2>1. e \in ResultErrnos
    BY DEF ResultErrnos
  <2> QED
    BY <2>1, TypeParts, CodesAreOutcomes, SenderFailure DEF IInv, SendSignatureFails
<1>2. Quiet(s) /\ LocalsType' /\ SocketsType'
  BY <1>1, MovingOnIsQuiet DEF SendSignatureFails, history
<1>3. RestType'
  BY TypeParts DEF IInv, RestType, SendSignatureFails, history
<1> QED
  BY <1>2, <1>3, TypePartsPrime

LEMMA SignFailsQuiet ==
  ASSUME IInv, NEW s \in Senders, SignFails(s)
  PROVE  TypeOK' /\ Quiet(s)
<1>1. SenderMovesOn(s)
  <2>1. "internal_signing_error" \in ResultCodes /\ "none" \in ResultErrnos
    BY DEF ResultCodes, ErrorCodes, ResultErrnos
  <2> QED
    BY <2>1, TypeParts, ReturnLocals, NodesAreApart DEF IInv, SignFails, SenderMovesOn
<1>2. Quiet(s) /\ LocalsType' /\ SocketsType'
  BY <1>1, MovingOnIsQuiet DEF SignFails, network, history
<1>3. RestType'
  BY TypeParts DEF IInv, RestType, SignFails, network, history
<1> QED
  BY <1>2, <1>3, TypePartsPrime

(* The locals of a receiver that leaves, or stays before, its session.     *)
ReceiverMovesOn(r) ==
    /\ LocalsType'
    /\ OthersKeepLocals(r)
    /\ \/ pc' = pc /\ event' = event /\ nonce' = nonce
       \/ /\ pc'[r] \in {"idle", "event", "connect"}
          /\ pc'[r] = "connect" => event'[r] = event[r]

LEMMA ReceiverJumps ==
  ASSUME LocalsType, NEW r \in Receivers,
         TryReceiveEvent(r) \/ TryConnectToSender(r)
  PROVE  ReceiverMovesOn(r)
<1> USE NodesAreApart
<1>1. 0 \in Nat /\ NoNonce \in Nonces \cup {NoNonce}
  OBVIOUS
<1>2. CASE TryReceiveEvent(r)
  BY <1>1, <1>2, ProceedLocals DEF TryReceiveEvent, ReceiverMovesOn
<1>3. CASE TryConnectToSender(r)
  BY <1>1, <1>3, ProceedLocals, TriesAreNat DEF TryConnectToSender, ReceiverMovesOn
<1> QED
  BY <1>2, <1>3

(* Every error branch of await() is one of: retry, goto, return.           *)
LEMMA ReceiverFailure ==
  ASSUME LocalsType, NEW r \in Receivers, NEW e \in ResultErrnos,
         NEW c \in Outcomes, NEW code, code = AfterFailure(r, c),
         \/ code = "retry" /\ Retry(r)
         \/ code # "retry" /\ TryReceiveEvent(r)
         \/ code # "retry" /\ TryConnectToSender(r)
         \/ code # "retry" /\ Return(r, code, e)
  PROVE  ReceiverMovesOn(r)
<1> USE NodesAreApart
<1>1. CASE code = "retry" /\ Retry(r)
  BY <1>1, AfterFailureRetry, RetryLocals DEF ReceiverMovesOn, OthersKeepLocals
<1>2. CASE TryReceiveEvent(r) \/ TryConnectToSender(r)
  BY <1>2, ReceiverJumps
<1>3. CASE code # "retry" /\ Return(r, code, e)
  <2>1. code \in ResultCodes
    BY <1>3, AfterFailureOutcome DEF ResultCodes
  <2> QED
    BY <1>3, <2>1, ReturnLocals DEF ReceiverMovesOn
<1> QED
  BY <1>1, <1>2, <1>3

LEMMA ReceiverMovingOnIsQuiet ==
  ASSUME IInv, NEW r \in Receivers, ReceiverMovesOn(r),
         pc[r] \in {"connect", "challenge", "signature"},
         DisconnectOnEntry(r) \/ UNCHANGED <<sock, timed, challenges, signatures>>,
         UNCHANGED <<peer, backlog, used, issued, vouched, delivered>>
  PROVE  Quiet(r) /\ LocalsType' /\ SocketsType'
<1>1. /\ LocalsType
      /\ SocketsType
      /\ event[r] \in Wanted[r]
      /\ peer[r] \in Senders
  BY TypeParts DEF IInv, ReceiverScope
<1>2. /\ SocketsType'
      /\ pc'[r] # "listen" /\ pc'[r] # "connect" => sock'[r] = sock[r]
      /\ \A m \in Nodes : m # r => sock'[m] = sock[m]
      /\ challenges' \subseteq challenges
      /\ signatures' \subseteq signatures
  <2>1. CASE DisconnectOnEntry(r)
    BY <1>1, <2>1, EntrySockets, NodesAreApart
  <2>2. CASE UNCHANGED <<sock, timed, challenges, signatures>>
    BY <1>1, <2>2 DEF SocketsType
  <2> QED
    BY <2>1, <2>2
<1>3. \A z \in Senders : Queued(z)' = Queued(z)
  BY DEF Queued
<1>4. QuietReceiver(r)
  <2>1. CASE pc' = pc /\ event' = event /\ nonce' = nonce
    <3>1. CASE pc[r] = "connect"
      BY <1>1, <2>1, <3>1 DEF QuietReceiver
    <3>2. CASE pc[r] # "connect"
      BY <1>2, <2>1, <3>2 DEF QuietReceiver
    <3> QED
      BY <3>1, <3>2
  <2>2. CASE /\ pc'[r] \in {"idle", "event", "connect"}
             /\ pc'[r] = "connect" => event'[r] = event[r]
    BY <1>1, <2>2 DEF QuietReceiver
  <2> QED
    BY <2>1, <2>2 DEF ReceiverMovesOn
<1> QED
  BY <1>2, <1>3, <1>4, NodesAreApart DEF Quiet, ReceiverMovesOn

LEMMA AwaitQuiet ==
  ASSUME IInv, NEW r \in Receivers, Await(r)
  PROVE  TypeOK' /\ Quiet(r)
<1> USE NodesAreApart
<1>1. LocalsType'
  <2>1. NoResult \in [code : ResultCodes, errno : ResultErrnos]
    BY DEF NoResult, ResultCodes, ResultErrnos
  <2> QED
    BY <2>1, TypeParts DEF IInv, LocalsType, Await
<1>2. SocketsType'
  BY TypeParts DEF IInv, SocketsType, Await, network
<1>3. RestType'
  BY TypeParts DEF IInv, RestType, Await, SetMode, network, history
<1>4. pc'[r] = "event" /\ OthersKeepLocals(r)
  BY TypeParts DEF IInv, LocalsType, OthersKeepLocals, Await
<1>5. Quiet(r)
  BY <1>4 DEF Quiet, QuietReceiver, Await, network, history, Queued
<1> QED
  BY <1>1, <1>2, <1>3, <1>5, TypePartsPrime

LEMMA ReceiveEventQuiet ==
  ASSUME IInv, NEW r \in Receivers, ReceiveEvent(r)
  PROVE  TypeOK' /\ Quiet(r)
<1> USE NodesAreApart
<1>1. PICK d \in datagrams[r] :
         /\ \E rest \in {datagrams[r], datagrams[r] \ {d}} :
              datagrams' = [datagrams EXCEPT ![r] = rest]
         /\ \/ /\ WantsEvent(r, d.event)
               /\ pc' = [pc EXCEPT ![r] = "connect"]
               /\ tries' = [tries EXCEPT ![r] = TryConnecting]
               /\ event' = [event EXCEPT ![r] = d.event]
               /\ peer' = [peer EXCEPT ![r] = d.from]
               /\ UNCHANGED <<loop, nonce, result>>
               /\ Disconnect(r)
            \/ UNCHANGED <<locals, peer, sock, timed, challenges, signatures>>
  BY DEF ReceiveEvent
<1>2. /\ d.from \in Senders
      /\ d.event \in Events
      /\ datagrams' \in [Receivers -> SUBSET Datagrams]
  BY <1>1, TypeParts DEF IInv, RestType, Datagrams
<1>3. UNCHANGED <<mode, backlog, history>>
  BY DEF ReceiveEvent
<1>4. CASE /\ WantsEvent(r, d.event)
           /\ pc' = [pc EXCEPT ![r] = "connect"]
           /\ tries' = [tries EXCEPT ![r] = TryConnecting]
           /\ event' = [event EXCEPT ![r] = d.event]
           /\ peer' = [peer EXCEPT ![r] = d.from]
           /\ UNCHANGED <<loop, nonce, result>>
           /\ Disconnect(r)
  <2>1. LocalsType'
    BY <1>2, <1>4, TypeParts, TriesAreNat DEF IInv, LocalsType
  <2>2. /\ SocketsType'
        /\ \A m \in Nodes : m # r => sock'[m] = sock[m]
        /\ challenges' \subseteq challenges
        /\ signatures' \subseteq signatures
    BY <1>4, TypeParts, DisconnectSockets DEF IInv
  <2>3. RestType'
    BY <1>2, <1>3, <1>4, TypeParts DEF IInv, RestType, history
  <2>4. OthersKeepLocals(r)
    BY <1>4, TypeParts DEF IInv, LocalsType, OthersKeepLocals
  <2>5. /\ pc'[r] = "connect"
        /\ event'[r] \in Wanted[r]
        /\ peer'[r] \in Senders
        /\ \A q \in Receivers : q # r => peer'[q] = peer[q]
    BY <1>2, <1>4, TypeParts DEF IInv, LocalsType, RestType, WantsEvent
  <2>6. Quiet(r)
    BY <1>3, <2>2, <2>4, <2>5 DEF Quiet, QuietReceiver, history, Queued
  <2> QED
    BY <2>1, <2>2, <2>3, <2>6, TypePartsPrime
<1>5. CASE UNCHANGED <<locals, peer, sock, timed, challenges, signatures>>
  <2>1. LocalsType' /\ SocketsType' /\ OthersKeepLocals(r)
    BY <1>5, TypeParts DEF IInv, LocalsType, SocketsType, OthersKeepLocals, locals
  <2>2. RestType'
    BY <1>2, <1>3, <1>5, TypeParts DEF IInv, RestType, history
  <2>3. Quiet(r)
    BY <1>3, <1>5, <2>1 DEF Quiet, QuietReceiver, locals, history, Queued
  <2> QED
    BY <2>1, <2>2, <2>3, TypePartsPrime
<1> QED
  BY <1>1, <1>4, <1>5

LEMMA ReceiveEventFailsQuiet ==
  ASSUME IInv, NEW r \in Receivers, NEW e \in Errnos, ReceiveEventFails(r, e)
  PROVE  TypeOK' /\ Quiet(r)
<1> USE NodesAreApart
<1>1. /\ LocalsType'
      /\ OthersKeepLocals(r)
      /\ pc'[r] = "idle"
  <2>1. BroadcastReceiveCode(e) \in ResultCodes /\ e \in ResultErrnos
    BY CodesAreOutcomes DEF ReceiveEventFails, Outcomes, ResultCodes, ResultErrnos
  <2> QED
    BY <2>1, TypeParts, ReturnLocals DEF IInv, ReceiveEventFails
<1>2. SocketsType'
  BY TypeParts DEF IInv, SocketsType, ReceiveEventFails, network
<1>3. RestType'
  BY TypeParts DEF IInv, RestType, ReceiveEventFails, network, history
<1>4. Quiet(r)
  BY <1>1 DEF Quiet, QuietReceiver, ReceiveEventFails, network, history, Queued
<1> QED
  BY <1>1, <1>2, <1>3, <1>4, TypePartsPrime

LEMMA ConnectFailedQuiet ==
  ASSUME IInv, NEW r \in Receivers, NEW e \in ResultErrnos, pc[r] = "connect",
         ConnectFailed(r, e)
  PROVE  TypeOK' /\ Quiet(r)
<1>1. ReceiverMovesOn(r)
  BY TypeParts, CodesAreOutcomes, ReceiverFailure DEF IInv, ConnectFailed
<1>2. Quiet(r) /\ LocalsType' /\ SocketsType'
  BY <1>1, ReceiverMovingOnIsQuiet DEF ConnectFailed, network, history
<1>3. RestType'
  BY TypeParts DEF IInv, RestType, ConnectFailed, network, history
<1> QED
  BY <1>2, <1>3, TypePartsPrime

LEMMA SendChallengeFailsQuiet ==
  ASSUME IInv, NEW r \in Receivers, NEW e \in Errnos, SendChallengeFails(r, e)
  PROVE  TypeOK' /\ Quiet(r)
<1>1. ReceiverMovesOn(r)
  <2>1. e \in ResultErrnos
    BY DEF ResultErrnos
  <2> QED
    BY <2>1, TypeParts, CodesAreOutcomes, ReceiverFailure DEF IInv, SendChallengeFails
<1>2. Quiet(r) /\ LocalsType' /\ SocketsType'
  BY <1>1, ReceiverMovingOnIsQuiet DEF SendChallengeFails, history
<1>3. RestType'
  BY TypeParts DEF IInv, RestType, SendChallengeFails, history
<1> QED
  BY <1>2, <1>3, TypePartsPrime

LEMMA ReceiveSignatureFailedQuiet ==
  ASSUME IInv, NEW r \in Receivers, NEW e \in ResultErrnos, pc[r] = "signature",
         ReceiveSignatureFailed(r, e)
  PROVE  TypeOK' /\ Quiet(r)
<1>1. ReceiverMovesOn(r)
  BY TypeParts, CodesAreOutcomes, ReceiverFailure DEF IInv, ReceiveSignatureFailed
<1>2. Quiet(r) /\ LocalsType' /\ SocketsType'
  BY <1>1, ReceiverMovingOnIsQuiet DEF ReceiveSignatureFailed, history
<1>3. RestType'
  BY TypeParts DEF IInv, RestType, ReceiveSignatureFailed, history
<1> QED
  BY <1>2, <1>3, TypePartsPrime

LEMMA VerifyFailsQuiet ==
  ASSUME IInv, NEW r \in Receivers, VerifyFails(r)
  PROVE  TypeOK' /\ Quiet(r)
<1> USE NodesAreApart
<1>1. LocalsType' /\ OthersKeepLocals(r) /\ pc'[r] \in {"idle", "event"}
  <2>1. CASE Return(r, "internal_verification_error", "none")
    <3>1. "internal_verification_error" \in ResultCodes /\ "none" \in ResultErrnos
      BY DEF ResultCodes, ErrorCodes, ResultErrnos
    <3> QED
      BY <2>1, <3>1, TypeParts, ReturnLocals DEF IInv
  <2>2. CASE TryReceiveEvent(r)
    <3>1. 0 \in Nat /\ NoNonce \in Nonces \cup {NoNonce}
      OBVIOUS
    <3> QED
      BY <2>2, <3>1, TypeParts, ProceedLocals DEF IInv, TryReceiveEvent
  <2> QED
    BY <2>1, <2>2 DEF VerifyFails
<1>2. /\ SocketsType'
      /\ signatures' \subseteq signatures
      /\ UNCHANGED <<sock, challenges>>
  BY TypeParts DEF IInv, SocketsType, VerifyFails
<1>3. RestType'
  BY TypeParts DEF IInv, RestType, VerifyFails, history
<1>4. Quiet(r)
  BY <1>1, <1>2 DEF Quiet, QuietReceiver, VerifyFails, history, Queued
<1> QED
  BY <1>1, <1>2, <1>3, <1>4, TypePartsPrime

LEMMA LoseDatagramQuiet ==
  ASSUME IInv, NEW r \in Receivers, NEW d, LoseDatagram(r, d)
  PROVE  TypeOK' /\ Quiet(r)
<1> USE NodesAreApart
<1>1. LocalsType' /\ SocketsType' /\ OthersKeepLocals(r)
  BY TypeParts DEF IInv, LocalsType, SocketsType, OthersKeepLocals, LoseDatagram,
                   locals
<1>2. RestType'
  BY TypeParts DEF IInv, RestType, LoseDatagram, history
<1>3. Quiet(r)
  BY <1>1 DEF Quiet, QuietReceiver, LoseDatagram, locals, history, Queued
<1> QED
  BY <1>1, <1>2, <1>3, TypePartsPrime

LEMMA RebootQuiet ==
  ASSUME IInv, NEW n \in Nodes, Reboot(n)
  PROVE  TypeOK' /\ Quiet(n)
<1> USE NodesAreApart
<1>1. /\ LocalsType'
      /\ OthersKeepLocals(n)
      /\ pc'[n] = "idle"
  <2>1. "none" \in ResultCodes /\ "none" \in ResultErrnos
    BY DEF ResultCodes, ResultErrnos
  <2> QED
    BY <2>1, TypeParts, ReturnLocals DEF IInv, Reboot
<1>2. /\ SocketsType'
      /\ challenges' \subseteq challenges
      /\ signatures' \subseteq signatures
  BY TypeParts DEF IInv, SocketsType, Reboot
<1>3. /\ sock'[n] = NoConnection
      /\ \A m \in Nodes : m # n => sock'[m] = sock[m]
  BY TypeParts DEF IInv, SocketsType, Reboot
<1>4. /\ backlog' \in [Senders -> Seq(Connections)]
      /\ \A z \in Senders : Queued(z)' \subseteq Queued(z)
  <2>1. backlog \in [Senders -> Seq(Connections)]
    BY TypeParts DEF IInv, RestType
  <2>2. CASE n \in Senders
    <3>1. backlog' = [backlog EXCEPT ![n] = << >>]
      BY <2>2 DEF Reboot
    <3> QED
      BY <2>1, <2>2, <3>1 DEF Queued
  <2>3. CASE n \notin Senders
    BY <2>1, <2>3 DEF Reboot, Queued
  <2> QED
    BY <2>2, <2>3
<1>5. RestType'
  <2>1. datagrams' \in [Receivers -> SUBSET Datagrams]
    BY TypeParts DEF IInv, RestType, Reboot
  <2>2. mode' \in [Nodes -> {"none", "sender", "receiver"}]
    BY TypeParts DEF IInv, RestType, Reboot
  <2>3. UNCHANGED <<peer, used, aired, issued, vouched, delivered>>
    BY DEF Reboot, history
  <2> QED
    BY <1>4, <2>1, <2>2, <2>3, TypeParts DEF IInv, RestType
<1>6. Quiet(n)
  BY <1>1, <1>2, <1>3, <1>4 DEF Quiet, QuietSender, QuietReceiver, Reboot, history
<1> QED
  BY <1>1, <1>2, <1>5, <1>6, TypePartsPrime

-----------------------------------------------------------------------------
(* The steps that carry the protocol                                       *)

(* A rejected challenge is skipped; an accepted one binds the sender to    *)
(* the session it came from.                                               *)
LEMMA ReceiveChallengeInvariant ==
  ASSUME IInv, NEW s \in Senders, ReceiveChallenge(s)
  PROVE  IInv'
<1> USE NodesAreApart
<1>1. PICK m \in challenges :
         /\ m.connection = sock[s]
         /\ \/ /\ AcceptsChallenge(s, m)
               /\ Proceed(s, "sign", 0, m.nonce)
               /\ challenges' = challenges \ {m}
               /\ UNCHANGED <<sock, timed, signatures>>
            \/ /\ NextChallenger(s)
               /\ DisconnectOnEntry(s)
  BY DEF ReceiveChallenge
<1>2. /\ pc[s] = "receive"
      /\ UNCHANGED <<mode, peer, datagrams, backlog, history>>
  BY DEF ReceiveChallenge
<1>3. LocalsType /\ SocketsType /\ RestType
  BY TypeParts DEF IInv
<1>4. RestType'
  BY <1>2, <1>3 DEF RestType, history
<1>5. CASE NextChallenger(s) /\ DisconnectOnEntry(s)
  <2>1. SenderMovesOn(s)
    BY <1>3, <1>5, NextChallengerLocals DEF SenderMovesOn
  <2>2. Quiet(s) /\ LocalsType' /\ SocketsType'
    BY <1>2, <1>5, <2>1, MovingOnIsQuiet DEF history
  <2> QED
    BY <1>4, <2>2, TypePartsPrime, QuietKeepsInvariant
<1>6. CASE /\ AcceptsChallenge(s, m)
           /\ Proceed(s, "sign", 0, m.nonce)
           /\ challenges' = challenges \ {m}
           /\ UNCHANGED <<sock, timed, signatures>>
  <2>1. /\ m.nonce \in Nonces
        /\ m.event = event[s]
    BY <1>3, <1>6 DEF SocketsType, ChallengeMessages, AcceptsChallenge
  <2>2. /\ LocalsType'
        /\ OthersKeepLocals(s)
        /\ pc'[s] = "sign"
        /\ nonce'[s] = m.nonce
        /\ event' = event
    <3>1. 0 \in Nat
      OBVIOUS
    <3> QED
      BY <1>3, <1>6, <2>1, <3>1, ProceedLocals
  <2>3. SocketsType'
    BY <1>3, <1>6 DEF SocketsType
  <2>4. TypeOK'
    BY <1>4, <2>2, <2>3, TypePartsPrime
  <2>5. /\ UNCHANGED <<peer, backlog, used, issued, vouched, delivered, event, sock,
                        signatures>>
        /\ challenges' \subseteq challenges
        /\ \A r \in Receivers : pc'[r] = pc[r] /\ nonce'[r] = nonce[r]
        /\ \A z \in Senders : z # s => pc'[z] = pc[z] /\ nonce'[z] = nonce[z]
    BY <1>2, <1>6, <2>2 DEF history, OthersKeepLocals
  <2>6. SenderScope'
    BY <1>2, <2>1, <2>2, <2>5 DEF IInv, SenderScope, SenderLabels
  <2>7. ReceiverScope'
    BY <2>5 DEF IInv, ReceiverScope, InSession
  <2>8. Provenance'
    BY <2>2, <2>5 DEF IInv, Provenance
  <2>9. Numbered'
    BY <2>5 DEF IInv, Numbered, Counted, Below, Queued, InSession
  <2>10. Exclusive'
    <3>1. \A r \in Receivers : InSession(r)' <=> InSession(r)
      BY <2>5 DEF InSession
    <3>2. \A z \in Senders : Queued(z)' = Queued(z)
      BY <2>5 DEF Queued
    <3>3. ASSUME NEW r \in Receivers, InSession(r), sock[s] = sock[r]
          PROVE  /\ pc[r] = "signature"
                 /\ event[s] = event[r]
                 /\ m.nonce = nonce[r]
      BY <1>1, <2>1, <3>3 DEF IInv, Exclusive
    <3> QED
      BY <2>2, <2>5, <3>1, <3>2, <3>3 DEF IInv, Exclusive
  <2> QED
    BY <2>4, <2>6, <2>7, <2>8, <2>9, <2>10 DEF IInv
<1> QED
  BY <1>1, <1>5, <1>6

LEMMA SignInvariant ==
  ASSUME IInv, NEW s \in Senders, Sign(s)
  PROVE  IInv'
<1> USE NodesAreApart
<1>1. /\ event[s] \in Events
      /\ nonce[s] \in Nonces
      /\ sock[s] \in Connections
      /\ pc[s] = "sign"
  BY DEF IInv, SenderScope, Sign
<1>2. /\ LocalsType'
      /\ OthersKeepLocals(s)
      /\ pc'[s] = "reply"
      /\ nonce'[s] = nonce[s]
      /\ event' = event
  BY <1>1, TypeParts, ProceedLocals, TriesAreNat DEF IInv, Sign
<1>3. SocketsType'
  BY TypeParts DEF IInv, SocketsType, Sign, network
<1>4. RestType'
  BY <1>1, TypeParts DEF IInv, RestType, Sign, network
<1>5. TypeOK'
  BY <1>2, <1>3, <1>4, TypePartsPrime
<1>6. /\ UNCHANGED <<sock, peer, challenges, signatures, backlog, used, issued,
                      delivered>>
      /\ vouched' = vouched \cup
           {[sender |-> s, event |-> event[s], nonce |-> nonce[s]]}
      /\ \A n \in Nodes : nonce'[n] = nonce[n]
      /\ \A n \in Nodes : n # s => pc'[n] = pc[n]
  BY <1>2 DEF Sign, network, OthersKeepLocals
<1>7. SenderScope'
  BY <1>1, <1>2, <1>6 DEF IInv, SenderScope, SenderLabels
<1>8. ReceiverScope'
  BY <1>2, <1>6 DEF IInv, ReceiverScope, InSession
<1>9. Provenance'
  BY <1>2, <1>6 DEF IInv, Provenance
<1>10. Numbered'
  BY <1>6 DEF IInv, Numbered, Counted, Below, Queued, InSession
<1>11. Exclusive'
  <2>1. \A r \in Receivers : InSession(r)' <=> InSession(r)
    BY <1>6 DEF InSession
  <2>2. \A z \in Senders : Queued(z)' = Queued(z)
    BY <1>6 DEF Queued
  <2>3. \A z \in Senders : pc'[z] \in {"sign", "reply"} <=> pc[z] \in {"sign", "reply"}
    BY <1>1, <1>2, <1>6
  <2> QED
    BY <1>2, <1>6, <2>1, <2>2, <2>3 DEF IInv, Exclusive
<1> QED
  BY <1>5, <1>7, <1>8, <1>9, <1>10, <1>11 DEF IInv

LEMMA SendSignatureInvariant ==
  ASSUME IInv, NEW s \in Senders, SendSignature(s)
  PROVE  IInv'
<1> USE NodesAreApart
<1> DEFINE reply == [connection |-> sock[s], event |-> event[s],
                     nonce |-> nonce[s], id |-> SenderId[s], signer |-> s]
<1>1. /\ event[s] \in Events
      /\ nonce[s] \in Nonces
      /\ sock[s] \in Connections
      /\ pc[s] = "reply"
  BY DEF IInv, SenderScope, SendSignature
<1>2. /\ LocalsType'
      /\ OthersKeepLocals(s)
      /\ pc'[s] \in {"idle", "broadcast", "listen"}
      /\ pc'[s] # "idle" => event'[s] = event[s]
  BY TypeParts, NextChallengerLocals DEF IInv, SendSignature
<1>3. /\ reply \in SignatureMessages
      /\ signatures' \subseteq signatures \cup {reply}
      /\ sock' = [sock EXCEPT ![s] = NoConnection]
      /\ timed' = [timed EXCEPT ![s] = FALSE]
      /\ UNCHANGED <<mode, peer, datagrams, backlog, challenges, history>>
  BY <1>1, KeysAssumption DEF SendSignature, SignatureMessages
<1>4. SocketsType'
  BY <1>3, TypeParts DEF IInv, SocketsType
<1>5. RestType'
  BY <1>3, TypeParts DEF IInv, RestType, history
<1>6. TypeOK'
  BY <1>2, <1>4, <1>5, TypePartsPrime
<1>7. /\ UNCHANGED <<peer, challenges, backlog, used, issued, vouched, delivered>>
      /\ sock'[s] = NoConnection
      /\ \A n \in Nodes : n # s => /\ sock'[n] = sock[n]
                                   /\ pc'[n] = pc[n]
                                   /\ event'[n] = event[n]
                                   /\ nonce'[n] = nonce[n]
  BY <1>2, <1>3, TypeParts DEF IInv, SocketsType, history, OthersKeepLocals
<1>8. SenderScope'
  BY <1>1, <1>2, <1>7 DEF IInv, SenderScope, SenderLabels
<1>9. ReceiverScope'
  BY <1>7 DEF IInv, ReceiverScope, InSession
<1>10. Provenance'
  <2>1. [sender |-> reply.signer, event |-> reply.event, nonce |-> reply.nonce]
          \in vouched
    BY <1>1 DEF IInv, Provenance
  <2> QED
    BY <1>2, <1>3, <1>7, <2>1 DEF IInv, Provenance
<1>11. Numbered'
  <2>1. Counted(reply.connection)
    BY <1>1, PairIsNotEmpty DEF IInv, Numbered, Connections, NoConnection
  <2>2. \A c : Counted(c)' <=> Counted(c)
    BY <1>7 DEF Counted, Below
  <2>3. /\ \A m \in challenges' \cup signatures' : Counted(m.connection)
        /\ \A z \in Senders :
             /\ sock'[z] # NoConnection => Counted(sock'[z])
             /\ \A c \in Queued(z)' : Counted(c)
    BY <1>3, <1>7, <2>1 DEF IInv, Numbered, Queued
  <2>4. \A r \in Receivers : InSession(r)' <=> InSession(r)
    BY <1>7 DEF InSession
  <2>5. \A r \in Receivers : \A i \in 1..Len(delivered'[r]) :
          \E k \in 0..used'[r] :
             /\ delivered'[r][i].nonce = <<r, k>>
             /\ InSession(r)' => k < used'[r]
    BY <1>7, <2>4 DEF IInv, Numbered
  <2> QED
    BY <2>2, <2>3, <2>5 DEF Numbered
<1>12. Exclusive'
  <2>1. \A z \in Senders : Queued(z)' = Queued(z)
    BY <1>7 DEF Queued
  <2> SUFFICES ASSUME NEW r \in Receivers, InSession(r)'
               PROVE  /\ \A z \in Senders :
                           /\ sock'[z] = sock'[r] =>
                                /\ peer'[r] = z
                                /\ pc'[z] \in {"sign", "reply"} =>
                                     /\ pc'[r] = "signature"
                                     /\ event'[z] = event'[r]
                                     /\ nonce'[z] = nonce'[r]
                           /\ sock'[r] \in Queued(z)' => peer'[r] = z
                      /\ \A m \in challenges' : m.connection = sock'[r] =>
                           /\ pc'[r] = "signature"
                           /\ m.event = event'[r]
                           /\ m.nonce = nonce'[r]
                      /\ \A m \in signatures' : m.connection = sock'[r] =>
                           /\ m.signer = peer'[r]
                           /\ m.event = event'[r]
                           /\ m.nonce = nonce'[r]
    BY DEF Exclusive
  <2>2. /\ InSession(r)
        /\ r # s
        /\ sock'[r] = sock[r] /\ sock[r] # NoConnection
        /\ pc'[r] = pc[r] /\ event'[r] = event[r] /\ nonce'[r] = nonce[r]
    BY <1>7, PairIsNotEmpty DEF InSession, IInv, ReceiverScope, NoConnection
  <2>3. sock[s] = sock[r] =>
          /\ reply.signer = peer[r]
          /\ reply.event = event[r]
          /\ reply.nonce = nonce[r]
    BY <1>1, <2>2 DEF IInv, Exclusive
  <2>4. \A m \in signatures' : m.connection = sock'[r] =>
          /\ m.signer = peer'[r]
          /\ m.event = event'[r]
          /\ m.nonce = nonce'[r]
    BY <1>3, <1>7, <2>2, <2>3 DEF IInv, Exclusive
  <2>5. \A z \in Senders :
          /\ sock'[z] = sock'[r] =>
               /\ peer'[r] = z
               /\ pc'[z] \in {"sign", "reply"} =>
                    /\ pc'[r] = "signature"
                    /\ event'[z] = event'[r]
                    /\ nonce'[z] = nonce'[r]
          /\ sock'[r] \in Queued(z)' => peer'[r] = z
    BY <1>7, <2>1, <2>2 DEF IInv, Exclusive
  <2> QED
    BY <1>7, <2>2, <2>4, <2>5 DEF IInv, Exclusive
<1> QED
  BY <1>6, <1>8, <1>9, <1>10, <1>11, <1>12 DEF IInv

(* A step that opens a connection, whether a session begins with it or     *)
(* not.  Its number is new, so it belongs to no other session and to no    *)
(* message under way.                                                      *)
NewConnectionMade(r) ==
    /\ pc[r] = "connect"
    /\ OthersKeepLocals(r)
    /\ pc'[r] \in {"idle", "challenge"}
    /\ pc'[r] = "challenge" =>
         event'[r] = event[r] /\ nonce'[r] = <<r, used[r] + 1>>
    /\ sock' = [sock EXCEPT ![r] = <<r, used[r] + 1>>]
    /\ used' = [used EXCEPT ![r] = @ + 1]
    /\ backlog' = [backlog EXCEPT ![peer[r]] = Append(@, <<r, used[r] + 1>>)]
    /\ UNCHANGED <<peer, challenges, signatures, issued, vouched, delivered>>

LEMMA NewConnectionInvariant ==
  ASSUME IInv, TypeOK', NEW r \in Receivers, NewConnectionMade(r)
  PROVE  IInv'
<1> USE NodesAreApart
<1> DEFINE c == <<r, used[r] + 1>>
<1>1. /\ peer[r] \in Senders
      /\ event[r] \in Wanted[r]
      /\ ~InSession(r)
      /\ used[r] \in Nat
      /\ c \in Connections
  BY TypeParts DEF IInv, RestType, ReceiverScope, NewConnectionMade, InSession,
                   Connections
<1>2. /\ \A n \in Nodes : n # r => /\ sock'[n] = sock[n]
                                   /\ pc'[n] = pc[n]
                                   /\ event'[n] = event[n]
                                   /\ nonce'[n] = nonce[n]
      /\ sock'[r] = c
      /\ \A q \in Receivers : q # r => used'[q] = used[q]
      /\ used'[r] = used[r] + 1
  BY TypeParts DEF IInv, SocketsType, RestType, NewConnectionMade, OthersKeepLocals
<1>3. \A z \in Senders : /\ Queued(z)' \subseteq Queued(z) \cup {c}
                         /\ z # peer[r] => Queued(z)' = Queued(z)
  <2> SUFFICES ASSUME NEW z \in Senders
               PROVE  /\ Queued(z)' \subseteq Queued(z) \cup {c}
                      /\ z # peer[r] => Queued(z)' = Queued(z)
    OBVIOUS
  <2>1. backlog[z] \in Seq(Connections)
    BY TypeParts DEF IInv, RestType
  <2>2. CASE z = peer[r]
    <3>1. backlog'[z] = Append(backlog[z], c)
      BY <2>2, TypeParts DEF IInv, RestType, NewConnectionMade
    <3> QED
      BY <1>1, <2>1, <2>2, <3>1, AppendElements DEF Queued
  <2>3. CASE z # peer[r]
    <3>1. backlog'[z] = backlog[z]
      BY <1>1, <2>3, TypeParts DEF IInv, RestType, NewConnectionMade
    <3> QED
      BY <3>1 DEF Queued
  <2> QED
    BY <2>2, <2>3
<1>4. /\ UNCHANGED <<peer, challenges, signatures, issued, vouched, delivered>>
      /\ pc'[r] \in {"idle", "challenge"}
      /\ pc'[r] = "challenge" => event'[r] = event[r] /\ nonce'[r] = c
  BY DEF NewConnectionMade
<1> HIDE DEF c
<1>5. SenderScope'
  BY <1>2 DEF IInv, SenderScope
<1>6. ReceiverScope'
  <2>1. c = <<r, used'[r]>>
    BY <1>2 DEF c
  <2> QED
    BY <1>1, <1>2, <1>4, <2>1 DEF IInv, ReceiverScope, InSession, ReceiverLabels
<1>7. Provenance'
  BY <1>2, <1>4 DEF IInv, Provenance
<1>8. \A q \in Receivers, k \in Nat : c = <<q, k>> => q = r /\ k = used[r] + 1
  BY DEF c
<1>9. Numbered'
  <2>1. ASSUME NEW d, Counted(d) PROVE Below(d, used')
    <3> SUFFICES ASSUME NEW q \in Receivers, NEW k \in Nat, d = <<q, k>>
                 PROVE  k <= used'[q]
      BY DEF Below
    <3>1. k <= used[q] /\ used[q] \in Nat
      BY <2>1, TypeParts DEF Counted, Below, IInv, RestType
    <3> QED
      BY <1>2, <3>1
  <2>2. Below(c, used')
    BY <1>1, <1>2, <1>8 DEF Below
  <2>3. ASSUME NEW z \in Senders
        PROVE  /\ sock'[z] # NoConnection => Below(sock'[z], used')
               /\ \A d \in Queued(z)' : Below(d, used')
    <3>1. sock'[z] # NoConnection => Below(sock'[z], used')
      BY <1>2, <2>1 DEF IInv, Numbered
    <3>2. \A d \in Queued(z)' : Below(d, used')
      BY <1>3, <2>1, <2>2 DEF IInv, Numbered
    <3> QED
      BY <3>1, <3>2
  <2>4. \A m \in challenges' \cup signatures' : Below(m.connection, used')
    BY <1>4, <2>1 DEF IInv, Numbered
  <2>5. ASSUME NEW q \in Receivers, NEW i \in 1..Len(delivered'[q])
        PROVE  \E k \in 0..used'[q] :
                  /\ delivered'[q][i].nonce = <<q, k>>
                  /\ InSession(q)' => k < used'[q]
    <3>1. PICK k \in 0..used[q] :
            /\ delivered[q][i].nonce = <<q, k>>
            /\ InSession(q) => k < used[q]
      BY <1>4, <2>5 DEF IInv, Numbered
    <3>2. used[q] \in Nat
      BY TypeParts DEF IInv, RestType
    <3>3. CASE q = r
      BY <1>2, <1>4, <3>1, <3>2, <3>3
    <3>4. CASE q # r
      BY <1>2, <1>4, <3>1, <3>2, <3>4 DEF InSession
    <3> QED
      BY <3>3, <3>4
  <2> QED
    BY <2>3, <2>4, <2>5 DEF Numbered, Counted, Below
<1>10. Exclusive'
  <2>1. \A z \in Senders : /\ sock'[z] = sock[z]
                           /\ pc'[z] = pc[z]
                           /\ event'[z] = event[z]
                           /\ nonce'[z] = nonce[z]
    BY <1>2
  <2>2. ~Counted(c)
    BY <1>1 DEF Counted, Below, c
  <2>3. ASSUME pc'[r] = "challenge"
        PROVE  /\ \A z \in Senders :
                    /\ sock'[z] # sock'[r]
                    /\ sock'[r] \in Queued(z)' => peer[r] = z
               /\ \A m \in challenges : m.connection # sock'[r]
               /\ \A m \in signatures : m.connection # sock'[r]
    <3>1. c # NoConnection
      BY PairIsNotEmpty DEF c, NoConnection
    <3> QED
      BY <1>2, <1>3, <2>1, <2>2, <3>1 DEF IInv, Numbered
  <2>4. ASSUME NEW q \in Receivers, q # r, InSession(q)
        PROVE  /\ sock'[q] = sock[q] /\ sock[q] # c
               /\ pc'[q] = pc[q] /\ event'[q] = event[q] /\ nonce'[q] = nonce[q]
               /\ peer'[q] = peer[q]
               /\ \A z \in Senders : sock[q] \in Queued(z)' => sock[q] \in Queued(z)
    <3>1. sock[q] # c
      BY <2>4 DEF IInv, ReceiverScope, c
    <3> QED
      BY <1>2, <1>3, <1>4, <2>4, <3>1
  <2> SUFFICES ASSUME NEW q \in Receivers, InSession(q)'
               PROVE  /\ \A z \in Senders :
                           /\ sock'[z] = sock'[q] =>
                                /\ peer'[q] = z
                                /\ pc'[z] \in {"sign", "reply"} =>
                                     /\ pc'[q] = "signature"
                                     /\ event'[z] = event'[q]
                                     /\ nonce'[z] = nonce'[q]
                           /\ sock'[q] \in Queued(z)' => peer'[q] = z
                      /\ \A m \in challenges' : m.connection = sock'[q] =>
                           /\ pc'[q] = "signature"
                           /\ m.event = event'[q]
                           /\ m.nonce = nonce'[q]
                      /\ \A m \in signatures' : m.connection = sock'[q] =>
                           /\ m.signer = peer'[q]
                           /\ m.event = event'[q]
                           /\ m.nonce = nonce'[q]
    BY DEF Exclusive
  <2>5. CASE q = r
    BY <1>4, <2>3, <2>5 DEF InSession
  <2>6. CASE q # r
    <3>1. InSession(q)
      BY <1>2, <2>6 DEF InSession
    <3> QED
      BY <1>4, <2>1, <2>4, <2>6, <3>1 DEF IInv, Exclusive
  <2> QED
    BY <2>5, <2>6
<1> QED
  BY <1>5, <1>6, <1>7, <1>9, <1>10 DEF IInv

LEMMA ConnectInvariant ==
  ASSUME IInv, NEW r \in Receivers, Connect(r)
  PROVE  IInv' /\ NewConnectionMade(r)
<1> USE NodesAreApart
<1>1. /\ peer[r] \in Senders
      /\ used[r] \in Nat
      /\ <<r, used[r] + 1>> \in Connections
  BY TypeParts DEF IInv, RestType, ReceiverScope, Connect, Connections
<1>2. /\ LocalsType'
      /\ OthersKeepLocals(r)
      /\ pc'[r] = "challenge"
      /\ nonce'[r] = <<r, used[r] + 1>>
      /\ event' = event
  <2>1. NewNonce(r) \in Nonces
    BY <1>1 DEF NewNonce, Nonces
  <2> QED
    BY <2>1, TypeParts, TriesAreNat, ProceedLocals DEF IInv, Connect, NewNonce
<1>3. SocketsType'
  BY <1>1, TypeParts
     DEF IInv, SocketsType, Connect, SetCommunicationTimeout, NewConnection
<1>4. backlog' \in [Senders -> Seq(Connections)]
  <2>1. backlog \in [Senders -> Seq(Connections)]
    BY TypeParts DEF IInv, RestType
  <2>2. Append(backlog[peer[r]], <<r, used[r] + 1>>) \in Seq(Connections)
    BY <1>1, <2>1, AppendElements
  <2> QED
    BY <1>1, <2>1, <2>2 DEF Connect, NewConnection
<1>5. RestType'
  BY <1>1, <1>4, TypeParts DEF IInv, RestType, Connect
<1>6. TypeOK'
  BY <1>2, <1>3, <1>5, TypePartsPrime
<1>7. NewConnectionMade(r)
  BY <1>2 DEF Connect, NewConnectionMade, NewConnection
<1> QED
  BY <1>6, <1>7, NewConnectionInvariant

LEMMA ConnectTimeoutFailsInvariant ==
  ASSUME IInv, NEW r \in Receivers, NEW e \in Errnos, ConnectTimeoutFails(r, e)
  PROVE  IInv' /\ NewConnectionMade(r)
<1> USE NodesAreApart
<1>1. /\ peer[r] \in Senders
      /\ used[r] \in Nat
      /\ <<r, used[r] + 1>> \in Connections
  BY TypeParts DEF IInv, RestType, ReceiverScope, ConnectTimeoutFails, Connections
<1>2. /\ LocalsType'
      /\ OthersKeepLocals(r)
      /\ pc'[r] = "idle"
  <2>1. "system" \in ResultCodes /\ e \in ResultErrnos
    BY DEF ResultCodes, ResultErrnos
  <2> QED
    BY <2>1, TypeParts, ReturnLocals DEF IInv, ConnectTimeoutFails
<1>3. SocketsType'
  BY <1>1, TypeParts DEF IInv, SocketsType, ConnectTimeoutFails, NewConnection
<1>4. backlog' \in [Senders -> Seq(Connections)]
  <2>1. backlog \in [Senders -> Seq(Connections)]
    BY TypeParts DEF IInv, RestType
  <2>2. Append(backlog[peer[r]], <<r, used[r] + 1>>) \in Seq(Connections)
    BY <1>1, <2>1, AppendElements
  <2> QED
    BY <1>1, <2>1, <2>2 DEF ConnectTimeoutFails, NewConnection
<1>5. RestType'
  BY <1>1, <1>4, TypeParts DEF IInv, RestType, ConnectTimeoutFails
<1>6. TypeOK'
  BY <1>2, <1>3, <1>5, TypePartsPrime
<1>7. NewConnectionMade(r)
  BY <1>2 DEF ConnectTimeoutFails, NewConnectionMade, NewConnection
<1> QED
  BY <1>6, <1>7, NewConnectionInvariant

LEMMA SendChallengeInvariant ==
  ASSUME IInv, NEW r \in Receivers, SendChallenge(r)
  PROVE  IInv'
<1> USE NodesAreApart
<1> DEFINE c == [receiver |-> r, event |-> event[r], nonce |-> nonce[r]]
           message == [connection |-> sock[r], event |-> event[r],
                       nonce |-> nonce[r]]
<1>1. /\ pc[r] = "challenge"
      /\ sock[r] = <<r, used[r]>>
      /\ nonce[r] = <<r, used[r]>>
      /\ event[r] \in Events
      /\ used[r] \in Nat
      /\ sock[r] \in Connections
      /\ nonce[r] \in Nonces
  <2>1. /\ pc[r] = "challenge"
        /\ event[r] \in Wanted[r]
        /\ sock[r] = <<r, used[r]>>
        /\ nonce[r] = <<r, used[r]>>
    BY DEF IInv, ReceiverScope, SendChallenge, InSession
  <2>2. event[r] \in Events
    BY <2>1, NodesAssumption
  <2>3. used[r] \in Nat
    BY TypeParts DEF IInv, RestType
  <2> QED
    BY <2>1, <2>2, <2>3 DEF Connections, Nonces
<1>2. /\ LocalsType'
      /\ OthersKeepLocals(r)
      /\ pc'[r] = "signature"
      /\ nonce'[r] = nonce[r]
      /\ event' = event
  BY <1>1, TypeParts, TriesAreNat, ProceedLocals DEF IInv, SendChallenge
<1>3. /\ message \in ChallengeMessages
      /\ c \in Challenges
      /\ challenges' \subseteq challenges \cup {message}
      /\ issued' = issued \cup {c}
      /\ UNCHANGED <<mode, sock, timed, peer, datagrams, backlog, signatures, used,
                     aired, vouched, delivered>>
  BY <1>1 DEF SendChallenge, ChallengeMessages, Challenges
<1>4. SocketsType'
  BY <1>3, TypeParts DEF IInv, SocketsType
<1>5. RestType'
  BY <1>3, TypeParts DEF IInv, RestType
<1>6. TypeOK'
  BY <1>2, <1>4, <1>5, TypePartsPrime
<1>7. \A n \in Nodes : /\ n # r => pc'[n] = pc[n]
                      /\ nonce'[n] = nonce[n]
  BY <1>2 DEF OthersKeepLocals
<1>8. SenderScope'
  BY <1>2, <1>3, <1>7 DEF IInv, SenderScope
<1>9. ReceiverScope'
  BY <1>1, <1>2, <1>3, <1>7 DEF IInv, ReceiverScope, InSession, ReceiverLabels
<1>10. Provenance'
  <2>1. ASSUME NEW q \in Receivers, pc'[q] = "signature"
        PROVE  [receiver |-> q, event |-> event'[q], nonce |-> nonce'[q]] \in issued'
    BY <1>2, <1>3, <1>7, <2>1 DEF IInv, Provenance
  <2>2. ASSUME NEW s \in Senders, pc'[s] = "reply"
        PROVE  [sender |-> s, event |-> event'[s], nonce |-> nonce'[s]] \in vouched'
    BY <1>2, <1>3, <1>7, <2>2 DEF IInv, Provenance
  <2>3. \A m \in signatures' :
          [sender |-> m.signer, event |-> m.event, nonce |-> m.nonce] \in vouched'
    BY <1>3 DEF IInv, Provenance
  <2> QED
    BY <2>1, <2>2, <2>3 DEF Provenance
<1>11. \A q \in Receivers : InSession(q)' <=> InSession(q)
  BY <1>1, <1>2, <1>7 DEF InSession
<1>12. Numbered'
  <2>1. Counted(message.connection)
    BY <1>1 DEF Counted, Below
  <2>2. \A m \in challenges' : Counted(m.connection)
    BY <1>3, <2>1 DEF IInv, Numbered
  <2> QED
    BY <1>3, <1>11, <2>2 DEF IInv, Numbered, Counted, Below, Queued
<1>13. Exclusive'
  <2>1. \A z \in Senders : Queued(z)' = Queued(z)
    BY <1>3 DEF Queued
  <2>2. \A z \in Senders : pc'[z] = pc[z]
    BY <1>7
  <2> SUFFICES ASSUME NEW q \in Receivers, InSession(q)'
               PROVE  /\ \A z \in Senders :
                           /\ sock'[z] = sock'[q] =>
                                /\ peer'[q] = z
                                /\ pc'[z] \in {"sign", "reply"} =>
                                     /\ pc'[q] = "signature"
                                     /\ event'[z] = event'[q]
                                     /\ nonce'[z] = nonce'[q]
                           /\ sock'[q] \in Queued(z)' => peer'[q] = z
                      /\ \A m \in challenges' : m.connection = sock'[q] =>
                           /\ pc'[q] = "signature"
                           /\ m.event = event'[q]
                           /\ m.nonce = nonce'[q]
                      /\ \A m \in signatures' : m.connection = sock'[q] =>
                           /\ m.signer = peer'[q]
                           /\ m.event = event'[q]
                           /\ m.nonce = nonce'[q]
    BY DEF Exclusive
  <2>3. InSession(q)
    BY <1>11
  <2>4. pc[q] = "signature" => pc'[q] = "signature"
    BY <1>2, <1>7
  <2>5. message.connection = sock[q] => q = r
    BY <1>1, <2>3 DEF IInv, ReceiverScope
  <2>6. \A m \in challenges' : m.connection = sock'[q] =>
           /\ pc'[q] = "signature"
           /\ m.event = event'[q]
           /\ m.nonce = nonce'[q]
    BY <1>2, <1>3, <1>7, <2>3, <2>4, <2>5 DEF IInv, Exclusive
  <2>7. \A z \in Senders :
           /\ sock'[z] = sock'[q] =>
                /\ peer'[q] = z
                /\ pc'[z] \in {"sign", "reply"} =>
                     /\ pc'[q] = "signature"
                     /\ event'[z] = event'[q]
                     /\ nonce'[z] = nonce'[q]
           /\ sock'[q] \in Queued(z)' => peer'[q] = z
    BY <1>2, <1>3, <1>7, <2>1, <2>2, <2>3, <2>4 DEF IInv, Exclusive
  <2>8. \A m \in signatures' : m.connection = sock'[q] =>
           /\ m.signer = peer'[q]
           /\ m.event = event'[q]
           /\ m.nonce = nonce'[q]
    BY <1>2, <1>3, <1>7, <2>3 DEF IInv, Exclusive
  <2> QED
    BY <2>6, <2>7, <2>8
<1> QED
  BY <1>6, <1>8, <1>9, <1>10, <1>12, <1>13 DEF IInv

(* The only step that changes what was delivered.                          *)
Delivers(r) ==
    /\ pc[r] = "signature"
    /\ \E m \in signatures : m.connection = sock[r] /\ AcceptsSignature(r, m)
    /\ delivered' = [delivered EXCEPT ![r] = Append(@,
         [receiver |-> r, event |-> event[r], nonce |-> nonce[r]])]
    /\ UNCHANGED <<issued, vouched>>

LEMMA ReceiveSignatureCases ==
  ASSUME IInv, NEW r \in Receivers, ReceiveSignature(r)
  PROVE  \/ TypeOK' /\ Quiet(r)
         \/ Delivers(r) /\ Return(r, "ok", "none") /\ Disconnect(r)
<1> USE NodesAreApart
<1>1. PICK m \in signatures :
         /\ m.connection = sock[r]
         /\ \/ /\ AcceptsSignature(r, m)
               /\ delivered' = [delivered EXCEPT ![r] = Append(@,
                    [receiver |-> r, event |-> event[r], nonce |-> nonce[r]])]
               /\ Return(r, "ok", "none")
               /\ Disconnect(r)
            \/ /\ ~AcceptsSignature(r, m)
               /\ TryReceiveEvent(r)
               /\ signatures' = signatures \ {m}
               /\ UNCHANGED <<sock, timed, challenges, delivered>>
  BY DEF ReceiveSignature
<1>2. /\ pc[r] = "signature"
      /\ UNCHANGED <<mode, peer, datagrams, backlog, used, aired, issued, vouched>>
  BY DEF ReceiveSignature
<1>3. CASE /\ TryReceiveEvent(r)
           /\ signatures' = signatures \ {m}
           /\ UNCHANGED <<sock, timed, challenges, delivered>>
  <2>1. LocalsType' /\ OthersKeepLocals(r) /\ pc'[r] = "event"
    <3>1. 0 \in Nat /\ NoNonce \in Nonces \cup {NoNonce}
      OBVIOUS
    <3> QED
      BY <1>3, <3>1, TypeParts, ProceedLocals DEF IInv, TryReceiveEvent
  <2>2. SocketsType'
    BY <1>3, TypeParts DEF IInv, SocketsType
  <2>3. RestType'
    BY <1>2, <1>3, TypeParts DEF IInv, RestType
  <2>4. Quiet(r)
    BY <1>2, <1>3, <2>1 DEF Quiet, QuietReceiver, Queued
  <2> QED
    BY <2>1, <2>2, <2>3, <2>4, TypePartsPrime
<1>4. CASE /\ AcceptsSignature(r, m)
           /\ delivered' = [delivered EXCEPT ![r] = Append(@,
                [receiver |-> r, event |-> event[r], nonce |-> nonce[r]])]
           /\ Return(r, "ok", "none")
           /\ Disconnect(r)
  BY <1>1, <1>2, <1>4 DEF Delivers
<1> QED
  BY <1>1, <1>3, <1>4

LEMMA ReceiveSignatureInvariant ==
  ASSUME IInv, NEW r \in Receivers, ReceiveSignature(r)
  PROVE  IInv'
<1> USE NodesAreApart
<1> DEFINE c == [receiver |-> r, event |-> event[r], nonce |-> nonce[r]]
<1>1. CASE TypeOK' /\ Quiet(r)
  BY <1>1, QuietKeepsInvariant
<1>2. CASE Delivers(r) /\ Return(r, "ok", "none") /\ Disconnect(r)
  <2>1. /\ pc[r] = "signature"
        /\ nonce[r] = <<r, used[r]>>
        /\ used[r] \in Nat
        /\ c \in Challenges
    <3>1. /\ pc[r] = "signature"
          /\ event[r] \in Wanted[r]
          /\ nonce[r] = <<r, used[r]>>
      BY <1>2 DEF IInv, ReceiverScope, Delivers, InSession
    <3>2. event[r] \in Events
      BY <3>1, NodesAssumption
    <3>3. used[r] \in Nat
      BY TypeParts DEF IInv, RestType
    <3> QED
      BY <3>1, <3>2, <3>3 DEF Nonces, Challenges
  <2>2. LocalsType' /\ OthersKeepLocals(r) /\ pc'[r] = "idle"
    <3>1. "ok" \in ResultCodes /\ "none" \in ResultErrnos
      BY DEF ResultCodes, ResultErrnos
    <3> QED
      BY <1>2, <3>1, TypeParts, ReturnLocals DEF IInv
  <2>3. /\ SocketsType'
        /\ \A n \in Nodes : n # r => sock'[n] = sock[n]
        /\ challenges' \subseteq challenges
        /\ signatures' \subseteq signatures
    BY <1>2, TypeParts, DisconnectSockets DEF IInv
  <2>4. /\ UNCHANGED <<mode, peer, datagrams, backlog, used, aired, issued, vouched>>
        /\ delivered' = [delivered EXCEPT ![r] = Append(@, c)]
    BY <1>2 DEF ReceiveSignature, Delivers
  <2>5. delivered \in [Receivers -> Seq(Challenges)]
    BY TypeParts DEF IInv, RestType
  <2>6. delivered' \in [Receivers -> Seq(Challenges)]
    <3>1. Append(delivered[r], c) \in Seq(Challenges)
      BY <2>1, <2>5, AppendElements
    <3> HIDE DEF c
    <3> QED
      BY <2>4, <2>5, <3>1
  <2>7. TypeOK'
    <3>1. RestType'
      BY <2>4, <2>6, TypeParts DEF IInv, RestType
    <3> QED
      BY <2>2, <2>3, <3>1, TypePartsPrime
  <2>8. \A n \in Nodes : n # r => /\ pc'[n] = pc[n]
                                 /\ event'[n] = event[n]
                                 /\ nonce'[n] = nonce[n]
    BY <2>2 DEF OthersKeepLocals
  <2>9. SenderScope'
    BY <2>3, <2>8 DEF IInv, SenderScope
  <2>10. ReceiverScope'
    BY <2>2, <2>3, <2>4, <2>8 DEF IInv, ReceiverScope, InSession, ReceiverLabels
  <2>11. Provenance'
    BY <2>2, <2>3, <2>4, <2>8 DEF IInv, Provenance
  <2>12. Numbered'
    <3>1. \A d : Counted(d)' <=> Counted(d)
      BY <2>4 DEF Counted, Below
    <3>2. /\ \A z \in Senders : /\ sock'[z] # NoConnection => Counted(sock'[z])
                                /\ \A d \in Queued(z)' : Counted(d)
          /\ \A m \in challenges' \cup signatures' : Counted(m.connection)
      BY <2>3, <2>4 DEF IInv, Numbered, Queued
    <3>3. ASSUME NEW q \in Receivers, NEW i \in 1..Len(delivered'[q])
          PROVE  \E k \in 0..used'[q] : /\ delivered'[q][i].nonce = <<q, k>>
                                        /\ InSession(q)' => k < used'[q]
      <4>1. CASE q # r
        BY <2>4, <2>5, <2>8, <3>3, <4>1 DEF IInv, Numbered, InSession
      <4>2. CASE q = r /\ i \in 1..Len(delivered[r])
        <5>1. delivered'[r][i] = delivered[r][i]
          BY <2>4, <2>5, <4>2
        <5> QED
          BY <2>2, <2>4, <4>2, <5>1 DEF IInv, Numbered, InSession
      <4>3. CASE q = r /\ i \notin 1..Len(delivered[r])
        <5>1. delivered'[r][i] = c
          BY <2>4, <2>5, <3>3, <4>3
        <5>2. used'[r] \in 0..used'[r]
          BY <2>1, <2>4
        <5> QED
          BY <2>1, <2>2, <2>4, <4>3, <5>1, <5>2 DEF InSession
      <4> QED
        BY <4>1, <4>2, <4>3
    <3> QED
      BY <2>4, <3>2, <3>3 DEF Numbered, Counted, Below
  <2>13. Exclusive'
    <3>1. \A z \in Senders : Queued(z)' = Queued(z)
      BY <2>4 DEF Queued
    <3>2. ~InSession(r)'
      BY <2>2 DEF InSession
    <3>3. \A q \in Receivers : q # r => (InSession(q)' <=> InSession(q))
      BY <2>8 DEF InSession
    <3> QED
      BY <2>3, <2>4, <2>8, <3>1, <3>2, <3>3 DEF IInv, Exclusive
  <2> QED
    BY <2>7, <2>9, <2>10, <2>11, <2>12, <2>13 DEF IInv
<1> QED
  BY <1>1, <1>2, ReceiveSignatureCases

-----------------------------------------------------------------------------
(* Every step                                                              *)

(* What every step does to the history: it only grows, and what was        *)
(* delivered only when receive_signature accepts.                          *)
HistoryGrows ==
    /\ issued \subseteq issued'
    /\ vouched \subseteq vouched'
    /\ \/ UNCHANGED delivered
       \/ \E r \in Receivers : Delivers(r)

LEMMA QuietStep ==
  ASSUME IInv, TypeOK', NEW n \in Nodes, Quiet(n)
  PROVE  IInv' /\ HistoryGrows
<1>1. HistoryGrows
  BY DEF Quiet, HistoryGrows
<1> QED
  BY <1>1, QuietKeepsInvariant

(* The steps of a sender that do not carry the protocol are quiet.         *)
LEMMA SenderQuietSteps ==
  ASSUME IInv, NEW s \in Senders,
         \/ \E e \in Events : Send(s, e)
         \/ Broadcast(s) \/ Accept(s) \/ ListenTimeout(s)
         \/ ReceiveChallengeTimeout(s)
         \/ SenderFault(s)
         \/ Reboot(s)
  PROVE  TypeOK' /\ Quiet(s)
<1> USE NodesAreApart
<1>1. Errnos \subseteq ResultErrnos /\ {"EAGAIN", "ETIMEDOUT"} \subseteq ResultErrnos
  BY DEF ResultErrnos
<1>2. CASE \E e \in Events : Send(s, e)
  BY <1>2, SendQuiet
<1>3. CASE Broadcast(s)
  BY <1>3, BroadcastQuiet
<1>4. CASE Accept(s)
  BY <1>4, AcceptQuiet
<1>5. CASE ListenTimeout(s)
  BY <1>5, ListenTimeoutQuiet
<1>6. CASE ReceiveChallengeTimeout(s)
  BY <1>1, <1>6, ReceiveChallengeFailedQuiet DEF ReceiveChallengeTimeout
<1>7. CASE SignFails(s)
  BY <1>7, SignFailsQuiet
<1>8. CASE \E e \in Errnos : SetModeFails(s, e)
  BY <1>8, SetModeFailsQuiet
<1>9. CASE \E e \in Errnos : BroadcastFails(s, e)
  BY <1>9, BroadcastFailsQuiet
<1>10. CASE \E e \in Errnos : SelectFails(s, e)
  BY <1>10, SelectFailsQuiet
<1>11. CASE \E e \in Errnos : AcceptFails(s, e)
  BY <1>11, AcceptFailsQuiet
<1>12. CASE \E e \in Errnos : AcceptTimeoutFails(s, e)
  BY <1>12, AcceptTimeoutFailsQuiet
<1>13. CASE \E e \in Errnos : ReceiveChallengeFails(s, e)
  BY <1>1, <1>13, ReceiveChallengeFailedQuiet DEF ReceiveChallengeFails
<1>14. CASE \E e \in Errnos : SendSignatureFails(s, e)
  BY <1>14, SendSignatureFailsQuiet
<1>15. CASE Reboot(s)
  BY <1>15, RebootQuiet
<1> QED
  BY <1>2, <1>3, <1>4, <1>5, <1>6, <1>7, <1>8, <1>9, <1>10, <1>11, <1>12, <1>13,
     <1>14, <1>15
     DEF SenderFault

LEMMA SenderInvariant ==
  ASSUME IInv, NEW s \in Senders,
         \/ \E e \in Events : Send(s, e)
         \/ SenderStep(s)
         \/ SenderFault(s)
         \/ Reboot(s)
  PROVE  IInv' /\ HistoryGrows
<1> USE NodesAreApart
<1>1. CASE \/ \E e \in Events : Send(s, e)
           \/ Broadcast(s) \/ Accept(s) \/ ListenTimeout(s)
           \/ ReceiveChallengeTimeout(s)
           \/ SenderFault(s)
           \/ Reboot(s)
  BY <1>1, SenderQuietSteps, QuietStep
<1>2. CASE ReceiveChallenge(s)
  <2>1. HistoryGrows
    BY <1>2 DEF ReceiveChallenge, history, HistoryGrows
  <2> QED
    BY <1>2, <2>1, ReceiveChallengeInvariant
<1>3. CASE Sign(s)
  <2>1. HistoryGrows
    BY <1>3 DEF Sign, HistoryGrows
  <2> QED
    BY <1>3, <2>1, SignInvariant
<1>4. CASE SendSignature(s)
  <2>1. HistoryGrows
    BY <1>4 DEF SendSignature, history, HistoryGrows
  <2> QED
    BY <1>4, <2>1, SendSignatureInvariant
<1> QED
  BY <1>1, <1>2, <1>3, <1>4 DEF SenderStep

(* So are those of a receiver.                                             *)
ReceiverLeaves(r) ==
    \/ Await(r) \/ ReceiveEvent(r) \/ ConnectTimeout(r)
    \/ ReceiveSignatureTimeout(r)
    \/ VerifyFails(r)
    \/ \E e \in Errnos :
         \/ SetModeFails(r, e) \/ ReceiveEventFails(r, e) \/ ConnectFails(r, e)
         \/ SendChallengeFails(r, e) \/ ReceiveSignatureFails(r, e)
    \/ Reboot(r)
    \/ \E d \in datagrams[r] : LoseDatagram(r, d)

LEMMA ReceiverQuietSteps ==
  ASSUME IInv, NEW r \in Receivers, ReceiverLeaves(r)
  PROVE  TypeOK' /\ Quiet(r)
<1> USE NodesAreApart
<1>1. Errnos \subseteq ResultErrnos /\ {"EAGAIN", "ETIMEDOUT"} \subseteq ResultErrnos
  BY DEF ResultErrnos
<1>2. CASE Await(r)
  BY <1>2, AwaitQuiet
<1>3. CASE ReceiveEvent(r)
  BY <1>3, ReceiveEventQuiet
<1>4. CASE ConnectTimeout(r)
  BY <1>1, <1>4, ConnectFailedQuiet DEF ConnectTimeout
<1>5. CASE ReceiveSignatureTimeout(r)
  BY <1>1, <1>5, ReceiveSignatureFailedQuiet DEF ReceiveSignatureTimeout
<1>6. CASE VerifyFails(r)
  BY <1>6, VerifyFailsQuiet
<1>7. CASE \E e \in Errnos : SetModeFails(r, e)
  BY <1>7, SetModeFailsQuiet
<1>8. CASE \E e \in Errnos : ReceiveEventFails(r, e)
  BY <1>8, ReceiveEventFailsQuiet
<1>9. CASE \E e \in Errnos : ConnectFails(r, e)
  BY <1>1, <1>9, ConnectFailedQuiet DEF ConnectFails
<1>10. CASE \E e \in Errnos : SendChallengeFails(r, e)
  BY <1>10, SendChallengeFailsQuiet
<1>11. CASE \E e \in Errnos : ReceiveSignatureFails(r, e)
  BY <1>1, <1>11, ReceiveSignatureFailedQuiet DEF ReceiveSignatureFails
<1>12. CASE Reboot(r)
  BY <1>12, RebootQuiet
<1>13. CASE \E d \in datagrams[r] : LoseDatagram(r, d)
  BY <1>13, LoseDatagramQuiet
<1> QED
  BY <1>2, <1>3, <1>4, <1>5, <1>6, <1>7, <1>8, <1>9, <1>10, <1>11, <1>12, <1>13
     DEF ReceiverLeaves

(* What a receiver does: it leaves or stays out of a session, or goes on   *)
(* in one.                                                                 *)
LEMMA ReceiverActions ==
  ASSUME NEW r \in Receivers,
         \/ Await(r)
         \/ ReceiverStep(r)
         \/ ReceiverFault(r)
         \/ Reboot(r)
         \/ \E d \in datagrams[r] : LoseDatagram(r, d)
  PROVE  \/ ReceiverLeaves(r)
         \/ Connect(r)
         \/ \E e \in Errnos : ConnectTimeoutFails(r, e)
         \/ SendChallenge(r)
         \/ ReceiveSignature(r)
  BY DEF ReceiverStep, ReceiverFault, ReceiverLeaves

LEMMA ReceiverInvariant ==
  ASSUME IInv, NEW r \in Receivers,
         \/ Await(r)
         \/ ReceiverStep(r)
         \/ ReceiverFault(r)
         \/ Reboot(r)
         \/ \E d \in datagrams[r] : LoseDatagram(r, d)
  PROVE  IInv' /\ HistoryGrows
<1> USE NodesAreApart
<1>1. CASE ReceiverLeaves(r)
  BY <1>1, ReceiverQuietSteps, QuietStep
<1>2. CASE Connect(r)
  <2>1. HistoryGrows
    BY <1>2 DEF Connect, HistoryGrows
  <2> QED
    BY <1>2, <2>1, ConnectInvariant
<1>3. CASE \E e \in Errnos : ConnectTimeoutFails(r, e)
  <2>1. HistoryGrows
    BY <1>3 DEF ConnectTimeoutFails, HistoryGrows
  <2> QED
    BY <1>3, <2>1, ConnectTimeoutFailsInvariant
<1>4. CASE SendChallenge(r)
  <2>1. HistoryGrows
    BY <1>4 DEF SendChallenge, HistoryGrows
  <2> QED
    BY <1>4, <2>1, SendChallengeInvariant
<1>5. CASE ReceiveSignature(r)
  <2>1. HistoryGrows
    BY <1>5, ReceiveSignatureCases DEF Delivers, Quiet, HistoryGrows
  <2> QED
    BY <1>5, <2>1, ReceiveSignatureInvariant
<1> QED
  BY <1>1, <1>2, <1>3, <1>4, <1>5, ReceiverActions

LEMMA StutterInvariant ==
  ASSUME IInv, UNCHANGED vars
  PROVE  IInv' /\ HistoryGrows
<1>1. /\ UNCHANGED <<mode, sock, timed, pc, tries, loop, event, nonce, result, peer>>
      /\ UNCHANGED <<datagrams, backlog, challenges, signatures>>
      /\ UNCHANGED <<used, aired, issued, vouched, delivered>>
  BY DEF vars, locals, network, history
<1>2. TypeOK'
  BY <1>1 DEF IInv, TypeOK
<1>3. SenderScope' /\ ReceiverScope' /\ Provenance'
  BY <1>1 DEF IInv, SenderScope, ReceiverScope, Provenance, InSession
<1>4. Numbered' /\ Exclusive'
  BY <1>1 DEF IInv, Numbered, Exclusive, InSession, Queued, Counted, Below
<1>5. HistoryGrows
  BY <1>1 DEF HistoryGrows
<1> QED
  BY <1>2, <1>3, <1>4, <1>5 DEF IInv

LEMMA StepInvariant ==
  ASSUME IInv, [Next]_vars
  PROVE  IInv' /\ HistoryGrows
<1>1. CASE UNCHANGED vars
  BY <1>1, StutterInvariant
<1>2. CASE Next
  <2>1. CASE \E s \in Senders :
                \/ \E e \in Events : Send(s, e)
                \/ SenderStep(s)
                \/ SenderFault(s)
                \/ Reboot(s)
    BY <2>1, SenderInvariant
  <2>2. CASE \E r \in Receivers :
                \/ Await(r)
                \/ ReceiverStep(r)
                \/ ReceiverFault(r)
                \/ Reboot(r)
                \/ \E d \in datagrams[r] : LoseDatagram(r, d)
    BY <2>2, ReceiverInvariant
  <2> QED
    BY <1>2, <2>1, <2>2 DEF Next
<1> QED
  BY <1>1, <1>2

LEMMA InitInvariant == Init => IInv
<1> SUFFICES ASSUME Init PROVE IInv
  OBVIOUS
<1> USE NodesAreApart
<1>1. LocalsType
  <2>1. NoResult \in [code : ResultCodes, errno : ResultErrnos]
    BY DEF NoResult, ResultCodes, ResultErrnos
  <2>2. NoLoop \in [triesLeft : Nat, served : 0..TrustedCount, queued : BOOLEAN]
    BY CountsAssumption DEF NoLoop
  <2> HIDE DEF NoLoop
  <2> QED
    BY <2>1, <2>2 DEF Init, LocalsType
<1>2. SocketsType
  BY DEF Init, SocketsType
<1>3. RestType
  BY DEF Init, RestType
<1>4. SenderScope /\ ReceiverScope /\ Provenance
  BY DEF Init, SenderScope, ReceiverScope, Provenance, InSession, SenderLabels,
         ReceiverLabels
<1>5. Numbered
  BY DEF Init, Numbered, Queued, InSession
<1>6. Exclusive
  BY DEF Init, Exclusive, InSession
<1> QED
  BY <1>1, <1>2, <1>3, <1>4, <1>5, <1>6, TypeParts DEF IInv

(* What a receiver accepts was signed by a trusted sender.                 *)
LEMMA DeliveredIsVouched ==
  ASSUME IInv, NEW r \in Receivers, Delivers(r)
  PROVE  \E s \in Trusted :
           [sender |-> s, event |-> event[r], nonce |-> nonce[r]] \in vouched
<1>1. PICK m \in signatures : AcceptsSignature(r, m)
  BY DEF Delivers
<1>2. [sender |-> m.signer, event |-> m.event, nonce |-> m.nonce] \in vouched
  BY DEF IInv, Provenance
<1>3. m.event = event[r] /\ m.nonce = nonce[r]
  BY <1>1 DEF AcceptsSignature
<1>4. m.signer \in Senders /\ m.id \in Nat
  BY TypeParts DEF IInv, SocketsType, SignatureMessages
<1>5. m.id \in 0..(TrustedCount - 1)
  BY <1>1, <1>4, CountsAssumption DEF AcceptsSignature
<1>6. m.signer \in Trusted
  BY <1>1, <1>4, <1>5 DEF Trusted, AcceptsSignature
<1> QED
  BY <1>2, <1>3, <1>6

-----------------------------------------------------------------------------
(* The theorems                                                            *)

(* IInv is an inductive invariant of send(), await() and the network.      *)
THEOREM Invariance == Spec => []IInv
<1>1. IInv /\ [Next]_vars => IInv'
  BY StepInvariant
<1> QED
  BY <1>1, InitInvariant, PTL DEF Spec

(* Every variable of the handler keeps its type; in particular the loop of *)
(* send() over challengers (.ipp:118) ends at TrustedCount.                *)
THEOREM TypeCorrectness == Spec => []TypeOK
<1>1. IInv => TypeOK
  BY DEF IInv
<1> QED
  BY <1>1, Invariance, PTL

(* Whatever is lost, left over or fails, sender and receiver of a session  *)
(* agree on each other, the event and the nonce.                           *)
THEOREM Agreement == Spec => []SessionAgreement
<1>1. IInv => SessionAgreement
  BY DEF IInv, Exclusive, InSession, SessionAgreement, Challenging
<1> QED
  BY <1>1, Invariance, PTL

(* await() returns an event only after a trusted sender has signed it      *)
(* together with the nonce that this receiver issued for it.               *)
THEOREM Authenticity == Spec => []AuthenticDelivery
<1>1. Init => AuthenticDelivery
  BY DEF Init, AuthenticDelivery
<1>2. ASSUME IInv, AuthenticDelivery, [Next]_vars
      PROVE  AuthenticDelivery'
  <2> DEFINE Vouched(c, v) == \E s \in Trusted :
               [sender |-> s, event |-> c.event, nonce |-> c.nonce] \in v
  <2>1. issued \subseteq issued' /\ vouched \subseteq vouched'
    BY <1>2, StepInvariant DEF HistoryGrows
  <2>2. CASE UNCHANGED delivered
    BY <1>2, <2>1, <2>2 DEF AuthenticDelivery
  <2>3. ASSUME NEW r \in Receivers, Delivers(r) PROVE AuthenticDelivery'
    <3> DEFINE c == [receiver |-> r, event |-> event[r], nonce |-> nonce[r]]
    <3>1. c \in issued
      BY <1>2, <2>3 DEF IInv, Provenance, Delivers
    <3>2. Vouched(c, vouched)
      BY <1>2, <2>3, DeliveredIsVouched
    <3>3. /\ delivered \in [Receivers -> Seq(Challenges)]
          /\ delivered' = [delivered EXCEPT ![r] = Append(@, c)]
      BY <1>2, <2>3, TypeParts DEF IInv, RestType, Delivers
    <3>4. c.receiver = r
      OBVIOUS
    <3> HIDE DEF c, Vouched
    <3>5. ASSUME NEW q \in Receivers, NEW i \in 1..Len(delivered'[q])
          PROVE  \/ i \in 1..Len(delivered[q]) /\ delivered'[q][i] = delivered[q][i]
                 \/ q = r /\ delivered'[q][i] = c
      <4>1. CASE q # r
        BY <3>3, <3>5, <4>1
      <4>2. CASE q = r
        <5>1. delivered[r] \in Seq(Challenges) /\ delivered'[r] = Append(delivered[r], c)
          BY <3>3
        <5> QED
          BY <3>5, <4>2, <5>1
      <4> QED
        BY <4>1, <4>2
    <3>6. ASSUME NEW q \in Receivers, NEW i \in 1..Len(delivered[q])
          PROVE  /\ delivered[q][i].receiver = q
                 /\ delivered[q][i] \in issued
                 /\ Vouched(delivered[q][i], vouched)
      BY <1>2 DEF AuthenticDelivery, Vouched
    <3>7. \A d : Vouched(d, vouched) => Vouched(d, vouched')
      BY <2>1 DEF Vouched
    <3>8. \A q \in Receivers : \A i \in 1..Len(delivered'[q]) :
             /\ delivered'[q][i].receiver = q
             /\ delivered'[q][i] \in issued'
             /\ Vouched(delivered'[q][i], vouched')
      BY <2>1, <3>1, <3>2, <3>4, <3>5, <3>6, <3>7
    <3> QED
      BY <3>8 DEF AuthenticDelivery, Vouched
  <2> QED
    BY <1>2, <2>2, <2>3, StepInvariant DEF HistoryGrows
<1> QED
  BY <1>1, <1>2, Invariance, PTL DEF Spec

(* No two returns of await() are answers to the same challenge.            *)
THEOREM FreshDelivery == Spec => []DeliveredOnce
<1>1. Init => DeliveredOnce
  BY DEF Init, DeliveredOnce
<1>2. ASSUME IInv, DeliveredOnce, [Next]_vars
      PROVE  DeliveredOnce'
  <2>1. CASE UNCHANGED delivered
    BY <1>2, <2>1 DEF DeliveredOnce
  <2>2. ASSUME NEW r \in Receivers, Delivers(r) PROVE DeliveredOnce'
    <3> DEFINE c == [receiver |-> r, event |-> event[r], nonce |-> nonce[r]]
    <3>1. /\ delivered \in [Receivers -> Seq(Challenges)]
          /\ delivered' = [delivered EXCEPT ![r] = Append(@, c)]
          /\ used[r] \in Nat
      BY <1>2, <2>2, TypeParts DEF IInv, RestType, Delivers
    <3>2. c.nonce = <<r, used[r]>>
      BY <1>2, <2>2 DEF IInv, ReceiverScope, Delivers, InSession
    <3>3. \A i \in 1..Len(delivered[r]) : delivered[r][i].nonce # c.nonce
      <4> SUFFICES ASSUME NEW i \in 1..Len(delivered[r])
                   PROVE  delivered[r][i].nonce # c.nonce
        OBVIOUS
      <4>1. PICK k \in 0..used[r] : delivered[r][i].nonce = <<r, k>> /\ k < used[r]
        BY <1>2, <2>2 DEF IInv, Numbered, Delivers, InSession
      <4> QED
        BY <3>1, <3>2, <4>1
    <3> HIDE DEF c
    <3>4. ASSUME NEW q \in Receivers, NEW i \in 1..Len(delivered'[q]),
                 NEW j \in 1..Len(delivered'[q]),
                 delivered'[q][i].nonce = delivered'[q][j].nonce
          PROVE  i = j
      <4>1. CASE q # r
        BY <1>2, <3>1, <3>4, <4>1 DEF DeliveredOnce
      <4>2. CASE q = r
        <5>1. /\ delivered[r] \in Seq(Challenges)
              /\ delivered'[r] = Append(delivered[r], c)
          BY <3>1
        <5>2. \A h, k \in 1..Len(delivered[r]) :
                 delivered[r][h].nonce = delivered[r][k].nonce => h = k
          BY <1>2 DEF DeliveredOnce
        <5> QED
          BY <3>3, <3>4, <4>2, <5>1, <5>2
      <4> QED
        BY <4>1, <4>2
    <3> QED
      BY <3>4 DEF DeliveredOnce
  <2> QED
    BY <1>2, <2>1, <2>2, StepInvariant DEF HistoryGrows
<1> QED
  BY <1>1, <1>2, Invariance, PTL DEF Spec

=============================================================================
