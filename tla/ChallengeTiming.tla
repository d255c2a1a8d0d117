--------------------------- MODULE ChallengeTiming ---------------------------
(***************************************************************************)
(* How long send() and await() wait for each other: one sender, the        *)
(* receivers that challenge it, and a clock.                               *)
(*                                                                         *)
(* NetworkEventHandler lets every timeout end at any moment; here it ends  *)
(* when it is over.  Socket errors other than timeouts are left to that    *)
(* module.  A step that only computes takes no time, a challenge arrives in*)
(* up to Parts pieces, each at most Delay after recv() has been called for *)
(* it, signing takes at most Service, and Tick lets time pass as long as   *)
(* nothing is due.                                                         *)
(***************************************************************************)
EXTENDS Naturals, Sequences, FiniteSets

CONSTANTS
    Receivers,
    TrustedCount,
    MaxRetries,      \* the max_retries argument of send()
    InitialListen,   \* CONFIG_TCP_INITIAL_LISTEN_TIMEOUT_MS, in ticks
    QueuedListen,    \* CONFIG_TCP_QUEUED_LISTEN_TIMEOUT_MS
    CommTimeout,     \* CONFIG_TCP_COMMUNICATON_TIMEOUT
    TimePerNode,     \* CONFIG_CHALLNGE_TIME_PER_NODE
    Parts,           \* the most recv() calls that a challenge takes
    Delay,           \* the most that a piece of a challenge is late
    Service,         \* the most from a challenge to its signature
    Latency,         \* the most a receiver takes to react to a datagram
    Blink,           \* receiver_node_task shows the event on its LED
    Gap,             \* sender_node_task pauses between two events
    MaxSends,        \* bound: calls of send()
    MaxSilent        \* bound: challengers that fall silent

ASSUME TimesAssumption ==
    /\ {TrustedCount, InitialListen, QueuedListen, CommTimeout, Parts, Service}
         \subseteq Nat \ {0}
    /\ {MaxRetries, TimePerNode, Delay, Latency, Blink, Gap, MaxSends, MaxSilent}
         \subseteq Nat

VARIABLES
    spc,       \* the sender: "pause", "listen", "read" or "sign"
    sclock,    \* how long it has been there, or in this call of recv()
    left,      \* calls of recv() that it may need for this challenge
    current,   \* which call of send() this is, or was the last
    tries,     \* tries_left of send()
    slot,      \* i of the loop over challengers
    queued,    \* listen_timeout is the shorter one
    backlog,   \* connections waiting in the acceptor
    hand,      \* the connection in m_challenge_socket
    rpc,       \* a receiver: "event", "connect", "signature" or "blink"
    rclock,    \* how long it has been there
    heard,     \* event datagrams in its receive queue
    event,     \* the send() whose event it challenges
    silent,    \* how many challengers have fallen silent
    since,     \* history: how long the running send() has taken
    budget,    \* history: what the challenges ahead of it and its own cost
    attended,  \* history: send() had a slot for it when it connected
    gaveUp     \* history: it gave up on a sender that attended to it

sender == <<spc, sclock, left, current, tries, slot, queued, hand, since>>
receivers == <<rpc, rclock, heard, event, silent, budget, gaveUp>>
vars == <<sender, backlog, receivers, attended>>

(* The receiver of a connection waits for the answer, has given up on it   *)
(* (live = FALSE), or went off before all of its challenge was sent (mute).*)
Waiting == [from : Receivers, event : Nat, live : BOOLEAN, mute : BOOLEAN]
Nobody == << >>

TypeOK ==
    /\ spc \in {"pause", "listen", "read", "sign"}
    /\ rpc \in [Receivers -> {"event", "connect", "signature", "blink"}]
    /\ backlog \in Seq(Waiting) /\ Len(backlog) <= TrustedCount
    /\ hand \in Waiting \cup {Nobody}
    /\ spc \in {"read", "sign"} <=> hand # Nobody
    /\ left \in 0..Parts /\ (left > 0 <=> spc = "read")
    /\ slot \in 0..TrustedCount /\ tries \in 0..(MaxRetries + 1)
    /\ rclock \in [Receivers -> Nat] /\ budget \in [Receivers -> Nat]
    /\ heard \in [Receivers -> Seq(1..MaxSends)]
    /\ event \in [Receivers -> 0..MaxSends]
    /\ {sclock, current, silent, since} \subseteq Nat
    /\ queued \in BOOLEAN
    /\ attended \in [Receivers -> BOOLEAN] /\ gaveUp \in [Receivers -> BOOLEAN]

Init ==
    /\ spc = "pause" /\ sclock = Gap /\ left = 0
    /\ current = 0 /\ tries = 0 /\ slot = 0
    /\ queued = FALSE /\ backlog = << >> /\ hand = Nobody /\ since = 0
    /\ rpc = [r \in Receivers |-> "event"]
    /\ rclock = [r \in Receivers |-> 0]
    /\ heard = [r \in Receivers |-> << >>]
    /\ event = [r \in Receivers |-> 0]
    /\ silent = 0
    /\ budget = [r \in Receivers |-> 0]
    /\ attended = [r \in Receivers |-> FALSE]
    /\ gaveUp = [r \in Receivers |-> FALSE]

-----------------------------------------------------------------------------
(* send()                                                                  *)

(* The datagram reaches some of the receivers; then the first listen().    *)
Broadcast(n) ==
    /\ \E reached \in SUBSET Receivers :
         heard' = [r \in Receivers |->
             IF r \in reached THEN Append(heard[r], n) ELSE heard[r]]
    /\ spc' = "listen" /\ sclock' = 0 /\ left' = 0
    /\ slot' = 0 /\ queued' = FALSE /\ hand' = Nobody

(* send() returns and sender_node_task pauses.                             *)
Return ==
    /\ spc' = "pause" /\ sclock' = 0 /\ left' = 0 /\ hand' = Nobody /\ tries' = 0
    /\ UNCHANGED <<slot, queued, heard>>

StartSend ==
    /\ spc = "pause" /\ sclock = Gap /\ current < MaxSends
    /\ current' = current + 1
    /\ tries' = MaxRetries + 1
    /\ since' = 0
    /\ Broadcast(current + 1)
    /\ UNCHANGED <<backlog, rpc, rclock, event, silent, budget, attended, gaveUp>>

(* `while (--tries_left)`                                                  *)
NextTry ==
    \/ tries = 1 /\ Return
    \/ tries > 1 /\ tries' = tries - 1 /\ Broadcast(current)

(* `++i` and `i <= TrustedCount`                                           *)
NextChallenger ==
    \/ slot = TrustedCount /\ NextTry
    \/ /\ slot < TrustedCount
       /\ slot' = slot + 1
       /\ spc' = "listen" /\ sclock' = 0 /\ left' = 0 /\ hand' = Nobody
       /\ UNCHANGED <<tries, queued, heard>>

(* Seeded bug: the timeout is not reduced.                                 *)
ListenTimeoutAlwaysInitial == InitialListen

ListenTimeout == IF queued THEN QueuedListen ELSE InitialListen

(* Seeded bug: the newest connection is taken first.                       *)
AcceptNewest ==
    /\ spc = "listen" /\ backlog # << >>
    /\ hand' = backlog[Len(backlog)]
    /\ backlog' = SubSeq(backlog, 1, Len(backlog) - 1)
    /\ spc' = "read" /\ sclock' = 0 /\ left' = Parts /\ queued' = TRUE
    /\ UNCHANGED <<current, tries, slot, since, receivers, attended>>

Accept ==
    /\ spc = "listen" /\ backlog # << >>
    /\ hand' = Head(backlog)
    /\ backlog' = Tail(backlog)
    /\ spc' = "read" /\ sclock' = 0 /\ left' = Parts /\ queued' = TRUE
    /\ UNCHANGED <<current, tries, slot, since, receivers, attended>>

(* Nobody within the initial timeout: the event is sent again.             *)
ListenEnds ==
    /\ spc = "listen" /\ backlog = << >> /\ sclock = ListenTimeout
    /\ IF queued THEN NextChallenger ELSE NextTry
    /\ UNCHANGED <<current, since, backlog, rpc, rclock, event, silent, budget,
                   attended, gaveUp>>

(* The next listen() closes the connection: recv() ends at its receiver,   *)
(* which connects once more when it reads this as a broken connection.     *)
CutOff(c) ==
    IF c.live /\ spc' = "listen"
    THEN /\ \E next \in {"event", "connect"} : rpc' = [rpc EXCEPT ![c.from] = next]
         /\ rclock' = [rclock EXCEPT ![c.from] = 0]
    ELSE UNCHANGED <<rpc, rclock>>

(* How long a call of recv() lasts: SO_RCVTIMEO cuts it off.               *)
RecvTime(c) == IF c.mute \/ CommTimeout < Delay THEN CommTimeout ELSE Delay

(* A piece arrives; recv() is called again for what is missing, and its    *)
(* timeout begins anew.                                                    *)
ReadPart ==
    /\ spc = "read" /\ left > 1
    /\ left' = left - 1 /\ sclock' = 0
    /\ UNCHANGED <<spc, current, tries, slot, queued, backlog, hand, since,
                   receivers, attended>>

(* The challenge is complete.  One for an earlier event is passed over.    *)
Read ==
    /\ spc = "read" /\ ~hand.mute
    /\ \/ /\ hand.event = current
          /\ spc' = "sign" /\ sclock' = 0 /\ left' = 0
          /\ UNCHANGED <<tries, slot, queued, hand, heard, rpc, rclock>>
       \/ hand.event # current /\ NextChallenger /\ CutOff(hand)
    /\ UNCHANGED <<current, since, backlog, event, silent, budget, attended,
                   gaveUp>>

(* recv() ends with EAGAIN, an internal error: send() returns.             *)
ReadTimeout ==
    /\ spc = "read" /\ (hand.mute \/ CommTimeout <= Delay)
    /\ sclock = CommTimeout
    /\ Return
    /\ attended' = [r \in Receivers |-> FALSE]
    /\ UNCHANGED <<current, since, backlog, rpc, rclock, event, silent, budget,
                   gaveUp>>

(* The signature is written; a receiver that has given up does not see it. *)
Answer ==
    /\ spc = "sign" /\ sclock > 0
    /\ rpc' = IF hand.live THEN [rpc EXCEPT ![hand.from] = "blink"] ELSE rpc
    /\ rclock' = IF hand.live THEN [rclock EXCEPT ![hand.from] = 0] ELSE rclock
    /\ NextChallenger
    /\ UNCHANGED <<current, since, backlog, event, silent, budget, attended,
                   gaveUp>>

-----------------------------------------------------------------------------
(* await()                                                                 *)

Hear(r) ==
    /\ rpc[r] = "event" /\ heard[r] # << >>
    /\ event' = [event EXCEPT ![r] = Head(heard[r])]
    /\ heard' = [heard EXCEPT ![r] = Tail(@)]
    /\ rpc' = [rpc EXCEPT ![r] = "connect"]
    /\ rclock' = [rclock EXCEPT ![r] = 0]
    /\ UNCHANGED <<sender, backlog, silent, budget, attended, gaveUp>>

(* Seeded bug: listen() with a queue longer by one.                        *)
RoomForOneMore == Len(backlog) <= TrustedCount

Room == Len(backlog) < TrustedCount

(* What the sender may spend on a connection before the next.              *)
Cost(c) ==
    IF c = Nobody THEN 0
    ELSE Parts * RecvTime(c) + (IF c.mute THEN 0 ELSE Service)

(* The first n connections, for every n.                                   *)
Costs(connections) ==
    LET UpTo[n \in 0..Len(connections)] ==
            IF n = 0 THEN 0 ELSE UpTo[n - 1] + Cost(connections[n])
    IN  UpTo

(* The connections that the running send() can still take.                 *)
SlotsLeft ==
    (IF spc = "listen" THEN 1 ELSE 0) + (TrustedCount - slot)
        + (tries - 1) * (TrustedCount + 1)

(* What a challenge costs whose receiver does not fall silent.             *)
TurnTime == Cost([mute |-> FALSE])

Join(r, mute) ==
    backlog' = Append(backlog,
        [from |-> r, event |-> event[r], live |-> ~mute, mute |-> mute])

(* lwIP completes the connection as soon as its queue has room, whatever   *)
(* the sender does.  The challenge is handed to TCP, and the timeout of the*)
(* recv() for its signature runs before it arrives.                        *)
Connect(r) ==
    /\ rpc[r] = "connect" /\ Room
    /\ Join(r, FALSE)
    /\ rpc' = [rpc EXCEPT ![r] = "signature"]
    /\ rclock' = [rclock EXCEPT ![r] = 0]
    /\ budget' = [budget EXCEPT ![r] =
                    Cost(hand) + Costs(backlog)[Len(backlog)] + TurnTime]
    /\ attended' = [attended EXCEPT ![r] =
                      spc # "pause" /\ Len(backlog) < SlotsLeft]
    /\ gaveUp' = [gaveUp EXCEPT ![r] = FALSE]
    /\ UNCHANGED <<sender, heard, event, silent>>

(* The receiver restarts between connect() and the end of its challenge.   *)
FallSilent(r) ==
    /\ rpc[r] = "connect" /\ Room /\ silent < MaxSilent
    /\ silent' = silent + 1
    /\ Join(r, TRUE)
    /\ rpc' = [rpc EXCEPT ![r] = "event"]
    /\ heard' = [heard EXCEPT ![r] = << >>]
    /\ rclock' = [rclock EXCEPT ![r] = 0]
    /\ UNCHANGED <<sender, event, budget, attended, gaveUp>>

(* 1 + TrustedCount attempts, each with a timeout for all other nodes.     *)
ConnectTimeout == (1 + TrustedCount) * (TimePerNode * TrustedCount)

ConnectGivesUp(r) ==
    /\ rpc[r] = "connect" /\ ~Room /\ rclock[r] = ConnectTimeout
    /\ rpc' = [rpc EXCEPT ![r] = "event"]
    /\ rclock' = [rclock EXCEPT ![r] = 0]
    /\ UNCHANGED <<sender, backlog, heard, event, silent, budget, attended,
                   gaveUp>>

Forget(c, r) ==
    IF c # Nobody /\ c.from = r THEN [c EXCEPT !.live = FALSE] ELSE c

(* recv() ends with EAGAIN; receiver_node_task calls await() again.        *)
GiveUp(r) ==
    /\ rpc[r] = "signature" /\ rclock[r] = CommTimeout
    /\ rpc' = [rpc EXCEPT ![r] = "event"]
    /\ rclock' = [rclock EXCEPT ![r] = 0]
    /\ backlog' = [i \in 1..Len(backlog) |-> Forget(backlog[i], r)]
    /\ hand' = Forget(hand, r)
    /\ gaveUp' = [gaveUp EXCEPT ![r] = attended[r] /\ event[r] = current]
    /\ UNCHANGED <<spc, sclock, left, current, tries, slot, queued, since,
                   heard, event, silent, budget, attended>>

BlinkEnds(r) ==
    /\ rpc[r] = "blink" /\ rclock[r] = Blink
    /\ rpc' = [rpc EXCEPT ![r] = "event"]
    /\ rclock' = [rclock EXCEPT ![r] = 0]
    /\ UNCHANGED <<sender, backlog, heard, event, silent, budget, attended,
                   gaveUp>>

-----------------------------------------------------------------------------
(* Time passes while nobody has anything due.                              *)
SenderMayWait ==
    CASE spc = "pause"  -> sclock < Gap \/ current = MaxSends
      [] spc = "listen" -> backlog = << >> /\ sclock < ListenTimeout
      [] spc = "read"   -> sclock < RecvTime(hand)
      [] spc = "sign"   -> sclock < Service

ReceiverMayWait(r) ==
    CASE rpc[r] = "event"     -> heard[r] = << >> \/ rclock[r] < Latency
      [] rpc[r] = "connect"   -> ~Room /\ rclock[r] < ConnectTimeout
      [] rpc[r] = "signature" -> rclock[r] < CommTimeout
      [] rpc[r] = "blink"     -> rclock[r] < Blink

Tick ==
    /\ SenderMayWait /\ \A r \in Receivers : ReceiverMayWait(r)
    /\ sclock' = IF spc = "pause" /\ sclock = Gap THEN sclock ELSE sclock + 1
    /\ rclock' = [r \in Receivers |->
         IF rpc[r] = "event" /\ heard[r] = << >> THEN 0 ELSE rclock[r] + 1]
    /\ since' = IF spc = "pause" THEN since ELSE since + 1
    /\ UNCHANGED <<spc, left, current, tries, slot, queued, hand, backlog, rpc,
                   heard, event, silent, budget, attended, gaveUp>>

Next ==
    \/ StartSend \/ Accept \/ ListenEnds \/ ReadPart \/ Read \/ ReadTimeout \/ Answer
    \/ \E r \in Receivers :
         \/ Hear(r) \/ Connect(r) \/ FallSilent(r) \/ ConnectGivesUp(r)
         \/ GiveUp(r) \/ BlinkEnds(r)
    \/ Tick

Spec == Init /\ [][Next]_vars

-----------------------------------------------------------------------------
(* A challenger for the running event that send() still has a slot for     *)
(* waits for those ahead of it, however late and in however many pieces    *)
(* their challenges come, and for its own signature, and for nothing else: *)
(* no pause between two slots, no listen timeout and no resent event comes *)
(* in between, and send() does not return without its answer, unless it    *)
(* fails.  So it gives up only when these take CommTimeout or more.        *)
WaitBounded ==
    \A r \in Receivers :
        rpc[r] = "signature" /\ attended[r] /\ event[r] = current
            => rclock[r] <= budget[r]

(* send() returns within a time fixed by the configuration, whoever calls, *)
(* is late or falls silent.  What one connection can block it for (.ipp:   *)
(* 814) is not CommTimeout, which only bounds each call of recv(): it is   *)
(* that for every piece its challenge comes in, for each slot of each try. *)
SendTakesAtMost ==
    since <= MaxRetries * (InitialListen + TurnTime
                           + TrustedCount * (QueuedListen + TurnTime))
             + InitialListen + TrustedCount * (QueuedListen + TurnTime)
             + (IF Parts * CommTimeout > TurnTime
                THEN Parts * CommTimeout ELSE TurnTime)

(* .ipp:575-576: "Choose a timeout that allows waiting for the case of all *)
(* other nodes connecting before this one."  So no receiver gives up on a  *)
(* sender that is still answering the others.                              *)
TurnComes == \A r \in Receivers : ~gaveUp[r]

=============================================================================
