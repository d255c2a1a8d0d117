------------------------- MODULE ChallengeTimingProofs -------------------------
(***************************************************************************)
(* How long send() takes, and how long a challenger waits for it, for any  *)
(* number of receivers, retries and events, and any timeouts.              *)
(***************************************************************************)
EXTENDS ChallengeTiming, NaturalRecursion

-----------------------------------------------------------------------------
(* The states                                                              *)

(* The types, with what bounds the numbers of the events.                  *)
Typed ==
    /\ TypeOK
    /\ current <= MaxSends
    /\ spc # "pause" => current >= 1 /\ tries >= 1

(* Where send() is: the timeout is the shorter one from its second slot    *)
(* on, and no step lasts longer than its timeout, or than signing.         *)
InTime ==
    /\ spc = "listen" => sclock <= ListenTimeout /\ (queued <=> slot > 0)
    /\ spc \in {"read", "sign"} => queued
    /\ spc = "read" => sclock <= RecvTime(hand)
    /\ spc = "sign" => sclock <= Service /\ ~hand.mute

(* A slot after the first, a try, and the last step of send().             *)
SlotTime == QueuedListen + TurnTime
TryTime == InitialListen + TurnTime + TrustedCount * SlotTime
LastStep == IF Parts * CommTimeout > TurnTime THEN Parts * CommTimeout ELSE TurnTime

(* What the tries before and the slots of this one take, up to the end of  *)
(* the listen() of the current slot.                                       *)
Allowed ==
    (MaxRetries + 1 - tries) * TryTime + InitialListen + slot * SlotTime

(* What the connection in m_challenge_socket may still cost.               *)
Remaining ==
    IF hand = Nobody THEN 0
    ELSE left * RecvTime(hand) + (IF hand.mute THEN 0 ELSE Service) - sclock

(* What send() has spent is this, and what it has of the listen() or of    *)
(* the connection that it is at.                                           *)
Spent ==
    /\ spc = "pause" => SendTakesAtMost
    /\ spc = "listen" => since + ListenTimeout <= Allowed + sclock
    /\ spc \in {"read", "sign"} => since + Remaining <= Allowed + Cost(hand)

(* The receiver of a live connection waits for the answer to it, and has   *)
(* no other.                                                               *)
Alive(c) ==
    c.live => rpc[c.from] = "signature" /\ c.event = event[c.from] /\ ~c.mute

Connections ==
    /\ \A i \in 1..Len(backlog) : Alive(backlog[i])
    /\ \A i, j \in 1..Len(backlog) :
         backlog[i].live /\ backlog[j].live /\ backlog[i].from = backlog[j].from
             => i = j
    /\ hand # Nobody =>
         /\ Alive(hand)
         /\ hand.live => \A i \in 1..Len(backlog) :
                           backlog[i].live => backlog[i].from # hand.from

(* Nobody has heard of an event that is still to come.                     *)
Events ==
    \A r \in Receivers :
        /\ event[r] <= current
        /\ \A i \in 1..Len(heard[r]) : heard[r][i] <= current

InHand(r) ==
    /\ hand # Nobody /\ hand.live /\ hand.from = r
    /\ rclock[r] + Remaining <= budget[r]

InBacklog(r, i) ==
    /\ backlog[i].live /\ backlog[i].from = r
    /\ i <= SlotsLeft
    /\ rclock[r] + Remaining + Costs(backlog)[i - 1] + TurnTime <= budget[r]

(* A challenger that has a slot waits in the backlog or for its signature, *)
(* and its budget pays for everything before its answer.                   *)
Affordable ==
    \A r \in Receivers :
        rpc[r] = "signature" /\ attended[r] /\ event[r] = current =>
            /\ spc # "pause"
            /\ InHand(r) \/ \E i \in 1..Len(backlog) : InBacklog(r, i)

SendInv == Typed /\ InTime /\ Spent
WaitInv == Typed /\ InTime /\ Connections /\ Events /\ Affordable

-----------------------------------------------------------------------------
(* The operators                                                           *)

LEMMA Times ==
  /\ TrustedCount \in Nat \ {0} /\ InitialListen \in Nat /\ QueuedListen \in Nat
  /\ CommTimeout \in Nat /\ Service \in Nat
  /\ Parts \in Nat /\ Parts >= 1 /\ Delay \in Nat
  /\ MaxRetries \in Nat /\ MaxSends \in Nat
  BY TimesAssumption

LEMMA Multiples ==
  /\ \A a, b \in Nat : a * b \in Nat /\ (a + 1) * b = a * b + b
  /\ \A a, b, c \in Nat : a <= c => a * b <= c * b
  /\ \A a, b, c \in Nat : a <= c => b * a <= b * c
<1>1. \A a, b \in Nat : a * b \in Nat /\ (a + 1) * b = a * b + b
  OBVIOUS
<1>2. ASSUME NEW a \in Nat, NEW b \in Nat, NEW c \in Nat, a <= c
      PROVE  a * b <= c * b /\ b * a <= b * c
  <2>1. PICK d \in Nat : c = a + d
    <3>1. c - a \in Nat /\ c = a + (c - a)
      BY <1>2
    <3> QED
      BY <3>1
  <2>2. (a + d) * b = a * b + d * b /\ a * b \in Nat /\ d * b \in Nat
    OBVIOUS
  <2>3. b * (a + d) = b * a + b * d /\ b * a \in Nat /\ b * d \in Nat
    OBVIOUS
  <2> QED
    BY <2>1, <2>2, <2>3
<1> QED
  BY <1>1, <1>2

(* A connection is somebody and costs a natural number: what its recv()    *)
(* calls and its signature take, so that one whose receiver does not fall  *)
(* silent costs a turn.                                                    *)
LEMMA CostOf ==
  /\ Nobody \notin Waiting /\ TurnTime \in Nat
  /\ \A c \in Waiting :
       /\ RecvTime(c) \in Nat /\ RecvTime(c) <= CommTimeout
       /\ Cost(c) = Parts * RecvTime(c) + (IF c.mute THEN 0 ELSE Service)
       /\ Cost(c) \in Nat
       /\ ~c.mute => Cost(c) = TurnTime
<1>1. \A c \in Waiting : c # Nobody
  <2> SUFFICES ASSUME NEW c \in Waiting, c = Nobody
               PROVE  FALSE
    OBVIOUS
  <2>1. "from" \in DOMAIN c
    BY DEF Waiting
  <2>2. DOMAIN Nobody = {}
    BY DEF Nobody
  <2> QED
    BY <2>1, <2>2
<1>2. [mute |-> FALSE] # Nobody
  <2>1. "mute" \in DOMAIN [mute |-> FALSE] /\ "mute" \notin DOMAIN Nobody
    BY DEF Nobody
  <2> QED
    BY <2>1
<1>3. PICK recv \in Nat :
        recv = IF CommTimeout < Delay THEN CommTimeout ELSE Delay
  BY Times
<1>4. RecvTime([mute |-> FALSE]) = recv
  BY <1>3 DEF RecvTime
<1>5. TurnTime = Parts * recv + Service
  BY <1>2, <1>4 DEF TurnTime, Cost
<1>6. /\ Parts * recv \in Nat /\ Parts * CommTimeout \in Nat
      /\ Service \in Nat /\ recv <= CommTimeout
  BY <1>3, Times, Multiples
<1>7. TurnTime \in Nat
  BY <1>5, <1>6
<1>8. ASSUME NEW c \in Waiting
      PROVE  /\ RecvTime(c) \in Nat /\ RecvTime(c) <= CommTimeout
             /\ Cost(c) = Parts * RecvTime(c) + (IF c.mute THEN 0 ELSE Service)
             /\ Cost(c) \in Nat
             /\ ~c.mute => Cost(c) = TurnTime
  <2>1. Cost(c) = Parts * RecvTime(c) + (IF c.mute THEN 0 ELSE Service)
    BY <1>1, <1>8 DEF Cost
  <2>2. RecvTime(c) = (IF c.mute THEN CommTimeout ELSE recv) /\ c.mute \in BOOLEAN
    BY <1>3, <1>8 DEF RecvTime, Waiting
  <2>3. CASE c.mute
    <3>1. RecvTime(c) = CommTimeout /\ Cost(c) = Parts * CommTimeout + 0
      BY <2>1, <2>2, <2>3
    <3> QED
      BY <3>1, <2>1, <2>3, <1>6, Times
  <2>4. CASE ~c.mute
    <3>1. RecvTime(c) = recv /\ Cost(c) = Parts * recv + Service
      BY <2>1, <2>2, <2>4
    <3> QED
      BY <3>1, <2>1, <2>4, <1>3, <1>5, <1>6, <1>7
  <2> QED
    BY <2>3, <2>4
<1> QED
  BY <1>1, <1>7, <1>8

(* The cost of the first connections is the sum of theirs.                 *)
LEMMA CostsDef ==
  ASSUME NEW s \in Seq(Waiting)
  PROVE  /\ Costs(s) \in [0..Len(s) -> Nat]
         /\ Costs(s)[0] = 0
         /\ \A n \in 0..(Len(s) - 1) :
              Costs(s)[n + 1] = Costs(s)[n] + Cost(s[n + 1])
<1> DEFINE step == [p \in Nat \X Nat |->
                      IF p[1] < Len(s) THEN p[2] + Cost(s[p[1] + 1]) ELSE 0]
           rest(f) == [n \in 0..Len(s) |->
                        IF n = 0 THEN 0 ELSE f[n - 1] + Cost(s[n])]
<1>l. Len(s) \in Nat /\ \A n \in 1..Len(s) : Cost(s[n]) \in Nat
  <2>1. Len(s) \in Nat /\ \A n \in 1..Len(s) : s[n] \in Waiting
    OBVIOUS
  <2> QED
    BY <2>1, CostOf, Zenon
<1>1. step \in [Nat \X Nat -> Nat]
  <2> SUFFICES ASSUME NEW a \in Nat, NEW b \in Nat, a < Len(s)
               PROVE  b + Cost(s[a + 1]) \in Nat
    OBVIOUS
  <2>1. a + 1 \in 1..Len(s)
    BY <1>l
  <2> QED
    BY <2>1, <1>l
<1> HIDE DEF step
<1>2. PICK g \in [Nat -> Nat] : Recurs(g, 0, step)
  <2>1. 0 \in Nat
    OBVIOUS
  <2> QED
    BY <2>1, <1>1, Recursion, Zenon
<1>r. g[0] = 0 /\ \A n \in Nat : g[n + 1] = step[<<n, g[n]>>]
  BY <1>2 DEF Recurs
<1>3. \A n \in 0..(Len(s) - 1) : g[n + 1] = g[n] + Cost(s[n + 1])
  <2> SUFFICES ASSUME NEW n \in 0..(Len(s) - 1)
               PROVE  g[n + 1] = g[n] + Cost(s[n + 1])
    OBVIOUS
  <2>1. n \in Nat /\ n < Len(s)
    BY <1>l
  <2>2. <<n, g[n]>> \in Nat \X Nat
    BY <2>1, <1>2
  <2>3. step[<<n, g[n]>>] = g[n] + Cost(s[n + 1])
    BY <2>1, <2>2 DEF step
  <2> QED
    BY <2>1, <2>3, <1>r
<1> DEFINE h == [n \in 0..Len(s) |-> g[n]]
<1>4. h = rest(h)
  <2>1. \A n \in 0..Len(s) :
          h[n] = IF n = 0 THEN 0 ELSE h[n - 1] + Cost(s[n])
    <3> SUFFICES ASSUME NEW n \in 0..Len(s), n # 0
                 PROVE  h[n] = h[n - 1] + Cost(s[n])
      BY <1>r, <1>l
    <3>1. n - 1 \in 0..(Len(s) - 1) /\ (n - 1) + 1 = n /\ n - 1 \in 0..Len(s)
      BY <1>l
    <3> QED
      BY <3>1, <1>3
  <2> QED
    BY <2>1
<1> DEFINE f == CHOOSE x : x = rest(x)
<1>5. f = rest(f)
  <2> HIDE DEF h, rest
  <2> QED
    BY <1>4, Zenon
<1>6. Costs(s) = f
  BY Zenon DEF Costs
<1> HIDE DEF f
<1>7. f[0] = 0
  BY <1>5, <1>l
<1>8. \A n \in 0..(Len(s) - 1) : f[n + 1] = f[n] + Cost(s[n + 1])
  <2> SUFFICES ASSUME NEW n \in 0..(Len(s) - 1)
               PROVE  f[n + 1] = f[n] + Cost(s[n + 1])
    OBVIOUS
  <2>1. n + 1 \in 0..Len(s) /\ n + 1 # 0 /\ (n + 1) - 1 = n
    BY <1>l
  <2> QED
    BY <2>1, <1>5
<1>9. f \in [0..Len(s) -> Nat]
  <2> DEFINE S == {n \in Nat : n <= Len(s) => f[n] \in Nat}
  <2>1. 0 \in S
    BY <1>7
  <2>2. ASSUME NEW n \in Nat, n \in S PROVE n + 1 \in S
    <3> SUFFICES ASSUME n + 1 <= Len(s)
                 PROVE  f[n + 1] \in Nat
      OBVIOUS
    <3>1. n \in 0..(Len(s) - 1) /\ f[n] \in Nat
      BY <2>2, <1>l
    <3>2. n + 1 \in 1..Len(s)
      BY <1>l
    <3>3. Cost(s[n + 1]) \in Nat
      BY <3>2, <1>l, Zenon
    <3>4. f[n + 1] = f[n] + Cost(s[n + 1])
      BY <3>1, <1>8, Zenon
    <3>5. \A a, b \in Nat : a + b \in Nat
      OBVIOUS
    <3> QED
      BY <3>1, <3>3, <3>4, <3>5, Zenon
  <2> HIDE DEF S
  <2>3. \A n \in Nat : n \in S
    BY <2>1, <2>2, Induction
  <2>4. \A n \in 0..Len(s) : f[n] \in Nat
    BY <2>3, <1>l DEF S
  <2> QED
    BY <2>4, <1>5
<1> QED
  BY <1>6, <1>7, <1>8, <1>9

(* Connections that cost the same one by one cost the same together.       *)
LEMMA CostsAgree ==
  ASSUME NEW s \in Seq(Waiting), NEW t \in Seq(Waiting),
         NEW m \in Nat, m <= Len(s), m <= Len(t),
         \A i \in 1..m : Cost(s[i]) = Cost(t[i])
  PROVE  Costs(s)[m] = Costs(t)[m]
<1> DEFINE S == {n \in Nat : n <= m => Costs(s)[n] = Costs(t)[n]}
<1>1. 0 \in S
  BY CostsDef
<1>2. ASSUME NEW n \in Nat, n \in S
      PROVE  n + 1 \in S
  <2> SUFFICES ASSUME n + 1 <= m
               PROVE  Costs(s)[n + 1] = Costs(t)[n + 1]
    OBVIOUS
  <2>1. n \in 0..(Len(s) - 1) /\ n \in 0..(Len(t) - 1) /\ n + 1 \in 1..m
    OBVIOUS
  <2>2. Costs(s)[n + 1] = Costs(s)[n] + Cost(s[n + 1])
    BY <2>1, CostsDef
  <2>3. Costs(t)[n + 1] = Costs(t)[n] + Cost(t[n + 1])
    BY <2>1, CostsDef
  <2>4. Costs(s)[n] = Costs(t)[n]
    BY <1>2, <2>1
  <2>5. Cost(s[n + 1]) = Cost(t[n + 1])
    BY <2>1, Zenon
  <2> QED
    BY <2>2, <2>3, <2>4, <2>5, Zenon
<1> HIDE DEF S
<1>3. m \in S
  BY <1>1, <1>2, Induction
<1> QED
  BY <1>3 DEF S

(* Without the first connection the others cost what is left.              *)
LEMMA CostsTail ==
  ASSUME NEW s \in Seq(Waiting), s # << >>, NEW m \in 0..(Len(s) - 1)
  PROVE  Costs(s)[m + 1] = Cost(Head(s)) + Costs(Tail(s))[m]
<1> DEFINE t == Tail(s)
           S == {n \in Nat : n < Len(s) =>
                   Costs(s)[n + 1] = Cost(s[1]) + Costs(t)[n]}
<1>t. /\ t \in Seq(Waiting) /\ Len(s) \in Nat /\ Len(t) = Len(s) - 1
      /\ Len(s) > 0 /\ Head(s) = s[1] /\ s[1] \in Waiting
      /\ \A i \in 1..(Len(s) - 1) : t[i] = s[i + 1] /\ t[i] \in Waiting
  OBVIOUS
<1> HIDE DEF t
<1>c. Cost(s[1]) \in Nat /\ \A i \in 1..(Len(s) - 1) : Cost(t[i]) \in Nat
  BY <1>t, CostOf, Zenon
<1>1. 0 \in S
  <2>1. Costs(t)[0] = 0 /\ Costs(s)[0] = 0
    BY <1>t, CostsDef
  <2>2. 0 \in 0..(Len(s) - 1)
    BY <1>t
  <2>3. Costs(s)[0 + 1] = Costs(s)[0] + Cost(s[0 + 1])
    BY <2>2, CostsDef
  <2> QED
    BY <2>1, <2>3, <1>c
<1>2. ASSUME NEW n \in Nat, n \in S
      PROVE  n + 1 \in S
  <2> SUFFICES ASSUME n + 1 < Len(s)
               PROVE  Costs(s)[(n + 1) + 1] = Cost(s[1]) + Costs(t)[n + 1]
    OBVIOUS
  <2>1. /\ n + 1 \in 0..(Len(s) - 1) /\ n \in 0..(Len(t) - 1)
        /\ n + 1 \in 1..(Len(s) - 1) /\ n \in 0..Len(t)
    BY <1>t
  <2>2. Costs(s)[(n + 1) + 1] = Costs(s)[n + 1] + Cost(s[(n + 1) + 1])
    BY <2>1, CostsDef
  <2>3. Costs(t)[n + 1] = Costs(t)[n] + Cost(t[n + 1]) /\ Costs(t)[n] \in Nat
    BY <2>1, <1>t, CostsDef
  <2>4. Costs(s)[n + 1] = Cost(s[1]) + Costs(t)[n]
    BY <1>2
  <2>5. Cost(t[n + 1]) = Cost(s[(n + 1) + 1]) /\ Cost(t[n + 1]) \in Nat
    BY <2>1, <1>t, <1>c, Zenon
  <2>6. \A a, b, c \in Nat : (a + b) + c = a + (b + c)
    OBVIOUS
  <2>7. /\ Costs(s)[(n + 1) + 1] = (Cost(s[1]) + Costs(t)[n]) + Cost(t[n + 1])
        /\ Cost(s[1]) + Costs(t)[n + 1] = Cost(s[1]) + (Costs(t)[n] + Cost(t[n + 1]))
    BY <2>2, <2>3, <2>4, <2>5, Zenon
  <2>8. Costs(t)[n] \in Nat /\ Cost(t[n + 1]) \in Nat /\ Cost(s[1]) \in Nat
    BY <2>3, <2>5, <1>c, Zenon
  <2>9. (Cost(s[1]) + Costs(t)[n]) + Cost(t[n + 1])
          = Cost(s[1]) + (Costs(t)[n] + Cost(t[n + 1]))
    BY <2>6, <2>8, Zenon
  <2> QED
    BY <2>7, <2>9, Zenon
<1> HIDE DEF S
<1>3. m \in S
  BY <1>1, <1>2, Induction
<1> QED
  <2>1. m < Len(s)
    BY <1>t
  <2> QED
    BY <2>1, <1>3, <1>t, Zenon DEF S, t

-----------------------------------------------------------------------------
(* The types                                                               *)

LEMMA HeadAndTail ==
  ASSUME NEW S, NEW q \in Seq(S), q # << >>
  PROVE  Head(q) \in S /\ Tail(q) \in Seq(S)
  OBVIOUS

LEMMA BroadcastTyped ==
  ASSUME Typed, NEW n \in 1..MaxSends, Broadcast(n)
  PROVE  /\ heard' \in [Receivers -> Seq(1..MaxSends)]
         /\ spc' = "listen" /\ sclock' = 0 /\ left' = 0
         /\ slot' = 0 /\ queued' = FALSE /\ hand' = Nobody
<1>1. heard \in [Receivers -> Seq(1..MaxSends)]
  BY DEF Typed, TypeOK
<1>2. PICK reached \in SUBSET Receivers :
        heard' = [r \in Receivers |->
                    IF r \in reached THEN Append(heard[r], n) ELSE heard[r]]
  BY DEF Broadcast
<1>3. \A r \in Receivers : Append(heard[r], n) \in Seq(1..MaxSends)
  BY <1>1
<1>4. heard' \in [Receivers -> Seq(1..MaxSends)]
  BY <1>1, <1>2, <1>3
<1> QED
  BY <1>4 DEF Broadcast

(* send() goes on to a listen() or returns, and lets go of a connection.   *)
LEMMA NextTryTyped ==
  ASSUME Typed, spc # "pause", current' = current, NextTry
  PROVE  /\ spc' \in {"pause", "listen"} /\ hand' = Nobody
         /\ sclock' = 0 /\ left' = 0
         /\ slot' \in 0..TrustedCount /\ tries' \in 0..(MaxRetries + 1)
         /\ queued' \in BOOLEAN
         /\ heard' \in [Receivers -> Seq(1..MaxSends)]
         /\ spc' = "pause" \/ tries' >= 1
<1>1. /\ slot \in 0..TrustedCount /\ tries \in 0..(MaxRetries + 1)
      /\ queued \in BOOLEAN /\ heard \in [Receivers -> Seq(1..MaxSends)]
      /\ current \in 1..MaxSends
  BY Times DEF Typed, TypeOK
<1>2. CASE tries = 1 /\ Return
  BY <1>1, <1>2, Times DEF Return
<1>3. CASE tries > 1 /\ tries' = tries - 1 /\ Broadcast(current)
  <2>1. /\ heard' \in [Receivers -> Seq(1..MaxSends)]
        /\ spc' = "listen" /\ sclock' = 0 /\ left' = 0
        /\ slot' = 0 /\ queued' = FALSE /\ hand' = Nobody
    BY <1>1, <1>3, BroadcastTyped
  <2>2. tries' \in 0..(MaxRetries + 1) /\ tries' >= 1
    BY <1>1, <1>3, Times
  <2>3. 0 \in 0..TrustedCount
    BY Times
  <2> QED
    BY <2>1, <2>2, <2>3
<1> QED
  BY <1>2, <1>3 DEF NextTry

LEMMA NextChallengerTyped ==
  ASSUME Typed, spc # "pause", current' = current, NextChallenger
  PROVE  /\ spc' \in {"pause", "listen"} /\ hand' = Nobody
         /\ sclock' = 0 /\ left' = 0
         /\ slot' \in 0..TrustedCount /\ tries' \in 0..(MaxRetries + 1)
         /\ queued' \in BOOLEAN
         /\ heard' \in [Receivers -> Seq(1..MaxSends)]
         /\ spc' = "pause" \/ tries' >= 1
<1>1. CASE slot = TrustedCount /\ NextTry
  BY <1>1, NextTryTyped
<1>2. CASE slot < TrustedCount /\ UNCHANGED <<tries, queued, heard>>
           /\ slot' = slot + 1 /\ spc' = "listen" /\ sclock' = 0 /\ left' = 0
           /\ hand' = Nobody
  BY <1>2, Times DEF Typed, TypeOK
<1> QED
  BY <1>1, <1>2 DEF NextChallenger

LEMMA InitTyped == Init => Typed
<1> SUFFICES ASSUME Init
             PROVE  Typed
  OBVIOUS
<1>1. Gap \in Nat
  BY TimesAssumption
<1>2. << >> \in Seq(Waiting) /\ Len(<< >>) = 0 /\ << >> \in Seq(1..MaxSends)
  OBVIOUS
<1>3. heard \in [Receivers -> Seq(1..MaxSends)]
  BY <1>2 DEF Init
<1>4. backlog \in Seq(Waiting) /\ Len(backlog) <= TrustedCount
  BY <1>2, Times DEF Init
<1>5. /\ rclock \in [Receivers -> Nat] /\ budget \in [Receivers -> Nat]
      /\ event \in [Receivers -> 0..MaxSends]
      /\ left \in 0..Parts /\ (left > 0 <=> spc = "read")
      /\ rpc \in [Receivers -> {"event", "connect", "signature", "blink"}]
      /\ attended \in [Receivers -> BOOLEAN] /\ gaveUp \in [Receivers -> BOOLEAN]
  BY Times DEF Init
<1>6. /\ slot \in 0..TrustedCount /\ tries \in 0..(MaxRetries + 1)
      /\ {sclock, current, silent, since} \subseteq Nat /\ current <= MaxSends
  BY <1>1, Times DEF Init
<1> QED
  BY <1>3, <1>4, <1>5, <1>6 DEF Init, Typed, TypeOK

(* The connection that send() lets go of may end a receiver's recv().      *)
LEMMA ReceiversTyped ==
  ASSUME Typed, NEW c \in Waiting, CutOff(c)
  PROVE  /\ rpc' \in [Receivers -> {"event", "connect", "signature", "blink"}]
         /\ rclock' \in [Receivers -> Nat]
<1>1. /\ rpc \in [Receivers -> {"event", "connect", "signature", "blink"}]
      /\ rclock \in [Receivers -> Nat]
      /\ c.from \in Receivers
  BY DEF Typed, TypeOK, Waiting
<1>2. CASE c.live /\ spc' = "listen"
  <2>1. PICK next \in {"event", "connect"} : rpc' = [rpc EXCEPT ![c.from] = next]
    BY <1>2 DEF CutOff
  <2>2. rclock' = [rclock EXCEPT ![c.from] = 0]
    BY <1>2 DEF CutOff
  <2> QED
    BY <1>1, <2>1, <2>2
<1>3. CASE ~(c.live /\ spc' = "listen")
  BY <1>1, <1>3 DEF CutOff
<1> QED
  BY <1>2, <1>3

LEMMA NextTyped == Typed /\ [Next]_vars => Typed'
<1> SUFFICES ASSUME Typed, [Next]_vars
             PROVE  Typed'
  OBVIOUS
<1>1. CASE StartSend
  <2>1. current + 1 \in 1..MaxSends
    BY <1>1, Times DEF StartSend, Typed, TypeOK
  <2>2. /\ heard' \in [Receivers -> Seq(1..MaxSends)]
        /\ spc' = "listen" /\ sclock' = 0 /\ left' = 0
        /\ slot' = 0 /\ queued' = FALSE /\ hand' = Nobody
    BY <1>1, <2>1, BroadcastTyped DEF StartSend
  <2>3. tries' \in 0..(MaxRetries + 1) /\ tries' >= 1 /\ 0 \in 0..TrustedCount
    BY <1>1, Times DEF StartSend
  <2>4. current' \in 1..MaxSends /\ since' = 0
    BY <1>1, <2>1 DEF StartSend
  <2>5. UNCHANGED <<backlog, rpc, rclock, event, silent, budget, attended, gaveUp>>
    BY <1>1 DEF StartSend
  <2>6. /\ {sclock', current', silent', since'} \subseteq Nat
        /\ slot' \in 0..TrustedCount /\ current' <= MaxSends /\ current' >= 1
    BY <2>2, <2>3, <2>4, <2>5, Times DEF Typed, TypeOK
  <2>7. (spc' \in {"read", "sign"} <=> hand' # Nobody) /\ queued' \in BOOLEAN
    BY <2>2
  <2>8. left' \in 0..Parts /\ (left' > 0 <=> spc' = "read")
    BY <2>2, Times
  <2> QED
    BY <2>2, <2>3, <2>5, <2>6, <2>7, <2>8 DEF Typed, TypeOK
<1>2. CASE Accept
  <2>1. /\ Head(backlog) \in Waiting /\ Tail(backlog) \in Seq(Waiting)
        /\ Len(Tail(backlog)) <= TrustedCount
    BY <1>2, Times DEF Accept, Typed, TypeOK
  <2>2. left' \in 0..Parts /\ left' > 0 /\ spc' = "read" /\ Head(backlog) # Nobody
    BY <1>2, <2>1, Times, CostOf DEF Accept
  <2> QED
    BY <1>2, <2>1, <2>2 DEF Accept, receivers, Typed, TypeOK
<1>z. 0 \in 0..Parts /\ ~(0 > 0)
  BY Times
<1>3. CASE ListenEnds
  <2>1. CASE queued
    BY <1>3, <2>1, <1>z, NextChallengerTyped DEF ListenEnds, Typed, TypeOK
  <2>2. CASE ~queued
    BY <1>3, <2>2, <1>z, NextTryTyped DEF ListenEnds, Typed, TypeOK
  <2> QED
    BY <2>1, <2>2
<1>4. CASE Read
  <2>1. hand \in Waiting
    BY <1>4 DEF Read, Typed, TypeOK
  <2>2. CASE hand.event = current
    BY <1>4, <2>1, <2>2, <1>z DEF Read, Typed, TypeOK
  <2>3. CASE hand.event # current
    <3>1. /\ spc = "read" /\ NextChallenger /\ CutOff(hand)
          /\ UNCHANGED <<current, since, backlog, event, silent, budget, attended,
                         gaveUp>>
      BY <1>4, <2>3 DEF Read
    <3>2. /\ rpc' \in [Receivers -> {"event", "connect", "signature", "blink"}]
          /\ rclock' \in [Receivers -> Nat]
      BY <3>1, <2>1, ReceiversTyped
    <3>3. spc' \in {"pause", "listen"} /\ hand' = Nobody /\ sclock' = 0
         /\ left' = 0 /\ slot' \in 0..TrustedCount /\ tries' \in 0..(MaxRetries + 1)
         /\ queued' \in BOOLEAN
         /\ heard' \in [Receivers -> Seq(1..MaxSends)]
         /\ (spc' = "pause" \/ tries' >= 1)
      BY <3>1, NextChallengerTyped
    <3> QED
      BY <3>1, <3>2, <3>3, <1>z DEF Typed, TypeOK
  <2> QED
    BY <2>2, <2>3
<1>5. CASE ReadTimeout
  BY <1>5, <1>z, Times DEF ReadTimeout, Return, Typed, TypeOK
<1>6. CASE Answer
  <2>1. hand \in Waiting
    BY <1>6 DEF Answer, Typed, TypeOK
  <2>2. hand.from \in Receivers
    BY <2>1 DEF Waiting
  <2>3. /\ rpc' \in [Receivers -> {"event", "connect", "signature", "blink"}]
        /\ rclock' \in [Receivers -> Nat]
    BY <1>6, <2>2 DEF Answer, Typed, TypeOK
  <2>4. /\ spc = "sign" /\ NextChallenger
        /\ UNCHANGED <<current, since, backlog, event, silent, budget, attended,
                       gaveUp>>
    BY <1>6 DEF Answer
  <2>5. spc' \in {"pause", "listen"} /\ hand' = Nobody /\ sclock' = 0
       /\ left' = 0 /\ slot' \in 0..TrustedCount /\ tries' \in 0..(MaxRetries + 1)
       /\ queued' \in BOOLEAN
       /\ heard' \in [Receivers -> Seq(1..MaxSends)]
       /\ (spc' = "pause" \/ tries' >= 1)
    BY <2>4, NextChallengerTyped
  <2> QED
    BY <2>3, <2>4, <2>5 DEF Typed, TypeOK
<1>7. ASSUME NEW r \in Receivers, Hear(r)
      PROVE  Typed'
  <2>h. heard[r] \in Seq(1..MaxSends) /\ heard[r] # << >>
    BY <1>7 DEF Hear, Typed, TypeOK
  <2>1. /\ Head(heard[r]) \in 1..MaxSends
        /\ Tail(heard[r]) \in Seq(1..MaxSends)
    BY <2>h, HeadAndTail, Zenon
  <2>2. /\ event' \in [Receivers -> 0..MaxSends]
        /\ heard' \in [Receivers -> Seq(1..MaxSends)]
    BY <1>7, <2>1 DEF Hear, Typed, TypeOK
  <2>3. /\ rpc' \in [Receivers -> {"event", "connect", "signature", "blink"}]
        /\ rclock' \in [Receivers -> Nat]
    BY <1>7 DEF Hear, Typed, TypeOK
  <2>4. UNCHANGED <<sender, backlog, silent, budget, attended, gaveUp>>
    BY <1>7 DEF Hear
  <2> QED
    BY <2>2, <2>3, <2>4 DEF sender, Typed, TypeOK
<1>8. ASSUME NEW r \in Receivers, Connect(r)
      PROVE  Typed'
  <2>1. budget' \in [Receivers -> Nat]
    <3>1. backlog \in Seq(Waiting) /\ Len(backlog) \in Nat
      BY DEF Typed, TypeOK
    <3>2. Costs(backlog)[Len(backlog)] \in Nat
      BY <3>1, CostsDef
    <3>3. Cost(hand) \in Nat
      BY CostOf DEF Typed, TypeOK, Cost
    <3>4. \A a, b, c \in Nat : a + b + c \in Nat
      OBVIOUS
    <3>5. Cost(hand) + Costs(backlog)[Len(backlog)] + TurnTime \in Nat
      BY <3>2, <3>3, <3>4, CostOf, Zenon
    <3> QED
      BY <1>8, <3>5 DEF Connect, Typed, TypeOK
  <2>2. backlog' \in Seq(Waiting) /\ Len(backlog') <= TrustedCount
    <3>1. backlog \in Seq(Waiting) /\ Len(backlog) < TrustedCount
      BY <1>8 DEF Connect, Room, Typed, TypeOK
    <3>2. [from |-> r, event |-> event[r], live |-> ~FALSE, mute |-> FALSE]
            \in Waiting
      BY DEF Waiting, Typed, TypeOK
    <3>3. Len(backlog') = Len(backlog) + 1 /\ backlog' \in Seq(Waiting)
      BY <1>8, <3>1, <3>2 DEF Connect, Join
    <3> QED
      BY <3>1, <3>3, Times
  <2> QED
    BY <1>8, <2>1, <2>2 DEF Connect, sender, Typed, TypeOK
<1>9. ASSUME NEW r \in Receivers, FallSilent(r)
      PROVE  Typed'
  BY <1>9, Times DEF FallSilent, Join, Room, Waiting, sender, Typed, TypeOK
<1>10. ASSUME NEW r \in Receivers, ConnectGivesUp(r)
       PROVE  Typed'
  BY <1>10 DEF ConnectGivesUp, sender, Typed, TypeOK
<1>11. ASSUME NEW r \in Receivers, GiveUp(r)
       PROVE  Typed'
  <2>1. \A c \in Waiting \cup {Nobody} :
          /\ Forget(c, r) \in Waiting \cup {Nobody}
          /\ Forget(c, r) = Nobody <=> c = Nobody
    BY CostOf DEF Forget, Waiting
  <2>2. backlog' \in Seq(Waiting) /\ Len(backlog') = Len(backlog)
    <3>1. backlog \in Seq(Waiting)
      BY DEF Typed, TypeOK
    <3>2. \A i \in 1..Len(backlog) : Forget(backlog[i], r) \in Waiting
      BY <3>1, <2>1, CostOf
    <3> QED
      BY <1>11, <3>1, <3>2 DEF GiveUp
  <2>3. /\ hand' \in Waiting \cup {Nobody}
        /\ hand' = Nobody <=> hand = Nobody
    BY <1>11, <2>1 DEF GiveUp, Typed, TypeOK
  <2> QED
    BY <1>11, <2>2, <2>3 DEF GiveUp, Typed, TypeOK
<1>12. ASSUME NEW r \in Receivers, BlinkEnds(r)
       PROVE  Typed'
  BY <1>12 DEF BlinkEnds, sender, Typed, TypeOK
<1>13. CASE Tick
  BY <1>13 DEF Tick, Typed, TypeOK
<1>14. CASE UNCHANGED vars
  BY <1>14 DEF vars, sender, receivers, Typed, TypeOK
<1>15. CASE ReadPart
  BY <1>15, Times DEF ReadPart, receivers, Typed, TypeOK
<1> QED
  BY <1>1, <1>2, <1>3, <1>4, <1>5, <1>6, <1>7, <1>8, <1>9, <1>10, <1>11,
     <1>12, <1>13, <1>14, <1>15 DEF Next

(* The types hold, whatever the constants.                                 *)
THEOREM TypeCorrect == Spec => []TypeOK
<1>1. Init => Typed
  BY InitTyped
<1>2. Typed /\ [Next]_vars => Typed'
  BY NextTyped
<1>3. Typed => TypeOK
  BY DEF Typed
<1> QED
  BY <1>1, <1>2, <1>3, PTL DEF Spec

-----------------------------------------------------------------------------
(* How long send() takes                                                   *)

(* What the connection in m_challenge_socket may still cost is no less     *)
(* than nothing, and no more than it did at first.                         *)
LEMMA Ahead ==
  ASSUME Typed, InTime
  PROVE  /\ Remaining \in Nat /\ Cost(hand) \in Nat /\ Remaining <= Cost(hand)
         /\ hand = Nobody => Remaining = 0
<1>1. sclock \in Nat /\ left \in Nat /\ left <= Parts /\ (left > 0 <=> spc = "read")
  BY Times DEF Typed, TypeOK
<1>2. CASE hand = Nobody
  BY <1>2 DEF Remaining, Cost
<1>3. CASE hand # Nobody
  <2>1. hand \in Waiting /\ spc \in {"read", "sign"} /\ hand.mute \in BOOLEAN
    BY <1>3 DEF Typed, TypeOK, Waiting
  <2>2. PICK recv \in Nat, all \in Nat, missing \in Nat :
          /\ recv = RecvTime(hand)
          /\ all = Parts * RecvTime(hand) /\ missing = left * RecvTime(hand)
          /\ missing <= all
          /\ spc = "read" => recv <= missing
          /\ spc = "sign" => missing = 0
    <3>1. RecvTime(hand) \in Nat
      BY <2>1, CostOf, Zenon
    <3>2. /\ Parts * RecvTime(hand) \in Nat /\ left * RecvTime(hand) \in Nat
          /\ left * RecvTime(hand) <= Parts * RecvTime(hand)
      BY <3>1, <1>1, Times, Multiples, Zenon
    <3>3. ASSUME spc = "read"
          PROVE  RecvTime(hand) <= left * RecvTime(hand)
      <4>1. 1 <= left /\ 1 \in Nat
        BY <3>3, <1>1
      <4>2. 1 * RecvTime(hand) <= left * RecvTime(hand)
        BY <4>1, <3>1, <1>1, Multiples, Zenon
      <4> QED
        BY <4>2, <3>1
    <3>4. ASSUME spc = "sign"
          PROVE  left * RecvTime(hand) = 0
      <4>1. left = 0
        BY <3>4, <1>1
      <4> QED
        BY <4>1, <3>1
    <3> QED
      BY <3>1, <3>2, <3>3, <3>4, Zenon
  <2>3. PICK service \in Nat : service = IF hand.mute THEN 0 ELSE Service
    BY <2>1, Times
  <2>4. Remaining = missing + service - sclock
    BY <2>2, <2>3, <1>3, Zenon DEF Remaining
  <2>5. Cost(hand) = all + service
    BY <2>1, <2>2, <2>3, CostOf, Zenon
  <2>6. /\ spc = "read" => sclock <= recv
        /\ spc = "sign" => sclock <= service
    BY <2>2, <2>3 DEF InTime
  <2> QED
    BY <1>1, <1>3, <2>1, <2>2, <2>4, <2>5, <2>6
<1> QED
  BY <1>2, <1>3

(* A connection just taken still costs all that it does.                   *)
LEMMA WholeRemains ==
  ASSUME hand' \in Waiting, left' = Parts, sclock' = 0
  PROVE  Remaining' = Cost(hand')
<1>1. PICK recv \in Nat, all \in Nat, service \in Nat, cost \in Nat :
        /\ recv = RecvTime(hand') /\ cost = Cost(hand')
        /\ all = Parts * recv
        /\ service = IF hand'.mute THEN 0 ELSE Service
  <2>1. RecvTime(hand') \in Nat /\ Cost(hand') \in Nat
    BY CostOf, Zenon
  <2>2. Parts * RecvTime(hand') \in Nat
    BY <2>1, Times, Multiples, Zenon
  <2>3. (IF hand'.mute THEN 0 ELSE Service) \in Nat
    BY Times
  <2> QED
    BY <2>1, <2>2, <2>3, Zenon
<1>2. cost = all + service
  BY <1>1, CostOf, Zenon
<1>3. hand' # Nobody
  BY CostOf, Zenon
<1>4. Remaining' = Parts * recv + service - 0
  BY <1>1, <1>3, Zenon DEF Remaining, RecvTime
<1>5. Remaining' = all + service - 0
  BY <1>1, <1>4, Zenon
<1> QED
  BY <1>1, <1>2, <1>5

(* A challenge of which a piece arrives costs no more than before, and one *)
(* that is complete its signature.                                         *)
LEMMA LessRemains ==
  ASSUME Typed, InTime, spc = "read", hand' = hand, sclock' = 0,
         \/ left > 1 /\ left' = left - 1
         \/ left' = 0 /\ ~hand.mute
  PROVE  Remaining' \in Nat /\ Remaining' <= Remaining
<1>1. /\ sclock \in Nat /\ left \in Nat /\ left >= 1
      /\ hand \in Waiting /\ hand # Nobody /\ hand.mute \in BOOLEAN
  BY Times DEF Typed, TypeOK, Waiting
<1>2. PICK recv \in Nat : recv = RecvTime(hand)
  BY <1>1, CostOf, Zenon
<1>3. PICK rest \in Nat : rest = (left - 1) * recv /\ left * recv = rest + recv
  <2>1. left - 1 \in Nat /\ (left - 1) + 1 = left
    BY <1>1
  <2>2. (left - 1) * recv \in Nat /\ ((left - 1) + 1) * recv = (left - 1) * recv + recv
    BY <2>1, Multiples
  <2> QED
    BY <2>1, <2>2, Zenon
<1>4. PICK service \in Nat : service = IF hand.mute THEN 0 ELSE Service
  BY <1>1, Times
<1>5. /\ Remaining = left * recv + service - sclock
      /\ Remaining' = left' * recv + service - 0
  BY <1>1, <1>2, <1>4, Zenon DEF Remaining, RecvTime
<1>6. sclock <= recv
  BY <1>2 DEF InTime
<1>7. CASE left > 1 /\ left' = left - 1
  <2>1. Remaining = (rest + recv) + service - sclock /\ Remaining' = rest + service - 0
    BY <1>3, <1>5, <1>7, Zenon
  <2> QED
    BY <2>1, <1>1, <1>6
<1>8. CASE left' = 0 /\ ~hand.mute
  <2>1. Remaining = (rest + recv) + service - sclock /\ Remaining' = 0 * recv + service - 0
    BY <1>3, <1>5, <1>8, Zenon
  <2>2. 0 * recv = 0
    BY <1>2
  <2> QED
    BY <2>1, <2>2, <1>1, <1>6
<1> QED
  BY <1>7, <1>8

(* The last step is no shorter than what any connection costs.             *)
LEMMA LastStepOf ==
  /\ LastStep \in Nat /\ LastStep >= TurnTime
  /\ \A c \in Waiting : Cost(c) <= LastStep
<1>1. PICK all \in Nat, turn \in Nat : all = Parts * CommTimeout /\ turn = TurnTime
  BY Times, Multiples, CostOf
<1>2. LastStep = IF all > turn THEN all ELSE turn
  BY <1>1, Zenon DEF LastStep
<1>3. ASSUME NEW c \in Waiting
      PROVE  Cost(c) <= LastStep
  <2>1. PICK cost \in Nat : cost = Cost(c) /\ (~c.mute => cost = turn)
    BY <1>1, CostOf, Zenon
  <2>2. c.mute \in BOOLEAN
    BY DEF Waiting
  <2>3. CASE c.mute
    <3>1. RecvTime(c) = CommTimeout
      BY <2>3 DEF RecvTime
    <3>2. cost = all + 0
      BY <3>1, <2>1, <2>3, <1>1, CostOf, Zenon
    <3> QED
      BY <3>2, <2>1, <1>2
  <2> QED
    BY <2>1, <2>2, <2>3, <1>2
<1> QED
  BY <1>1, <1>2, <1>3

LEMMA TickRemaining ==
  ASSUME Typed, spc \in {"read", "sign"}, UNCHANGED <<left, hand>>,
         sclock' = sclock + 1
  PROVE  Remaining' = Remaining - 1
<1>1. hand \in Waiting /\ hand # Nobody /\ sclock \in Nat /\ left \in Nat
  BY Times DEF Typed, TypeOK
<1>2. PICK recv \in Nat : recv = RecvTime(hand)
  BY <1>1, CostOf, Zenon
<1>3. PICK service \in Nat : service = IF hand.mute THEN 0 ELSE Service
  <2>1. (IF hand.mute THEN 0 ELSE Service) \in Nat
    BY Times
  <2> QED
    BY <2>1
<1>4. PICK missing \in Nat : missing = left * recv
  BY <1>1, Multiples
<1>5. /\ Remaining = left * recv + service - sclock
      /\ Remaining' = left * recv + service - sclock'
  BY <1>1, <1>2, <1>3, Zenon DEF Remaining, RecvTime
<1>6. Remaining = missing + service - sclock /\ Remaining' = missing + service - sclock'
  BY <1>4, <1>5, Zenon
<1> QED
  BY <1>1, <1>6

(* What the configuration allows is a number, and grows with the slot to   *)
(* no more than a try.                                                     *)
LEMMA Allowance ==
  ASSUME Typed, spc # "pause"
  PROVE  \E before \in Nat, slots \in Nat, all \in Nat :
           /\ before = (MaxRetries + 1 - tries) * TryTime
           /\ slots = slot * SlotTime
           /\ all = TrustedCount * SlotTime
           /\ slots <= all
           /\ Allowed = before + InitialListen + slots
           /\ SlotTime = QueuedListen + TurnTime
           /\ TryTime = InitialListen + TurnTime + all
           /\ (slot + 1) * SlotTime = slots + SlotTime
           /\ (MaxRetries + 1 - (tries - 1)) * TryTime = before + TryTime
           /\ LastStep \in Nat /\ LastStep >= TurnTime
<1>1. /\ slot \in Nat /\ slot <= TrustedCount /\ MaxRetries + 1 - tries \in Nat
      /\ MaxRetries + 1 - (tries - 1) = (MaxRetries + 1 - tries) + 1
  BY Times DEF Typed, TypeOK
<1>2. SlotTime \in Nat /\ SlotTime = QueuedListen + TurnTime
  BY CostOf, Times DEF SlotTime
<1>3. /\ TrustedCount * SlotTime \in Nat /\ slot * SlotTime \in Nat
      /\ slot * SlotTime <= TrustedCount * SlotTime
      /\ (slot + 1) * SlotTime = slot * SlotTime + SlotTime
  <2>1. TrustedCount \in Nat
    BY Times
  <2> QED
    BY <2>1, <1>1, <1>2, Multiples, Zenon
<1>4. TryTime \in Nat /\ TryTime = InitialListen + TurnTime + TrustedCount * SlotTime
  <2>1. InitialListen \in Nat /\ TurnTime \in Nat
    BY Times, CostOf
  <2>2. \A a, b, c \in Nat : a + b + c \in Nat
    OBVIOUS
  <2> QED
    BY <1>3, <2>1, <2>2, Zenon DEF TryTime
<1>5. /\ (MaxRetries + 1 - tries) * TryTime \in Nat
      /\ (MaxRetries + 1 - (tries - 1)) * TryTime
           = (MaxRetries + 1 - tries) * TryTime + TryTime
  BY <1>1, <1>4, Multiples, Zenon
<1>6. LastStep \in Nat /\ LastStep >= TurnTime
  BY LastStepOf
<1> QED
  BY <1>2, <1>3, <1>4, <1>5, <1>6, Zenon DEF Allowed

(* A send() that is at most one step beyond what is allowed may return.    *)
LEMMA MayReturn ==
  ASSUME Typed, spc # "pause", since <= Allowed + LastStep
  PROVE  SendTakesAtMost
<1>1. PICK before \in Nat, slots \in Nat, all \in Nat :
        /\ before = (MaxRetries + 1 - tries) * TryTime
        /\ all = TrustedCount * SlotTime
        /\ slots <= all
        /\ Allowed = before + InitialListen + slots
        /\ SlotTime = QueuedListen + TurnTime
        /\ TryTime = InitialListen + TurnTime + all
        /\ LastStep \in Nat
  BY Allowance, Zenon
<1>2. PICK most \in Nat : most = MaxRetries * TryTime /\ before <= most
  <2>1. /\ MaxRetries + 1 - tries \in Nat /\ MaxRetries + 1 - tries <= MaxRetries
        /\ MaxRetries \in Nat
    BY Times DEF Typed, TypeOK
  <2>2. TryTime \in Nat
    <3>1. TurnTime \in Nat
      BY CostOf, Zenon
    <3> QED
      BY <1>1, <3>1, Times
  <2>3. (MaxRetries + 1 - tries) * TryTime <= MaxRetries * TryTime
    BY <2>1, <2>2, Multiples, Zenon
  <2>4. MaxRetries * TryTime \in Nat
    BY <2>1, <2>2, Multiples, Zenon
  <2> QED
    BY <2>3, <2>4, <1>1, Zenon
<1>3. SendTakesAtMost <=>
        since <= most + InitialListen + all + LastStep
  BY <1>1, <1>2, Zenon DEF SendTakesAtMost, LastStep, TryTime, SlotTime
<1>4. since \in Nat
  BY DEF Typed, TypeOK
<1> QED
  BY <1>1, <1>2, <1>3, <1>4, Times

LEMMA ReturnSpent ==
  ASSUME Typed, spc # "pause", since <= Allowed + LastStep, since' = since, Return
  PROVE  InTime' /\ Spent'
<1>1. SendTakesAtMost'
  BY MayReturn DEF SendTakesAtMost
<1> QED
  BY <1>1 DEF Return, InTime, Spent

(* The event is sent again with the whole initial timeout ahead.           *)
LEMMA BroadcastSpent ==
  ASSUME NEW n \in Nat, Broadcast(n), NEW before \in Nat,
         since' \in Nat, since' <= before,
         before = (MaxRetries + 1 - tries') * TryTime
  PROVE  InTime' /\ Spent'
<1>1. /\ spc' = "listen" /\ sclock' = 0 /\ slot' = 0 /\ ~queued'
      /\ ListenTimeout' = InitialListen
  BY DEF Broadcast, ListenTimeout
<1>2. Allowed' = before + InitialListen + 0 * SlotTime
  BY <1>1, Zenon DEF Allowed, TryTime, SlotTime
<1>3. 0 * SlotTime = 0
  BY Times, CostOf DEF SlotTime
<1> QED
  BY <1>1, <1>2, <1>3, Times DEF InTime, Spent

LEMMA NextTrySpent ==
  ASSUME Typed, spc # "pause", since <= Allowed + TurnTime, since' = since, NextTry
  PROVE  InTime' /\ Spent'
<1>1. PICK before \in Nat, slots \in Nat, all \in Nat :
        /\ slots <= all
        /\ Allowed = before + InitialListen + slots
        /\ SlotTime = QueuedListen + TurnTime
        /\ TryTime = InitialListen + TurnTime + all
        /\ (MaxRetries + 1 - (tries - 1)) * TryTime = before + TryTime
        /\ LastStep \in Nat /\ LastStep >= TurnTime
  BY Allowance, Zenon
<1>2. since \in Nat /\ current \in Nat /\ TurnTime \in Nat
  BY CostOf DEF Typed, TypeOK
<1>3. CASE tries = 1 /\ Return
  <2>1. since <= Allowed + LastStep
    BY <1>1, <1>2, Times
  <2> QED
    BY <2>1, <1>3, ReturnSpent
<1>4. CASE tries > 1 /\ tries' = tries - 1 /\ Broadcast(current)
  <2>1. PICK next \in Nat : next = before + TryTime
    BY <1>1, <1>2, Times
  <2>2. since' <= next /\ since' \in Nat
    BY <2>1, <1>1, <1>2, Times
  <2>3. next = (MaxRetries + 1 - tries') * TryTime
    BY <2>1, <1>1, <1>4, Zenon
  <2> QED
    BY <2>2, <2>3, <1>2, <1>4, BroadcastSpent, Zenon
<1> QED
  BY <1>3, <1>4 DEF NextTry

(* A slot that ends within the time of signing leaves the next its own.    *)
LEMMA NextChallengerSpent ==
  ASSUME Typed, spc # "pause", queued, since <= Allowed + TurnTime, since' = since,
         NextChallenger
  PROVE  InTime' /\ Spent'
<1>1. CASE slot = TrustedCount /\ NextTry
  BY <1>1, NextTrySpent
<1>2. CASE slot < TrustedCount /\ UNCHANGED <<tries, queued, heard>>
           /\ slot' = slot + 1 /\ spc' = "listen" /\ sclock' = 0 /\ left' = 0
           /\ hand' = Nobody
  <2>1. PICK before \in Nat, slots \in Nat, all \in Nat :
          /\ before = (MaxRetries + 1 - tries) * TryTime
          /\ Allowed = before + InitialListen + slots
          /\ SlotTime = QueuedListen + TurnTime
          /\ (slot + 1) * SlotTime = slots + SlotTime
    BY Allowance
  <2>2. Allowed' = before + InitialListen + (slots + SlotTime)
    <3>1. Allowed' = (MaxRetries + 1 - tries) * TryTime + InitialListen
                     + (slot + 1) * SlotTime
      BY <1>2, Zenon DEF Allowed, TryTime, SlotTime
    <3> QED
      BY <3>1, <2>1, Zenon
  <2>3. ListenTimeout' = QueuedListen /\ queued' /\ slot' > 0
    BY <1>2, Times DEF ListenTimeout, Typed, TypeOK
  <2>4. since \in Nat /\ TurnTime \in Nat
    BY CostOf DEF Typed, TypeOK
  <2>5. since' + ListenTimeout' <= Allowed' + sclock'
    BY <1>2, <2>1, <2>2, <2>3, <2>4, Times
  <2> QED
    BY <1>2, <2>3, <2>5, Times DEF InTime, Spent
<1> QED
  BY <1>1, <1>2 DEF NextChallenger

LEMMA InitSend == Init => InTime /\ Spent
<1> SUFFICES ASSUME Init
             PROVE  InTime /\ Spent
  OBVIOUS
<1>1. PICK slotTime \in Nat : slotTime = QueuedListen + TurnTime
  BY Times, CostOf
<1>2. PICK all \in Nat : all = TrustedCount * slotTime
  BY <1>1, Times, Multiples
<1>3. PICK tryTime \in Nat : tryTime = InitialListen + TurnTime + all
  BY <1>2, Times, CostOf
<1>4. PICK most \in Nat : most = MaxRetries * tryTime
  BY <1>3, Times, Multiples
<1>5. SendTakesAtMost <=> 0 <= most + InitialListen + all + LastStep
  BY <1>1, <1>2, <1>3, <1>4, Zenon DEF Init, SendTakesAtMost, LastStep
<1>6. LastStep \in Nat
  BY LastStepOf
<1> QED
  BY <1>2, <1>4, <1>5, <1>6, Times DEF Init, InTime, Spent

(* A step that leaves the sender alone, but for who is still listening.    *)
LEMMA SenderStays ==
  ASSUME Typed, InTime, Spent,
         UNCHANGED <<spc, sclock, left, tries, slot, queued, since>>,
         hand' = Nobody <=> hand = Nobody,
         hand # Nobody => hand'.mute = hand.mute
  PROVE  InTime' /\ Spent'
<1>1. /\ Allowed' = Allowed /\ ListenTimeout' = ListenTimeout
      /\ SendTakesAtMost' = SendTakesAtMost
  BY Zenon DEF Allowed, TryTime, SlotTime, ListenTimeout, SendTakesAtMost
<1>2. hand # Nobody => RecvTime(hand') = RecvTime(hand)
  BY DEF RecvTime
<1>3. Remaining' = Remaining /\ Cost(hand)' = Cost(hand)
  BY <1>2, Zenon DEF Remaining, Cost, RecvTime
<1>4. spc \in {"read", "sign"} => hand # Nobody
  BY DEF Typed, TypeOK
<1>5. InTime'
  BY <1>1, <1>2, <1>4 DEF InTime, RecvTime
<1> QED
  BY <1>1, <1>3, <1>5 DEF Spent

LEMMA NextSend == SendInv /\ [Next]_vars => InTime' /\ Spent'
<1> SUFFICES ASSUME Typed, InTime, Spent, [Next]_vars
             PROVE  InTime' /\ Spent'
  BY DEF SendInv
<1>t. /\ since \in Nat /\ sclock \in Nat /\ queued \in BOOLEAN
      /\ hand \in Waiting \cup {Nobody}
      /\ spc \in {"read", "sign"} => hand \in Waiting /\ hand.mute \in BOOLEAN
  BY DEF Typed, TypeOK, Waiting
<1>a. spc # "pause" => Allowed \in Nat
  <2> SUFFICES ASSUME spc # "pause"
               PROVE  Allowed \in Nat
    OBVIOUS
  <2>1. PICK before \in Nat, slots \in Nat :
          Allowed = before + InitialListen + slots
    BY Allowance, Zenon
  <2> QED
    BY <2>1, Times
<1>c. /\ Remaining \in Nat /\ Cost(hand) \in Nat /\ Remaining <= Cost(hand)
      /\ TurnTime \in Nat
      /\ hand \in Waiting => Cost(hand) <= LastStep
      /\ hand \in Waiting /\ ~hand.mute => Cost(hand) = TurnTime
  BY Ahead, CostOf, LastStepOf, Zenon
<1>l. LastStep \in Nat
  BY LastStepOf
(* A challenge that is complete, or signed, has cost no more than a turn.  *)
<1>d. ASSUME spc \in {"read", "sign"}, ~hand.mute
      PROVE  since <= Allowed + TurnTime
  <2>1. since + Remaining <= Allowed + TurnTime
    BY <1>c, <1>d, <1>t DEF Spent
  <2> QED
    BY <2>1, <1>a, <1>c, <1>d, <1>t
<1>1. CASE StartSend
  <2>1. current + 1 \in Nat /\ Broadcast(current + 1) /\ since' = 0
        /\ tries' = MaxRetries + 1
    BY <1>1 DEF StartSend, Typed, TypeOK
  <2>2. (MaxRetries + 1 - tries') * TryTime = 0
    <3>1. TrustedCount * SlotTime \in Nat
      BY <1>c, Times, Multiples DEF SlotTime
    <3>2. TryTime \in Nat
      BY <3>1, <1>c, Times DEF TryTime
    <3> QED
      BY <3>2, <2>1, Times
  <2> QED
    BY <2>1, <2>2, BroadcastSpent
<1>2. CASE Accept
  <2>1. /\ Head(backlog) \in Waiting /\ hand' = Head(backlog)
        /\ spc = "listen" /\ spc' = "read" /\ sclock' = 0 /\ left' = Parts
        /\ queued' /\ UNCHANGED <<tries, slot, since>>
    BY <1>2 DEF Accept, Typed, TypeOK
  <2>2. Allowed' = Allowed
    BY <2>1, Zenon DEF Allowed, TryTime, SlotTime
  <2>3. since <= Allowed
    <3>1. since + ListenTimeout <= Allowed + sclock /\ sclock <= ListenTimeout
      BY <2>1 DEF Spent, InTime
    <3>2. ListenTimeout \in Nat
      BY Times DEF ListenTimeout
    <3> QED
      BY <3>1, <3>2, <1>t, <1>a, <2>1
  <2>4. PICK recv \in Nat, cost \in Nat :
          recv = RecvTime(hand') /\ cost = Cost(hand') /\ cost = Remaining'
    BY <2>1, CostOf, WholeRemains, Zenon
  <2>5. since' + Remaining' <= Allowed' + Cost(hand')
    BY <2>1, <2>2, <2>3, <2>4, <1>a, <1>t
  <2>6. sclock' <= RecvTime(hand')
    BY <2>1, <2>4
  <2>7. Cost(hand)' = Cost(hand') /\ RecvTime(hand)' = RecvTime(hand')
    BY Zenon DEF Cost, RecvTime
  <2>8. InTime'
    BY <2>1, <2>6, <2>7 DEF InTime
  <2> QED
    BY <2>1, <2>5, <2>7, <2>8 DEF Spent
<1>3. CASE ListenEnds
  <2>1. /\ spc = "listen" /\ sclock = ListenTimeout /\ since' = since
    BY <1>3 DEF ListenEnds
  <2>2. since <= Allowed + TurnTime
    <3>1. since + ListenTimeout <= Allowed + ListenTimeout
      BY <2>1 DEF Spent
    <3>2. ListenTimeout \in Nat
      BY Times DEF ListenTimeout
    <3> QED
      BY <3>1, <3>2, <1>t, <1>a, <1>c, <2>1
  <2>3. CASE queued
    BY <1>3, <2>1, <2>2, <2>3, NextChallengerSpent DEF ListenEnds
  <2>4. CASE ~queued
    BY <1>3, <2>1, <2>2, <2>4, NextTrySpent DEF ListenEnds
  <2> QED
    BY <2>3, <2>4
<1>4. CASE Read
  <2>1. /\ spc = "read" /\ ~hand.mute /\ queued /\ since' = since
    BY <1>4, <1>t DEF Read, InTime
  <2>2. CASE /\ spc' = "sign" /\ sclock' = 0 /\ left' = 0
             /\ UNCHANGED <<tries, slot, queued, hand>>
    <3>1. Remaining' \in Nat /\ Remaining' <= Remaining
      BY <2>1, <2>2, LessRemains
    <3>2. Allowed' = Allowed /\ Cost(hand)' = Cost(hand)
      BY <2>2, Zenon DEF Allowed, TryTime, SlotTime, Cost, RecvTime
    <3>3. since' + Remaining' <= Allowed' + Cost(hand)'
      BY <2>1, <2>2, <3>1, <3>2, <1>a, <1>c, <1>t DEF Spent
    <3> QED
      BY <2>1, <2>2, <3>3, Times DEF InTime, Spent
  <2>3. CASE NextChallenger
    <3>1. since <= Allowed + TurnTime
      BY <2>1, <1>d
    <3> QED
      BY <2>1, <2>3, <3>1, NextChallengerSpent
  <2> QED
    BY <1>4, <2>2, <2>3 DEF Read
<1>5. CASE ReadTimeout
  <2>1. /\ spc = "read" /\ since' = since /\ Return
    BY <1>5 DEF ReadTimeout
  <2>2. since <= Allowed + LastStep
    <3>1. since + Remaining <= Allowed + Cost(hand) /\ Cost(hand) <= LastStep
      BY <2>1, <1>c, <1>t DEF Spent
    <3> QED
      BY <3>1, <2>1, <1>a, <1>c, <1>l, <1>t
  <2> QED
    BY <2>1, <2>2, ReturnSpent
<1>6. CASE Answer
  <2>1. /\ spc = "sign" /\ queued /\ ~hand.mute /\ since' = since
    BY <1>6 DEF Answer, InTime
  <2>2. since <= Allowed + TurnTime
    BY <2>1, <1>d
  <2> QED
    BY <1>6, <2>1, <2>2, NextChallengerSpent DEF Answer
<1>11. CASE ReadPart
  <2>1. /\ spc = "read" /\ left > 1 /\ left' = left - 1 /\ sclock' = 0
        /\ UNCHANGED <<spc, tries, slot, queued, hand, since>>
    BY <1>11 DEF ReadPart
  <2>2. Remaining' \in Nat /\ Remaining' <= Remaining
    BY <2>1, LessRemains
  <2>3. /\ Allowed' = Allowed /\ Cost(hand)' = Cost(hand)
        /\ RecvTime(hand)' = RecvTime(hand)
    BY <2>1, Zenon DEF Allowed, TryTime, SlotTime, Cost, RecvTime
  <2>4. since' + Remaining' <= Allowed' + Cost(hand)'
    BY <2>1, <2>2, <2>3, <1>a, <1>c, <1>t DEF Spent
  <2>5. sclock' <= RecvTime(hand)'
    BY <2>1, <2>3, <1>t, CostOf
  <2> QED
    BY <2>1, <2>4, <2>5 DEF InTime, Spent
<1>7. ASSUME NEW r \in Receivers,
             Hear(r) \/ Connect(r) \/ FallSilent(r) \/ ConnectGivesUp(r)
               \/ BlinkEnds(r)
      PROVE  InTime' /\ Spent'
  BY <1>7, SenderStays
     DEF Hear, Connect, FallSilent, ConnectGivesUp, BlinkEnds, sender
<1>8. ASSUME NEW r \in Receivers, GiveUp(r)
      PROVE  InTime' /\ Spent'
  <2>1. /\ hand' = Nobody <=> hand = Nobody
        /\ hand # Nobody => hand'.mute = hand.mute
    BY <1>8, <1>t, CostOf DEF GiveUp, Forget, Waiting
  <2> QED
    BY <1>8, <2>1, SenderStays DEF GiveUp
<1>9. CASE Tick
  <2>t. UNCHANGED <<spc, left, tries, slot, queued, hand>>
    BY <1>9 DEF Tick
  <2>1. /\ UNCHANGED <<spc, left, tries, slot, queued, hand>>
        /\ Allowed' = Allowed /\ ListenTimeout' = ListenTimeout
        /\ Cost(hand)' = Cost(hand) /\ RecvTime(hand)' = RecvTime(hand)
    BY <2>t, Zenon
       DEF Allowed, TryTime, SlotTime, ListenTimeout, Cost, RecvTime
  <2>2. CASE spc = "pause"
    <3>1. since' = since
      BY <1>9, <2>2 DEF Tick
    <3>2. SendTakesAtMost'
      BY <3>1, <2>2 DEF Spent, SendTakesAtMost
    <3> QED
      BY <2>1, <2>2, <3>2 DEF InTime, Spent
  <2>3. CASE spc # "pause"
    <3>1. since' = since + 1 /\ sclock' = sclock + 1 /\ SenderMayWait
      BY <1>9, <2>3 DEF Tick
    <3>2. ListenTimeout \in Nat
      BY Times DEF ListenTimeout
    <3>3. CASE spc = "listen"
      <4>1. sclock < ListenTimeout
        BY <3>1, <3>3 DEF SenderMayWait
      <4> QED
        BY <2>1, <3>1, <3>2, <3>3, <4>1, <1>t, <1>a DEF InTime, Spent
    <3>4. CASE spc \in {"read", "sign"}
      <4>1. hand # Nobody
        BY <3>4 DEF Typed, TypeOK
      <4>2. Remaining' = Remaining - 1
        BY <2>1, <3>1, <3>4, TickRemaining
      <4>3. since' + Remaining' <= Allowed' + Cost(hand)'
        BY <2>1, <3>1, <3>4, <4>2, <1>a, <1>c, <1>t DEF Spent
      <4>4. spc = "read" => sclock' <= RecvTime(hand)'
        <5>1. hand \in Waiting => RecvTime(hand) \in Nat
          BY CostOf
        <5> QED
          BY <2>1, <3>1, <5>1, <1>t DEF SenderMayWait
      <4>5. spc = "sign" => sclock' <= Service
        BY <3>1, <1>t, Times DEF SenderMayWait
      <4> QED
        BY <2>1, <3>4, <4>3, <4>4, <4>5 DEF InTime, Spent
    <3> QED
      BY <2>3, <3>3, <3>4 DEF Typed, TypeOK
  <2> QED
    BY <2>2, <2>3
<1>10. CASE UNCHANGED vars
  BY <1>10, SenderStays DEF vars, sender
<1> QED
  BY <1>1, <1>2, <1>3, <1>4, <1>5, <1>6, <1>7, <1>8, <1>9, <1>10, <1>11 DEF Next

(* send() returns in time, whoever calls, sends its challenge late and in  *)
(* pieces, or falls silent: each slot may take CommTimeout for every piece.*)
THEOREM SendReturnsInTime == Spec => []SendTakesAtMost
<1>1. Init => SendInv
  BY InitTyped, InitSend DEF SendInv
<1>2. SendInv /\ [Next]_vars => SendInv'
  BY NextTyped, NextSend DEF SendInv
<1>3. SendInv => SendTakesAtMost
  <2> SUFFICES ASSUME Typed, InTime, Spent
               PROVE  SendTakesAtMost
    BY DEF SendInv
  <2>1. CASE spc = "pause"
    BY <2>1 DEF Spent
  <2>2. CASE spc # "pause"
    <3>1. PICK before \in Nat, slots \in Nat :
            Allowed = before + InitialListen + slots
      BY <2>2, Allowance, Zenon
    <3>2. /\ since \in Nat /\ sclock \in Nat /\ Allowed \in Nat /\ LastStep \in Nat
          /\ ListenTimeout \in Nat /\ spc \in {"listen", "read", "sign"}
      BY <2>2, <3>1, Times, LastStepOf DEF ListenTimeout, Typed, TypeOK
    <3>3. CASE spc = "listen"
      BY <3>2, <3>3, <2>2, MayReturn DEF InTime, Spent
    <3>4. CASE spc \in {"read", "sign"}
      <4>1. hand \in Waiting
        BY <3>4 DEF Typed, TypeOK
      <4>2. /\ Remaining \in Nat /\ Cost(hand) \in Nat /\ Cost(hand) <= LastStep
            /\ since + Remaining <= Allowed + Cost(hand)
        BY <3>4, <4>1, Ahead, LastStepOf DEF Spent
      <4>3. since <= Allowed + LastStep
        BY <3>2, <4>2
      <4> QED
        BY <2>2, <4>3, MayReturn
    <3> QED
      BY <3>2, <3>3, <3>4
  <2> QED
    BY <2>1, <2>2
<1> QED
  BY <1>1, <1>2, <1>3, PTL DEF Spec

-----------------------------------------------------------------------------
(* The events and the connections                                          *)

LEMMA NumbersAreNatural ==
  ASSUME NEW m \in Nat, NEW q \in Seq(1..m)
  PROVE  q \in Seq(Nat)
<1>1. \A i \in 1..Len(q) : q[i] \in 1..m
  OBVIOUS
<1> QED
  BY <1>1

LEMMA AppendBounded ==
  ASSUME NEW q \in Seq(Nat), NEW m \in Nat, NEW n \in Nat, m <= n,
         \A i \in 1..Len(q) : q[i] <= m
  PROVE  /\ \A i \in 1..Len(q) : q[i] <= n
         /\ \A i \in 1..Len(Append(q, n)) : Append(q, n)[i] <= n
  OBVIOUS

LEMMA BroadcastEvents ==
  ASSUME Typed, Events, NEW n \in 1..MaxSends, Broadcast(n),
         current' = n, current <= n, event' = event
  PROVE  Events'
<1>1. PICK reached \in SUBSET Receivers :
        heard' = [r \in Receivers |->
                    IF r \in reached THEN Append(heard[r], n) ELSE heard[r]]
  BY DEF Broadcast
<1>2. /\ current \in Nat /\ n \in Nat /\ event \in [Receivers -> 0..MaxSends]
      /\ heard \in [Receivers -> Seq(1..MaxSends)]
  BY Times DEF Typed, TypeOK
<1> SUFFICES ASSUME NEW r \in Receivers
             PROVE  /\ event'[r] <= current'
                    /\ \A i \in 1..Len(heard'[r]) : heard'[r][i] <= current'
  BY DEF Events
<1>3. event'[r] <= current'
  BY <1>2, Times DEF Events
<1>4. heard[r] \in Seq(Nat)
  <2>1. heard[r] \in Seq(1..MaxSends) /\ MaxSends \in Nat
    BY <1>2, Times
  <2> QED
    BY <2>1, NumbersAreNatural, Zenon
<1>5. \A i \in 1..Len(heard[r]) : heard[r][i] <= current
  BY DEF Events
<1>6. heard'[r] = Append(heard[r], n) \/ heard'[r] = heard[r]
  BY <1>1
<1>7. \A i \in 1..Len(heard'[r]) : heard'[r][i] <= n
  BY <1>2, <1>4, <1>5, <1>6, AppendBounded, Zenon
<1> QED
  BY <1>3, <1>7

LEMMA NextTryEvents ==
  ASSUME Typed, Events, spc # "pause", NextTry, current' = current, event' = event
  PROVE  Events'
<1>1. current \in 1..MaxSends /\ current <= current
  BY Times DEF Typed, TypeOK
<1>2. CASE Return
  BY <1>2 DEF Return, Events
<1>3. CASE Broadcast(current)
  BY <1>1, <1>3, BroadcastEvents
<1> QED
  BY <1>2, <1>3 DEF NextTry

LEMMA NextChallengerEvents ==
  ASSUME Typed, Events, spc # "pause", NextChallenger, current' = current,
         event' = event
  PROVE  Events'
<1>1. CASE NextTry
  BY <1>1, NextTryEvents
<1>2. CASE heard' = heard
  BY <1>2 DEF Events
<1> QED
  BY <1>1, <1>2 DEF NextChallenger

LEMMA InitEvents == Init => Events
  BY DEF Init, Events

LEMMA NextEvents == Typed /\ Events /\ [Next]_vars => Events'
<1> SUFFICES ASSUME Typed, Events, [Next]_vars
             PROVE  Events'
  OBVIOUS
<1>1. CASE StartSend
  <2>1. current + 1 \in 1..MaxSends /\ current <= current + 1
    BY <1>1, Times DEF StartSend, Typed, TypeOK
  <2> QED
    BY <1>1, <2>1, BroadcastEvents DEF StartSend
<1>2. CASE ListenEnds
  BY <1>2, NextTryEvents, NextChallengerEvents DEF ListenEnds
<1>3. CASE Read
  <2>1. CASE UNCHANGED <<current, heard, event>>
    BY <2>1 DEF Events
  <2>2. CASE NextChallenger
    BY <1>3, <2>2, NextChallengerEvents DEF Read
  <2> QED
    BY <1>3, <2>1, <2>2 DEF Read
<1>4. CASE Answer
  BY <1>4, NextChallengerEvents DEF Answer
<1>5. ASSUME NEW q \in Receivers, Hear(q)
      PROVE  Events'
  <2>1. /\ event' = [event EXCEPT ![q] = Head(heard[q])]
        /\ heard' = [heard EXCEPT ![q] = Tail(@)]
        /\ current' = current /\ heard[q] # << >>
    BY <1>5 DEF Hear, sender
  <2>2. /\ event \in [Receivers -> 0..MaxSends]
        /\ heard \in [Receivers -> Seq(1..MaxSends)]
    BY DEF Typed, TypeOK
  <2>3. PICK s \in Seq(1..MaxSends) : s = heard[q]
    BY <2>2
  <2>4. /\ \A i \in 1..Len(s) : s[i] <= current
        /\ s # << >>
    BY <2>1, <2>3 DEF Events
  <2>5. /\ Head(s) <= current
        /\ \A i \in 1..Len(Tail(s)) : Tail(s)[i] <= current
    BY <2>4
  <2> SUFFICES ASSUME NEW r \in Receivers
               PROVE  /\ event'[r] <= current'
                      /\ \A i \in 1..Len(heard'[r]) : heard'[r][i] <= current'
    BY DEF Events
  <2>6. CASE r = q
    <3>1. event'[r] = Head(s) /\ heard'[r] = Tail(s)
      BY <2>1, <2>2, <2>3, <2>6
    <3> QED
      BY <3>1, <2>1, <2>5, Zenon
  <2>7. CASE r # q
    BY <2>1, <2>2, <2>7 DEF Events
  <2> QED
    BY <2>6, <2>7
<1>6. ASSUME NEW q \in Receivers, FallSilent(q)
      PROVE  Events'
  <2>1. /\ heard' = [heard EXCEPT ![q] = << >>] /\ UNCHANGED <<event, current>>
        /\ heard \in [Receivers -> Seq(1..MaxSends)]
    BY <1>6 DEF FallSilent, sender, Typed, TypeOK
  <2> SUFFICES ASSUME NEW r \in Receivers, NEW i \in 1..Len(heard'[r])
               PROVE  heard'[r][i] <= current'
    BY <2>1 DEF Events
  <2>2. r # q
    BY <2>1
  <2> QED
    BY <2>1, <2>2 DEF Events
<1>7. CASE UNCHANGED <<event, heard, current>>
  BY <1>7 DEF Events
<1> QED
  BY <1>1, <1>2, <1>3, <1>4, <1>5, <1>6, <1>7
     DEF Next, Accept, ReadPart, ReadTimeout, Return, Connect, ConnectGivesUp,
         GiveUp, BlinkEnds, Tick, vars, sender, receivers

LEMMA InitConnections == Init => Connections
  BY DEF Init, Connections

(* The connections stay as they are, or send() lets go of the one it has.  *)
LEMMA ConnectionsStay ==
  ASSUME Typed, Connections, backlog' = backlog, hand' \in {hand, Nobody},
         \A r \in Receivers :
           \/ rpc[r] # "signature"
           \/ rpc'[r] = "signature" /\ event'[r] = event[r]
           \/ hand' = Nobody /\ hand # Nobody /\ hand.live /\ hand.from = r
  PROVE  Connections'
<1>1. /\ \A i \in 1..Len(backlog) : backlog[i] \in Waiting /\ backlog[i].from \in Receivers
      /\ hand # Nobody => hand \in Waiting /\ hand.from \in Receivers
  <2>1. \A x \in Waiting : x.from \in Receivers
    BY DEF Waiting
  <2>2. backlog \in Seq(Waiting) /\ hand \in Waiting \cup {Nobody}
    BY DEF Typed, TypeOK
  <2> QED
    BY <2>1, <2>2
<1>2. ASSUME NEW i \in 1..Len(backlog), backlog[i].live
      PROVE  Alive(backlog[i])'
  <2>1. /\ rpc[backlog[i].from] = "signature"
        /\ backlog[i].event = event[backlog[i].from] /\ ~backlog[i].mute
    BY <1>2 DEF Connections, Alive
  <2>2. ~(hand # Nobody /\ hand.live /\ hand.from = backlog[i].from)
    BY <1>2 DEF Connections
  <2> QED
    BY <1>1, <2>1, <2>2 DEF Alive
<1>3. ASSUME hand' # Nobody
      PROVE  Alive(hand)' /\ hand' = hand
  BY <1>1, <1>3 DEF Connections, Alive
<1> QED
  BY <1>2, <1>3 DEF Connections, Alive

(* A receiver that does not wait for an answer has no live connection.     *)
LEMMA OnlyWhoWaits ==
  ASSUME Connections, NEW r, rpc[r] # "signature"
  PROVE  /\ \A i \in 1..Len(backlog) : backlog[i].live => backlog[i].from # r
         /\ hand # Nobody /\ hand.live => hand.from # r
  BY DEF Connections, Alive

(* A receiver joins the backlog, to wait for the answer or to fall silent. *)
LEMMA JoinConnections ==
  ASSUME Typed, Connections, NEW r \in Receivers, rpc[r] = "connect",
         NEW mute \in BOOLEAN, Join(r, mute),
         UNCHANGED <<hand, event>>,
         rpc' = [rpc EXCEPT ![r] = IF mute THEN "event" ELSE "signature"]
  PROVE  Connections'
<1> DEFINE c == [from |-> r, event |-> event[r], live |-> ~mute, mute |-> mute]
<1>1. /\ backlog \in Seq(Waiting) /\ Len(backlog) \in Nat
      /\ rpc \in [Receivers -> {"event", "connect", "signature", "blink"}]
      /\ hand # Nobody => hand \in Waiting
      /\ \A x \in Waiting : x.from \in Receivers
  BY DEF Typed, TypeOK, Waiting
<1>2. /\ Len(backlog') = Len(backlog) + 1
      /\ backlog'[Len(backlog) + 1] = c
      /\ \A i \in 1..Len(backlog) : backlog'[i] = backlog[i]
  BY <1>1 DEF Join
<1>3. c.from = r /\ c.event = event[r] /\ c.live = ~mute /\ c.mute = mute
  OBVIOUS
<1> HIDE DEF c
<1>4. /\ \A i \in 1..Len(backlog) : backlog[i].live => backlog[i].from # r
      /\ hand # Nobody /\ hand.live => hand.from # r
  BY OnlyWhoWaits
<1>5. /\ rpc'[r] = IF mute THEN "event" ELSE "signature"
      /\ \A q \in Receivers : q # r => rpc'[q] = rpc[q]
  BY <1>1
<1>6. ASSUME NEW x \in Waiting, x.live => x.from # r, Alive(x)
      PROVE  Alive(x)'
  BY <1>1, <1>5, <1>6 DEF Alive
<1>7. \A i \in 1..Len(backlog') : i \in 1..Len(backlog) \/ i = Len(backlog) + 1
  BY <1>1, <1>2
<1>8. ASSUME NEW i \in 1..Len(backlog')
      PROVE  Alive(backlog[i])'
  <2>1. CASE i \in 1..Len(backlog)
    <3>1. backlog[i] \in Waiting /\ Alive(backlog[i])
      BY <2>1, <1>1 DEF Connections
    <3>2. backlog'[i] = backlog[i]
      BY <2>1, <1>2
    <3> QED
      BY <3>1, <3>2, <2>1, <1>4, <1>6 DEF Alive
  <2>2. CASE i = Len(backlog) + 1
    BY <2>2, <1>2, <1>3, <1>5 DEF Alive
  <2> QED
    BY <2>1, <2>2, <1>7
<1>9. ASSUME NEW i \in 1..Len(backlog'), NEW j \in 1..Len(backlog'),
             backlog'[i].live, backlog'[j].live, backlog'[i].from = backlog'[j].from
      PROVE  i = j
  <2>1. CASE i \in 1..Len(backlog) /\ j \in 1..Len(backlog)
    BY <1>2, <1>9, <2>1 DEF Connections
  <2>2. CASE i = Len(backlog) + 1 \/ j = Len(backlog) + 1
    BY <1>2, <1>3, <1>4, <1>7, <1>9, <2>2
  <2> QED
    BY <2>1, <2>2, <1>7
<1>10. ASSUME hand' # Nobody
       PROVE  /\ Alive(hand)'
              /\ hand'.live => \A i \in 1..Len(backlog') :
                                 backlog'[i].live => backlog'[i].from # hand'.from
  <2>1. hand' = hand /\ hand \in Waiting /\ Alive(hand)
    BY <1>10, <1>1 DEF Connections
  <2>2. Alive(hand)'
    BY <2>1, <1>4, <1>6, <1>10 DEF Alive
  <2>3. ASSUME hand.live, NEW i \in 1..Len(backlog'), backlog'[i].live
        PROVE  backlog'[i].from # hand.from
    <3>1. CASE i \in 1..Len(backlog)
      BY <1>2, <1>10, <2>1, <2>3, <3>1 DEF Connections
    <3>2. CASE i = Len(backlog) + 1
      BY <1>2, <1>3, <1>4, <1>10, <2>1, <2>3, <3>2
    <3> QED
      BY <3>1, <3>2, <1>7
  <2> QED
    BY <2>1, <2>2, <2>3
<1> QED
  BY <1>8, <1>9, <1>10 DEF Connections

LEMMA NextConnections == Typed /\ Connections /\ [Next]_vars => Connections'
<1> SUFFICES ASSUME Typed, Connections, [Next]_vars
             PROVE  Connections'
  OBVIOUS
<1>t. /\ backlog \in Seq(Waiting) /\ Len(backlog) \in Nat
      /\ hand \in Waiting \cup {Nobody}
      /\ spc \in {"read", "sign"} <=> hand # Nobody
      /\ rpc \in [Receivers -> {"event", "connect", "signature", "blink"}]
      /\ event \in [Receivers -> 0..MaxSends]
      /\ \A c \in Waiting : c.from \in Receivers
  BY DEF Typed, TypeOK, Waiting
<1>n. spc # "pause" /\ current' = current /\ (NextTry \/ NextChallenger)
        => hand' = Nobody
  BY NextTryTyped, NextChallengerTyped
<1>1. CASE StartSend
  BY <1>1, ConnectionsStay DEF StartSend, Broadcast
<1>2. CASE Accept
  <2>1. /\ hand = Nobody /\ hand' = backlog[1] /\ Len(backlog) > 0
        /\ Len(backlog') = Len(backlog) - 1
        /\ \A i \in 1..Len(backlog') :
             i + 1 \in 1..Len(backlog) /\ backlog'[i] = backlog[i + 1]
        /\ UNCHANGED <<rpc, event>>
    BY <1>2, <1>t DEF Accept, receivers
  <2>2. /\ 1 \in 1..Len(backlog) /\ Len(backlog') \in Nat
        /\ \A i \in 1..Len(backlog') : i + 1 # 1
    BY <2>1, <1>t
  <2>3. \A i \in 1..Len(backlog) : Alive(backlog[i])
    BY DEF Connections
  <2>4. \A i \in 1..Len(backlog') : Alive(backlog[i])'
    BY <2>1, <2>3, Zenon DEF Alive
  <2>5. Alive(hand)'
    BY <2>1, <2>2, <2>3, Zenon DEF Alive
  <2>6. ASSUME NEW i \in 1..Len(backlog'), NEW j \in 1..Len(backlog'),
               backlog'[i].live, backlog'[j].live,
               backlog'[i].from = backlog'[j].from
        PROVE  i = j
    <3>1. i + 1 = j + 1
      BY <2>1, <2>6 DEF Connections
    <3> QED
      BY <3>1, <2>2
  <2>7. ASSUME hand'.live, NEW i \in 1..Len(backlog'), backlog'[i].live
        PROVE  backlog'[i].from # hand'.from
    BY <2>1, <2>2, <2>7 DEF Connections
  <2> QED
    BY <2>4, <2>5, <2>6, <2>7 DEF Connections
<1>3. CASE ListenEnds
  <2>1. hand' = Nobody /\ UNCHANGED <<backlog, rpc, event>>
    BY <1>3, <1>n DEF ListenEnds
  <2> QED
    BY <2>1, ConnectionsStay
<1>4. CASE Read
  <2>1. CASE UNCHANGED <<backlog, hand, rpc, event>>
    BY <2>1, ConnectionsStay
  <2>2. CASE NextChallenger /\ CutOff(hand)
    <3>1. hand' = Nobody /\ UNCHANGED <<backlog, event>> /\ hand # Nobody
      BY <1>4, <1>n, <1>t, <2>2 DEF Read
    <3>2. \A r \in Receivers :
            rpc'[r] = rpc[r] \/ (hand.live /\ hand.from = r)
      <4>1. CASE hand.live /\ spc' = "listen"
        <5>1. PICK next \in {"event", "connect"} :
                rpc' = [rpc EXCEPT ![hand.from] = next]
          BY <2>2, <4>1 DEF CutOff
        <5> QED
          BY <5>1, <4>1, <1>t
      <4>2. CASE ~(hand.live /\ spc' = "listen")
        BY <2>2, <4>2 DEF CutOff
      <4> QED
        BY <4>1, <4>2
    <3> QED
      BY <3>1, <3>2, ConnectionsStay
  <2> QED
    BY <1>4, <2>1, <2>2 DEF Read
<1>5. CASE ReadTimeout
  BY <1>5, ConnectionsStay DEF ReadTimeout, Return
<1>6. CASE Answer
  <2>1. hand' = Nobody /\ UNCHANGED <<backlog, event>> /\ hand # Nobody
    BY <1>6, <1>n, <1>t DEF Answer
  <2>2. \A r \in Receivers : rpc'[r] = rpc[r] \/ (hand.live /\ hand.from = r)
    BY <1>6, <1>t DEF Answer
  <2> QED
    BY <2>1, <2>2, ConnectionsStay
<1>7. ASSUME NEW q \in Receivers, Hear(q)
      PROVE  Connections'
  <2>1. /\ UNCHANGED <<backlog, hand>> /\ rpc[q] = "event"
        /\ \A r \in Receivers : r # q => rpc'[r] = rpc[r] /\ event'[r] = event[r]
    BY <1>7, <1>t DEF Hear, sender
  <2> QED
    BY <2>1, ConnectionsStay
<1>8. ASSUME NEW q \in Receivers, Connect(q)
      PROVE  Connections'
  <2>1. /\ Join(q, FALSE) /\ rpc[q] = "connect" /\ UNCHANGED <<hand, event>>
        /\ rpc' = [rpc EXCEPT ![q] = IF FALSE THEN "event" ELSE "signature"]
    BY <1>8 DEF Connect, sender
  <2> QED
    BY <2>1, JoinConnections
<1>9. ASSUME NEW q \in Receivers, FallSilent(q)
      PROVE  Connections'
  <2>1. /\ Join(q, TRUE) /\ rpc[q] = "connect" /\ UNCHANGED <<hand, event>>
        /\ rpc' = [rpc EXCEPT ![q] = IF TRUE THEN "event" ELSE "signature"]
    BY <1>9 DEF FallSilent, sender
  <2> QED
    BY <2>1, JoinConnections
<1>10. ASSUME NEW q \in Receivers, ConnectGivesUp(q) \/ BlinkEnds(q)
       PROVE  Connections'
  <2>1. /\ UNCHANGED <<backlog, hand, event>> /\ rpc[q] # "signature"
        /\ \A r \in Receivers : r # q => rpc'[r] = rpc[r]
    BY <1>10, <1>t DEF ConnectGivesUp, BlinkEnds, sender
  <2> QED
    BY <2>1, ConnectionsStay
<1>11. ASSUME NEW q \in Receivers, GiveUp(q)
       PROVE  Connections'
  <2>1. /\ backlog' = [i \in 1..Len(backlog) |-> Forget(backlog[i], q)]
        /\ hand' = Forget(hand, q) /\ event' = event
        /\ \A r \in Receivers : r # q => rpc'[r] = rpc[r]
    BY <1>11, <1>t DEF GiveUp
  <2>2. ASSUME NEW c \in Waiting
        PROVE  /\ Forget(c, q).live => c.live /\ c.from # q
               /\ Forget(c, q).from = c.from /\ Forget(c, q).event = c.event
               /\ Forget(c, q).mute = c.mute
    BY CostOf DEF Forget, Waiting
  <2>3. /\ Len(backlog') = Len(backlog)
        /\ \A i \in 1..Len(backlog) :
             backlog'[i] = Forget(backlog[i], q) /\ backlog[i] \in Waiting
    BY <2>1, <1>t
  <2>4. ASSUME NEW c \in Waiting, Alive(c)
        PROVE  LET d == Forget(c, q) IN
                 d.live => /\ rpc'[d.from] = "signature"
                           /\ d.event = event'[d.from] /\ ~d.mute
    BY <2>1, <2>2, <2>4, <1>t DEF Alive
  <2>5. ASSUME NEW i \in 1..Len(backlog')
        PROVE  Alive(backlog[i])'
    <3>1. /\ backlog[i] \in Waiting /\ Alive(backlog[i])
          /\ backlog'[i] = Forget(backlog[i], q)
      BY <2>3 DEF Connections
    <3> QED
      BY <3>1, <2>4 DEF Alive
  <2>6. ASSUME NEW i \in 1..Len(backlog'), NEW j \in 1..Len(backlog'),
               backlog'[i].live, backlog'[j].live,
               backlog'[i].from = backlog'[j].from
        PROVE  i = j
    <3>1. /\ backlog[i].live /\ backlog[j].live /\ backlog[i].from = backlog[j].from
          /\ i \in 1..Len(backlog) /\ j \in 1..Len(backlog)
      BY <2>2, <2>3, <2>6
    <3> QED
      BY <3>1 DEF Connections
  <2>7. ASSUME hand' # Nobody
        PROVE  /\ Alive(hand)'
               /\ hand'.live => \A i \in 1..Len(backlog') :
                                  backlog'[i].live => backlog'[i].from # hand'.from
    <3>1. hand \in Waiting /\ Alive(hand) /\ hand # Nobody
      BY <2>1, <2>7, <1>t DEF Forget, Connections
    <3>2. Alive(hand)'
      BY <3>1, <2>1, <2>4 DEF Alive
    <3>3. ASSUME hand'.live, NEW i \in 1..Len(backlog'), backlog'[i].live
          PROVE  backlog'[i].from # hand'.from
      <4>1. /\ backlog[i].live /\ backlog'[i].from = backlog[i].from
            /\ hand.live /\ hand'.from = hand.from /\ i \in 1..Len(backlog)
        BY <2>1, <2>2, <2>3, <3>1, <3>3
      <4> QED
        BY <3>1, <4>1 DEF Connections
    <3> QED
      BY <3>2, <3>3
  <2> QED
    BY <2>5, <2>6, <2>7 DEF Connections
<1>12. CASE UNCHANGED <<backlog, hand, rpc, event>>
  BY <1>12, ConnectionsStay
<1> QED
  BY <1>1, <1>2, <1>3, <1>4, <1>5, <1>6, <1>7, <1>8, <1>9, <1>10, <1>11, <1>12
     DEF Next, ReadPart, Tick, vars, sender, receivers

-----------------------------------------------------------------------------
(* How long a challenger waits                                             *)

LEMMA SlotsLeftDef ==
  ASSUME Typed, spc # "pause"
  PROVE  \E later \in Nat :
           /\ later = (tries - 1) * (TrustedCount + 1)
           /\ SlotsLeft = (IF spc = "listen" THEN 1 ELSE 0) + (TrustedCount - slot)
                           + later
           /\ SlotsLeft \in Nat
           /\ tries > 1 =>
                later = (tries - 1 - 1) * (TrustedCount + 1) + (TrustedCount + 1)
<1>1. /\ tries - 1 \in Nat /\ TrustedCount + 1 \in Nat
      /\ tries \in Nat /\ TrustedCount - slot \in Nat
  <2>1. /\ slot \in 0..TrustedCount /\ tries \in 0..(MaxRetries + 1) /\ tries >= 1
        /\ TrustedCount \in Nat /\ MaxRetries \in Nat
    BY Times DEF Typed, TypeOK
  <2> QED
    BY <2>1
<1>2. (tries - 1) * (TrustedCount + 1) \in Nat
  BY <1>1, Multiples, Zenon
<1>3. ASSUME tries > 1
      PROVE  (tries - 1) * (TrustedCount + 1)
               = (tries - 1 - 1) * (TrustedCount + 1) + (TrustedCount + 1)
  <2>1. tries - 1 - 1 \in Nat /\ tries - 1 = (tries - 1 - 1) + 1
    BY <1>1, <1>3
  <2> QED
    BY <2>1, <1>1, Multiples, Zenon
<1>4. PICK later \in Nat : later = (tries - 1) * (TrustedCount + 1)
  BY <1>2
<1>5. SlotsLeft = (IF spc = "listen" THEN 1 ELSE 0) + (TrustedCount - slot) + later
  BY <1>4, Zenon DEF SlotsLeft
<1>6. SlotsLeft \in Nat
  BY <1>5, <1>1
<1> QED
  BY <1>3, <1>4, <1>5, <1>6, Zenon

(* Between two slots no slot is lost; send() returns when none is left.    *)
LEMMA NextChallengerSlots ==
  ASSUME Typed, spc \in {"read", "sign"}, NextChallenger
  PROVE  \/ spc' = "listen" /\ SlotsLeft' = SlotsLeft
         \/ spc' = "pause" /\ SlotsLeft = 0
<1>1. PICK later \in Nat :
        /\ later = (tries - 1) * (TrustedCount + 1)
        /\ SlotsLeft = (TrustedCount - slot) + later
        /\ tries > 1 =>
             later = (tries - 1 - 1) * (TrustedCount + 1) + (TrustedCount + 1)
  <2>1. spc # "pause" /\ spc # "listen"
    OBVIOUS
  <2>2. PICK later \in Nat :
          /\ later = (tries - 1) * (TrustedCount + 1)
          /\ SlotsLeft = (IF spc = "listen" THEN 1 ELSE 0) + (TrustedCount - slot)
                          + later
          /\ tries > 1 =>
               later = (tries - 1 - 1) * (TrustedCount + 1) + (TrustedCount + 1)
    BY <2>1, SlotsLeftDef
  <2>3. SlotsLeft = (TrustedCount - slot) + later
    BY <2>1, <2>2, Times DEF Typed, TypeOK
  <2> QED
    BY <2>2, <2>3
<1>t. slot \in Nat /\ slot <= TrustedCount /\ tries \in Nat /\ tries >= 1
  BY Times DEF Typed, TypeOK
<1>2. CASE slot < TrustedCount /\ slot' = slot + 1 /\ spc' = "listen"
           /\ tries' = tries
  <2>1. SlotsLeft' = 1 + (TrustedCount - (slot + 1)) + later
    BY <1>1, <1>2, Zenon DEF SlotsLeft
  <2> QED
    BY <1>1, <1>2, <1>t, <2>1, Times
<1>3. CASE slot = TrustedCount /\ tries = 1 /\ Return
  <2>1. later = 0
    <3>1. tries - 1 = 0
      BY <1>3
    <3> QED
      BY <3>1, <1>1, Times
  <2> QED
    BY <1>1, <1>3, <2>1, Times DEF Return
<1>4. CASE slot = TrustedCount /\ tries > 1 /\ tries' = tries - 1
           /\ Broadcast(current)
  <2>1. spc' = "listen" /\ slot' = 0
    BY <1>4 DEF Broadcast
  <2>2. PICK rest \in Nat : rest = (tries - 1 - 1) * (TrustedCount + 1)
    <3>1. tries - 1 - 1 \in Nat /\ TrustedCount + 1 \in Nat
      BY <1>4, <1>t, Times
    <3> QED
      BY <3>1, Multiples, Zenon
  <2>3. SlotsLeft' = 1 + (TrustedCount - 0) + rest
    BY <1>4, <2>1, <2>2, Zenon DEF SlotsLeft
  <2>4. later = rest + (TrustedCount + 1)
    BY <1>1, <1>4, <2>2, Zenon
  <2>5. SlotsLeft = (TrustedCount - TrustedCount) + later
    BY <1>1, <1>4, Zenon
  <2>6. TrustedCount \in Nat
    BY Times
  <2>7. SlotsLeft' = SlotsLeft
    BY <2>2, <2>3, <2>4, <2>5, <2>6
  <2> QED
    BY <2>1, <2>7
<1> QED
  BY <1>2, <1>3, <1>4 DEF NextChallenger, NextTry

(* A challenger stays where it is in the backlog, and nothing is added to  *)
(* what it has waited and what is left of the connection before.           *)
LEMMA StaysInBacklog ==
  ASSUME Typed, NEW r \in Receivers, NEW i \in 1..Len(backlog), InBacklog(r, i),
         i \in 1..Len(backlog'), backlog'[i].live, backlog'[i].from = r,
         i <= SlotsLeft',
         Costs(backlog')[i - 1] = Costs(backlog)[i - 1],
         budget'[r] = budget[r],
         NEW before \in Int, before = rclock[r] + Remaining,
         NEW after \in Int, after = rclock'[r] + Remaining',
         after <= before
  PROVE  InBacklog(r, i)'
<1>1. backlog \in Seq(Waiting) /\ i - 1 \in 0..Len(backlog)
  BY DEF Typed, TypeOK
<1>2. PICK cost \in Nat : cost = Costs(backlog)[i - 1]
  BY <1>1, CostsDef
<1>3. PICK b \in Nat : b = budget[r]
  BY DEF Typed, TypeOK
<1>4. before + cost + TurnTime <= b
  BY <1>2, <1>3, Zenon DEF InBacklog
<1>5. after + cost + TurnTime <= b
  <2>1. \A u, v \in Int, w, x, y \in Nat :
          u <= v /\ v + w + x <= y => u + w + x <= y
    OBVIOUS
  <2> QED
    BY <2>1, <1>4, CostOf, Zenon
<1>6. rclock'[r] + Remaining' + Costs(backlog')[i - 1] + TurnTime <= budget'[r]
  BY <1>2, <1>3, <1>5, Zenon
<1> QED
  BY <1>6, Zenon DEF InBacklog

(* The first in the backlog is next; the others move up by one, and what   *)
(* the next may cost is no more ahead of them in the backlog.              *)
LEMMA MovesUp ==
  ASSUME Typed, InTime, Connections, Accept, NEW r \in Receivers,
         NEW i \in 1..Len(backlog), InBacklog(r, i)
  PROVE  InHand(r)' \/ \E j \in 1..Len(backlog') : InBacklog(r, j)'
<1>1. /\ backlog \in Seq(Waiting) /\ backlog # << >> /\ Len(backlog) \in Nat
      /\ spc = "listen" /\ hand = Nobody /\ hand' = Head(backlog)
      /\ backlog' = Tail(backlog) /\ spc' = "read" /\ sclock' = 0 /\ left' = Parts
      /\ UNCHANGED <<tries, slot, rclock, budget>>
  BY DEF Accept, receivers, Typed, TypeOK
<1>2. /\ Len(backlog) > 0 /\ Head(backlog) = backlog[1] /\ backlog[1] \in Waiting
      /\ Len(backlog') = Len(backlog) - 1
      /\ \A j \in 1..(Len(backlog) - 1) : backlog'[j] = backlog[j + 1]
  BY <1>1
<1>3. hand' # Nobody /\ hand' = backlog[1]
  BY <1>1, <1>2, CostOf
<1>4. PICK next \in Nat : next = Cost(backlog[1])
  BY <1>2, CostOf
<1>5. Remaining' = next /\ Remaining = 0
  BY <1>1, <1>2, <1>3, <1>4, WholeRemains DEF Remaining
<1>6. PICK clock \in Nat, b \in Nat : clock = rclock[r] /\ b = budget[r]
  BY DEF Typed, TypeOK
<1>7. /\ backlog[i].live /\ backlog[i].from = r /\ i <= SlotsLeft
      /\ clock + 0 + Costs(backlog)[i - 1] + TurnTime <= b
  BY <1>5, <1>6, Zenon DEF InBacklog
<1>8. CASE i = 1
  <2>1. ~backlog[1].mute
    BY <1>7, <1>8 DEF Connections, Alive
  <2>2. next = TurnTime
    BY <2>1, <1>2, <1>4, CostOf, Zenon
  <2>3. Costs(backlog)[0] = 0
    BY <1>1, CostsDef
  <2>4. Costs(backlog)[i - 1] = 0
    BY <2>3, <1>8
  <2>5. clock + next <= b
    BY <2>2, <2>4, <1>7
  <2>6. rclock'[r] + Remaining' <= budget'[r]
    BY <2>5, <1>1, <1>5, <1>6, Zenon
  <2>7. hand'.live /\ hand'.from = r
    BY <1>3, <1>7, <1>8
  <2> QED
    BY <2>6, <2>7, <1>3 DEF InHand
<1>9. CASE i # 1
  <2>1. /\ i - 1 \in 1..Len(backlog') /\ i - 1 \in 1..(Len(backlog) - 1)
        /\ (i - 1) + 1 = i /\ i - 2 \in 0..(Len(backlog) - 1)
        /\ (i - 2) + 1 = i - 1 /\ (i - 1) - 1 = i - 2 /\ i - 2 \in 0..Len(backlog')
    BY <1>1, <1>2, <1>9
  <2>2. backlog'[i - 1] = backlog[i]
    BY <2>1, <1>2
  <2>3. PICK rest \in Nat : rest = Costs(backlog')[i - 2]
    <3>1. backlog' \in Seq(Waiting)
      BY <1>1
    <3> QED
      BY <3>1, <2>1, CostsDef
  <2>4. Costs(backlog)[i - 1] = next + rest
    <3>1. Costs(backlog)[(i - 2) + 1] = Cost(Head(backlog)) + Costs(Tail(backlog))[i - 2]
      BY <1>1, <2>1, CostsTail, Zenon
    <3> QED
      BY <3>1, <2>1, <2>3, <1>1, <1>2, <1>4, Zenon
  <2>5. clock + next + rest + TurnTime <= b
    <3>1. clock + 0 + (next + rest) + TurnTime <= b
      BY <1>7, <2>4, Zenon
    <3>2. TurnTime \in Nat
      BY CostOf, Zenon
    <3> QED
      BY <3>1, <3>2
  <2>6. rclock'[r] + Remaining' + Costs(backlog')[(i - 1) - 1] + TurnTime <= budget'[r]
    BY <2>1, <2>3, <2>5, <1>1, <1>5, <1>6, Zenon
  <2>7. i - 1 <= SlotsLeft'
    <3>1. PICK later \in Nat :
            /\ later = (tries - 1) * (TrustedCount + 1)
            /\ SlotsLeft = (IF spc = "listen" THEN 1 ELSE 0)
                           + (TrustedCount - slot) + later
      BY <1>1, SlotsLeftDef
    <3>2. SlotsLeft' = 0 + (TrustedCount - slot) + later
      BY <3>1, <1>1, Zenon DEF SlotsLeft
    <3>3. TrustedCount - slot \in Nat
      BY Times DEF Typed, TypeOK
    <3>4. i <= 1 + (TrustedCount - slot) + later
      BY <3>1, <1>1, <1>7, Zenon
    <3> QED
      BY <3>2, <3>3, <3>4
  <2>8. InBacklog(r, i - 1)'
    BY <2>2, <2>6, <2>7, <1>7, Zenon DEF InBacklog
  <2> QED
    BY <2>1, <2>8, Zenon
<1> QED
  BY <1>8, <1>9

(* A challenger that send() still has a slot for.                          *)
Attended(r) == rpc[r] = "signature" /\ attended[r] /\ event[r] = current
Served(r) ==
    /\ spc # "pause"
    /\ InHand(r) \/ \E i \in 1..Len(backlog) : InBacklog(r, i)

LEMMA AffordableIsServed == Affordable <=> \A r \in Receivers : Attended(r) => Served(r)
  BY Zenon DEF Affordable, Attended, Served

(* Nothing of it changes.                                                  *)
LEMMA ServedStays ==
  ASSUME NEW r, Served(r), UNCHANGED <<spc, sclock, left, tries, slot, hand, backlog>>,
         rclock'[r] = rclock[r], budget'[r] = budget[r]
  PROVE  Served(r)'
<1>1. Remaining' = Remaining /\ SlotsLeft' = SlotsLeft
  BY Zenon DEF Remaining, RecvTime, SlotsLeft
<1>2. \A i \in 1..Len(backlog) : InBacklog(r, i) => InBacklog(r, i)'
  BY <1>1, Zenon DEF InBacklog
<1>3. InHand(r) => InHand(r)'
  BY <1>1, Zenon DEF InHand
<1> QED
  BY <1>2, <1>3, Zenon DEF Served

(* The challenge in m_challenge_socket comes closer to its answer.         *)
LEMMA ServedSooner ==
  ASSUME Typed, InTime, NEW r \in Receivers, Served(r),
         spc = "read", spc' \in {"read", "sign"},
         UNCHANGED <<tries, slot, hand, backlog, rclock, budget>>,
         Remaining' \in Nat, Remaining' <= Remaining
  PROVE  Served(r)'
<1>1. SlotsLeft' = SlotsLeft
  <2>1. spc # "listen" /\ spc' # "listen"
    OBVIOUS
  <2> QED
    BY <2>1, Zenon DEF SlotsLeft
<1>2. PICK clock \in Nat, rem \in Nat, new \in Nat, b \in Nat :
        /\ clock = rclock[r] /\ rem = Remaining /\ new = Remaining' /\ b = budget[r]
        /\ new <= rem
  BY Ahead DEF Typed, TypeOK
<1>3. clock + new \in Int /\ clock + rem \in Int /\ clock + new <= clock + rem
  BY <1>2
<1>4. /\ clock + new = rclock'[r] + Remaining'
      /\ clock + rem = rclock[r] + Remaining
  BY <1>2, Zenon
<1>5. ASSUME InHand(r)
      PROVE  InHand(r)'
  <2>1. clock + rem <= b
    BY <1>2, <1>5, Zenon DEF InHand
  <2>2. clock + new <= b
    BY <1>2, <2>1
  <2> QED
    BY <1>2, <1>4, <1>5, <2>2, Zenon DEF InHand
<1>6. ASSUME NEW i \in 1..Len(backlog), InBacklog(r, i)
      PROVE  InBacklog(r, i)'
  <2>1. /\ i \in 1..Len(backlog') /\ backlog'[i].live /\ backlog'[i].from = r
        /\ Costs(backlog')[i - 1] = Costs(backlog)[i - 1] /\ budget'[r] = budget[r]
        /\ i <= SlotsLeft'
    BY <1>1, <1>6, Zenon DEF InBacklog
  <2> QED
    BY <1>3, <1>4, <1>6, <2>1, StaysInBacklog, Zenon
<1>7. spc' # "pause"
  OBVIOUS
<1> QED
  BY <1>5, <1>6, <1>7, Zenon DEF Served

(* Somebody else joins the backlog behind it.                              *)
LEMMA JoinedBehind ==
  ASSUME Typed, NEW q \in Receivers, NEW mute \in BOOLEAN, Join(q, mute)
  PROVE  /\ Len(backlog') = Len(backlog) + 1
         /\ backlog' \in Seq(Waiting)
         /\ backlog'[Len(backlog) + 1] =
              [from |-> q, event |-> event[q], live |-> ~mute, mute |-> mute]
         /\ \A i \in 1..Len(backlog) : backlog'[i] = backlog[i]
         /\ \A n \in 0..Len(backlog) : Costs(backlog')[n] = Costs(backlog)[n]
<1>1. backlog \in Seq(Waiting) /\ Len(backlog) \in Nat
  BY DEF Typed, TypeOK
<1>2. [from |-> q, event |-> event[q], live |-> ~mute, mute |-> mute] \in Waiting
  BY DEF Waiting, Typed, TypeOK
<1>3. /\ Len(backlog') = Len(backlog) + 1
      /\ backlog' \in Seq(Waiting)
      /\ backlog'[Len(backlog) + 1] =
           [from |-> q, event |-> event[q], live |-> ~mute, mute |-> mute]
      /\ \A i \in 1..Len(backlog) : backlog'[i] = backlog[i]
  BY <1>1, <1>2 DEF Join
<1>4. ASSUME NEW n \in 0..Len(backlog)
      PROVE  Costs(backlog')[n] = Costs(backlog)[n]
  <2>1. /\ n \in Nat /\ n <= Len(backlog') /\ n <= Len(backlog)
        /\ \A i \in 1..n : i \in 1..Len(backlog)
    BY <1>1, <1>3
  <2>2. \A i \in 1..n : Cost(backlog'[i]) = Cost(backlog[i])
    BY <2>1, <1>3, Zenon
  <2> QED
    BY <2>1, <2>2, <1>1, <1>3, CostsAgree, Zenon
<1> QED
  BY <1>3, <1>4

LEMMA ServedWhenJoined ==
  ASSUME Typed, InTime, NEW r \in Receivers, Served(r), NEW q \in Receivers,
         NEW mute \in BOOLEAN, Join(q, mute),
         UNCHANGED <<spc, sclock, left, tries, slot, hand>>,
         rclock'[r] = rclock[r], budget'[r] = budget[r]
  PROVE  Served(r)'
<1>1. Remaining' = Remaining /\ SlotsLeft' = SlotsLeft
  BY Zenon DEF Remaining, RecvTime, SlotsLeft
<1>2. InHand(r) => InHand(r)'
  BY <1>1, Zenon DEF InHand
<1>3. ASSUME NEW i \in 1..Len(backlog), InBacklog(r, i)
      PROVE  i \in 1..Len(backlog') /\ InBacklog(r, i)'
  <2>1. Len(backlog) \in Nat
    BY DEF Typed, TypeOK
  <2>l. Len(backlog') = Len(backlog) + 1
    BY JoinedBehind, Zenon
  <2>2. i \in 1..Len(backlog') /\ i - 1 \in 0..Len(backlog)
    BY <2>1, <2>l
  <2>3. backlog'[i] = backlog[i] /\ Costs(backlog')[i - 1] = Costs(backlog)[i - 1]
    BY <2>2, JoinedBehind, Zenon
  <2> QED
    BY <1>1, <1>3, <2>2, <2>3, Zenon DEF InBacklog
<1> QED
  BY <1>2, <1>3, Zenon DEF Served

(* The new challenger itself.                                              *)
LEMMA ServedOnceConnected ==
  ASSUME Typed, InTime, Typed', NEW r \in Receivers, Connect(r), Attended(r)'
  PROVE  Served(r)'
<1>1. /\ Join(r, FALSE) /\ UNCHANGED <<spc, sclock, left, tries, slot, hand>>
      /\ rclock'[r] = 0 /\ attended'[r] = (spc # "pause" /\ Len(backlog) < SlotsLeft)
      /\ budget'[r] = Cost(hand) + Costs(backlog)[Len(backlog)] + TurnTime
  BY DEF Connect, sender, Typed, TypeOK
<1>2. spc # "pause" /\ Len(backlog) < SlotsLeft
  BY <1>1 DEF Attended
<1>3. backlog \in Seq(Waiting) /\ Len(backlog) \in Nat
  BY DEF Typed, TypeOK
<1>4. Remaining' = Remaining /\ SlotsLeft' = SlotsLeft
  BY <1>1, Zenon DEF Remaining, RecvTime, SlotsLeft
<1>j. /\ Len(backlog') = Len(backlog) + 1
      /\ backlog'[Len(backlog) + 1] =
           [from |-> r, event |-> event[r], live |-> ~FALSE, mute |-> FALSE]
      /\ \A n \in 0..Len(backlog) : Costs(backlog')[n] = Costs(backlog)[n]
  <2>1. FALSE \in BOOLEAN
    OBVIOUS
  <2> QED
    BY <2>1, <1>1, JoinedBehind, Zenon
<1>i. PICK i \in Nat : i = Len(backlog) + 1
  BY <1>3
<1>5. /\ i \in 1..Len(backlog') /\ i - 1 = Len(backlog)
      /\ Len(backlog) \in 0..Len(backlog)
  BY <1>i, <1>j, <1>3
<1>6. backlog'[i].live /\ backlog'[i].from = r
  <2>1. /\ [from |-> r, event |-> event[r], live |-> ~FALSE, mute |-> FALSE].live
        /\ [from |-> r, event |-> event[r], live |-> ~FALSE, mute |-> FALSE].from = r
    OBVIOUS
  <2> QED
    BY <2>1, <1>i, <1>j, Zenon
<1>7. i <= SlotsLeft'
  <2>1. SlotsLeft \in Nat
    BY <1>2, SlotsLeftDef
  <2> QED
    BY <2>1, <1>2, <1>3, <1>4, <1>i
<1>8. PICK cost \in Nat : cost = Costs(backlog)[Len(backlog)]
  BY <1>3, <1>5, CostsDef
<1>9. Costs(backlog')[i - 1] = cost
  BY <1>5, <1>8, <1>j, Zenon
<1>10. 0 + Remaining + cost + TurnTime <= Cost(hand) + cost + TurnTime
  <2>1. PICK rem \in Nat, whole \in Nat :
          rem = Remaining /\ whole = Cost(hand) /\ rem <= whole
    BY Ahead
  <2>2. 0 + rem + cost + TurnTime <= whole + cost + TurnTime
    <3>1. TurnTime \in Nat
      BY CostOf, Zenon
    <3> QED
      BY <2>1, <3>1
  <2> QED
    BY <2>1, <2>2, Zenon
<1>11. rclock'[r] + Remaining' + Costs(backlog')[i - 1] + TurnTime <= budget'[r]
  BY <1>1, <1>4, <1>8, <1>9, <1>10, Zenon
<1>12. InBacklog(r, i)'
  BY <1>6, <1>7, <1>11, Zenon DEF InBacklog
<1> QED
  BY <1>1, <1>2, <1>5, <1>12, Zenon DEF Served

(* send() lets go of a connection before it.                               *)
LEMMA ServedNext ==
  ASSUME Typed, InTime, NEW r \in Receivers, NEW i \in 1..Len(backlog),
         InBacklog(r, i), spc \in {"read", "sign"}, NextChallenger,
         UNCHANGED <<current, backlog, budget>>,
         NEW clock \in Nat, clock = rclock'[r], clock <= rclock[r]
  PROVE  Served(r)'
<1>1. hand' = Nobody
  BY NextChallengerTyped
<1>2. Remaining' = 0
  BY <1>1 DEF Remaining
<1>3. spc' = "listen" /\ SlotsLeft' = SlotsLeft /\ i <= SlotsLeft'
  <2>1. i <= SlotsLeft /\ i > 0
    BY DEF InBacklog
  <2>2. SlotsLeft # 0
    BY <2>1
  <2> QED
    BY <2>1, <2>2, NextChallengerSlots
<1>4. PICK before \in Nat :
        before = rclock[r] + Remaining /\ clock + 0 <= before
  <2>1. PICK rem \in Nat, old \in Nat : rem = Remaining /\ old = rclock[r]
    BY Ahead DEF Typed, TypeOK
  <2>2. old + rem \in Nat /\ clock + 0 <= old + rem
    BY <2>1
  <2> QED
    BY <2>1, <2>2, Zenon
<1>5. /\ i \in 1..Len(backlog') /\ backlog'[i].live /\ backlog'[i].from = r
      /\ Costs(backlog')[i - 1] = Costs(backlog)[i - 1] /\ budget'[r] = budget[r]
  BY Zenon DEF InBacklog
<1>6. clock + 0 = rclock'[r] + Remaining'
  BY <1>2, Zenon
<1>7. clock + 0 \in Int /\ before \in Int
  OBVIOUS
<1>8. InBacklog(r, i)'
  BY <1>3, <1>4, <1>5, <1>6, <1>7, StaysInBacklog, Zenon
<1> QED
  BY <1>3, <1>5, <1>8 DEF Served

(* Another receiver gives up: what its connection costs is what it was.    *)
LEMMA ServedWhenForgotten ==
  ASSUME Typed, NEW r \in Receivers, Served(r), NEW q \in Receivers, q # r,
         backlog' = [i \in 1..Len(backlog) |-> Forget(backlog[i], q)],
         hand' = Forget(hand, q),
         UNCHANGED <<spc, sclock, left, tries, slot>>,
         rclock'[r] = rclock[r], budget'[r] = budget[r]
  PROVE  Served(r)'
<1>1. backlog \in Seq(Waiting) /\ Len(backlog) \in Nat /\ hand \in Waiting \cup {Nobody}
  BY DEF Typed, TypeOK
<1>2. \A c \in Waiting :
        /\ Forget(c, q) \in Waiting
        /\ Forget(c, q).mute = c.mute /\ Forget(c, q).from = c.from
        /\ c.from = r => Forget(c, q) = c
  BY CostOf DEF Forget, Waiting
<1>3. \A c \in Waiting :
        /\ Cost(Forget(c, q)) = Cost(c)
        /\ RecvTime(Forget(c, q)) = RecvTime(c)
  <2> SUFFICES ASSUME NEW c \in Waiting
               PROVE  /\ Cost(Forget(c, q)) = Cost(c)
                      /\ RecvTime(Forget(c, q)) = RecvTime(c)
    OBVIOUS
  <2>1. Forget(c, q) # Nobody /\ c # Nobody /\ Forget(c, q).mute = c.mute
    BY <1>2, CostOf, Zenon
  <2> QED
    BY <2>1, Zenon DEF Cost, RecvTime
<1>4. /\ backlog' \in Seq(Waiting) /\ Len(backlog') = Len(backlog)
      /\ \A i \in 1..Len(backlog) :
           backlog[i] \in Waiting /\ backlog'[i] = Forget(backlog[i], q)
  BY <1>1, <1>2
<1>5. SlotsLeft' = SlotsLeft
  BY Zenon DEF SlotsLeft
<1>6. Remaining' = Remaining
  <2>1. CASE hand = Nobody
    BY <2>1 DEF Forget, Remaining
  <2>2. CASE hand # Nobody
    <3>1. /\ hand \in Waiting /\ hand' \in Waiting
          /\ RecvTime(hand') = RecvTime(hand) /\ hand'.mute = hand.mute
      BY <2>2, <1>1, <1>2, <1>3
    <3>2. hand' # Nobody
      BY <3>1, CostOf, Zenon
    <3> QED
      BY <2>2, <3>1, <3>2, Zenon DEF Remaining, RecvTime
  <2> QED
    BY <2>1, <2>2
<1>7. InHand(r) => InHand(r)'
  <2> SUFFICES ASSUME InHand(r)
               PROVE  InHand(r)'
    OBVIOUS
  <2>1. hand' = hand
    BY <1>1, <1>2 DEF InHand
  <2> QED
    BY <2>1, <1>6, Zenon DEF InHand
<1>8. ASSUME NEW i \in 1..Len(backlog), InBacklog(r, i)
      PROVE  i \in 1..Len(backlog') /\ InBacklog(r, i)'
  <2>1. /\ i - 1 \in Nat /\ i - 1 <= Len(backlog) /\ i - 1 <= Len(backlog')
        /\ \A j \in 1..(i - 1) : j \in 1..Len(backlog)
    BY <1>1, <1>4
  <2>2. \A j \in 1..(i - 1) : Cost(backlog'[j]) = Cost(backlog[j])
    BY <2>1, <1>3, <1>4, Zenon
  <2>3. Costs(backlog')[i - 1] = Costs(backlog)[i - 1]
    BY <2>1, <2>2, <1>1, <1>4, CostsAgree, Zenon
  <2>4. backlog'[i] = backlog[i]
    BY <1>2, <1>4, <1>8 DEF InBacklog
  <2> QED
    BY <1>4, <1>5, <1>6, <1>8, <2>3, <2>4, Zenon DEF InBacklog
<1> QED
  BY <1>7, <1>8, Zenon DEF Served

(* Time passes for the sender and for the challenger alike.                *)
LEMMA ServedAfterTick ==
  ASSUME Typed, InTime, NEW r \in Receivers, rpc[r] = "signature", Served(r), Tick
  PROVE  Served(r)'
<1>1. /\ UNCHANGED <<spc, tries, slot, hand, backlog, budget>>
      /\ rclock'[r] = rclock[r] + 1 /\ SenderMayWait /\ spc # "pause"
      /\ sclock' = sclock + 1 /\ left' = left
  BY DEF Tick, Served
<1>2. spc # "listen"
  <2> SUFFICES ASSUME spc = "listen"
               PROVE  FALSE
    OBVIOUS
  <2>1. backlog = << >>
    BY <1>1 DEF SenderMayWait
  <2>2. hand = Nobody
    BY DEF Typed, TypeOK
  <2>3. 1..Len(backlog) = {}
    BY <2>1
  <2> QED
    BY <2>2, <2>3, Zenon DEF Served, InHand
<1>3. hand # Nobody
  BY <1>1, <1>2 DEF Typed, TypeOK
<1>4. SlotsLeft' = SlotsLeft
  BY <1>1, Zenon DEF SlotsLeft
<1>5. PICK clock \in Nat, rem \in Nat : clock = rclock[r] /\ rem = Remaining
  BY Ahead DEF Typed, TypeOK
<1>6. Remaining' = rem - 1
  <2>1. spc \in {"read", "sign"}
    BY <1>1, <1>2 DEF Typed, TypeOK
  <2> QED
    BY <2>1, <1>1, <1>5, TickRemaining, Zenon
<1>7. /\ rclock'[r] + Remaining' = (clock + 1) + (rem - 1)
      /\ (clock + 1) + (rem - 1) = clock + rem
  BY <1>1, <1>5, <1>6
<1>8. InHand(r) => InHand(r)'
  BY <1>1, <1>5, <1>7, Zenon DEF InHand
<1>9. \A i \in 1..Len(backlog) : InBacklog(r, i) => InBacklog(r, i)'
  BY <1>1, <1>4, <1>5, <1>7, Zenon DEF InBacklog
<1> QED
  BY <1>1, <1>8, <1>9, Zenon DEF Served

LEMMA InitAffordable == Init => Affordable
  BY DEF Init, Affordable

LEMMA NextAffordable ==
  ASSUME Typed, InTime, Typed', Connections, Events, Affordable, [Next]_vars
  PROVE  Affordable'
<1> SUFFICES ASSUME NEW r \in Receivers, Attended(r)'
             PROVE  Served(r)'
  BY Zenon DEF Affordable, Attended, Served
<1>r. rpc'[r] = "signature" /\ attended'[r] /\ event'[r] = current'
  BY DEF Attended
<1>s. Attended(r) => Served(r)
  BY AffordableIsServed
<1>t. /\ backlog \in Seq(Waiting) /\ hand \in Waiting \cup {Nobody}
      /\ spc \in {"read", "sign"} <=> hand # Nobody
      /\ rpc \in [Receivers -> {"event", "connect", "signature", "blink"}]
      /\ rclock \in [Receivers -> Nat] /\ event \in [Receivers -> 0..MaxSends]
      /\ budget \in [Receivers -> Nat] /\ attended \in [Receivers -> BOOLEAN]
      /\ \A c \in Waiting : c.from \in Receivers
  BY DEF Typed, TypeOK, Waiting
(* A sender that listens to an empty backlog serves nobody.                *)
<1>e. ASSUME Served(r), spc = "listen", backlog = << >>
      PROVE  FALSE
  <2>1. 1..Len(backlog) = {} /\ hand = Nobody
    BY <1>e, <1>t
  <2> QED
    BY <1>e, <2>1, Zenon DEF Served, InHand
<1>1. CASE StartSend
  <2>1. event'[r] <= current /\ current' = current + 1 /\ current \in Nat
    BY <1>1 DEF StartSend, Events, Typed, TypeOK
  <2> QED
    BY <2>1, <1>r
<1>2. CASE Accept
  <2>1. Attended(r) /\ spc' # "pause" /\ hand = Nobody
    BY <1>2, <1>r, <1>t DEF Accept, receivers, Attended
  <2>2. PICK i \in 1..Len(backlog) : InBacklog(r, i)
    BY <2>1, <1>s, Zenon DEF Served, InHand
  <2> QED
    BY <1>2, <2>1, <2>2, MovesUp, Zenon DEF Served
<1>3. CASE ListenEnds
  BY <1>3, <1>e, <1>r, <1>s DEF ListenEnds, Attended
<1>4. CASE Read
  <2>1. /\ UNCHANGED <<current, backlog, event, budget, attended>>
        /\ spc = "read" /\ ~hand.mute /\ hand # Nobody
    BY <1>4, <1>t DEF Read
  <2>2. CASE /\ hand.event = current /\ spc' = "sign" /\ sclock' = 0 /\ left' = 0
             /\ UNCHANGED <<tries, slot, queued, hand, heard, rpc, rclock>>
    <3>1. Served(r)
      BY <2>1, <2>2, <1>r, <1>s DEF Attended
    <3>2. UNCHANGED <<tries, slot, hand, backlog, rclock, budget>> /\ spc' = "sign"
      BY <2>1, <2>2
    <3> QED
      BY <2>1, <2>2, <3>1, <3>2, LessRemains, ServedSooner
  <2>3. CASE hand.event # current /\ NextChallenger /\ CutOff(hand)
    <3>1. hand.from \in Receivers
      BY <2>1, <1>t
    <3>2. CASE hand.live /\ spc' = "listen" /\ hand.from = r
      <4>1. PICK next \in {"event", "connect"} :
              rpc' = [rpc EXCEPT ![hand.from] = next]
        BY <2>3, <3>2 DEF CutOff
      <4> QED
        BY <4>1, <3>2, <1>r, <1>t
    <3>3. CASE ~(hand.live /\ spc' = "listen" /\ hand.from = r)
      <4>1. rpc'[r] = rpc[r] /\ rclock'[r] = rclock[r]
        <5>1. CASE hand.live /\ spc' = "listen"
          <6>1. PICK next \in {"event", "connect"} :
                  rpc' = [rpc EXCEPT ![hand.from] = next]
            BY <2>3, <5>1 DEF CutOff
          <6>2. rclock' = [rclock EXCEPT ![hand.from] = 0]
            BY <2>3, <5>1 DEF CutOff
          <6> QED
            BY <6>1, <6>2, <5>1, <3>1, <3>3, <1>t
        <5>2. CASE ~(hand.live /\ spc' = "listen")
          BY <2>3, <5>2 DEF CutOff
        <5> QED
          BY <5>1, <5>2
      <4>2. Served(r) /\ event[r] = current
        BY <2>1, <4>1, <1>r, <1>s DEF Attended
      <4>3. ~InHand(r)
        BY <2>3, <4>2 DEF InHand, Connections, Alive
      <4>4. PICK i \in 1..Len(backlog) : InBacklog(r, i)
        BY <4>2, <4>3, Zenon DEF Served
      <4>5. PICK clock \in Nat : clock = rclock'[r] /\ clock <= rclock[r]
        BY <4>1, <1>t
      <4>6. spc \in {"read", "sign"} /\ UNCHANGED <<current, backlog, budget>>
        BY <2>1
      <4> QED
        BY <2>3, <4>4, <4>5, <4>6, ServedNext, Zenon
    <3> QED
      BY <3>2, <3>3
  <2> QED
    BY <1>4, <2>2, <2>3 DEF Read
<1>5. CASE ReadTimeout
  BY <1>5, <1>r DEF ReadTimeout
<1>6. CASE Answer
  <2>1. /\ UNCHANGED <<current, backlog, event, budget, attended>>
        /\ spc = "sign" /\ NextChallenger /\ hand # Nobody /\ hand.from \in Receivers
    BY <1>6, <1>t DEF Answer
  <2>2. ~(hand.live /\ hand.from = r) /\ rpc'[r] = rpc[r] /\ rclock'[r] = rclock[r]
    BY <1>6, <2>1, <1>r, <1>t DEF Answer
  <2>3. Served(r) /\ ~InHand(r)
    BY <2>1, <2>2, <1>r, <1>s DEF Attended, InHand
  <2>4. PICK i \in 1..Len(backlog) : InBacklog(r, i)
    BY <2>3, Zenon DEF Served
  <2>5. PICK clock \in Nat : clock = rclock'[r] /\ clock <= rclock[r]
    BY <2>2, <1>t
  <2>6. spc \in {"read", "sign"} /\ UNCHANGED <<current, backlog, budget>>
    BY <2>1
  <2> QED
    BY <2>1, <2>4, <2>5, <2>6, ServedNext, Zenon
<1>7. ASSUME NEW q \in Receivers, Hear(q)
      PROVE  Served(r)'
  <2>1. /\ UNCHANGED <<spc, sclock, left, tries, slot, hand, backlog, current>>
        /\ UNCHANGED <<budget, attended>>
        /\ r # q /\ rpc'[r] = rpc[r] /\ rclock'[r] = rclock[r] /\ event'[r] = event[r]
    BY <1>7, <1>r, <1>t DEF Hear, sender
  <2>2. Served(r)
    BY <2>1, <1>r, <1>s DEF Attended
  <2> QED
    BY <2>1, <2>2, ServedStays
<1>8. ASSUME NEW q \in Receivers, Connect(q)
      PROVE  Served(r)'
  <2>1. CASE q = r
    BY <1>8, <2>1, ServedOnceConnected
  <2>2. CASE q # r
    <3>1. /\ UNCHANGED <<spc, sclock, left, tries, slot, hand, current, event>>
          /\ Join(q, FALSE) /\ rpc'[r] = rpc[r] /\ rclock'[r] = rclock[r]
          /\ budget'[r] = budget[r] /\ attended'[r] = attended[r]
      BY <1>8, <2>2, <1>t DEF Connect, sender
    <3>2. Served(r) /\ FALSE \in BOOLEAN
      BY <3>1, <1>r, <1>s DEF Attended
    <3> QED
      BY <3>1, <3>2, ServedWhenJoined
  <2> QED
    BY <2>1, <2>2
<1>9. ASSUME NEW q \in Receivers, FallSilent(q)
      PROVE  Served(r)'
  <2>1. /\ UNCHANGED <<spc, sclock, left, tries, slot, hand, current, event>>
        /\ UNCHANGED <<budget, attended>> /\ Join(q, TRUE)
        /\ r # q /\ rpc'[r] = rpc[r] /\ rclock'[r] = rclock[r]
    BY <1>9, <1>r, <1>t DEF FallSilent, sender
  <2>2. Served(r) /\ TRUE \in BOOLEAN
    BY <2>1, <1>r, <1>s DEF Attended
  <2>3. budget'[r] = budget[r]
    BY <2>1
  <2> QED
    BY <2>1, <2>2, <2>3, ServedWhenJoined
<1>10. ASSUME NEW q \in Receivers, ConnectGivesUp(q) \/ BlinkEnds(q)
       PROVE  Served(r)'
  <2>1. /\ UNCHANGED <<spc, sclock, left, tries, slot, hand, backlog, current>>
        /\ UNCHANGED <<budget, attended, event>>
        /\ r # q /\ rpc'[r] = rpc[r] /\ rclock'[r] = rclock[r]
    BY <1>10, <1>r, <1>t DEF ConnectGivesUp, BlinkEnds, sender
  <2>2. Served(r)
    BY <2>1, <1>r, <1>s DEF Attended
  <2> QED
    BY <2>1, <2>2, ServedStays
<1>11. ASSUME NEW q \in Receivers, GiveUp(q)
       PROVE  Served(r)'
  <2>1. /\ UNCHANGED <<spc, sclock, left, tries, slot, current, budget, attended, event>>
        /\ backlog' = [i \in 1..Len(backlog) |-> Forget(backlog[i], q)]
        /\ hand' = Forget(hand, q)
        /\ q # r /\ rpc'[r] = rpc[r] /\ rclock'[r] = rclock[r]
    BY <1>11, <1>r, <1>t DEF GiveUp
  <2>2. Served(r) /\ budget'[r] = budget[r]
    BY <2>1, <1>r, <1>s DEF Attended
  <2> QED
    BY <2>1, <2>2, ServedWhenForgotten
<1>12. CASE Tick
  <2>1. Attended(r) /\ rpc[r] = "signature"
    BY <1>12, <1>r DEF Tick, Attended
  <2> QED
    BY <1>12, <2>1, <1>s, ServedAfterTick
<1>13. CASE UNCHANGED vars
  <2>1. Served(r)
    BY <1>13, <1>r, <1>s DEF vars, sender, receivers, Attended
  <2> QED
    BY <1>13, <2>1, ServedStays DEF vars, sender, receivers
<1>14. CASE ReadPart
  <2>1. /\ spc = "read" /\ spc' = "read" /\ sclock' = 0
        /\ left > 1 /\ left' = left - 1
        /\ UNCHANGED <<tries, slot, hand, backlog, current>>
        /\ UNCHANGED <<rpc, rclock, event, budget, attended>>
    BY <1>14 DEF ReadPart, receivers
  <2>2. Served(r)
    BY <2>1, <1>r, <1>s DEF Attended
  <2> QED
    BY <2>1, <2>2, LessRemains, ServedSooner
<1> QED
  BY <1>1, <1>2, <1>3, <1>4, <1>5, <1>6, <1>7, <1>8, <1>9, <1>10, <1>11,
     <1>12, <1>13, <1>14 DEF Next

LEMMA WaitIsPaidFor == WaitInv => WaitBounded
<1> SUFFICES ASSUME Typed, InTime, Affordable, NEW r \in Receivers, Attended(r)
             PROVE  rclock[r] <= budget[r]
  BY DEF WaitInv, WaitBounded, Attended
<1>1. Served(r)
  BY AffordableIsServed
<1>2. PICK clock \in Nat, b \in Nat, rem \in Nat :
        clock = rclock[r] /\ b = budget[r] /\ rem = Remaining
  BY Ahead DEF Typed, TypeOK
<1>3. CASE InHand(r)
  <2>1. clock + rem <= b
    BY <1>2, <1>3, Zenon DEF InHand
  <2> QED
    BY <1>2, <2>1
<1>4. ASSUME NEW i \in 1..Len(backlog), InBacklog(r, i)
      PROVE  rclock[r] <= budget[r]
  <2>1. backlog \in Seq(Waiting) /\ i - 1 \in 0..Len(backlog)
    BY DEF Typed, TypeOK
  <2>2. PICK cost \in Nat : cost = Costs(backlog)[i - 1]
    BY <2>1, CostsDef
  <2>3. clock + rem + cost + TurnTime <= b
    BY <1>2, <1>4, <2>2, Zenon DEF InBacklog
  <2>4. TurnTime \in Nat
    BY CostOf, Zenon
  <2> QED
    BY <1>2, <2>3, <2>4
<1> QED
  BY <1>1, <1>3, <1>4, Zenon DEF Served

(* A challenger that has a slot never waits longer than the challenges     *)
(* ahead of it and its own take, in as many recv() calls as they need and  *)
(* with their signatures.                                                  *)
THEOREM WaitIsBounded == Spec => []WaitBounded
<1>1. Init => SendInv /\ WaitInv
  BY InitTyped, InitSend, InitConnections, InitEvents, InitAffordable
     DEF SendInv, WaitInv
<1>2. SendInv /\ WaitInv /\ [Next]_vars => (SendInv /\ WaitInv)'
  BY NextTyped, NextSend, NextConnections, NextEvents, NextAffordable
     DEF SendInv, WaitInv
<1>3. WaitInv => WaitBounded
  BY WaitIsPaidFor
<1> QED
  BY <1>1, <1>2, <1>3, PTL DEF Spec

-----------------------------------------------------------------------------
(* When a turn always comes                                                *)

(* Every challenger that connects sends its whole challenge, so that nobody*)
(* pays for more than the turns of a full queue, of one in work and its    *)
(* own.                                                                    *)
Prompt ==
    /\ \A i \in 1..Len(backlog) : ~backlog[i].mute
    /\ hand # Nobody => ~hand.mute
    /\ \A r \in Receivers : budget[r] <= (TrustedCount + 1) * TurnTime

TurnInv == SendInv /\ WaitInv /\ Prompt /\ TurnComes

LEMMA CostsOfPrompt ==
  ASSUME NEW s \in Seq(Waiting), \A i \in 1..Len(s) : ~s[i].mute,
         NEW m \in 0..Len(s)
  PROVE  Costs(s)[m] = m * TurnTime
<1> DEFINE S == {n \in Nat : n <= Len(s) => Costs(s)[n] = n * TurnTime}
<1>l. Len(s) \in Nat
  OBVIOUS
<1>t. TurnTime \in Nat
  BY CostOf, Zenon
<1>1. 0 \in S
  BY CostsDef, <1>t
<1>2. ASSUME NEW n \in Nat, n \in S
      PROVE  n + 1 \in S
  <2> SUFFICES ASSUME n + 1 <= Len(s)
               PROVE  Costs(s)[n + 1] = (n + 1) * TurnTime
    OBVIOUS
  <2>1. n \in 0..(Len(s) - 1) /\ n + 1 \in 1..Len(s) /\ n <= Len(s)
    BY <1>l
  <2>2. Costs(s)[n + 1] = Costs(s)[n] + Cost(s[n + 1])
    BY <2>1, CostsDef
  <2>3. Cost(s[n + 1]) = TurnTime
    <3>1. s[n + 1] \in Waiting
      BY <2>1
    <3> QED
      BY <3>1, <2>1, CostOf, Zenon
  <2>4. Costs(s)[n] = n * TurnTime
    BY <1>2, <2>1
  <2>5. (n + 1) * TurnTime = n * TurnTime + TurnTime
    BY <1>t, Multiples, Zenon
  <2> QED
    BY <2>2, <2>3, <2>4, <2>5, Zenon
<1> HIDE DEF S
<1>3. \A n \in Nat : n \in S
  BY <1>1, <1>2, Induction
<1> QED
  BY <1>3, <1>l DEF S

(* What a prompt challenger pays for.                                      *)
LEMMA PromptBudget ==
  ASSUME Typed, Prompt, NEW r \in Receivers, Connect(r)
  PROVE  budget'[r] <= (TrustedCount + 1) * TurnTime
<1>1. /\ backlog \in Seq(Waiting) /\ Len(backlog) \in Nat
      /\ Len(backlog) < TrustedCount /\ TrustedCount \in Nat
      /\ budget'[r] = Cost(hand) + Costs(backlog)[Len(backlog)] + TurnTime
  BY Times DEF Connect, Room, Typed, TypeOK
<1>t. TurnTime \in Nat
  BY CostOf, Zenon
<1>2. PICK own \in Nat : own = Cost(hand) /\ own <= TurnTime
  <2>1. hand = Nobody \/ (hand \in Waiting /\ ~hand.mute)
    BY DEF Prompt, Typed, TypeOK
  <2>2. hand = Nobody => Cost(hand) = 0
    BY DEF Cost
  <2>3. hand \in Waiting /\ ~hand.mute => Cost(hand) = TurnTime
    BY CostOf, Zenon
  <2> QED
    BY <2>1, <2>2, <2>3, <1>t
<1>3. PICK ahead \in Nat :
        /\ ahead = Costs(backlog)[Len(backlog)]
        /\ ahead = Len(backlog) * TurnTime
  <2>1. Len(backlog) \in 0..Len(backlog)
    BY <1>1
  <2>2. Costs(backlog)[Len(backlog)] = Len(backlog) * TurnTime
    BY <2>1, <1>1, CostsOfPrompt DEF Prompt
  <2>3. Len(backlog) * TurnTime \in Nat
    BY <1>1, <1>t, Multiples, Zenon
  <2> QED
    BY <2>2, <2>3, Zenon
<1>4. PICK all \in Nat :
        /\ all = TrustedCount * TurnTime
        /\ (TrustedCount + 1) * TurnTime = all + TurnTime
  BY <1>1, <1>t, Multiples, Zenon
<1>5. ahead + TurnTime <= all
  <2>1. Len(backlog) + 1 \in Nat /\ Len(backlog) + 1 <= TrustedCount
    BY <1>1
  <2>2. (Len(backlog) + 1) * TurnTime <= TrustedCount * TurnTime
    BY <2>1, <1>1, <1>t, Multiples, Zenon
  <2>3. (Len(backlog) + 1) * TurnTime = Len(backlog) * TurnTime + TurnTime
    BY <1>1, <1>t, Multiples, Zenon
  <2> QED
    BY <2>2, <2>3, <1>3, <1>4, Zenon
<1>6. own + ahead + TurnTime <= all + TurnTime
  BY <1>2, <1>5, <1>t
<1> QED
  BY <1>1, <1>2, <1>3, <1>4, <1>6, Zenon

(* No challenger for the running event gives up on a sender that attends   *)
(* to it, if nobody falls silent and CONFIG_TCP_COMMUNICATON_TIMEOUT is    *)
(* longer than all the turns of a full queue, of one more in work and its  *)
(* own, where a turn is what recv() may wait for every piece of a challenge*)
(* and then the signature: what .ipp:575-576 asks of the configuration.    *)
THEOREM TurnAlwaysComes ==
  ASSUME MaxSilent = 0, (TrustedCount + 1) * TurnTime < CommTimeout
  PROVE  Spec => []TurnComes
<1>1. Init => TurnInv
  <2> SUFFICES ASSUME Init
               PROVE  Prompt /\ TurnComes
    BY InitTyped, InitSend, InitConnections, InitEvents, InitAffordable
       DEF SendInv, WaitInv, TurnInv
  <2>1. (TrustedCount + 1) * TurnTime \in Nat
    <3>1. TrustedCount + 1 \in Nat /\ TurnTime \in Nat
      BY Times, CostOf
    <3> QED
      BY <3>1, Multiples, Zenon
  <2>2. \A r \in Receivers : budget[r] = 0 /\ ~gaveUp[r]
    BY DEF Init
  <2>3. \A r \in Receivers : budget[r] <= (TrustedCount + 1) * TurnTime
    BY <2>1, <2>2
  <2> QED
    BY <2>2, <2>3 DEF Init, Prompt, TurnComes
<1>2. TurnInv /\ [Next]_vars => TurnInv'
  <2> SUFFICES ASSUME SendInv, WaitInv, Prompt, TurnComes, [Next]_vars
               PROVE  Prompt' /\ TurnComes'
    BY NextTyped, NextSend, NextConnections, NextEvents, NextAffordable
       DEF SendInv, WaitInv, TurnInv
  <2>t. /\ Typed /\ backlog \in Seq(Waiting) /\ Len(backlog) \in Nat
        /\ hand \in Waiting \cup {Nobody}
        /\ budget \in [Receivers -> Nat] /\ gaveUp \in [Receivers -> BOOLEAN]
    BY DEF SendInv, Typed, TypeOK
  <2>n. spc # "pause" /\ current' = current /\ (NextTry \/ NextChallenger)
          => hand' = Nobody
    BY <2>t, NextTryTyped, NextChallengerTyped
  <2>1. ASSUME UNCHANGED <<backlog, budget, gaveUp>>, hand' \in {hand, Nobody}
        PROVE  Prompt' /\ TurnComes'
    BY <2>1 DEF Prompt, TurnComes
  <2>2. CASE Accept
    <3>1. /\ hand' = backlog[1] /\ 1 \in 1..Len(backlog)
          /\ \A i \in 1..Len(backlog') :
               i + 1 \in 1..Len(backlog) /\ backlog'[i] = backlog[i + 1]
          /\ UNCHANGED <<budget, gaveUp>>
      BY <2>2, <2>t DEF Accept, receivers
    <3> QED
      BY <3>1, Zenon DEF Prompt, TurnComes
  <2>3. CASE StartSend \/ ListenEnds \/ Read \/ ReadTimeout \/ Answer
    <3>1. UNCHANGED <<backlog, budget, gaveUp>>
      BY <2>3 DEF StartSend, ListenEnds, Read, ReadTimeout, Answer
    <3>2. hand' \in {hand, Nobody}
      BY <2>3, <2>n
         DEF StartSend, Broadcast, ListenEnds, Read, ReadTimeout, Return, Answer
    <3> QED
      BY <3>1, <3>2, <2>1
  <2>4. ASSUME NEW q \in Receivers, Connect(q)
        PROVE  Prompt' /\ TurnComes'
    <3>1. /\ hand' = hand /\ gaveUp' = [gaveUp EXCEPT ![q] = FALSE]
          /\ \A r \in Receivers : r # q => budget'[r] = budget[r]
          /\ Join(q, FALSE)
      BY <2>4, <2>t DEF Connect, sender
    <3>2. \A r \in Receivers : budget'[r] <= (TrustedCount + 1) * TurnTime
      BY <2>4, <2>t, <3>1, PromptBudget DEF Prompt
    <3>3. \A i \in 1..Len(backlog') : ~backlog'[i].mute
      <4>1. FALSE \in BOOLEAN
        OBVIOUS
      <4>2. /\ Len(backlog') = Len(backlog) + 1
            /\ backlog'[Len(backlog) + 1] =
                 [from |-> q, event |-> event[q], live |-> ~FALSE, mute |-> FALSE]
            /\ \A i \in 1..Len(backlog) : backlog'[i] = backlog[i]
        BY <4>1, <3>1, <2>t, JoinedBehind, Zenon
      <4>3. \A i \in 1..Len(backlog') :
              i \in 1..Len(backlog) \/ i = Len(backlog) + 1
        BY <4>2, <2>t
      <4>4. ~[from |-> q, event |-> event[q], live |-> ~FALSE, mute |-> FALSE].mute
        OBVIOUS
      <4> QED
        BY <4>2, <4>3, <4>4, Zenon DEF Prompt
    <3>4. TurnComes'
      BY <3>1, <2>t DEF TurnComes
    <3> QED
      BY <3>1, <3>2, <3>3, <3>4 DEF Prompt
  <2>5. ASSUME NEW q \in Receivers, FallSilent(q)
        PROVE  FALSE
    BY <2>5, <2>t DEF FallSilent, Typed, TypeOK
  <2>6. ASSUME NEW q \in Receivers, GiveUp(q)
        PROVE  Prompt' /\ TurnComes'
    <3>1. /\ backlog' = [i \in 1..Len(backlog) |-> Forget(backlog[i], q)]
          /\ hand' = Forget(hand, q) /\ budget' = budget
          /\ gaveUp' = [gaveUp EXCEPT ![q] = attended[q] /\ event[q] = current]
          /\ rpc[q] = "signature" /\ rclock[q] = CommTimeout
      BY <2>6 DEF GiveUp
    <3>2. \A c \in Waiting : Forget(c, q).mute = c.mute
      BY DEF Forget, Waiting
    <3>3. /\ \A i \in 1..Len(backlog) :
               backlog[i] \in Waiting /\ backlog'[i] = Forget(backlog[i], q)
          /\ Len(backlog') = Len(backlog)
      BY <3>1, <2>t
    <3>4. \A i \in 1..Len(backlog') : ~backlog'[i].mute
      BY <3>2, <3>3, Zenon DEF Prompt
    <3>5. hand' # Nobody => ~hand'.mute
      BY <3>1, <3>2, <2>t DEF Prompt, Forget
    <3>6. ~(attended[q] /\ event[q] = current)
      <4> SUFFICES ASSUME attended[q], event[q] = current
                   PROVE  FALSE
        OBVIOUS
      <4>1. WaitBounded
        BY WaitIsPaidFor
      <4>2. rclock[q] <= budget[q] /\ budget[q] <= (TrustedCount + 1) * TurnTime
        BY <3>1, <4>1 DEF WaitBounded, Prompt
      <4>3. PICK b \in Nat, all \in Nat :
              b = budget[q] /\ all = (TrustedCount + 1) * TurnTime
        <5>1. TrustedCount + 1 \in Nat /\ TurnTime \in Nat
          BY Times, CostOf
        <5> QED
          BY <5>1, <2>t, Multiples, Zenon
      <4>4. CommTimeout <= b /\ b <= all /\ all < CommTimeout
        BY <3>1, <4>2, <4>3, Zenon
      <4> QED
        BY <4>3, <4>4, Times
    <3>7. TurnComes'
      BY <3>1, <3>6, <2>t DEF TurnComes
    <3> QED
      BY <3>1, <3>4, <3>5, <3>7 DEF Prompt
  <2>7. ASSUME NEW q \in Receivers, Hear(q) \/ ConnectGivesUp(q) \/ BlinkEnds(q)
        PROVE  Prompt' /\ TurnComes'
    BY <2>1, <2>7 DEF Hear, ConnectGivesUp, BlinkEnds, sender
  <2>8. CASE Tick
    BY <2>1, <2>8 DEF Tick
  <2>9. CASE UNCHANGED vars \/ ReadPart
    BY <2>1, <2>9 DEF ReadPart, vars, sender, receivers
  <2> QED
    BY <2>2, <2>3, <2>4, <2>5, <2>6, <2>7, <2>8, <2>9 DEF Next
<1>3. TurnInv => TurnComes
  BY DEF TurnInv
<1> QED
  BY <1>1, <1>2, <1>3, PTL DEF Spec

=============================================================================
