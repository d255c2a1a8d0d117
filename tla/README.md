# A TLA+ model of the decentralized event system

Sensor nodes on one Wi-Fi network announce events to each other.  An event is a
UDP broadcast that anybody could forge, so a node that hears one connects to its
sender by TCP, sends a random nonce, and takes the event for real only when the
answer carries a signature over event and nonce that verifies under a listed key.

These modules model that protocol and the code around it as it stands under
`src/main`, check it with TLC on small instances, and prove every
safety property the runs check, and the refinement of the abstract
specification, with TLAPS for every instance.  Line numbers refer to
`network_event_handler.ipp` (`.ipp`) where no other file is named.
`PROJECT.json` holds, for each definition, the lines it stands for.

## 1. The system

| Part | State | Operations | Talks to |
|---|---|---|---|
| `main_task`, `sender_node_task`, `receiver_node_task`, `wifi_ap_task` | none but locals | endless loops; a task that returns is started again | Wi-Fi handlers, event handler |
| `network_event_handler` | `m_current_mode`, event socket, acceptor, one `m_challenge_socket`, keys, signature engine | `init`, `send`, `await`, `set_mode` | sockets, signature engine, codec |
| `tcp_socket_acceptor`, `tcp_socket_connection` | a descriptor, its timeouts | `init`, `listen`; `connect`, `send`, `receive`, `disconnect`, `set_*_timeout` | lwIP |
| `udp_socket` | a descriptor | `init_sender`, `init_receiver`, `send`, `receive`, `set_broadcast` | lwIP |
| `safe_lwip_socket` | a descriptor, owned | move, close | lwIP |
| `basic_codec` | none | `serialize`, `deserialize`, `serialize_at` | |
| `signature_engine`, `hash_engine` | mbedTLS contexts, bits saying which are initialized | `init`, `set_verification_key`, `sign`, `verify`; `hash` | mbedTLS |
| `wifi::client_handler` | `m_handle`; locals of `connect()` shared with its event handlers | `connect`, `disconnect`, four events | ESP-IDF driver and event loop |
| `wifi::access_point_handler` | `m_handle`; a flag of `create()` shared with its event handler | `create`, `destroy`, events | ESP-IDF driver and event loop |
| `wifi::generic_handler` | which of three one-time initializations are done | `generic_init`, `generic_deinit` | ESP-IDF |
| `keygen.py`, `event_keys.hpp`, `simple_event.hpp`, `Kconfig.projbuild` | constants | | |

Each node runs one task, so nothing inside `network_event_handler` is
concurrent.  What is concurrent is

* the nodes: a sender serves its challengers one after the other out of the
  acceptor's queue, while each receiver goes through its own sequence of gotos;
* the network: datagrams are lost, delayed, duplicated and reordered, a
  connection may sit in a queue across several calls of `send()`;
* failures: every socket call may fail, with an `errno` that decides between
  retry, next challenger, start over and return; nodes restart at any moment;
* the Wi-Fi event handlers, which run on the task of the event loop and work on
  locals of the call that registered them.

What makes each part correct:

* **send/await.** What `await()` returns was signed by a listed sender over a
  nonce this receiver issued for this event, while that sender was sending this
  event and after it had been put on the air.  Each delivery costs a nonce.  A
  sender that has read a challenge agrees with the waiting receiver on peer,
  event and nonce.  `send()` returns, and a receiver leaves every handshake
  whose connections do not break again and again for ever.
* **byte transfer.** A message arrives whole or not at all, whatever the sockets
  take or give at a time; fields come out as they went in; the bytes verified are
  the bytes signed.
* **Wi-Fi station.** A lost access point does not go unnoticed; a flag that stays
  set wakes `connect()`; no interface is leaked or destroyed twice; no event
  handler outlives the locals it points to.
* **Wi-Fi access point.** Interfaces and event handlers of `create()`, likewise.
* **Waiting.** A challenger waits for those ahead of it and for nothing else;
  `send()` returns within a time fixed by the configuration and by how many
  pieces a challenge comes in.
* **Descriptors.** Each open descriptor has one owner, whichever call failed; a
  handler that believes it is in a mode has that mode's sockets.
* **Signature engine.** Nothing is used that was not initialized, wherever
  `init()` has stopped; an answer is verified under the whole key listed for its
  id.

The hazards at which these properties are aimed are listed in `PROJECT.json`,
each with its line and the properties that would notice it go wrong.

## 2. Modules

```
SocketErrors ──┬─> NetworkEventHandler ──> MCNetworkEventHandler   (TLC)
               │     │     └────────────> NetworkEventHandlerProofs (TLAPS)
EventDelivery <┼─────┘ refinement                └─> EventDeliveryProofs (TLAPS)
MessageCodec ──┴─> TcpTransfer ──> TcpTransferProofs               (TLAPS)
NaturalRecursion ──────────────────┘     (also used by ChallengeTimingProofs)
ChallengeTiming ──> MCChallengeTiming                               (TLC)
    └─────────────> ChallengeTimingProofs                           (TLAPS)
SignatureEngine ┬─> HandlerLifecycle ──> MCHandlerLifecycle         (TLC)
HandlerSockets ─┘     └────────────────> HandlerLifecycleProofs     (TLAPS)
WifiDriver ──┬─> WifiClient ──> WifiClientProofs                    (TLAPS)
             └─> WifiAccessPoint ──> WifiAccessPointProofs          (TLAPS)
```

**`SocketErrors`**: one operator for each `switch (error.value())` of the event
handler: which `errno` means *retry* and which code the others become.

**`NetworkEventHandler`**: `send()` on the senders, `await()` on the receivers,
and the network.  An action is one return of a blocking call (or of `sign` and
`verify`) with all the code up to the next one, so `pc` names the call a node is
in: `broadcast`, `listen`, `receive`, `sign`, `reply` in `send()`; `event`,
`connect`, `challenge`, `signature` in `await()`.  `tries` is `tries_left` of the
running retry loop, `loop` holds `tries_left`, `i` and the choice of
`listen_timeout` of `send()`.  `Return`, `Proceed`, `Retry`, `NextTry`,
`NextChallenger`, `TryReceiveEvent` and `TryConnectToSender` are the returns,
loops and gotos.  For each blocking call there is an action for its success, one
for its failure with any `errno` of `Errnos`, and, where the socket has one, one
for its timeout.  `sock` is `m_challenge_socket`: it outlives returns with an
error, as in the code, and is closed on entry to the next `listen()` or
`connect()`.  `Reboot` restarts a node, `LoseDatagram` drops a datagram, and
`ReceiveEvent` may leave a copy behind.  A signature is represented by who made
it, so it verifies under one key only and over the body it travels with;
a nonce is a number never used before.

**`EventDelivery`**: the promise to the callers of `send()` and `await()`,
without sockets, retries or messages: sends begin, are aired and end; challenges
are issued, vouched for, delivered or abandoned.

**`MessageCodec`, `TcpTransfer`**: one message between `challenge_socket_send`
and `challenge_socket_receive`, byte by byte, with the codec as functions on
arrays of bytes, integers reversed on both sides, the signature written into the
serialized message by `serialize_at`.  `Weight` is what a byte of an integer
counts for.  At the end of the stream `recv` returns 0
and `errno` is lwIP's `ENOTCONN`; `NetworkEventHandler` sees that, like a
timeout, as an `errno` no switch lists.

**`ChallengeTiming`**: `send()` of one sender and `await()` of its receivers with
clocks.  `NetworkEventHandler` lets a timeout end a call at any moment; here it
ends it when it is over, so that waiting can be compared with what is waited for.
`Tick` lets a unit of time pass and is disabled while somebody has something due;
computing takes no time, signing at most `Service`.  A challenge does not arrive
with its connection: `ReadPart` is a call of `recv()` that gets a piece of it, of
which there are at most `Parts`; each piece comes up to `Delay` after it has been
asked for, and the timeout of `recv()` begins anew with each (`RecvTime`).
`backlog` is the acceptor's queue and holds connections whose receivers have
given up on them (`live = FALSE`) or went off before all of their challenge was
sent (`mute`); a connection left there by one `send()` meets the next.  `Cost` is
what a connection may cost the sender, waiting and signing together, `TurnTime`
that of one that is not mute, `Costs` the sum over the queue; a challenger that
gets its slot is given the sum of all that is ahead of it and its own as its
`budget`.  Socket errors other than timeouts are left to `NetworkEventHandler`.

**`NaturalRecursion`** models no code: it holds the facts about natural numbers
the proofs about recursive functions rest on (section 4).

**`SignatureEngine`** and **`HandlerSockets`** are two components over variables of
their own, **`HandlerLifecycle`** their owner: a task constructs a handler,
initializes it, calls `send()` or `await()` over and over, and, where it ends,
destroys it before `main_task` starts the next.  `SignatureEngine` has the four
mbedTLS contexts, the bits of `m_state` and the two keys; `init` may fail at each
call that can.  `HandlerSockets` has what lwIP knows of each descriptor, the
three members, and the local of the running call, through every socket call of
`set_mode`, `listen` and `connect`.  Messages and retries are those of
`NetworkEventHandler`; in `HandlerLifecycle` any call may fail, and what is
checked is what it leaves behind.  The role `"both"` stands for a caller that
mixes `send()` and `await()` and lets its handler go, which the interface allows
and no task does.  `Verify` lets any key have signed an answer.

**`WifiDriver`**: ESP-IDF as seen by the handlers (external), and
`generic_handler`.  **`WifiClient`** and **`WifiAccessPoint`**: `connect()` and
`create()` as one step per ESP-IDF call, each of which may fail and jump to
`on_error`, or fail unnoticed where the code ignores its result: the removals
behind `on_error`, and `esp_wifi_connect()` in the station's event handlers.  The
history variable `refused` says when that has happened.  The event handlers are
steps of the event loop; `asleep` is a `connect()` blocked in
`connected.wait(false)`, woken by `NotifyOne`.  A handler registered
by a call that has returned writes to a dead stack frame: since `main_task`
calls from the same depth every time, the model lets such a write either be of
no consequence or hit the same variable of the call that runs now.

Definitions marked *Seeded bug* are not part of any specification: each is a
changed form of the definition after it, used to confirm that a property notices
the change.

## 3. Runs

| Run | Configuration | Shows |
|---|---|---|
| `handshake` | 1 sender, 1 receiver, 2 events, 2 connections, 1 retry of the event and of TCP, four kinds of `errno` (retried, broken connection, unreachable, refused outright), fairness | `TypeOK`, `SessionAgreement`, `DeliveredOnce`, `ImplementsEventDelivery`, `SendReturns`, `HandshakeSettles` |
| `keys` | 2 senders under the same id, one of them with a key that is not listed | `AuthenticDelivery` |
| `crowd` | 1 sender, 2 receivers, 2 events, ids and keys in different places | `SessionAgreement`, `ImplementsEventDelivery` |
| `sent_ok` | | violated: `SendOkMeansBroadcast` |
| `accept_errors` | | violated: `TemporaryListenErrorsTolerated` |
| `timing` | 1 sender with 2 calls of `send()` and 1 retry each, 3 receivers, 2 places in the queue, challenges in up to 2 pieces, each up to 1 tick late, 1 receiver that falls silent | `TypeOK`, `WaitBounded`, `SendTakesAtMost` |
| `turn` | 2 receivers, 1 call, no failure | violated: `TurnComes` |
| `lifecycle` | 5 descriptors, 2 listed keys and 1 other, all roles | `TypeOK`, `DescriptorsOwned`, `ModeMatchesSockets`, `OwnPortFree`, `GuardsMeanReady`, `VerdictUnderListedKey` |
| `transfer` | bytes of 4 values, two-byte event ids, one byte each of nonce and signature, 3 bytes in flight, 1 retry | `TypeOK`, `StreamIntact`, `OkMeansWhole`, `VerifiedBodyIsSigned` |
| `station` | 2 calls of `connect()`, 2 reconnects, 3 events in the queue | `TypeOK`, `LossIsNoticed`, `NetifBalanced`, `FlagEndsWait` |
| `station_listeners` | 1 call | violated: `ListenersRemoved` |
| `access_point` | 3 calls of `create()` | `TypeOK`, `OnlyRefusedHandlersStay`, `NetifBalanced` |

Bounds, and why they are enough:

* `MaxAttempts` bounds the connections a receiver makes over all time, and with
  them nonces, messages and deliveries.  It is a bound on the network
  (`AttemptsLeft`): an event is only delivered, and a connection only breaks,
  while the receiver may still make another; a receiver that is to connect is
  never held up by it.  Two let an old connection, nonce or
  datagram meet a new one, in the same `await()` and in the next; everything the
  handler keeps from before is one socket, so a third adds no new kind of
  meeting.  Everything else in `NetworkEventHandler` is finite by itself.
* `MaxRetries`, `UdpRetries` and `TcpRetries` are 0 or 1: a loop that is left on
  its last try and one that goes round are both there.  The tasks use 1, 3 and 3.
* `TrustedCount` is 1 or 2: with one challenger more than that the loop of
  `send()` is cut off by its counter, which occurs.
* `Errnos` has a representative of each branch of each switch that a run is
  about; `EINTR` is excluded by an assumption (lwIP has no signals).
* `crowd` has restarts and no socket errors: two receivers with all the
  failures of `handshake` are covered by the proofs.
* `MaxCalls`, `MaxEvents`: two calls let the handlers of the first meet the
  locals of the second; three events let a loss, a return
  and an address cross.  The code's own
  events are posted beyond `MaxEvents`, only the radio waits.
* In `transfer` a message has at most 6 bytes and 3 fit in the connection, so both sides
  block, are interrupted, and resume in the middle of a field.

* In `timing` the durations are not the defaults but small numbers in which
  every order of events occurs.  A challenge in two pieces, each up to 1 late, and
  `Service` = 1 make a `TurnTime` of 3: into a `CommTimeout` of 7 one connection
  ahead and the own signature fit, two ahead, the most that `TrustedCount` = 2
  queues, do not, so receivers give up in some behaviours and are served in
  others.  A silent challenger may cost 2 * 7, twice the timeout.  With
  `TimePerNode` 1 `connect()` itself gets to time out.  `WaitBounded` and
  `SendTakesAtMost` are stated over the constants.  `MaxSends` = 2 lets a
  connection left by one event meet the next; `MaxSilent` = 1 lets one challenger
  restart before its challenge is complete.  In `turn` a tick is 100 ms and the
  timeouts are the defaults (10, 1, 3, 10); every challenge arrives at once and
  whole (`Parts` 1, `Delay` 0), so nothing but the turn is waited for.
* `lifecycle` needs no bound but the 5 descriptors: three members, one local,
  and one to spare.  Three keys let the key of an earlier answer, that of the
  claimed id and one that is not listed all differ.

`CHECK_DEADLOCK` is off for the Wi-Fi and transfer runs: they end when the
calls, or the one message, are used up.

Fairness is assumed for `handshake` and `station` only.  FreeRTOS runs the one
task of a node, and each blocking call has a timeout: so `SenderStep` and
`ReceiverStep` (the steps in which a call succeeds or times out) are weakly fair,
failures and restarts are not, and neither is a receiver's wait for a datagram,
which may never come.  Nobody has to call `send()` or `await()`.  In
`WifiClient` the main task and the event loop are weakly fair; the driver owes
nothing.  The gotos of .ipp:248 and 261 have no bound, and a sender, or a
network, that breaks every connection keeps a receiver in `await()` for ever.
That this does not happen is the premise of `HandshakeSettles`, which says that
nothing else keeps it there: not silence, not a full queue, not a restart of the
sender that the receiver never hears of.

### What the code does not keep

* **`send()` reports success without having sent** (.ipp:109, run `sent_ok`).
  When every broadcast runs out of tries, `continue` leads to `while
  (--tries_left)`, the loop ends and `codes::ok` is returned.
* **A failing `accept()` ends `send()`** (`tcp_socket_acceptor.cpp:79`, run
  `accept_errors`).  Its error carries the system category, so the temporary
  errors listed at .ipp:541-550 are never recognized there.
* **The station's event handlers stay registered** (`wifi_client_handler.cpp:128`,
  run `station_listeners`).  The two instances are swapped between registration
  and removal, and both removals remove nothing.

* **A receiver does not wait for its turn** (.ipp:577, run `turn`).  The timeout
  that allows for all other nodes bounds `connect()`, which ends when lwIP has
  queued the connection; the turn itself is awaited in `recv()`, which ends after
  300 ms.  What does hold is `WaitBounded`; and nobody that the sender attends to
  gives up if nobody falls silent and `CONFIG_TCP_COMMUNICATON_TIMEOUT` is longer
  than `(TrustedCount + 1) * TurnTime`, where `TurnTime` is what a challenge takes
  to arrive, late and in pieces, and to be signed (theorem `TurnAlwaysComes`).
  This is tight: with the constants of `turn`, where `TurnTime` is 2, but 3
  receivers, 2 calls and a `CommTimeout` of 7 = 3 * 2 + 1, TLC finds no error,
  with 6 it still finds `TurnComes` violated.

Seen while modelling, and not the subject of a run of their own:

* `test_task` default-initializes its engine (`test_task.cpp:26`); if loading the
  curve fails, the destructor frees two contexts that were never initialized
  (`signature_engine.cpp:233`).  In the handler they are never initialized
  either, but `m_signator{}` is zeroed.
* The bit for the verification key stays set when a later key is read half
  (`signature_engine.cpp:96`), and `verify()` would then run with it.  That it
  never does is because `receive_signature` looks at the result (.ipp:484):
  `GuardsMeanReady` says so.
* The timeout set "to limit the time one connection can block the node"
  (.ipp:814) limits each call of `recv()`.  A challenge that trickles in keeps
  `send()` for up to `Parts * CommTimeout` in one slot, as `SendTakesAtMost` says.
* The result of `esp_wifi_connect()` is ignored (`wifi_client_handler.cpp:171`,
  `:202`).  If it fails, no event follows: a station that had an address rests
  without its access point, with the flag set and the retry counted, and
  `connect()` returns `ok`.
* A queued address of an earlier `connect()`, or a handler that one has left,
  sets the flag of the next (`wifi_client_handler.cpp:217`): `ok` does not stand
  for an address of this call.
* Without a timeout `connect()` does not return when its handler gives up, since
  `wait(false)` waits for a set flag (`wifi_client_handler.cpp:205`).
* The results of the removals behind `on_error` are ignored
  (`wifi_access_point_handler.cpp:103`): a handler that ESP-IDF does not remove
  outlives `create()`.
* With a static address a station that has lost its access point and given up
  can still be told of an address (`wifi_client_handler.cpp:193`), and returns
  `ok`: `LossIsNoticed` is about DHCP, which is what the tasks use.
* One silent challenger ends `send()` for all (.ipp:793), since a timeout of
  `recv()` is an internal error.
* A handler that has sent, awaited and sends again cannot listen: its first
  acceptor still has the port (.ipp:56).  No task does that.
* A handler that is initialized twice would use members its destructor has run
  on (.ipp:19).  No task does that either.

## 4. Proofs

Proved for every value of the constants, from the assumptions the modules
declare: counts are natural numbers, at least one key is listed, senders and
receivers are different nodes, wanted events are events, each sender has an id
and a key, `EINTR` does not occur; for the codec, a byte has at least four values
and widths are natural numbers; for the clocks, durations are natural numbers, the
timeouts, `Parts`, `Service` and `TrustedCount` are not 0.  Every `ASSUME` is evaluated by
TLC in some run.

**`NetworkEventHandlerProofs`.**  None of the safety properties is inductive:
that a signature on its way matches the receiver's session depends on what the
sender had in its locals when it signed, and that on the challenge it read, the
queue the connection waited in, and on no two sessions sharing a connection.
`IInv` says all of that:

* `TypeOK`;
* `SenderScope`, `ReceiverScope`: which locals hold what at which call;
* `Provenance`: a signature on its way or about to be written is in `vouched`,
  the challenge a receiver waits on is in `issued`;
* `Numbered`: connections in sockets, queues and messages were counted by their
  receiver, and so were the nonces of its deliveries, all but the current one;
* `Exclusive`: the connection of a running session is held or queued at its own
  peer only, and every message on it belongs to the session.

Most actions are *quiet*: they only change locals so that sessions end, shrink
what is under way, and add nothing.  `QuietKeepsInvariant` deals with all of
them at once, each action has a lemma that it is quiet, and the few that are not
(`ReceiveChallenge`, `Sign`, `SendSignature`, `Connect`, `ConnectTimeoutFails`,
`SendChallenge`, `ReceiveSignature`) have a proof of their own, by the parts of
`IInv`.  The theorems:

* `Invariance`: `Spec => []IInv`;
* `TypeCorrectness`, `Agreement` (`SessionAgreement`), `FreshDelivery`
  (`DeliveredOnce`) follow from `IInv`;
* `Authenticity` (`AuthenticDelivery`) adds that deliveries are justified when
  they are made, and the history they rest on only grows.

**`EventDeliveryProofs`.**  `Refinement`: `NetworkEventHandler` implements
`EventDelivery`.  `IInv` does not suffice: the promise vouches only for an event
that runs *and is on the air*, for a challenge that *was issued for it*, and
issues only nonces nobody has had.  `PromiseInv` adds these three:

* `OnAirWhenServing`: from `listen` on, the running event has been broadcast;
* `ChallengesIssued`: every challenge on its way, and the one about to be signed,
  was issued by a receiver for that event.  Without it a challenge read from an
  old connection could name anything;
* `NoncesFresh`: a nonce that was issued has a number its receiver has passed,
  and before `challenge` is sent the current one has not been issued.

Each action then maps to an action of the promise or to a stutter: each
broadcast that succeeds airs the event, the return of `send()` ends it,
`SendChallenge` issues, `Sign` vouches, `ReceiveSignature` delivers when the
signature verifies and abandons otherwise; every way out of a handshake abandons.

**`TcpTransferProofs`.**  `StreamStaysIntact`: buffer, wire and the rest of the
span always make up the message; with the facts about sequences, the layout of
the messages (`SerializeAt`: `serialize_at` gives what `serialize` would have)
and `Filled`, `VerifiesWhatWasSigned` follows.  `TypeCorrect` bounds the offsets
and the counters of tries.  `ReceivesWhatWasSent` (`OkMeansWhole`) needs that
decoding undoes encoding: an integer is the sum of its digits, by induction over
their number, and each field comes out of the span it went into
(`FieldsDecoded`).

**`NaturalRecursion`.**  The library states induction with an operator as its
parameter, which the provers cannot instantiate.  Stated with a set of numbers
in its place (`Induction`) it can be used by naming the set; it follows from the
well-foundedness of `<`.  `Recursion` says that a function defined by recursion
over `Nat` exists and unfolds as written, which is what `Weight` needs; the value of
an integer and `Costs`, defined over `0..n`, are restrictions of such functions.

**`WifiClientProofs`.**  `NetifsBalance`: by where `connect()` is when there is an
interface (`Settled`), with any number of left-over handlers; `TypeCorrect`:
whichever handler counts a reconnect, the count stays within `num_retries`.
`LossNoticed` (`LossIsNoticed`) needs to know when a call is free of the handlers
for addresses of earlier ones (`OwnHandlers`).  `LossInv` says that swapped
instances (`MixedUp`) never remove the handler for `WIFI_EVENT`, and the one for
`IP_EVENT` only at the end of `on_error`, so that a call has both from their
registration on (`Held`) and an `ok` leaves the latter behind.  So as long as
there is none of an earlier call, no `ok` has been returned, `disconnect()` has
not taken a link down, every loss has been announced, and with DHCP an address in
the queue is either current or followed by the loss that takes it back
(`AddressesFollowed`).

**`WifiAccessPointProofs`.**  `HandlersRemoved` (`OnlyRefusedHandlersStay`): a
registered handler either was refused its removal or belongs to the running
call, which holds the instance that removes it, at the calls listed
(`HandlersHeld`).  `NetifsBalance` needs `Settled`: at which calls `create()` has
an interface; `TypeCorrect` needs only that a running call has a frame.

**`ChallengeTimingProofs`.**

* `SendReturnsInTime`.  `Spent` compares the time since `send()` began with what
  it is allowed: a full `TryTime` for each try behind it, `InitialListen` and one
  `SlotTime` per slot behind it in this one.  While `send()` listens, what is
  left of the timeout still fits in; while it reads or signs, what is `Remaining`
  of the connection in hand, counted in calls of `recv()` and ticks, fits in with
  its whole `Cost`.  A `recv()` that times out returns from `send()`, so only the
  last connection can cost more than `TurnTime` (`LastStep`).
* `WaitIsBounded`.  A challenger's budget is fixed when it connects, from the
  queue it sees; that it still suffices later is `Affordable`: what it has waited,
  and what is left of the challenge in hand and of those in front of it and its
  own, are within the budget.  This needs that a live connection is the only
  one of its receiver and is where the receiver believes it to be
  (`Connections`), that nobody waits for an event not yet sent (`Events`), and
  that the slots left are enough for everybody in the queue that counts as
  attended.
* `TurnAlwaysComes`, under `MaxSilent = 0` and `(TrustedCount + 1) * TurnTime <
  CommTimeout`: with nobody silent each connection costs `TurnTime`
  (`Prompt`), at most `TrustedCount` of them and the one in hand are waited for,
  and `WaitBounded` ends the wait before the timeout does.

**`HandlerLifecycleProofs`.**  `IInv` has `SocketInv` (types, `DescriptorsOwned`,
`Scope`: no member is open outside the life of a handler; `OneListener`; and
`OneMode`: what a task with one mode has at each stage of `set_mode()`, from which
`Equipment` and `Recovery` follow) and `LifeInv` (`EngineInv`: contexts and bits in
each phase, a half-failed `init()` included; `KeySelected`: between
`set_verification_key()` and `verify()` the key in the engine is that of the
claimed id).  Adopting a descriptor, using one, and
opening or closing the local have a lemma each (`AdoptOwned`, `RetagOwned`,
`OpenLocalOwned`, `DropLocalOwned`); the actions follow by stage.  The theorems
`TypeCorrectness`, `Ownership`, `Equipment`, `Recovery`, `Readiness`, `RightKey`
state the six properties of run `lifecycle` for every number of descriptors, keys
and ids.  They assume that no listed key is a point `set_verification_key()` could
leave behind when it fails.

**Only model-checked** are

* liveness, `SendReturns`, `HandshakeSettles` and `FlagEndsWait`: the rules for
  weak fairness need ENABLED, which the prover does not support;
* the four violations of section 3, which are behaviours and no theorems;
* that the condition of `TurnAlwaysComes` cannot be weakened.

`SendReturnsInTime` and `TypeCorrectness` (the loops of `send()` stay in their
bounds) are the safety side of `SendReturns`.

## 5. What is not modelled

* **`socket_address`, `esp_error`**: casts, field initializers and a table of
  texts.  An address is a node.  Logging and GPIO.
* **mbedTLS, lwIP, ESP-IDF, the radio**: external, as the code uses them.  That a
  signature cannot be forged and a nonce does not repeat is assumed.
* **The default branch of `set_mode`**, which nothing asks for, the moves of
  handlers and engines, and the overloads of `udp_socket` and
  `tcp_socket_connection` nobody calls.
* **A caller that initializes a handler twice.**
* **Time outside the challenge**: the Wi-Fi handlers' delays are choices, and
  `ChallengeTiming` has no socket errors.

## 6. Plan

Done: the handshake with its abstract specification, liveness and proofs; byte
transfer and codec with proofs; the Wi-Fi handlers with proofs; the challenge with
clocks and proofs; descriptors, engine and life of a handler with proofs; the
theorem that `NetworkEventHandler` implements `EventDelivery`; every safety
property of the runs as a theorem.  To do, in this order:

1. The safety half of `SendReturns`: a measure that every step of `send()` makes
   smaller, as an action property, for any number of challengers and retries.
2. The same for the event handlers of the station and `num_retries`.
3. What `connect()` leaves registered after each of its errors.
