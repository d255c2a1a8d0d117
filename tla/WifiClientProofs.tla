--------------------------- MODULE WifiClientProofs ---------------------------
(***************************************************************************)
(* The balance of client_handler's interfaces, its count of retries and    *)
(* what becomes of an access point that is lost, for any number of calls,  *)
(* retries and events.                                                     *)
(***************************************************************************)
EXTENDS WifiClient, Integers, FiniteSetTheorems, TLAPS

-----------------------------------------------------------------------------
(* The interfaces                                                          *)

(* Where connect() is before it has created the interface.                 *)
Unready == {"generic_init", "create_netif"}

(* An ok is what the last call returned; there is an interface from the    *)
(* block that uses it on, and after an ok.                                 *)
Settled ==
    /\ result = "ok" => pc = "idle"
    /\ pc \in Unready => handle = NULL
    /\ pc \in {"drop_got_ip", "drop_any_id"} => handle = NULL
    /\ pc \in (Block \ Unready) \cup {"test"} => handle # NULL
    /\ pc = "idle" => (result = "ok" <=> handle # NULL)

Counted ==
    /\ calls \in Nat
    /\ pc # "idle" => calls # 0

IInv == Counted /\ Settled /\ netifs = {handle} \ {NULL}

LEMMA InitInvariant == Init => IInv
  BY DEF Init, DriverInit, IInv, Counted, Settled, NULL, Unready, Block

(* The steps of connect() that move on to a call with the interface as it  *)
(* is.                                                                     *)
LEMMA MovingOn ==
  ASSUME IInv, UNCHANGED <<calls, netifs, handle, result>>,
         pc # "idle", pc' # "idle",
         pc' \in Unready => pc \in Unready,
         pc' \in (Block \ Unready) \cup {"test"} =>
           pc \in (Block \ Unready) \cup {"test"},
         pc' \in {"drop_got_ip", "drop_any_id"} =>
           pc \in {"drop_got_ip", "drop_any_id"}
  PROVE  IInv'
  BY DEF IInv, Counted, Settled, Unready, Block, NULL

LEMMA ConnectStepInvariant == IInv /\ ConnectStep => IInv'
<1> SUFFICES ASSUME IInv, ConnectStep
             PROVE  IInv'
  OBVIOUS
<1> USE DEF Unready, Block
<1>1. CASE Initialize
  <2>1. pc' \in {"create_netif", "destroy_netif"}
    BY <1>1 DEF Initialize, OnError
  <2> QED
    BY <2>1, <1>1, MovingOn DEF Initialize
<1>2. CASE CreateInterface
  BY <1>2 DEF CreateInterface, CreateNetif, OnError, IInv, Counted, Settled,
     NULL
<1>3. CASE Prepare("wifi_init", "register_wifi")
  BY <1>3, MovingOn DEF Prepare, OnError, driverVars
<1>4. CASE RegisterWifiEvents
  BY <1>4, MovingOn DEF RegisterWifiEvents, OnError
<1>5. CASE RegisterIpEvent
  BY <1>5, MovingOn DEF RegisterIpEvent, OnError
<1>6. CASE Prepare("configure", "start")
  BY <1>6, MovingOn DEF Prepare, OnError, driverVars
<1>7. CASE Start
  BY <1>7, MovingOn DEF Start, OnError
<1>8. CASE Sleep \/ Wait
  BY <1>8, MovingOn DEF Sleep, Wait, driverVars
<1>9. CASE UnregisterIpEvent
  BY <1>9, MovingOn DEF UnregisterIpEvent, Unregister, OnError
<1>10. CASE UnregisterWifiEvents
  BY <1>10, MovingOn DEF UnregisterWifiEvents, Unregister, OnError
<1>11. CASE Test
  <2>1. CASE connected /\ Return("ok")
    BY <2>1, <1>11 DEF Test, Return, driverVars, IInv, Counted, Settled, NULL
  <2>2. CASE ~connected /\ OnError /\ UNCHANGED <<locals, instances, result>>
    BY <2>2, <1>11, MovingOn DEF Test, OnError, driverVars
  <2> QED
    BY <2>1, <2>2, <1>11 DEF Test
<1>12. CASE CleanUpInterface
  BY <1>12 DEF CleanUpInterface, DestroyInterface, DestroyNetif, IInv, Counted,
     Settled, NULL
<1>13. CASE DropGotIp
  BY <1>13, MovingOn DEF DropGotIp
<1>14. CASE DropAnyId
  BY <1>14 DEF DropAnyId, Return, IInv, Counted, Settled, NULL
<1> QED
  BY <1>1, <1>2, <1>3, <1>4, <1>5, <1>6, <1>7, <1>8, <1>9, <1>10, <1>11, <1>12,
     <1>13, <1>14 DEF ConnectStep

(* The handlers have nothing to do with the interfaces.                    *)
LEMMA EventLoopInvariant == IInv /\ EventLoop => IInv'
<1> SUFFICES ASSUME IInv, EventLoop
             PROVE  UNCHANGED <<calls, netifs, handle, pc, result>>
  BY DEF IInv, Counted, Settled
<1> QED
  BY DEF EventLoop, OnStart, OnConnected, OnDisconnected, OnGotIp, OnStop

LEMMA NextInvariant == IInv /\ [Next]_vars => IInv'
<1> SUFFICES ASSUME IInv, [Next]_vars
             PROVE  IInv'
  OBVIOUS
<1>1. CASE Connect
  BY <1>1 DEF Connect, IInv, Counted, Settled, NULL, Unready, Block
<1>2. CASE ConnectStep
  BY <1>2, ConnectStepInvariant
<1>3. CASE Disconnect
  BY <1>3 DEF Disconnect, GenericDeinit, DestroyNetif, IInv, Counted, Settled,
     NULL, Unready, Block
<1>4. CASE EventLoop
  BY <1>4, EventLoopInvariant
<1>5. CASE Driver
  BY <1>5 DEF Driver, LinkUp, LinkDown, GotIp, IInv, Counted, Settled
<1>6. CASE UNCHANGED vars
  BY <1>6 DEF vars, driverVars, IInv, Counted, Settled
<1> QED
  BY <1>1, <1>2, <1>3, <1>4, <1>5, <1>6 DEF Next

LEMMA Invariance == Spec => []IInv
  BY InitInvariant, NextInvariant, PTL DEF Spec

(* connect() and disconnect() neither leak an interface nor destroy one    *)
(* twice, on any path.                                                     *)
THEOREM NetifsBalance == Spec => []NetifBalanced
<1>1. IInv => NetifBalanced
  BY DEF IInv, Settled, NetifBalanced, Unready, NULL
<1> QED
  BY <1>1, Invariance, PTL

-----------------------------------------------------------------------------
(* Types                                                                   *)

(* A call that runs has a number, and finitely many handlers work on its   *)
(* conn_state.                                                             *)
Typed ==
    /\ TypeOK
    /\ IsFiniteSet(handlers)
    /\ pc # "idle" => calls \in Frames

(* The steps of connect() that do not touch its locals.                    *)
LEMMA MovingOnTyped ==
  ASSUME Typed, pc # "idle", UNCHANGED <<calls, link, locals, result, refused>>,
         ready' \in 0..3, netifs' \in SUBSET Frames,
         handle' \in {NULL} \cup Frames, started' \in BOOLEAN,
         queue' \in Seq(WifiEvents),
         handlers' \in SUBSET Registrations, IsFiniteSet(handlers'),
         instance_got_ip' \in Registrations \cup {NoInstance},
         instance_any_id' \in Registrations \cup {NoInstance},
         pc' \in {"test"} \cup Block \cup Cleanup
  PROVE  Typed'
  BY DEF Typed, TypeOK, DriverTypeOK, locals, instances

LEMMA InitTyped == Init => Typed
<1> SUFFICES ASSUME Init
             PROVE  Typed
  OBVIOUS
<1>1. DriverTypeOK
  <2>1. queue \in Seq(WifiEvents)
    BY DEF Init, DriverInit
  <2>2. ready \in 0..3 /\ calls \in 0..MaxCalls
    BY WifiBoundsAssumption DEF Init, DriverInit
  <2>3. netifs \in SUBSET Frames /\ handlers \in SUBSET Registrations
    BY DEF Init, DriverInit
  <2> QED
    BY <2>1, <2>2, <2>3 DEF Init, DriverInit, DriverTypeOK
<1>2. current_retries \in 0..num_retries
  BY ClientAssumption DEF Init
<1>3. IsFiniteSet(handlers)
  BY FS_EmptySet DEF Init, DriverInit
<1> QED
  BY <1>1, <1>2, <1>3 DEF Init, Typed, TypeOK

LEMMA Registering ==
  ASSUME Typed, pc # "idle", NEW base \in {"WIFI_EVENT", "IP_EVENT"}
  PROVE  /\ Registration(base) \in Registrations
         /\ handlers \cup {Registration(base)} \in SUBSET Registrations
         /\ IsFiniteSet(handlers \cup {Registration(base)})
<1>1. /\ Registration(base) \in Registrations
      /\ handlers \cup {Registration(base)} \in SUBSET Registrations
  BY DEF Typed, TypeOK, DriverTypeOK, Registration, Registrations
<1>2. IsFiniteSet(handlers \cup {Registration(base)})
  BY FS_AddElement DEF Typed
<1> QED
  BY <1>1, <1>2

LEMMA Unregistering ==
  ASSUME Typed, NEW base, NEW instance
  PROVE  /\ Unregistered(base, instance) \in SUBSET Registrations
         /\ IsFiniteSet(Unregistered(base, instance))
<1>1. Unregistered(base, instance) \in SUBSET handlers
  BY DEF Unregistered
<1>2. IsFiniteSet(Unregistered(base, instance))
  BY <1>1, FS_Subset DEF Typed
<1> QED
  BY <1>1, <1>2 DEF Typed, TypeOK, DriverTypeOK

LEMMA Queueing ==
  ASSUME Typed
  PROVE  /\ \A e \in WifiEvents : Append(queue, e) \in Seq(WifiEvents)
         /\ queue # << >> => Tail(queue) \in Seq(WifiEvents)
  BY DEF Typed, TypeOK, DriverTypeOK

LEMMA ConnectStepTyped == Typed /\ ConnectStep => Typed'
<1> SUFFICES ASSUME Typed, ConnectStep
             PROVE  Typed'
  OBVIOUS
<1> USE DEF OnError, Block, Cleanup, instances
<1>t. /\ ready \in 0..3 /\ netifs \in SUBSET Frames
      /\ handle \in {NULL} \cup Frames /\ started \in BOOLEAN
      /\ queue \in Seq(WifiEvents)
      /\ handlers \in SUBSET Registrations /\ IsFiniteSet(handlers)
      /\ instance_got_ip \in Registrations \cup {NoInstance}
      /\ instance_any_id \in Registrations \cup {NoInstance}
      /\ pc # "idle" => calls \in Frames
  BY DEF Typed, TypeOK, DriverTypeOK
<1>1. CASE Initialize
  <2>1. ready' \in 0..3
    BY <1>1, <1>t DEF Initialize, GenericInit
  <2> QED
    BY <2>1, <1>1, <1>t, MovingOnTyped DEF Initialize
<1>2. CASE CreateInterface
  <2>1. netifs' \in SUBSET Frames /\ handle' \in {NULL} \cup Frames
    BY <1>2, <1>t DEF CreateInterface, CreateNetif
  <2> QED
    BY <2>1, <1>2, <1>t, MovingOnTyped DEF CreateInterface
<1>3. CASE Prepare("wifi_init", "register_wifi")
  BY <1>3, <1>t, MovingOnTyped DEF Prepare, driverVars
<1>4. CASE RegisterWifiEvents
  BY <1>4, <1>t, Registering, MovingOnTyped DEF RegisterWifiEvents
<1>5. CASE RegisterIpEvent
  BY <1>5, <1>t, Registering, MovingOnTyped DEF RegisterIpEvent
<1>6. CASE Prepare("configure", "start")
  BY <1>6, <1>t, MovingOnTyped DEF Prepare, driverVars
<1>7. CASE Start
  <2>1. started' \in BOOLEAN /\ queue' \in Seq(WifiEvents)
    BY <1>7, <1>t, Queueing DEF Start, StartDriver, WifiEvents
  <2> QED
    BY <2>1, <1>7, <1>t, MovingOnTyped DEF Start
<1>8. CASE Wait
  BY <1>8, <1>t, MovingOnTyped DEF Wait, driverVars
<1>8a. CASE Sleep
  BY <1>8a DEF Sleep, driverVars, Typed, TypeOK, DriverTypeOK
<1>9. CASE UnregisterIpEvent
  BY <1>9, <1>t, Unregistering, MovingOnTyped DEF UnregisterIpEvent, Unregister
<1>10. CASE UnregisterWifiEvents
  BY <1>10, <1>t, Unregistering, MovingOnTyped
     DEF UnregisterWifiEvents, Unregister
<1>11. CASE Test
  <2>1. CASE connected /\ Return("ok")
    <3>1. 0 \in 0..num_retries
      BY ClientAssumption
    <3>2. UNCHANGED <<driverVars, timed, static, refused>>
      BY <2>1, <1>11 DEF Test, Return, locals
    <3> QED
      BY <3>1, <3>2, <2>1 DEF Return, Typed, TypeOK, DriverTypeOK, driverVars
  <2>2. CASE ~connected /\ OnError /\ UNCHANGED <<locals, instances, result>>
    BY <2>2, <1>11, <1>t, MovingOnTyped DEF Test, driverVars
  <2> QED
    BY <2>1, <2>2, <1>11 DEF Test
<1>12. CASE CleanUpInterface
  <2>1. netifs' \in SUBSET Frames /\ handle' \in {NULL} \cup Frames
    BY <1>12, <1>t DEF CleanUpInterface, DestroyInterface, DestroyNetif
  <2> QED
    BY <2>1, <1>12, <1>t, MovingOnTyped DEF CleanUpInterface
<1>13. CASE DropGotIp
  BY <1>13, <1>t, Unregistering, MovingOnTyped DEF DropGotIp
<1>14. CASE DropAnyId
  <2>1. handlers' \in SUBSET Registrations /\ IsFiniteSet(handlers')
    BY <1>14, <1>t, Unregistering DEF DropAnyId
  <2>2. 0 \in 0..num_retries
    BY ClientAssumption
  <2> QED
    BY <2>1, <2>2, <1>14 DEF DropAnyId, Return, Typed, TypeOK, DriverTypeOK
<1> QED
  BY <1>1, <1>2, <1>3, <1>4, <1>5, <1>6, <1>7, <1>8, <1>8a, <1>9, <1>10, <1>11,
     <1>12, <1>13, <1>14 DEF ConnectStep

(* Every handler of the current call that is registered counts, and there  *)
(* are no negative hits.                                                   *)
LEMMA HitsBounded ==
  ASSUME Typed, NEW base, NEW hits \in Hits(base)
  PROVE  /\ hits \in Nat
         /\ pc # "idle" /\ Live(base) # {} => hits # 0
<1>1. /\ IsFiniteSet(Live(base)) /\ IsFiniteSet(Registered(base))
  BY FS_Subset DEF Typed, Live, Registered
<1>2. Cardinality(Live(base)) \in Nat /\ Cardinality(Registered(base)) \in Nat
  BY <1>1, FS_CardinalityType
<1>3. Live(base) # {} => Cardinality(Live(base)) # 0
  BY <1>1, FS_EmptySet
<1> QED
  BY <1>2, <1>3 DEF Hits

LEMMA EventLoopTyped == Typed /\ EventLoop => Typed'
<1> SUFFICES ASSUME Typed, EventLoop
             PROVE  Typed'
  OBVIOUS
<1>q. queue' \in Seq(WifiEvents)
  <2>1. queue # << >>
    BY DEF EventLoop, OnStart, OnConnected, OnDisconnected, OnGotIp, OnStop,
       Handle
  <2>2. \/ queue' = Tail(queue)
        \/ queue' = Append(Tail(queue), "STA_GOT_IP")
    BY DEF EventLoop, OnStart, OnConnected, OnDisconnected, OnGotIp, OnStop
  <2>3. Tail(queue) \in Seq(WifiEvents)
    BY <2>1, Queueing
  <2>4. Append(Tail(queue), "STA_GOT_IP") \in Seq(WifiEvents)
    BY <2>3 DEF WifiEvents
  <2> QED
    BY <2>2, <2>3, <2>4
<1>u. UNCHANGED <<ready, calls, netifs, handle, started, handlers, pc, timed,
                  static, instance_got_ip, instance_any_id, result>>
  BY DEF EventLoop, OnStart, OnConnected, OnDisconnected, OnGotIp, OnStop,
     locals, instances
<1>l. link' \in {link} \cup LinksAfterConnect /\ refused' \in BOOLEAN
  BY DEF EventLoop, OnStart, OnConnected, OnDisconnected, OnGotIp, OnStop,
     CallConnect, Typed, TypeOK
<1>2. link' \in {"down", "connecting", "up"}
  BY <1>l DEF LinksAfterConnect, Typed, TypeOK, DriverTypeOK
<1>3. /\ connected' \in BOOLEAN /\ asleep' \in BOOLEAN
      /\ current_retries' \in 0..num_retries
  <2>1. CASE UNCHANGED locals
    BY <2>1 DEF locals, Typed, TypeOK
  <2>2. CASE OnDisconnected
    <3>1. PICK hits \in Hits("WIFI_EVENT") :
            /\ ClearFlag(hits)
            /\ current_retries' = RetriesAfter(hits)
      BY <2>2 DEF OnDisconnected
    <3>2. connected' \in BOOLEAN
      BY <3>1, Zenon DEF ClearFlag
    <3>3. current_retries' \in 0..num_retries
      BY <3>1, HitsBounded, ClientAssumption DEF RetriesAfter, Typed, TypeOK
    <3>4. asleep' \in BOOLEAN
      BY <2>2 DEF OnDisconnected, NotifyOne, Typed, TypeOK
    <3> QED
      BY <3>2, <3>3, <3>4
  <2>3. CASE OnGotIp /\ ~UNCHANGED locals
    <3>1. /\ connected' = TRUE /\ current_retries' = 0
          /\ asleep' = FALSE
      BY <2>3 DEF OnGotIp, NotifyOne
    <3>2. 0 \in 0..num_retries
      BY ClientAssumption
    <3> QED
      BY <3>1, <3>2
  <2> QED
    BY <2>1, <2>2, <2>3 DEF EventLoop, OnStart, OnConnected, OnStop
<1> QED
  BY <1>q, <1>u, <1>l, <1>2, <1>3 DEF Typed, TypeOK, DriverTypeOK

LEMMA NextTyped == Typed /\ [Next]_vars => Typed'
<1> SUFFICES ASSUME Typed, [Next]_vars
             PROVE  Typed'
  OBVIOUS
<1>1. CASE Connect
  <2>1. calls' \in 0..MaxCalls /\ calls' \in Frames
    BY <1>1, WifiBoundsAssumption
       DEF Connect, Typed, TypeOK, DriverTypeOK, Frames
  <2>2. current_retries' \in 0..num_retries
    BY <1>1, ClientAssumption DEF Connect
  <2> QED
    BY <2>1, <2>2, <1>1 DEF Connect, Typed, TypeOK, DriverTypeOK, Block
<1>2. CASE ConnectStep
  BY <1>2, ConnectStepTyped
<1>3. CASE Disconnect
  <2>1. Append(queue, "STA_STOP") \in Seq(WifiEvents)
    BY Queueing DEF WifiEvents
  <2> QED
    BY <2>1, <1>3 DEF Disconnect, GenericDeinit, DestroyNetif, Typed, TypeOK,
       DriverTypeOK, locals, instances
<1>4. CASE EventLoop
  BY <1>4, EventLoopTyped
<1>5. CASE Driver
  <2>1. queue' \in Seq(WifiEvents)
    BY <1>5, Queueing DEF Driver, LinkUp, LinkDown, GotIp, PostEvent, WifiEvents
  <2>2. link' \in {"down", "connecting", "up"}
    BY <1>5 DEF Driver, LinkUp, LinkDown, GotIp, Typed, TypeOK, DriverTypeOK
  <2> QED
    BY <2>1, <2>2, <1>5 DEF Driver, LinkUp, LinkDown, GotIp, Typed, TypeOK,
       DriverTypeOK, locals, instances
<1>6. CASE UNCHANGED vars
  BY <1>6 DEF vars, driverVars, locals, instances, Typed, TypeOK, DriverTypeOK
<1> QED
  BY <1>1, <1>2, <1>3, <1>4, <1>5, <1>6 DEF Next

LEMMA TypedInvariance == Spec => []Typed
  BY InitTyped, NextTyped, PTL DEF Spec

(* However often the handlers that earlier calls left behind work on the   *)
(* conn_state of the current call, the count of its retries stays within   *)
(* num_retries.                                                            *)
THEOREM TypeCorrect == Spec => []TypeOK
<1>1. Typed => TypeOK
  BY DEF Typed
<1> QED
  BY <1>1, TypedInvariance, PTL

-----------------------------------------------------------------------------
(* The loss of an access point                                             *)

(* Where connect() is once its first handler is registered, unless it has  *)
(* failed.                                                                 *)
WifiRegistered ==
    {"register_ip", "configure", "start", "wait", "unregister_ip",
     "unregister_wifi", "test"}

(* Where it is once its second handler is registered as well.              *)
IpRegistered == WifiRegistered \ {"register_ip"}

(* The instances are mixed up, so that the handler for IP_EVENT is removed *)
(* by the last call of the error path alone, and the other one never.      *)
MixedUp ==
    /\ instance_got_ip \in {NoInstance, Registration("WIFI_EVENT")}
    /\ instance_any_id \in {NoInstance, Registration("IP_EVENT")}

(* The handlers of the current call.                                       *)
Held ==
    /\ \A h \in handlers : h.frame <= calls
    /\ pc \in WifiRegistered => Registration("WIFI_EVENT") \in handlers
    /\ pc \in IpRegistered \/ result = "ok" =>
         Registration("IP_EVENT") \in handlers
    /\ Registration("IP_EVENT") \in handlers =>
         Registration("WIFI_EVENT") \in handlers

(* No handler for addresses is left of an earlier call.                    *)
OwnHandlers ==
    \A h \in handlers : h.base = "IP_EVENT" => h.frame = calls /\ pc # "idle"

(* An address that is still to be handled is one of a link that is up, or  *)
(* whose loss is queued behind it.                                         *)
AddressesFollowed ==
    \A i \in 1..Len(queue) :
        queue[i] = "STA_GOT_IP" =>
            \/ link # "down"
            \/ \E k \in 1..Len(queue) : k > i /\ queue[k] = "STA_DISCONNECTED"

(* Only disconnect() takes a link down without an event, and only after an *)
(* ok, which leaves a handler for addresses behind.  So as long as there is*)
(* none from an earlier call, every loss has been announced.               *)
LossInv ==
    /\ MixedUp
    /\ Held
    /\ OwnHandlers =>
         /\ connected => Registration("WIFI_EVENT") \in handlers
         /\ static \/ AddressesFollowed
    /\ LossIsNoticed

(* The queue                                                               *)

LEMMA AppendElements ==
  ASSUME NEW S, NEW s \in Seq(S), NEW e \in S
  PROVE  /\ Len(s) \in Nat
         /\ Len(Append(s, e)) = Len(s) + 1
         /\ \A i \in 1..Len(s) : Append(s, e)[i] = s[i]
         /\ Append(s, e)[Len(s) + 1] = e
  OBVIOUS

LEMMA TailElements ==
  ASSUME NEW S, NEW s \in Seq(S), s # << >>
  PROVE  /\ Len(s) \in Nat \ {0}
         /\ Head(s) = s[1]
         /\ Len(Tail(s)) = Len(s) - 1
         /\ \A i \in 1..(Len(s) - 1) : Tail(s)[i] = s[i + 1]
  OBVIOUS

LossQueued == \E i \in 1..Len(queue) : queue[i] = "STA_DISCONNECTED"

LEMMA AppendFollowed ==
  ASSUME Typed, AddressesFollowed, NEW e \in WifiEvents,
         queue' = Append(queue, e),
         e = "STA_GOT_IP" => link' # "down",
         link' = "down" => link = "down" \/ e = "STA_DISCONNECTED"
  PROVE  AddressesFollowed'
<1>1. /\ Len(queue) \in Nat /\ Len(queue') = Len(queue) + 1
      /\ \A i \in 1..Len(queue) : queue'[i] = queue[i]
      /\ queue'[Len(queue) + 1] = e
  BY AppendElements DEF Typed, TypeOK, DriverTypeOK
<1> SUFFICES ASSUME NEW i \in 1..Len(queue'), queue'[i] = "STA_GOT_IP",
                    link' = "down"
             PROVE  \E k \in 1..Len(queue') :
                      k > i /\ queue'[k] = "STA_DISCONNECTED"
  BY DEF AddressesFollowed
<1>2. i \in 1..Len(queue) /\ queue[i] = "STA_GOT_IP"
  BY <1>1
<1>3. CASE e = "STA_DISCONNECTED"
  <2>1. Len(queue) + 1 \in 1..Len(queue') /\ Len(queue) + 1 > i
    BY <1>1, <1>2
  <2> QED
    BY <2>1, <1>1, <1>3
<1>4. CASE link = "down"
  <2>1. PICK k \in 1..Len(queue) : k > i /\ queue[k] = "STA_DISCONNECTED"
    BY <1>2, <1>4 DEF AddressesFollowed
  <2>2. k \in 1..Len(queue') /\ queue'[k] = "STA_DISCONNECTED"
    BY <2>1, <1>1
  <2> QED
    BY <2>1, <2>2
<1> QED
  BY <1>3, <1>4

LEMMA TailFollowed ==
  ASSUME Typed, AddressesFollowed, queue # << >>, queue' = Tail(queue),
         link' = "down" => link = "down"
  PROVE  AddressesFollowed'
<1>1. /\ Len(queue) \in Nat \ {0} /\ Len(queue') = Len(queue) - 1
      /\ \A i \in 1..(Len(queue) - 1) : queue'[i] = queue[i + 1]
  BY TailElements DEF Typed, TypeOK, DriverTypeOK
<1> SUFFICES ASSUME NEW i \in 1..Len(queue'), queue'[i] = "STA_GOT_IP",
                    link' = "down"
             PROVE  \E k \in 1..Len(queue') :
                      k > i /\ queue'[k] = "STA_DISCONNECTED"
  BY DEF AddressesFollowed
<1>2. i + 1 \in 1..Len(queue) /\ queue[i + 1] = "STA_GOT_IP"
  BY <1>1
<1>3. PICK k \in 1..Len(queue) : k > i + 1 /\ queue[k] = "STA_DISCONNECTED"
  BY <1>2 DEF AddressesFollowed
<1>4. /\ k - 1 \in 1..Len(queue') /\ k - 1 > i
      /\ queue'[k - 1] = "STA_DISCONNECTED"
  BY <1>1, <1>2, <1>3
<1> QED
  BY <1>4

LEMMA AppendQueued ==
  ASSUME Typed, NEW e \in WifiEvents, queue' = Append(queue, e),
         LossQueued \/ e = "STA_DISCONNECTED"
  PROVE  LossQueued'
<1>1. /\ Len(queue) \in Nat /\ Len(queue') = Len(queue) + 1
      /\ \A i \in 1..Len(queue) : queue'[i] = queue[i]
      /\ queue'[Len(queue) + 1] = e
  BY AppendElements DEF Typed, TypeOK, DriverTypeOK
<1>2. CASE LossQueued
  <2>1. PICK i \in 1..Len(queue) : queue[i] = "STA_DISCONNECTED"
    BY <1>2 DEF LossQueued
  <2>2. i \in 1..Len(queue') /\ queue'[i] = "STA_DISCONNECTED"
    BY <2>1, <1>1
  <2> QED
    BY <2>2 DEF LossQueued
<1>3. CASE e = "STA_DISCONNECTED"
  <2>1. Len(queue) + 1 \in 1..Len(queue')
    BY <1>1
  <2> QED
    BY <2>1, <1>1, <1>3 DEF LossQueued
<1> QED
  BY <1>2, <1>3

LEMMA TailQueued ==
  ASSUME Typed, queue # << >>, queue' = Tail(queue), LossQueued,
         Head(queue) # "STA_DISCONNECTED"
  PROVE  LossQueued'
<1>1. /\ Len(queue) \in Nat \ {0} /\ Len(queue') = Len(queue) - 1
      /\ Head(queue) = queue[1]
      /\ \A i \in 1..(Len(queue) - 1) : queue'[i] = queue[i + 1]
  BY TailElements DEF Typed, TypeOK, DriverTypeOK
<1>2. PICK k \in 1..Len(queue) : queue[k] = "STA_DISCONNECTED"
  BY DEF LossQueued
<1>3. k - 1 \in 1..Len(queue') /\ queue'[k - 1] = queue[(k - 1) + 1]
  BY <1>1, <1>2
<1>4. queue'[k - 1] = "STA_DISCONNECTED"
  BY <1>2, <1>3
<1> QED
  BY <1>3, <1>4 DEF LossQueued

(* What is left of the address at the head of the queue.                   *)
LEMMA HeadFollowed ==
  ASSUME Typed, AddressesFollowed, queue # << >>, queue' = Tail(queue),
         Head(queue) = "STA_GOT_IP", link = "down"
  PROVE  LossQueued'
<1>1. Len(queue) \in Nat \ {0} /\ Head(queue) = queue[1]
  BY TailElements DEF Typed, TypeOK, DriverTypeOK
<1>2. 1 \in 1..Len(queue)
  BY <1>1
<1>3. \E k \in 1..Len(queue) : queue[k] = "STA_DISCONNECTED"
  BY <1>1, <1>2 DEF AddressesFollowed
<1> QED
  BY <1>3, TailQueued DEF LossQueued

(* The steps of connect() that leave the event loop alone.                 *)
LEMMA LossQuiet ==
  ASSUME LossInv, pc # "idle", pc' # "idle",
         UNCHANGED <<calls, link, queue, handlers, instances, connected, static,
                     result, refused>>,
         pc' \in WifiRegistered => pc \in WifiRegistered,
         pc' \in IpRegistered => pc \in IpRegistered,
         pc' \in Block => pc \in Block
  PROVE  LossInv'
<1>1. UNCHANGED <<MixedUp, OwnHandlers, AddressesFollowed>>
  BY DEF instances, MixedUp, Registration, OwnHandlers, AddressesFollowed
<1>2. Held'
  BY DEF LossInv, Held, Registration
<1>3. LossIsNoticed'
  BY DEF LossInv, LossIsNoticed
<1>4. UNCHANGED (Registration("WIFI_EVENT") \in handlers)
  BY DEF Registration
<1> QED
  BY <1>1, <1>2, <1>3, <1>4 DEF LossInv

(* A handler of the current call is added.                                 *)
LEMMA LossRegistering ==
  ASSUME LossInv, Typed, pc \in Block,
         NEW base, handlers' = handlers \cup {Registration(base)},
         MixedUp', pc' # "idle",
         base = "WIFI_EVENT" \/ pc \in WifiRegistered,
         pc' \in WifiRegistered =>
           base = "WIFI_EVENT" \/ pc \in WifiRegistered,
         pc' \in IpRegistered => base = "IP_EVENT" \/ pc \in IpRegistered,
         UNCHANGED <<calls, link, queue, connected, static, result, refused>>
  PROVE  LossInv'
<1>1. \A h \in handlers' : h \in handlers \/ h = Registration(base)
  OBVIOUS
<1>2. /\ Registration(base).frame = calls /\ Registration(base).base = base
      /\ \A b : UNCHANGED Registration(b)
      /\ \A b : Registration(b) = Registration("IP_EVENT") => b = "IP_EVENT"
  BY DEF Registration
<1>3. calls <= calls
  BY DEF Typed, TypeOK, DriverTypeOK
<1>4. \A h \in handlers' : h.frame <= calls'
  BY <1>1, <1>2, <1>3 DEF LossInv, Held
<1>5. Registration("WIFI_EVENT") \in handlers'
  BY <1>2 DEF LossInv, Held
<1>6. /\ Registration("WIFI_EVENT")' \in handlers'
      /\ pc' \in IpRegistered \/ result' = "ok" =>
           Registration("IP_EVENT")' \in handlers'
  BY <1>2, <1>5 DEF LossInv, Held
<1>7. Held'
  BY <1>4, <1>6 DEF Held
<1>8. pc # "idle"
  BY DEF Block
<1>9. (OwnHandlers' => OwnHandlers) /\ UNCHANGED AddressesFollowed
  BY <1>8 DEF OwnHandlers, AddressesFollowed
<1>10. LossIsNoticed'
  BY DEF LossInv, LossIsNoticed
<1> QED
  BY <1>6, <1>7, <1>9, <1>10 DEF LossInv

(* The driver posts an event of its own.                                   *)
LEMMA LossPosting ==
  ASSUME LossInv, Typed, NEW e \in WifiEvents, queue' = Append(queue, e),
         UNCHANGED <<calls, handlers, instances, connected, static, result,
                     refused>>,
         pc' = "idle" <=> pc = "idle",
         pc' \in WifiRegistered => pc \in WifiRegistered,
         pc' \in IpRegistered => pc \in IpRegistered,
         pc' \in Block => pc \in Block,
         e = "STA_GOT_IP" => link' # "down",
         link' = "down" => link = "down" \/ e = "STA_DISCONNECTED"
  PROVE  LossInv'
<1>1. UNCHANGED <<MixedUp, OwnHandlers, Registration("WIFI_EVENT")>>
  BY DEF instances, MixedUp, Registration, OwnHandlers
<1>2. Held'
  BY DEF LossInv, Held, Registration
<1>3. AddressesFollowed => AddressesFollowed'
  BY AppendFollowed
<1>4. LossQueued \/ e = "STA_DISCONNECTED" => LossQueued'
  BY AppendQueued
<1>5. LossIsNoticed'
  BY <1>4 DEF LossInv, LossIsNoticed, LossQueued
<1> QED
  BY <1>1, <1>2, <1>3, <1>5 DEF LossInv

LEMMA NothingRemoved ==
  ASSUME MixedUp
  PROVE  /\ Unregistered("IP_EVENT", instance_got_ip) = handlers
         /\ Unregistered("WIFI_EVENT", instance_any_id) = handlers
  BY DEF MixedUp, Unregistered, Registration, NoInstance

LEMMA ConnectStepLoss == LossInv /\ Typed /\ ConnectStep => LossInv'
<1> SUFFICES ASSUME LossInv, Typed, ConnectStep
             PROVE  LossInv'
  OBVIOUS
<1> USE DEF OnError, Block, WifiRegistered, IpRegistered
<1>m. MixedUp
  BY DEF LossInv
<1>1. CASE Initialize
  BY <1>1, LossQuiet DEF Initialize, locals
<1>2. CASE CreateInterface
  BY <1>2, LossQuiet DEF CreateInterface, locals
<1>3. CASE Prepare("wifi_init", "register_wifi")
  BY <1>3, LossQuiet DEF Prepare, driverVars, locals
<1>4. CASE RegisterWifiEvents
  <2>1. CASE UNCHANGED <<handlers, instance_got_ip>> /\ pc' = "destroy_netif"
    BY <2>1, <1>4, LossQuiet DEF RegisterWifiEvents, locals, instances
  <2>2. CASE /\ handlers' = handlers \cup {Registration("WIFI_EVENT")}
             /\ instance_got_ip' = Registration("WIFI_EVENT")
             /\ pc' = "register_ip"
    <3>1. MixedUp'
      BY <2>2, <1>4, <1>m DEF RegisterWifiEvents, MixedUp, Registration
    <3> QED
      BY <3>1, <2>2, <1>4, LossRegistering DEF RegisterWifiEvents, locals
  <2> QED
    BY <2>1, <2>2, <1>4 DEF RegisterWifiEvents
<1>5. CASE RegisterIpEvent
  <2>1. CASE UNCHANGED <<handlers, instance_any_id>> /\ pc' = "destroy_netif"
    BY <2>1, <1>5, LossQuiet DEF RegisterIpEvent, locals, instances
  <2>2. CASE /\ handlers' = handlers \cup {Registration("IP_EVENT")}
             /\ instance_any_id' = Registration("IP_EVENT")
             /\ pc' = "configure"
    <3>1. MixedUp'
      BY <2>2, <1>5, <1>m DEF RegisterIpEvent, MixedUp, Registration
    <3> QED
      BY <3>1, <2>2, <1>5, LossRegistering DEF RegisterIpEvent, locals
  <2> QED
    BY <2>1, <2>2, <1>5 DEF RegisterIpEvent
<1>6. CASE Prepare("configure", "start")
  BY <1>6, LossQuiet DEF Prepare, driverVars, locals
<1>7. CASE Start
  <2>1. CASE UNCHANGED <<started, queue>>
    BY <2>1, <1>7, LossQuiet DEF Start, locals
  <2>2. CASE started' = TRUE /\ queue' = Append(queue, "STA_START")
    BY <2>2, <1>7, LossPosting DEF Start, WifiEvents, locals
  <2>3. CASE started' = TRUE /\ queue' = queue
    BY <2>3, <1>7, LossQuiet DEF Start, locals
  <2> QED
    BY <2>1, <2>2, <2>3, <1>7 DEF Start, StartDriver
<1>8. CASE Sleep \/ Wait
  BY <1>8, LossQuiet DEF Sleep, Wait, driverVars, locals
<1>9. CASE UnregisterIpEvent
  BY <1>9, <1>m, NothingRemoved, LossQuiet
     DEF UnregisterIpEvent, Unregister, locals
<1>10. CASE UnregisterWifiEvents
  BY <1>10, <1>m, NothingRemoved, LossQuiet
     DEF UnregisterWifiEvents, Unregister, locals
<1>11. CASE Test
  <2>1. CASE connected /\ Return("ok")
    <3>1. /\ UNCHANGED <<calls, link, queue, handlers>>
          /\ pc = "test" /\ pc' = "idle" /\ connected' = FALSE
      BY <2>1, <1>11 DEF Test, Return, driverVars
    <3>2. MixedUp'
      BY <2>1 DEF Return, MixedUp
    <3>3. Registration("IP_EVENT") \in handlers
      BY <3>1 DEF LossInv, Held
    <3>4. Held'
      BY <3>1, <3>3 DEF LossInv, Held, Registration
    <3>5. ~OwnHandlers'
      BY <3>1, <3>3 DEF OwnHandlers, Registration
    <3> QED
      BY <3>1, <3>2, <3>4, <3>5 DEF LossInv, LossIsNoticed
  <2>2. CASE ~connected /\ OnError /\ UNCHANGED <<locals, instances, result>>
    BY <2>2, <1>11, LossQuiet DEF Test, driverVars, locals
  <2> QED
    BY <2>1, <2>2, <1>11 DEF Test
<1>12. CASE CleanUpInterface
  BY <1>12, LossQuiet DEF CleanUpInterface, locals
<1>13. CASE DropGotIp
  BY <1>13, <1>m, NothingRemoved, LossQuiet DEF DropGotIp, locals
<1>14. CASE DropAnyId
  <2>1. /\ UNCHANGED <<calls, link, queue, static>>
        /\ pc = "drop_any_id" /\ pc' = "idle" /\ result' = "error"
        /\ connected' = FALSE
    BY <1>14 DEF DropAnyId, Return
  <2>2. MixedUp'
    BY <1>14 DEF DropAnyId, Return, MixedUp
  <2>3. /\ \A h \in handlers' : h \in handlers
        /\ \A h \in handlers : h \in handlers' \/ h = Registration("IP_EVENT")
    BY <1>14, <1>m
       DEF DropAnyId, Unregistered, MixedUp, NoInstance, Registration
  <2>4. Registration("WIFI_EVENT") # Registration("IP_EVENT")
    BY DEF Registration
  <2>5. Held'
    BY <2>1, <2>3, <2>4 DEF LossInv, Held, Registration
  <2>6. OwnHandlers' => OwnHandlers
    BY <2>1, <2>3 DEF OwnHandlers, Registration
  <2>7. UNCHANGED AddressesFollowed
    BY <2>1 DEF AddressesFollowed
  <2> QED
    BY <2>1, <2>2, <2>5, <2>6, <2>7 DEF LossInv, LossIsNoticed
<1> QED
  BY <1>1, <1>2, <1>3, <1>4, <1>5, <1>6, <1>7, <1>8, <1>9, <1>10, <1>11, <1>12,
     <1>13, <1>14 DEF ConnectStep

(* An event is taken out of the queue.                                     *)
LEMMA LossHandling ==
  ASSUME LossInv, Typed, queue # << >>, queue' = Tail(queue),
         UNCHANGED <<calls, handlers, pc, static, instances, result>>,
         link' = "down" => link = "down",
         OwnHandlers /\ connected' =>
           connected \/ Registration("WIFI_EVENT") \in handlers,
         LossIsNoticed'
  PROVE  LossInv'
<1>1. UNCHANGED <<MixedUp, OwnHandlers, Registration("WIFI_EVENT")>>
  BY DEF MixedUp, OwnHandlers, Registration, instances
<1>2. Held'
  BY DEF LossInv, Held, Registration
<1>3. AddressesFollowed => AddressesFollowed'
  BY TailFollowed
<1> QED
  BY <1>1, <1>2, <1>3 DEF LossInv

(* The handler for WIFI_EVENT sees the loss: either it has the driver      *)
(* connect again, which may be refused, or it gives up and clears the flag.*)
LEMMA DisconnectedLoss == LossInv /\ Typed /\ OnDisconnected => LossInv'
<1> SUFFICES ASSUME LossInv, Typed, OnDisconnected
             PROVE  LossInv'
  OBVIOUS
<1>1. /\ queue # << >> /\ queue' = Tail(queue)
      /\ UNCHANGED <<calls, handlers, pc, static, instances, result>>
  BY DEF OnDisconnected, Handle
<1>2. PICK hits \in Hits("WIFI_EVENT") :
        /\ ClearFlag(hits)
        /\ \/ hits > 0 /\ current_retries < num_retries /\ CallConnect
           \/ /\ hits = 0 \/ current_retries = num_retries
              /\ UNCHANGED <<link, refused>>
           \/ Registered("WIFI_EVENT") # Live("WIFI_EVENT") /\ CallConnect
  BY DEF OnDisconnected
<1>3. link' = "down" => link = "down"
  BY <1>2 DEF CallConnect, LinksAfterConnect
<1>4. connected' => connected /\ current_retries + hits <= num_retries
  BY <1>2, Zenon DEF ClearFlag
<1>5. LossIsNoticed'
  <2> SUFFICES ASSUME pc \in Block, connected', OwnHandlers, link' = "down"
               PROVE  refused'
    BY <1>1 DEF LossIsNoticed, OwnHandlers, Block
  <2>1. Registration("WIFI_EVENT") \in handlers
    BY <1>4 DEF LossInv
  <2>2. hits \in Nat /\ hits # 0
    <3>1. Live("WIFI_EVENT") # {} /\ pc # "idle"
      BY <2>1 DEF Live, Registered, Registration, Block
    <3> QED
      BY <3>1, HitsBounded
  <2>3. current_retries # num_retries
    BY <2>2, <1>4, ClientAssumption DEF Typed, TypeOK
  <2>4. CallConnect
    BY <2>2, <2>3, <1>2
  <2> QED
    BY <2>4 DEF CallConnect
<1> QED
  BY <1>1, <1>3, <1>4, <1>5, LossHandling

(* An event that is no loss leaves the one that is queued where it is.     *)
LEMMA QuietEventLoss ==
  ASSUME LossInv, Typed, queue # << >>, queue' = Tail(queue),
         Head(queue) # "STA_DISCONNECTED",
         UNCHANGED <<calls, handlers, pc, static, instances, result>>,
         UNCHANGED <<link, refused>> \/ CallConnect,
         connected' => connected \/ Head(queue) = "STA_GOT_IP",
         OwnHandlers /\ connected' =>
           connected \/ Registration("WIFI_EVENT") \in handlers
  PROVE  LossInv'
<1>1. link' = "down" => link = "down"
  BY DEF CallConnect, LinksAfterConnect
<1>2. LossIsNoticed'
  <2> SUFFICES ASSUME pc \in Block, connected', OwnHandlers, ~static,
                      link' = "down", ~refused'
               PROVE  LossQueued'
    BY DEF LossIsNoticed, OwnHandlers, LossQueued, Block
  <2>1. AddressesFollowed /\ UNCHANGED <<link, refused>>
    BY DEF LossInv, CallConnect
  <2>2. CASE connected
    <3>1. LossQueued
      BY <2>1, <2>2 DEF LossInv, LossIsNoticed, LossQueued, OwnHandlers
    <3> QED
      BY <3>1, TailQueued
  <2>3. CASE Head(queue) = "STA_GOT_IP"
    BY <2>1, <2>3, HeadFollowed
  <2> QED
    BY <2>2, <2>3
<1> QED
  BY <1>1, <1>2, LossHandling

LEMMA EventLoopLoss == LossInv /\ Typed /\ EventLoop => LossInv'
<1> SUFFICES ASSUME LossInv, Typed, EventLoop
             PROVE  LossInv'
  OBVIOUS
<1>1. CASE OnStart \/ OnStop
  BY <1>1, QuietEventLoss DEF OnStart, OnStop, Handle, locals
<1>2. CASE OnConnected
  <2>1. CASE queue' = Tail(queue)
    BY <2>1, <1>2, QuietEventLoss DEF OnConnected, Handle, locals
  <2>2. CASE static /\ queue' = Append(Tail(queue), "STA_GOT_IP")
    <3>1. UNCHANGED <<calls, link, handlers, pc, static, instances, connected,
                      result>>
      BY <1>2 DEF OnConnected, locals
    <3>2. UNCHANGED <<MixedUp, OwnHandlers, Registration("WIFI_EVENT")>>
      BY <3>1 DEF MixedUp, OwnHandlers, Registration, instances
    <3>3. Held'
      BY <3>1 DEF LossInv, Held, Registration
    <3> QED
      BY <2>2, <3>1, <3>2, <3>3 DEF LossInv, LossIsNoticed
  <2> QED
    BY <2>1, <2>2, <1>2 DEF OnConnected
<1>3. CASE OnDisconnected
  BY <1>3, DisconnectedLoss
<1>4. CASE OnGotIp
  <2>1. CASE UNCHANGED locals
    BY <2>1, <1>4, QuietEventLoss DEF OnGotIp, Handle, locals
  <2>2. CASE ~UNCHANGED locals
    <3>1. PICK hits \in Hits("IP_EVENT") : hits # 0
      BY <2>2, <1>4 DEF OnGotIp
    <3>2. Registered("IP_EVENT") # {}
      <4> SUFFICES ASSUME Registered("IP_EVENT") = {}
                   PROVE  FALSE
        OBVIOUS
      <4>1. Live("IP_EVENT") = {} /\ Cardinality({}) = 0
        BY FS_EmptySet DEF Live
      <4> QED
        BY <4>1, <3>1 DEF Hits
    <3>3. OwnHandlers => Registration("WIFI_EVENT") \in handlers
      <4> SUFFICES ASSUME OwnHandlers
                   PROVE  Registration("WIFI_EVENT") \in handlers
        OBVIOUS
      <4>1. PICK h \in handlers : h.base = "IP_EVENT" /\ h.frame = calls
        BY <3>2 DEF Registered, OwnHandlers
      <4>2. h = Registration("IP_EVENT")
        BY <4>1 DEF Registration, Typed, TypeOK, DriverTypeOK, Registrations
      <4> QED
        BY <4>1, <4>2 DEF LossInv, Held
    <3>4. timed' = timed /\ static' = static
      BY <2>2, <1>4 DEF OnGotIp
    <3> QED
      BY <3>3, <3>4, <1>4, QuietEventLoss DEF OnGotIp, Handle
  <2> QED
    BY <2>1, <2>2
<1> QED
  BY <1>1, <1>2, <1>3, <1>4 DEF EventLoop

LEMMA NextLoss == LossInv /\ Typed /\ [Next]_vars => LossInv'
<1> SUFFICES ASSUME LossInv, Typed, [Next]_vars
             PROVE  LossInv'
  OBVIOUS
<1>1. CASE Connect
  <2>1. /\ UNCHANGED <<link, queue, handlers, static>>
        /\ calls' = calls + 1 /\ calls \in Nat
        /\ pc' = "generic_init" /\ result' = "none" /\ connected' = FALSE
    BY <1>1 DEF Connect, Typed, TypeOK, DriverTypeOK
  <2>2. MixedUp'
    BY <1>1 DEF Connect, MixedUp
  <2>3. \A h \in handlers : h.frame \in Nat /\ h.frame <= calls
    BY DEF LossInv, Held, Typed, TypeOK, DriverTypeOK, Registrations, Frames
  <2>4. \A h \in handlers : h.frame <= calls' /\ h.frame # calls'
    BY <2>1, <2>3
  <2>5. \A b : Registration(b)' \notin handlers'
    BY <2>1, <2>4 DEF Registration
  <2>6. Held'
    BY <2>1, <2>4, <2>5 DEF Held, WifiRegistered, IpRegistered
  <2>7. OwnHandlers' => OwnHandlers
    BY <2>1, <2>4 DEF OwnHandlers
  <2>8. UNCHANGED AddressesFollowed
    BY <2>1 DEF AddressesFollowed
  <2> QED
    BY <2>1, <2>2, <2>6, <2>7, <2>8 DEF LossInv, LossIsNoticed
<1>2. CASE ConnectStep
  BY <1>2, ConnectStepLoss
<1>3. CASE Disconnect
  <2>1. /\ UNCHANGED <<calls, handlers, pc, locals, instances>> /\ pc' = "idle"
        /\ result = "ok" /\ result' = "none"
    BY <1>3 DEF Disconnect
  <2>2. Registration("IP_EVENT") \in handlers
    BY <2>1 DEF LossInv, Held
  <2>3. ~OwnHandlers'
    BY <2>1, <2>2 DEF OwnHandlers, Registration
  <2>4. MixedUp' /\ Held'
    BY <2>1 DEF LossInv, MixedUp, Held, Registration, instances
  <2> QED
    BY <2>1, <2>3, <2>4 DEF LossInv, LossIsNoticed, Block
<1>4. CASE EventLoop
  BY <1>4, EventLoopLoss
<1>5. CASE Driver
  BY <1>5, LossPosting
     DEF Driver, LinkUp, LinkDown, GotIp, PostEvent, WifiEvents, locals
<1>6. CASE UNCHANGED vars
  <2>1. UNCHANGED <<MixedUp, Held, OwnHandlers, AddressesFollowed,
                    Registration("WIFI_EVENT")>>
    BY <1>6 DEF vars, driverVars, instances, MixedUp, Held, Registration,
       OwnHandlers, AddressesFollowed
  <2> QED
    BY <2>1, <1>6
       DEF LossInv, LossIsNoticed, vars, driverVars, locals, instances
<1> QED
  BY <1>1, <1>2, <1>3, <1>4, <1>5, <1>6 DEF Next

(* As long as no earlier call has left its handler for addresses behind,   *)
(* the flag never stays set for an access point that is lost, unless the   *)
(* loss is queued, the station connects again, or the attempt to do so was *)
(* refused: for any number of retries, any queue and any handlers for      *)
(* WIFI_EVENT that earlier calls have left.                                *)
THEOREM LossNoticed == Spec => []LossIsNoticed
<1>1. Init => LossInv
  <2> SUFFICES ASSUME Init
               PROVE  LossInv
    OBVIOUS
  <2>1. MixedUp
    BY DEF Init, MixedUp
  <2>2. Held
    BY DEF Init, DriverInit, Held, WifiRegistered, IpRegistered
  <2>3. AddressesFollowed /\ ~connected
    <3>1. queue = << >> /\ Len(<< >>) = 0
      BY DEF Init, DriverInit
    <3> QED
      BY <3>1 DEF Init, AddressesFollowed
  <2> QED
    BY <2>1, <2>2, <2>3 DEF LossInv, LossIsNoticed
<1>2. LossInv => LossIsNoticed
  BY DEF LossInv
<1> QED
  BY <1>1, <1>2, NextLoss, TypedInvariance, PTL DEF Spec

=============================================================================
