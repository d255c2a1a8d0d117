------------------------ MODULE WifiAccessPointProofs ------------------------
(***************************************************************************)
(* No event handler of access_point_handler outlives its create() unless   *)
(* ESP-IDF refuses to remove it, and its interfaces balance, for any number*)
(* of calls and whatever the driver does.                                  *)
(***************************************************************************)
EXTENDS WifiAccessPoint, TLAPS

-----------------------------------------------------------------------------
(* Event handlers                                                          *)

(* Where create() is while its first, and its second, handler may be       *)
(* registered.                                                             *)
FirstRegistered ==
    {"register_ip", "configure", "start", "wait", "unregister_ip",
     "unregister_any", "destroy_netif", "drop_got_ip", "drop_any_id"}
SecondRegistered ==
    {"configure", "start", "wait", "unregister_ip", "destroy_netif",
     "drop_got_ip"}

(* A registered handler belongs to the running call, which holds the       *)
(* instance it needs to remove it, unless it was not let.                  *)
HandlersHeld ==
    \A h \in handlers \ refused :
        \/ /\ h = Registration("WIFI_EVENT")
           /\ instance_any_id = h
           /\ pc \in FirstRegistered
        \/ /\ h = Registration("IP_EVENT")
           /\ instance_got_ip = h
           /\ pc \in SecondRegistered

LEMMA InitHolds == Init => HandlersHeld
  BY DEF Init, DriverInit, HandlersHeld

(* The steps that leave the handlers and their instances alone.            *)
LEMMA QuietHolds ==
  ASSUME HandlersHeld, UNCHANGED <<handlers, calls, instances, refused>>,
         pc \in FirstRegistered => pc' \in FirstRegistered,
         pc \in SecondRegistered => pc' \in SecondRegistered
  PROVE  HandlersHeld'
  BY DEF HandlersHeld, Registration, instances

LEMMA NextHolds == HandlersHeld /\ [Next]_vars => HandlersHeld'
<1> SUFFICES ASSUME HandlersHeld, [Next]_vars
             PROVE  HandlersHeld'
  OBVIOUS
<1> USE DEF FirstRegistered, SecondRegistered
<1>1. CASE Create
  <2>1. handlers \ refused = {}
    BY <1>1 DEF Create, HandlersHeld
  <2> QED
    BY <2>1, <1>1 DEF Create, HandlersHeld
<1>2. CASE CreateStep
  <2>1. CASE Initialize
    BY <2>1, QuietHolds DEF Initialize, OnError
  <2>2. CASE CreateInterface
    BY <2>2, QuietHolds DEF CreateInterface, OnError
  <2>3. CASE Prepare("wifi_init", "register_any")
    BY <2>3, QuietHolds DEF Prepare, OnError, driverVars
  <2>4. CASE RegisterAnyId
    <3>1. handlers \ refused = {}
      BY <2>4 DEF RegisterAnyId, HandlersHeld
    <3> QED
      BY <3>1, <2>4 DEF RegisterAnyId, HandlersHeld, InstanceAnyId,
           Registration, OnError
  <2>5. CASE RegisterGotIp
    <3>1. \A h \in handlers \ refused :
            h = Registration("WIFI_EVENT") /\ instance_any_id = h
      BY <2>5 DEF RegisterGotIp, HandlersHeld
    <3> QED
      BY <3>1, <2>5 DEF RegisterGotIp, HandlersHeld, Registration, OnError
  <2>6. CASE Prepare("configure", "start")
    BY <2>6, QuietHolds DEF Prepare, OnError, driverVars
  <2>7. CASE Start
    BY <2>7, QuietHolds DEF Start, OnError
  <2>8. CASE Wait
    BY <2>8, QuietHolds DEF Wait, driverVars
  <2>9. CASE UnregisterGotIp
    BY <2>9 DEF UnregisterGotIp, Unregister, Unregistered, HandlersHeld,
         Registration, OnError, instances
  <2>10. CASE UnregisterAnyId
    BY <2>10 DEF UnregisterAnyId, Unregister, Unregistered, HandlersHeld,
         Registration, OnError, instances
  <2>11. CASE Test
    <3>1. handlers \ refused = {}
      BY <2>11 DEF Test, HandlersHeld
    <3> QED
      BY <3>1, <2>11 DEF Test, HandlersHeld, driverVars
  <2>12. CASE CleanUpInterface
    BY <2>12, QuietHolds DEF CleanUpInterface
  <2>13. CASE DropGotIp
    BY <2>13
       DEF DropGotIp, Drop, Unregistered, HandlersHeld, Registration, instances
  <2>14. CASE DropAnyId
    <3>1. handlers' \ refused' = {}
      BY <2>14 DEF DropAnyId, RemoveAnyId, Drop, Unregistered, HandlersHeld,
           Registration
    <3> QED
      BY <3>1 DEF HandlersHeld
  <2> QED
    BY <1>2, <2>1, <2>2, <2>3, <2>4, <2>5, <2>6, <2>7, <2>8, <2>9, <2>10,
       <2>11, <2>12, <2>13, <2>14 DEF CreateStep
<1>3. CASE Destroy
  BY <1>3, QuietHolds DEF Destroy
<1>4. CASE EventLoop
  BY <1>4, QuietHolds DEF EventLoop, OnStart, OnStop, instances
<1>5. CASE UNCHANGED vars
  BY <1>5, QuietHolds DEF vars, driverVars
<1> QED
  BY <1>1, <1>2, <1>3, <1>4, <1>5 DEF Next

(* create() returns with no handler registered but those that ESP-IDF      *)
(* refused to remove when on_error asked for it, whichever call failed, and*)
(* while it runs only its own handlers are.                                *)
THEOREM HandlersRemoved == Spec => []OnlyRefusedHandlersStay
<1>1. HandlersHeld => OnlyRefusedHandlersStay
  BY DEF HandlersHeld, OnlyRefusedHandlersStay, Registration, FirstRegistered,
       SecondRegistered
<1> QED
  BY <1>1, InitHolds, NextHolds, PTL DEF Spec

-----------------------------------------------------------------------------
(* Types                                                                   *)

(* A call that runs has a number, the frame that its handlers and its      *)
(* interface are known by.                                                 *)
Typed == TypeOK /\ (pc # "idle" => calls \in Frames)

(* The steps that move create() on and touch neither the driver nor the    *)
(* instances.                                                              *)
LEMMA MovingOnTyped ==
  ASSUME Typed, pc # "idle",
         UNCHANGED <<calls, link, locals, instances, result, refused>>,
         ready' \in 0..3, netifs' \in SUBSET Frames,
         handle' \in {NULL} \cup Frames, started' \in BOOLEAN,
         queue' \in Seq(WifiEvents), handlers' \in SUBSET Registrations,
         pc' \in {"create_netif", "wifi_init", "register_any", "register_ip",
                 "configure", "start", "wait", "unregister_ip",
                 "unregister_any", "test", "destroy_netif", "drop_got_ip",
                 "drop_any_id"}
  PROVE  Typed'
  BY DEF Typed, TypeOK, DriverTypeOK, Registration, locals, instances

LEMMA InitTyped == Init => Typed
<1> SUFFICES ASSUME Init
             PROVE  Typed
  OBVIOUS
<1>1. DriverTypeOK
  <2>1. queue \in Seq(WifiEvents)
    BY DEF Init, DriverInit
  <2>2. ready \in 0..3 /\ calls \in 0..MaxCalls
    BY WifiBoundsAssumption DEF Init, DriverInit
  <2>3. netifs \in SUBSET Frames /\ handlers \in SUBSET Registrations
    BY DEF Init, DriverInit
  <2> QED
    BY <2>1, <2>2, <2>3 DEF Init, DriverInit, DriverTypeOK
<1> QED
  BY <1>1 DEF Init, Typed, TypeOK

LEMMA Registering ==
  ASSUME Typed, pc # "idle", NEW base \in {"WIFI_EVENT", "IP_EVENT"}
  PROVE  /\ Registration(base) \in Registrations
         /\ handlers \cup {Registration(base)} \in SUBSET Registrations
  BY DEF Typed, TypeOK, DriverTypeOK, Registration, Registrations

LEMMA Posting ==
  ASSUME Typed, NEW e \in WifiEvents
  PROVE  Append(queue, e) \in Seq(WifiEvents)
  BY DEF Typed, TypeOK, DriverTypeOK

LEMMA CreateStepTyped == Typed /\ CreateStep => Typed'
<1> SUFFICES ASSUME Typed, CreateStep
             PROVE  Typed'
  OBVIOUS
<1> USE DEF OnError
<1>t. /\ ready \in 0..3 /\ netifs \in SUBSET Frames
      /\ handle \in {NULL} \cup Frames /\ started \in BOOLEAN
      /\ queue \in Seq(WifiEvents) /\ handlers \in SUBSET Registrations
      /\ pc # "idle" => calls \in Frames
  BY DEF Typed, TypeOK, DriverTypeOK
<1>1. CASE Initialize
  <2>1. ready' \in 0..3
    BY <1>1, <1>t DEF Initialize, GenericInit
  <2> QED
    BY <2>1, <1>1, <1>t, MovingOnTyped DEF Initialize
<1>2. CASE CreateInterface
  <2>1. netifs' \in SUBSET Frames /\ handle' \in {NULL} \cup Frames
    BY <1>2, <1>t DEF CreateInterface, CreateNetif
  <2> QED
    BY <2>1, <1>2, <1>t, MovingOnTyped DEF CreateInterface
<1>3. CASE Prepare("wifi_init", "register_any")
  BY <1>3, <1>t, MovingOnTyped DEF Prepare, driverVars
<1>4. CASE RegisterAnyId
  BY <1>4, Registering
     DEF RegisterAnyId, InstanceAnyId, Registration, Typed, TypeOK,
         DriverTypeOK, locals
<1>5. CASE RegisterGotIp
  BY <1>5, Registering
     DEF RegisterGotIp, Registration, Typed, TypeOK, DriverTypeOK, locals
<1>6. CASE Prepare("configure", "start")
  BY <1>6, <1>t, MovingOnTyped DEF Prepare, driverVars
<1>7. CASE Start
  <2>1. started' \in BOOLEAN /\ queue' \in Seq(WifiEvents)
    BY <1>7, <1>t, Posting DEF Start, StartDriver, WifiEvents
  <2> QED
    BY <2>1, <1>7, <1>t, MovingOnTyped DEF Start
<1>8. CASE Wait
  BY <1>8, <1>t, MovingOnTyped DEF Wait, driverVars
<1>9. CASE UnregisterGotIp
  BY <1>9, <1>t, MovingOnTyped DEF UnregisterGotIp, Unregister, Unregistered
<1>10. CASE UnregisterAnyId
  BY <1>10, <1>t, MovingOnTyped DEF UnregisterAnyId, Unregister, Unregistered
<1>11. CASE Test
  BY <1>11 DEF Test, Return, Typed, TypeOK, DriverTypeOK, Registration,
     driverVars, locals, instances
<1>12. CASE CleanUpInterface
  <2>1. netifs' \in SUBSET Frames /\ handle' \in {NULL} \cup Frames
    BY <1>12, <1>t DEF CleanUpInterface, DestroyInterface, DestroyNetif
  <2> QED
    BY <2>1, <1>12, <1>t, MovingOnTyped DEF CleanUpInterface
<1>13. CASE DropGotIp
  BY <1>13 DEF DropGotIp, Drop, Unregistered, Typed, TypeOK, DriverTypeOK,
     Registration, locals, instances
<1>14. CASE DropAnyId
  BY <1>14 DEF DropAnyId, RemoveAnyId, Drop, Unregistered, Return, Typed,
     TypeOK, DriverTypeOK
<1> QED
  BY <1>1, <1>2, <1>3, <1>4, <1>5, <1>6, <1>7, <1>8, <1>9, <1>10, <1>11, <1>12,
     <1>13, <1>14 DEF CreateStep

LEMMA NextTyped == Typed /\ [Next]_vars => Typed'
<1> SUFFICES ASSUME Typed, [Next]_vars
             PROVE  Typed'
  OBVIOUS
<1>1. CASE Create
  <2>1. calls' \in 0..MaxCalls /\ calls' \in Frames
    BY <1>1, WifiBoundsAssumption
       DEF Create, Typed, TypeOK, DriverTypeOK, Frames
  <2> QED
    BY <2>1, <1>1 DEF Create, Typed, TypeOK, DriverTypeOK
<1>2. CASE CreateStep
  BY <1>2, CreateStepTyped
<1>3. CASE Destroy
  <2>1. Append(queue, "AP_STOP") \in Seq(WifiEvents)
    BY Posting DEF WifiEvents
  <2> QED
    BY <2>1, <1>3 DEF Destroy, GenericDeinit, DestroyNetif, Typed, TypeOK,
       DriverTypeOK, Registration, locals, instances
<1>4. CASE EventLoop
  <2>1. queue' \in Seq(WifiEvents)
    BY <1>4 DEF EventLoop, OnStart, OnStop, Typed, TypeOK, DriverTypeOK
  <2>2. UNCHANGED <<ready, calls, netifs, handle, started, link, handlers, pc,
                    timed, instance_got_ip, instance_any_id, result>>
    BY <1>4 DEF EventLoop, OnStart, OnStop, locals, instances
  <2>3. connected' \in BOOLEAN /\ refused' = refused
    <3>1. CASE connected' = TRUE
      BY <3>1, <1>4 DEF EventLoop, OnStart, OnStop
    <3>2. CASE UNCHANGED connected
      BY <3>2, <1>4 DEF EventLoop, OnStart, OnStop, Typed, TypeOK
    <3> QED
      BY <3>1, <3>2, <1>4 DEF EventLoop, OnStart, OnStop, locals
  <2> QED
    BY <2>1, <2>2, <2>3 DEF Typed, TypeOK, DriverTypeOK, Registration
<1>5. CASE UNCHANGED vars
  BY <1>5 DEF vars, driverVars, locals, instances, Typed, TypeOK, DriverTypeOK,
     Registration
<1> QED
  BY <1>1, <1>2, <1>3, <1>4, <1>5 DEF Next

LEMMA TypedInvariance == Spec => []Typed
  BY InitTyped, NextTyped, PTL DEF Spec

(* Each instance that create() hands back to the event loop is the one this*)
(* very call got for that base, or none, and events stay events.           *)
THEOREM TypeCorrect == Spec => []TypeOK
<1>1. Typed => TypeOK
  BY DEF Typed
<1> QED
  BY <1>1, TypedInvariance, PTL

-----------------------------------------------------------------------------
(* The interfaces                                                          *)

(* Where create() has no interface, and where it has one.                  *)
WithoutInterface ==
    {"generic_init", "create_netif", "drop_got_ip", "drop_any_id"}
WithInterface ==
    {"wifi_init", "register_any", "register_ip", "configure", "start", "wait",
     "unregister_ip", "unregister_any", "test"}

(* An ok is what the last call returned.                                   *)
Settled ==
    /\ result = "ok" => pc = "idle"
    /\ pc \in WithoutInterface => handle = NULL
    /\ pc \in WithInterface => handle # NULL

UpInv == Settled /\ NetifBalanced

(* The steps that move create() on and leave the interface alone.          *)
LEMMA InterfaceStays ==
  ASSUME UpInv, UNCHANGED <<netifs, handle, result>>,
         pc # "idle", pc' # "idle",
         pc' \in WithoutInterface => pc \in WithoutInterface,
         pc' \in WithInterface => pc \in WithInterface
  PROVE  UpInv'
  BY DEF UpInv, Settled, NetifBalanced, WithoutInterface, NULL

LEMMA CreateStepUp == UpInv /\ Typed /\ CreateStep => UpInv'
<1> SUFFICES ASSUME UpInv, Typed, CreateStep
             PROVE  UpInv'
  OBVIOUS
<1> USE DEF WithoutInterface, WithInterface
<1>1. CASE Initialize
  BY <1>1, InterfaceStays DEF Initialize, OnError, locals
<1>2. CASE CreateInterface
  <2>1. calls # NULL /\ netifs = {}
    BY <1>2 DEF CreateInterface, Typed, Frames, NULL, UpInv, Settled,
       NetifBalanced
  <2> QED
    BY <2>1, <1>2 DEF CreateInterface, CreateNetif, OnError, UpInv, Settled,
       NetifBalanced, locals
<1>3. CASE Prepare("wifi_init", "register_any")
  BY <1>3, InterfaceStays DEF Prepare, OnError, driverVars, locals
<1>4. CASE RegisterAnyId
  BY <1>4, InterfaceStays DEF RegisterAnyId, OnError, locals
<1>5. CASE RegisterGotIp
  BY <1>5, InterfaceStays DEF RegisterGotIp, OnError, locals
<1>6. CASE Prepare("configure", "start")
  BY <1>6, InterfaceStays DEF Prepare, OnError, driverVars, locals
<1>7. CASE Start
  BY <1>7, InterfaceStays DEF Start, OnError, locals
<1>8. CASE Wait
  BY <1>8, InterfaceStays DEF Wait, driverVars, locals
<1>9. CASE UnregisterGotIp
  BY <1>9, InterfaceStays DEF UnregisterGotIp, Unregister, OnError, locals
<1>10. CASE UnregisterAnyId
  BY <1>10, InterfaceStays DEF UnregisterAnyId, Unregister, OnError, locals
<1>11. CASE Test
  <2>1. CASE connected /\ Return("ok")
    BY <2>1, <1>11 DEF Test, Return, driverVars, UpInv, Settled, NetifBalanced
  <2>2. CASE ~connected /\ OnError /\ UNCHANGED <<locals, instances, result>>
    BY <2>2, <1>11, InterfaceStays DEF Test, OnError, driverVars, locals
  <2> QED
    BY <2>1, <2>2, <1>11 DEF Test
<1>12. CASE CleanUpInterface
  BY <1>12 DEF CleanUpInterface, DestroyInterface, DestroyNetif, UpInv, Settled,
     NetifBalanced, locals, NULL
<1>13. CASE DropGotIp
  BY <1>13, InterfaceStays DEF DropGotIp, locals
<1>14. CASE DropAnyId
  BY <1>14 DEF DropAnyId, Return, UpInv, Settled, NetifBalanced
<1> QED
  BY <1>1, <1>2, <1>3, <1>4, <1>5, <1>6, <1>7, <1>8, <1>9, <1>10, <1>11, <1>12,
     <1>13, <1>14 DEF CreateStep

LEMMA NextUp == UpInv /\ Typed /\ [Next]_vars => UpInv'
<1> SUFFICES ASSUME UpInv, Typed, [Next]_vars
             PROVE  UpInv'
  OBVIOUS
<1>1. CASE Create
  BY <1>1 DEF Create, UpInv, Settled, NetifBalanced, WithoutInterface,
     WithInterface
<1>2. CASE CreateStep
  BY <1>2, CreateStepUp
<1>3. CASE Destroy
  BY <1>3 DEF Destroy, GenericDeinit, DestroyNetif, UpInv, Settled,
     NetifBalanced, locals, WithoutInterface, WithInterface, NULL
<1>4. CASE EventLoop
  BY <1>4 DEF EventLoop, OnStart, OnStop, UpInv, Settled, NetifBalanced, locals
<1>5. CASE UNCHANGED vars
  BY <1>5 DEF vars, driverVars, locals, UpInv, Settled, NetifBalanced
<1> QED
  BY <1>1, <1>2, <1>3, <1>4, <1>5 DEF Next

(* create() and destroy() neither leak an interface nor destroy one twice, *)
(* on any path.                                                            *)
THEOREM NetifsBalance == Spec => []NetifBalanced
<1>1. Init => UpInv
  BY DEF Init, DriverInit, UpInv, Settled, NetifBalanced, NULL,
     WithoutInterface, WithInterface
<1>2. UpInv => NetifBalanced
  BY DEF UpInv
<1> QED
  BY <1>1, <1>2, NextUp, TypedInvariance, PTL DEF Spec

=============================================================================
