------------------------------ MODULE WifiClient ------------------------------
(***************************************************************************)
(* wifi::client_handler: connect() on the main task, and its event         *)
(* handlers on the task of the event loop, which work on locals of         *)
(* connect() through the pointer they were registered with.                *)
(*                                                                         *)
(* connect() is one step for each call to ESP-IDF, all of which may fail.  *)
(* main_task calls the task again when it returns, and it connect(), with  *)
(* the same arguments each time.                                           *)
(***************************************************************************)
EXTENDS WifiDriver, FiniteSets

CONSTANT
    num_retries   \* argument of connect(); the tasks pass 10

ASSUME ClientAssumption == num_retries \in Nat

VARIABLES
    timed,            \* argument timeout_ms # 0: wait for a fixed interval
    static,           \* arguments ip, netmask and gateway are given
    pc,               \* the next call of connect() to ESP-IDF, or "idle"
    connected,        \* the atomic flag
    current_retries,  \* of conn_state
    instance_got_ip, instance_any_id,
    result,           \* of the last connect(): "none", "ok" or "error"
    asleep,           \* connect() is blocked in connected.wait(false)
    refused           \* history: the last esp_wifi_connect() has failed

locals == <<timed, static, connected, current_retries, asleep>>
instances == <<instance_got_ip, instance_any_id>>
vars == <<driverVars, pc, locals, instances, result, refused>>

NoInstance == [base |-> "none", frame |-> NULL]

(* The block that conn_state is a local of.                                *)
Block == {"generic_init", "create_netif", "wifi_init", "register_wifi",
          "register_ip", "configure", "start", "wait", "unregister_ip",
          "unregister_wifi"}
Cleanup == {"destroy_netif", "drop_got_ip", "drop_any_id"}

TypeOK ==
    /\ DriverTypeOK
    /\ pc \in {"idle", "test"} \cup Block \cup Cleanup
    /\ timed \in BOOLEAN
    /\ static \in BOOLEAN
    /\ connected \in BOOLEAN
    /\ current_retries \in 0..num_retries
    /\ instance_got_ip \in Registrations \cup {NoInstance}
    /\ instance_any_id \in Registrations \cup {NoInstance}
    /\ result \in {"none", "ok", "error"}
    /\ asleep \in BOOLEAN
    /\ refused \in BOOLEAN

Init ==
    /\ DriverInit
    /\ pc = "idle"
    /\ timed \in BOOLEAN
    /\ static \in BOOLEAN
    /\ connected = FALSE
    /\ current_retries = 0
    /\ instance_got_ip = NoInstance
    /\ instance_any_id = NoInstance
    /\ result = "none"
    /\ asleep = FALSE
    /\ refused = FALSE

-----------------------------------------------------------------------------
(* connect()                                                               *)

Connect ==
    /\ pc = "idle"
    /\ result # "ok"
    /\ calls < MaxCalls
    /\ calls' = calls + 1
    /\ pc' = "generic_init"
    /\ connected' = FALSE
    /\ current_retries' = 0
    /\ instance_got_ip' = NoInstance
    /\ instance_any_id' = NoInstance
    /\ result' = "none"
    /\ asleep' = FALSE
    /\ UNCHANGED <<ready, netifs, handle, started, link, queue, handlers,
                   timed, static, refused>>

(* goto on_error                                                           *)
OnError == pc' = "destroy_netif"

Initialize ==
    /\ pc = "generic_init"
    /\ \/ GenericInit(TRUE) /\ pc' = "create_netif"
       \/ GenericInit(FALSE) /\ OnError
    /\ UNCHANGED <<calls, netifs, handle, started, link, queue, handlers,
                   locals, instances, result, refused>>

CreateInterface ==
    /\ pc = "create_netif"
    /\ \/ CreateNetif /\ pc' = "wifi_init"
       \/ UNCHANGED netifs /\ handle' = NULL /\ OnError
    /\ UNCHANGED <<ready, calls, started, link, queue, handlers, locals,
                   instances, result, refused>>

(* esp_wifi_init; safe_strcpy, esp_wifi_set_mode and esp_wifi_set_config   *)
Prepare(at, next) ==
    /\ pc = at
    /\ pc' = next \/ OnError
    /\ UNCHANGED <<driverVars, locals, instances, result, refused>>

(* WIFI_EVENT is registered into instance_got_ip, IP_EVENT into            *)
(* instance_any_id.                                                        *)
RegisterWifiEvents ==
    /\ pc = "register_wifi"
    /\ \/ /\ handlers' = handlers \cup {Registration("WIFI_EVENT")}
          /\ instance_got_ip' = Registration("WIFI_EVENT")
          /\ pc' = "register_ip"
       \/ OnError /\ UNCHANGED <<handlers, instance_got_ip>>
    /\ UNCHANGED <<ready, calls, netifs, handle, started, link, queue, locals,
                   instance_any_id, result, refused>>

RegisterIpEvent ==
    /\ pc = "register_ip"
    /\ \/ /\ handlers' = handlers \cup {Registration("IP_EVENT")}
          /\ instance_any_id' = Registration("IP_EVENT")
          /\ pc' = "configure"
       \/ OnError /\ UNCHANGED <<handlers, instance_any_id>>
    /\ UNCHANGED <<ready, calls, netifs, handle, started, link, queue, locals,
                   instance_got_ip, result, refused>>

Start ==
    /\ pc = "start"
    /\ \/ StartDriver("STA_START") /\ pc' = "wait"
       \/ UNCHANGED <<started, queue>> /\ OnError
    /\ UNCHANGED <<ready, calls, netifs, handle, link, handlers, locals,
                   instances, result, refused>>

(* wait(false): the task sleeps while the flag is clear, and looks at it   *)
(* again each time it is notified.                                         *)
Sleep ==
    /\ pc = "wait"
    /\ ~timed /\ ~connected /\ ~asleep
    /\ asleep' = TRUE
    /\ UNCHANGED <<driverVars, pc, timed, static, connected, current_retries,
                   instances, result, refused>>

(* The fixed interval is over, or the task finds the flag set.             *)
WaitIsOver == timed \/ (connected /\ ~asleep)

Wait ==
    /\ pc = "wait"
    /\ WaitIsOver
    /\ pc' = "unregister_ip"
    /\ UNCHANGED <<driverVars, locals, instances, result, refused>>

Unregister(at, base, instance, next) ==
    /\ pc = at
    /\ \/ handlers' = Unregistered(base, instance) /\ pc' = next
       \/ UNCHANGED handlers /\ OnError
    /\ UNCHANGED <<ready, calls, netifs, handle, started, link, queue, locals,
                   instances, result, refused>>

UnregisterIpEvent ==
    Unregister("unregister_ip", "IP_EVENT", instance_got_ip, "unregister_wifi")

UnregisterWifiEvents ==
    Unregister("unregister_wifi", "WIFI_EVENT", instance_any_id, "test")

(* The locals are gone with the return.                                    *)
Return(r) ==
    /\ pc' = "idle"
    /\ result' = r
    /\ connected' = FALSE
    /\ current_retries' = 0
    /\ instance_got_ip' = NoInstance
    /\ instance_any_id' = NoInstance
    /\ asleep' = FALSE
    /\ UNCHANGED <<timed, static>>

Test ==
    /\ pc = "test"
    /\ \/ connected /\ Return("ok")
       \/ ~connected /\ OnError /\ UNCHANGED <<locals, instances, result>>
    /\ UNCHANGED <<driverVars, refused>>

(* Seeded bug: the error path leaves the interface behind.                 *)
KeepNetif ==
    /\ handle' = NULL
    /\ UNCHANGED netifs

DestroyInterface ==
    IF handle # NULL THEN DestroyNetif ELSE UNCHANGED <<netifs, handle>>

CleanUpInterface ==
    /\ pc = "destroy_netif"
    /\ DestroyInterface
    /\ pc' = "drop_got_ip"
    /\ UNCHANGED <<ready, calls, started, link, queue, handlers, locals,
                   instances, result, refused>>

(* Whatever it returns is ignored.                                         *)
DropGotIp ==
    /\ pc = "drop_got_ip"
    /\ handlers' \in {handlers, Unregistered("IP_EVENT", instance_got_ip)}
    /\ pc' = "drop_any_id"
    /\ UNCHANGED <<ready, calls, netifs, handle, started, link, queue, locals,
                   instances, result, refused>>

DropAnyId ==
    /\ pc = "drop_any_id"
    /\ handlers' \in {handlers, Unregistered("IP_EVENT", instance_any_id)}
    /\ Return("error")
    /\ UNCHANGED <<ready, calls, netifs, handle, started, link, queue, refused>>

(* The task returns: disconnect() of the destructor.                       *)
Disconnect ==
    /\ pc = "idle"
    /\ result = "ok"
    /\ result' = "none"
    /\ GenericDeinit("STA_STOP")
    /\ UNCHANGED <<ready, calls, handlers, pc, locals, instances, refused>>

-----------------------------------------------------------------------------
(* event_handler, on the task of the event loop.  An event goes to all     *)
(* handlers of its base.  A handler whose conn_state is gone works on what *)
(* is now in its place: since main_task always calls connect() from the    *)
(* same depth of the stack, that is nothing of consequence, or the         *)
(* conn_state of the current call.                                         *)

Registered(base) == {h \in handlers : h.base = base}
Live(base) == {h \in Registered(base) : h.frame = calls /\ pc \in Block}

(* How many times the current conn_state is worked on.                     *)
Hits(base) ==
    IF pc = "idle" THEN {0}
    ELSE Cardinality(Live(base))..Cardinality(Registered(base))

Handle(e) == queue # << >> /\ Head(queue) = e

(* A handler calls esp_wifi_connect() and does not look at the result.     *)
CallConnect ==
    /\ link' \in LinksAfterConnect
    /\ refused' = (link' = "down")

OnStart ==
    /\ Handle("STA_START")
    /\ IF Registered("WIFI_EVENT") # {} THEN CallConnect
       ELSE UNCHANGED <<link, refused>>
    /\ queue' = Tail(queue)
    /\ UNCHANGED <<ready, calls, netifs, handle, started, handlers, pc, locals,
                   instances, result>>

(* With a static address DHCP is stopped and the address set, if the       *)
(* interface lets it; the interface announces it like one from DHCP.       *)
OnConnected ==
    /\ Handle("STA_CONNECTED")
    /\ \/ queue' = Tail(queue)
       \/ /\ static
          /\ Registered("WIFI_EVENT") # {}
          /\ handle # NULL
          /\ queue' = Append(Tail(queue), "STA_GOT_IP")
    /\ UNCHANGED <<ready, calls, netifs, handle, started, link, handlers, pc,
                   locals, instances, result, refused>>

(* Seeded bug: nobody tells connect() that the flag has changed.           *)
ForgetsToNotify == UNCHANGED asleep

NotifyOne == asleep' = FALSE

(* Seeded bug: giving up leaves the flag of an earlier address set.        *)
KeepFlag(hits) == connected' = connected

ClearFlag(hits) ==
    connected' = (connected /\ current_retries + hits <= num_retries)

(* Seeded bug: giving up is counted as a retry.                            *)
RetriesUncapped(hits) == current_retries + hits

RetriesAfter(hits) ==
    IF current_retries + hits <= num_retries
    THEN current_retries + hits
    ELSE num_retries

(* Each handler connects again while there are retries left, else clears   *)
(* the flag and notifies.  An attempt that is refused is one retry less.   *)
OnDisconnected ==
    /\ Handle("STA_DISCONNECTED")
    /\ \E hits \in Hits("WIFI_EVENT") :
         /\ ClearFlag(hits)
         /\ current_retries' = RetriesAfter(hits)
         /\ IF current_retries + hits > num_retries THEN NotifyOne
            ELSE UNCHANGED asleep
         /\ \/ /\ hits > 0 /\ current_retries < num_retries
               /\ CallConnect
            \/ /\ hits = 0 \/ current_retries = num_retries
               /\ UNCHANGED <<link, refused>>
            \/ /\ Registered("WIFI_EVENT") # Live("WIFI_EVENT")
               /\ CallConnect
    /\ queue' = Tail(queue)
    /\ UNCHANGED <<ready, calls, netifs, handle, started, handlers, pc, timed,
                   static, instances, result>>

OnGotIp ==
    /\ Handle("STA_GOT_IP")
    /\ \E hits \in Hits("IP_EVENT") :
         IF hits = 0 THEN UNCHANGED locals
         ELSE /\ connected' = TRUE
              /\ current_retries' = 0
              /\ NotifyOne
              /\ UNCHANGED <<timed, static>>
    /\ queue' = Tail(queue)
    /\ UNCHANGED <<ready, calls, netifs, handle, started, link, handlers, pc,
                   instances, result, refused>>

OnStop ==
    /\ Handle("STA_STOP")
    /\ queue' = Tail(queue)
    /\ UNCHANGED <<ready, calls, netifs, handle, started, link, handlers, pc,
                   locals, instances, result, refused>>

-----------------------------------------------------------------------------
ConnectStep ==
    \/ Initialize
    \/ CreateInterface
    \/ Prepare("wifi_init", "register_wifi")
    \/ RegisterWifiEvents
    \/ RegisterIpEvent
    \/ Prepare("configure", "start")
    \/ Start
    \/ Sleep
    \/ Wait
    \/ UnregisterIpEvent
    \/ UnregisterWifiEvents
    \/ Test
    \/ CleanUpInterface
    \/ DropGotIp
    \/ DropAnyId

EventLoop ==
    \/ OnStart
    \/ OnConnected
    \/ OnDisconnected
    \/ OnGotIp
    \/ OnStop

Driver ==
    /\ LinkUp \/ LinkDown \/ (~static /\ GotIp)
    /\ UNCHANGED <<pc, locals, instances, result, refused>>

Next ==
    \/ Connect
    \/ ConnectStep
    \/ Disconnect
    \/ EventLoop
    \/ Driver

Spec == Init /\ [][Next]_vars

(* Both tasks run; the network owes nothing.                               *)
FairSpec == Spec /\ WF_vars(ConnectStep) /\ WF_vars(EventLoop)

-----------------------------------------------------------------------------
(* Interfaces are neither leaked nor destroyed twice: m_handle is the only *)
(* one there is whenever connect() creates one, an error leaves none, and  *)
(* an ok leaves one for the socket calls of the task.                      *)
NetifBalanced ==
    /\ netifs = {handle} \ {NULL}
    /\ pc \in {"generic_init", "create_netif"} => netifs = {}
    /\ pc = "idle" => (result = "ok" <=> handle # NULL)

(* A flag that stays set ends the wait without a timeout, whether connect()*)
(* looked at it before or after it was set and slept in between: a wake-up *)
(* is lost only when the handler has given up in the meantime.             *)
FlagEndsWait == pc = "wait" /\ connected ~> pc # "wait" \/ ~connected

(* A flag that is set although the access point is lost: either the loss   *)
(* is still to be handled, or the handler has begun to connect again.  The *)
(* one thing that lets it rest on a station that nobody brings back is an  *)
(* esp_wifi_connect() that fails, whose result nobody looks at.  This is   *)
(* for addresses from DHCP, which an access point only gives while it is   *)
(* there, and a call to which no earlier one has left its handler for them.*)
LossIsNoticed ==
    /\ pc \in Block /\ connected /\ link = "down"
    /\ ~static
    /\ \A h \in handlers : h.base = "IP_EVENT" => h.frame = calls
    => refused \/ \E i \in 1..Len(queue) : queue[i] = "STA_DISCONNECTED"

(* wifi_client_handler.cpp:127: "Remove event listeners before deleting    *)
(* group".  The group is what conn_state has become: when connect() has    *)
(* seen both removals succeed, no handler still points into its frame.     *)
ListenersRemoved == result = "ok" => handlers = {}

=============================================================================
