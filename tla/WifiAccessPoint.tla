--------------------------- MODULE WifiAccessPoint ---------------------------
(***************************************************************************)
(* wifi::access_point_handler: create() on the main task, and its event    *)
(* handler on the task of the event loop, which sets a flag that is a      *)
(* local of create().                                                      *)
(*                                                                         *)
(* create() is one step for each call to ESP-IDF, and any of them may fail,*)
(* the removals behind on_error included, at whose result nobody looks.    *)
(* main_task calls the task again when it returns, and it create(), with   *)
(* the same arguments each time.                                           *)
(***************************************************************************)
EXTENDS WifiDriver

VARIABLES
    timed,      \* argument timeout_ms # 0: wait for a fixed interval
    pc,         \* the next call of create() to ESP-IDF, or "idle"
    connected,  \* the atomic flag
    instance_got_ip, instance_any_id,
    result,     \* of the last create(): "none", "ok" or "error"
    refused     \* history: handlers that on_error was not let remove

instances == <<instance_got_ip, instance_any_id>>
locals == <<timed, connected>>
vars == <<driverVars, pc, locals, instances, result, refused>>

NoInstance == [base |-> "none", frame |-> NULL]

TypeOK ==
    /\ DriverTypeOK
    /\ pc \in {"idle", "generic_init", "create_netif", "wifi_init",
               "register_any", "register_ip", "configure", "start", "wait",
               "unregister_ip", "unregister_any", "test", "destroy_netif",
               "drop_got_ip", "drop_any_id"}
    /\ timed \in BOOLEAN
    /\ connected \in BOOLEAN
    /\ instance_got_ip \in {NoInstance, Registration("IP_EVENT")}
    /\ instance_any_id \in {NoInstance, Registration("WIFI_EVENT")}
    /\ result \in {"none", "ok", "error"}
    /\ refused \in SUBSET Registrations

Init ==
    /\ DriverInit
    /\ pc = "idle"
    /\ timed \in BOOLEAN
    /\ connected = FALSE
    /\ instance_got_ip = NoInstance
    /\ instance_any_id = NoInstance
    /\ result = "none"
    /\ refused = {}

-----------------------------------------------------------------------------
(* create()                                                                *)

Create ==
    /\ pc = "idle"
    /\ result # "ok"
    /\ calls < MaxCalls
    /\ calls' = calls + 1
    /\ pc' = "generic_init"
    /\ connected' = FALSE
    /\ instance_got_ip' = NoInstance
    /\ instance_any_id' = NoInstance
    /\ result' = "none"
    /\ UNCHANGED <<ready, netifs, handle, started, link, queue, handlers, timed,
                   refused>>

(* goto on_error                                                           *)
OnError == pc' = "destroy_netif"

Initialize ==
    /\ pc = "generic_init"
    /\ \/ GenericInit(TRUE) /\ pc' = "create_netif"
       \/ GenericInit(FALSE) /\ OnError
    /\ UNCHANGED <<calls, netifs, handle, started, link, queue, handlers,
                   locals, instances, result, refused>>

CreateInterface ==
    /\ pc = "create_netif"
    /\ \/ CreateNetif /\ pc' = "wifi_init"
       \/ UNCHANGED netifs /\ handle' = NULL /\ OnError
    /\ UNCHANGED <<ready, calls, started, link, queue, handlers, locals,
                   instances, result, refused>>

(* esp_wifi_init; safe_strcpy, esp_wifi_set_mode and esp_wifi_set_config   *)
Prepare(at, next) ==
    /\ pc = at
    /\ pc' = next \/ OnError
    /\ UNCHANGED <<driverVars, locals, instances, result, refused>>

(* Seeded bug: the instances are mixed up, as client_handler does.         *)
InstanceOfOther == Registration("IP_EVENT")

InstanceAnyId == Registration("WIFI_EVENT")

RegisterAnyId ==
    /\ pc = "register_any"
    /\ \/ /\ handlers' = handlers \cup {Registration("WIFI_EVENT")}
          /\ instance_any_id' = InstanceAnyId
          /\ pc' = "register_ip"
       \/ OnError /\ UNCHANGED <<handlers, instance_any_id>>
    /\ UNCHANGED <<ready, calls, netifs, handle, started, link, queue,
                   locals, instance_got_ip, result, refused>>

RegisterGotIp ==
    /\ pc = "register_ip"
    /\ \/ /\ handlers' = handlers \cup {Registration("IP_EVENT")}
          /\ instance_got_ip' = Registration("IP_EVENT")
          /\ pc' = "configure"
       \/ OnError /\ UNCHANGED <<handlers, instance_got_ip>>
    /\ UNCHANGED <<ready, calls, netifs, handle, started, link, queue,
                   locals, instance_any_id, result, refused>>

Start ==
    /\ pc = "start"
    /\ \/ StartDriver("AP_START") /\ pc' = "wait"
       \/ UNCHANGED <<started, queue>> /\ OnError
    /\ UNCHANGED <<ready, calls, netifs, handle, link, handlers, locals,
                   instances, result, refused>>

Wait ==
    /\ pc = "wait"
    /\ timed \/ connected
    /\ pc' = "unregister_ip"
    /\ UNCHANGED <<driverVars, locals, instances, result, refused>>

Unregister(at, base, instance, next) ==
    /\ pc = at
    /\ \/ handlers' = Unregistered(base, instance) /\ pc' = next
       \/ UNCHANGED handlers /\ OnError
    /\ UNCHANGED <<ready, calls, netifs, handle, started, link, queue,
                   locals, instances, result, refused>>

UnregisterGotIp ==
    Unregister("unregister_ip", "IP_EVENT", instance_got_ip, "unregister_any")

UnregisterAnyId ==
    Unregister("unregister_any", "WIFI_EVENT", instance_any_id, "test")

(* The locals are gone with the return.                                    *)
Return(r) ==
    /\ pc' = "idle"
    /\ result' = r
    /\ connected' = FALSE
    /\ instance_got_ip' = NoInstance
    /\ instance_any_id' = NoInstance
    /\ UNCHANGED timed

Test ==
    /\ pc = "test"
    /\ \/ connected /\ Return("ok")
       \/ ~connected /\ OnError /\ UNCHANGED <<locals, instances, result>>
    /\ UNCHANGED <<driverVars, refused>>

(* Seeded bug: the error path leaves the interface behind.                 *)
KeepNetif ==
    /\ handle' = NULL
    /\ UNCHANGED netifs

DestroyInterface ==
    IF handle # NULL THEN DestroyNetif ELSE UNCHANGED <<netifs, handle>>

CleanUpInterface ==
    /\ pc = "destroy_netif"
    /\ DestroyInterface
    /\ pc' = "drop_got_ip"
    /\ UNCHANGED <<ready, calls, started, link, queue, handlers, locals,
                   instances, result, refused>>

(* Whatever it returns is ignored.                                         *)
Drop(base, instance) ==
    \/ /\ handlers' = Unregistered(base, instance)
       /\ UNCHANGED refused
    \/ /\ refused' = refused \cup ({instance} \cap handlers)
       /\ UNCHANGED handlers

DropGotIp ==
    /\ pc = "drop_got_ip"
    /\ Drop("IP_EVENT", instance_got_ip)
    /\ pc' = "drop_any_id"
    /\ UNCHANGED <<ready, calls, netifs, handle, started, link, queue, locals,
                   instances, result>>

(* Seeded bug: the base it was not registered for, as client_handler does. *)
RemovesFromOther == Drop("IP_EVENT", instance_any_id)

RemoveAnyId == Drop("WIFI_EVENT", instance_any_id)

DropAnyId ==
    /\ pc = "drop_any_id"
    /\ RemoveAnyId
    /\ Return("error")
    /\ UNCHANGED <<ready, calls, netifs, handle, started, link, queue>>

(* The task returns: destroy() of the destructor.                          *)
Destroy ==
    /\ pc = "idle"
    /\ result = "ok"
    /\ result' = "none"
    /\ GenericDeinit("AP_STOP")
    /\ UNCHANGED <<ready, calls, handlers, pc, locals, instances, refused>>

-----------------------------------------------------------------------------
(* event_handler, on the task of the event loop.  The esp_wifi_connect()   *)
(* it makes fails on an access point.  Stations that come and go are only  *)
(* logged.  A handler whose create() has returned sets what is now in the  *)
(* place of the flag: nothing of consequence, or the flag of the current   *)
(* call, which main_task makes from the same depth of the stack.           *)
Listening == {h \in handlers : h.base = "WIFI_EVENT" /\ pc # "idle"}
Live == {h \in Listening : h.frame = calls}

OnStart ==
    /\ queue # << >>
    /\ Head(queue) = "AP_START"
    /\ \/ Listening # {} /\ connected' = TRUE
       \/ Live = {} /\ UNCHANGED connected
    /\ queue' = Tail(queue)
    /\ UNCHANGED <<ready, calls, netifs, handle, started, link, handlers, pc,
                   timed, instances, result, refused>>

OnStop ==
    /\ queue # << >>
    /\ Head(queue) = "AP_STOP"
    /\ queue' = Tail(queue)
    /\ UNCHANGED <<ready, calls, netifs, handle, started, link, handlers, pc,
                   locals, instances, result, refused>>

-----------------------------------------------------------------------------
CreateStep ==
    \/ Initialize
    \/ CreateInterface
    \/ Prepare("wifi_init", "register_any")
    \/ RegisterAnyId
    \/ RegisterGotIp
    \/ Prepare("configure", "start")
    \/ Start
    \/ Wait
    \/ UnregisterGotIp
    \/ UnregisterAnyId
    \/ Test
    \/ CleanUpInterface
    \/ DropGotIp
    \/ DropAnyId

EventLoop == OnStart \/ OnStop

Next ==
    \/ Create
    \/ CreateStep
    \/ Destroy
    \/ EventLoop

Spec == Init /\ [][Next]_vars

-----------------------------------------------------------------------------
(* A handler outlives create() only if ESP-IDF refused to remove it: on    *)
(* every path out, the one through on_error from between the two           *)
(* registrations included, both removals name the base their instance was  *)
(* registered for.  So but for a refusal nobody looks at, the event loop   *)
(* never writes to a flag of a call that has returned.                     *)
OnlyRefusedHandlersStay ==
    /\ pc = "idle" => handlers \subseteq refused
    /\ \A h \in handlers \ refused : h.frame = calls

(* Interfaces are neither leaked nor destroyed twice: m_handle is the only *)
(* one there is, there is none when create() makes one, an error leaves    *)
(* none, and an ok leaves one for destroy().                               *)
NetifBalanced ==
    /\ netifs = {handle} \ {NULL}
    /\ pc \in {"generic_init", "create_netif"} => netifs = {}
    /\ pc = "idle" => (result = "ok" <=> handle # NULL)

=============================================================================
