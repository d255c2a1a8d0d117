------------------------------ MODULE WifiDriver ------------------------------
(***************************************************************************)
(* What a station or an access point sees of ESP-IDF: the Wi-Fi driver,    *)
(* the default network interface and the default event loop.  The driver   *)
(* posts events; the event loop's own task hands each of them to all       *)
(* handlers registered for it, one event at a time.  A handler carries a   *)
(* pointer to locals of the call that registered it, its frame.            *)
(*                                                                         *)
(* None of this is code of the repository, except generic_handler, whose   *)
(* init and deinit both handlers call.                                     *)
(***************************************************************************)
EXTENDS Naturals, Sequences

CONSTANTS
    MaxCalls,   \* bound: calls to connect() or create(), over all time
    MaxEvents   \* bound: events in the queue before the driver waits

ASSUME WifiBoundsAssumption == MaxCalls \in Nat /\ MaxEvents \in Nat

VARIABLES
    ready,      \* generic_init(): which of its three parts are done
    calls,      \* calls made so far; also the frame of the current call
    netifs,     \* network interfaces that exist, by the call that made them
    handle,     \* m_handle: one of them, or NULL
    started,    \* esp_wifi_start() has been called, esp_wifi_stop() not yet
    link,       \* "down", "connecting", or "up"
    queue,      \* events posted and not yet handled
    handlers    \* registrations: event base and frame

driverVars == <<ready, calls, netifs, handle, started, link, queue, handlers>>

NULL == 0
Frames == 1..MaxCalls
Registrations == [base : {"WIFI_EVENT", "IP_EVENT"}, frame : Frames]
WifiEvents == {"STA_START", "STA_CONNECTED", "STA_DISCONNECTED", "STA_GOT_IP",
               "STA_STOP", "AP_START", "AP_STOP"}

DriverTypeOK ==
    /\ ready \in 0..3
    /\ calls \in 0..MaxCalls
    /\ netifs \in SUBSET Frames
    /\ handle \in {NULL} \cup Frames
    /\ started \in BOOLEAN
    /\ link \in {"down", "connecting", "up"}
    /\ queue \in Seq(WifiEvents)
    /\ handlers \in SUBSET Registrations

DriverInit ==
    /\ ready = 0
    /\ calls = 0
    /\ netifs = {}
    /\ handle = NULL
    /\ started = FALSE
    /\ link = "down"
    /\ queue = << >>
    /\ handlers = {}

-----------------------------------------------------------------------------
(* generic_init(): NVS, TCP/IP and the event loop, each of them once; the  *)
(* first that fails ends it, and the next call goes on from there.         *)
GenericInit(ok) ==
    /\ ready' \in ready..3
    /\ ok = (ready' = 3)

(* esp_netif_create_default_wifi_*, esp_netif_destroy_default_wifi         *)
CreateNetif ==
    /\ netifs' = netifs \cup {calls}
    /\ handle' = calls

DestroyNetif ==
    /\ netifs' = netifs \ {handle}
    /\ handle' = NULL

(* esp_event_handler_instance_register                                     *)
Registration(base) == [base |-> base, frame |-> calls]

(* esp_event_handler_instance_unregister: removes the instance if it is    *)
(* registered for that base, and reports success otherwise as well.        *)
Unregistered(base, instance) ==
    handlers \ {h \in handlers : h = instance /\ h.base = base}

(* esp_wifi_start: a driver that runs already may or may not say so again. *)
StartDriver(startEvent) ==
    /\ started' = TRUE
    /\ \/ queue' = Append(queue, startEvent)
       \/ started /\ queue' = queue

(* esp_wifi_connect: where it may leave the link.  It fails when the driver*)
(* does not run, when it is connecting already, and whenever it likes.     *)
LinksAfterConnect ==
    {link} \cup {l \in {"connecting"} : started /\ link = "down"}

(* generic_deinit(): run by disconnect(), destroy() and the destructors.   *)
GenericDeinit(stopEvent) ==
    IF handle # NULL
    THEN /\ DestroyNetif
         /\ started' = FALSE
         /\ link' = "down"
         /\ queue' = Append(queue, stopEvent)
    ELSE UNCHANGED <<netifs, handle, started, link, queue>>

-----------------------------------------------------------------------------
(* The driver of a station.                                                *)
PostEvent(e) ==
    /\ Len(queue) < MaxEvents
    /\ queue' = Append(queue, e)

(* The access point takes the station in; its DHCP server sends an address *)
(* as long as there is an interface to take it.                            *)
LinkUp ==
    /\ link = "connecting"
    /\ link' = "up"
    /\ PostEvent("STA_CONNECTED")
    /\ UNCHANGED <<ready, calls, netifs, handle, started, handlers>>

GotIp ==
    /\ link = "up"
    /\ handle # NULL
    /\ PostEvent("STA_GOT_IP")
    /\ UNCHANGED <<ready, calls, netifs, handle, started, link, handlers>>

(* It cannot be reached, or does not answer any more.                      *)
LinkDown ==
    /\ link # "down"
    /\ link' = "down"
    /\ PostEvent("STA_DISCONNECTED")
    /\ UNCHANGED <<ready, calls, netifs, handle, started, handlers>>

=============================================================================
