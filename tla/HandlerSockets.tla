---------------------------- MODULE HandlerSockets ----------------------------
(***************************************************************************)
(* The descriptors of a network_event_handler: safe_lwip_socket, the event *)
(* socket, the acceptor and the challenge socket, through set_mode() and   *)
(* the bodies of send() and await().  An action is a socket call, or calls *)
(* between which none can fail, with the code up to the next one.          *)
(***************************************************************************)
EXTENDS Naturals, FiniteSets

CONSTANTS
    Descriptors,  \* what lwIP can hand out
    None          \* safe_lwip_socket::invalid_fd

ASSUME DescriptorsAssumption == None \notin Descriptors

VARIABLES
    lwip,    \* what lwIP knows of each descriptor
    fd,      \* the descriptors in the members of the handler
    local,   \* the one in a local variable of the running function
    mode,    \* m_current_mode
    target,  \* the mode that the running call asks for
    stage    \* where the running call is

sockets == <<lwip, fd, local, mode, target, stage>>

Slots == {"event", "acceptor", "challenge"}
Modes == {"none", "sender", "receiver"}

(* The sockets set_mode() opens, in order, and what follows.               *)
SettingUp == {"event socket", "event address", "event broadcast",
              "acceptor socket", "acceptor listen"}
Stages == SettingUp \cup {"idle", "running", "connecting", "verifying"}

(* What lwIP makes of a descriptor.  A UDP socket is connected to the      *)
(* broadcast address or bound to the port, then allowed to broadcast.      *)
Kinds == {"closed", "udp", "connected", "broadcasting", "bound", "hearing",
          "tcp", "listening", "peer", "shut"}

SocketsTypeOK ==
    /\ lwip \in [Descriptors -> Kinds]
    /\ fd \in [Slots -> Descriptors \cup {None}]
    /\ local \in Descriptors \cup {None}
    /\ mode \in Modes /\ target \in Modes /\ stage \in Stages

Free == {x \in Descriptors : lwip[x] = "closed"}

Close(table, x) == IF x = None THEN table ELSE [table EXCEPT ![x] = "closed"]

(* disconnect() shuts the connection down and keeps the descriptor.        *)
Shut(table, x) == IF x = None THEN table ELSE [table EXCEPT ![x] = "shut"]

(* The three members are destroyed.                                        *)
AllClosed == [x \in Descriptors |->
                 IF \E s \in Slots : fd[s] = x THEN "closed" ELSE lwip[x]]

(* Seeded bug: the descriptor is assigned, not moved.                      *)
AdoptKeepsOld(slot, x, kind) ==
    /\ lwip' = [lwip EXCEPT ![x] = kind]
    /\ fd' = [fd EXCEPT ![slot] = x]

(* m_socket = std::move(new_socket): what was in the slot is closed.       *)
Adopt(slot, x, kind) ==
    /\ lwip' = Close([lwip EXCEPT ![x] = kind], fd[slot])
    /\ fd' = [fd EXCEPT ![slot] = x]

-----------------------------------------------------------------------------
(* set_mode()                                                              *)

(* send() asks for "sender", await() for "receiver".                       *)
Call(new) ==
    /\ stage = "idle"
    /\ target' = new
    /\ stage' = IF mode = new THEN "running" ELSE "event socket"
    /\ UNCHANGED <<lwip, fd, local, mode>>

OpenEventSocket ==
    /\ stage = "event socket"
    /\ \E x \in Free : Adopt("event", x, "udp")
    /\ stage' = "event address"
    /\ UNCHANGED <<local, mode, target>>

EventAddress ==
    /\ stage = "event address"
    /\ lwip' = [lwip EXCEPT ![fd["event"]] =
                  IF target = "sender" THEN "connected" ELSE "bound"]
    /\ stage' = "event broadcast"
    /\ UNCHANGED <<fd, local, mode, target>>

(* Seeded bug: the mode is recorded before the acceptor is there.          *)
SetBroadcastModeFirst ==
    /\ stage = "event broadcast"
    /\ lwip' = [lwip EXCEPT ![fd["event"]] =
                  IF target = "sender" THEN "broadcasting" ELSE "hearing"]
    /\ stage' = IF target = "sender" THEN "acceptor socket" ELSE "running"
    /\ mode' = target
    /\ UNCHANGED <<fd, local, target>>

(* The last step of a receiver.                                            *)
SetBroadcast ==
    /\ stage = "event broadcast"
    /\ lwip' = [lwip EXCEPT ![fd["event"]] =
                  IF target = "sender" THEN "broadcasting" ELSE "hearing"]
    /\ stage' = IF target = "sender" THEN "acceptor socket" ELSE "running"
    /\ mode' = IF target = "sender" THEN mode ELSE target
    /\ UNCHANGED <<fd, local, target>>

OpenAcceptor ==
    /\ stage = "acceptor socket"
    /\ \E x \in Free : local' = x /\ lwip' = [lwip EXCEPT ![x] = "tcp"]
    /\ stage' = "acceptor listen"
    /\ UNCHANGED <<fd, mode, target>>

PortFree == \A x \in Descriptors : lwip[x] # "listening"

(* Seeded bug: the mode is not recorded.                                   *)
ListenAcceptorForgetsMode ==
    /\ stage = "acceptor listen" /\ PortFree
    /\ Adopt("acceptor", local, "listening")
    /\ local' = None
    /\ stage' = "running"
    /\ UNCHANGED <<mode, target>>

(* SO_REUSEADDR does not let a second socket listen on the port.           *)
ListenAcceptor ==
    /\ stage = "acceptor listen" /\ PortFree
    /\ Adopt("acceptor", local, "listening")
    /\ local' = None
    /\ mode' = target /\ stage' = "running"
    /\ UNCHANGED target

(* Seeded bug: the local survives the call.                                *)
SetModeFailsKeepsLocal ==
    /\ stage \in SettingUp
    /\ stage' = "idle"
    /\ UNCHANGED <<lwip, fd, local, mode, target>>

(* Any of these calls fails: the local is closed, all else stays.          *)
SetModeFails ==
    /\ stage \in SettingUp
    /\ lwip' = Close(lwip, local)
    /\ local' = None /\ stage' = "idle"
    /\ UNCHANGED <<fd, mode, target>>

-----------------------------------------------------------------------------
(* The bodies of send() and await()                                        *)

Accept ==
    /\ stage = "running" /\ target = "sender"
    /\ \E x \in Free : Adopt("challenge", x, "peer")
    /\ UNCHANGED <<local, mode, target, stage>>

(* A timeout or an error of accept() or socket(): the previous connection  *)
(* is shut down already.                                                   *)
NoConnection ==
    /\ stage = "running"
    /\ lwip' = Shut(lwip, fd["challenge"])
    /\ UNCHANGED <<fd, local, mode, target, stage>>

OpenConnection ==
    /\ stage = "running" /\ target = "receiver"
    /\ \E x \in Free :
         /\ local' = x
         /\ lwip' = [Shut(lwip, fd["challenge"]) EXCEPT ![x] = "tcp"]
    /\ stage' = "connecting"
    /\ UNCHANGED <<fd, mode, target>>

Connect ==
    /\ stage = "connecting"
    /\ Adopt("challenge", local, "peer")
    /\ local' = None /\ stage' = "running"
    /\ UNCHANGED <<mode, target>>

ConnectFails ==
    /\ stage = "connecting"
    /\ lwip' = Close(lwip, local)
    /\ local' = None /\ stage' = "running"
    /\ UNCHANGED <<fd, mode, target>>

(* m_challenge_socket.disconnect() after the last message, and a return.   *)
Finish ==
    /\ stage \in {"running", "verifying"}
    /\ lwip' = Shut(lwip, fd["challenge"])
    /\ stage' = "idle"
    /\ UNCHANGED <<fd, local, mode, target>>

(* A return with an error leaves the challenge socket as it is.            *)
Return ==
    /\ stage \in {"running", "verifying"}
    /\ stage' = "idle"
    /\ UNCHANGED <<lwip, fd, local, mode, target>>

=============================================================================
