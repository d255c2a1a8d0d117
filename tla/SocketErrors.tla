---------------------------- MODULE SocketErrors ----------------------------
(***************************************************************************)
(* How network_event_handler classifies the error of a socket call: one    *)
(* operator per switch over error.value().  The switches are reached only  *)
(* for the generic category; every other category is an internal error.    *)
(*                                                                         *)
(* An errno is its name.  "retry" stands for the `break` out of the switch *)
(* that goes round the retry loop again ("Issue might be resolved in next  *)
(* retry"); every other value is the network_event_handler_error code that *)
(* is returned.                                                            *)
(***************************************************************************)

(* util/make_system_error.hpp tags errno with the generic category; the    *)
(* failure of accept() is tagged with the system category instead          *)
(* (tcp_socket_acceptor.cpp:79).                                           *)
Categories == {"generic", "system"}

(* network_event_handler_error::codes, those the handler uses.             *)
ErrorCodes ==
    {"temporary_listening_error", "cannot_connect_to_broadcast",
     "cannot_connect_to_sender", "challenge_connection_broken",
     "invalid_event_message", "invalid_challenge_request",
     "invalid_challenge_response", "internal_listening_error",
     "internal_connecting_error", "internal_sending_error",
     "internal_broadcast_sending_error", "internal_receiving_error",
     "internal_broadcast_receiving_error", "internal_signing_error",
     "internal_verification_error", "ran_out_of_tries"}

(* UDP send of the event datagram.                                         *)
BroadcastSendCode(e) ==
    CASE e \in {"EINTR", "EAGAIN", "ENETUNREACH"} -> "retry"
      [] e = "EAFNOSUPPORT" -> "cannot_connect_to_broadcast"
      [] OTHER -> "internal_broadcast_sending_error"

(* UDP receive of an event datagram.                                       *)
BroadcastReceiveCode(e) ==
    IF e \in {"EINTR", "ENOBUFS", "ENOMEM", "ETIMEDOUT"}
    THEN "retry"
    ELSE "internal_broadcast_receiving_error"

(* The failures of listen() that the code calls temporary.                 *)
TemporaryListenErrnos ==
    {"EINTR", "EAGAIN", "ECONNABORTED", "EMFILE", "ENOBUFS", "ENOMEM", "EPROTO"}

(* select() or accept() on the listening socket.                           *)
ListenCode(category, e) ==
    IF category = "generic" /\ e \in TemporaryListenErrnos
    THEN "temporary_listening_error"
    ELSE "internal_listening_error"

(* Non-blocking connect, the select() that waits for it and SO_ERROR.      *)
ConnectCode(e) ==
    CASE e \in {"EINTR", "EAGAIN", "ECONNREFUSED", "ETIMEDOUT", "ENETUNREACH",
                "ECONNRESET"} -> "retry"
      [] e \in {"EPERM", "EADDRINUSE", "EADDRNOTAVAIL", "EAFNOSUPPORT",
                "EFAULT"} -> "cannot_connect_to_sender"
      [] OTHER -> "internal_connecting_error"

(* The switch that challenge_socket_send and challenge_socket_receive      *)
(* share, up to the code of their default branch.                          *)
ChallengeSocketCode(e, internal) ==
    CASE e \in {"EINTR", "ENOBUFS", "ENOMEM"} -> "retry"
      [] e \in {"ECONNRESET", "EPIPE"} -> "challenge_connection_broken"
      [] OTHER -> internal

ChallengeSendCode(e) == ChallengeSocketCode(e, "internal_sending_error")

ChallengeReceiveCode(e) == ChallengeSocketCode(e, "internal_receiving_error")

=============================================================================
