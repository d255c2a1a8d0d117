---------------------------- MODULE EventDelivery ----------------------------
(***************************************************************************)
(* What network_event_handler promises to the program that calls it: an    *)
(* event that await() hands to a receiver was vouched for, under the       *)
(* receiver's own fresh challenge, by a trusted sender whose send() of     *)
(* that very event was running and had already put it on the air.  A       *)
(* challenge is answered at most once at the receiver, and events the      *)
(* receiver did not ask for are never delivered.                           *)
(*                                                                         *)
(* Nothing is promised about an event arriving at all: the radio may lose  *)
(* everything.  NetworkEventHandler implements this specification.         *)
(***************************************************************************)
EXTENDS Sequences

CONSTANTS
    Senders,      \* nodes that call send()
    Trusted,      \* the senders whose key every node lists
    Receivers,    \* nodes that call await()
    Events,
    Nonces,
    Wanted,       \* the events each receiver waits for
    None

VARIABLES
    sending,      \* the event of each sender's running send(), or None
    aired,        \* whether the running, or last, send() has broadcast it
    outstanding,  \* the challenge each receiver waits on: a set, {} or one
    issued,       \* every challenge ever issued
    vouched,      \* every event and nonce ever signed, with the signer
    delivered     \* what await() has returned to each receiver, in order

vars == <<sending, aired, outstanding, issued, vouched, delivered>>

Challenges == [receiver : Receivers, event : Events, nonce : Nonces]

Init ==
    /\ sending = [s \in Senders |-> None]
    /\ aired = [s \in Senders |-> FALSE]
    /\ outstanding = [r \in Receivers |-> {}]
    /\ issued = {}
    /\ vouched = {}
    /\ delivered = [r \in Receivers |-> << >>]

(* send(e) is called.                                                      *)
BeginSend(s, e) ==
    /\ sending[s] = None
    /\ sending' = [sending EXCEPT ![s] = e]
    /\ aired' = [aired EXCEPT ![s] = FALSE]
    /\ UNCHANGED <<outstanding, issued, vouched, delivered>>

(* The event goes on the air (again).                                      *)
Air(s) ==
    /\ sending[s] # None
    /\ aired' = [aired EXCEPT ![s] = TRUE]
    /\ UNCHANGED <<sending, outstanding, issued, vouched, delivered>>

(* send() returns, with or without an error, or its node restarts.         *)
EndSend(s) ==
    /\ sending[s] # None
    /\ sending' = [sending EXCEPT ![s] = None]
    /\ UNCHANGED <<aired, outstanding, issued, vouched, delivered>>

(* A receiver issues a challenge for an event it waits for, with a nonce   *)
(* it never used before.                                                   *)
Issue(r, e, n) ==
    /\ outstanding[r] = {}
    /\ e \in Wanted[r]
    /\ \A c \in issued : c.nonce # n
    /\ LET c == [receiver |-> r, event |-> e, nonce |-> n] IN
         /\ outstanding' = [outstanding EXCEPT ![r] = {c}]
         /\ issued' = issued \cup {c}
    /\ UNCHANGED <<sending, aired, vouched, delivered>>

(* A sender signs a challenge for the event it is sending.                 *)
Vouch(s, c) ==
    /\ c.event = sending[s]
    /\ aired[s]
    /\ vouched' = vouched \cup
         {[sender |-> s, event |-> c.event, nonce |-> c.nonce]}
    /\ UNCHANGED <<sending, aired, outstanding, issued, delivered>>

(* A receiver gives up on its challenge, or restarts.                      *)
Abandon(r) ==
    /\ outstanding' = [outstanding EXCEPT ![r] = {}]
    /\ UNCHANGED <<sending, aired, issued, vouched, delivered>>

(* await() returns an event: its challenge was signed by a trusted sender. *)
Deliver(r, c) ==
    /\ c \in outstanding[r]
    /\ \E s \in Trusted :
         [sender |-> s, event |-> c.event, nonce |-> c.nonce] \in vouched
    /\ outstanding' = [outstanding EXCEPT ![r] = {}]
    /\ delivered' = [delivered EXCEPT ![r] = Append(@, c)]
    /\ UNCHANGED <<sending, aired, issued, vouched>>

Next ==
    \/ \E s \in Senders :
         \/ \E e \in Events : BeginSend(s, e)
         \/ Air(s)
         \/ EndSend(s)
         \/ \E c \in issued : Vouch(s, c)
    \/ \E r \in Receivers :
         \/ \E e \in Events, n \in Nonces : Issue(r, e, n)
         \/ Abandon(r)
         \/ \E c \in outstanding[r] : Deliver(r, c)

Spec == Init /\ [][Next]_vars

=============================================================================
