--------------------------- MODULE HandlerLifecycle ---------------------------
(***************************************************************************)
(* A task and the resources of its network_event_handler: construction,    *)
(* init() that may fail half way, calls of send() and await(), the         *)
(* destructor, and the next start of the task by main_task.  test_task has *)
(* a signature_engine and no sockets.                                      *)
(*                                                                         *)
(* A node runs one task at a time.  Messages and retries are those of      *)
(* NetworkEventHandler; here every call may fail, and only what it leaves  *)
(* behind counts.                                                          *)
(***************************************************************************)
EXTENDS SignatureEngine, HandlerSockets

CONSTANTS
    Roles,      \* the tasks in the build: "sender", "receiver", "test",
                \* and "both" for a caller that mixes send() and await()
    Ids,        \* sender ids below TrustedCount
    PublicKeys  \* m_public_keys

ASSUME RolesAssumption == Roles \subseteq {"sender", "receiver", "both", "test"}
ASSUME PublicKeysAssumption == PublicKeys \in [Ids -> Keys]

VARIABLES
    phase,   \* "down", "made", "up" or "failed"
    role,    \* the task that runs
    claim,   \* the id in the answer that is being verified
    verdict  \* the last answer that verified, with who signed it

vars == <<engine, sockets, phase, role, claim, verdict>>

NoVerdict == [id |-> None, signer |-> None]

TypeOK ==
    /\ EngineTypeOK /\ SocketsTypeOK
    /\ phase \in {"down", "made", "up", "failed"} /\ role \in Roles
    /\ claim \in Ids \cup {None}
    /\ verdict \in [id : Ids, signer : Keys] \cup {NoVerdict}
    /\ local # None <=> stage \in {"acceptor listen", "connecting"}
    /\ phase # "up" => stage = "idle"

Init ==
    /\ bits = {} /\ hashReady = FALSE /\ d = "none" /\ q = "none"
    /\ ctx = [c \in Contexts |-> "raw"]
    /\ lwip = [x \in Descriptors |-> "closed"]
    /\ fd = [s \in Slots |-> None] /\ local = None
    /\ mode = "none" /\ target = "none" /\ stage = "idle"
    /\ phase = "down" /\ role \in Roles
    /\ claim = None /\ verdict = NoVerdict

-----------------------------------------------------------------------------
(* main_task calls the next task, which constructs its handler or engine.  *)
Start ==
    /\ phase = "down"
    /\ role' \in Roles
    /\ NewEngine
    /\ phase' = "made"
    /\ UNCHANGED <<sockets, claim, verdict>>

(* init() of the handler calls its destructor first: all members are empty.*)
Initialize ==
    /\ phase = "made"
    /\ \E failing \in Failures :
         /\ InitEngine(IF role = "test" THEN ctx ELSE Freed, failing)
         /\ phase' = IF failing = "none" THEN "up" ELSE "failed"
    /\ lwip' = IF role = "test" THEN lwip ELSE AllClosed
    /\ UNCHANGED <<fd, local, mode, target, stage, role, claim, verdict>>

(* The task ends and its handler is destroyed.  sender_node_task and       *)
(* receiver_node_task never end once init() has succeeded.                 *)
Destroy ==
    /\ phase = "failed" \/ (phase = "up" /\ stage = "idle" /\ role \in {"test", "both"})
    /\ FreeEngine
    /\ lwip' = AllClosed
    /\ fd' = [s \in Slots |-> None] /\ mode' = "none" /\ target' = "none"
    /\ phase' = "down"
    /\ UNCHANGED <<local, stage, role, claim, verdict>>

-----------------------------------------------------------------------------
(* send() and await()                                                      *)

SocketStep ==
    /\ phase = "up" /\ role # "test"
    /\ \/ \E new \in {"sender", "receiver"} : role \in {new, "both"} /\ Call(new)
       \/ OpenEventSocket \/ EventAddress \/ SetBroadcast
       \/ OpenAcceptor \/ ListenAcceptor \/ SetModeFails
       \/ Accept \/ NoConnection \/ OpenConnection \/ Connect \/ ConnectFails
    /\ UNCHANGED <<engine, phase, role, claim, verdict>>

Leave ==
    /\ phase = "up" /\ stage = "running"
    /\ Return
    /\ UNCHANGED <<engine, phase, role, claim, verdict>>

Connected == fd["challenge"] # None /\ lwip[fd["challenge"]] = "peer"

(* send_signature(): without a signature send() returns; a message that    *)
(* cannot be sent is a NoConnection or a Leave.                            *)
Answer ==
    /\ stage = "running" /\ target = "sender" /\ Connected
    /\ \E result \in SignResults :
         IF result = "ok"
         THEN lwip' = Shut(lwip, fd["challenge"]) /\ UNCHANGED stage
         ELSE stage' = "idle" /\ UNCHANGED lwip
    /\ UNCHANGED <<fd, local, mode, target>>
    /\ UNCHANGED <<engine, phase, role, claim, verdict>>

(* Seeded bug: the result of set_verification_key() is not looked at.      *)
SelectKeyUnchecked ==
    /\ stage = "running" /\ target = "receiver" /\ Connected
    /\ \E id \in Ids :
         /\ claim' = id
         /\ ReadPoint(PublicKeys[id]) \/ ReadPointFails
    /\ stage' = "verifying"
    /\ UNCHANGED <<lwip, fd, local, mode, target, phase, role, verdict>>

(* An answer with an id below TrustedCount has arrived.  Without its key   *)
(* await() returns an internal error.                                      *)
SelectKey ==
    /\ stage = "running" /\ target = "receiver" /\ Connected
    /\ \E id \in Ids :
         \/ ReadPoint(PublicKeys[id]) /\ claim' = id /\ stage' = "verifying"
         \/ ReadPointFails /\ claim' = None /\ stage' = "idle"
    /\ UNCHANGED <<lwip, fd, local, mode, target, phase, role, verdict>>

(* The results of verify() after which await() starts over.                *)
InvalidResponse == {"wrong", "signature_extraction_failed", "decryption_failed"}

(* Whoever signed it: await() delivers, starts over or fails.              *)
Verify ==
    /\ stage = "verifying"
    /\ \E signer \in Keys : \E result \in VerifyResults(signer) :
         IF result = "correct"
         THEN verdict' = [id |-> claim, signer |-> signer] /\ Finish
         ELSE /\ stage' = IF result \in InvalidResponse THEN "running" ELSE "idle"
              /\ UNCHANGED <<verdict, lwip, fd, local, mode, target>>
    /\ claim' = None
    /\ UNCHANGED <<engine, phase, role>>

(* test_task verifies under a listed key; nothing depends on the result.   *)
SelfTest ==
    /\ phase = "up" /\ role = "test"
    /\ \E id \in Ids : ReadPoint(PublicKeys[id]) \/ ReadPointFails
    /\ UNCHANGED <<sockets, phase, role, claim, verdict>>

Next ==
    \/ Start \/ Initialize \/ Destroy
    \/ SocketStep \/ Leave
    \/ Answer \/ SelectKey \/ Verify
    \/ SelfTest

Spec == Init /\ [][Next]_vars

-----------------------------------------------------------------------------
(* Every open descriptor has exactly one owner among the handler's members *)
(* and the local of the running call, whatever fails and however often the *)
(* modes change: none leaks, none is closed under another's feet, and none *)
(* is left when the handler is gone.                                       *)
DescriptorsOwned ==
    /\ \A s, t \in Slots : fd[s] = fd[t] /\ fd[s] # None => s = t
    /\ \A s \in Slots : fd[s] = local => local = None
    /\ \A x \in Descriptors :
         lwip[x] # "closed" <=> x = local \/ \E s \in Slots : fd[s] = x

(* A task that always asks for the same mode has the sockets of that mode  *)
(* when set_mode() lets it through, also after set_mode() has failed half  *)
(* way any number of times.                                                *)
ModeMatchesSockets ==
    role # "both" /\ stage \in {"running", "connecting", "verifying"} =>
        /\ fd["event"] # None
        /\ lwip[fd["event"]] =
             IF target = "sender" THEN "broadcasting" ELSE "hearing"
        /\ target = "sender" =>
             fd["acceptor"] # None /\ lwip[fd["acceptor"]] = "listening"

(* Such a task never meets its own acceptor on the port when set_mode() is *)
(* repeated, so it can always recover from a failure.                      *)
OwnPortFree == role # "both" /\ stage = "acceptor listen" => PortFree

(* As long as there is an engine, also when its init() has stopped half    *)
(* way, an engine that passes the guard of sign() or verify() has every    *)
(* context ready, and the private key for sign().  The guard of verify()   *)
(* says nothing of the key: its bit stays set when a later key is read     *)
(* half.  That verify() then never runs is the caller's doing.             *)
GuardsMeanReady ==
    phase # "down" =>
        /\ CanSign => Usable /\ d = OwnKey
        /\ CanVerify => Usable
        /\ stage = "verifying" => CanVerify /\ q = PublicKeys[claim]

(* An answer that verifies was signed with the key listed under its id, no *)
(* matter which key the answer before it has left in the engine and        *)
(* whether set_verification_key() failed in between.                       *)
VerdictUnderListedKey ==
    verdict # NoVerdict => verdict.signer = PublicKeys[verdict.id]

=============================================================================
