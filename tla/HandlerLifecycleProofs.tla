------------------------ MODULE HandlerLifecycleProofs ------------------------
(***************************************************************************)
(* Proofs about HandlerLifecycle, for any number of descriptors and keys.  *)
(***************************************************************************)
EXTENDS HandlerLifecycle, TLAPS

(* No member holds a descriptor outside the life of a handler, and the     *)
(* event socket is there from its first step on.                           *)
Scope ==
    /\ phase # "up" => mode = "none" /\ \A s \in Slots : fd[s] = None
    /\ stage \in {"event address", "event broadcast", "acceptor socket",
                  "acceptor listen"} => fd["event"] # None

(* The acceptor is the only listening socket.                              *)
OneListener ==
    \A x \in Descriptors : lwip[x] = "listening" => fd["acceptor"] = x

Equipped(m) ==
    /\ fd["event"] # None
    /\ lwip[fd["event"]] = IF m = "sender" THEN "broadcasting" ELSE "hearing"
    /\ m = "sender" => fd["acceptor"] # None /\ lwip[fd["acceptor"]] = "listening"

(* What a task that never mixes send() and await() has at each stage.      *)
OneMode ==
    role # "both" =>
        /\ stage # "idle" => target = role
        /\ mode \in {"none", role}
        /\ mode = "none" => fd["acceptor"] = None
        /\ mode # "none" => stage \notin SettingUp /\ Equipped(mode)
        /\ stage \in {"running", "connecting", "verifying"} => mode = target
        /\ stage \in {"acceptor socket", "acceptor listen"} =>
             target = "sender" /\ lwip[fd["event"]] = "broadcasting"

(* The engine through the life of its owner.                               *)
EngineInv ==
    /\ phase = "made" => bits = {}
    /\ phase = "failed" => bits \subseteq Backend
    /\ phase = "up" => Backend \subseteq bits /\ Usable /\ d = OwnKey

(* The key of the answer that is being verified is in place.               *)
KeySelected ==
    /\ stage = "verifying" => claim \in Ids /\ CanVerify /\ q = PublicKeys[claim]
    /\ VerdictUnderListedKey

-----------------------------------------------------------------------------
(* Moving an open descriptor that nobody or the local owns into a slot.    *)
LEMMA AdoptOwned ==
    ASSUME SocketsTypeOK, DescriptorsOwned, OneListener,
           NEW slot \in Slots, NEW x \in Descriptors,
           NEW kind \in Kinds \ {"closed"},
           kind = "listening" => slot = "acceptor" /\ PortFree,
           (local = None /\ lwip[x] = "closed") \/ local = x,
           Adopt(slot, x, kind), local' = None
    PROVE  /\ lwip' \in [Descriptors -> Kinds]
           /\ fd' \in [Slots -> Descriptors \cup {None}]
           /\ DescriptorsOwned' /\ OneListener'
           /\ fd'[slot] = x /\ lwip'[x] = kind
           /\ \A s \in Slots \ {slot} :
                /\ fd'[s] = fd[s]
                /\ fd[s] # None => lwip'[fd[s]] = lwip[fd[s]]
<1> USE DescriptorsAssumption DEF SocketsTypeOK
<1>1. /\ fd' = [fd EXCEPT ![slot] = x]
      /\ lwip' = Close([lwip EXCEPT ![x] = kind], fd[slot])
  BY DEF Adopt
<1>2. \A s \in Slots : fd[s] # x
  BY DEF DescriptorsOwned
<1>3. \A y \in Descriptors :
        lwip'[y] = IF y = x THEN kind ELSE IF y = fd[slot] THEN "closed" ELSE lwip[y]
  BY <1>1, <1>2 DEF Close
<1>4. lwip' \in [Descriptors -> Kinds] /\ fd' \in [Slots -> Descriptors \cup {None}]
  BY <1>1 DEF Close, Kinds
<1>5. \A s \in Slots : fd'[s] = IF s = slot THEN x ELSE fd[s]
  BY <1>1
<1>6. DescriptorsOwned'
  <2>1. \A s, t \in Slots : fd'[s] = fd'[t] /\ fd'[s] # None => s = t
    BY <1>2, <1>5 DEF DescriptorsOwned
  <2>2. \A y \in Descriptors : lwip'[y] # "closed" <=> \E s \in Slots : fd'[s] = y
    <3> TAKE y \in Descriptors
    <3>1. CASE y = x
      BY <3>1, <1>3, <1>5
    <3>2. CASE y # x /\ y = fd[slot]
      BY <3>2, <1>3, <1>5 DEF DescriptorsOwned
    <3>3. CASE y # x /\ y # fd[slot]
      BY <3>3, <1>3, <1>5 DEF DescriptorsOwned
    <3> QED  BY <3>1, <3>2, <3>3
  <2> QED  BY <2>1, <2>2, <1>5 DEF DescriptorsOwned
<1>7. OneListener'
  <2>1. CASE kind = "listening"
    BY <2>1, <1>3, <1>5 DEF OneListener, PortFree
  <2>2. CASE kind # "listening"
    <3> SUFFICES ASSUME NEW y \in Descriptors, lwip'[y] = "listening"
                 PROVE  fd'["acceptor"] = y
      BY DEF OneListener
    <3>1. y # x /\ y # fd[slot] /\ lwip[y] = "listening"
      BY <2>2, <1>3
    <3> QED  BY <3>1, <1>5 DEF OneListener, Slots
  <2> QED  BY <2>1, <2>2
<1>8. \A s \in Slots \ {slot} : fd[s] # None => lwip'[fd[s]] = lwip[fd[s]]
  BY <1>2, <1>3 DEF DescriptorsOwned
<1> QED  BY <1>2, <1>3, <1>4, <1>5, <1>6, <1>7, <1>8

(* A call on an open socket, or closing the local, changes nothing else.   *)
LEMMA RetagOwned ==
    ASSUME SocketsTypeOK, DescriptorsOwned, OneListener,
           NEW slot \in Slots, NEW kind \in Kinds \ {"closed", "listening"},
           lwip' = IF fd[slot] = None THEN lwip ELSE [lwip EXCEPT ![fd[slot]] = kind],
           UNCHANGED <<fd, local>>
    PROVE  /\ lwip' \in [Descriptors -> Kinds]
           /\ DescriptorsOwned' /\ OneListener'
           /\ fd[slot] # None => lwip'[fd[slot]] = kind
           /\ \A s \in Slots \ {slot} : fd[s] # None => lwip'[fd[s]] = lwip[fd[s]]
<1> USE DescriptorsAssumption DEF SocketsTypeOK
<1>1. lwip' \in [Descriptors -> Kinds]
  OBVIOUS
<1>2. \A y \in Descriptors :
        lwip'[y] = IF y = fd[slot] THEN kind ELSE lwip[y]
  OBVIOUS
<1>3. \A s \in Slots \ {slot} : fd[s] # None => fd[s] # fd[slot]
  BY DEF DescriptorsOwned
<1>4. DescriptorsOwned'
  BY <1>2 DEF DescriptorsOwned
<1>5. OneListener'
  BY <1>2 DEF OneListener
<1> QED  BY <1>1, <1>2, <1>3, <1>4, <1>5

LEMMA DropLocalOwned ==
    ASSUME SocketsTypeOK, DescriptorsOwned, OneListener,
           lwip' = Close(lwip, local), local' = None, UNCHANGED fd
    PROVE  /\ lwip' \in [Descriptors -> Kinds]
           /\ DescriptorsOwned' /\ OneListener'
           /\ \A s \in Slots : fd[s] # None => lwip'[fd[s]] = lwip[fd[s]]
<1> USE DescriptorsAssumption DEF SocketsTypeOK
<1>1. \A y \in Descriptors : lwip'[y] = IF y = local THEN "closed" ELSE lwip[y]
  BY DEF Close
<1>2. lwip' \in [Descriptors -> Kinds]
  BY DEF Close, Kinds
<1>3. DescriptorsOwned'
  BY <1>1 DEF DescriptorsOwned
<1>4. OneListener'
  BY <1>1 DEF OneListener
<1> QED  BY <1>1, <1>2, <1>3, <1>4 DEF DescriptorsOwned

(* socket() for a local of the running call.                               *)
LEMMA OpenLocalOwned ==
    ASSUME SocketsTypeOK, DescriptorsOwned, OneListener,
           NEW x \in Free, local = None, local' = x, UNCHANGED fd,
           lwip' = [lwip EXCEPT ![x] = "tcp"]
    PROVE  /\ lwip' \in [Descriptors -> Kinds]
           /\ DescriptorsOwned' /\ OneListener'
           /\ \A s \in Slots : fd[s] # None => lwip'[fd[s]] = lwip[fd[s]]
<1> USE DescriptorsAssumption DEF SocketsTypeOK, Free
<1>1. \A y \in Descriptors : lwip'[y] = IF y = x THEN "tcp" ELSE lwip[y]
  OBVIOUS
<1>2. lwip' \in [Descriptors -> Kinds]
  BY DEF Kinds
<1>3. \A s \in Slots : fd[s] # x
  BY DEF DescriptorsOwned
<1>4. DescriptorsOwned'
  BY <1>1, <1>3 DEF DescriptorsOwned
<1>5. OneListener'
  BY <1>1 DEF OneListener
<1> QED  BY <1>1, <1>2, <1>3, <1>4, <1>5

-----------------------------------------------------------------------------
(* What a step of set_mode(), send() or await() has to keep.               *)
SocketInv ==
    /\ SocketsTypeOK /\ DescriptorsOwned /\ Scope /\ OneListener /\ OneMode
    /\ local # None <=> stage \in {"acceptor listen", "connecting"}

LEMMA SetModeKeeps ==
    ASSUME SocketInv, phase = "up", UNCHANGED <<phase, role>>,
           \/ \E new \in {"sender", "receiver"} : role \in {new, "both"} /\ Call(new)
           \/ OpenEventSocket \/ EventAddress \/ SetBroadcast
           \/ OpenAcceptor \/ ListenAcceptor \/ SetModeFails
    PROVE  SocketInv' /\ stage' # "verifying"
<1> USE DescriptorsAssumption
<1>0. SocketInv /\ phase = "up" /\ phase' = "up" /\ role' = role
  OBVIOUS
<1> USE DEF SocketInv
<1>1. CASE \E new \in {"sender", "receiver"} : role \in {new, "both"} /\ Call(new)
  <2>1. DescriptorsOwned' /\ OneListener'
    BY <1>1 DEF Call, DescriptorsOwned, OneListener
  <2> QED  BY <2>1, <1>0, <1>1 DEF Call, SocketsTypeOK, Scope, OneMode, Equipped, SettingUp, Stages, Modes, Slots
<1>2. CASE OpenEventSocket
  <2>1. PICK x \in Free : Adopt("event", x, "udp")
    BY <1>2 DEF OpenEventSocket
  <2>2. x \in Descriptors /\ lwip[x] = "closed" /\ local = None /\ local' = None
    BY <1>2 DEF OpenEventSocket, Free
  <2>3. /\ lwip' \in [Descriptors -> Kinds]
        /\ fd' \in [Slots -> Descriptors \cup {None}]
        /\ DescriptorsOwned' /\ OneListener'
        /\ fd'["event"] = x
        /\ \A s \in Slots \ {"event"} : fd'[s] = fd[s]
    BY <2>1, <2>2, AdoptOwned DEF Slots, Kinds
  <2> QED  BY <2>2, <2>3, <1>0, <1>2 DEF OpenEventSocket, SocketsTypeOK, Scope, OneMode, Equipped, SettingUp, Stages, Modes, Slots
<1>3. CASE EventAddress
  <2>1. /\ lwip' \in [Descriptors -> Kinds]
        /\ DescriptorsOwned' /\ OneListener'
    <3> DEFINE kind == IF target = "sender" THEN "connected" ELSE "bound"
    <3>1. kind \in Kinds \ {"closed", "listening"} /\ "event" \in Slots
      BY DEF Kinds, Slots
    <3>2. /\ lwip' = IF fd["event"] = None THEN lwip ELSE [lwip EXCEPT ![fd["event"]] = kind]
          /\ UNCHANGED <<fd, local>>
      BY <1>3 DEF EventAddress, Scope
    <3> HIDE DEF kind
    <3> QED  BY <3>1, <3>2, RetagOwned
  <2> QED  BY <2>1, <1>0, <1>3 DEF EventAddress, SocketsTypeOK, Scope, OneMode, Equipped, SettingUp, Stages, Modes, Slots
<1>4. CASE SetBroadcast
  <2>1. /\ lwip' \in [Descriptors -> Kinds]
        /\ DescriptorsOwned' /\ OneListener'
        /\ lwip'[fd["event"]] = IF target = "sender" THEN "broadcasting" ELSE "hearing"
    <3> DEFINE kind == IF target = "sender" THEN "broadcasting" ELSE "hearing"
    <3>1. kind \in Kinds \ {"closed", "listening"} /\ "event" \in Slots
      BY DEF Kinds, Slots
    <3>2. /\ lwip' = IF fd["event"] = None THEN lwip ELSE [lwip EXCEPT ![fd["event"]] = kind]
          /\ fd["event"] # None /\ UNCHANGED <<fd, local>>
      BY <1>4 DEF SetBroadcast, Scope
    <3> HIDE DEF kind
    <3>3. lwip'[fd["event"]] = kind /\ lwip' \in [Descriptors -> Kinds]
          /\ DescriptorsOwned' /\ OneListener'
      BY <3>1, <3>2, RetagOwned
    <3> QED  BY <3>3 DEF kind
  <2> QED  BY <2>1, <1>0, <1>4 DEF SetBroadcast, SocketsTypeOK, Scope, OneMode, Equipped, SettingUp, Stages, Modes, Slots
<1>5. CASE OpenAcceptor
  <2>1. PICK x \in Free : local' = x /\ lwip' = [lwip EXCEPT ![x] = "tcp"]
    BY <1>5 DEF OpenAcceptor
  <2>2. /\ lwip' \in [Descriptors -> Kinds]
        /\ DescriptorsOwned' /\ OneListener'
        /\ \A s \in Slots : fd[s] # None => lwip'[fd[s]] = lwip[fd[s]]
    BY <2>1, <1>5, OpenLocalOwned DEF OpenAcceptor
  <2> QED  BY <2>1, <2>2, <1>0, <1>5 DEF OpenAcceptor, Free, SocketsTypeOK, Scope, OneMode, Equipped, SettingUp, Stages, Modes, Slots
<1>6. CASE ListenAcceptor
  <2>1. local \in Descriptors /\ local' = None
    BY <1>6 DEF ListenAcceptor, SocketsTypeOK
  <2>2. /\ lwip' \in [Descriptors -> Kinds]
        /\ fd' \in [Slots -> Descriptors \cup {None}]
        /\ DescriptorsOwned' /\ OneListener'
        /\ fd'["acceptor"] = local /\ lwip'[local] = "listening"
        /\ \A s \in Slots \ {"acceptor"} :
             fd'[s] = fd[s] /\ (fd[s] # None => lwip'[fd[s]] = lwip[fd[s]])
    BY <2>1, <1>6, AdoptOwned DEF ListenAcceptor, Slots, Kinds
  <2> QED  BY <2>1, <2>2, <1>0, <1>6 DEF ListenAcceptor, SocketsTypeOK, Scope, OneMode, Equipped, SettingUp, Stages, Modes, Slots
<1>7. CASE SetModeFails
  <2>1. /\ lwip' \in [Descriptors -> Kinds]
        /\ DescriptorsOwned' /\ OneListener'
        /\ \A s \in Slots : fd[s] # None => lwip'[fd[s]] = lwip[fd[s]]
    BY <1>7, DropLocalOwned DEF SetModeFails
  <2> QED  BY <2>1, <1>0, <1>7 DEF SetModeFails, SocketsTypeOK, Scope, OneMode, Equipped, SettingUp, Stages, Modes, Slots
<1> QED  BY <1>1, <1>2, <1>3, <1>4, <1>5, <1>6, <1>7

LEMMA BodyKeeps ==
    ASSUME SocketInv, phase = "up", UNCHANGED <<phase, role>>,
           Accept \/ NoConnection \/ OpenConnection \/ Connect \/ ConnectFails
    PROVE  SocketInv' /\ stage' # "verifying"
<1> USE DescriptorsAssumption
<1>0. SocketInv /\ phase = "up" /\ phase' = "up" /\ role' = role
  OBVIOUS
<1> USE DEF SocketInv
<1>1. CASE Accept
  <2>1. PICK x \in Free : Adopt("challenge", x, "peer")
    BY <1>1 DEF Accept
  <2>2. x \in Descriptors /\ lwip[x] = "closed" /\ local = None /\ local' = None
    BY <1>1 DEF Accept, Free
  <2>3. /\ lwip' \in [Descriptors -> Kinds]
        /\ fd' \in [Slots -> Descriptors \cup {None}]
        /\ DescriptorsOwned' /\ OneListener'
        /\ \A s \in Slots \ {"challenge"} :
             fd'[s] = fd[s] /\ (fd[s] # None => lwip'[fd[s]] = lwip[fd[s]])
    BY <2>1, <2>2, AdoptOwned DEF Slots, Kinds
  <2> QED  BY <2>2, <2>3, <1>0, <1>1 DEF Accept, SocketsTypeOK, Scope, OneMode, Equipped, SettingUp, Stages, Modes, Slots
<1>2. CASE NoConnection
  <2>1. /\ lwip' \in [Descriptors -> Kinds]
        /\ DescriptorsOwned' /\ OneListener'
        /\ \A s \in Slots \ {"challenge"} : fd[s] # None => lwip'[fd[s]] = lwip[fd[s]]
    BY <1>2, RetagOwned DEF NoConnection, Shut, Slots, Kinds
  <2> QED  BY <2>1, <1>0, <1>2 DEF NoConnection, SocketsTypeOK, Scope, OneMode, Equipped, SettingUp, Stages, Modes, Slots
<1>3. CASE OpenConnection
  <2>1. PICK x \in Free :
          /\ local' = x
          /\ lwip' = [Shut(lwip, fd["challenge"]) EXCEPT ![x] = "tcp"]
    BY <1>3 DEF OpenConnection
  <2>2. /\ lwip' \in [Descriptors -> Kinds]
        /\ DescriptorsOwned' /\ OneListener'
        /\ \A s \in Slots \ {"challenge"} : fd[s] # None => lwip'[fd[s]] = lwip[fd[s]]
    <3> USE DEF SocketsTypeOK
    <3>1. \A y \in Descriptors :
            lwip'[y] = IF y = x THEN "tcp"
                       ELSE IF y = fd["challenge"] THEN "shut" ELSE lwip[y]
      BY <2>1 DEF Shut, Free, Slots
    <3>2. lwip' \in [Descriptors -> Kinds]
      BY <2>1 DEF Shut, Kinds
    <3>8. x \in Descriptors /\ lwip[x] = "closed"
      BY DEF Free
    <3>9. fd' = fd /\ local = None
      BY <1>3 DEF OpenConnection
    <3>10. \A s \in Slots : fd[s] # x
      BY <3>8 DEF DescriptorsOwned
    <3>3. x \in Descriptors /\ (\A s \in Slots : fd[s] # x) /\ fd' = fd /\ local = None
      BY <3>8, <3>9, <3>10
    <3>6. \A s \in Slots \ {"challenge"} : fd[s] # None => fd[s] # fd["challenge"]
      BY DEF DescriptorsOwned, Slots
    <3>7. \A s \in Slots \ {"challenge"} : fd[s] # None => lwip'[fd[s]] = lwip[fd[s]]
      <4> TAKE s \in Slots \ {"challenge"}
      <4> HAVE fd[s] # None
      <4>1. fd[s] \in Descriptors /\ fd[s] # x /\ fd[s] # fd["challenge"]
        BY <3>3, <3>6
      <4> QED  BY <4>1, <3>1
    <3>4. DescriptorsOwned'
      <4>1. \A y \in Descriptors :
              lwip'[y] # "closed" <=> y = x \/ \E s \in Slots : fd[s] = y
        <5> TAKE y \in Descriptors
        <5>1. CASE y = x
          BY <5>1, <3>1
        <5>2. CASE y # x /\ y = fd["challenge"]
          BY <5>2, <3>1 DEF Slots
        <5>3. CASE y # x /\ y # fd["challenge"]
          BY <5>3, <3>1, <3>3 DEF DescriptorsOwned
        <5> QED  BY <5>1, <5>2, <5>3
      <4> QED  BY <2>1, <4>1, <3>3 DEF DescriptorsOwned
    <3>5. OneListener'
      BY <3>1, <3>3 DEF OneListener
    <3> QED  BY <3>2, <3>4, <3>5, <3>7
  <2> QED  BY <2>1, <2>2, <1>0, <1>3 DEF OpenConnection, Free, SocketsTypeOK, Scope, OneMode, Equipped, SettingUp, Stages, Modes, Slots
<1>4. CASE Connect
  <2>1. local \in Descriptors /\ local' = None
    BY <1>4 DEF Connect, SocketsTypeOK
  <2>2. /\ lwip' \in [Descriptors -> Kinds]
        /\ fd' \in [Slots -> Descriptors \cup {None}]
        /\ DescriptorsOwned' /\ OneListener'
        /\ \A s \in Slots \ {"challenge"} :
             fd'[s] = fd[s] /\ (fd[s] # None => lwip'[fd[s]] = lwip[fd[s]])
    BY <2>1, <1>4, AdoptOwned DEF Connect, Slots, Kinds
  <2> QED  BY <2>1, <2>2, <1>0, <1>4 DEF Connect, SocketsTypeOK, Scope, OneMode, Equipped, SettingUp, Stages, Modes, Slots
<1>5. CASE ConnectFails
  <2>1. /\ lwip' \in [Descriptors -> Kinds]
        /\ DescriptorsOwned' /\ OneListener'
        /\ \A s \in Slots : fd[s] # None => lwip'[fd[s]] = lwip[fd[s]]
    BY <1>5, DropLocalOwned DEF ConnectFails
  <2> QED  BY <2>1, <1>0, <1>5 DEF ConnectFails, SocketsTypeOK, Scope, OneMode, Equipped, SettingUp, Stages, Modes, Slots
<1> QED  BY <1>1, <1>2, <1>3, <1>4, <1>5

-----------------------------------------------------------------------------
(* What the life of the owner adds to the descriptors.                     *)
LifeInv ==
    /\ EngineTypeOK /\ EngineInv /\ KeySelected
    /\ phase \in {"down", "made", "up", "failed"} /\ role \in Roles
    /\ claim \in Ids \cup {None}
    /\ verdict \in [id : Ids, signer : Keys] \cup {NoVerdict}
    /\ phase # "up" => stage = "idle"

IInv == SocketInv /\ LifeInv

LEMMA InitialState == Init => IInv
<1> SUFFICES ASSUME Init PROVE IInv
  OBVIOUS
<1>1. SocketInv
  BY DescriptorsAssumption DEF Init, SocketInv, DescriptorsOwned, OneListener, Kinds, SocketsTypeOK, Scope, OneMode, Equipped, SettingUp, Stages, Modes, Slots
<1>2. LifeInv
  BY KeysAssumption DEF Init, LifeInv, EngineTypeOK, EngineInv, KeySelected, CanVerify,
     VerdictUnderListedKey, Contexts
<1> QED  BY <1>1, <1>2 DEF IInv

(* Closing the members of a handler that is not in a call closes all.      *)
LEMMA ClosingAll ==
    ASSUME SocketInv, stage = "idle"
    PROVE  AllClosed = [x \in Descriptors |-> "closed"]
<1>1. local = None /\ lwip \in [Descriptors -> Kinds]
  BY DEF SocketInv, SocketsTypeOK
<1>2. \A x \in Descriptors : (~ \E s \in Slots : fd[s] = x) => lwip[x] = "closed"
  BY <1>1, DescriptorsAssumption DEF SocketInv, DescriptorsOwned
<1> QED  BY <1>1, <1>2 DEF AllClosed

LEMMA StartKeeps == ASSUME IInv, Start PROVE IInv'
<1>0. SocketInv /\ LifeInv
  BY DEF IInv
<1>1. SocketInv'
  <2>1. UNCHANGED sockets /\ phase = "down" /\ phase' = "made" /\ role' \in Roles
    BY DEF Start
  <2>2. stage = "idle"
    BY <1>0, <2>1 DEF LifeInv
  <2> QED  BY <1>0, <2>1, <2>2 DEF SocketInv, sockets, DescriptorsOwned, OneListener, SocketsTypeOK, Scope, OneMode, Equipped, SettingUp, Stages, Modes, Slots
<1>2. LifeInv'
  BY <1>0 DEF Start, NewEngine, sockets, LifeInv, EngineTypeOK, EngineInv,
     KeySelected, CanVerify, VerdictUnderListedKey, Contexts
<1> QED  BY <1>1, <1>2 DEF IInv

LEMMA InitializeKeeps == ASSUME IInv, Initialize PROVE IInv'
<1>0. SocketInv /\ LifeInv
  BY DEF IInv
<1>1. /\ phase = "made" /\ phase' \in {"up", "failed"} /\ stage = "idle"
      /\ UNCHANGED <<fd, local, mode, target, stage, role, claim, verdict>>
  BY <1>0 DEF Initialize, LifeInv
<1>2. SocketInv'
  <2>1. lwip' = lwip
    <3>1. /\ \A s \in Slots : fd[s] = None
          /\ local = None /\ lwip \in [Descriptors -> Kinds]
      BY <1>0, <1>1 DEF SocketInv, Scope, SocketsTypeOK
    <3>2. AllClosed = lwip
      BY <3>1, DescriptorsAssumption DEF AllClosed
    <3> QED  BY <3>2 DEF Initialize
  <2> QED  BY <1>0, <1>1, <2>1 DEF SocketInv, DescriptorsOwned, OneListener, SocketsTypeOK, Scope, OneMode, Equipped, SettingUp, Stages, Modes, Slots
<1>3. LifeInv'
  <2>1. PICK failing \in Failures :
          /\ InitEngine(IF role = "test" THEN ctx ELSE Freed, failing)
          /\ phase' = IF failing = "none" THEN "up" ELSE "failed"
    BY DEF Initialize
  <2> DEFINE before == IF role = "test" THEN ctx ELSE Freed
  <2>2. before \in [Contexts -> {"raw", "empty", "ready", "freed"}]
    BY <1>0 DEF LifeInv, EngineTypeOK, Freed
  <2>3. InitEngine(before, failing)
    BY <2>1
  <2> HIDE DEF before
  <2>4. EngineTypeOK'
    BY <1>0, <1>1, <2>2, <2>3, KeysAssumption
    DEF LifeInv, InitEngine, EngineTypeOK, Failures, Backend, KeyBits, Contexts
  <2>5. failing = "none" => Usable' /\ d' = OwnKey
    BY <2>2, <2>3 DEF InitEngine, Usable, Contexts
  <2>6. IF failing = "none" THEN Backend \subseteq bits' ELSE bits' \subseteq Backend
    BY <1>0, <1>1, <2>3 DEF LifeInv, EngineInv, InitEngine, Backend
  <2> QED  BY <1>0, <1>1, <2>1, <2>4, <2>5, <2>6
           DEF LifeInv, EngineInv, KeySelected, CanVerify, VerdictUnderListedKey, Failures
<1> QED  BY <1>2, <1>3 DEF IInv

LEMMA DestroyKeeps == ASSUME IInv, Destroy PROVE IInv'
<1>0. SocketInv /\ LifeInv
  BY DEF IInv
<1>1. /\ stage = "idle" /\ phase' = "down"
      /\ lwip' = AllClosed /\ fd' = [s \in Slots |-> None]
      /\ mode' = "none" /\ target' = "none"
      /\ UNCHANGED <<local, stage, role, claim, verdict>>
  BY <1>0 DEF Destroy, LifeInv
<1>2. SocketInv'
  <2>1. lwip' = [x \in Descriptors |-> "closed"] /\ local = None
    BY <1>0, <1>1, ClosingAll DEF SocketInv, SocketsTypeOK
  <2> QED  BY <1>0, <1>1, <2>1, DescriptorsAssumption
           DEF SocketInv, DescriptorsOwned, OneListener, Kinds, SocketsTypeOK, Scope, OneMode, Equipped, SettingUp, Stages, Modes, Slots
<1>3. LifeInv'
  <2>1. ctx' = Freed /\ UNCHANGED <<bits, hashReady, d, q>>
    BY DEF Destroy, FreeEngine
  <2>2. ctx' \in [Contexts -> {"raw", "empty", "ready", "freed"}]
    BY <1>0, <2>1 DEF LifeInv, EngineTypeOK, Freed
  <2> QED  BY <1>0, <1>1, <2>1, <2>2
           DEF LifeInv, EngineTypeOK, EngineInv, KeySelected, CanVerify, VerdictUnderListedKey
<1> QED  BY <1>2, <1>3 DEF IInv

LEMMA LeaveKeeps ==
    ASSUME SocketInv, stage' \in {"idle", "running"},
           stage' = "running" => stage = "verifying",
           stage \in {"running", "verifying"},
           phase = "up", UNCHANGED <<lwip, fd, local, mode, target, phase, role>>
    PROVE  SocketInv'
BY DEF SocketInv, DescriptorsOwned, OneListener, SocketsTypeOK, Scope, OneMode,
       Equipped, SettingUp, Stages, Modes, Slots

LEMMA ShutKeeps ==
    ASSUME SocketInv, lwip' = Shut(lwip, fd["challenge"]), stage' \in {stage, "idle"},
           stage \in {"running", "verifying"}, phase = "up",
           UNCHANGED <<fd, local, mode, target, phase, role>>
    PROVE  SocketInv'
<1> USE DescriptorsAssumption
<1>1. /\ lwip' \in [Descriptors -> Kinds]
      /\ DescriptorsOwned' /\ OneListener'
      /\ \A s \in Slots \ {"challenge"} : fd[s] # None => lwip'[fd[s]] = lwip[fd[s]]
  BY RetagOwned DEF SocketInv, Shut, Slots, Kinds
<1> QED  BY <1>1 DEF SocketInv, SocketsTypeOK, Scope, OneMode,
       Equipped, SettingUp, Stages, Modes, Slots

LEMMA CallsKeep ==
    ASSUME IInv, SocketStep \/ Leave \/ Answer
    PROVE  IInv'
<1>0. SocketInv /\ LifeInv
  BY DEF IInv
<1>1. /\ UNCHANGED <<engine, phase, role, claim, verdict>> /\ phase = "up"
  <2>1. CASE SocketStep
    BY <2>1 DEF SocketStep
  <2>2. CASE Leave
    BY <2>2 DEF Leave
  <2>3. CASE Answer
    BY <2>3, <1>0 DEF Answer, LifeInv
  <2> QED  BY <2>1, <2>2, <2>3
<1>2. SocketInv' /\ stage' # "verifying"
  <2>1. CASE SocketStep
    BY <2>1, <1>0, <1>1, SetModeKeeps, BodyKeeps DEF SocketStep
  <2>2. CASE Leave
    BY <2>2, <1>0, <1>1, LeaveKeeps DEF Leave, Return
  <2>3. CASE Answer
    <3>1. CASE lwip' = Shut(lwip, fd["challenge"]) /\ stage' = stage
      BY <2>3, <3>1, <1>0, <1>1, ShutKeeps DEF Answer
    <3>2. CASE stage' = "idle" /\ lwip' = lwip
      BY <2>3, <3>2, <1>0, <1>1, LeaveKeeps DEF Answer
    <3> QED  BY <2>3, <3>1, <3>2 DEF Answer
  <2> QED  BY <2>1, <2>2, <2>3
<1>3. LifeInv'
  BY <1>0, <1>1, <1>2 DEF engine, LifeInv, EngineTypeOK, EngineInv, Usable,
     KeySelected, CanVerify, VerdictUnderListedKey
<1> QED  BY <1>2, <1>3 DEF IInv

LEMMA SelectKeyKeeps == ASSUME IInv, SelectKey PROVE IInv'
<1>0. SocketInv /\ LifeInv
  BY DEF IInv
<1>1. /\ phase = "up" /\ stage = "running" /\ stage' \in {"verifying", "idle"}
      /\ UNCHANGED <<lwip, fd, local, mode, target, phase, role, verdict>>
  BY <1>0 DEF SelectKey, LifeInv
<1>2. SocketInv'
  BY <1>0, <1>1 DEF SocketInv, DescriptorsOwned, OneListener, SocketsTypeOK, Scope, OneMode, Equipped, SettingUp, Stages, Modes, Slots
<1>3. PICK id \in Ids :
        \/ ReadPoint(PublicKeys[id]) /\ claim' = id /\ stage' = "verifying"
        \/ ReadPointFails /\ claim' = None /\ stage' = "idle"
  BY DEF SelectKey
<1>4. LifeInv'
  <2>1. CASE ReadPoint(PublicKeys[id]) /\ claim' = id /\ stage' = "verifying"
    <3>1. PublicKeys[id] \in Keys /\ PublicKeys[id] # "none"
      BY PublicKeysAssumption, KeysAssumption
    <3> QED  BY <1>0, <1>1, <2>1, <3>1
             DEF ReadPoint, LifeInv, EngineTypeOK, EngineInv, Usable,
                 KeySelected, CanVerify, VerdictUnderListedKey, KeyBits
  <2>2. CASE ReadPointFails /\ claim' = None /\ stage' = "idle"
    BY <1>0, <1>1, <2>2
    DEF ReadPointFails, LifeInv, EngineTypeOK, EngineInv, Usable, KeySelected, CanVerify,
        VerdictUnderListedKey
  <2> QED  BY <1>3, <2>1, <2>2
<1> QED  BY <1>2, <1>4 DEF IInv

LEMMA VerifyKeeps == ASSUME IInv, Verify PROVE IInv'
<1>0. SocketInv /\ LifeInv
  BY DEF IInv
<1>1. /\ phase = "up" /\ stage = "verifying" /\ claim' = None
      /\ UNCHANGED <<engine, phase, role>>
  BY <1>0 DEF Verify, LifeInv
<1>2. CASE \E signer \in Keys :
             /\ "correct" \in VerifyResults(signer)
             /\ verdict' = [id |-> claim, signer |-> signer]
             /\ Finish
  <2>1. SocketInv' /\ stage' = "idle"
    BY <1>0, <1>1, <1>2, ShutKeeps DEF Finish
  <2>2. PICK signer \in Keys : q = signer /\ verdict' = [id |-> claim, signer |-> signer]
    BY <1>2 DEF VerifyResults
  <2>3. claim \in Ids /\ signer = PublicKeys[claim]
    BY <1>0, <1>1, <2>2 DEF LifeInv, KeySelected, CanVerify
  <2>4. LifeInv'
    BY <1>0, <1>1, <2>1, <2>2, <2>3
    DEF engine, LifeInv, EngineTypeOK, EngineInv, Usable, KeySelected, CanVerify,
        VerdictUnderListedKey
  <2> QED  BY <2>1, <2>4 DEF IInv
<1>3. CASE /\ stage' \in {"running", "idle"}
           /\ UNCHANGED <<verdict, lwip, fd, local, mode, target>>
  <2>1. SocketInv'
    BY <1>0, <1>1, <1>3, LeaveKeeps
  <2>2. LifeInv'
    BY <1>0, <1>1, <1>3
    DEF engine, LifeInv, EngineTypeOK, EngineInv, Usable, KeySelected, CanVerify,
        VerdictUnderListedKey
  <2> QED  BY <2>1, <2>2 DEF IInv
<1> QED  BY <1>2, <1>3 DEF Verify

LEMMA SelfTestKeeps == ASSUME IInv, SelfTest PROVE IInv'
<1>0. SocketInv /\ LifeInv
  BY DEF IInv
<1>1. phase = "up" /\ role = "test" /\ UNCHANGED <<sockets, phase, role, claim, verdict>>
  BY DEF SelfTest
<1>2. SocketInv'
  BY <1>0, <1>1 DEF sockets, SocketInv, DescriptorsOwned, OneListener, SocketsTypeOK, Scope, OneMode, Equipped, SettingUp, Stages, Modes, Slots
<1>3. stage # "verifying"
  BY <1>0, <1>1 DEF SocketInv, SocketsTypeOK, OneMode, Modes
<1>4. PICK id \in Ids : ReadPoint(PublicKeys[id]) \/ ReadPointFails
  BY DEF SelfTest
<1>5. PublicKeys[id] \in Keys /\ PublicKeys[id] # "none"
  BY PublicKeysAssumption, KeysAssumption
<1>6. LifeInv'
  BY <1>0, <1>1, <1>3, <1>4, <1>5
  DEF sockets, ReadPoint, ReadPointFails, LifeInv, EngineTypeOK, EngineInv,
      Usable, KeySelected, CanVerify, VerdictUnderListedKey, KeyBits
<1> QED  BY <1>2, <1>6 DEF IInv

LEMMA StepKeeps == IInv /\ [Next]_vars => IInv'
<1> SUFFICES ASSUME IInv, [Next]_vars PROVE IInv'
  OBVIOUS
<1>1. CASE UNCHANGED vars
  <2>1. UNCHANGED <<lwip, fd, local, mode, target, stage, phase, role, claim, verdict>>
        /\ UNCHANGED <<bits, hashReady, ctx, d, q>>
    BY <1>1 DEF vars, sockets, engine
  <2>2. SocketInv'
    BY <2>1 DEF IInv, SocketInv, DescriptorsOwned, OneListener, SocketsTypeOK,
       Scope, OneMode, Equipped
  <2>3. LifeInv'
    BY <2>1 DEF IInv, LifeInv, EngineTypeOK, EngineInv, Usable, KeySelected, CanVerify,
       VerdictUnderListedKey
  <2> QED  BY <2>2, <2>3 DEF IInv
<1>2. CASE Next
  BY <1>2, StartKeeps, InitializeKeeps, DestroyKeeps, CallsKeep, SelectKeyKeeps,
     VerifyKeeps, SelfTestKeeps DEF Next
<1> QED  BY <1>1, <1>2

(* Whatever fails, the descriptors are owned, what belongs to the modes is *)
(* in place, and the engine is what its bits say.                          *)
THEOREM Invariance == Spec => []IInv
<1> QED  BY InitialState, StepKeeps, PTL DEF Spec

(* Every variable keeps its type (the state of handler and engine).        *)
THEOREM TypeCorrectness == Spec => []TypeOK
<1>1. IInv => TypeOK
  BY DEF IInv, SocketInv, LifeInv, TypeOK
<1> QED  BY <1>1, Invariance, PTL

(* No descriptor leaks, and none is closed while somebody else has it.     *)
THEOREM Ownership == Spec => []DescriptorsOwned
<1>1. IInv => DescriptorsOwned
  BY DEF IInv, SocketInv
<1> QED  BY <1>1, Invariance, PTL

(* A task with one mode has the sockets of that mode when it uses them.    *)
THEOREM Equipment == Spec => []ModeMatchesSockets
<1>1. IInv => ModeMatchesSockets
  <2>1. SUFFICES ASSUME IInv, role # "both",
                        stage \in {"running", "connecting", "verifying"}
                 PROVE  Equipped(target)
    BY DEF ModeMatchesSockets, Equipped
  <2>2. mode = target /\ target = role
    BY <2>1 DEF IInv, SocketInv, OneMode
  <2>3. role # "none"
    BY <2>1, RolesAssumption DEF IInv, LifeInv
  <2> QED  BY <2>1, <2>2, <2>3 DEF IInv, SocketInv, OneMode
<1> QED  BY <1>1, Invariance, PTL

(* ... and set_mode() can be repeated after every failure.                 *)
THEOREM Recovery == Spec => []OwnPortFree
<1>1. IInv => OwnPortFree
  BY DescriptorsAssumption
  DEF IInv, SocketInv, SocketsTypeOK, OneMode, OneListener, OwnPortFree,
      PortFree, SettingUp, Modes
<1> QED  BY <1>1, Invariance, PTL

(* What sign() and verify() use is ready when their guards pass, also after*)
(* an init() that stopped half way, and verify() meets no half-read key.   *)
THEOREM Readiness == Spec => []GuardsMeanReady
<1>1. IInv => GuardsMeanReady
  <2> SUFFICES ASSUME IInv, phase # "down"
               PROVE  /\ CanSign => Usable /\ d = OwnKey
                      /\ CanVerify => Usable
                      /\ stage = "verifying" => CanVerify /\ q = PublicKeys[claim]
    BY DEF GuardsMeanReady
  <2>1. CASE phase = "up"
    BY <2>1 DEF IInv, LifeInv, EngineInv, KeySelected, CanVerify
  <2>2. CASE phase \in {"made", "failed"}
    <3>1. bits \subseteq Backend /\ stage = "idle"
      BY <2>2 DEF IInv, LifeInv, EngineInv
    <3>2. ~CanSign /\ ~CanVerify
      BY <3>1 DEF CanSign, CanVerify, Backend
    <3> QED  BY <3>1, <3>2
  <2> QED  BY <2>1, <2>2 DEF IInv, LifeInv
<1> QED  BY <1>1, Invariance, PTL

(* A verified answer was signed with the key listed under its id.          *)
THEOREM RightKey == Spec => []VerdictUnderListedKey
<1>1. IInv => VerdictUnderListedKey
  BY DEF IInv, LifeInv, KeySelected, CanVerify
<1> QED  BY <1>1, Invariance, PTL

=============================================================================
