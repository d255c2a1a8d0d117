--------------------------- MODULE SignatureEngine ---------------------------
(***************************************************************************)
(* signature_engine and the hash_engine in it: which of the mbedTLS        *)
(* contexts are initialized, which key is in place, and what m_state says. *)
(* The actions are operations; HandlerLifecycle says who calls them.       *)
(*                                                                         *)
(* A context is "raw" (never initialized: all zero in the handler's engine,*)
(* whatever was in memory in the one of test_task), "empty" (initialized,  *)
(* holding nothing yet), "ready" or "freed".  What it costs to free a raw  *)
(* one is not modelled: the engine is gone then.                           *)
(***************************************************************************)
EXTENDS Naturals, FiniteSets

CONSTANTS
    Keys,       \* key pairs
    OwnKey      \* the pair that private_key belongs to

ASSUME KeysAssumption == OwnKey \in Keys /\ {"none", "garbage"} \cap Keys = {}

VARIABLES
    bits,       \* m_state
    hashReady,  \* m_initilized of the hash_engine
    ctx,        \* the mbedTLS contexts
    d,          \* the signature key in m_ecdsa_ctx
    q           \* the verification key in m_ecdsa_ctx

engine == <<bits, hashReady, ctx, d, q>>

Contexts == {"sha256", "group", "entropy", "drbg"}
Backend == {"hash", "mbedtls", "curve"}
KeyBits == {"signature_key", "verification_key"}

(* The calls of init() that can fail, and none of them.                    *)
Failures == {"curve", "seed", "key", "none"}

EngineTypeOK ==
    /\ bits \subseteq Backend \cup KeyBits /\ hashReady \in BOOLEAN
    /\ ctx \in [Contexts -> {"raw", "empty", "ready", "freed"}]
    /\ d \in Keys \cup {"none"} /\ q \in Keys \cup {"none", "garbage"}

(* The constructor, which initializes no context.                          *)
NewEngine ==
    /\ bits' = {} /\ hashReady' = FALSE
    /\ ctx' = [c \in Contexts |-> "raw"]
    /\ d' = "none" /\ q' = "none"

(* ~signature_engine() followed by ~hash_engine().                         *)
Freed ==
    [c \in Contexts |->
        IF IF c = "sha256" THEN hashReady ELSE bits \cap Backend # {}
        THEN "freed"
        ELSE ctx[c]]

FreeEngine == ctx' = Freed /\ UNCHANGED <<bits, hashReady, d, q>>

(* init(private_key), which ends at the first call that fails.  The bits   *)
(* are set as far as it gets, and never cleared.                           *)
InitEngine(before, failing) ==
    /\ hashReady' = TRUE
    /\ ctx' = [before EXCEPT
         !["sha256"] = "ready",
         !["group"] = IF failing = "curve" THEN "empty" ELSE "ready",
         !["entropy"] = IF failing = "curve" THEN @ ELSE "ready",
         !["drbg"] = CASE failing = "curve" -> @
                       [] failing = "seed" -> "empty"
                       [] OTHER -> "ready"]
    /\ bits' = bits \cup {"hash"}
         \cup (IF failing # "curve" THEN {"curve"} ELSE {})
         \cup (IF failing \in {"key", "none"} THEN {"mbedtls"} ELSE {})
         \cup (IF failing = "none" THEN {"signature_key"} ELSE {})
    /\ d' = IF failing = "none" THEN OwnKey ELSE "none"
    /\ q' = "none"

(* mbedtls_ecp_point_read_binary needs the group, and may stop half way.   *)
ReadPoint(key) ==
    /\ ctx["group"] = "ready"
    /\ q' = key
    /\ bits' = bits \cup {"verification_key"}
    /\ UNCHANGED <<hashReady, ctx, d>>

ReadPointFails ==
    /\ q' \in {q, "garbage"}
    /\ UNCHANGED <<bits, hashReady, ctx, d>>

(* The guards of sign() and verify(), and what these answer.  Neither      *)
(* changes what is kept here.                                              *)
CanSign == Backend \cup {"signature_key"} \subseteq bits

(* Seeded bug: one bit is enough, as in the destructor.                    *)
CanVerifyOneBit == (Backend \cup {"verification_key"}) \cap bits # {}

CanVerify == Backend \cup {"verification_key"} \subseteq bits

SignResults ==
    IF CanSign
    THEN {"ok", "hashing_failed", "encryption_failed", "signature_contruction_failed"}
    ELSE {"use_before_initialization"}

VerifyResults(signer) ==
    IF CanVerify
    THEN {IF q = signer THEN "correct" ELSE "wrong", "hashing_failed",
          "signature_extraction_failed", "decryption_failed"}
    ELSE {"use_before_initialization"}

Usable == hashReady /\ \A c \in Contexts : ctx[c] = "ready"

=============================================================================
