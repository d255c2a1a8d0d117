------------------------ MODULE MCNetworkEventHandler ------------------------
(***************************************************************************)
(* Small instances of NetworkEventHandler for TLC.                         *)
(***************************************************************************)
EXTENDS NetworkEventHandler, TLC

CONSTANTS s1, s2, r1, r2, e1, e2

(* One sender whose key is listed.                                         *)
OneSender == {s1}
OneId == s1 :> 0
OneKey == s1 :> "k1"

(* A second node signs under the id of the first with a key of its own.    *)
TwoSenders == {s1, s2}
SameIds == s1 :> 0 @@ s2 :> 0
TwoKeys == s1 :> "k1" @@ s2 :> "k2"

ListedKeys == 0 :> "k1"
TwoListedKeys == 0 :> "k0" @@ 1 :> "k1"
SecondId == s1 :> 1

(* One event is waited for; with two, the second one is not wanted.        *)
WantsAll == [r \in Receivers |-> Events]
WantsFirst == [r \in Receivers |-> {e1}]

ReceiverSymmetry == Permutations(Receivers)
=============================================================================
