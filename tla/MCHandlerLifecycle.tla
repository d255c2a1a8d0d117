-------------------------- MODULE MCHandlerLifecycle --------------------------
(***************************************************************************)
(* A small instance of HandlerLifecycle for TLC: five descriptors, two     *)
(* listed keys and one that is not.                                        *)
(***************************************************************************)
EXTENDS HandlerLifecycle, TLC

CONSTANTS k1, k2, k3

ListedKeys == 0 :> k1 @@ 1 :> k2

DescriptorSymmetry == Permutations(Descriptors)
=============================================================================
