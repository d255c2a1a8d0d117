--------------------------- MODULE MCChallengeTiming ---------------------------
(***************************************************************************)
(* A small instance of ChallengeTiming for TLC: three receivers, one more  *)
(* than the acceptor queues.                                               *)
(***************************************************************************)
EXTENDS ChallengeTiming, TLC

ReceiverSymmetry == Permutations(Receivers)
=============================================================================
