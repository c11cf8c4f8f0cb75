---------------------------- MODULE MCLiveSession ---------------------------
(* LiveSession on a small instance, with the tailers interchangeable.       *)
EXTENDS LiveSession, TLC

TailerSymmetry == Permutations(Tailers)
=============================================================================
