---------------------------- MODULE MCLocalIngest ---------------------------
(* Recordings are interchangeable: only invariants are checked, none of which *)
(* names one.                                                                 *)
EXTENDS LocalIngest, TLC

\* Behind the daemon's time by more than the slack, the same, and ahead.
MCZones == {-1, 0, 1}

Symmetry == Permutations(Recs)
=============================================================================
