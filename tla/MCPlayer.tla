------------------------------ MODULE MCPlayer ------------------------------
(* Player on small recordings: two commands, a gap above --idle, times that  *)
(* run backwards, a NaN, and input records at the end.                       *)
EXTENDS Player

O(t, cmd) == [t |-> t, type |-> "o", cmd |-> cmd]
I(t) == [t |-> t, type |-> "i", cmd |-> FALSE]
Casts == {<<O(0, TRUE), O(1, FALSE), O(3, TRUE), I(4)>>,
          <<O(2, FALSE), I(1), O(NaN, FALSE), O(9, FALSE)>>,
          <<O(PosInf, FALSE)>>, <<I(1)>>}

Everything ==
  {Input("scroll", b, 0) : b \in {"A", "B"}} \cup {Input("mouse", "press", at) : at \in {2, 3}}
  \cup {Input("arrow", b, 0) : b \in {"A", "B", "C", "D"}}
  \cup {Input("byte", b, 0) : b \in {"q", " ", "-", "0", "g", "b", "t", "j"}}
  \cup {Input("byte", "enter", at) : at \in {-1, 1, 9}}
=============================================================================
