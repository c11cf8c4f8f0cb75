----------------------------- MODULE MCTerminal -----------------------------
(* Terminal on three programs: one that writes lines and prompts, one that   *)
(* writes escape sequences, one that writes characters of several bytes;     *)
(* and the keys of the player with the replies of a terminal among them.     *)
EXTENDS Terminal

LineWriter == [bytes |-> {"x", "LF", "CR", "$"}, max |-> 5]
EscapeWriter == [bytes |-> {"x", "LF", "ESC", "[", "]", "m", "H", "BEL", "\\"}, max |-> 4]
TextWriter == [bytes |-> {"x", "L2", "L3", "L4", "C"}, max |-> 5]
ThreePrograms == {LineWriter, EscapeWriter, TextWriter}

CSI(params, final) == <<"ESC", "[">> \o params \o <<final>>
Typed ==
  (<<"q">> :> <<Ev("byte", "q")>>) @@ (<<"[">> :> <<Ev("byte", "[")>>) @@ (CSI(<<>>, "A") :> <<Ev("arrow", "A")>>)
  @@ (<<"ESC", "O", "B">> :> <<Ev("arrow", "B")>>) @@ (CSI(<<"1;2">>, "B") :> <<Ev("scroll", "B")>>)
  @@ (CSI(<<"5">>, "~") :> <<Ev("scroll", "A")>>) @@ (CSI(<<"<64">>, "M") :> <<Ev("scroll", "A")>>)
  @@ (CSI(<<"<0">>, "M") :> <<Ev("mouse", "press")>>) @@ (CSI(<<"<0">>, "m") :> <<Ev("mouse", "other")>>)
  @@ (CSI(<<"<32">>, "M") :> <<Ev("mouse", "other")>>)
Replies ==
  {CSI(<<"?1;2">>, "c"), CSI(<<"1;1">>, "R"), <<"ESC", "]", "x", "BEL">>, <<"ESC", "]", "x", "ESC", "\\">>,
   <<"ESC", "q">>}
Whole(k, means) == [means |-> means, head |-> Len(k)]

\* What the parser takes to be over before it is: a DCS reply, a click as X10 has
\* it, F1 on the Linux console.
Longer ==
  (<<"ESC", "P", "x", "q", "ESC", "\\">> :> [means |-> <<>>, head |-> 2])
  @@ (<<"ESC", "[", "M", "x">> :> [means |-> <<>>, head |-> 3])
  @@ (<<"ESC", "[", "[", "A">> :> [means |-> <<>>, head |-> 3])

TypedOrReplied ==
  [k \in DOMAIN Typed |-> Whole(k, Typed[k])] @@ [k \in Replies \cup {Esc} |-> Whole(k, <<>>)] @@ Longer
=============================================================================
