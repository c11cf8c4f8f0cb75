----------------------------- MODULE TailStream -----------------------------
(***************************************************************************)
(* What live tailing promises, with no channel, lock or goroutine in it:   *)
(* a recording only grows, and every tailer is handed a growing prefix of  *)
(* it, chunk after chunk, from the first one, never a chunk that is not on *)
(* disk.  A tailer may stop receiving at any moment (it lagged, its        *)
(* connection broke, the session ended); it is never skipped ahead.        *)
(***************************************************************************)
EXTENDS Naturals, Sequences

CONSTANTS
  Tailers,    \* who may be watching
  Chunks      \* what a chunk can hold

VARIABLES
  recorded,   \* the chunks stored so far, in recording order
  seen        \* seen[t]: the chunks handed to tailer t, in order

vars == <<recorded, seen>>

Init ==
  /\ recorded = <<>>
  /\ seen = [t \in Tailers |-> <<>>]

\* The recorder stores one more chunk.
Store ==
  /\ \E c \in Chunks : recorded' = Append(recorded, c)
  /\ UNCHANGED seen

\* Tailer t is handed the first chunk it has not seen.
Hand(t) ==
  /\ Len(seen[t]) < Len(recorded)
  /\ seen' = [seen EXCEPT ![t] = Append(@, recorded[Len(@) + 1])]
  /\ UNCHANGED recorded

Next == Store \/ \E t \in Tailers : Hand(t)

Spec == Init /\ [][Next]_vars
=============================================================================
