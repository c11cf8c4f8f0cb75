-------------------------- MODULE LiveSession_proofs ------------------------
(***************************************************************************)
(* Proofs about LiveSession, for any set of tailers, any channel capacity  *)
(* and any number of chunks.  Everything rests on IInv; the step lemmas    *)
(* below establish its conjuncts one by one.                               *)
(***************************************************************************)
EXTENDS LiveSession, TLAPS

\* Adding a chunk to a sequence of chunks keeps it one and makes it one longer.
LEMMA AppendFacts ==
  ASSUME NEW s \in Seq(Nat), NEW c \in Nat
  PROVE  /\ Append(s, c) \in Seq(Nat)
         /\ Len(Append(s, c)) = Len(s) + 1
         /\ \A i \in 1..Len(s) : Append(s, c)[i] = s[i]
         /\ Append(s, c)[Len(s) + 1] = c
  OBVIOUS

\* Taking the first chunk of a channel shifts the others down by one.
LEMMA TailFacts ==
  ASSUME NEW s \in Seq(Nat), s # <<>>
  PROVE  /\ Len(s) \in Nat /\ Len(s) > 0
         /\ Head(s) = s[1] /\ Head(s) \in Nat
         /\ Tail(s) \in Seq(Nat)
         /\ Len(Tail(s)) = Len(s) - 1
         /\ \A i \in 1..Len(Tail(s)) : Tail(s)[i] = s[i + 1]
  OBVIOUS

\* The chunks 1, 2, 3, ... followed by the next one.
LEMMA CountingOn ==
  ASSUME NEW s \in Seq(Nat), \A i \in 1..Len(s) : s[i] = i
  PROVE  \A i \in 1..Len(Append(s, Len(s) + 1)) : Append(s, Len(s) + 1)[i] = i
<1>1. Len(s) \in Nat /\ Len(s) + 1 \in Nat
  OBVIOUS
<1>2. SUFFICES ASSUME NEW i \in 1..(Len(s) + 1)
               PROVE  Append(s, Len(s) + 1)[i] = i
  BY <1>1, AppendFacts
<1>3. CASE i \in 1..Len(s)
  BY <1>1, <1>3, AppendFacts
<1>4. CASE i = Len(s) + 1
  BY <1>1, <1>4, AppendFacts
<1>5. QED
  BY <1>1, <1>3, <1>4

\* A channel that holds the chunks after the b-th, in order, and what taking
\* the first of them leaves.
LEMMA ChannelTaken ==
  ASSUME NEW s \in Seq(Nat), s # <<>>, NEW b \in Nat,
         \A i \in 1..Len(s) : s[i] = b + i
  PROVE  /\ Head(s) = b + 1
         /\ b + 1 + Len(Tail(s)) = b + Len(s)
         /\ \A i \in 1..Len(Tail(s)) : Tail(s)[i] = b + 1 + i
<1>1. /\ Len(s) \in Nat /\ Len(s) > 0 /\ Head(s) = s[1]
      /\ Len(Tail(s)) = Len(s) - 1
      /\ \A i \in 1..Len(Tail(s)) : Tail(s)[i] = s[i + 1]
  BY TailFacts
<1>2. s[1] = b + 1
  BY <1>1
<1>3. ASSUME NEW i \in 1..Len(Tail(s))
      PROVE  Tail(s)[i] = b + 1 + i
  <2>1. i \in Nat /\ i + 1 \in 1..Len(s)
    BY <1>1
  <2>2. s[i + 1] = b + (i + 1)
    BY <2>1
  <2>3. QED
    BY <1>1, <2>1, <2>2
<1>4. QED
  BY <1>1, <1>2, <1>3

\* The same of adding the next chunk at its end.
LEMMA ChannelExtended ==
  ASSUME NEW s \in Seq(Nat), NEW b \in Nat,
         \A i \in 1..Len(s) : s[i] = b + i
  PROVE  /\ Len(Append(s, b + Len(s) + 1)) = Len(s) + 1
         /\ \A i \in 1..Len(Append(s, b + Len(s) + 1)) : Append(s, b + Len(s) + 1)[i] = b + i
<1> DEFINE c == b + Len(s) + 1
<1>1. Len(s) \in Nat /\ c \in Nat
  OBVIOUS
<1>2. /\ Len(Append(s, c)) = Len(s) + 1
      /\ \A i \in 1..Len(s) : Append(s, c)[i] = s[i]
      /\ Append(s, c)[Len(s) + 1] = c
  BY <1>1, AppendFacts
<1>3. ASSUME NEW i \in 1..Len(Append(s, c))
      PROVE  Append(s, c)[i] = b + i
  <2>1. i \in Nat /\ (i \in 1..Len(s) \/ i = Len(s) + 1)
    BY <1>1, <1>2
  <2>2. CASE i \in 1..Len(s)
    BY <1>2, <2>2
  <2>3. CASE i = Len(s) + 1
    BY <1>1, <1>2, <2>3
  <2>4. QED
    BY <2>1, <2>2, <2>3
<1>4. QED
  BY <1>2, <1>3

\* The initial state satisfies the invariant.
LEMMA InitIInv == Init => IInv
<1> SUFFICES ASSUME Init PROVE IInv
  OBVIOUS
<1> USE TailersAssumption, ChanCapAssumption DEF Init
<1>1. TypeOK
  <2>0. ChanCap \in Nat /\ 0 <= ChanCap
    BY ChanCapAssumption
  <2>1. \A t \in Tailers : chan[t] = <<>>
    OBVIOUS
  <2>2. \A t \in Tailers : Len(chan[t]) = 0
    BY <2>1
  <2>3. \A t \in Tailers : Len(chan[t]) <= ChanCap
    BY <2>0, <2>2
  <2>4. chan \in [Tailers -> Seq(Nat)] /\ got \in [Tailers -> Seq(Nat)] /\ file \in Seq(Nat)
    OBVIOUS
  <2>5. QED
    BY <2>3, <2>4 DEF TypeOK, RecStates, PcStates
<1>2. RecordingInv
  BY DEF RecordingInv
<1>3. ASSUME NEW t \in Tailers
      PROVE  ContentInv(t) /\ SubscriptionInv(t)
  BY DEF ContentInv, SubscriptionInv, Streaming
<1>4. QED
  BY <1>1, <1>2, <1>3 DEF IInv

-----------------------------------------------------------------------------
(* Types.                                                                   *)

\* No channel is overfilled: the two kinds of step that change a channel.
LEMMA ChannelBound ==
  ASSUME IInv, [Next]_vars, NEW t \in Tailers
  PROVE  chan'[t] \in Seq(Nat) /\ Len(chan'[t]) <= ChanCap
<1> USE ChanCapAssumption DEF IInv, TypeOK, recVars, subVars, tailVars
<1>1. chan[t] \in Seq(Nat) /\ Len(chan[t]) \in Nat /\ Len(chan[t]) <= ChanCap
  OBVIOUS
<1>2. CASE FanOut
  <2>1. file[Len(file)] \in Nat
    BY <1>2 DEF FanOut, RecordingInv
  <2>2. CASE t \in subs \ Lagging
    <3>1. chan'[t] = Append(chan[t], file[Len(file)])
      BY <1>2, <2>2 DEF FanOut, Offer
    <3>2. Len(chan[t]) < ChanCap
      BY <1>1, <2>2 DEF Lagging
    <3>3. QED
      BY <1>1, <2>1, <3>1, <3>2, AppendFacts
  <2>3. CASE t \notin subs \ Lagging
    BY <1>1, <1>2, <2>3 DEF FanOut, Offer
  <2>4. QED
    BY <2>2, <2>3
<1>3. ASSUME NEW u \in Tailers, Receive(u)
      PROVE  chan'[t] \in Seq(Nat) /\ Len(chan'[t]) <= ChanCap
  <2>1. CASE u = t
    <3>1. chan[t] # <<>> /\ chan'[t] = Tail(chan[t])
      BY <1>3, <2>1 DEF Receive
    <3>2. QED
      BY <1>1, <3>1, TailFacts
  <2>2. CASE u # t
    BY <1>1, <1>3, <2>2 DEF Receive
  <2>3. QED
    BY <2>1, <2>2
<1>4. ASSUME NEW u \in Tailers, Flush(u) \/ DropRemove(u)
      PROVE  chan'[t] \in Seq(Nat) /\ Len(chan'[t]) <= ChanCap
  <2>1. chan'[t] = chan[t] \/ chan'[t] = <<>>
    BY <1>4 DEF Flush, DropRemove
  <2>2. CASE chan'[t] = chan[t]
    BY <1>1, <2>2
  <2>3. CASE chan'[t] = <<>>
    <3>1. Len(chan'[t]) = 0
      BY <2>3
    <3>2. QED
      BY <2>3, <3>1
  <2>4. QED
    BY <2>1, <2>2, <2>3
<1>5. CASE UNCHANGED chan
  BY <1>1, <1>5
<1>6. FanOut \/ (\E u \in Tailers : Receive(u) \/ Flush(u) \/ DropRemove(u)) \/ UNCHANGED chan
  BY DEF Next, RecorderStep, TailerStep, vars, Finished,
         DiskWrite, EndOfRecording, WriteReturns, CloseSession, Unregister, CloseDropped,
         CloseConn, AwaitDone, Lookup, Register, CloseLate, OpenSnapshot, ReplayChunk,
         ReplayFails, ReplayEnds, WriteLive, WriteFails, DrainEnds, Deregister, DropDone,
         DropConn, EndDiscard, PeerChanges, ForceClose
<1>7. QED
  BY <1>2, <1>3, <1>4, <1>5, <1>6

\* The variables of the recorder's handler and of the tailers' handlers, with
\* the sequences left to the lemmas before and after this one.
ScalarTypes ==
  /\ rec \in RecStates
  /\ diskBytes \in Nat
  /\ subs \subseteq Tailers
  /\ done \in BOOLEAN
  /\ live \in BOOLEAN
  /\ dropped \subseteq Tailers
  /\ closing \subseteq Tailers
  /\ awaiting \in Tailers \union {"none"}
  /\ pc \in [Tailers -> PcStates]
  /\ closes \in [Tailers -> Nat]
  /\ subDone \in [Tailers -> BOOLEAN]
  /\ connOpen \in [Tailers -> BOOLEAN]
  /\ replay \in [Tailers -> Nat]
  /\ peer \in [Tailers -> {"reading", "stalled", "gone"}]

LEMMA ScalarStep ==
  ASSUME IInv, [Next]_vars
  PROVE  ScalarTypes'
<1> ScalarTypes
  BY DEF IInv, TypeOK, ScalarTypes
<1> USE DEF ScalarTypes, RecStates, PcStates, recVars, subVars, tailVars, Goto
<1>1. CASE DiskWrite
  BY <1>1 DEF DiskWrite
<1>2. CASE EndOfRecording
  BY <1>2 DEF EndOfRecording
<1>3. CASE FanOut
  BY <1>3 DEF FanOut, Offer, Accounted, Lagging
<1>4. CASE WriteReturns
  BY <1>4 DEF WriteReturns
<1>5. CASE CloseSession
  BY <1>5 DEF CloseSession
<1>6. CASE Unregister
  BY <1>6 DEF Unregister
<1>7. ASSUME NEW t \in Tailers, CloseDropped(t)
      PROVE  ScalarTypes'
  BY <1>7 DEF CloseDropped
<1>8. ASSUME NEW t \in Tailers, CloseConn(t)
      PROVE  ScalarTypes'
  BY <1>8 DEF CloseConn
<1>9. ASSUME NEW t \in Tailers, AwaitDone(t)
      PROVE  ScalarTypes'
  BY <1>9 DEF AwaitDone
<1>10. ASSUME NEW t \in Tailers, Lookup(t)
      PROVE  ScalarTypes'
  BY <1>10 DEF Lookup
<1>11. ASSUME NEW t \in Tailers, TailerStep(t)
      PROVE  ScalarTypes'
  <2>1. CASE Register(t)
    BY <2>1 DEF Register
  <2>2. CASE CloseLate(t)
    BY <2>2 DEF CloseLate
  <2>3. CASE OpenSnapshot(t)
    BY <2>3 DEF OpenSnapshot
  <2>4. CASE ReplayChunk(t)
    BY <2>4 DEF ReplayChunk, Boundary
  <2>5. CASE ReplayFails(t)
    BY <2>5 DEF ReplayFails
  <2>6. CASE ReplayEnds(t)
    BY <2>6 DEF ReplayEnds
  <2>7. CASE Receive(t)
    BY <2>7 DEF Receive
  <2>8. CASE WriteLive(t)
    BY <2>8 DEF WriteLive
  <2>9. CASE WriteFails(t)
    BY <2>9 DEF WriteFails
  <2>10. CASE DrainEnds(t)
    BY <2>10 DEF DrainEnds
  <2>11. CASE Deregister(t)
    BY <2>11 DEF Deregister, Remove
  <2>12. CASE Flush(t)
    BY <2>12 DEF Flush
  <2>13. CASE DropRemove(t)
    BY <2>13 DEF DropRemove, Remove
  <2>14. CASE DropDone(t)
    BY <2>14 DEF DropDone
  <2>15. CASE DropConn(t)
    BY <2>15 DEF DropConn
  <2>16. CASE EndDiscard(t)
    BY <2>16 DEF EndDiscard
  <2>17. QED
    BY <1>11, <2>1, <2>2, <2>3, <2>4, <2>5, <2>6, <2>7, <2>8, <2>9, <2>10, <2>11, <2>12, <2>13, <2>14, <2>15, <2>16 DEF TailerStep
<1>12. ASSUME NEW t \in Tailers, PeerChanges(t)
      PROVE  ScalarTypes'
  BY <1>12 DEF PeerChanges
<1>13. CASE ForceClose
  BY <1>13 DEF ForceClose
<1>14. CASE UNCHANGED vars
  BY <1>14 DEF vars
<1>15. QED
  BY <1>1, <1>2, <1>3, <1>4, <1>5, <1>6, <1>7, <1>8, <1>9, <1>10, <1>11, <1>12, <1>13, <1>14 DEF Next, RecorderStep, Finished

\* The recording: frames are only ever added at the end, and only write()'s
\* accounting moves diskBytes.
LEMMA RecordingStep ==
  ASSUME IInv, [Next]_vars
  PROVE  RecordingInv' /\ file' \in Seq(Nat) /\ diskBytes <= diskBytes' /\ Len(file) <= Len(file')
<1> file \in Seq(Nat) /\ diskBytes \in Nat /\ RecordingInv /\ Len(file) \in Nat
  BY DEF IInv, TypeOK
<1> DEFINE Goal == RecordingInv' /\ file' \in Seq(Nat) /\ diskBytes <= diskBytes' /\ Len(file) <= Len(file')
<1> USE DEF RecordingInv, recVars, subVars, tailVars
<1>1. CASE DiskWrite
  <2>1. file' = Append(file, Len(file) + 1) /\ rec = "read" /\ rec' = "fanout" /\ diskBytes' = diskBytes
    BY <1>1 DEF DiskWrite
  <2>2. QED
    BY <2>1, AppendFacts
<1>2. CASE EndOfRecording
  BY <1>2 DEF EndOfRecording
<1>3. CASE FanOut
  BY <1>3 DEF FanOut, Offer, Accounted, Lagging
<1>4. CASE WriteReturns
  BY <1>4 DEF WriteReturns
<1>5. CASE CloseSession
  BY <1>5 DEF CloseSession
<1>6. CASE Unregister
  BY <1>6 DEF Unregister
<1>7. ASSUME NEW t \in Tailers, CloseDropped(t)
      PROVE  Goal
  BY <1>7 DEF CloseDropped
<1>8. ASSUME NEW t \in Tailers, CloseConn(t)
      PROVE  Goal
  BY <1>8 DEF CloseConn
<1>9. ASSUME NEW t \in Tailers, AwaitDone(t)
      PROVE  Goal
  BY <1>9 DEF AwaitDone
<1>10. ASSUME NEW t \in Tailers, Lookup(t)
      PROVE  Goal
  BY <1>10 DEF Lookup
<1>11. ASSUME NEW t \in Tailers, TailerStep(t)
      PROVE  Goal
  <2>1. CASE Register(t)
    BY <2>1 DEF Register
  <2>2. CASE CloseLate(t)
    BY <2>2 DEF CloseLate
  <2>3. CASE OpenSnapshot(t)
    BY <2>3 DEF OpenSnapshot
  <2>4. CASE ReplayChunk(t)
    BY <2>4 DEF ReplayChunk, Boundary
  <2>5. CASE ReplayFails(t)
    BY <2>5 DEF ReplayFails
  <2>6. CASE ReplayEnds(t)
    BY <2>6 DEF ReplayEnds, Boundary
  <2>7. CASE Receive(t)
    BY <2>7 DEF Receive
  <2>8. CASE WriteLive(t)
    BY <2>8 DEF WriteLive
  <2>9. CASE WriteFails(t)
    BY <2>9 DEF WriteFails
  <2>10. CASE DrainEnds(t)
    BY <2>10 DEF DrainEnds, ChClosed
  <2>11. CASE Deregister(t)
    BY <2>11 DEF Deregister, Remove
  <2>12. CASE Flush(t)
    BY <2>12 DEF Flush, ChClosed
  <2>13. CASE DropRemove(t)
    BY <2>13 DEF DropRemove, Remove
  <2>14. CASE DropDone(t)
    BY <2>14 DEF DropDone
  <2>15. CASE DropConn(t)
    BY <2>15 DEF DropConn
  <2>16. CASE EndDiscard(t)
    BY <2>16 DEF EndDiscard
  <2>17. QED
    BY <1>11, <2>1, <2>2, <2>3, <2>4, <2>5, <2>6, <2>7, <2>8, <2>9, <2>10, <2>11, <2>12, <2>13, <2>14, <2>15, <2>16 DEF TailerStep
<1>12. ASSUME NEW t \in Tailers, PeerChanges(t)
      PROVE  Goal
  BY <1>12 DEF PeerChanges
<1>13. CASE ForceClose
  BY <1>13 DEF ForceClose
<1>14. CASE UNCHANGED vars
  BY <1>14 DEF vars
<1>15. QED
  BY <1>1, <1>2, <1>3, <1>4, <1>5, <1>6, <1>7, <1>8, <1>9, <1>10, <1>11, <1>12, <1>13, <1>14 DEF Next, RecorderStep, Finished


\* The four remaining variables: sequences of chunks, and the chunk in hand.
LEMMA ChunkTypesStep ==
  ASSUME IInv, [Next]_vars
  PROVE  /\ got' \in [Tailers -> Seq(Nat)]
         /\ held' \in [Tailers -> Nat]
         /\ snap' \in [Tailers -> Nat]
         /\ chan' \in [Tailers -> Seq(Nat)]
<1> /\ got \in [Tailers -> Seq(Nat)] /\ held \in [Tailers -> Nat] /\ snap \in [Tailers -> Nat]
    /\ chan \in [Tailers -> Seq(Nat)] /\ file \in Seq(Nat) /\ Len(file) \in Nat
  BY DEF IInv, TypeOK
<1> DEFINE Goal == /\ got' \in [Tailers -> Seq(Nat)] /\ held' \in [Tailers -> Nat]
                   /\ snap' \in [Tailers -> Nat] /\ chan' = [u \in Tailers |-> chan'[u]]
<1> USE DEF recVars, subVars, tailVars
<1>0. SUFFICES Goal
  <2>1. ASSUME Goal PROVE chan' \in [Tailers -> Seq(Nat)]
    BY <2>1, ChannelBound
  <2>2. QED
    BY <2>1
<1>1. CASE DiskWrite
  BY <1>1 DEF DiskWrite
<1>2. CASE EndOfRecording
  BY <1>2 DEF EndOfRecording
<1>3. CASE FanOut
  BY <1>3 DEF FanOut, Offer, Accounted, Lagging
<1>4. CASE WriteReturns
  BY <1>4 DEF WriteReturns
<1>5. CASE CloseSession
  BY <1>5 DEF CloseSession
<1>6. CASE Unregister
  BY <1>6 DEF Unregister
<1>7. ASSUME NEW t \in Tailers, CloseDropped(t)
      PROVE  Goal
  BY <1>7 DEF CloseDropped
<1>8. ASSUME NEW t \in Tailers, CloseConn(t)
      PROVE  Goal
  BY <1>8 DEF CloseConn
<1>9. ASSUME NEW t \in Tailers, AwaitDone(t)
      PROVE  Goal
  BY <1>9 DEF AwaitDone
<1>10. ASSUME NEW t \in Tailers, Lookup(t)
      PROVE  Goal
  BY <1>10 DEF Lookup
<1>11. ASSUME NEW t \in Tailers, TailerStep(t)
      PROVE  Goal
  <2>1. CASE Register(t)
    BY <2>1 DEF Register
  <2>2. CASE CloseLate(t)
    BY <2>2 DEF CloseLate
  <2>3. CASE OpenSnapshot(t)
    BY <2>3 DEF OpenSnapshot
  <2>4. CASE ReplayChunk(t)
    <3>0. pc[t] = "replay" /\ Len(got[t]) < snap[t]
      BY <2>4 DEF ReplayChunk
    <3>1. Len(got[t]) \in Nat /\ Len(got[t]) < Len(file)
      <4>1. got[t] \in Seq(Nat) /\ file \in Seq(Nat) /\ snap[t] \in Nat
        BY DEF IInv, TypeOK
      <4>2. snap[t] <= Len(file)
        BY <3>0 DEF IInv, ContentInv
      <4>3. QED
        BY <3>0, <4>1, <4>2
    <3>2. file[Len(got[t]) + 1] \in Nat
      BY <3>1
    <3>3. Append(got[t], file[Len(got[t]) + 1]) \in Seq(Nat)
      BY <3>2, AppendFacts
    <3>4. QED
      BY <2>4, <3>3 DEF ReplayChunk
  <2>5. CASE ReplayFails(t)
    BY <2>5 DEF ReplayFails
  <2>6. CASE ReplayEnds(t)
    BY <2>6 DEF ReplayEnds, Boundary
  <2>7. CASE Receive(t)
    <3>1. Head(chan[t]) \in Nat
      BY <2>7, TailFacts DEF Receive
    <3>2. QED
      BY <2>7, <3>1 DEF Receive
  <2>8. CASE WriteLive(t)
    <3>1. Append(got[t], held[t]) \in Seq(Nat)
      BY AppendFacts
    <3>2. QED
      BY <2>8, <3>1 DEF WriteLive
  <2>9. CASE WriteFails(t)
    BY <2>9 DEF WriteFails
  <2>10. CASE DrainEnds(t)
    BY <2>10 DEF DrainEnds, ChClosed
  <2>11. CASE Deregister(t)
    BY <2>11 DEF Deregister, Remove
  <2>12. CASE Flush(t)
    BY <2>12 DEF Flush, ChClosed
  <2>13. CASE DropRemove(t)
    BY <2>13 DEF DropRemove, Remove
  <2>14. CASE DropDone(t)
    BY <2>14 DEF DropDone
  <2>15. CASE DropConn(t)
    BY <2>15 DEF DropConn
  <2>16. CASE EndDiscard(t)
    BY <2>16 DEF EndDiscard
  <2>17. QED
    BY <1>11, <2>1, <2>2, <2>3, <2>4, <2>5, <2>6, <2>7, <2>8, <2>9, <2>10, <2>11, <2>12, <2>13, <2>14, <2>15, <2>16 DEF TailerStep
<1>12. ASSUME NEW t \in Tailers, PeerChanges(t)
      PROVE  Goal
  BY <1>12 DEF PeerChanges
<1>13. CASE ForceClose
  BY <1>13 DEF ForceClose
<1>14. CASE UNCHANGED vars
  BY <1>14 DEF vars
<1>15. QED
  BY <1>1, <1>2, <1>3, <1>4, <1>5, <1>6, <1>7, <1>8, <1>9, <1>10, <1>11, <1>12, <1>13, <1>14 DEF Next, RecorderStep, Finished

\* So every type is kept.
LEMMA TypeStep ==
  ASSUME IInv, [Next]_vars
  PROVE  TypeOK'
BY ChannelBound, ScalarStep, RecordingStep, ChunkTypesStep DEF TypeOK, ScalarTypes

-----------------------------------------------------------------------------
(* Subscriptions and channel closings.                                      *)

\* A channel is closed by the step that ends its subscription and by no other.
LEMMA SubscriptionStep ==
  ASSUME IInv, [Next]_vars, NEW t \in Tailers
  PROVE  SubscriptionInv(t)'
<1> TypeOK /\ SubscriptionInv(t)
  BY DEF IInv
<1> USE DEF SubscriptionInv, Streaming, TypeOK, RecStates, PcStates, recVars, subVars, tailVars, Goto
<1>1. CASE DiskWrite
  BY <1>1 DEF DiskWrite
<1>2. CASE EndOfRecording
  BY <1>2 DEF EndOfRecording
<1>3. CASE FanOut
  BY <1>3 DEF FanOut, Offer, Accounted, Lagging
<1>4. CASE WriteReturns
  BY <1>4 DEF WriteReturns
<1>5. CASE CloseSession
  BY <1>5 DEF CloseSession
<1>6. CASE Unregister
  BY <1>6 DEF Unregister
<1>7. ASSUME NEW u \in Tailers, CloseDropped(u)
      PROVE  SubscriptionInv(t)'
  BY <1>7 DEF CloseDropped
<1>8. ASSUME NEW u \in Tailers, CloseConn(u)
      PROVE  SubscriptionInv(t)'
  BY <1>8 DEF CloseConn
<1>9. ASSUME NEW u \in Tailers, AwaitDone(u)
      PROVE  SubscriptionInv(t)'
  BY <1>9 DEF AwaitDone
<1>10. ASSUME NEW u \in Tailers, Lookup(u)
      PROVE  SubscriptionInv(t)'
  BY <1>10 DEF Lookup
<1>11. ASSUME NEW u \in Tailers, TailerStep(u)
      PROVE  SubscriptionInv(t)'
  <2>1. CASE Register(u)
    BY <2>1 DEF Register
  <2>2. CASE CloseLate(u)
    BY <2>2 DEF CloseLate
  <2>3. CASE OpenSnapshot(u)
    BY <2>3 DEF OpenSnapshot
  <2>4. CASE ReplayChunk(u)
    BY <2>4 DEF ReplayChunk, Boundary
  <2>5. CASE ReplayFails(u)
    BY <2>5 DEF ReplayFails
  <2>6. CASE ReplayEnds(u)
    BY <2>6 DEF ReplayEnds, Boundary
  <2>7. CASE Receive(u)
    BY <2>7 DEF Receive
  <2>8. CASE WriteLive(u)
    BY <2>8 DEF WriteLive
  <2>9. CASE WriteFails(u)
    BY <2>9 DEF WriteFails
  <2>10. CASE DrainEnds(u)
    BY <2>10 DEF DrainEnds, ChClosed
  <2>11. CASE Deregister(u)
    BY <2>11 DEF Deregister, Remove
  <2>12. CASE Flush(u)
    BY <2>12 DEF Flush, ChClosed
  <2>13. CASE DropRemove(u)
    BY <2>13 DEF DropRemove, Remove
  <2>14. CASE DropDone(u)
    BY <2>14 DEF DropDone
  <2>15. CASE DropConn(u)
    BY <2>15 DEF DropConn
  <2>16. CASE EndDiscard(u)
    BY <2>16 DEF EndDiscard
  <2>17. QED
    BY <1>11, <2>1, <2>2, <2>3, <2>4, <2>5, <2>6, <2>7, <2>8, <2>9, <2>10, <2>11, <2>12, <2>13, <2>14, <2>15, <2>16 DEF TailerStep
<1>12. ASSUME NEW u \in Tailers, PeerChanges(u)
      PROVE  SubscriptionInv(t)'
  BY <1>12 DEF PeerChanges
<1>13. CASE ForceClose
  BY <1>13 DEF ForceClose
<1>14. CASE UNCHANGED vars
  BY <1>14 DEF vars
<1>15. QED
  BY <1>1, <1>2, <1>3, <1>4, <1>5, <1>6, <1>7, <1>8, <1>9, <1>10, <1>11, <1>12, <1>13, <1>14 DEF Next, RecorderStep, Finished

-----------------------------------------------------------------------------
(* What the tailers are sent.                                               *)

\* What a step leaves alone when it is none of t's business.
Untouched(t) ==
  /\ pc'[t] = pc[t] /\ got'[t] = got[t] /\ chan'[t] = chan[t]
  /\ held'[t] = held[t] /\ replay'[t] = replay[t] /\ snap'[t] = snap[t]
  /\ t \in subs' => t \in subs

\* Such a step keeps what is known of t, whoever else loses a subscription, if
\* nothing is accounted for meanwhile (or t is not a subscriber).
LEMMA UntouchedContent ==
  ASSUME IInv, [Next]_vars, NEW t \in Tailers, Untouched(t), diskBytes' = diskBytes \/ t \notin subs
  PROVE  ContentInv(t)'
<1>1. /\ got[t] \in Seq(Nat) /\ chan[t] \in Seq(Nat) /\ Len(got[t]) \in Nat /\ Len(chan[t]) \in Nat
      /\ held[t] \in Nat /\ replay[t] \in Nat /\ snap[t] \in Nat /\ diskBytes \in Nat
      /\ Len(file) \in Nat /\ file \in Seq(Nat)
  BY DEF IInv, TypeOK
<1>2. ContentInv(t)
  BY DEF IInv
<1>3. diskBytes <= diskBytes' /\ Len(file) <= Len(file') /\ diskBytes' \in Nat /\ Len(file') \in Nat
  BY RecordingStep, TypeStep DEF TypeOK
<1>4. Base(t)' = Base(t) /\ Base(t) \in Nat
  BY <1>1 DEF Base, Untouched
<1>5. /\ Len(got'[t]) <= diskBytes'
      /\ \A i \in 1..Len(got'[t]) : got'[t][i] = i
      /\ pc'[t] \in {"idle", "register"} => got'[t] = <<>> /\ chan'[t] = <<>>
      /\ pc'[t] \in {"snapshot", "replay"} => Len(got'[t]) <= replay'[t] /\ replay'[t] <= diskBytes'
      /\ pc'[t] = "replay" => snap'[t] <= Len(file')
      /\ pc'[t] = "write" => held'[t] = Len(got'[t]) + 1
  <2>1. /\ Len(got[t]) <= diskBytes
        /\ \A i \in 1..Len(got[t]) : got[t][i] = i
        /\ pc[t] \in {"idle", "register"} => got[t] = <<>> /\ chan[t] = <<>>
        /\ pc[t] \in {"snapshot", "replay"} => Len(got[t]) <= replay[t] /\ replay[t] <= diskBytes
        /\ pc[t] = "replay" => snap[t] <= Len(file)
        /\ pc[t] = "write" => held[t] = Len(got[t]) + 1
    BY <1>2 DEF ContentInv
  <2>2. /\ Len(got[t]) <= diskBytes'
        /\ replay[t] <= diskBytes => replay[t] <= diskBytes'
        /\ snap[t] <= Len(file) => snap[t] <= Len(file')
    BY <1>1, <1>3, <2>1
  <2>3. QED
    BY <2>1, <2>2 DEF Untouched
<1>6. pc'[t] \in Streaming =>
        /\ \A i \in 1..Len(chan'[t]) : chan'[t][i] = Base(t)' + i
        /\ Base(t)' + Len(chan'[t]) <= diskBytes'
        /\ t \in subs' => Base(t)' + Len(chan'[t]) = diskBytes'
  <2>1. SUFFICES ASSUME pc[t] \in Streaming
                 PROVE  /\ \A i \in 1..Len(chan[t]) : chan[t][i] = Base(t) + i
                        /\ Base(t) + Len(chan[t]) <= diskBytes'
                        /\ t \in subs' => Base(t) + Len(chan[t]) = diskBytes'
    BY <1>4 DEF Untouched
  <2>2. /\ \A i \in 1..Len(chan[t]) : chan[t][i] = Base(t) + i
        /\ Base(t) + Len(chan[t]) <= diskBytes
        /\ t \in subs => Base(t) + Len(chan[t]) = diskBytes
    BY <1>2, <2>1 DEF ContentInv
  <2>3. Base(t) + Len(chan[t]) <= diskBytes'
    BY <1>1, <1>3, <1>4, <2>2
  <2>4. t \in subs' => t \in subs /\ diskBytes' = diskBytes
    BY DEF Untouched
  <2>5. QED
    BY <2>2, <2>3, <2>4
<1>7. QED
  BY <1>5, <1>6 DEF ContentInv

\* write() offers the chunk to t, or drops it.
LEMMA FanOutContent ==
  ASSUME IInv, [Next]_vars, NEW t \in Tailers, FanOut
  PROVE  ContentInv(t)'
<1>1. /\ got[t] \in Seq(Nat) /\ chan[t] \in Seq(Nat) /\ Len(got[t]) \in Nat /\ Len(chan[t]) \in Nat
      /\ held[t] \in Nat /\ replay[t] \in Nat /\ snap[t] \in Nat /\ diskBytes \in Nat
      /\ Len(file) \in Nat /\ file \in Seq(Nat)
  BY DEF IInv, TypeOK
<1>2. ContentInv(t) /\ SubscriptionInv(t)
  BY DEF IInv
<1>3. /\ Len(file) = diskBytes + 1 /\ file[Len(file)] = diskBytes + 1
      /\ diskBytes' = diskBytes + 1 /\ file' = file
  BY <1>1 DEF IInv, RecordingInv, FanOut, Offer, Accounted
<1>4. CASE t \in subs \ Lagging
  <2>1. /\ chan'[t] = Append(chan[t], diskBytes + 1) /\ t \in subs
        /\ UNCHANGED <<pc, got, held, replay, snap>>
    BY <1>3, <1>4 DEF FanOut, Offer, tailVars
  <2>3. Base(t)' = Base(t) /\ Base(t) \in Nat
    BY <1>1, <2>1 DEF Base
  <2>4. ASSUME pc[t] \in Streaming
        PROVE  /\ \A i \in 1..Len(chan'[t]) : chan'[t][i] = Base(t) + i
               /\ Base(t) + Len(chan'[t]) = diskBytes'
    <3>1. /\ \A i \in 1..Len(chan[t]) : chan[t][i] = Base(t) + i
          /\ Base(t) + Len(chan[t]) = diskBytes
      BY <1>2, <2>1, <2>4 DEF ContentInv
    <3>2. chan[t] \in Seq(Nat) /\ Len(chan[t]) \in Nat
      BY <1>1
    <3>3. chan'[t] = Append(chan[t], Base(t) + Len(chan[t]) + 1)
      BY <2>1, <3>1
    <3>4. /\ Len(chan'[t]) = Len(chan[t]) + 1
          /\ \A i \in 1..Len(chan'[t]) : chan'[t][i] = Base(t) + i
      <4>1. /\ Len(Append(chan[t], Base(t) + Len(chan[t]) + 1)) = Len(chan[t]) + 1
            /\ \A i \in 1..Len(Append(chan[t], Base(t) + Len(chan[t]) + 1)) :
                 Append(chan[t], Base(t) + Len(chan[t]) + 1)[i] = Base(t) + i
        BY <2>3, <3>1, <3>2, ChannelExtended, Zenon
      <4>2. QED
        BY <3>3, <4>1, Zenon
    <3>5. Base(t) + Len(chan'[t]) = diskBytes + 1
      BY <2>3, <3>1, <3>2, <3>4
    <3>6. QED
      BY <1>3, <3>4, <3>5
  <2>5. pc[t] \notin {"idle", "register"}
    BY <1>2, <2>1 DEF SubscriptionInv, Streaming
  <2>6. /\ Len(got'[t]) <= diskBytes'
        /\ \A i \in 1..Len(got'[t]) : got'[t][i] = i
        /\ pc'[t] \in {"snapshot", "replay"} => Len(got'[t]) <= replay'[t] /\ replay'[t] <= diskBytes'
        /\ pc'[t] = "replay" => snap'[t] <= Len(file')
        /\ pc'[t] = "write" => held'[t] = Len(got'[t]) + 1
    BY <1>1, <1>2, <1>3, <2>1 DEF ContentInv
  <2>7. pc'[t] \in Streaming =>
          /\ \A i \in 1..Len(chan'[t]) : chan'[t][i] = Base(t)' + i
          /\ Base(t)' + Len(chan'[t]) = diskBytes'
    BY <2>1, <2>3, <2>4
  <2>8. Base(t)' + Len(chan'[t]) = diskBytes' => Base(t)' + Len(chan'[t]) <= diskBytes'
    BY <1>1, <1>3
  <2>9. QED
    BY <2>1, <2>5, <2>6, <2>7, <2>8 DEF ContentInv
<1>5. CASE t \notin subs \ Lagging
  <2>1. chan'[t] = chan[t] /\ t \notin subs' /\ UNCHANGED <<pc, got, held, replay, snap>>
    BY <1>5 DEF FanOut, Offer, tailVars
  <2>2. Base(t)' = Base(t) /\ Base(t) \in Nat
    BY <1>1, <2>1 DEF Base
  <2>3. /\ Len(got'[t]) <= diskBytes'
        /\ \A i \in 1..Len(got'[t]) : got'[t][i] = i
        /\ pc'[t] \in {"idle", "register"} => got'[t] = <<>> /\ chan'[t] = <<>>
        /\ pc'[t] \in {"snapshot", "replay"} => Len(got'[t]) <= replay'[t] /\ replay'[t] <= diskBytes'
        /\ pc'[t] = "replay" => snap'[t] <= Len(file')
        /\ pc'[t] = "write" => held'[t] = Len(got'[t]) + 1
    BY <1>1, <1>2, <1>3, <2>1 DEF ContentInv
  <2>4. pc'[t] \in Streaming =>
          /\ \A i \in 1..Len(chan'[t]) : chan'[t][i] = Base(t)' + i
          /\ Base(t)' + Len(chan'[t]) <= diskBytes'
    BY <1>1, <1>2, <1>3, <2>1, <2>2 DEF ContentInv
  <2>5. QED
    BY <2>1, <2>3, <2>4 DEF ContentInv
<1>6. QED
  BY <1>4, <1>5

\* t's own handler takes a step.
LEMMA OwnContent ==
  ASSUME IInv, [Next]_vars, NEW t \in Tailers, Lookup(t) \/ TailerStep(t)
  PROVE  ContentInv(t)'
<1>1. /\ got[t] \in Seq(Nat) /\ chan[t] \in Seq(Nat) /\ Len(got[t]) \in Nat /\ Len(chan[t]) \in Nat
      /\ held[t] \in Nat /\ replay[t] \in Nat /\ snap[t] \in Nat /\ diskBytes \in Nat
      /\ Len(file) \in Nat /\ file \in Seq(Nat)
      /\ pc \in [Tailers -> PcStates] /\ got \in [Tailers -> Seq(Nat)] /\ chan \in [Tailers -> Seq(Nat)]
      /\ held \in [Tailers -> Nat] /\ replay \in [Tailers -> Nat] /\ snap \in [Tailers -> Nat]
  <2>1. /\ pc \in [Tailers -> PcStates] /\ got \in [Tailers -> Seq(Nat)] /\ chan \in [Tailers -> Seq(Nat)]
        /\ held \in [Tailers -> Nat] /\ replay \in [Tailers -> Nat] /\ snap \in [Tailers -> Nat]
        /\ diskBytes \in Nat /\ file \in Seq(Nat)
    BY DEF IInv, TypeOK
  <2>2. got[t] \in Seq(Nat) /\ chan[t] \in Seq(Nat) /\ held[t] \in Nat /\ replay[t] \in Nat /\ snap[t] \in Nat
    BY <2>1
  <2>3. Len(got[t]) \in Nat /\ Len(chan[t]) \in Nat /\ Len(file) \in Nat
    BY <2>1, <2>2
  <2>4. QED
    BY <2>1, <2>2, <2>3
<1>2. ContentInv(t) /\ SubscriptionInv(t) /\ RecordingInv
  BY DEF IInv
<1> USE DEF recVars, subVars, tailVars, Goto
<1>3. CASE Lookup(t)
  BY <1>1, <1>2, <1>3 DEF Lookup, ContentInv, Base, Streaming
<1>4. CASE Register(t)
  <2>1. CASE done
    BY <1>1, <1>2, <1>4, <2>1 DEF Register, ContentInv, Base, Streaming
  <2>2. CASE ~done
    <3>1. /\ got'[t] = <<>> /\ chan'[t] = <<>> /\ replay'[t] = diskBytes
          /\ pc'[t] = IF diskBytes > 0 THEN "snapshot" ELSE "drain"
          /\ UNCHANGED <<diskBytes, file>>
      BY <1>1, <1>2, <1>4, <2>2 DEF Register, ContentInv
    <3>2. Len(got'[t]) = 0 /\ Len(chan'[t]) = 0
      BY <3>1
    <3>3. Base(t)' = diskBytes
      BY <1>1, <3>1, <3>2 DEF Base
    <3>4. QED
      BY <1>1, <3>1, <3>2, <3>3 DEF ContentInv, Streaming
  <2>3. QED
    BY <2>1, <2>2
<1>5. CASE CloseLate(t)
  BY <1>1, <1>2, <1>5 DEF CloseLate, ContentInv, Base, Streaming
<1>6. CASE OpenSnapshot(t)
  BY <1>1, <1>2, <1>6 DEF OpenSnapshot, ContentInv, Base, Streaming
<1>7. CASE ReplayChunk(t)
  <2>1. /\ pc[t] = "replay" /\ Len(got[t]) < replay[t] /\ Len(got[t]) + 1 <= Len(file)
        /\ got'[t] = Append(got[t], file[Len(got[t]) + 1])
        /\ UNCHANGED <<pc, chan, replay, snap, diskBytes, file, subs>>
    BY <1>1, <1>2, <1>7 DEF ReplayChunk, Boundary, ContentInv
  <2>2. file[Len(got[t]) + 1] = Len(got[t]) + 1
    BY <1>1, <1>2, <2>1 DEF RecordingInv
  <2>3. /\ Len(got'[t]) = Len(got[t]) + 1
        /\ \A i \in 1..Len(got[t]) : got'[t][i] = got[t][i]
        /\ got'[t][Len(got[t]) + 1] = Len(got[t]) + 1
    BY <1>1, <2>1, <2>2, AppendFacts
  <2>4. \A i \in 1..Len(got'[t]) : got'[t][i] = i
    <3>1. got'[t] = Append(got[t], Len(got[t]) + 1)
      BY <2>1, <2>2
    <3>2. \A i \in 1..Len(got[t]) : got[t][i] = i
      BY <1>2 DEF ContentInv
    <3>3. QED
      BY <1>1, <3>1, <3>2, CountingOn
  <2>5. Base(t) = replay[t] /\ Base(t)' = replay[t]
    BY <2>1 DEF Base
  <2>6. Len(got'[t]) <= replay'[t] /\ replay'[t] <= diskBytes' /\ snap'[t] <= Len(file')
    BY <1>1, <1>2, <2>1, <2>3 DEF ContentInv
  <2>7. Len(got'[t]) <= diskBytes'
    BY <1>1, <2>1, <2>3, <2>6
  <2>8. /\ \A i \in 1..Len(chan'[t]) : chan'[t][i] = Base(t)' + i
        /\ Base(t)' + Len(chan'[t]) <= diskBytes'
        /\ t \in subs' => Base(t)' + Len(chan'[t]) = diskBytes'
    BY <1>2, <2>1, <2>5 DEF ContentInv, Streaming
  <2>9. QED
    BY <2>1, <2>4, <2>6, <2>7, <2>8 DEF ContentInv
<1>8. CASE ReplayFails(t)
  BY <1>1, <1>2, <1>8 DEF ReplayFails, ContentInv, Base, Streaming
<1>9. CASE ReplayEnds(t)
  BY <1>1, <1>2, <1>9 DEF ReplayEnds, Boundary, ContentInv, Base, Streaming
<1>10. CASE Receive(t)
  <2>1. /\ pc[t] = "drain" /\ pc'[t] = "write" /\ chan[t] # <<>>
        /\ held'[t] = Head(chan[t]) /\ chan'[t] = Tail(chan[t])
        /\ UNCHANGED <<got, replay, snap, diskBytes, file, subs>>
    BY <1>1, <1>10 DEF Receive
  <2>2. Base(t) = Len(got[t]) /\ Base(t)' = Len(got[t]) + 1
    BY <2>1 DEF Base
  <2>4. /\ \A i \in 1..Len(chan[t]) : chan[t][i] = Len(got[t]) + i
        /\ Len(got[t]) + Len(chan[t]) <= diskBytes
        /\ t \in subs => Len(got[t]) + Len(chan[t]) = diskBytes
    BY <1>2, <2>1, <2>2 DEF ContentInv, Streaming
  <2>5. /\ held'[t] = Len(got[t]) + 1
        /\ \A i \in 1..Len(chan'[t]) : chan'[t][i] = Len(got[t]) + 1 + i
        /\ Len(got[t]) + 1 + Len(chan'[t]) = Len(got[t]) + Len(chan[t])
    <3>1. chan[t] \in Seq(Nat) /\ Len(got[t]) \in Nat
      BY <1>1
    <3>2. chan[t] # <<>> /\ \A i \in 1..Len(chan[t]) : chan[t][i] = Len(got[t]) + i
      BY <2>1, <2>4
    <3>3. /\ Head(chan[t]) = Len(got[t]) + 1
          /\ Len(got[t]) + 1 + Len(Tail(chan[t])) = Len(got[t]) + Len(chan[t])
          /\ \A i \in 1..Len(Tail(chan[t])) : Tail(chan[t])[i] = Len(got[t]) + 1 + i
      BY <3>1, <3>2, ChannelTaken, Zenon
    <3>4. held'[t] = Head(chan[t]) /\ chan'[t] = Tail(chan[t])
      BY <2>1
    <3>5. QED
      BY <3>3, <3>4, Zenon
  <2>6. /\ Len(got[t]) + 1 + Len(chan'[t]) <= diskBytes
        /\ t \in subs' => Len(got[t]) + 1 + Len(chan'[t]) = diskBytes
    BY <2>1, <2>4, <2>5
  <2>7. Len(got'[t]) <= diskBytes' /\ \A i \in 1..Len(got'[t]) : got'[t][i] = i
    BY <1>2, <2>1 DEF ContentInv
  <2>8. QED
    BY <2>1, <2>2, <2>5, <2>6, <2>7 DEF ContentInv
<1>11. CASE WriteLive(t)
  <2>1. /\ pc[t] = "write" /\ pc'[t] = "drain" /\ got'[t] = Append(got[t], held[t])
        /\ UNCHANGED <<chan, replay, snap, diskBytes, file, subs>>
    BY <1>1, <1>11 DEF WriteLive
  <2>2. held[t] = Len(got[t]) + 1
    BY <1>2, <2>1 DEF ContentInv
  <2>3. /\ Len(got'[t]) = Len(got[t]) + 1
        /\ \A i \in 1..Len(got[t]) : got'[t][i] = got[t][i]
        /\ got'[t][Len(got[t]) + 1] = Len(got[t]) + 1
    BY <1>1, <2>1, <2>2, AppendFacts
  <2>4. \A i \in 1..Len(got'[t]) : got'[t][i] = i
    <3>1. got'[t] = Append(got[t], Len(got[t]) + 1)
      BY <2>1, <2>2
    <3>2. \A i \in 1..Len(got[t]) : got[t][i] = i
      BY <1>2 DEF ContentInv
    <3>3. QED
      BY <1>1, <3>1, <3>2, CountingOn
  <2>5. Base(t) = Len(got[t]) + 1 /\ Base(t)' = Base(t)
    BY <2>1, <2>3 DEF Base
  <2>6. Len(got[t]) + 1 + Len(chan[t]) <= diskBytes
    BY <1>2, <2>1, <2>5 DEF ContentInv, Streaming
  <2>7. QED
    BY <1>1, <1>2, <2>1, <2>3, <2>4, <2>5, <2>6 DEF ContentInv, Streaming
<1>12. CASE WriteFails(t)
  BY <1>1, <1>2, <1>12 DEF WriteFails, ContentInv, Base, Streaming
<1>13. CASE DrainEnds(t)
  BY <1>1, <1>2, <1>13 DEF DrainEnds, ChClosed, ContentInv, Base, Streaming
<1>14. CASE Deregister(t)
  BY <1>1, <1>2, <1>14 DEF Deregister, Remove, ContentInv, Base, Streaming
<1>15. CASE Flush(t)
  BY <1>1, <1>2, <1>15 DEF Flush, ChClosed, ContentInv, Base, Streaming
<1>16. CASE DropRemove(t)
  BY <1>1, <1>2, <1>16 DEF DropRemove, Remove, ContentInv, Base, Streaming
<1>17. CASE DropDone(t)
  BY <1>1, <1>2, <1>17 DEF DropDone, ContentInv, Base, Streaming
<1>18. CASE DropConn(t)
  BY <1>1, <1>2, <1>18 DEF DropConn, ContentInv, Base, Streaming
<1>19. CASE EndDiscard(t)
  BY <1>1, <1>2, <1>19 DEF EndDiscard, ContentInv, Base, Streaming
<1>20. QED
  BY <1>3, <1>4, <1>5, <1>6, <1>7, <1>8, <1>9, <1>10, <1>11, <1>12, <1>13, <1>14, <1>15, <1>16, <1>17, <1>18, <1>19 DEF TailerStep

\* Whatever happens, t has been sent the start of the recording.
LEMMA ContentStep ==
  ASSUME IInv, [Next]_vars, NEW t \in Tailers
  PROVE  ContentInv(t)'
<1> USE DEF recVars, subVars, tailVars, Goto, Untouched, IInv, TypeOK
<1>1. CASE FanOut
  BY <1>1, FanOutContent
<1>2. CASE Lookup(t) \/ TailerStep(t)
  BY <1>2, OwnContent
<1>3. CASE \/ DiskWrite \/ EndOfRecording \/ WriteReturns \/ CloseSession \/ Unregister
           \/ \E u \in Tailers : CloseDropped(u) \/ CloseConn(u) \/ AwaitDone(u)
  <2>1. Untouched(t) /\ diskBytes' = diskBytes
    BY <1>3 DEF DiskWrite, EndOfRecording, WriteReturns, CloseSession, Unregister,
                CloseDropped, CloseConn, AwaitDone
  <2>2. QED
    BY <2>1, UntouchedContent
<1>4. ASSUME NEW u \in Tailers, u # t, Lookup(u) \/ TailerStep(u)
      PROVE  ContentInv(t)'
  <2>1. Untouched(t) /\ diskBytes' = diskBytes
    BY <1>4 DEF Lookup, TailerStep, Register, CloseLate, OpenSnapshot, ReplayChunk,
                ReplayFails, ReplayEnds, Receive, WriteLive, WriteFails, DrainEnds,
                Deregister, Remove, Flush, DropRemove, DropDone, DropConn, EndDiscard
  <2>2. QED
    BY <2>1, UntouchedContent
<1>5. CASE ForceClose \/ UNCHANGED vars \/ \E u \in Tailers : PeerChanges(u)
  <2>1. Untouched(t) /\ diskBytes' = diskBytes
    BY <1>5 DEF ForceClose, vars, PeerChanges
  <2>2. QED
    BY <2>1, UntouchedContent
<1>6. QED
  BY <1>1, <1>2, <1>3, <1>4, <1>5 DEF Next, RecorderStep, Finished

-----------------------------------------------------------------------------
(* The theorems.                                                            *)

\* IInv holds throughout.
THEOREM Invariance == Spec => []IInv
<1>1. Init => IInv
  BY InitIInv
<1>2. IInv /\ [Next]_vars => IInv'
  BY TypeStep, RecordingStep, ContentStep, SubscriptionStep DEF IInv
<1>3. QED
  BY <1>1, <1>2, PTL DEF Spec

\* Every variable has its type, and no channel ever holds more than ChanCap
\* chunks (daemon.go, subChanCap).
THEOREM TypeCorrect == Spec => []TypeOK
<1>1. IInv => TypeOK
  BY DEF IInv
<1>2. QED
  BY <1>1, Invariance, PTL

\* Replay and live stream join with no gap and no overlap: a tailer is always
\* sent the start of the recording (daemon.go, register and addTailer).
THEOREM Continuity == Spec => []NoGapNoOverlap
<1>1. IInv => NoGapNoOverlap
  <2> SUFFICES ASSUME IInv, NEW t \in Tailers
               PROVE  /\ Len(got[t]) <= Len(file)
                      /\ \A i \in 1..Len(got[t]) : got[t][i] = file[i]
    BY DEF NoGapNoOverlap
  <2>1. /\ Len(got[t]) \in Nat /\ Len(file) \in Nat /\ diskBytes \in Nat
        /\ Len(got[t]) <= diskBytes /\ diskBytes <= Len(file)
    BY DEF IInv, TypeOK, RecordingInv, ContentInv
  <2>2. /\ \A i \in 1..Len(got[t]) : got[t][i] = i
        /\ \A i \in 1..Len(file) : file[i] = i
    BY DEF IInv, RecordingInv, ContentInv
  <2>3. QED
    BY <2>1, <2>2
<1>2. QED
  BY <1>1, Invariance, PTL

\* Nothing falls between a tailer's snapshot and its channel (daemon.go,
\* register and write).
THEOREM Handoff == Spec => []NothingLostInHandoff
<1>1. IInv => NothingLostInHandoff
  BY DEF IInv, NothingLostInHandoff, ContentInv, Streaming, TypeOK
<1>2. QED
  BY <1>1, Invariance, PTL

\* No channel is closed twice or sent on after it was closed, and every drain
\* loop gets its end of channel (daemon.go, write, remove, close).
THEOREM ClosedOnce == Spec => []ChannelClosedExactlyOnce
<1>1. IInv => ChannelClosedExactlyOnce
  BY DEF IInv, ChannelClosedExactlyOnce, SubscriptionInv, Streaming
<1>2. QED
  BY <1>1, Invariance, PTL

\* A subscription only ends for the tailer's own lag or failure, or because
\* the session does (daemon.go, write's drop, remove, close).
THEOREM OwnFault == Spec => DroppedForOwnFault
<1>1. IInv /\ [Next]_vars => [\A t \in subs \ subs' :
                                \/ done'
                                \/ Len(chan[t]) >= ChanCap
                                \/ pc[t] \in {"deregister", "dropRemove"}]_vars
  <2> SUFFICES ASSUME IInv, [Next]_vars, NEW t \in subs, t \notin subs'
               PROVE  \/ done'
                      \/ Len(chan[t]) >= ChanCap
                      \/ pc[t] \in {"deregister", "dropRemove"}
    OBVIOUS
  <2> USE DEF recVars, subVars, tailVars
  <2>1. CASE FanOut
    BY <2>1 DEF FanOut, Offer, Lagging
  <2>2. CASE CloseSession
    BY <2>2 DEF CloseSession
  <2>3. ASSUME NEW u \in Tailers, Deregister(u) \/ DropRemove(u)
        PROVE  pc[t] \in {"deregister", "dropRemove"}
    BY <2>3 DEF Deregister, DropRemove, Remove
  <2>4. ASSUME NEW u \in Tailers, Register(u)
        PROVE  FALSE
    BY <2>4 DEF Register
  <2>5. \/ FanOut \/ CloseSession \/ UNCHANGED subs
        \/ \E u \in Tailers : Deregister(u) \/ DropRemove(u) \/ Register(u)
    BY DEF Next, RecorderStep, TailerStep, vars, Finished,
           DiskWrite, EndOfRecording, WriteReturns, Unregister, CloseDropped, CloseConn,
           AwaitDone, Lookup, CloseLate, OpenSnapshot, ReplayChunk, ReplayFails, ReplayEnds,
           Receive, WriteLive, WriteFails, DrainEnds, Flush, DropDone, DropConn, EndDiscard,
           PeerChanges, ForceClose
  <2>6. QED
    BY <2>1, <2>2, <2>3, <2>4, <2>5
<1>2. QED
  BY <1>1, Invariance, PTL DEF Spec, DroppedForOwnFault

\* The session implements the abstract stream: storing is write()'s frame, and
\* handing over is a replayed or a live chunk reaching the tailer's conn.
THEOREM Refinement == Spec => ImplementsTailStream
<1>1. Init => Stream!Init
  BY DEF Init, Stream!Init
<1>2. IInv /\ [Next]_vars => [Stream!Next]_(Stream!vars)
  <2> SUFFICES ASSUME IInv, [Next]_vars
               PROVE  Stream!Next \/ UNCHANGED Stream!vars
    OBVIOUS
  <2> USE DEF recVars, subVars, tailVars, Stream!vars
  <2>1. CASE DiskWrite
    <3>1. Len(file) + 1 \in 1..MaxChunks
      BY <2>1, MaxChunksAssumption DEF DiskWrite, IInv, TypeOK
    <3>2. Stream!Store
      BY <2>1, <3>1 DEF DiskWrite, Stream!Store
    <3>3. QED
      BY <3>2 DEF Stream!Next
  <2>2. ASSUME NEW t \in Tailers, ReplayChunk(t)
        PROVE  Stream!Next
    <3>1. Len(got[t]) < Len(file)
      BY <2>2 DEF ReplayChunk, IInv, TypeOK, ContentInv
    <3>2. Stream!Hand(t)
      BY <2>2, <3>1 DEF ReplayChunk, Stream!Hand
    <3>3. QED
      BY <3>2 DEF Stream!Next
  <2>3. ASSUME NEW t \in Tailers, WriteLive(t)
        PROVE  Stream!Next
    <3>1. /\ Len(got[t]) \in Nat /\ Len(chan[t]) \in Nat /\ Len(file) \in Nat /\ diskBytes \in Nat
          /\ got \in [Tailers -> Seq(Nat)]
      BY DEF IInv, TypeOK
    <3>2. /\ held[t] = Len(got[t]) + 1
          /\ Len(got[t]) + 1 + Len(chan[t]) <= diskBytes
      BY <2>3 DEF WriteLive, IInv, ContentInv, Base, Streaming
    <3>3. diskBytes <= Len(file) /\ \A i \in 1..Len(file) : file[i] = i
      BY <3>1 DEF IInv, RecordingInv
    <3>4. Len(got[t]) < Len(file) /\ file[Len(got[t]) + 1] = held[t]
      <4>1. Len(got[t]) + 1 <= Len(file)
        <5>1. \A a, b, d, f \in Nat : a + 1 + b <= d /\ d <= f => a + 1 <= f
          OBVIOUS
        <5>2. Len(got[t]) + 1 + Len(chan[t]) <= diskBytes /\ diskBytes <= Len(file)
          BY <3>2, <3>3
        <5>3. QED
          BY <3>1, <5>1, <5>2
      <4>2. Len(got[t]) + 1 \in 1..Len(file)
        BY <3>1, <4>1
      <4>3. QED
        BY <3>1, <3>2, <3>3, <4>1, <4>2
    <3>5. got' = [got EXCEPT ![t] = Append(@, file[Len(@) + 1])] /\ file' = file
      BY <2>3, <3>4 DEF WriteLive
    <3>6. Stream!Hand(t)
      BY <3>4, <3>5 DEF Stream!Hand
    <3>7. QED
      BY <3>6 DEF Stream!Next
  <2>4. \/ DiskWrite \/ UNCHANGED <<file, got>>
        \/ \E t \in Tailers : ReplayChunk(t) \/ WriteLive(t)
    BY DEF Next, RecorderStep, TailerStep, vars, Finished,
           EndOfRecording, FanOut, Offer, WriteReturns, CloseSession, Unregister, CloseDropped,
           CloseConn, AwaitDone, Lookup, Register, CloseLate, OpenSnapshot, ReplayFails,
           ReplayEnds, Receive, WriteFails, DrainEnds, Deregister, Flush, DropRemove, DropDone,
           DropConn, EndDiscard, PeerChanges, ForceClose
  <2>5. QED
    BY <2>1, <2>2, <2>3, <2>4
<1>3. QED
  BY <1>1, <1>2, Invariance, PTL DEF Spec, Stream!Spec, ImplementsTailStream

-----------------------------------------------------------------------------
(* The end of a session.                                                    *)

\* close() goes through its states in order, with its lists empty outside them.
LEMMA EndingStep ==
  ASSUME IInv, EndingInv, [Next]_vars
  PROVE  EndingInv'
<1> TypeOK
  BY DEF IInv
<1> USE TailersAssumption DEF EndingInv, TypeOK, RecStates, recVars, subVars, tailVars
<1>1. CASE DiskWrite
  BY <1>1 DEF DiskWrite
<1>2. CASE EndOfRecording
  BY <1>2 DEF EndOfRecording
<1>3. CASE FanOut
  BY <1>3 DEF FanOut, Offer, Accounted, Lagging
<1>4. CASE WriteReturns
  BY <1>4 DEF WriteReturns
<1>5. CASE CloseSession
  BY <1>5 DEF CloseSession
<1>6. CASE Unregister
  BY <1>6 DEF Unregister
<1>7. ASSUME NEW t \in Tailers, CloseDropped(t)
      PROVE  EndingInv'
  BY <1>7 DEF CloseDropped
<1>8. ASSUME NEW t \in Tailers, CloseConn(t)
      PROVE  EndingInv'
  BY <1>8 DEF CloseConn
<1>9. ASSUME NEW t \in Tailers, AwaitDone(t)
      PROVE  EndingInv'
  BY <1>9 DEF AwaitDone
<1>10. ASSUME NEW t \in Tailers, Lookup(t)
      PROVE  EndingInv'
  BY <1>10 DEF Lookup
<1>11. ASSUME NEW t \in Tailers, TailerStep(t)
      PROVE  EndingInv'
  <2>1. CASE Register(t)
    BY <2>1 DEF Register
  <2>2. CASE CloseLate(t)
    BY <2>2 DEF CloseLate
  <2>3. CASE OpenSnapshot(t)
    BY <2>3 DEF OpenSnapshot
  <2>4. CASE ReplayChunk(t)
    BY <2>4 DEF ReplayChunk, Boundary
  <2>5. CASE ReplayFails(t)
    BY <2>5 DEF ReplayFails
  <2>6. CASE ReplayEnds(t)
    BY <2>6 DEF ReplayEnds, Boundary
  <2>7. CASE Receive(t)
    BY <2>7 DEF Receive
  <2>8. CASE WriteLive(t)
    BY <2>8 DEF WriteLive
  <2>9. CASE WriteFails(t)
    BY <2>9 DEF WriteFails
  <2>10. CASE DrainEnds(t)
    BY <2>10 DEF DrainEnds, ChClosed
  <2>11. CASE Deregister(t)
    BY <2>11 DEF Deregister, Remove
  <2>12. CASE Flush(t)
    BY <2>12 DEF Flush, ChClosed
  <2>13. CASE DropRemove(t)
    BY <2>13 DEF DropRemove, Remove
  <2>14. CASE DropDone(t)
    BY <2>14 DEF DropDone
  <2>15. CASE DropConn(t)
    BY <2>15 DEF DropConn
  <2>16. CASE EndDiscard(t)
    BY <2>16 DEF EndDiscard
  <2>17. QED
    BY <1>11, <2>1, <2>2, <2>3, <2>4, <2>5, <2>6, <2>7, <2>8, <2>9, <2>10, <2>11, <2>12, <2>13, <2>14, <2>15, <2>16 DEF TailerStep
<1>12. ASSUME NEW t \in Tailers, PeerChanges(t)
      PROVE  EndingInv'
  BY <1>12 DEF PeerChanges
<1>13. CASE ForceClose
  BY <1>13 DEF ForceClose
<1>14. CASE UNCHANGED vars
  BY <1>14 DEF vars
<1>15. QED
  BY <1>1, <1>2, <1>3, <1>4, <1>5, <1>6, <1>7, <1>8, <1>9, <1>10, <1>11, <1>12, <1>13, <1>14 DEF Next, RecorderStep, Finished

\* A conn with nobody left to close it fails, and goes on failing.
LEMMA ReleaseStep ==
  ASSUME IInv, EndingInv, NEW t \in Tailers, ReleaseInv(t), [Next]_vars
  PROVE  ReleaseInv(t)'
<1> TypeOK /\ SubscriptionInv(t)
  BY DEF IInv
<1> USE DEF ReleaseInv, ConnFails, EndingInv, SubscriptionInv, Streaming, TypeOK, PcStates, recVars, subVars, tailVars, Goto
<1>1. CASE DiskWrite
  BY <1>1 DEF DiskWrite
<1>2. CASE EndOfRecording
  BY <1>2 DEF EndOfRecording
<1>3. CASE FanOut
  BY <1>3 DEF FanOut, Offer, Accounted, Lagging
<1>4. CASE WriteReturns
  BY <1>4 DEF WriteReturns
<1>5. CASE CloseSession
  BY <1>5 DEF CloseSession
<1>6. CASE Unregister
  BY <1>6 DEF Unregister
<1>7. ASSUME NEW u \in Tailers, CloseDropped(u)
      PROVE  ReleaseInv(t)'
  BY <1>7 DEF CloseDropped
<1>8. ASSUME NEW u \in Tailers, CloseConn(u)
      PROVE  ReleaseInv(t)'
  BY <1>8 DEF CloseConn
<1>9. ASSUME NEW u \in Tailers, AwaitDone(u)
      PROVE  ReleaseInv(t)'
  BY <1>9 DEF AwaitDone
<1>10. ASSUME NEW u \in Tailers, Lookup(u)
      PROVE  ReleaseInv(t)'
  <2>1. CASE u = t
    <3>1. pc'[t] \in {"register", "end"}
      BY <1>10, <2>1 DEF Lookup
    <3>2. QED
      BY <3>1
  <2>2. CASE u # t
    <3>1. pc'[t] = pc[t] /\ connOpen'[t] = connOpen[t] /\ peer' = peer
      BY <1>10, <2>2 DEF Lookup
    <3>2. subs' = subs /\ dropped' = dropped /\ closing' = closing
      BY <1>10 DEF Lookup
    <3>3. QED
      BY <3>1, <3>2
  <2>3. QED
    BY <2>1, <2>2
<1>11. ASSUME NEW u \in Tailers, TailerStep(u)
      PROVE  ReleaseInv(t)'
  <2>1. CASE Register(u)
    BY <2>1 DEF Register
  <2>2. CASE CloseLate(u)
    BY <2>2 DEF CloseLate
  <2>3. CASE OpenSnapshot(u)
    BY <2>3 DEF OpenSnapshot
  <2>4. CASE ReplayChunk(u)
    BY <2>4 DEF ReplayChunk, Boundary
  <2>5. CASE ReplayFails(u)
    BY <2>5 DEF ReplayFails
  <2>6. CASE ReplayEnds(u)
    BY <2>6 DEF ReplayEnds, Boundary
  <2>7. CASE Receive(u)
    BY <2>7 DEF Receive
  <2>8. CASE WriteLive(u)
    BY <2>8 DEF WriteLive
  <2>9. CASE WriteFails(u)
    BY <2>9 DEF WriteFails
  <2>10. CASE DrainEnds(u)
    BY <2>10 DEF DrainEnds, ChClosed
  <2>11. CASE Deregister(u)
    BY <2>11 DEF Deregister, Remove
  <2>12. CASE Flush(u)
    BY <2>12 DEF Flush, ChClosed
  <2>13. CASE DropRemove(u)
    BY <2>13 DEF DropRemove, Remove
  <2>14. CASE DropDone(u)
    BY <2>14 DEF DropDone
  <2>15. CASE DropConn(u)
    BY <2>15 DEF DropConn
  <2>16. CASE EndDiscard(u)
    BY <2>16 DEF EndDiscard
  <2>17. QED
    BY <1>11, <2>1, <2>2, <2>3, <2>4, <2>5, <2>6, <2>7, <2>8, <2>9, <2>10, <2>11, <2>12, <2>13, <2>14, <2>15, <2>16 DEF TailerStep
<1>12. ASSUME NEW u \in Tailers, PeerChanges(u)
      PROVE  ReleaseInv(t)'
  BY <1>12 DEF PeerChanges
<1>13. CASE ForceClose
  BY <1>13 DEF ForceClose
<1>14. CASE UNCHANGED vars
  BY <1>14 DEF vars
<1>15. QED
  BY <1>1, <1>2, <1>3, <1>4, <1>5, <1>6, <1>7, <1>8, <1>9, <1>10, <1>11, <1>12, <1>13, <1>14 DEF Next, RecorderStep, Finished

\* Once the session has left the registry no handler is held by a client
\* (daemon.go, session.close, write's lag drop, dropAndClose).
THEOREM EndReleases == Spec => []EndedSessionHoldsNoClient
<1> DEFINE Inv == EndingInv /\ \A t \in Tailers : ReleaseInv(t)
<1>1. Init => Inv
  BY DEF Init, EndingInv, ReleaseInv, Streaming
<1>2. IInv /\ Inv /\ [Next]_vars => Inv'
  BY EndingStep, ReleaseStep
<1>3. Inv => EndedSessionHoldsNoClient
  BY DEF EndingInv, ReleaseInv, EndedSessionHoldsNoClient, Streaming
<1>4. QED
  BY <1>1, <1>2, <1>3, Invariance, PTL DEF Spec
=============================================================================
