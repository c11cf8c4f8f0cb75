--------------------------- MODULE CastFile_proofs ---------------------------
(***************************************************************************)
(* A reader of an encrypted recording is handed a prefix of it, for any    *)
(* number of frames of any length, whatever the storage did once.          *)
(*                                                                         *)
(* The step that matters is ReadFrame: a frame opens only at its own       *)
(* position, and what was sealed for a position that the writer has left   *)
(* is a chunk of the recording.  That the reader, two units behind a       *)
(* length, meets a ciphertext rests on the layout of the file, which no    *)
(* fault changes.                                                          *)
(*                                                                         *)
(* The other parts are about what the frames carry: the events of          *)
(* cast.Writer (Terminal) hold every byte, and none of them ends inside a  *)
(* character; the player decodes what is typed for what it means; no view  *)
(* of the output shows where the events cut it; and what the player shows  *)
(* (Player) follows its loop, and its clock wherever a key or a click      *)
(* moves it.                                                               *)
(***************************************************************************)
EXTENDS CastFile, Terminal, Player, Integers, SequenceTheorems, FiniteSetTheorems,
        WellFoundedInduction, TLAPS

Lo == 0..MaxBytes
Chunks == {Chunk(lo, hi) : lo, hi \in Lo}

Parts == {"magic", "sid", "len", "nonce", "ct"}
Units == [part : Parts, of : Nat, sid : {Own, Foreign}, intact : BOOLEAN]

PartAt(k) ==
  IF k = 1 THEN "magic" ELSE IF k = 2 THEN "sid"
  ELSE IF k % 3 = 0 THEN "len" ELSE IF k % 3 = 1 THEN "nonce" ELSE "ct"

\* The chunks, each the next bytes of the recording.
WrittenInv ==
  /\ written \in Seq(Chunks)
  /\ sealing \in Chunks
  /\ BytesOf(written) \in Lo
  /\ sealing # <<>> => sealing[Len(sealing)] \in Lo

\* The file: units in their layout, a ciphertext only of a frame that was
\* written in full.
UnitsInv ==
  /\ disk \in Seq(Units)
  /\ \A k \in 1..Len(disk) :
       disk[k].part = PartAt(k) /\ (disk[k].part = "ct" => disk[k].of < Len(written))
SealingInv ==
  IF sealing = <<>> THEN Len(disk) >= 2 => Len(disk) % 3 = 2
  ELSE Len(disk) >= 3 /\ Len(disk) % 3 # 2

\* The reader: it counts the frames it has opened, and stands on a unit.
Readers ==
  [at : {"plaintext", "reading", "eof", "unexpected"}, pos : Nat, size : Nat, follows : BOOLEAN,
   sid : {"none", "rotten", Own, Foreign}, counter : Nat, opened : Seq(Chunks), err : BOOLEAN]
ReaderInv ==
  reader.at # "closed" =>
    /\ reader \in Readers
    /\ reader.size <= Len(disk)
    /\ reader.at = "reading" => reader.pos \in 1..Len(disk) /\ reader.counter = Len(reader.opened)

IInv == WrittenInv /\ UnitsInv /\ SealingInv /\ ReaderInv
-----------------------------------------------------------------------------
LEMMA Mod3 ==
  /\ \A k \in Nat : k % 3 \in 0..2
  /\ \A k \in Nat : /\ k % 3 = 0 => (k + 1) % 3 = 1 /\ (k + 2) % 3 = 2
                    /\ k % 3 = 1 => (k + 1) % 3 = 2
                    /\ k % 3 = 2 => (k + 1) % 3 = 0
  /\ \A k \in Nat, n \in Int : k + 3 * n \in Nat => (k + 3 * n) % 3 = k % 3
OBVIOUS

LEMMA ChunkFacts ==
  ASSUME NEW lo \in Lo, NEW hi \in (lo + 1)..MaxBytes
  PROVE  Chunk(lo, hi) \in Chunks /\ Chunk(lo, hi) # <<>> /\ Chunk(lo, hi)[Len(Chunk(lo, hi))] = hi
<1>1. Chunk(lo, hi) \in Seq(Nat) /\ Len(Chunk(lo, hi)) = hi - lo
  BY CastFileAssumption DEF Chunk, Lo
<1>2. Chunk(lo, hi)[hi - lo] = hi
  BY CastFileAssumption DEF Chunk, Lo
<1>3. Chunk(lo, hi) \in Chunks
  BY CastFileAssumption DEF Chunks, Lo
<1> QED
  BY <1>1, <1>2, <1>3 DEF Lo

LEMMA NoBytes == <<>> \in Chunks
<1>1. Chunk(0, 0) = <<>>
  BY DEF Chunk
<1> QED
  BY <1>1, CastFileAssumption DEF Chunks, Lo

LEMMA InitInv == Init => IInv
<1> SUFFICES ASSUME Init PROVE IInv
  OBVIOUS
<1>1. WrittenInv
  BY NoBytes, CastFileAssumption DEF Init, WrittenInv, BytesOf, Lo
<1> QED
  BY <1>1 DEF Init, IInv, UnitsInv, SealingInv, ReaderInv
-----------------------------------------------------------------------------
\* A unit written in its place.
LEMMA AppendUnit ==
  ASSUME IInv, NEW part \in Parts, NEW of \in Nat, part = PartAt(Len(disk) + 1),
         disk' = Append(disk, Unit(part, of, Own)),
         written' = written \/ Len(written') = Len(written) + 1,
         part = "ct" => of < Len(written')
  PROVE  UnitsInv' /\ Len(disk') = Len(disk) + 1
<1> USE DEF IInv, UnitsInv
<1>1. Unit(part, of, Own) \in Units /\ Unit(part, of, Own).part = part /\ Unit(part, of, Own).of = of
  BY DEF Unit, Units, Own
<1>2. disk' \in Seq(Units) /\ Len(disk') = Len(disk) + 1
  BY <1>1
<1>3. Len(written) \in Nat /\ Len(written') >= Len(written)
  BY DEF WrittenInv
<1>4. ASSUME NEW k \in 1..Len(disk)
      PROVE  disk'[k].part = PartAt(k) /\ (disk'[k].part = "ct" => disk'[k].of < Len(written'))
  <2>1. disk'[k] = disk[k] /\ disk[k] \in Units
    BY <1>1
  <2> QED
    BY <2>1, <1>3 DEF Units
<1>5. disk'[Len(disk) + 1] = Unit(part, of, Own)
  BY <1>1
<1> QED
  BY <1>1, <1>2, <1>4, <1>5

\* A file that grows moves no reader.
LEMMA ReaderStays ==
  ASSUME IInv, reader' = reader, Len(disk') >= Len(disk), Len(disk') \in Nat
  PROVE  ReaderInv'
BY DEF IInv, ReaderInv, Readers, UnitsInv

\* The daemon writes each unit in its place, and a chunk becomes part of the
\* recording with its frame's last unit.
LEMMA WriterStep == ASSUME IInv, Writer PROVE IInv'
<1> USE DEF IInv
<1>0. Len(disk) \in Nat /\ Len(written) \in Nat /\ \A k \in 1..Len(disk) : disk[k].part = PartAt(k)
  BY DEF UnitsInv, WrittenInv
<1>1. CASE WriteMagic
  <2>1. "magic" = PartAt(Len(disk) + 1)
    BY <1>1 DEF WriteMagic, PartAt
  <2>2. disk' = Append(disk, Unit("magic", 0, Own)) /\ written' = written
    BY <1>1, <1>0 DEF WriteMagic, UnitsInv
  <2>3. UnitsInv' /\ Len(disk') = Len(disk) + 1
    BY <2>1, <2>2, AppendUnit DEF Parts
  <2>4. Len(disk) = 0 /\ reader' = reader /\ sealing' = sealing
    BY <1>1 DEF WriteMagic
  <2>5. SealingInv'
    BY <1>0, <2>3, <2>4 DEF SealingInv
  <2> QED
    BY <1>0, <1>1, <2>3, <2>4, <2>5, ReaderStays DEF WriteMagic, WrittenInv, BytesOf
<1>2. CASE WriteStreamId
  <2>1. "sid" = PartAt(Len(disk) + 1)
    BY <1>2 DEF WriteStreamId, PartAt
  <2>2. UnitsInv' /\ Len(disk') = Len(disk) + 1
    BY <1>2, <2>1, AppendUnit DEF WriteStreamId, Parts
  <2>3. Len(disk) = 1 /\ reader' = reader /\ sealing' = sealing
    BY <1>2 DEF WriteStreamId
  <2>4. SealingInv'
    BY <1>0, <2>2, <2>3 DEF SealingInv
  <2> QED
    BY <1>0, <1>2, <2>2, <2>3, <2>4, ReaderStays DEF WriteStreamId, WrittenInv, BytesOf
<1>3. CASE WriteLength
  <2>1. Len(disk) >= 2 /\ Len(disk) % 3 = 2 /\ sealing = <<>>
    BY <1>3 DEF WriteLength, SealingInv
  <2>2. (Len(disk) + 1) % 3 = 0
    BY <2>1, <1>0, Mod3
  <2>3. "len" = PartAt(Len(disk) + 1)
    BY <2>1, <2>2, <1>0 DEF PartAt
  <2>4. disk' = Append(disk, Unit("len", Len(written), Own)) /\ written' = written /\ reader' = reader
    BY <1>3 DEF WriteLength, FrameUnit
  <2>5. UnitsInv' /\ Len(disk') = Len(disk) + 1
    BY <1>0, <2>3, <2>4, AppendUnit DEF Parts
  <2>6. PICK hi \in (BytesOf(written) + 1)..MaxBytes : sealing' = Chunk(BytesOf(written), hi)
    BY <1>3 DEF WriteLength
  <2>7. sealing' \in Chunks /\ sealing' # <<>> /\ sealing'[Len(sealing')] = hi /\ hi \in Lo
    <3>1. BytesOf(written) \in Lo
      BY DEF WrittenInv
    <3>2. hi \in Lo
      BY <2>6, <3>1, CastFileAssumption DEF Lo
    <3> QED
      BY <2>6, <3>1, <3>2, ChunkFacts
  <2>8. WrittenInv'
    BY <2>4, <2>7 DEF WrittenInv, BytesOf
  <2>9. SealingInv'
    BY <1>0, <2>1, <2>2, <2>5, <2>7 DEF SealingInv
  <2> QED
    BY <1>0, <2>4, <2>5, <2>8, <2>9, ReaderStays
<1>4. CASE WriteNonce
  <2>1. Len(disk) >= 3 /\ disk[Len(disk)].part = "len" /\ sealing # <<>>
    BY <1>4 DEF WriteNonce, SealingInv
  <2>2. Len(disk) % 3 = 0
    BY <2>1, <1>0 DEF PartAt
  <2>3. (Len(disk) + 1) % 3 = 1
    BY <2>2, <1>0, Mod3
  <2>4. "nonce" = PartAt(Len(disk) + 1)
    BY <2>1, <2>3, <1>0 DEF PartAt
  <2>5. disk' = Append(disk, Unit("nonce", Len(written), Own))
        /\ written' = written /\ reader' = reader /\ sealing' = sealing
    BY <1>4 DEF WriteNonce, FrameUnit
  <2>6. UnitsInv' /\ Len(disk') = Len(disk) + 1
    BY <1>0, <2>4, <2>5, AppendUnit DEF Parts
  <2>7. SealingInv'
    BY <1>0, <2>1, <2>3, <2>5, <2>6 DEF SealingInv
  <2> QED
    BY <1>0, <2>5, <2>6, <2>7, ReaderStays DEF WrittenInv, BytesOf
<1>5. CASE WriteCiphertext
  <2>1. Len(disk) >= 3 /\ disk[Len(disk)].part = "nonce" /\ sealing # <<>>
    BY <1>5 DEF WriteCiphertext, SealingInv
  <2>2. Len(disk) % 3 = 1
    BY <2>1, <1>0 DEF PartAt
  <2>3. (Len(disk) + 1) % 3 = 2
    BY <2>2, <1>0, Mod3
  <2>4. "ct" = PartAt(Len(disk) + 1)
    BY <2>1, <2>3, <1>0 DEF PartAt
  <2>5. disk' = Append(disk, Unit("ct", Len(written), Own)) /\ written' = Append(written, sealing)
        /\ reader' = reader /\ sealing' = <<>>
    BY <1>5 DEF WriteCiphertext, FrameUnit
  <2>6. written' \in Seq(Chunks) /\ Len(written') = Len(written) + 1
        /\ written'[Len(written) + 1] = sealing
    BY <2>5 DEF WrittenInv
  <2>7. UnitsInv' /\ Len(disk') = Len(disk) + 1
    BY <1>0, <2>4, <2>5, <2>6, AppendUnit DEF Parts
  <2>8. BytesOf(written)' = sealing[Len(sealing)]
    BY <1>0, <2>6 DEF BytesOf
  <2>9. WrittenInv'
    BY <2>1, <2>5, <2>6, <2>8, NoBytes DEF WrittenInv
  <2>10. SealingInv'
    BY <1>0, <2>1, <2>3, <2>5, <2>7 DEF SealingInv
  <2> QED
    BY <1>0, <2>5, <2>7, <2>9, <2>10, ReaderStays
<1> QED
  BY <1>1, <1>2, <1>3, <1>4, <1>5 DEF Writer

\* Three units cut out of a file.
LEMMA CutOut ==
  ASSUME NEW S, NEW s \in Seq(S), NEW a \in Nat, a + 3 <= Len(s)
  PROVE  LET t == SubSeq(s, 1, a) \o SubSeq(s, a + 4, Len(s))
         IN  /\ t \in Seq(S) /\ Len(t) = Len(s) - 3
             /\ \A k \in 1..(Len(s) - 3) : t[k] = IF k <= a THEN s[k] ELSE s[k + 3]
<1> DEFINE front == SubSeq(s, 1, a)
           back == SubSeq(s, a + 4, Len(s))
<1>1. Len(s) \in Nat /\ a \in Int /\ a + 4 \in Int /\ \A i \in 1..Len(s) : s[i] \in S
  OBVIOUS
<1>2. /\ front \in Seq(S) /\ Len(front) = (IF 1 <= a THEN a - 1 + 1 ELSE 0)
      /\ \A k \in 1..(a - 1 + 1) : front[k] = s[1 + k - 1]
  <2>1. \A i \in 1..a : s[i] \in S
    BY <1>1
  <2> QED
    BY <1>1, <2>1, SubSeqProperties
<1>3. /\ back \in Seq(S) /\ Len(back) = (IF a + 4 <= Len(s) THEN Len(s) - (a + 4) + 1 ELSE 0)
      /\ \A k \in 1..(Len(s) - (a + 4) + 1) : back[k] = s[a + 4 + k - 1]
  <2>1. \A i \in (a + 4)..Len(s) : s[i] \in S
    BY <1>1
  <2> QED
    BY <1>1, <2>1, SubSeqProperties
<1> HIDE DEF front, back
<1>4. Len(front) = a /\ Len(back) = Len(s) - 3 - a
  <2>1. Len(front) = (IF 1 <= a THEN a - 1 + 1 ELSE 0) /\ Len(back) = (IF a + 4 <= Len(s) THEN Len(s) - (a + 4) + 1 ELSE 0)
    BY <1>2, <1>3
  <2>2. Len(front) = a
    BY <2>1
  <2>3. Len(back) = Len(s) - 3 - a
    BY <1>1, <2>1
  <2> QED
    BY <2>2, <2>3
<1>5. /\ front \o back \in Seq(S) /\ Len(front \o back) = Len(front) + Len(back)
      /\ \A i \in 1..(Len(front) + Len(back)) :
           (front \o back)[i] = IF i <= Len(front) THEN front[i] ELSE back[i - Len(front)]
  BY <1>2, <1>3, ConcatProperties
<1>6. Len(front) + Len(back) = Len(s) - 3
  BY <1>1, <1>4
<1>7. ASSUME NEW k \in 1..(Len(s) - 3), k <= a PROVE front[k] = s[k]
  <2>1. k \in 1..(a - 1 + 1) /\ 1 + k - 1 = k
    BY <1>1, <1>7
  <2> QED
    BY <1>2, <2>1
<1>8. ASSUME NEW k \in 1..(Len(s) - 3), ~(k <= a) PROVE back[k - a] = s[k + 3]
  <2>1. k - a \in 1..(Len(s) - (a + 4) + 1) /\ a + 4 + (k - a) - 1 = k + 3
    BY <1>1, <1>8
  <2> QED
    BY <1>3, <2>1
<1>9. \A k \in 1..(Len(s) - 3) : (front \o back)[k] = IF k <= a THEN s[k] ELSE s[k + 3]
  BY <1>4, <1>5, <1>6, <1>7, <1>8
<1> QED
  BY <1>5, <1>6, <1>9 DEF front, back

\* Whatever the storage does, units stay in their layout and a ciphertext is of
\* a frame that was written.
LEMMA StorageStep == ASSUME IInv, StorageFails PROVE IInv'
<1> USE DEF IInv
<1> DEFINE n0 == Len(disk)
           Sound(u, k) == u \in Units /\ u.part = PartAt(k) /\ (u.part = "ct" => u.of < Len(written))
           Kept == /\ disk' \in Seq(Units) /\ Len(disk') % 3 = 2
                   /\ \A k \in 1..Len(disk') : Sound(disk'[k], k)
<1>1. /\ disk \in Seq(Units) /\ n0 \in Nat /\ n0 >= 2 /\ DOMAIN disk = 1..n0
      /\ reader.at = "closed" /\ reader' = reader /\ written' = written /\ sealing = <<>>
      /\ sealing' = sealing /\ n0 % 3 = 2
  BY DEF StorageFails, UnitsInv, SealingInv
<1>2. \A k \in 1..n0 : Sound(disk[k], k)
  BY <1>1 DEF UnitsInv
<1>3. SUFFICES Kept
  BY <1>1 DEF UnitsInv, SealingInv, ReaderInv, WrittenInv, BytesOf
<1>4. \A m \in 0..(WholeFrames(disk) - 1) : m \in Nat /\ 3 * m + 5 <= n0
  BY <1>1 DEF WholeFrames
<1>5. \A k, l \in 1..n0, d \in Int : k >= 3 /\ l >= 3 /\ l = k + 3 * d => PartAt(l) = PartAt(k)
  <2> SUFFICES ASSUME NEW k \in 1..n0, NEW l \in 1..n0, NEW d \in Int, k >= 3, l >= 3, l = k + 3 * d
               PROVE  PartAt(l) = PartAt(k)
    OBVIOUS
  <2>1. l % 3 = k % 3
    BY <1>1, Mod3
  <2> QED
    BY <1>1, <2>1 DEF PartAt
<1>6. ASSUME NEW L \in Nat, L % 3 = 2, DOMAIN disk' = 1..L, disk' = [k \in 1..L |-> disk'[k]],
             \A k \in 1..L : Sound(disk'[k], k)
      PROVE  Kept
  <2>1. disk' \in [1..L -> Units]
    BY <1>6
  <2> QED
    BY <1>6, <2>1
<1> HIDE DEF Kept
<1>7. ASSUME NEW k \in DOMAIN disk, Rot(k) PROVE Kept
  <2>1. disk' = [i \in 1..n0 |-> IF i = k THEN [disk[k] EXCEPT !.intact = FALSE] ELSE disk[i]]
    BY <1>1, <1>7 DEF Rot
  <2>2. ASSUME NEW i \in 1..n0 PROVE Sound(disk'[i], i)
    BY <1>2, <2>1 DEF Units
  <2> QED
    BY <1>1, <1>6, <2>1, <2>2
<1>8. ASSUME NEW m \in 0..(WholeFrames(disk) - 1), NEW n \in 0..(WholeFrames(disk) - 1), m < n, Swap(m, n)
      PROVE  Kept
  <2> DEFINE d == n - m
  <2>1. m \in Nat /\ n \in Nat /\ d \in Int /\ 3 * m + 5 <= n0 /\ 3 * n + 5 <= n0
    BY <1>4
  <2>2. disk' = [k \in 1..n0 |->
             CASE k \in (3 * m + 3)..(3 * m + 5) -> disk[k + 3 * d]
               [] k \in (3 * n + 3)..(3 * n + 5) -> disk[k - 3 * d]
               [] OTHER -> disk[k]]
    BY <1>1, <1>8, <2>1 DEF Swap, FrameStart
  <2>3. ASSUME NEW k \in 1..n0 PROVE Sound(disk'[k], k)
    <3>1. CASE k \in (3 * m + 3)..(3 * m + 5)
      <4>1. k + 3 * d \in 1..n0 /\ k + 3 * d >= 3 /\ k >= 3
        <5>1. k + 3 * d >= 3 * n + 3 /\ k + 3 * d <= 3 * n + 5 /\ k >= 3 * m + 3 /\ k \in Nat
          BY <2>1, <3>1
        <5> QED
          BY <2>1, <5>1
      <4>2. disk'[k] = disk[k + 3 * d]
        <5>1. k \in 1..n0
          OBVIOUS
        <5> QED
          BY <2>2, <3>1, <5>1, SMTT(30)
      <4>3. PartAt(k + 3 * d) = PartAt(k)
        BY <1>5, <2>1, <4>1
      <4> QED
        BY <1>2, <4>1, <4>2, <4>3
    <3>2. CASE k \in (3 * n + 3)..(3 * n + 5)
      <4>1. k - 3 * d \in 1..n0 /\ k - 3 * d >= 3 /\ k >= 3 /\ k \notin (3 * m + 3)..(3 * m + 5)
        BY <1>8, <2>1, <3>2
      <4>2. disk'[k] = disk[k - 3 * d]
        BY <2>2, <3>2, <4>1
      <4>3. PartAt(k - 3 * d) = PartAt(k)
        <5>1. -d \in Int /\ k - 3 * d = k + 3 * (-d)
          BY <2>1
        <5> QED
          BY <1>5, <4>1, <5>1
      <4> QED
        BY <1>2, <4>1, <4>2, <4>3
    <3>3. CASE k \notin (3 * m + 3)..(3 * m + 5) /\ k \notin (3 * n + 3)..(3 * n + 5)
      BY <1>2, <2>2, <3>3
    <3> QED
      BY <3>1, <3>2, <3>3
  <2>4. DOMAIN disk' = 1..n0 /\ disk' = [k \in 1..n0 |-> disk'[k]]
    BY <2>2
  <2> QED
    BY <1>1, <1>6, <2>3, <2>4
<1>9. ASSUME NEW n \in 0..(WholeFrames(disk) - 1), Lose(n) PROVE Kept
  <2>1. n \in Nat /\ 3 * n + 5 <= n0
    BY <1>4
  <2> DEFINE L == n0 - 3
  <2>2. L \in Nat /\ L + 3 = n0 /\ L % 3 = 2
    BY <1>1, <2>1, Mod3
  <2>3. FrameStart(n) - 1 = 3 * n + 2 /\ FrameStart(n) + 3 = 3 * n + 2 + 4
    BY <2>1 DEF FrameStart
  <2>4. disk' = SubSeq(disk, 1, 3 * n + 2) \o SubSeq(disk, 3 * n + 2 + 4, Len(disk))
    BY <1>9, <2>3 DEF Lose
  <2>5. 3 * n + 2 \in Nat /\ 3 * n + 2 + 3 <= Len(disk)
    BY <2>1
  <2>6. /\ disk' \in Seq(Units) /\ Len(disk') = L
        /\ \A k \in 1..L : disk'[k] = IF k <= 3 * n + 2 THEN disk[k] ELSE disk[k + 3]
    BY <1>1, <2>4, <2>5, CutOut
  <2>7. ASSUME NEW k \in 1..L PROVE Sound(disk'[k], k)
    <3>1. CASE k <= 3 * n + 2
      <4>1. disk'[k] = disk[k] /\ k \in 1..n0
        BY <1>1, <2>1, <2>2, <2>6, <3>1
      <4> QED
        BY <1>2, <4>1
    <3>2. CASE k > 3 * n + 2
      <4>1. disk'[k] = disk[k + 3] /\ k + 3 \in 1..n0 /\ k >= 3
        BY <1>1, <2>1, <2>2, <2>6, <3>2
      <4>2. PartAt(k + 3) = PartAt(k)
        BY <1>1, <1>5, <2>2, <4>1
      <4> QED
        BY <1>2, <4>1, <4>2
    <3> QED
      BY <2>1, <2>2, <3>1, <3>2
  <2> QED
    BY <2>2, <2>6, <2>7 DEF Kept
<1>10. ASSUME NEW n \in 0..(WholeFrames(disk) - 1), Replace(n) PROVE Kept
  <2>1. n \in Nat /\ 3 * n + 5 <= n0
    BY <1>4
  <2>2. disk' = [k \in 1..n0 |-> IF k \in (3 * n + 3)..(3 * n + 5)
                                 THEN [disk[k] EXCEPT !.sid = Foreign] ELSE disk[k]]
    BY <1>1, <1>10, <2>1 DEF Replace, FrameStart
  <2>3. ASSUME NEW k \in 1..n0 PROVE Sound(disk'[k], k)
    BY <1>2, <2>2 DEF Units
  <2> QED
    BY <1>1, <1>6, <2>2, <2>3
<1> QED
  BY <1>7, <1>8, <1>9, <1>10 DEF StorageFails

\* A reader that opens the file is at its first unit and has opened nothing.
LEMMA OpenStep ==
  ASSUME IInv, NEW snapshot \in BOOLEAN, Open(snapshot)
  PROVE  ReaderInv' /\ UNCHANGED <<written, sealing, disk, Opened>>
<1>1. Len(disk) \in Nat /\ (disk # <<>> => Len(disk) >= 1)
  BY DEF IInv, UnitsInv
<1>2. <<>> \in Seq(Chunks) /\ Len(<<>>) = 0
  OBVIOUS
<1>3. /\ reader.at = "closed" /\ UNCHANGED <<written, sealing, disk>>
      /\ reader' = [at |-> IF disk # <<>> /\ disk[1].intact THEN "reading" ELSE "plaintext",
                    pos |-> 1, size |-> Len(disk), follows |-> ~snapshot,
                    sid |-> "none", counter |-> 0, opened |-> <<>>, err |-> FALSE]
  BY DEF Open
<1>4. reader'.at \in {"reading", "plaintext"} /\ reader'.opened = <<>>
  BY <1>3
<1>5. reader' \in Readers /\ (reader'.at = "reading" => disk # <<>>)
  BY <1>1, <1>2, <1>3 DEF Readers
<1> QED
  BY <1>1, <1>2, <1>3, <1>4, <1>5 DEF ReaderInv, Opened

\* A step of the reader hands it the next chunk of the recording or nothing.
LEMMA ReadStep ==
  ASSUME IInv, Read
  PROVE  /\ ReaderInv' /\ UNCHANGED <<written, sealing, disk>>
         /\ \/ Opened' = Opened
            \/ Len(Opened) < Len(written) /\ Opened' = Append(Opened, written[Len(Opened) + 1])
<1>1. /\ reader \in Readers /\ reader.at = "reading" /\ reader.size <= Len(disk)
      /\ reader.pos \in 1..Len(disk) /\ reader.counter = Len(reader.opened)
      /\ UNCHANGED <<written, sealing, disk>> /\ Len(disk) \in Nat
  BY DEF IInv, ReaderInv, Read, UnitsInv
<1>2. /\ reader.pos \in Nat /\ reader.size \in Nat /\ reader.counter \in Nat
      /\ reader.opened \in Seq(Chunks) /\ Opened = reader.opened
  BY <1>1 DEF Readers, Opened
<1>3. \A n \in 1..2 : Has(n) => reader.pos + n \in 1..Len(disk)
  BY <1>1, <1>2 DEF Has
<1>4. ASSUME NEW why \in {"eof", "unexpected"}, NEW err \in BOOLEAN, EndsWith(why, err)
      PROVE  ReaderInv' /\ Opened' = Opened
  <2>1. reader' \in Readers /\ reader'.at = why /\ reader'.size = reader.size
        /\ reader'.opened = reader.opened
    BY <1>1, <1>4 DEF EndsWith, Readers
  <2> QED
    BY <1>1, <1>2, <2>1 DEF ReaderInv, Opened
<1>5. CASE ReadStreamId
  <2>1. CASE Has(1)
    <3>1. Next1 \in Units
      BY <1>1, <1>3, <2>1 DEF Next1, IInv, UnitsInv
    <3>2. (IF Next1.intact THEN Next1.sid ELSE "rotten") \in {"rotten", Own, Foreign}
      BY <3>1 DEF Units
    <3>3. PICK sid \in {"rotten", Own, Foreign} :
            reader' = [reader EXCEPT !.pos = @ + 1, !.sid = sid]
      BY <1>5, <2>1, <3>2 DEF ReadStreamId
    <3>4. reader' \in Readers /\ reader'.at = reader.at /\ reader'.size = reader.size
          /\ reader'.opened = reader.opened /\ reader'.pos = reader.pos + 1
          /\ reader'.counter = reader.counter
      <4>1. reader' = [at |-> reader.at, pos |-> reader.pos + 1, size |-> reader.size,
                       follows |-> reader.follows, sid |-> sid, counter |-> reader.counter,
                       opened |-> reader.opened, err |-> reader.err]
        BY <1>1, <3>3 DEF Readers
      <4>2. reader.pos + 1 \in Nat /\ sid \in {"none", "rotten", Own, Foreign}
        BY <1>2
      <4> QED
        BY <1>1, <4>1, <4>2 DEF Readers
    <3> QED
      BY <1>1, <1>2, <1>3, <2>1, <3>4 DEF ReaderInv, Opened
  <2>2. CASE ~Has(1)
    BY <1>1, <1>4, <1>5, <2>2 DEF ReadStreamId
  <2> QED
    BY <2>1, <2>2
<1>6. CASE ReadLength
  <2>1. CASE Next1.intact
    <3>1. Has(1) /\ reader' = [reader EXCEPT !.pos = @ + 1]
      BY <1>6, <2>1 DEF ReadLength
    <3>2. reader' \in Readers /\ reader'.at = reader.at /\ reader'.size = reader.size
          /\ reader'.opened = reader.opened /\ reader'.pos = reader.pos + 1
          /\ reader'.counter = reader.counter
      BY <1>1, <3>1 DEF Readers
    <3> QED
      BY <1>1, <1>2, <1>3, <3>1, <3>2 DEF ReaderInv, Opened
  <2>2. CASE ~Next1.intact
    BY <1>1, <1>4, <1>6, <2>2 DEF ReadLength
  <2> QED
    BY <2>1, <2>2
<1>7. CASE ReadFrame
  <2> DEFINE ct == disk[reader.pos + 2]
  <2>1. CASE Has(2) /\ Opens(disk[reader.pos + 1], ct)
    <3>1. reader.pos + 2 \in 1..Len(disk) /\ disk[reader.pos].part = PartAt(reader.pos)
          /\ ct.part = PartAt(reader.pos + 2) /\ (ct.part = "ct" => ct.of < Len(written))
      BY <1>1, <1>3, <2>1 DEF IInv, UnitsInv
    <3>2. reader.pos >= 3 /\ reader.pos % 3 = 0
      BY <1>2, <1>7, <3>1, <1>1 DEF ReadFrame, PartAt
    <3>3. ct.part = "ct"
      <4>1. (reader.pos + 2) % 3 = 2
        BY <1>2, <3>2, Mod3
      <4> QED
        BY <1>2, <3>1, <3>2, <4>1 DEF PartAt
    <3>4. ct.of = reader.counter /\ ct.of < Len(written)
      BY <2>1, <3>1, <3>3 DEF Opens
    <3>5. reader' = [reader EXCEPT !.pos = @ + 2, !.counter = @ + 1,
                                   !.opened = Append(@, written[ct.of + 1])]
      BY <1>7, <2>1 DEF ReadFrame
    <3>6. written[ct.of + 1] \in Chunks
      BY <1>2, <3>4 DEF IInv, WrittenInv
    <3>7. Append(reader.opened, written[ct.of + 1]) \in Seq(Chunks)
          /\ Len(Append(reader.opened, written[ct.of + 1])) = Len(reader.opened) + 1
      BY <1>2, <3>6
    <3>8. reader' \in Readers /\ reader'.at = reader.at /\ reader'.size = reader.size
          /\ reader'.opened = Append(reader.opened, written[ct.of + 1])
          /\ reader'.pos = reader.pos + 2 /\ reader'.counter = reader.counter + 1
      <4>1. reader' = [at |-> reader.at, pos |-> reader.pos + 2, size |-> reader.size,
                       follows |-> reader.follows, sid |-> reader.sid, counter |-> reader.counter + 1,
                       opened |-> Append(reader.opened, written[ct.of + 1]), err |-> reader.err]
        BY <1>1, <3>5 DEF Readers
      <4>2. reader.pos + 2 \in Nat /\ reader.counter + 1 \in Nat
        BY <1>2
      <4> QED
        BY <1>1, <4>1, <4>2, <3>7 DEF Readers
    <3>9. Opened' = Append(Opened, written[Len(Opened) + 1]) /\ Len(Opened) < Len(written)
      BY <1>1, <1>2, <3>4, <3>8 DEF Opened
    <3>10. ReaderInv'
      BY <1>1, <1>2, <3>1, <3>7, <3>8 DEF ReaderInv
    <3> QED
      BY <1>1, <3>9, <3>10
  <2>2. CASE ~(Has(2) /\ Opens(disk[reader.pos + 1], ct))
    BY <1>1, <1>4, <1>7, <2>2 DEF ReadFrame
  <2> QED
    BY <2>1, <2>2
<1>8. CASE NoMoreFrames
  BY <1>1, <1>4, <1>8 DEF NoMoreFrames
<1> QED
  BY <1>5, <1>6, <1>7, <1>8 DEF Read
-----------------------------------------------------------------------------
\* The inductive invariant of the file beside its writer, its storage and its
\* reader: the layout, and ciphertexts of frames written only.
THEOREM Invariance == Spec => []IInv
<1>1. IInv /\ [Next]_vars => IInv'
  <2> SUFFICES ASSUME IInv, [Next]_vars PROVE IInv'
    OBVIOUS
  <2>1. CASE Writer BY <2>1, WriterStep
  <2>2. CASE StorageFails BY <2>2, StorageStep
  <2>3. CASE Read
    BY <2>3, ReadStep DEF IInv, WrittenInv, UnitsInv, SealingInv, BytesOf
  <2>4. ASSUME NEW snapshot \in BOOLEAN, Open(snapshot) PROVE IInv'
    BY <2>4, OpenStep DEF IInv, WrittenInv, UnitsInv, SealingInv, BytesOf
  <2>5. CASE UNCHANGED vars
    BY <2>5 DEF vars, IInv, WrittenInv, UnitsInv, SealingInv, ReaderInv, BytesOf
  <2> QED
    BY <2>1, <2>2, <2>3, <2>4, <2>5 DEF Next
<1> QED
  BY InitInv, <1>1, PTL DEF Spec

\* The framing (encWriter.Write, DecReader.Read) implements the tail stream for
\* a reader of the file: every step stores a chunk, hands the reader the next
\* one, or changes neither, whatever the storage did.
THEOREM Refinement == Spec => ImplementsTailStream
<1>1. Init => Stream!Init
  BY DEF Init, Stream!Init, Opened
<1>2. IInv /\ [Next]_vars => [Stream!Next]_(Stream!vars)
  <2> SUFFICES ASSUME IInv, [Next]_vars PROVE Stream!Next \/ UNCHANGED Stream!vars
    OBVIOUS
  <2> USE DEF Stream!vars
  <2>1. CASE Writer
    <3>1. Opened' = Opened
      BY <2>1 DEF Writer, WriteMagic, WriteStreamId, WriteLength, WriteNonce, WriteCiphertext, Opened
    <3>2. CASE WriteCiphertext
      <4>1. \E c \in {Chunk(lo, hi) : lo, hi \in 0..MaxBytes} : written' = Append(written, c)
        <5>1. sealing \in Chunks /\ written' = Append(written, sealing)
          BY <3>2 DEF WriteCiphertext, IInv, WrittenInv
        <5> QED
          BY <5>1 DEF Chunks, Lo
      <4> QED
        BY <3>1, <4>1 DEF Stream!Next, Stream!Store
    <3>3. CASE ~WriteCiphertext
      BY <2>1, <3>1, <3>3 DEF Writer, WriteMagic, WriteStreamId, WriteLength, WriteNonce
    <3> QED
      BY <3>2, <3>3
  <2>2. CASE StorageFails
    BY <2>2 DEF StorageFails, Opened
  <2>3. CASE Read
    <3>1. CASE Opened' = Opened
      BY <2>3, <3>1, ReadStep
    <3>2. CASE Len(Opened) < Len(written) /\ Opened' = Append(Opened, written[Len(Opened) + 1])
      <4>1. Stream!Hand("reader")
        BY <2>3, <3>2, ReadStep DEF Stream!Hand
      <4> QED
        BY <4>1 DEF Stream!Next
    <3> QED
      BY <2>3, <3>1, <3>2, ReadStep
  <2>4. ASSUME NEW snapshot \in BOOLEAN, Open(snapshot) PROVE UNCHANGED Stream!vars
    BY <2>4, OpenStep
  <2>5. CASE UNCHANGED vars
    BY <2>5 DEF vars, Opened
  <2> QED
    BY <2>1, <2>2, <2>3, <2>4, <2>5 DEF Next
<1> QED
  BY <1>1, <1>2, Invariance, PTL DEF Spec, Stream!Spec, ImplementsTailStream
-----------------------------------------------------------------------------
(* A sound file: every unit is as it was written and in its place, and a    *)
(* reader stands at a frame's beginning or behind its length.               *)

SoundUnits ==
  ~faulty =>
    /\ \A k \in 1..Len(disk) : disk[k].intact /\ disk[k].sid = Own
    /\ \A n \in Nat : \A j \in 3..5 : 3 * n + j <= Len(disk) => disk[3 * n + j].of = n
CountInv ==
  ~faulty =>
    IF sealing = <<>>
    THEN Len(disk) = 3 * Len(written) + 2 \/ (Len(disk) < 2 /\ Len(written) = 0)
    ELSE Len(disk) \in {3 * Len(written) + 3, 3 * Len(written) + 4}
PlaceInv ==
  reader.at = "reading" =>
    /\ IF reader.sid = "none" THEN reader.pos = 1 /\ reader.counter = 0
       ELSE reader.pos \in {3 * reader.counter + 2, 3 * reader.counter + 3}
    /\ ~reader.follows => reader.pos <= reader.size
    /\ ~faulty => reader.sid \in {"none", Own}

Truth == SoundUnits /\ CountInv /\ PlaceInv /\ SoundFileReadsWhole

\* One more unit of the frame being written, or of the header.
LEMMA SoundAppend ==
  ASSUME IInv, SoundUnits, ~faulty, faulty' = faulty,
         NEW part \in Parts, NEW of \in Nat, disk' = Append(disk, Unit(part, of, Own)),
         Len(disk) >= 2 => Len(disk) + 1 \in (3 * of + 3)..(3 * of + 5)
  PROVE  SoundUnits' /\ Len(disk') = Len(disk) + 1
<1>1. /\ disk \in Seq(Units) /\ Len(disk) \in Nat
      /\ Unit(part, of, Own) \in Units /\ Unit(part, of, Own).intact
      /\ Unit(part, of, Own).sid = Own /\ Unit(part, of, Own).of = of
  BY DEF IInv, UnitsInv, Unit, Units, Own
<1> DEFINE u == Unit(part, of, Own)
<1> HIDE DEF u
<1>2. /\ Len(disk') = Len(disk) + 1 /\ disk'[Len(disk) + 1] = u
      /\ \A k \in 1..Len(disk) : disk'[k] = disk[k]
  BY <1>1 DEF u
<1>3. \A k \in 1..Len(disk') : disk'[k].intact /\ disk'[k].sid = Own
  BY <1>1, <1>2 DEF SoundUnits, u
<1>4. ASSUME NEW n \in Nat, NEW j \in 3..5, 3 * n + j <= Len(disk') PROVE disk'[3 * n + j].of = n
  <2>1. CASE 3 * n + j <= Len(disk)
    <3>1. 3 * n + j \in 1..Len(disk)
      BY <1>1, <2>1
    <3>2. disk[3 * n + j].of = n
      BY <2>1 DEF SoundUnits
    <3> QED
      BY <1>2, <3>1, <3>2
  <2>2. CASE 3 * n + j = Len(disk) + 1
    <3>1. n = of
      BY <1>1, <2>2
    <3> QED
      BY <1>1, <1>2, <2>2, <3>1 DEF u
  <2> QED
    BY <1>1, <1>2, <1>4, <2>1, <2>2
<1> QED
  BY <1>2, <1>3, <1>4 DEF SoundUnits

LEMMA SoundWriter ==
  ASSUME IInv, SoundUnits, CountInv, Writer
  PROVE  SoundUnits' /\ CountInv'
<1>1. faulty' = faulty
  BY DEF Writer, WriteMagic, WriteStreamId, WriteLength, WriteNonce, WriteCiphertext
<1>2. SUFFICES ASSUME ~faulty PROVE SoundUnits' /\ CountInv'
  BY <1>1 DEF SoundUnits, CountInv
<1>3. /\ Len(disk) \in Nat /\ Len(written) \in Nat /\ written \in Seq(Chunks) /\ sealing \in Chunks
      /\ \A k \in 1..Len(disk) : disk[k].part = PartAt(k)
  BY DEF IInv, WrittenInv, UnitsInv
<1>4. CASE WriteMagic
  <2>1. disk' = Append(disk, Unit("magic", 0, Own)) /\ Len(disk) = 0
    BY <1>3, <1>4 DEF WriteMagic, IInv, UnitsInv
  <2>2. SoundUnits' /\ Len(disk') = 1
    BY <1>1, <1>2, <1>3, <2>1, SoundAppend DEF Parts
  <2> QED
    BY <1>2, <1>3, <1>4, <2>1, <2>2 DEF WriteMagic, CountInv
<1>5. CASE WriteStreamId
  <2>1. disk' = Append(disk, Unit("sid", 0, Own)) /\ Len(disk) = 1
    BY <1>5 DEF WriteStreamId
  <2>2. SoundUnits' /\ Len(disk') = 2
    BY <1>1, <1>2, <1>3, <2>1, SoundAppend DEF Parts
  <2> QED
    BY <1>2, <1>3, <1>5, <2>1, <2>2 DEF WriteStreamId, CountInv
<1>6. CASE WriteLength
  <2>1. /\ disk' = Append(disk, Unit("len", Len(written), Own)) /\ written' = written
        /\ Len(disk) = 3 * Len(written) + 2
    BY <1>2, <1>3, <1>6 DEF WriteLength, FrameUnit, CountInv
  <2>2. SoundUnits' /\ Len(disk') = Len(disk) + 1
    BY <1>1, <1>2, <1>3, <2>1, SoundAppend DEF Parts
  <2>3. sealing' # <<>>
    <3>1. PICK hi \in (BytesOf(written) + 1)..MaxBytes : sealing' = Chunk(BytesOf(written), hi)
      BY <1>6 DEF WriteLength
    <3>2. BytesOf(written) \in Lo
      BY DEF IInv, WrittenInv
    <3> QED
      BY <3>1, <3>2, ChunkFacts
  <2> QED
    BY <1>2, <1>3, <2>1, <2>2, <2>3 DEF CountInv
<1>7. CASE WriteNonce
  <2>1. /\ disk' = Append(disk, Unit("nonce", Len(written), Own)) /\ UNCHANGED <<written, sealing>>
        /\ sealing # <<>> /\ disk[Len(disk)].part = "len"
    BY <1>7 DEF WriteNonce, FrameUnit
  <2>2. Len(disk) = 3 * Len(written) + 3
    <3>1. Len(disk) \in {3 * Len(written) + 3, 3 * Len(written) + 4}
      BY <1>2, <2>1 DEF CountInv
    <3>2. Len(disk) % 3 = 0
      BY <1>3, <2>1, <3>1 DEF PartAt
    <3> QED
      BY <1>3, <3>1, <3>2
  <2>3. SoundUnits' /\ Len(disk') = Len(disk) + 1
    BY <1>1, <1>2, <1>3, <2>1, <2>2, SoundAppend DEF Parts
  <2> QED
    BY <1>2, <1>3, <2>1, <2>2, <2>3 DEF CountInv
<1>8. CASE WriteCiphertext
  <2>1. /\ disk' = Append(disk, Unit("ct", Len(written), Own)) /\ written' = Append(written, sealing)
        /\ sealing # <<>> /\ sealing' = <<>> /\ disk[Len(disk)].part = "nonce"
    BY <1>8 DEF WriteCiphertext, FrameUnit
  <2>2. Len(disk) = 3 * Len(written) + 4
    <3>1. Len(disk) \in {3 * Len(written) + 3, 3 * Len(written) + 4}
      BY <1>2, <2>1 DEF CountInv
    <3>2. Len(disk) % 3 = 1
      BY <1>3, <2>1, <3>1 DEF PartAt
    <3> QED
      BY <1>3, <3>1, <3>2
  <2>3. SoundUnits' /\ Len(disk') = Len(disk) + 1
    <3>1. "ct" \in Parts /\ ~faulty /\ faulty' = faulty
      BY <1>1, <1>2 DEF Parts
    <3>2. Len(disk) = 3 * Len(written) + 4 /\ Len(written) \in Nat
      BY <1>3, <2>2
    <3> QED
      BY <1>3, <2>1, <3>1, <3>2, SoundAppend
  <2>4. Len(written') = Len(written) + 1
    BY <1>3, <2>1
  <2> QED
    BY <1>2, <1>3, <2>1, <2>2, <2>3, <2>4 DEF CountInv
<1> QED
  BY <1>4, <1>5, <1>6, <1>7, <1>8 DEF Writer

LEMMA Whole ==
  ASSUME NEW size \in Nat, NEW c \in Nat
  PROVE  LET w == WholeFrames([k \in 1..size |-> k])
         IN  /\ size < 3 * c + 5 => w <= c
             /\ size >= 3 * c + 2 /\ size < 3 * c + 5 => w = c
             /\ size < 3 => w = 0
<1> DEFINE d == [k \in 1..size |-> k]
<1>1. Len(d) = size
  OBVIOUS
<1>2. WholeFrames(d) = IF size < 3 THEN 0 ELSE (size - 2) \div 3
  BY <1>1 DEF WholeFrames
<1> HIDE DEF d
<1>3. size >= 3 => LET w == (size - 2) \div 3 IN w \in Nat /\ 3 * w <= size - 2 /\ size - 2 < 3 * w + 3
  OBVIOUS
<1>4. SUFFICES /\ size < 3 * c + 5 => WholeFrames(d) <= c
               /\ size >= 3 * c + 2 /\ size < 3 * c + 5 => WholeFrames(d) = c
               /\ size < 3 => WholeFrames(d) = 0
  BY DEF d
<1> QED
  BY <1>2, <1>3

\* The reader's step: it stays in place, ends at the last whole frame of a sound
\* file, and tells of damage only what there is.
LEMMA TruthRead ==
  ASSUME IInv, SoundUnits, PlaceInv, SoundFileReadsWhole, Read
  PROVE  PlaceInv' /\ SoundFileReadsWhole' /\ EarlyStopIsTold
<1>1. /\ reader \in Readers /\ reader.at = "reading" /\ reader.size <= Len(disk)
      /\ reader.pos \in 1..Len(disk) /\ reader.counter = Len(reader.opened)
      /\ UNCHANGED <<written, sealing, disk, faulty, key>> /\ Len(disk) \in Nat
      /\ \A k \in 1..Len(disk) : disk[k].part = PartAt(k)
  BY DEF IInv, ReaderInv, Read, UnitsInv
<1>2. /\ reader.pos \in Nat /\ reader.size \in Nat /\ reader.counter \in Nat /\ reader.follows \in BOOLEAN
      /\ reader.opened \in Seq(Chunks) /\ reader.err \in BOOLEAN
  BY <1>1 DEF Readers
<1> DEFINE c == reader.counter
           Bound == IF reader.follows THEN Len(disk) ELSE reader.size
<1>3. /\ Has(1) <=> reader.pos + 1 <= Bound
      /\ Has(2) <=> reader.pos + 2 <= Bound
      /\ Has(3) <=> reader.pos + 3 <= Bound
  BY DEF Has
<1>4. Bound \in Nat /\ reader.size <= Bound /\ Bound <= Len(disk)
  BY <1>1, <1>2
<1>5. ~reader.follows => reader.pos <= reader.size /\ Bound = reader.size
  BY <1>1 DEF PlaceInv
<1> HIDE DEF Bound
\* An end without an error, behind the last whole frame.
<1>6. ASSUME EndsWith("eof", FALSE), ~Has(3), Bound < 3 * c + 5,
             reader.pos >= 3 * c + 2 \/ (Bound < 2 /\ c = 0)
      PROVE  PlaceInv' /\ SoundFileReadsWhole' /\ EarlyStopIsTold
  <2>1. reader' = [reader EXCEPT !.at = "eof", !.err = FALSE]
    BY <1>6 DEF EndsWith
  <2>2. /\ reader'.at = "eof" /\ reader'.err = FALSE /\ reader'.size = reader.size
        /\ reader'.opened = reader.opened /\ reader'.follows = reader.follows
    BY <1>1, <2>1 DEF Readers
  <2>3. PlaceInv' /\ EarlyStopIsTold
    BY <1>6, <2>2 DEF PlaceInv, EarlyStopIsTold
  <2>4. SoundFileReadsWhole'
    <3> SUFFICES ASSUME ~faulty, key
                 PROVE  LET w == WholeFrames([k \in 1..reader.size |-> k])
                        IN  c >= w /\ (~reader.follows => c = w)
      BY <1>1, <2>2 DEF SoundFileReadsWhole
    <3> DEFINE w == WholeFrames([k \in 1..reader.size |-> k])
    <3>1. w <= c
      <4>1. reader.size < 3 * c + 5
        BY <1>2, <1>4, <1>6
      <4> QED
        BY <1>2, <4>1, Whole
    <3>2. ASSUME ~reader.follows PROVE c = w
      <4>1. CASE reader.pos >= 3 * c + 2
        <5>1. reader.size >= 3 * c + 2 /\ reader.size < 3 * c + 5
          BY <1>2, <1>5, <1>6, <3>2, <4>1
        <5> QED
          BY <1>2, <5>1, Whole
      <4>2. CASE Bound < 2 /\ c = 0
        <5>1. reader.size < 3
          BY <1>2, <1>4, <4>2
        <5> QED
          BY <1>2, <4>2, <5>1, Whole
      <4> QED
        BY <1>6, <4>1, <4>2
    <3> HIDE DEF w
    <3>3. w \in Int
      BY <1>2 DEF w, WholeFrames
    <3> QED
      BY <1>2, <3>1, <3>2, <3>3 DEF w
  <2> QED
    BY <2>3, <2>4
\* An end of a file that is damaged, or read under another key.
<1>7. ASSUME NEW why \in {"eof", "unexpected"}, NEW err \in BOOLEAN, EndsWith(why, err),
             faulty \/ ~key,
             why = "eof" /\ ~err => Next1.part = "len" /\ ~Next1.intact
      PROVE  PlaceInv' /\ SoundFileReadsWhole' /\ EarlyStopIsTold
  <2>1. reader' = [reader EXCEPT !.at = why, !.err = err]
    BY <1>7 DEF EndsWith
  <2>2. reader'.at = why /\ reader'.err = err
    BY <1>1, <2>1 DEF Readers
  <2>3. PlaceInv' /\ EarlyStopIsTold
    BY <1>7, <2>2 DEF PlaceInv, EarlyStopIsTold
  <2>4. SoundFileReadsWhole'
    BY <1>1, <1>7 DEF SoundFileReadsWhole
  <2> QED
    BY <2>3, <2>4
\* A step that goes on reading.
<1>8. ASSUME reader'.at = "reading", PlaceInv'
      PROVE  SoundFileReadsWhole' /\ EarlyStopIsTold
  BY <1>8 DEF SoundFileReadsWhole, EarlyStopIsTold
<1>9. CASE ReadStreamId
  <2>0. reader.sid = "none" /\ reader.pos = 1 /\ c = 0
    BY <1>1, <1>9 DEF ReadStreamId, PlaceInv
  <2>1. CASE Has(1)
    <3>1. reader.pos + 1 \in 1..Len(disk) /\ Next1 = disk[reader.pos + 1]
      BY <1>1, <1>2, <1>3, <1>4, <2>1 DEF Next1
    <3>2. reader' = [at |-> "reading", pos |-> 2, size |-> reader.size, follows |-> reader.follows,
                     sid |-> IF Next1.intact THEN Next1.sid ELSE "rotten", counter |-> 0,
                     opened |-> reader.opened, err |-> reader.err]
      <4>1. reader' = [reader EXCEPT !.pos = @ + 1, !.sid = IF Next1.intact THEN Next1.sid ELSE "rotten"]
        BY <1>9, <2>1 DEF ReadStreamId
      <4> DEFINE sid == IF Next1.intact THEN Next1.sid ELSE "rotten"
      <4> HIDE DEF sid
      <4>2. reader' = [reader EXCEPT !.pos = 2, !.sid = sid]
        BY <2>0, <4>1 DEF sid
      <4>3. reader' = [at |-> "reading", pos |-> 2, size |-> reader.size, follows |-> reader.follows,
                       sid |-> sid, counter |-> 0, opened |-> reader.opened, err |-> reader.err]
        BY <1>1, <2>0, <4>2 DEF Readers
      <4> QED
        BY <4>3 DEF sid
    <3>3. ~faulty => Next1.intact /\ Next1.sid = Own
      BY <3>1 DEF SoundUnits
    <3>4. reader'.sid # "none"
      <4>1. Next1 \in Units
        BY <3>1 DEF IInv, UnitsInv
      <4> QED
        BY <3>2, <4>1 DEF Units, Own, Foreign
    <3>5. PlaceInv'
      <4>1. ~reader.follows => 2 <= reader.size
        BY <1>3, <1>5, <2>0, <2>1
      <4> QED
        BY <1>1, <3>2, <3>3, <3>4, <4>1 DEF PlaceInv
    <3> QED
      BY <1>8, <3>2, <3>5
  <2>2. CASE ~Has(1)
    <3>1. Bound < 2 /\ ~Has(3)
      BY <1>3, <1>4, <2>0, <2>2
    <3>2. EndsWith("eof", FALSE)
      BY <1>9, <2>2 DEF ReadStreamId
    <3> QED
      BY <1>4, <1>6, <2>0, <3>1, <3>2
  <2> QED
    BY <2>1, <2>2
<1>10. CASE ReadLength
  <2>1. /\ reader.sid # "none" /\ Has(1) /\ Next1.part = "len"
        /\ reader.pos + 1 \in 1..Len(disk) /\ Next1 = disk[reader.pos + 1]
        /\ reader.pos \in {3 * c + 2, 3 * c + 3}
    <3>1. reader.sid # "none" /\ Has(1) /\ Next1.part = "len" /\ Next1 = disk[reader.pos + 1]
      BY <1>10 DEF ReadLength, Next1
    <3>2. reader.pos \in {3 * c + 2, 3 * c + 3}
      BY <1>1, <3>1 DEF PlaceInv
    <3>3. reader.pos + 1 \in 1..Len(disk)
      <4>1. reader.pos + 1 <= Bound
        BY <1>3, <3>1
      <4> HIDE DEF c
      <4> QED
        BY <1>1, <1>2, <1>4, <4>1
    <3> QED
      BY <3>1, <3>2, <3>3
  <2>2. CASE Next1.intact
    <3>1. PartAt(reader.pos + 1) = "len" /\ reader.pos + 1 # 1 /\ reader.pos + 1 # 2
      BY <1>1, <1>2, <2>1
    <3>2. (reader.pos + 1) % 3 = 0
      BY <3>1 DEF PartAt
    <3>3. reader.pos = 3 * c + 2
      BY <1>2, <2>1, <3>2
    <3>4. reader' = [at |-> "reading", pos |-> reader.pos + 1, size |-> reader.size,
                     follows |-> reader.follows, sid |-> reader.sid, counter |-> reader.counter,
                     opened |-> reader.opened, err |-> reader.err]
      BY <1>1, <1>10, <2>2 DEF ReadLength, Readers
    <3>5. PlaceInv'
      <4>1. ~reader.follows => reader.pos + 1 <= reader.size
        BY <1>3, <1>5, <2>1
      <4> QED
        BY <1>1, <2>1, <3>3, <3>4, <4>1 DEF PlaceInv
    <3> QED
      BY <1>8, <3>4, <3>5
  <2>3. CASE ~Next1.intact
    <3>1. faulty
      BY <2>1, <2>3 DEF SoundUnits
    <3>2. EndsWith("eof", FALSE) \/ EndsWith("unexpected", FALSE) \/ EndsWith("eof", TRUE)
      BY <1>10, <2>3 DEF ReadLength
    <3> QED
      BY <1>7, <2>1, <2>3, <3>1, <3>2
  <2> QED
    BY <2>2, <2>3
<1>11. CASE ReadFrame
  <2>1. /\ reader.sid # "none" /\ disk[reader.pos].part = "len"
        /\ reader.pos \in {3 * c + 2, 3 * c + 3}
    BY <1>1, <1>11 DEF ReadFrame, PlaceInv
  <2>2. reader.pos = 3 * c + 3
    <3>1. reader.pos % 3 = 0
      BY <1>1, <2>1 DEF PartAt
    <3> QED
      BY <1>2, <2>1, <3>1
  <2>3. CASE ~Has(2)
    <3>1. Bound < 3 * c + 5 /\ ~Has(3) /\ reader.pos >= 3 * c + 2
      <4>1. ~(reader.pos + 2 <= Bound) /\ (Has(3) => reader.pos + 3 <= Bound)
        BY <1>3, <2>3
      <4> HIDE DEF c
      <4>2. Bound < reader.pos + 2 /\ ~(reader.pos + 3 <= Bound)
        BY <1>2, <1>4, <4>1
      <4>3. c \in Nat
        BY <1>2 DEF c
      <4> QED
        BY <1>4, <2>2, <4>1, <4>2, <4>3
    <3>2. EndsWith("eof", FALSE)
      BY <1>11, <2>3 DEF ReadFrame
    <3> QED
      BY <1>6, <3>1, <3>2
  <2> DEFINE nonce == disk[reader.pos + 1]
             ct == disk[reader.pos + 2]
  <2>4. CASE Has(2) /\ Opens(nonce, ct)
    <3>1. reader' = [at |-> "reading", pos |-> reader.pos + 2, size |-> reader.size,
                     follows |-> reader.follows, sid |-> reader.sid, counter |-> reader.counter + 1,
                     opened |-> Append(reader.opened, written[ct.of + 1]), err |-> reader.err]
      BY <1>1, <1>11, <2>4 DEF ReadFrame, Readers
    <3>2. PlaceInv'
      <4>1. ~reader.follows => reader.pos + 2 <= reader.size
        BY <1>3, <1>5, <2>4
      <4>2. reader.pos + 2 = 3 * (reader.counter + 1) + 2
        BY <1>2, <2>2
      <4> QED
        BY <1>1, <2>1, <3>1, <4>1, <4>2 DEF PlaceInv
    <3> QED
      BY <1>8, <3>1, <3>2
  <2>5. CASE Has(2) /\ ~Opens(nonce, ct)
    <3>1. EndsWith("eof", TRUE)
      BY <1>11, <2>5 DEF ReadFrame
    <3>2. reader.pos + 2 \in 1..Len(disk) /\ reader.pos + 1 \in 1..Len(disk)
      <4>1. reader.pos + 2 <= Bound
        BY <1>3, <2>5
      <4> HIDE DEF c
      <4> QED
        BY <1>1, <1>2, <1>4, <4>1
    <3>3. faulty \/ ~key
      <4> SUFFICES ASSUME ~faulty, key PROVE FALSE
        OBVIOUS
      <4>1. nonce.intact /\ ct.intact /\ ct.sid = Own /\ reader.sid = Own
        BY <1>1, <2>1, <3>2 DEF SoundUnits, PlaceInv
      <4>2. nonce.of = c /\ ct.of = c
        <5>1. reader.pos + 1 = 3 * c + 4 /\ reader.pos + 2 = 3 * c + 5
          BY <1>2, <2>2
        <5>2. c \in Nat /\ 3 * c + 4 <= Len(disk) /\ 3 * c + 5 <= Len(disk)
          BY <1>2, <3>2, <5>1
        <5> HIDE DEF nonce, ct, c
        <5>3. \A n \in Nat : /\ 3 * n + 4 <= Len(disk) => disk[3 * n + 4].of = n
                             /\ 3 * n + 5 <= Len(disk) => disk[3 * n + 5].of = n
          BY DEF SoundUnits
        <5>4. disk[3 * c + 4].of = c /\ disk[3 * c + 5].of = c
          BY <5>2, <5>3
        <5> QED
          BY <5>1, <5>4 DEF nonce, ct
      <4> QED
        BY <2>5, <4>1, <4>2 DEF Opens
    <3> QED
      BY <1>7, <3>1, <3>3
  <2> QED
    BY <2>3, <2>4, <2>5
<1>12. CASE NoMoreFrames
  <2>1. /\ reader.sid # "none" /\ disk[reader.pos].part # "len" /\ ~Has(1) /\ EndsWith("eof", FALSE)
        /\ reader.pos \in {3 * c + 2, 3 * c + 3}
    BY <1>1, <1>12 DEF NoMoreFrames, PlaceInv
  <2>2. Bound < 3 * c + 5 /\ ~Has(3) /\ reader.pos >= 3 * c + 2
    <3>1. reader.pos = 3 * c + 2 \/ reader.pos = 3 * c + 3
      BY <2>1
    <3>2. Bound <= reader.pos /\ ~Has(3)
      BY <1>2, <1>3, <1>4, <2>1
    <3> QED
      BY <1>2, <1>4, <3>1, <3>2
  <2> QED
    BY <1>6, <2>1, <2>2
<1> QED
  BY <1>9, <1>10, <1>11, <1>12 DEF Read

\* A reader can take what it is handed, and whether it is told of damage, for the
\* state of the file (DecReader.Read, Err): all that was whole of a sound file,
\* and an end before the file's only where a length is rotten.
THEOREM ReaderTold == Spec => ReaderTellsTheTruth
<1>1. Init => Truth
  BY DEF Init, Truth, SoundUnits, CountInv, PlaceInv, SoundFileReadsWhole
<1>2. IInv /\ Truth /\ [Next]_vars => Truth' /\ [SoundFileReadsWhole' /\ EarlyStopIsTold]_vars
  <2> SUFFICES ASSUME IInv, Truth, [Next]_vars
               PROVE  Truth' /\ (EarlyStopIsTold \/ UNCHANGED vars)
    BY DEF Truth
  <2> USE DEF Truth
  <2>1. CASE Writer
    <3>1. reader' = reader /\ faulty' = faulty /\ key' = key
      BY <2>1 DEF Writer, WriteMagic, WriteStreamId, WriteLength, WriteNonce, WriteCiphertext
    <3> QED
      BY <2>1, <3>1, SoundWriter DEF PlaceInv, SoundFileReadsWhole, EarlyStopIsTold
  <2>2. CASE StorageFails
    BY <2>2 DEF StorageFails, SoundUnits, CountInv, PlaceInv, SoundFileReadsWhole, EarlyStopIsTold
  <2>3. CASE Read
    BY <2>3, TruthRead DEF Read, SoundUnits, CountInv
  <2>4. ASSUME NEW snapshot \in BOOLEAN, Open(snapshot)
        PROVE  Truth' /\ EarlyStopIsTold
    <3>1. /\ reader.at = "closed" /\ UNCHANGED <<written, sealing, disk, faulty, key>>
          /\ reader'.at \in {"reading", "plaintext"} /\ reader'.pos = 1 /\ reader'.size = Len(disk)
          /\ reader'.sid = "none" /\ reader'.counter = 0
          /\ reader'.at = "reading" => disk # <<>>
      BY <2>4 DEF Open
    <3>2. Len(disk) \in Nat /\ (disk # <<>> => Len(disk) >= 1)
      BY DEF IInv, UnitsInv
    <3> QED
      BY <3>1, <3>2 DEF SoundUnits, CountInv, PlaceInv, SoundFileReadsWhole, EarlyStopIsTold
  <2>5. CASE UNCHANGED vars
    BY <2>5 DEF vars, SoundUnits, CountInv, PlaceInv, SoundFileReadsWhole
  <2> QED
    BY <2>1, <2>2, <2>3, <2>4, <2>5 DEF Next
<1> QED
  BY <1>1, <1>2, Invariance, PTL DEF Spec, ReaderTellsTheTruth
-----------------------------------------------------------------------------
\* A non-empty set of numbers has a least member.
LEMMA Least ==
  ASSUME NEW T, T \subseteq Nat, T # {}
  PROVE \E x \in T : \A y \in T : x <= y
<1>1. IsWellFoundedOn(OpToRel(<,Nat), Nat)
  BY NatLessThanWellFounded
<1>2. \A x, y \in Nat : y < x => <<y,x>> \in OpToRel(<,Nat)
  BY DEF OpToRel
<1>3. PICK x \in T : \A y \in T : ~ (<<y, x>> \in OpToRel(<,Nat))
  BY <1>1, WFMin
<1>4. \A y \in T : ~(y < x)
  BY <1>2, <1>3
<1>5. \A y \in T : x <= y
  <2> SUFFICES ASSUME NEW y \in T PROVE x <= y
    OBVIOUS
  <2>1. x \in Nat /\ y \in Nat /\ ~(y < x)
    BY <1>4
  <2> QED
    BY <2>1
<1> QED
  BY <1>5
-----------------------------------------------------------------------------
(* cast.Writer, which writes the events that the frames carry (Terminal):    *)
(* every byte a program writes is in the recording or held back, in order,   *)
(* and where one event ends and the next begins no character is cut.         *)
\* What Max picks is a member, and none is greater.
LEMMA MaxIn ==
  ASSUME NEW n \in Nat, NEW S \in SUBSET (1..n), S # {}
  PROVE  Max(S) \in S /\ \A y \in S : y <= Max(S)
<1> DEFINE T == {n - x : x \in S}
<1>1. \A x \in S : x \in Nat /\ x <= n /\ n - x \in Nat
  OBVIOUS
<1>1a. T \subseteq Nat
  BY <1>1
<1>1b. T # {}
  <2>1. PICK x \in S : TRUE
    OBVIOUS
  <2>2. n - x \in T
    BY <2>1
  <2> QED
    BY <2>2
<1>2. PICK t \in T : \A u \in T : t <= u
  BY <1>1a, <1>1b, Least
<1>3. PICK x \in S : t = n - x
  OBVIOUS
<1>4. \A y \in S : x >= y
  <2> SUFFICES ASSUME NEW y \in S PROVE x >= y
    OBVIOUS
  <2>1. n - y \in T
    OBVIOUS
  <2>2. n - x <= n - y
    BY <1>2, <1>3, <2>1
  <2> QED
    BY <1>1, <2>2
<1>5. Max(S) \in S /\ \A y \in S : Max(S) >= y
  BY <1>4 DEF Max
<1> QED
  BY <1>5

\* What any of the programs writes.
Bytes == UNION {pr.bytes : pr \in Programs}
\* The sequences of s, one behind the other: what the fold that defines it computes.
Flat(s) == FlattenSeq(s)

\* f flattens s.
Flattens(f, s) == f = [i \in 1..Len(s) |-> IF i = 1 THEN s[i] ELSE f[i - 1] \o s[i]]

\* Flat(s) is the last value of a function that flattens s.
LEMMA FlatIs ==
  ASSUME NEW s
  PROVE  Flat(s) = IF Len(s) = 0 THEN s ELSE (CHOOSE f : Flattens(f, s))[Len(s)]
BY DEF Flat, FlattenSeq, Flattens

\* There is such a function.
LEMMA FlatExists ==
  ASSUME NEW B, NEW s \in Seq(Seq(B))
  PROVE  \E f \in [1..Len(s) -> Seq(B)] : Flattens(f, s)
<1> DEFINE n == Len(s)
           Good(f, k) == \A i \in 1..k : f[i] = IF i = 1 THEN s[i] ELSE f[i - 1] \o s[i]
           Bad == {k \in 0..n : ~\E f \in [1..n -> Seq(B)] : Good(f, k)}
<1>0. n \in Nat /\ \A i \in 1..n : s[i] \in Seq(B)
  OBVIOUS
<1>1. ASSUME Bad # {} PROVE FALSE
  <2>1. PICK m \in Bad : \A k \in Bad : m <= k
    <3>1. Bad \subseteq Nat
      BY <1>0
    <3> HIDE DEF Bad
    <3> QED
      BY <1>1, <3>1, Least
  <2>2. m \in 0..n /\ ~\E f \in [1..n -> Seq(B)] : Good(f, m)
    OBVIOUS
  <2>3. m # 0
    <3>1. [i \in 1..n |-> s[i]] \in [1..n -> Seq(B)]
      BY <1>0
    <3>2. Good([i \in 1..n |-> s[i]], 0)
      OBVIOUS
    <3> QED
      BY <2>2, <3>1, <3>2
  <2>4. m - 1 \in 0..n /\ ~(m <= m - 1) /\ m \in 1..n
    BY <1>0, <2>2, <2>3
  <2>4a. m - 1 \in Nat /\ m \in Nat /\ m <= n
    BY <1>0, <2>4
  <2>5. PICK f \in [1..n -> Seq(B)] : Good(f, m - 1)
    <3>1. m - 1 \notin Bad
      <4> HIDE DEF Bad
      <4> QED
        BY <2>1, <2>4
    <3> QED
      BY <2>4, <3>1
  <2> DEFINE g == [i \in 1..n |-> IF i = m THEN IF m = 1 THEN s[m] ELSE f[m - 1] \o s[m] ELSE f[i]]
  <2>6. g \in [1..n -> Seq(B)]
    <3>1. m # 1 => m - 1 \in 1..n /\ f[m - 1] \in Seq(B)
      <4>1. m # 1 => m - 1 \in 1..n
        <5> HIDE DEF Bad
        <5> QED
          BY <1>0, <2>4, <2>4a
      <4> QED
        BY <4>1
    <3>2. m # 1 => f[m - 1] \o s[m] \in Seq(B)
      BY <1>0, <2>4, <3>1
    <3> QED
      BY <1>0, <2>4, <3>2
  <2>7. Good(g, m)
    <3> SUFFICES ASSUME NEW i \in 1..m PROVE g[i] = IF i = 1 THEN s[i] ELSE g[i - 1] \o s[i]
      OBVIOUS
    <3>1. i \in 1..n /\ (i # m => i \in 1..(m - 1)) /\ (i # 1 => i - 1 \in 1..n /\ i - 1 # m)
      BY <1>0, <2>4
    <3> QED
      BY <2>5, <3>1
  <2> QED
    BY <2>2, <2>6, <2>7
<1>2. PICK f \in [1..n -> Seq(B)] : Good(f, n)
  <2>0. Bad = {}
    BY <1>1
  <2>1. n \in 0..n /\ n \notin Bad
    <3> HIDE DEF Bad
    <3> QED
      BY <1>0, <2>0
  <2> QED
    BY <2>1
<1> QED
  BY <1>2 DEF Flattens

\* s and t begin with the same n.
Alike(s, t, n) == \A i \in 1..n : s[i] = t[i]

\* Functions that flatten them agree so far.
LEMMA FlatAgree ==
  ASSUME NEW B, NEW s \in Seq(Seq(B)), NEW t \in Seq(Seq(B)), NEW n \in Nat, n > 0,
         n <= Len(s), n <= Len(t), Alike(s, t, n),
         NEW f, Flattens(f, s), NEW g, Flattens(g, t)
  PROVE  f[n] = g[n]
<1> DEFINE Bad == {m \in 1..n : f[m] # g[m]}
<1>0. Len(s) \in Nat /\ Len(t) \in Nat
  OBVIOUS
<1>1. ASSUME Bad # {} PROVE FALSE
  <2>1. PICK m \in Bad : \A k \in Bad : m <= k
    <3>1. Bad \subseteq Nat
      OBVIOUS
    <3> HIDE DEF Bad
    <3> QED
      BY <1>1, <3>1, Least
  <2>2. m \in 1..n /\ m \in 1..Len(s) /\ m \in 1..Len(t) /\ f[m] # g[m]
    BY <1>0
  <2>3. m # 1
    BY <2>2 DEF Flattens, Alike
  <2>4. m - 1 \in 1..n /\ ~(m <= m - 1)
    BY <2>2, <2>3
  <2>5. m - 1 \notin Bad
    <3> HIDE DEF Bad
    <3> QED
      BY <2>1, <2>4
  <2>6. f[m - 1] = g[m - 1]
    BY <2>4, <2>5
  <2>7. f[m] = f[m - 1] \o s[m] /\ g[m] = g[m - 1] \o t[m]
    BY <2>2, <2>3 DEF Flattens
  <2> QED
    BY <2>2, <2>6, <2>7 DEF Alike
<1>2. Bad = {}
  BY <1>1
<1>3. n \in 1..n /\ n \notin Bad
  <2> HIDE DEF Bad
  <2> QED
    BY <1>2
<1> QED
  BY <1>3

\* An event more puts its bytes behind those of the others.
LEMMA FlatAppend ==
  ASSUME NEW B, NEW s \in Seq(Seq(B)), NEW x \in Seq(B)
  PROVE  /\ Flat(s) \in Seq(B) /\ Flat(Append(s, x)) = Flat(s) \o x
<1> DEFINE t == Append(s, x)
           n == Len(s)
           f == CHOOSE h : Flattens(h, s)
           g == CHOOSE h : Flattens(h, t)
<1>1. t \in Seq(Seq(B)) /\ Len(t) = n + 1 /\ t[n + 1] = x /\ n \in Nat /\ \A i \in 1..n : s[i] = t[i]
  OBVIOUS
<1> HIDE DEF t
<1>2. Flattens(f, s) /\ Flattens(g, t)
  BY <1>1, FlatExists
<1>3. Flat(s) = (IF n = 0 THEN s ELSE f[n]) /\ Flat(t) = g[n + 1]
  BY <1>1, FlatIs
<1> HIDE DEF f, g
<1>4. n = 0 => s = <<>>
  OBVIOUS
<1>5. CASE n = 0
  <2>1. Flat(s) = <<>> /\ g[1] = x
    BY <1>1, <1>2, <1>3, <1>4, <1>5 DEF Flattens
  <2> QED
    BY <1>3, <1>5, <2>1, ConcatEmptySeq DEF t
<1>6. CASE n # 0
  <2>1. PICK h \in [1..n -> Seq(B)] : Flattens(h, s)
    BY FlatExists
  <2>2. f[n] = h[n] /\ f[n] = g[n] /\ h[n] \in Seq(B)
    <3>1. n > 0 /\ n <= n /\ n <= Len(t) /\ n \in 1..n
      BY <1>1, <1>6
    <3>2. Alike(s, s, n) /\ Alike(s, t, n) /\ n \in Nat
      BY <1>1 DEF Alike
    <3> HIDE DEF Alike
    <3>3. n <= Len(s)
      OBVIOUS
    <3> HIDE DEF n
    <3>4. f[n] = h[n]
      <4>1. Flattens(f, s) /\ Flattens(h, s) /\ Alike(s, s, n) /\ n \in Nat
        BY <1>2, <2>1, <3>2
      <4> QED
        BY <3>1, <3>3, <4>1, FlatAgree
    <3>5. f[n] = g[n]
      <4>1. t \in Seq(Seq(B)) /\ Flattens(f, s) /\ Flattens(g, t) /\ Alike(s, t, n) /\ n \in Nat
        BY <1>1, <1>2, <3>2
      <4> QED
        BY <3>1, <3>3, <4>1, FlatAgree
    <3> QED
      BY <2>1, <3>1, <3>4, <3>5
  <2>3. g[n + 1] = g[n] \o t[n + 1]
    <3>1. n + 1 \in 1..Len(t) /\ n + 1 # 1 /\ (n + 1) - 1 = n
      BY <1>1, <1>6
    <3> QED
      BY <1>2, <3>1 DEF Flattens
  <2> QED
    BY <1>1, <1>3, <1>6, <2>2, <2>3 DEF t
<1> QED
  BY <1>5, <1>6

\* No events hold no bytes.
LEMMA FlatEmpty == Flat(<<>>) = <<>>
<1>1. Len(<<>>) = 0
  OBVIOUS
<1> QED
  BY <1>1, FlatIs
\* Where an event ends no character is cut: one that begins before and would
\* end behind has something else than its continuation in between.
Clean(r, e) ==
  \A i \in 1..e : runeLen(r[i]) > 1 /\ i + runeLen(r[i]) - 1 > e =>
    (\E j \in (i + 1)..e : r[j] # "C") \/ (e < Len(r) /\ r[e + 1] # "C")

\* A character of one event is not one of the next.
LEMMA CleanKeeps ==
  ASSUME NEW B, NEW r \in Seq(B), NEW e \in Nat, e <= Len(r), Clean(r, e),
         NEW c \in DOMAIN r, NEW d \in DOMAIN r,
         d = c + runeLen(r[c]) - 1, \A i \in (c + 1)..d : r[i] = "C"
  PROVE  ~(c <= e /\ e < d)
<1> SUFFICES ASSUME c <= e, e < d PROVE FALSE
  OBVIOUS
<1>1. c \in Nat /\ d \in Nat /\ c \in 1..e
  OBVIOUS
<1>2. runeLen(r[c]) \in Nat
  BY DEF runeLen
<1>3. runeLen(r[c]) > 1
  BY <1>1, <1>2
<1>4. (\E j \in (c + 1)..e : r[j] # "C") \/ (e < Len(r) /\ r[e + 1] # "C")
  BY <1>1, <1>3 DEF Clean
<1>5. \A j \in (c + 1)..e : j \in (c + 1)..d
  BY <1>1
<1>6. e + 1 \in (c + 1)..d
  BY <1>1
<1> QED
  BY <1>4, <1>5, <1>6

\* It stays so when more is written.
LEMMA CleanGrows ==
  ASSUME NEW B, NEW r \in Seq(B), NEW data \in Seq(B), NEW e \in Nat, e <= Len(r), Clean(r, e)
  PROVE  Clean(r \o data, e)
<1>1. /\ Len(r \o data) = Len(r) + Len(data) /\ Len(r) \in Nat /\ Len(data) \in Nat
      /\ \A i \in 1..Len(r) : (r \o data)[i] = r[i]
  OBVIOUS
<1> DEFINE s == r \o data
<1> HIDE DEF s
<1>2. \A i \in 1..e : s[i] = r[i]
  BY <1>1 DEF s
<1>3. e < Len(r) => e < Len(s) /\ s[e + 1] = r[e + 1]
  BY <1>1 DEF s
<1> SUFFICES ASSUME NEW i \in 1..e, runeLen(s[i]) > 1 /\ i + runeLen(s[i]) - 1 > e
             PROVE  (\E j \in (i + 1)..e : s[j] # "C") \/ (e < Len(s) /\ s[e + 1] # "C")
  BY DEF Clean, s
<1>4. (\E j \in (i + 1)..e : r[j] # "C") \/ (e < Len(r) /\ r[e + 1] # "C")
  BY <1>2 DEF Clean
<1>5. \A j \in (i + 1)..e : j \in 1..e
  OBVIOUS
<1> QED
  BY <1>2, <1>3, <1>4, <1>5

\* completeUTF8Len cuts no character.
LEMMA CutClean ==
  ASSUME NEW B, NEW p \in Seq(B), NEW all \in Seq(B), Clean(p \o all, Len(p))
  PROVE  /\ completeUTF8Len(all) \in 0..Len(all)
         /\ Clean(p \o all, Len(p) + completeUTF8Len(all))
<1> DEFINE n == completeUTF8Len(all)
           len == Len(all)
           starts == {i \in DOMAIN all : RuneStart(all[i]) /\ i > len - 4}
           start == IF starts = {} THEN 0 ELSE Max(starts)
           r == p \o all
           e == Len(p)
<1>1. n = IF start > 0 /\ runeLen(all[start]) > 1 /\ start + runeLen(all[start]) - 1 > len
          THEN start - 1 ELSE len
  BY DEF completeUTF8Len, UTFMax
<1>2. len \in Nat /\ e \in Nat /\ Len(r) = e + len /\ DOMAIN all = 1..len
      /\ \A i \in 1..len : r[e + i] = all[i]
  OBVIOUS
<1>3. \A i \in starts : i \in 1..len /\ all[i] # "C"
  BY <1>2 DEF RuneStart
<1>4. starts # {} => start \in starts /\ \A i \in starts : i <= start
  <2> SUFFICES ASSUME starts # {} PROVE start \in starts /\ \A i \in starts : i <= start
    OBVIOUS
  <2>1. starts \in SUBSET (1..len)
    BY <1>2
  <2> HIDE DEF starts
  <2> QED
    BY <1>2, <2>1, MaxIn
<1>5. \A b : runeLen(b) \in 1..4 /\ (runeLen(b) > 1 => b # "C")
  BY DEF runeLen
<1>6. \A i \in 1..len : i > len - 4 /\ all[i] # "C" => i \in starts
  BY <1>2 DEF RuneStart
<1> HIDE DEF n, len, starts, r, e
<1>7. start \in 0..len /\ n \in 0..len
  <2>1. start \in 0..len
    <3>1. CASE starts = {}
      BY <1>2, <3>1
    <3>2. CASE starts # {}
      <4>1. start \in 1..len
        BY <1>3, <1>4, <3>2
      <4> HIDE DEF start
      <4> QED
        BY <1>2, <4>1
    <3> QED
      BY <3>1, <3>2
  <2> HIDE DEF start
  <2>2. start > 0 => start - 1 \in 0..len
    BY <1>2, <2>1
  <2> QED
    BY <1>1, <1>2, <2>1, <2>2
<1> HIDE DEF start
<1>8. ASSUME NEW i \in 1..(e + n), runeLen(r[i]) > 1, i + runeLen(r[i]) - 1 > e + n
      PROVE  (\E j \in (i + 1)..(e + n) : r[j] # "C") \/ (e + n < Len(r) /\ r[(e + n) + 1] # "C")
  <2>1. CASE i <= e
    <3>1. i \in 1..e /\ i + runeLen(r[i]) - 1 > e
      BY <1>2, <1>5, <1>7, <1>8, <2>1
    <3>2. (\E j \in (i + 1)..e : r[j] # "C") \/ (e < Len(r) /\ r[e + 1] # "C")
      BY <1>8, <3>1 DEF Clean, r, e
    <3>3. \A j \in (i + 1)..e : j \in (i + 1)..(e + n)
      BY <1>2, <1>7
    <3>4. n > 0 => e + 1 \in (i + 1)..(e + n)
      BY <1>2, <1>7, <3>1
    <3>5. n = 0 => e + n = e
      BY <1>2
    <3> QED
      BY <1>7, <3>2, <3>3, <3>4, <3>5
  <2>2. CASE i > e
    <3> DEFINE m == i - e
    <3>1. m \in 1..n /\ m \in 1..len /\ i = e + m
      BY <1>2, <1>7, <2>2
    <3> HIDE DEF m
    <3>2. r[i] = all[m] /\ all[m] # "C"
      BY <1>2, <1>5, <1>8, <3>1
    <3>3. CASE n = len
      <4>1. m > len - 4 /\ m + runeLen(all[m]) - 1 > len
        <5>1. e + m + runeLen(all[m]) - 1 > e + len
          BY <1>8, <3>1, <3>2, <3>3
        <5>2. PICK q \in 1..4 : runeLen(all[m]) = q
          BY <1>5
        <5>3. m \in Nat /\ len \in Nat /\ e \in Nat /\ e + m + q - 1 > e + len
          BY <1>2, <3>1, <5>1, <5>2
        <5>4. m > len - 4 /\ m + q - 1 > len
          BY <5>3
        <5> QED
          BY <5>2, <5>4
      <4>2. m \in starts
        BY <1>6, <3>1, <3>2, <4>1
      <4>3. start \in starts /\ m <= start /\ start \in 1..len /\ all[start] # "C"
        BY <1>3, <1>4, <4>2
      <4>4. m # start
        <5> SUFFICES ASSUME m = start PROVE FALSE
          OBVIOUS
        <5>1. start > 0 /\ runeLen(all[start]) > 1 /\ start + runeLen(all[start]) - 1 > len
          BY <1>8, <3>2, <4>1, <4>3
        <5>2. n = start - 1
          BY <1>1, <5>1
        <5> QED
          BY <3>1, <5>2
      <4>5. e + start \in (i + 1)..(e + n)
        BY <1>2, <3>1, <3>3, <4>3, <4>4
      <4> QED
        BY <1>2, <4>3, <4>5
    <3>4. CASE n # len
      <4>1. start > 0 /\ n = start - 1
        BY <1>1, <3>4
      <4>2. start \in 1..len /\ all[start] # "C"
        BY <1>3, <1>4, <1>7, <4>1 DEF start
      <4>3. (e + n) + 1 = e + start /\ e + n < Len(r)
        BY <1>2, <1>7, <4>1, <4>2
      <4> QED
        BY <1>2, <4>2, <4>3
    <3> QED
      BY <3>3, <3>4
  <2> QED
    BY <1>2, <2>1, <2>2
<1>9. Clean(r, e + n)
  BY <1>8 DEF Clean
<1> QED
  BY <1>7, <1>9 DEF n, r, e, len
\* Where event k ends in what the events hold.
EndAt(evs, k) == Len(Flat(Take(evs, k)))

\* Event ends are places of rw, and no character is cut there, but for the
\* end of all of it when the writer has closed.
EndsOK(rw, evs, closed) ==
  \A k \in DOMAIN evs :
    /\ EndAt(evs, k) \in Nat /\ EndAt(evs, k) <= Len(rw)
    /\ Clean(rw, EndAt(evs, k)) \/ (closed /\ EndAt(evs, k) = Len(rw))

\* What is written is in the events or held back.
TextOK(rw, w, evs, closed) ==
  /\ rw \in Seq(Bytes) /\ w \in Seq(Bytes) /\ evs \in Seq(Seq(Bytes))
  /\ Flat(evs) \o w = rw
  /\ EndsOK(rw, evs, closed)
  /\ IF closed THEN w = <<>> ELSE Clean(rw, Len(Flat(evs)))

\* The invariant of the writer.
TextInv == program \in Programs /\ TextOK(raw, writer, events, side = "closed")

\* An event more leaves the ends of the others.
LEMMA EndsKept ==
  ASSUME NEW B, NEW s \in Seq(Seq(B)), NEW x \in Seq(B)
  PROVE  /\ \A k \in 1..Len(s) : SubSeq(Append(s, x), 1, k) = SubSeq(s, 1, k)
         /\ SubSeq(Append(s, x), 1, Len(s) + 1) = Append(s, x)
         /\ DOMAIN Append(s, x) = 1..(Len(s) + 1) /\ DOMAIN s = 1..Len(s) /\ Len(s) \in Nat
         /\ Append(s, x) \in Seq(Seq(B))
<1> DEFINE L == Seq(B)
<1>1. s \in Seq(L) /\ x \in L
  OBVIOUS
<1> HIDE DEF L
<1>2. /\ \A k \in 1..Len(s) : SubSeq(Append(s, x), 1, k) = SubSeq(s, 1, k)
      /\ SubSeq(Append(s, x), 1, Len(s) + 1) = Append(s, x)
      /\ DOMAIN Append(s, x) = 1..(Len(s) + 1) /\ DOMAIN s = 1..Len(s) /\ Len(s) \in Nat
      /\ Append(s, x) \in Seq(L)
  BY <1>1
<1> QED
  BY <1>2 DEF L

\* Nothing is written at first.
LEMMA TextInit == TerminalInit => TextInv
<1> SUFFICES ASSUME TerminalInit PROVE TextInv
  OBVIOUS
<1> USE DEF TerminalInit
<1>1. raw = <<>> /\ writer = <<>> /\ events = <<>> /\ <<>> \in Seq(Bytes) /\ <<>> \in Seq(Seq(Bytes)) /\ Len(<<>>) = 0
  OBVIOUS
<1>2. Flat(events) = <<>> /\ Flat(events) \o writer = raw
  BY <1>1, FlatEmpty
<1>3. EndsOK(raw, events, side = "closed")
  BY <1>1 DEF EndsOK
<1>4. Clean(raw, Len(Flat(events))) /\ side # "closed"
  BY <1>1, <1>2 DEF Clean
<1> QED
  BY <1>1, <1>2, <1>3, <1>4 DEF TextInv, TextOK

\* The ends that were right stay so when more is written.
LEMMA EndsGrow ==
  ASSUME NEW rw \in Seq(Bytes), NEW data \in Seq(Bytes), NEW evs, NEW c, EndsOK(rw, evs, FALSE)
  PROVE  EndsOK(rw \o data, evs, c)
<1>1. Len(rw \o data) = Len(rw) + Len(data) /\ Len(rw) \in Nat /\ Len(data) \in Nat
  OBVIOUS
<1> SUFFICES ASSUME NEW k \in DOMAIN evs
             PROVE  /\ EndAt(evs, k) \in Nat /\ EndAt(evs, k) <= Len(rw \o data)
                    /\ Clean(rw \o data, EndAt(evs, k))
  BY DEF EndsOK
<1>2. EndAt(evs, k) \in Nat /\ EndAt(evs, k) <= Len(rw) /\ Clean(rw, EndAt(evs, k))
  BY DEF EndsOK
<1> DEFINE e == EndAt(evs, k)
<1> HIDE DEF e
<1>3. Clean(rw \o data, e)
  BY <1>2, CleanGrows DEF e
<1>4. e <= Len(rw \o data)
  BY <1>1, <1>2 DEF e
<1> QED
  BY <1>2, <1>3, <1>4 DEF e

\* What is put together from two parts, twice.
Same(p, q, r, t) == p \o q = r \o t

\* Three parts, put together in either order, and their length.
Regrouped(f, w, data, now, held) ==
  /\ (f \o now) \o held = (f \o w) \o data
  /\ Len((f \o w) \o data) = Len(f \o now) + Len(held)
  /\ (f \o w) \o data = f \o (w \o data)

\* The parts regrouped.
LEMMA Regroup ==
  ASSUME NEW B, NEW f \in Seq(B), NEW w \in Seq(B), NEW data \in Seq(B),
         NEW now \in Seq(B), NEW held \in Seq(B), Same(w, data, now, held)
  PROVE  Regrouped(f, w, data, now, held)
<1>1. (f \o now) \o held = f \o (now \o held)
  BY ConcatAssociative, SMTT(30)
<1>2. (f \o w) \o data = f \o (w \o data)
  BY ConcatAssociative, SMTT(30)
<1>3. (f \o now) \o held = (f \o w) \o data
  BY <1>1, <1>2 DEF Same
<1>4. Len((f \o now) \o held) = Len(f \o now) + Len(held)
  OBVIOUS
<1> QED
  BY <1>2, <1>3, <1>4 DEF Regrouped

\* A sequence is its first n and the rest.
LEMMA CutParts ==
  ASSUME NEW B, NEW all \in Seq(B), NEW n \in 0..Len(all)
  PROVE  /\ SubSeq(all, 1, n) \in Seq(B) /\ SubSeq(all, n + 1, Len(all)) \in Seq(B)
         /\ SubSeq(all, 1, n) \o SubSeq(all, n + 1, Len(all)) = all
         /\ Len(SubSeq(all, 1, n)) = n
<1>1. SubSeq(all, 1, Len(all)) = all
  OBVIOUS
<1>2. 1 \in 1..(Len(all) + 1) /\ n \in (1 - 1)..Len(all) /\ Len(all) \in n..Len(all)
  OBVIOUS
<1>3. SubSeq(all, 1, n) \o SubSeq(all, n + 1, Len(all)) = SubSeq(all, 1, Len(all))
  BY <1>2, ConcatAdjacentSubSeq
<1>4. SubSeq(all, 1, n) \o SubSeq(all, n + 1, Len(all)) = all
  BY <1>1, <1>3
<1>5. /\ SubSeq(all, 1, n) \in Seq(B) /\ SubSeq(all, n + 1, Len(all)) \in Seq(B)
      /\ Len(SubSeq(all, 1, n)) = n
  OBVIOUS
<1> QED
  BY <1>4, <1>5

\* An event more, of the bytes up to a place where no character is cut, or up
\* to the end of all that is written.
LEMMA EmitText ==
  ASSUME NEW rw \in Seq(Bytes), NEW w \in Seq(Bytes), NEW evs \in Seq(Seq(Bytes)),
         TextOK(rw, w, evs, FALSE),
         NEW data \in Seq(Bytes), NEW now \in Seq(Bytes), NEW held \in Seq(Bytes),
         Same(w, data, now, held), NEW c \in BOOLEAN,
         IF c THEN held = <<>> ELSE Clean(rw \o data, Len(Flat(evs) \o now))
  PROVE  TextOK(rw \o data, held, IF now = <<>> THEN evs ELSE Append(evs, now), c)
<1> DEFINE f == Flat(evs)
           r == rw \o data
           more == Append(evs, now)
<1>1. /\ f \o w = rw /\ f \in Seq(Bytes) /\ f \o now \in Seq(Bytes) /\ EndsOK(rw, evs, FALSE)
      /\ r \in Seq(Bytes) /\ Len(r) = Len(rw) + Len(data) /\ Len(rw) \in Nat /\ Len(data) \in Nat
  <2>1. f \in Seq(Bytes)
    BY FlatAppend
  <2> HIDE DEF f
  <2>2. f \o now \in Seq(Bytes)
    BY <2>1
  <2>3. f \o w = rw /\ EndsOK(rw, evs, FALSE)
    BY DEF TextOK, f
  <2>4. r \in Seq(Bytes) /\ Len(r) = Len(rw) + Len(data) /\ Len(rw) \in Nat /\ Len(data) \in Nat
    OBVIOUS
  <2> QED
    BY <2>1, <2>2, <2>3, <2>4
<1>2. EndsOK(r, evs, c)
  BY <1>1, EndsGrow
<1> HIDE DEF f
<1>3. (f \o now) \o held = r /\ Len(r) = Len(f \o now) + Len(held)
  <2>1. f \o w = rw /\ f \in Seq(Bytes)
    BY <1>1
  <2> HIDE DEF r
  <2>2. Regrouped(f, w, data, now, held)
    BY <2>1, Regroup
  <2> QED
    BY <2>1, <2>2 DEF r, Regrouped
<1> HIDE DEF r
<1>4. Len(f \o now) \in Nat /\ Len(f \o now) <= Len(r) /\ (held = <<>> => Len(f \o now) = Len(r))
  <2> DEFINE g == f \o now
  <2>1. Len(r) = Len(g) + Len(held) /\ Len(held) \in Nat /\ g \in Seq(Bytes)
    BY <1>1, <1>3
  <2> HIDE DEF g
  <2>2. Len(g) \in Nat /\ (held = <<>> => Len(held) = 0)
    BY <2>1
  <2>3. Len(g) \in Nat /\ Len(g) <= Len(r) /\ (held = <<>> => Len(g) = Len(r))
    BY <2>1, <2>2
  <2> QED
    BY <2>3 DEF g
<1>5. ASSUME now = <<>> PROVE TextOK(r, held, evs, c)
  <2>1. f \o now = f
    BY <1>1, <1>5, ConcatEmptySeq
  <2> QED
    BY <1>1, <1>2, <1>3, <2>1 DEF TextOK, f, r
<1>6. TextOK(r, held, more, c)
  <2> DEFINE n == Len(evs)
  <2>1. /\ DOMAIN more = 1..(n + 1) /\ DOMAIN evs = 1..n /\ n \in Nat
        /\ \A k \in 1..n : Take(more, k) = Take(evs, k)
        /\ Take(more, n + 1) = more
        /\ more \in Seq(Seq(Bytes))
    BY EndsKept DEF Take
  <2>2. Flat(more) = f \o now
    BY FlatAppend DEF f
  <2> HIDE DEF n, more
  <2>3. (\A k \in 1..n : EndAt(more, k) = EndAt(evs, k)) /\ EndAt(more, n + 1) = Len(f \o now)
    BY <2>1, <2>2 DEF EndAt
  <2>4. EndsOK(r, more, c)
    <3> SUFFICES ASSUME NEW k \in 1..(n + 1)
                 PROVE  /\ EndAt(more, k) \in Nat /\ EndAt(more, k) <= Len(r)
                        /\ Clean(r, EndAt(more, k)) \/ (c /\ EndAt(more, k) = Len(r))
      BY <2>1 DEF EndsOK
    <3>1. CASE k \in 1..n
      <4>1. EndAt(more, k) = EndAt(evs, k) /\ k \in DOMAIN evs
        BY <2>1, <2>3, <3>1
      <4> QED
        BY <1>2, <4>1 DEF EndsOK
    <3>2. CASE k = n + 1
      <4>1. EndAt(more, k) = Len(f \o now)
        BY <2>3, <3>2
      <4>2. c \/ Clean(r, Len(f \o now))
        BY DEF f, r
      <4> QED
        BY <1>4, <4>1, <4>2
    <3> QED
      BY <2>1, <3>1, <3>2
  <2>5. IF c THEN held = <<>> ELSE Clean(r, Len(Flat(more)))
    BY <2>2 DEF f, r
  <2> QED
    BY <1>1, <1>3, <2>1, <2>2, <2>4, <2>5 DEF TextOK
<1> QED
  BY <1>5, <1>6 DEF r, more

\* WriteOutput writes an event of the whole characters among what it held back
\* and what it was given.
LEMMA WriteText ==
  ASSUME TextInv, WriteOutput
  PROVE  TextInv'
<1>1. side = "output" /\ side' = "output" /\ program' = program
  BY DEF WriteOutput
<1>2a. PICK size \in 1..(program.max - Len(raw)) : \E data \in [1..size -> program.bytes] :
        /\ raw' = raw \o data
        /\ writer' = Drop(writer \o data, completeUTF8Len(writer \o data))
        /\ Emit(Take(writer \o data, completeUTF8Len(writer \o data)))
  BY DEF WriteOutput
<1>2. PICK data \in [1..size -> program.bytes] :
        /\ raw' = raw \o data
        /\ writer' = Drop(writer \o data, completeUTF8Len(writer \o data))
        /\ Emit(Take(writer \o data, completeUTF8Len(writer \o data)))
  BY <1>2a
<1>3. program \in Programs /\ TextOK(raw, writer, events, FALSE)
      /\ raw \in Seq(Bytes) /\ writer \in Seq(Bytes) /\ events \in Seq(Seq(Bytes))
      /\ Flat(events) \o writer = raw /\ Clean(raw, Len(Flat(events)))
  BY <1>1 DEF TextInv, TextOK
<1>4. data \in Seq(Bytes)
  <2>1. program.bytes \subseteq Bytes
    BY <1>3 DEF Bytes
  <2>2. size \in Nat
    OBVIOUS
  <2> QED
    BY <2>1, <2>2
<1> DEFINE all == writer \o data
           n == completeUTF8Len(all)
           now == Take(all, n)
           held == Drop(all, n)
           f == Flat(events)
<1>5. all \in Seq(Bytes) /\ f \in Seq(Bytes)
  BY <1>3, <1>4, FlatAppend
<1>6. f \o all = raw \o data
  <2> HIDE DEF f
  <2>1. f \o writer = raw /\ writer \in Seq(Bytes) /\ data \in Seq(Bytes) /\ f \in Seq(Bytes)
    BY <1>3, <1>4, <1>5 DEF f
  <2>2. Same(writer, data, writer, data)
    BY DEF Same
  <2>3. Regrouped(f, writer, data, writer, data)
    BY <2>1, <2>2, Regroup
  <2> QED
    BY <2>1, <2>3 DEF Regrouped
<1>7. n \in 0..Len(all) /\ Clean(raw \o data, Len(f) + n)
  <2>1. Clean(raw \o data, Len(f))
    <3>1. Len(f) \in Nat /\ Len(f) <= Len(raw)
      BY <1>3, <1>5
    <3> QED
      BY <1>3, <1>4, <3>1, CleanGrows
  <2> HIDE DEF f, all
  <2> QED
    BY <1>5, <1>6, <2>1, CutClean
<1> HIDE DEF n, all, f
<1>8. now \in Seq(Bytes) /\ held \in Seq(Bytes) /\ now \o held = all /\ Len(now) = n
  <2>1. now = SubSeq(all, 1, n) /\ held = SubSeq(all, n + 1, Len(all))
    BY DEF Take, Drop
  <2> HIDE DEF now, held
  <2>2. all \in Seq(Bytes) /\ n \in 0..Len(all)
    BY <1>5, <1>7
  <2>3. /\ SubSeq(all, 1, n) \in Seq(Bytes) /\ SubSeq(all, n + 1, Len(all)) \in Seq(Bytes)
        /\ SubSeq(all, 1, n) \o SubSeq(all, n + 1, Len(all)) = all
        /\ Len(SubSeq(all, 1, n)) = n
    BY <2>2, CutParts
  <2> QED
    BY <2>1, <2>3
<1> HIDE DEF now, held
<1>9. Len(f \o now) = Len(f) + n
  <2>1. f \in Seq(Bytes) /\ now \in Seq(Bytes)
    BY <1>5, <1>8
  <2>2. Len(f \o now) = Len(f) + Len(now)
    BY <2>1
  <2> QED
    BY <1>8, <2>2
<1>10. TextOK(raw \o data, held, IF now = <<>> THEN events ELSE Append(events, now), FALSE)
  <2>1. Same(writer, data, now, held)
    BY <1>8 DEF all, Same
  <2>2. Clean(raw \o data, Len(Flat(events) \o now))
    BY <1>7, <1>9 DEF f
  <2> HIDE DEF now, held
  <2> QED
    BY <1>3, <1>4, <1>8, <2>1, <2>2, EmitText
<1>11. raw' = raw \o data /\ writer' = held /\ events' = IF now = <<>> THEN events ELSE Append(events, now)
  BY <1>2 DEF Emit, n, all, now, held
<1> QED
  BY <1>1, <1>3, <1>10, <1>11 DEF TextInv

\* Close writes out what is held back.
LEMMA CloseText ==
  ASSUME TextInv, Close
  PROVE  TextInv'
<1>1. side = "output" /\ side' = "closed" /\ program' = program /\ raw' = raw /\ writer' = <<>>
      /\ events' = IF writer = <<>> THEN events ELSE Append(events, writer)
  BY DEF Close, Emit
<1>2. program \in Programs /\ TextOK(raw, writer, events, FALSE)
      /\ raw \in Seq(Bytes) /\ writer \in Seq(Bytes) /\ events \in Seq(Seq(Bytes))
  BY <1>1 DEF TextInv, TextOK
<1>3. Same(writer, <<>>, writer, <<>>) /\ <<>> \in Seq(Bytes)
  BY DEF Same
<1>4. TextOK(raw \o <<>>, <<>>, IF writer = <<>> THEN events ELSE Append(events, writer), TRUE)
  BY <1>2, <1>3, EmitText
<1>5. raw \o <<>> = raw
  BY <1>2, ConcatEmptySeq
<1> QED
  BY <1>1, <1>2, <1>4, <1>5 DEF TextInv

\* The player's input touches none of it.
LEMMA TextStep ==
  ASSUME TextInv, [TerminalNext]_terminalVars
  PROVE  TextInv'
<1>1. CASE WriteOutput
  BY <1>1, WriteText
<1>2. CASE Close
  BY <1>2, CloseText
<1>3. CASE Send \/ ReadByte \/ UNCHANGED terminalVars
  <2>1. program' = program /\ raw' = raw /\ writer' = writer /\ events' = events /\ side' = side
    BY <1>3 DEF Send, ReadByte, terminalVars
  <2> QED
    BY <2>1 DEF TextInv
<1> QED
  BY <1>1, <1>2, <1>3 DEF TerminalNext

\* The property follows: a character that begins in an event and ends behind it
\* would have something else than its continuation in between.
LEMMA TextKeeps == TextInv => RecordingKeepsCharacters
<1> SUFFICES ASSUME TextInv PROVE RecordingKeepsCharacters
  OBVIOUS
<1>1. /\ raw \in Seq(Bytes) /\ Flat(events) \o writer = raw
      /\ EndsOK(raw, events, side = "closed") /\ (side = "closed" => writer = <<>>)
  BY DEF TextInv, TextOK
<1>2. ASSUME NEW c \in Characters, NEW k \in DOMAIN events
      PROVE  ~(c[1] <= EndOf(k) /\ EndOf(k) < c[2])
  <2>1. c[1] \in DOMAIN raw /\ c[2] \in DOMAIN raw /\ c[2] = c[1] + runeLen(raw[c[1]]) - 1
        /\ \A i \in (c[1] + 1)..c[2] : raw[i] = "C"
    BY DEF Characters
  <2> DEFINE e == EndAt(events, k)
  <2>2. e \in Nat /\ e <= Len(raw) /\ (Clean(raw, e) \/ e = Len(raw)) /\ EndOf(k) = e
    BY <1>1 DEF EndsOK, EndAt, EndOf, Flat
  <2> HIDE DEF e
  <2>3. CASE Clean(raw, e)
    BY <1>1, <2>1, <2>2, <2>3, CleanKeeps
  <2>4. CASE e = Len(raw)
    BY <1>1, <2>1, <2>2, <2>4
  <2> QED
    BY <2>2, <2>3, <2>4
<1> QED
  BY <1>1, <1>2 DEF RecordingKeepsCharacters, Flat

\* cast.Writer keeps every byte, in order, and splits no character between two
\* events, for every program and however the reads of the pseudo-terminal cut
\* what it writes.
THEOREM WriterKeepsText == TerminalSpec => []RecordingKeepsCharacters
<1>1. TextInv /\ [TerminalNext]_terminalVars => TextInv'
  BY TextStep
<1> QED
  BY <1>1, TextInit, TextKeeps, PTL DEF TerminalSpec
-----------------------------------------------------------------------------
(* The other direction: what the player decodes of the keyboard (inputParser),*)
(* one item behind the other, byte by byte.                                   *)

\* What the parser may emit.
KeyEvents == [kind : Kinds, b : STRING]

\* Where the parser stands after n of the bytes of k, a sequence that it knows.
Within(k, n, p) ==
  /\ DOMAIN p = {"state", "buf"}
  /\ n = 0 => p.state = "ground"
  /\ n > 0 => k[1] = "ESC"
  /\ n = 1 => p.state = "esc"
  /\ n > 1 /\ k[2] = "[" => p.state = "CSI" /\ p.buf = SubSeq(k, 3, n)
  /\ n > 1 /\ k[2] = "O" => p.state = "SS3"
  /\ n > 1 /\ k[2] = "]" => p.state = IF n > 2 /\ k[n] = "ESC" THEN "OSCesc" ELSE "OSC"

\* An item k that arrives with an Esc open in front of it (o) or not: up to where
\* the parser reads a sequence, from where it closes with ESC \, and what it is
\* read for.
HeadOf(o, k) == IF o THEN 1 ELSE Keys[k].head
LastOf(o, k) == IF ~o /\ Keys[k].head = Len(k) THEN Len(k) ELSE Len(k) - STLen(k)
Meant(o, k) == IF ~o /\ Keys[k].head = Len(k) THEN Keys[k].means ELSE <<>>
Share(o, k) == IF o THEN AfterEsc(k) ELSE Parsed(k)

\* What the parser has made of n bytes of it.
Behind(o, k, n) == Meant(o, k) \o Typing(SubSeq(k, HeadOf(o, k) + 1, n))
Leaves(o, k) == IF ~o /\ k = Esc THEN "esc" ELSE "ground"
Progress(o, k, n, p, made) ==
  /\ DOMAIN p = {"state", "buf"}
  /\ n < HeadOf(o, k) =>
       made = <<>> /\ IF o THEN p.state = "esc" ELSE Within(SubSeq(k, 1, HeadOf(o, k)), n, p)
  /\ HeadOf(o, k) <= n /\ n <= LastOf(o, k) => p.state = Leaves(o, k) /\ made = Behind(o, k, n)
  /\ n > LastOf(o, k) =>
       /\ p.state = IF n < Len(k) THEN "esc" ELSE "ground"
       /\ made = Behind(o, k, LastOf(o, k))

\* The items before the one that is coming have been read for their share of the
\* bytes, and the one that is coming as far as it has come.
KeyInv ==
  /\ sent \in Seq(DOMAIN Keys)
  /\ ~Merged(sent) =>
       /\ coming = <<>> =>
            /\ DOMAIN parser = {"state", "buf"}
            /\ parser.state = IF EscOpen(sent, Len(sent)) THEN "esc" ELSE "ground"
            /\ got = Flat(Account(sent))
       /\ coming # <<>> =>
            \E before \in Seq(DOMAIN Keys), k \in DOMAIN Keys : \E n \in 0..(Len(k) - 1), made \in Seq(KeyEvents) :
              /\ sent = Append(before, k) /\ coming = SubSeq(k, n + 1, Len(k))
              /\ Progress(EscOpen(before, Len(before)), k, n, parser, made)
              /\ got = Flat(Account(before)) \o made

\* One key for each byte typed.
LEMMA TypingKeys ==
  ASSUME NEW s \in Seq(STRING)
  PROVE  Typing(s) \in Seq(KeyEvents) /\ \A x \in STRING : Ev("byte", x) \in KeyEvents
<1>1. DOMAIN s = 1..Len(s) /\ Len(s) \in Nat /\ \A i \in 1..Len(s) : s[i] \in STRING
  OBVIOUS
<1>2. \A x \in STRING : Ev("byte", x) \in KeyEvents
  <2>1. "byte" \in Kinds
    BY DEF Kinds
  <2> QED
    BY <2>1 DEF Ev, KeyEvents
<1>3. Typing(s) = [i \in 1..Len(s) |-> Ev("byte", s[i])]
  BY <1>1 DEF Typing
<1>4. Typing(s) \in [1..Len(s) -> KeyEvents]
  BY <1>1, <1>2, <1>3
<1>5. \A f : f \in [1..Len(s) -> KeyEvents] => f \in Seq(KeyEvents)
  BY <1>1, IsASeq
<1> QED
  BY <1>2, <1>4, <1>5

\* The forms of an item, one by one.
LEMMA KeyForm ==
  ASSUME NEW k \in DOMAIN Keys, NEW o \in BOOLEAN
  PROVE  /\ k \in Seq(STRING) /\ Len(k) \in Nat /\ Len(k) > 0
         /\ Keys[k].means \in Seq(KeyEvents)
         /\ HeadOf(o, k) \in 1..Len(k) /\ LastOf(o, k) \in HeadOf(o, k)..Len(k)
         /\ LastOf(o, k) # Len(k) =>
              LastOf(o, k) = Len(k) - 2 /\ k[Len(k) - 1] = "ESC" /\ k[Len(k)] = "\\"
         /\ \A i \in (HeadOf(o, k) + 1)..LastOf(o, k) : k[i] # "ESC"
         /\ ~o /\ k # Esc => Alone(SubSeq(k, 1, HeadOf(o, k)), Meant(o, k))
         /\ k = Esc => HeadOf(o, k) = 1 /\ Len(k) = 1 /\ LastOf(o, k) = 1 /\ Meant(o, k) = <<>>
         /\ Share(o, k) = Behind(o, k, LastOf(o, k))
         /\ Meant(o, k) \in Seq(KeyEvents)
<1> DEFINE h == Keys[k].head
           m == Keys[k].means
           len == Len(k)
           st == STLen(k)
<1>1. k \in Seq(STRING) /\ m \in Seq(KeyEvents) /\ h \in Nat /\ InOneGo(k, m, h)
  BY KeysAssumption DEF KeyEvents
<1>2. st \in {0, 2} /\ (st = 2 => len > 3 /\ k[len - 1] = "ESC")
  BY DEF STLen
<1>3. len \in Nat /\ len > 0 /\ h \in 1..len
  <2>1. CASE k = Esc /\ h = 1
    BY <2>1 DEF Esc
  <2>2. CASE h = len /\ Alone(k, m)
    BY <1>1, <2>2 DEF Alone
  <2>3. CASE h \in 2..(len - 1)
    BY <1>1, <2>3
  <2> QED
    BY <1>1, <2>1, <2>2, <2>3 DEF InOneGo
<1>4. /\ \A i \in 2..(len - st) : k[i] # "ESC"
      /\ st = 2 => k[len] = "\\"
  BY <1>1 DEF InOneGo
<1>5. k = Esc => len = 1 /\ h = 1 /\ m = <<>> /\ st = 0
  <2> SUFFICES ASSUME k = Esc PROVE len = 1 /\ h = 1 /\ m = <<>> /\ st = 0
    OBVIOUS
  <2>1. len = 1 /\ k[1] = "ESC"
    BY DEF Esc
  <2>2. ~Alone(k, m)
    BY <2>1 DEF Alone
  <2> HIDE DEF h, m
  <2>3. h = 1 /\ m = <<>>
    BY <1>1, <2>1, <2>2 DEF InOneGo
  <2> QED
    BY <1>2, <2>1, <2>3
<1>6. h # len => h <= len - st /\ m = <<>> /\ Alone(SubSeq(k, 1, h), <<>>)
  <2> SUFFICES ASSUME h # len PROVE h <= len - st /\ m = <<>> /\ Alone(SubSeq(k, 1, h), <<>>)
    OBVIOUS
  <2>1. ~(k = Esc /\ h = 1)
    BY <1>5
  <2> HIDE DEF h, m, len
  <2> QED
    BY <1>1, <2>1 DEF InOneGo, Take, len
<1>7. h = len /\ k # Esc => Alone(k, m)
  BY <1>1, <1>3 DEF InOneGo
<1>8. SubSeq(k, 1, len) = k /\ SubSeq(k, len + 1, len) = <<>>
  BY <1>1
<1> HIDE DEF h, m, len, st
<1> DEFINE hh == HeadOf(o, k)
           u == LastOf(o, k)
<1>9. hh = (IF o THEN 1 ELSE h) /\ u = (IF ~o /\ h = len THEN len ELSE len - st)
  BY DEF HeadOf, LastOf, h, len, st
<1>10. Meant(o, k) = IF ~o /\ h = len THEN m ELSE <<>>
  BY DEF Meant, h, len, m
<1> HIDE DEF hh, u
<1>11. hh \in 1..len /\ u \in hh..len
  BY <1>2, <1>3, <1>6, <1>9
<1>12. u # len => u = len - 2 /\ k[len - 1] = "ESC" /\ k[len] = "\\"
  BY <1>2, <1>3, <1>4, <1>9
<1>13. \A i \in (hh + 1)..u : k[i] # "ESC"
  BY <1>2, <1>3, <1>4, <1>9
<1>14. ~o /\ k # Esc => Alone(SubSeq(k, 1, hh), Meant(o, k))
  <2>1. CASE h = len
    BY <1>7, <1>8, <1>9, <1>10, <2>1
  <2>2. CASE h # len
    BY <1>6, <1>9, <1>10, <2>2
  <2> QED
    BY <2>1, <2>2
<1>15. k = Esc => hh = 1 /\ len = 1 /\ u = 1 /\ Meant(o, k) = <<>>
  BY <1>5, <1>9, <1>10
<1>16. Share(o, k) = Behind(o, k, u)
  <2>a. \A s : s \in Seq(KeyEvents) => <<>> \o s = s /\ s \o <<>> = s
    BY ConcatEmptySeq
  <2>b. ASSUME NEW a \in Nat, NEW b \in Nat, a > 0, b <= len PROVE Typing(SubSeq(k, a, b)) \in Seq(KeyEvents)
    <3>1. SubSeq(k, a, b) \in Seq(STRING)
      BY <1>1, <2>b DEF len
    <3> DEFINE s == SubSeq(k, a, b)
    <3> HIDE DEF s
    <3>2. s \in Seq(STRING)
      BY <3>1 DEF s
    <3>3. Typing(s) \in Seq(KeyEvents)
      BY <3>2, TypingKeys
    <3> QED
      BY <3>3 DEF s
  <2>1. CASE o
    <3>1. Share(o, k) = Typing(SubSeq(k, 2, len - st)) /\ len - st \in Nat /\ len - st <= len
      BY <1>2, <1>3, <2>1 DEF Share, AfterEsc, len, st
    <3>2. Behind(o, k, u) = <<>> \o Typing(SubSeq(k, 2, len - st))
      BY <1>9, <1>10, <2>1 DEF Behind, hh
    <3> QED
      BY <2>a, <2>b, <3>1, <3>2
  <2>2. CASE ~o /\ h = len
    <3>1. Share(o, k) = m
      BY <2>2 DEF Share, Parsed, h, len, m
    <3>2. Behind(o, k, u) = m \o Typing(<<>>)
      BY <1>8, <1>9, <1>10, <2>2 DEF Behind, hh
    <3>3. Typing(<<>>) = <<>>
      BY DEF Typing
    <3> QED
      BY <1>1, <2>a, <3>1, <3>2, <3>3
  <2>3. CASE ~o /\ h # len
    <3>1. Share(o, k) = Typing(SubSeq(k, h + 1, len - st)) /\ len - st \in Nat /\ len - st <= len
      BY <1>2, <1>3, <2>3 DEF Share, Parsed, h, len, st
    <3>2. Behind(o, k, u) = <<>> \o Typing(SubSeq(k, h + 1, len - st))
      BY <1>9, <1>10, <2>3 DEF Behind, hh
    <3> QED
      BY <1>3, <2>a, <2>b, <3>1, <3>2
  <2> QED
    BY <2>1, <2>2, <2>3
<1>17. Meant(o, k) \in Seq(KeyEvents)
  BY <1>1, <1>10
<1>18. m = Keys[k].means /\ len = Len(k) /\ hh = HeadOf(o, k) /\ u = LastOf(o, k)
  BY DEF m, len, hh, u
<1> QED
  BY <1>1, <1>3, <1>11, <1>12, <1>13, <1>14, <1>15, <1>16, <1>17, <1>18

\* One byte of a sequence that the parser knows: in the middle nothing comes of it,
\* at the end its meaning.
ByteFed(k, m, n, p) ==
  LET r == FeedKey(p, k[n + 1])
  IN  /\ n + 1 < Len(k) => Within(k, n + 1, r[1]) /\ r[2] = <<>>
      /\ n + 1 = Len(k) => DOMAIN r[1] = {"state", "buf"} /\ r[1].state = "ground" /\ r[2] = m
LEMMA FeedSeq ==
  ASSUME NEW k \in Seq(STRING), NEW m \in Seq(KeyEvents), Alone(k, m),
         NEW n \in 0..(Len(k) - 1), NEW p, Within(k, n, p)
  PROVE  ByteFed(k, m, n, p)
<1> DEFINE b == k[n + 1]
           r == FeedKey(p, b)
           Goal == /\ n + 1 < Len(k) => Within(k, n + 1, r[1]) /\ r[2] = <<>>
                   /\ n + 1 = Len(k) => DOMAIN r[1] = {"state", "buf"} /\ r[1].state = "ground" /\ r[2] = m
<1>1. k \in Seq(STRING) /\ Len(k) \in Nat /\ Alone(k, m) /\ n \in Nat /\ n < Len(k)
  OBVIOUS
<1> SUFFICES Goal
  BY DEF ByteFed
<1>2. CASE n = 0
  <2>1. p.state = "ground" /\ DOMAIN p = {"state", "buf"} /\ b = k[1]
    BY <1>2 DEF Within
  <2>2. CASE b # "ESC"
    <3>1. Len(k) = 1 /\ m = <<Ev("byte", b)>>
      BY <1>1, <2>1, <2>2 DEF Alone
    <3>2. r = <<p, <<Ev("byte", b)>>>>
      BY <2>1, <2>2, Zenon DEF FeedKey
    <3> HIDE DEF r, b
    <3> QED
      BY <1>2, <2>1, <3>1, <3>2
  <2>3. CASE b = "ESC"
    <3>1. Len(k) > 1
      BY <1>1, <2>1, <2>3 DEF Alone
    <3>2. r = <<To(p, "esc"), <<>>>>
      BY <2>1, <2>3, Zenon DEF FeedKey
    <3>3. Within(k, 1, To(p, "esc"))
      BY <2>1, <2>3 DEF Within, To
    <3> HIDE DEF r, b
    <3>4. r[1] = To(p, "esc") /\ r[2] = <<>> /\ n + 1 = 1 /\ 1 < Len(k) /\ n + 1 # Len(k)
      BY <1>1, <1>2, <3>1, <3>2
    <3> QED
      BY <3>3, <3>4, Zenon
  <2> QED
    BY <2>2, <2>3
<1>3. CASE n = 1
  <2>1. p.state = "esc" /\ DOMAIN p = {"state", "buf"} /\ b = k[2] /\ k[1] = "ESC" /\ p.state # "ground" /\ Len(k) > 1
    BY <1>1, <1>3 DEF Within
  <2>a. \A st : DOMAIN To(p, st) = {"state", "buf"} /\ To(p, st).state = st
    BY <2>1 DEF To
  <2>2. CASE b = "["
    <3>1. r = <<OpensCSI(p), <<>>>>
      BY <2>1, <2>2, Zenon DEF FeedKey
    <3>2. Len(k) > 2
      BY <1>1, <2>1, <2>2 DEF Alone
    <3>3. SubSeq(k, 3, 2) = <<>>
      BY <1>1
    <3>4. Within(k, n + 1, OpensCSI(p))
      BY <1>3, <2>1, <2>2, <3>3 DEF Within, OpensCSI
    <3> HIDE DEF r, b
    <3>5. r[1] = OpensCSI(p) /\ r[2] = <<>> /\ n + 1 < Len(k)
      BY <1>3, <3>1, <3>2
    <3> QED
      BY <1>1, <3>4, <3>5
  <2>3. CASE b = "O"
    <3>1. r = <<To(p, "SS3"), <<>>>>
      BY <2>1, <2>3, Zenon DEF FeedKey
    <3>2. Len(k) > 2
      <4>1. k[1] = "ESC" /\ k[2] = "O" /\ k[2] # "[" /\ k[2] # "]"
        BY <2>1, <2>3
      <4>2. Len(k) = 3
        BY <1>1, <4>1, Zenon DEF Alone
      <4> QED
        BY <4>2
    <3>4. Within(k, n + 1, To(p, "SS3"))
      BY <1>3, <2>1, <2>3, <2>a DEF Within
    <3> HIDE DEF r, b
    <3>5. r[1] = To(p, "SS3") /\ r[2] = <<>> /\ n + 1 < Len(k)
      BY <1>3, <3>1, <3>2
    <3> QED
      BY <1>1, <3>4, <3>5
  <2>4. CASE b = "]"
    <3>1. r = <<To(p, "OSC"), <<>>>>
      BY <2>1, <2>4, Zenon DEF FeedKey
    <3>2. Len(k) > 2
      BY <1>1, <2>1, <2>4 DEF Alone
    <3>4. Within(k, n + 1, To(p, "OSC"))
      BY <1>3, <2>1, <2>4, <2>a DEF Within
    <3> HIDE DEF r, b
    <3>5. r[1] = To(p, "OSC") /\ r[2] = <<>> /\ n + 1 < Len(k)
      BY <1>3, <3>1, <3>2
    <3> QED
      BY <1>1, <3>4, <3>5
  <2>5. CASE b \notin {"[", "O", "]"}
    <3>1. r = <<To(p, "ground"), <<>>>>
      BY <2>1, <2>5, Zenon DEF FeedKey
    <3>2. Len(k) = 2 /\ m = <<>>
      BY <1>1, <2>1, <2>5 DEF Alone
    <3> HIDE DEF r, b
    <3> QED
      BY <1>3, <2>a, <3>1, <3>2
  <2> QED
    BY <2>2, <2>3, <2>4, <2>5
<1>4. CASE n > 1
  <2>0. k[1] = "ESC" /\ Len(k) > 2 /\ n + 1 >= 3 /\ DOMAIN p = {"state", "buf"} /\ n \in 2..(Len(k) - 1) /\ n + 1 \in 3..Len(k)
    BY <1>1, <1>4 DEF Within
  <2>a. \A st : DOMAIN To(p, st) = {"state", "buf"} /\ To(p, st).state = st
    BY <2>0 DEF To
  <2>1. CASE k[2] = "["
    <3>1. p.state = "CSI" /\ p.buf = SubSeq(k, 3, n) /\ p.state # "ground" /\ p.state # "esc"
      BY <1>4, <2>1 DEF Within
    <3>2. m = dispatchCSI(SubSeq(k, 3, Len(k) - 1), k[Len(k)]) /\ \A i \in 3..Len(k) : k[i] \in FinalBytes <=> i = Len(k)
      BY <1>1, <2>0, <2>1 DEF Alone
    <3>3. CASE n + 1 = Len(k)
      <4>1. b \in FinalBytes /\ n = Len(k) - 1
        BY <2>0, <3>2, <3>3
      <4>2. r = <<To(p, "ground"), dispatchCSI(p.buf, b)>>
        BY <3>1, <4>1, Zenon DEF FeedKey
      <4>3. dispatchCSI(p.buf, b) = m
        BY <3>1, <3>2, <3>3, <4>1
      <4> HIDE DEF r, b
      <4> QED
        BY <2>a, <3>3, <4>2, <4>3
    <3>4. CASE n + 1 # Len(k)
      <4>1. b \notin FinalBytes
        BY <2>0, <3>2, <3>4
      <4>2. r = <<[p EXCEPT !.buf = Append(@, b)], <<>>>>
        BY <3>1, <4>1, Zenon DEF FeedKey
      <4>3. Append(SubSeq(k, 3, n), k[n + 1]) = SubSeq(k, 3, n + 1)
        BY <1>1, <2>0
      <4>4. Within(k, n + 1, [p EXCEPT !.buf = Append(@, b)])
        <5> DEFINE q == [p EXCEPT !.buf = Append(@, b)]
        <5>1. DOMAIN q = {"state", "buf"} /\ q.state = "CSI" /\ q.buf = SubSeq(k, 3, n + 1)
          BY <2>0, <3>1, <4>3
        <5> HIDE DEF q
        <5>2. n + 1 > 1 /\ n + 1 # 0 /\ n + 1 # 1
          BY <1>4, <2>0
        <5>3. Within(k, n + 1, q)
          BY <2>0, <2>1, <5>1, <5>2 DEF Within
        <5> QED
          BY <5>3 DEF q
      <4> HIDE DEF r
      <4> QED
        BY <3>4, <4>2, <4>4
    <3> QED
      BY <3>3, <3>4
  <2>2. CASE k[2] = "O"
    <3>1. p.state = "SS3" /\ p.state # "ground" /\ p.state # "esc" /\ p.state # "CSI"
      BY <1>4, <2>2 DEF Within
    <3>2. Len(k) = 3 /\ n = 2 /\ m = IF k[3] \in Arrows THEN <<Ev("arrow", k[3])>> ELSE <<>>
      <4>1. k[1] = "ESC" /\ k[2] = "O" /\ k[2] # "[" /\ k[2] # "]"
        BY <2>0, <2>2
      <4>2. Len(k) = 3 /\ m = IF k[3] \in Arrows THEN <<Ev("arrow", k[3])>> ELSE <<>>
        BY <1>1, <4>1, Zenon DEF Alone
      <4> QED
        BY <2>0, <4>2
    <3>3. r = <<To(p, "ground"), IF b \in Arrows THEN <<Ev("arrow", b)>> ELSE <<>>>>
      BY <3>1, Zenon DEF FeedKey
    <3>4. b = k[3]
      BY <3>2
    <3> HIDE DEF r, b
    <3> QED
      BY <2>a, <3>2, <3>3, <3>4
  <2>3. CASE k[2] = "]"
    <3>1. PICK end \in 3..Len(k) :
            /\ \A i \in 3..(end - 1) : k[i] \notin {"BEL", "ESC"}
            /\ \/ end = Len(k) /\ k[end] = "BEL"
               \/ end = Len(k) - 1 /\ k[end] = "ESC" /\ k[Len(k)] = "\\"
      BY <1>1, <2>0, <2>3 DEF Alone
    <3>2. m = <<>>
      BY <1>1, <2>0, <2>3 DEF Alone
    <3>3. p.state = IF n > 2 /\ k[n] = "ESC" THEN "OSCesc" ELSE "OSC"
      BY <1>4, <2>3 DEF Within
    <3>4. CASE n + 1 <= end
      <4>1. p.state = "OSC" /\ p.state # "ground" /\ p.state # "esc" /\ p.state # "CSI" /\ p.state # "SS3"
        <5>1. n > 2 => n \in 3..(end - 1)
          BY <1>1, <3>4
        <5> QED
          BY <3>1, <3>3, <5>1
      <4>2. r = <<CASE b = "BEL" -> To(p, "ground") [] b = "ESC" -> To(p, "OSCesc") [] OTHER -> p, <<>>>>
        BY <4>1, Zenon DEF FeedKey
      <4>3. CASE n + 1 < end
        <5>1. b # "BEL" /\ b # "ESC" /\ n + 1 < Len(k)
          <6>1. n + 1 \in 3..(end - 1)
            BY <2>0, <4>3
          <6> QED
            BY <3>1, <6>1
        <5>2. r = <<p, <<>>>>
          BY <4>2, <5>1, Zenon
        <5>3. Within(k, n + 1, p)
          BY <2>0, <2>3, <4>1, <5>1 DEF Within
        <5> HIDE DEF r
        <5> QED
          BY <5>1, <5>2, <5>3
      <4>4. CASE n + 1 = end /\ k[end] = "BEL"
        <5>1. n + 1 = Len(k) /\ b = "BEL"
          BY <3>1, <4>4
        <5>2. r = <<To(p, "ground"), <<>>>>
          BY <4>2, <5>1, Zenon
        <5> HIDE DEF r
        <5> QED
          BY <2>a, <3>2, <5>1, <5>2
      <4>5. CASE n + 1 = end /\ k[end] = "ESC"
        <5>1. n + 1 < Len(k) /\ b = "ESC" /\ b # "BEL"
          BY <2>0, <3>1, <4>5
        <5>2. r = <<To(p, "OSCesc"), <<>>>>
          BY <4>2, <5>1, Zenon
        <5>3. Within(k, n + 1, To(p, "OSCesc"))
          BY <2>0, <2>3, <2>a, <5>1 DEF Within
        <5> HIDE DEF r
        <5> QED
          BY <5>1, <5>2, <5>3
      <4> QED
        BY <2>0, <3>1, <3>4, <4>3, <4>4, <4>5
    <3>5. CASE ~(n + 1 <= end)
      <4>1. n = end /\ n + 1 = Len(k) /\ k[n] = "ESC" /\ b = "\\"
        BY <2>0, <3>1, <3>5
      <4>2. p.state = "OSCesc" /\ p.state # "ground" /\ p.state # "esc" /\ p.state # "CSI" /\ p.state # "SS3" /\ p.state # "OSC"
        BY <2>0, <3>1, <3>3, <4>1
      <4>3. r = <<To(p, "ground"), <<>>>>
        BY <4>1, <4>2, Zenon DEF FeedKey
      <4> HIDE DEF r
      <4> QED
        BY <2>a, <3>2, <4>1, <4>3
    <3> QED
      BY <3>4, <3>5
  <2> QED
    BY <1>1, <2>0, <2>1, <2>2, <2>3 DEF Alone
<1> QED
  BY <1>1, <1>2, <1>3, <1>4

\* One byte more of what is read as typed.
LEMMA BehindNext ==
  ASSUME NEW k \in DOMAIN Keys, NEW o \in BOOLEAN, NEW n \in Nat, HeadOf(o, k) <= n, n < Len(k)
  PROVE  /\ Behind(o, k, n) \in Seq(KeyEvents)
         /\ Behind(o, k, HeadOf(o, k)) = Meant(o, k)
         /\ Behind(o, k, n + 1) = Behind(o, k, n) \o <<Ev("byte", k[n + 1])>>
<1> DEFINE h == HeadOf(o, k)
           m == Meant(o, k)
<1>1. k \in Seq(STRING) /\ Len(k) \in Nat /\ h \in 1..Len(k) /\ m \in Seq(KeyEvents)
  BY KeyForm
<1>1a. h <= n
  OBVIOUS
<1> HIDE DEF h, m
<1> DEFINE s == SubSeq(k, h + 1, n)
           t == SubSeq(k, h + 1, n + 1)
<1>2. s \in Seq(STRING) /\ t = Append(s, k[n + 1]) /\ k[n + 1] \in STRING
  BY <1>1, <1>1a
<1>3. SubSeq(k, h + 1, h) = <<>>
  BY <1>1
<1> HIDE DEF s, t
<1>4. Typing(s) \in Seq(KeyEvents) /\ Ev("byte", k[n + 1]) \in KeyEvents
  BY <1>2, TypingKeys
<1>5. Typing(t) = Append(Typing(s), Ev("byte", k[n + 1]))
  BY <1>2 DEF Typing
<1>6. Typing(<<>>) = <<>>
  BY DEF Typing
<1>7. /\ Behind(o, k, n) = m \o Typing(s) /\ Behind(o, k, n + 1) = m \o Typing(t)
      /\ Behind(o, k, h) = m \o <<>>
  BY <1>3, <1>6 DEF Behind, s, t, h, m
<1> DEFINE a == Typing(s)
           e == Ev("byte", k[n + 1])
<1>8. a \in Seq(KeyEvents) /\ e \in KeyEvents /\ Typing(t) = Append(a, e)
  BY <1>4, <1>5
<1> HIDE DEF a, e, KeyEvents
<1>9. m \o Append(a, e) = (m \o a) \o <<e>> /\ m \o a \in Seq(KeyEvents) /\ m \o <<>> = m
  BY <1>1, <1>8
<1> QED
  BY <1>7, <1>8, <1>9 DEF a, e, h, m

\* One byte of an item, wherever in it, whether it is taken for a part of a
\* sequence or for a key.
LEMMA ItemStep ==
  ASSUME NEW k \in DOMAIN Keys, NEW o \in BOOLEAN, NEW n \in 0..(Len(k) - 1), NEW p,
         NEW made \in Seq(KeyEvents), Progress(o, k, n, p, made),
         o => k[1] \notin {"[", "O", "]"}
  PROVE  LET r == FeedKey(p, k[n + 1])
         IN  Progress(o, k, n + 1, r[1], made \o r[2]) /\ r[2] \in Seq(KeyEvents)
<1> DEFINE b == k[n + 1]
           r == FeedKey(p, b)
           h == HeadOf(o, k)
           u == LastOf(o, k)
           len == Len(k)
           Goal == Progress(o, k, n + 1, r[1], made \o r[2]) /\ r[2] \in Seq(KeyEvents)
<1> SUFFICES Goal
  OBVIOUS
<1>1. /\ k \in Seq(STRING) /\ len \in Nat /\ len > 0 /\ h \in 1..len /\ u \in h..len
      /\ u # len => u = len - 2 /\ k[len - 1] = "ESC" /\ k[len] = "\\"
      /\ \A i \in (h + 1)..u : k[i] # "ESC"
      /\ Meant(o, k) \in Seq(KeyEvents)
      /\ ~o /\ k # Esc => Alone(SubSeq(k, 1, h), Meant(o, k))
      /\ k = Esc => h = 1 /\ len = 1 /\ u = 1 /\ Meant(o, k) = <<>>
  BY KeyForm
<1>2. n \in Nat /\ n < len /\ b \in STRING
  BY <1>1
<1>3. DOMAIN p = {"state", "buf"}
  BY DEF Progress
<1>4. \A st : DOMAIN To(p, st) = {"state", "buf"} /\ To(p, st).state = st
  BY <1>3 DEF To
<1>5. <<>> \in Seq(KeyEvents) /\ made \o <<>> = made /\ <<>> \o <<>> = <<>>
      /\ \A s \in Seq(KeyEvents) : <<>> \o s = s
  <2> HIDE DEF KeyEvents
  <2> QED
    OBVIOUS
<1>6. \A q : DOMAIN q = {"state", "buf"} /\ n + 1 = h /\ q.state = Leaves(o, k)
         => Progress(o, k, n + 1, q, Meant(o, k))
  <2> SUFFICES ASSUME NEW q, DOMAIN q = {"state", "buf"}, n + 1 = h, q.state = Leaves(o, k)
               PROVE  Progress(o, k, n + 1, q, Meant(o, k))
    OBVIOUS
  <2>1. Behind(o, k, n + 1) = Meant(o, k)
    <3>1. SubSeq(k, h + 1, h) = <<>>
      BY <1>1
    <3>2. Typing(<<>>) = <<>>
      BY DEF Typing
    <3>3. Behind(o, k, h) = Meant(o, k) \o <<>>
      BY <3>1, <3>2 DEF Behind
    <3> QED
      BY <1>1, <3>3
  <2>2. h = HeadOf(o, k) /\ u = LastOf(o, k) /\ ~(n + 1 < h) /\ ~(n + 1 > u)
    BY <1>1, <1>2
  <2> HIDE DEF h, u
  <2> QED
    BY <2>1, <2>2, Zenon DEF Progress
<1>7. CASE n < h /\ o
  <2>1. h = 1 /\ n = 0 /\ b = k[1] /\ Meant(o, k) = <<>> /\ Leaves(o, k) = "ground"
    BY <1>1, <1>2, <1>7 DEF HeadOf, Meant, Leaves
  <2>2. p.state = "esc" /\ p.state # "ground" /\ made = <<>>
    BY <1>7 DEF Progress
  <2>3. r = <<To(p, "ground"), <<>>>>
    BY <2>1, <2>2, <1>7, Zenon DEF FeedKey
  <2>4. Progress(o, k, n + 1, To(p, "ground"), <<>>)
    BY <1>4, <1>6, <2>1
  <2> HIDE DEF r, b, h, u, len
  <2>5. r[2] = <<>> /\ made \o r[2] = <<>>
    BY <1>5, <2>2, <2>3
  <2>6. r[1] = To(p, "ground")
    BY <2>3
  <2> QED
    BY <1>5, <2>4, <2>5, <2>6, Zenon
<1>8. CASE n < h /\ ~o /\ k = Esc
  <2>1. h = 1 /\ n = 0 /\ b = "ESC" /\ Meant(o, k) = <<>> /\ Leaves(o, k) = "esc"
    BY <1>1, <1>2, <1>8 DEF Leaves, Esc
  <2>2. p.state = "ground" /\ made = <<>>
    BY <1>8, <2>1 DEF Progress, Within
  <2>3. r = <<To(p, "esc"), <<>>>>
    BY <2>1, <2>2, Zenon DEF FeedKey
  <2>4. Progress(o, k, n + 1, To(p, "esc"), <<>>)
    BY <1>4, <1>6, <2>1
  <2> HIDE DEF r, b, h, u, len
  <2>5. r[2] = <<>> /\ made \o r[2] = <<>>
    BY <1>5, <2>2, <2>3
  <2>6. r[1] = To(p, "esc")
    BY <2>3
  <2> QED
    BY <1>5, <2>4, <2>5, <2>6, Zenon
<1>9. CASE n < h /\ ~o /\ k # Esc
  <2> DEFINE s == SubSeq(k, 1, h)
             m == Meant(o, k)
  <2>1. s \in Seq(STRING) /\ Len(s) = h /\ s[n + 1] = b /\ Alone(s, m) /\ m \in Seq(KeyEvents)
    <3>1. k \in Seq(STRING) /\ h \in 1..Len(k) /\ n + 1 \in 1..h
      BY <1>1, <1>2, <1>9
    <3>2. Alone(s, m) /\ m \in Seq(KeyEvents)
      BY <1>1, <1>9, Zenon
    <3> HIDE DEF h
    <3>3. s \in Seq(STRING) /\ Len(s) = h /\ s[n + 1] = b
      BY <3>1
    <3> QED
      BY <3>2, <3>3
  <2>2. Within(s, n, p) /\ made = <<>>
    BY <1>9 DEF Progress
  <2> HIDE DEF s, m
  <2>3. n \in 0..(Len(s) - 1)
    BY <1>1, <1>2, <1>9, <2>1
  <2>4. /\ n + 1 < h => Within(s, n + 1, r[1]) /\ r[2] = <<>>
        /\ n + 1 = h => DOMAIN r[1] = {"state", "buf"} /\ r[1].state = "ground" /\ r[2] = m
    <3>1. b = s[n + 1]
      BY <2>1
    <3>2. LET q == FeedKey(p, s[n + 1])
          IN  /\ n + 1 < Len(s) => Within(s, n + 1, q[1]) /\ q[2] = <<>>
              /\ n + 1 = Len(s) => DOMAIN q[1] = {"state", "buf"} /\ q[1].state = "ground" /\ q[2] = m
      <4>1. ByteFed(s, m, n, p)
        BY <2>1, <2>2, <2>3, FeedSeq
      <4> QED
        BY <4>1 DEF ByteFed
    <3> HIDE DEF h, b
    <3> QED
      BY <2>1, <3>1, <3>2
  <2> HIDE DEF r
  <2>5. CASE n + 1 < h
    <3>1. DOMAIN r[1] = {"state", "buf"}
      BY <2>4, <2>5 DEF Within
    <3>2. h = HeadOf(o, k) /\ u = LastOf(o, k) /\ ~(HeadOf(o, k) <= n + 1) /\ ~(n + 1 > u)
      BY <1>1, <1>2, <2>5
    <3>3. Within(SubSeq(k, 1, HeadOf(o, k)), n + 1, r[1])
      BY <2>4, <2>5 DEF s
    <3> HIDE DEF h, u
    <3>4. Progress(o, k, n + 1, r[1], <<>>)
      BY <1>9, <3>1, <3>2, <3>3 DEF Progress
    <3>5. r[2] = <<>> /\ made \o r[2] = <<>>
      BY <1>5, <2>2, <2>4, <2>5
    <3> QED
      BY <1>5, <3>4, <3>5, Zenon
  <2>6. CASE n + 1 = h
    <3>1. Leaves(o, k) = "ground"
      BY <1>9 DEF Leaves
    <3>2. Progress(o, k, n + 1, r[1], m)
      BY <1>6, <2>4, <2>6, <3>1 DEF m
    <3> HIDE DEF h, u
    <3>3. r[2] = m /\ made \o r[2] = m /\ r[2] \in Seq(KeyEvents)
      BY <1>5, <2>1, <2>2, <2>4, <2>6
    <3> QED
      BY <3>2, <3>3, Zenon
  <2> QED
    BY <1>1, <1>2, <1>9, <2>5, <2>6
<1>10. CASE h <= n /\ n < u
  <2>1. b # "ESC" /\ n + 1 \in (h + 1)..u
    BY <1>1, <1>2, <1>10
  <2>2. k # Esc
    BY <1>1, <1>2, <1>10
  <2>3. Leaves(o, k) = "ground"
    BY <2>2 DEF Leaves
  <2>4. p.state = "ground" /\ made = Behind(o, k, n)
    <3>1. HeadOf(o, k) <= n /\ n <= LastOf(o, k)
      BY <1>1, <1>2, <1>10
    <3> HIDE DEF h, u
    <3> QED
      BY <2>3, <3>1 DEF Progress
  <2>5. r = <<p, <<Ev("byte", b)>>>>
    BY <2>1, <2>4, Zenon DEF FeedKey
  <2>6. Behind(o, k, n + 1) = made \o <<Ev("byte", b)>>
    BY <1>2, <1>10, <2>4, BehindNext
  <2>7. <<Ev("byte", b)>> \in Seq(KeyEvents)
    <3>1. Ev("byte", b) \in KeyEvents
      <4>1. <<>> \in Seq(STRING)
        OBVIOUS
      <4> QED
        BY <1>2, <4>1, TypingKeys
    <3> QED
      BY <3>1
  <2>8. h = HeadOf(o, k) /\ u = LastOf(o, k) /\ ~(n + 1 < h) /\ ~(n + 1 > u)
    BY <1>1, <1>2, <1>10
  <2> HIDE DEF r, b, h, u
  <2>9. Progress(o, k, n + 1, p, Behind(o, k, n + 1))
    BY <1>3, <2>3, <2>4, <2>8 DEF Progress
  <2>10. r[1] = p /\ r[2] = <<Ev("byte", b)>>
    BY <2>5
  <2> QED
    BY <2>6, <2>7, <2>9, <2>10, Zenon
<1>11. CASE h <= n /\ n >= u
  <2>1. u = len - 2 /\ k[len - 1] = "ESC" /\ k[len] = "\\" /\ (n = u \/ n = u + 1)
    BY <1>1, <1>2, <1>11
  <2>2. k # Esc /\ Leaves(o, k) = "ground"
    BY <1>1, <1>2, <2>1 DEF Leaves
  <2>3. made = Behind(o, k, u) /\ p.state = IF n = u THEN "ground" ELSE "esc"
    <3>1. n = u => HeadOf(o, k) <= n /\ n <= LastOf(o, k)
      BY <1>1, <1>2, <1>11
    <3>2. n = u + 1 => n > LastOf(o, k) /\ n < Len(k) /\ n # u
      BY <1>1, <1>2, <2>1
    <3>3. u = LastOf(o, k)
      OBVIOUS
    <3> HIDE DEF h, u
    <3> QED
      BY <2>1, <2>2, <3>1, <3>2, <3>3 DEF Progress
  <2>4. r = <<To(p, IF n = u THEN "esc" ELSE "ground"), <<>>>>
    <3>1. CASE n = u
      <4>1. b = "ESC" /\ p.state = "ground"
        BY <1>1, <2>1, <2>3, <3>1
      <4>2. r = <<To(p, "esc"), <<>>>>
        BY <4>1, Zenon DEF FeedKey
      <4> QED
        BY <3>1, <4>2
    <3>2. CASE n # u
      <4>1. b = "\\" /\ p.state = "esc" /\ p.state # "ground" /\ b \notin {"[", "O", "]"}
        BY <1>1, <2>1, <2>3, <3>2
      <4>2. r = <<To(p, "ground"), <<>>>>
        BY <4>1, Zenon DEF FeedKey
      <4> QED
        BY <3>2, <4>2
    <3> QED
      BY <3>1, <3>2
  <2>5. h = HeadOf(o, k) /\ u = LastOf(o, k) /\ len = Len(k)
    OBVIOUS
  <2> HIDE DEF r, b, h, u, len
  <2>b. n \in Nat /\ len \in Nat /\ h \in Nat /\ h <= u /\ u = len - 2 /\ (n = u \/ n = u + 1)
    BY <1>1, <1>2, <2>1
  <2>5a. ~(n + 1 < h) /\ ~(n + 1 <= u) /\ n + 1 > u /\ (n = u => n + 1 < len) /\ (n # u => ~(n + 1 < len))
    BY <2>b
  <2>6. Progress(o, k, n + 1, To(p, IF n = u THEN "esc" ELSE "ground"), made)
    BY <1>4, <2>3, <2>5, <2>5a DEF Progress
  <2>7. r[1] = To(p, IF n = u THEN "esc" ELSE "ground") /\ r[2] = <<>> /\ made \o r[2] = made
    BY <1>5, <2>4
  <2> QED
    BY <1>5, <2>6, <2>7, Zenon
<1> QED
  BY <1>1, <1>2, <1>7, <1>8, <1>9, <1>10, <1>11

\* Whether an Esc is open does not depend on what comes later; another Esc opens
\* or closes, anything else closes.
LEMMA EscLater ==
  ASSUME NEW items \in Seq(DOMAIN Keys), NEW k \in DOMAIN Keys
  PROVE  /\ \A n \in 0..Len(items) : EscOpen(Append(items, k), n) = EscOpen(items, n)
         /\ EscOpen(Append(items, k), Len(items) + 1) = (k = Esc /\ ~EscOpen(items, Len(items)))
<1> DEFINE l == Len(items)
           more == Append(items, k)
<1>1. l \in Nat /\ more[l + 1] = k /\ \A i \in 1..l : more[i] = items[i]
  OBVIOUS
<1> HIDE DEF l, more
<1>2. ASSUME NEW n \in 0..l PROVE EscOpen(more, n) = EscOpen(items, n)
  <2>1. n \in Nat /\ \A m \in 0..n : (m # 0 => m \in 1..l) /\ \A i \in (m + 1)..n : i \in 1..l
    BY <1>1
  <2>2. \A m \in 0..n : /\ m = 0 \/ more[m] # Esc <=> m = 0 \/ items[m] # Esc
                        /\ (\A i \in (m + 1)..n : more[i] = Esc) <=> (\A i \in (m + 1)..n : items[i] = Esc)
    BY <1>1, <2>1
  <2> QED
    BY <2>2 DEF EscOpen
<1>3. EscOpen(more, l + 1) = (k = Esc /\ ~EscOpen(items, l))
  <2>1. CASE k # Esc
    <3> SUFFICES ASSUME EscOpen(more, l + 1) PROVE FALSE
      BY <2>1 DEF EscOpen
    <3>1. PICK m \in 0..(l + 1) : (\A i \in (m + 1)..(l + 1) : more[i] = Esc) /\ ((l + 1) - m) % 2 = 1
      BY DEF EscOpen
    <3>2. m # l + 1
      BY <1>1, <3>1
    <3>3. l + 1 \in (m + 1)..(l + 1)
      BY <1>1, <3>2
    <3> QED
      BY <1>1, <2>1, <3>1, <3>3
  <2>2. CASE k = Esc
    <3> DEFINE Breaks == {j \in 1..l : items[j] # Esc}
               at == IF Breaks = {} THEN 0 ELSE Max(Breaks)
    <3>1. /\ at \in 0..l /\ (at = 0 \/ items[at] # Esc)
          /\ \A i \in (at + 1)..l : items[i] = Esc
      <4>1. CASE Breaks = {}
        BY <1>1, <4>1
      <4>2. CASE Breaks # {}
        <5>1. Breaks \in SUBSET (1..l)
          OBVIOUS
        <5>2. Max(Breaks) \in Breaks /\ \A y \in Breaks : y <= Max(Breaks)
          <6> HIDE DEF Breaks
          <6> QED
            BY <1>1, <4>2, <5>1, MaxIn
        <5>3. at = Max(Breaks)
          BY <4>2
        <5> DEFINE x == Max(Breaks)
        <5> HIDE DEF x
        <5>4. x \in Breaks /\ (\A y \in Breaks : y <= x) /\ at = x
          BY <5>2, <5>3 DEF x
        <5> HIDE DEF at
        <5> QED
          BY <1>1, <5>4
      <4> QED
        BY <4>1, <4>2
    <3> HIDE DEF at, Breaks
    <3>2. \A m \in 0..l : (m = 0 \/ items[m] # Esc) /\ (\A i \in (m + 1)..l : items[i] = Esc) => m = at
      <4> SUFFICES ASSUME NEW m \in 0..l, m = 0 \/ items[m] # Esc, \A i \in (m + 1)..l : items[i] = Esc, m # at
                   PROVE  FALSE
        OBVIOUS
      <4>1. CASE m < at
        BY <1>1, <3>1, <4>1
      <4>2. CASE m > at
        BY <1>1, <3>1, <4>2
      <4> QED
        BY <1>1, <3>1, <4>1, <4>2
    <3>3. EscOpen(items, l) <=> (l - at) % 2 = 1
      BY <3>1, <3>2 DEF EscOpen
    <3>4. EscOpen(more, l + 1) <=> ((l + 1) - at) % 2 = 1
      <4>1. /\ at \in 0..(l + 1) /\ (at = 0 \/ more[at] # Esc)
            /\ \A i \in (at + 1)..(l + 1) : more[i] = Esc
        BY <1>1, <2>2, <3>1
      <4>2. ASSUME NEW m \in 0..(l + 1), m = 0 \/ more[m] # Esc, \A i \in (m + 1)..(l + 1) : more[i] = Esc
            PROVE  m = at
        <5>1. m # l + 1
          BY <1>1, <2>2, <4>2
        <5>2. m \in 0..l /\ (m = 0 \/ items[m] # Esc) /\ \A i \in (m + 1)..l : items[i] = Esc
          BY <1>1, <4>2, <5>1
        <5> QED
          BY <3>2, <5>2
      <4> QED
        BY <4>1, <4>2 DEF EscOpen
    <3>5. ((l + 1) - at) % 2 = 1 <=> (l - at) % 2 # 1
      BY <1>1, <3>1
    <3>6. EscOpen(more, l + 1) <=> ~EscOpen(items, l)
      BY <3>3, <3>4, <3>5
    <3>7. EscOpen(more, l + 1) \in BOOLEAN /\ EscOpen(items, l) \in BOOLEAN
      BY DEF EscOpen
    <3> QED
      BY <2>2, <3>6, <3>7, Zenon
  <2> QED
    BY <2>1, <2>2
<1> QED
  BY <1>2, <1>3 DEF l, more

\* One item more has its share, and the others theirs.
LEMMA AccountAppend ==
  ASSUME NEW items \in Seq(DOMAIN Keys), NEW k \in DOMAIN Keys
  PROVE  /\ Flat(Account(items)) \in Seq(KeyEvents)
         /\ Flat(Account(Append(items, k))) = Flat(Account(items)) \o Share(EscOpen(items, Len(items)), k)
<1> DEFINE l == Len(items)
           more == Append(items, k)
           each(s, i) == Share(EscOpen(s, i - 1), s[i])
<1>1. \A o, j : o \in BOOLEAN /\ j \in DOMAIN Keys => Share(o, j) \in Seq(KeyEvents)
  <2> SUFFICES ASSUME NEW o \in BOOLEAN, NEW j \in DOMAIN Keys PROVE Share(o, j) \in Seq(KeyEvents)
    OBVIOUS
  <2>1. /\ j \in Seq(STRING) /\ Len(j) \in Nat /\ HeadOf(o, j) \in 1..Len(j) /\ LastOf(o, j) \in HeadOf(o, j)..Len(j)
        /\ Share(o, j) = Behind(o, j, LastOf(o, j)) /\ Meant(o, j) \in Seq(KeyEvents)
    BY KeyForm
  <2> DEFINE s == SubSeq(j, HeadOf(o, j) + 1, LastOf(o, j))
  <2>2. s \in Seq(STRING)
    BY <2>1
  <2> HIDE DEF s
  <2>3. Typing(s) \in Seq(KeyEvents)
    BY <2>2, TypingKeys
  <2>4. Share(o, j) = Meant(o, j) \o Typing(s)
    BY <2>1 DEF Behind, s
  <2> HIDE DEF KeyEvents
  <2> QED
    BY <2>1, <2>3, <2>4
<1>2. \A s, n : EscOpen(s, n) \in BOOLEAN
  BY DEF EscOpen
<1>3. /\ l \in Nat /\ Len(more) = l + 1 /\ DOMAIN more = 1..(l + 1) /\ DOMAIN items = 1..l
      /\ more[l + 1] = k /\ \A i \in 1..l : more[i] = items[i] /\ items[i] \in DOMAIN Keys
  OBVIOUS
<1>4. \A i \in 1..(l + 1) : EscOpen(more, i - 1) = EscOpen(items, i - 1)
  <2>1. \A i \in 1..(l + 1) : i - 1 \in 0..l
    BY <1>3
  <2> QED
    BY <2>1, EscLater
<1>5. Account(items) = [i \in 1..l |-> each(items, i)]
  BY <1>3 DEF Account, Share
<1>6. Account(more) = [i \in 1..(l + 1) |-> each(more, i)]
  BY <1>3 DEF Account, Share
<1> HIDE DEF l, more, KeyEvents
<1>7. \A i \in 1..l : each(items, i) \in Seq(KeyEvents)
  BY <1>1, <1>2, <1>3
<1>8. Account(items) \in Seq(Seq(KeyEvents)) /\ Len(Account(items)) = l
  BY <1>3, <1>5, <1>7
<1>9. each(more, l + 1) = Share(EscOpen(items, l), k) /\ Share(EscOpen(items, l), k) \in Seq(KeyEvents)
  <2>1. (l + 1) - 1 = l /\ l + 1 \in 1..(l + 1)
    BY <1>3
  <2>2. EscOpen(more, l) = EscOpen(items, l)
    BY <1>4, <2>1
  <2> QED
    BY <1>1, <1>2, <1>3, <2>1, <2>2
<1>10. \A i \in 1..l : each(more, i) = each(items, i)
  <2>1. \A i \in 1..l : i \in 1..(l + 1)
    BY <1>3
  <2> QED
    BY <1>3, <1>4, <2>1
<1> HIDE DEF each
<1>11. Account(more) = Append(Account(items), each(more, l + 1))
  <2> DEFINE A == Account(items)
             x == each(more, l + 1)
  <2>1. A = [i \in 1..l |-> each(items, i)] /\ Len(A) = l /\ A \in Seq(Seq(KeyEvents))
    BY <1>5, <1>8
  <2>2. x \in Seq(KeyEvents)
    BY <1>9
  <2> HIDE DEF A, x
  <2>3. Append(A, x) = [i \in 1..(l + 1) |-> IF i = l + 1 THEN x ELSE A[i]]
    BY <1>3, <2>1, <2>2
  <2>4. \A i \in 1..(l + 1) : each(more, i) = IF i = l + 1 THEN x ELSE A[i]
    <3> SUFFICES ASSUME NEW i \in 1..(l + 1) PROVE each(more, i) = IF i = l + 1 THEN x ELSE A[i]
      OBVIOUS
    <3>1. i # l + 1 => i \in 1..l
      BY <1>3
    <3> QED
      BY <1>10, <2>1, <3>1 DEF x
  <2>5. Account(more) = [i \in 1..(l + 1) |-> IF i = l + 1 THEN x ELSE A[i]]
    BY <1>6, <2>4
  <2> QED
    BY <2>3, <2>5 DEF A, x
<1>12. Flat(Append(Account(items), each(more, l + 1))) = Flat(Account(items)) \o each(more, l + 1)
       /\ Flat(Account(items)) \in Seq(KeyEvents)
  BY <1>8, <1>9, FlatAppend
<1> QED
  BY <1>9, <1>11, <1>12 DEF l, more

\* A key that an Esc turned into another sequence stays so.
LEMMA MergedLater ==
  ASSUME NEW items \in Seq(DOMAIN Keys), NEW k \in DOMAIN Keys, ~Merged(Append(items, k))
  PROVE  /\ ~Merged(items)
         /\ EscOpen(items, Len(items)) => k[1] \notin {"[", "O", "]"}
<1> DEFINE l == Len(items)
           more == Append(items, k)
<1>1. /\ l \in Nat /\ DOMAIN more = 1..(l + 1) /\ DOMAIN items = 1..l
      /\ more[l + 1] = k /\ \A i \in 1..l : more[i] = items[i]
  OBVIOUS
<1>2. \A i \in 1..(l + 1) : i - 1 \in 0..l
  BY <1>1
<1>3. \A i \in 1..(l + 1) : EscOpen(more, i - 1) = EscOpen(items, i - 1)
  BY <1>2, EscLater
<1>4. \A i \in 1..(l + 1) : ~(EscOpen(more, i - 1) /\ more[i][1] \in {"[", "O", "]"})
  BY <1>1 DEF Merged
<1> HIDE DEF l, more
<1>5. ~Merged(items)
  <2>1. \A i \in 1..l : i \in 1..(l + 1)
    BY <1>1
  <2> QED
    BY <1>1, <1>3, <1>4, <2>1 DEF Merged
<1>6. EscOpen(items, l) => k[1] \notin {"[", "O", "]"}
  <2>1. l + 1 \in 1..(l + 1) /\ (l + 1) - 1 = l
    BY <1>1
  <2> QED
    BY <1>1, <1>3, <1>4, <2>1
<1> QED
  BY <1>5, <1>6 DEF l

\* The player does not read while the recorder writes, nor the other way round.
LEMMA KeyStep == TerminalNext /\ KeyInv => KeyInv'
<1> SUFFICES ASSUME KeyInv, TerminalNext PROVE KeyInv'
  OBVIOUS
<1>1. CASE UNCHANGED <<sent, coming, parser, got>>
  BY <1>1 DEF KeyInv
<1>2. CASE Send
  <2>1. PICK k \in DOMAIN Keys : sent' = Append(sent, k) /\ coming' = k
    BY <1>2 DEF Send
  <2>2. coming = <<>> /\ parser' = parser /\ got' = got /\ sent \in Seq(DOMAIN Keys)
    BY <1>2 DEF Send, KeyInv
  <2>3. sent' \in Seq(DOMAIN Keys)
    BY <2>1, <2>2
  <2> SUFFICES ASSUME ~Merged(sent') PROVE KeyInv'
    BY <2>3 DEF KeyInv
  <2>4. ~Merged(sent)
    BY <2>1, <2>2, MergedLater
  <2> DEFINE o == EscOpen(sent, Len(sent))
  <2>5. o \in BOOLEAN
    BY DEF EscOpen
  <2>6. /\ DOMAIN parser = {"state", "buf"} /\ got = Flat(Account(sent))
        /\ parser.state = IF o THEN "esc" ELSE "ground"
    BY <2>2, <2>4 DEF KeyInv
  <2> HIDE DEF o
  <2>7. k \in Seq(STRING) /\ Len(k) \in Nat /\ Len(k) > 0 /\ HeadOf(o, k) \in 1..Len(k) /\ LastOf(o, k) \in HeadOf(o, k)..Len(k)
    BY <2>5, KeyForm
  <2>8. SubSeq(k, 0 + 1, Len(k)) = k /\ k # <<>> /\ 0 \in 0..(Len(k) - 1)
    BY <2>7
  <2>9. Progress(o, k, 0, parser, <<>>)
    <3>1. 0 < HeadOf(o, k) /\ ~(HeadOf(o, k) <= 0) /\ ~(0 > LastOf(o, k))
      BY <2>7
    <3>2. ~o => Within(SubSeq(k, 1, HeadOf(o, k)), 0, parser)
      BY <2>6 DEF Within
    <3> QED
      BY <2>6, <3>1, <3>2 DEF Progress
  <2>10. got' = Flat(Account(sent)) \o <<>> /\ <<>> \in Seq(KeyEvents)
    <3>1. Flat(Account(sent)) \in Seq(KeyEvents)
      BY <2>1, <2>2, AccountAppend
    <3> HIDE DEF KeyEvents
    <3> QED
      BY <2>2, <2>6, <3>1
  <2>11. \E before \in Seq(DOMAIN Keys), j \in DOMAIN Keys : \E n \in 0..(Len(j) - 1), made \in Seq(KeyEvents) :
           /\ sent' = Append(before, j) /\ coming' = SubSeq(j, n + 1, Len(j))
           /\ Progress(EscOpen(before, Len(before)), j, n, parser', made)
           /\ got' = Flat(Account(before)) \o made
    BY <2>1, <2>2, <2>8, <2>9, <2>10 DEF o
  <2>12. coming' # <<>>
    BY <2>1, <2>8
  <2> QED
    BY <2>3, <2>11, <2>12 DEF KeyInv
<1>3. CASE ReadByte
  <2>1. coming # <<>> /\ coming' = Tail(coming) /\ sent' = sent /\ sent \in Seq(DOMAIN Keys)
    BY <1>3 DEF ReadByte, KeyInv
  <2> SUFFICES ASSUME ~Merged(sent) PROVE KeyInv'
    BY <2>1 DEF KeyInv
  <2>2. PICK before \in Seq(DOMAIN Keys), k \in DOMAIN Keys : \E n \in 0..(Len(k) - 1), made \in Seq(KeyEvents) :
          /\ sent = Append(before, k) /\ coming = SubSeq(k, n + 1, Len(k))
          /\ Progress(EscOpen(before, Len(before)), k, n, parser, made)
          /\ got = Flat(Account(before)) \o made
    BY <2>1 DEF KeyInv
  <2>3. PICK n \in 0..(Len(k) - 1), made \in Seq(KeyEvents) :
          /\ sent = Append(before, k) /\ coming = SubSeq(k, n + 1, Len(k))
          /\ Progress(EscOpen(before, Len(before)), k, n, parser, made)
          /\ got = Flat(Account(before)) \o made
    BY <2>2
  <2> DEFINE o == EscOpen(before, Len(before))
             r == FeedKey(parser, k[n + 1])
  <2>4. o \in BOOLEAN
    BY DEF EscOpen
  <2>5. o => k[1] \notin {"[", "O", "]"}
    BY <2>3, MergedLater
  <2>6. Progress(o, k, n + 1, r[1], made \o r[2]) /\ r[2] \in Seq(KeyEvents)
    <3>1. Progress(o, k, n, parser, made)
      BY <2>3
    <3> HIDE DEF o
    <3> QED
      BY <2>4, <2>5, <3>1, ItemStep
  <2>7. /\ k \in Seq(STRING) /\ Len(k) \in Nat /\ HeadOf(o, k) \in 1..Len(k) /\ LastOf(o, k) \in HeadOf(o, k)..Len(k)
        /\ LastOf(o, k) # Len(k) => LastOf(o, k) = Len(k) - 2
        /\ k = Esc => HeadOf(o, k) = 1 /\ Len(k) = 1 /\ LastOf(o, k) = 1
        /\ Share(o, k) = Behind(o, k, LastOf(o, k))
    <3> HIDE DEF o
    <3> QED
      BY <2>4, KeyForm
  <2>8. coming[1] = k[n + 1] /\ Tail(coming) = SubSeq(k, n + 2, Len(k))
    BY <2>3, <2>7
  <2>9. parser' = r[1] /\ got' = got \o r[2]
    BY <1>3, <2>8 DEF ReadByte
  <2>10. /\ Flat(Account(before)) \in Seq(KeyEvents)
         /\ Flat(Account(sent)) = Flat(Account(before)) \o Share(o, k)
    BY <2>3, AccountAppend
  <2> DEFINE now == made \o r[2]
             flat == Flat(Account(before))
  <2> HIDE DEF r, o, flat, KeyEvents
  <2>11. now \in Seq(KeyEvents) /\ got' = flat \o now /\ flat \in Seq(KeyEvents)
    <3>1. flat \in Seq(KeyEvents) /\ got = flat \o made
      BY <2>3, <2>10 DEF flat
    <3>2. (flat \o made) \o r[2] = flat \o (made \o r[2])
      <4>1. r[2] \in Seq(KeyEvents) /\ flat \in Seq(KeyEvents) /\ made \in Seq(KeyEvents)
        BY <2>3, <2>6, <3>1
      <4>2. ASSUME NEW x \in Seq(KeyEvents), NEW y \in Seq(KeyEvents), NEW z \in Seq(KeyEvents)
            PROVE  (x \o y) \o z = x \o (y \o z)
        BY ConcatAssociative, SMTT(30)
      <4> QED
        BY <4>1, <4>2, Zenon
    <3>3. made \o r[2] \in Seq(KeyEvents)
      BY <2>6
    <3> QED
      BY <2>9, <3>1, <3>2, <3>3
  <2>12. Progress(o, k, n + 1, parser', now)
    BY <2>6, <2>9
  <2> HIDE DEF now
  <2>13. CASE n + 1 < Len(k)
    <3>1. n + 1 \in 0..(Len(k) - 1) /\ SubSeq(k, n + 2, Len(k)) = SubSeq(k, (n + 1) + 1, Len(k))
      BY <2>7, <2>13
    <3>2. coming' # <<>>
      <4>1. n + 2 \in Nat /\ n + 2 <= Len(k) /\ n + 2 > 0
        BY <2>7, <2>13
      <4>2. Len(SubSeq(k, n + 2, Len(k))) # 0 /\ Len(<<>>) = 0
        BY <2>7, <4>1
      <4>3. coming' = SubSeq(k, n + 2, Len(k))
        BY <2>1, <2>8
      <4> QED
        BY <4>2, <4>3, Zenon
    <3>3. \E b \in Seq(DOMAIN Keys), j \in DOMAIN Keys : \E i \in 0..(Len(j) - 1), x \in Seq(KeyEvents) :
            /\ sent' = Append(b, j) /\ coming' = SubSeq(j, i + 1, Len(j))
            /\ Progress(EscOpen(b, Len(b)), j, i, parser', x)
            /\ got' = Flat(Account(b)) \o x
      BY <2>1, <2>3, <2>8, <2>11, <2>12, <3>1 DEF o, flat
    <3> QED
      BY <2>1, <3>2, <3>3 DEF KeyInv
  <2>14. CASE n + 1 = Len(k)
    <3>1. coming' = <<>>
      BY <2>1, <2>7, <2>8, <2>14
    <3>2. /\ DOMAIN parser' = {"state", "buf"} /\ now = Share(o, k)
          /\ parser'.state = IF k = Esc /\ ~o THEN "esc" ELSE "ground"
      <4>1. DOMAIN parser' = {"state", "buf"}
        BY <2>12 DEF Progress
      <4>2. CASE n + 1 <= LastOf(o, k)
        <5>1. n + 1 = LastOf(o, k) /\ HeadOf(o, k) <= n + 1
          BY <2>7, <2>14, <4>2
        <5>2. parser'.state = Leaves(o, k) /\ now = Behind(o, k, LastOf(o, k))
          BY <2>12, <4>2, <5>1 DEF Progress
        <5> QED
          BY <2>7, <4>1, <5>2 DEF Leaves
      <4>3. CASE ~(n + 1 <= LastOf(o, k))
        <5>1. n + 1 > LastOf(o, k) /\ ~(n + 1 < Len(k)) /\ k # Esc
          BY <2>7, <2>14, <4>3
        <5>2. parser'.state = "ground" /\ now = Behind(o, k, LastOf(o, k))
          BY <2>12, <5>1 DEF Progress
        <5> QED
          BY <2>7, <4>1, <5>1, <5>2
      <4> QED
        BY <4>2, <4>3
    <3>3. EscOpen(sent, Len(sent)) = (k = Esc /\ ~o)
      <4>1. Len(sent) = Len(before) + 1
        BY <2>3
      <4> QED
        BY <2>3, <4>1, EscLater DEF o
    <3>4. got' = Flat(Account(sent))
      BY <2>10, <2>11, <3>2 DEF flat
    <3>5. parser'.state = IF EscOpen(sent', Len(sent')) THEN "esc" ELSE "ground"
      BY <2>1, <3>2, <3>3
    <3> QED
      BY <2>1, <3>1, <3>2, <3>4, <3>5 DEF KeyInv
  <2> QED
    BY <2>7, <2>13, <2>14
<1> QED
  BY <1>1, <1>2, <1>3 DEF TerminalNext, WriteOutput, Close

\* Whatever is typed, clicked or replied, in any number and order, unless an Esc
\* and the key behind it make a sequence: what each means is emitted and nothing
\* of it is left for the next, and what the parser takes to be over before it is
\* costs its own bytes alone (inputParser).
THEOREM KeysDecoded == TerminalSpec => []KeysRead
<1>1. TerminalInit => KeyInv
  <2> SUFFICES ASSUME TerminalInit PROVE KeyInv
    OBVIOUS
  <2>1. sent = <<>> /\ coming = <<>> /\ got = <<>> /\ parser = [state |-> "ground", buf |-> <<>>]
    BY DEF TerminalInit
  <2>2. Account(<<>>) = <<>>
    BY DEF Account
  <2>3. ~EscOpen(<<>>, 0) /\ Len(<<>>) = 0
    <3>1. \A m \in 0..0 : (0 - m) % 2 # 1
      OBVIOUS
    <3> QED
      BY <3>1 DEF EscOpen
  <2> QED
    BY <2>1, <2>2, <2>3, FlatEmpty DEF KeyInv
<1>2. KeyInv /\ [TerminalNext]_terminalVars => KeyInv'
  <2>1. KeyInv /\ UNCHANGED terminalVars => KeyInv'
    BY DEF KeyInv, terminalVars
  <2> QED
    BY <2>1, KeyStep
<1>3. KeyInv => KeysRead
  BY DEF KeyInv, KeysRead, Flat
<1> QED
  BY <1>1, <1>2, <1>3, PTL DEF TerminalSpec
-----------------------------------------------------------------------------
(* The three views of the output, none of which shows where the events cut   *)
(* it: the command list, tail's ring and the scrollback.  Each is a loop     *)
(* over the bytes, and what it makes of two pieces is what it makes of one.  *)

\* What holds at 0 and passes from each number to the next holds up to n.
LEMMA UpTo ==
  ASSUME NEW n \in Nat, NEW S, 0 \in S, \A i \in 1..n : i - 1 \in S => i \in S
  PROVE  \A i \in 0..n : i \in S
<1> DEFINE Rest == {i \in 0..n : i \notin S}
<1>1. ASSUME Rest # {} PROVE FALSE
  <2>1. PICK m \in Rest : \A k \in Rest : m <= k
    <3>1. Rest \subseteq Nat
      OBVIOUS
    <3> HIDE DEF Rest
    <3> QED
      BY <1>1, <3>1, Least
  <2>2. m \in 0..n /\ m \notin S /\ m # 0
    OBVIOUS
  <2>3. m - 1 \in 0..n /\ ~(m <= m - 1) /\ m \in 1..n
    BY <2>2
  <2>4. m - 1 \notin Rest
    <3> HIDE DEF Rest
    <3> QED
      BY <2>1, <2>3
  <2> QED
    BY <2>2, <2>3, <2>4
<1> QED
  BY <1>1

\* h starts with r and goes on by the steps.
Steps(R, n) == [1..n -> [R -> R]]
Goes(h, r, n, step) == h[0] = r /\ \A i \in 1..n : h[i] = step[i][h[i - 1]]

\* A function on numbers given by its value at 0 and its steps exists.
LEMMA Iteration ==
  ASSUME NEW R, NEW r \in R, NEW n \in Nat, NEW step \in Steps(R, n)
  PROVE  \E h \in [0..n -> R] : Goes(h, r, n, step)
<1> DEFINE Now(f, k) == IF k = 0 THEN r ELSE step[k][f[k - 1]]
           Good(f, m) == \A k \in 0..m : f[k] = Now(f, k)
           S == {m \in 0..n : \E f \in [0..n -> R] : Good(f, m)}
<1>1. 0 \in S
  <2>1. [k \in 0..n |-> r] \in [0..n -> R] /\ Good([k \in 0..n |-> r], 0)
    OBVIOUS
  <2>2. 0 \in 0..n
    OBVIOUS
  <2> QED
    BY <2>1, <2>2
<1>2. ASSUME NEW m \in 1..n, m - 1 \in S PROVE m \in S
  <2>1. m \in 0..n /\ m # 0 /\ m - 1 \in 0..n
    OBVIOUS
  <2>2. PICK f \in [0..n -> R] : Good(f, m - 1)
    BY <1>2
  <2> DEFINE g == [f EXCEPT ![m] = Now(f, m)]
  <2>3. g \in [0..n -> R]
    <3>1. Now(f, m) \in R
      <4>1. f[m - 1] \in R /\ step[m] \in [R -> R]
        BY <2>1 DEF Steps
      <4> QED
        BY <2>1, <4>1
    <3> HIDE DEF Now
    <3> QED
      BY <3>1
  <2>4. Good(g, m)
    <3> SUFFICES ASSUME NEW k \in 0..m PROVE g[k] = Now(g, k)
      OBVIOUS
    <3>1. k \in 0..n /\ (k # m => k \in 0..(m - 1)) /\ (k # 0 => k - 1 \in 0..n /\ k - 1 # m)
      BY <2>1
    <3>2. Now(g, k) = Now(f, k)
      BY <3>1
    <3>3. g[k] = IF k = m THEN Now(f, m) ELSE f[k]
      <4> HIDE DEF Now
      <4> QED
        BY <3>1
    <3> HIDE DEF Now
    <3> QED
      BY <2>2, <3>1, <3>2, <3>3
  <2> QED
    BY <2>1, <2>3, <2>4
<1>3. n \in 0..n /\ n \in S
  <2> HIDE DEF S
  <2>1. \A i \in 0..n : i \in S
    BY <1>1, <1>2, UpTo
  <2> QED
    BY <2>1
<1>4. PICK f \in [0..n -> R] : Good(f, n)
  BY <1>3
<1>5. Goes(f, r, n, step)
  <2>1. 0 \in 0..n /\ \A i \in 1..n : i \in 0..n /\ i # 0
    OBVIOUS
  <2> QED
    BY <1>4, <2>1 DEF Goes
<1> QED
  BY <1>5
-----------------------------------------------------------------------------
(* The player's command list: however the events cut the output.             *)

Commands == {CommandOf(l) : l \in Seq(Bytes)}
Listings == [line : Seq(Bytes), found : Seq([t : Nat, label : Commands])]
NoListing == [line |-> <<>>, found |-> <<>>]
\* What there is to see of it: the moments of the commands aside.
Shown(c) == [line |-> c.line, labels |-> [i \in DOMAIN c.found |-> c.found[i].label]]

\* A byte makes a list of a list.
LEMMA ByteTyped ==
  ASSUME NEW c \in Listings, NEW k \in Nat, NEW b \in Bytes
  PROVE  chapterByte(c, k, b) \in Listings
<1>1. c.line \in Seq(Bytes) /\ c.found \in Seq([t : Nat, label : Commands]) /\ CommandOf(c.line) \in Commands
  BY DEF Listings, Commands
<1> DEFINE L == Commands
           new == [t |-> k, label |-> CommandOf(c.line)]
<1>2. new \in [t : Nat, label : L]
  BY <1>1
<1> HIDE DEF L, new
<1>3. Append(c.found, new) \in Seq([t : Nat, label : L])
  BY <1>1, <1>2 DEF L
<1>4. Append(c.line, b) \in Seq(Bytes) /\ <<>> \in Seq(Bytes)
  BY <1>1
<1>5. chapterByte(c, k, b) = IF b # "LF" THEN [c EXCEPT !.line = Append(@, b)]
        ELSE [line |-> <<>>, found |-> IF CommandOf(c.line) = <<>> THEN c.found ELSE Append(c.found, new)]
  BY DEF chapterByte, new
<1> DEFINE F == Seq([t : Nat, label : L])
<1>6. c \in [line : Seq(Bytes), found : F] /\ c.found \in F /\ Append(c.found, new) \in F
  BY <1>1, <1>3 DEF Listings, L
<1> HIDE DEF F
<1>7. [c EXCEPT !.line = Append(@, b)] \in [line : Seq(Bytes), found : F]
  BY <1>4, <1>6
<1>8. chapterByte(c, k, b) \in [line : Seq(Bytes), found : F]
  BY <1>4, <1>5, <1>6, <1>7
<1> QED
  BY <1>8 DEF Listings, L, F

\* A byte shows the same, whatever the event it is in.
LEMMA ShownByte ==
  ASSUME NEW c \in Listings, NEW d \in Listings, Shown(c) = Shown(d), NEW j \in Nat, NEW k \in Nat, NEW b \in Bytes
  PROVE  Shown(chapterByte(c, j, b)) = Shown(chapterByte(d, k, b))
<1>1. /\ c.line = d.line
      /\ [i \in DOMAIN c.found |-> c.found[i].label] = [i \in DOMAIN d.found |-> d.found[i].label]
  BY DEF Shown
<1> DEFINE L == [t : Nat, label : Commands]
           x == [t |-> j, label |-> CommandOf(c.line)]
           y == [t |-> k, label |-> CommandOf(c.line)]
<1>2. c.found \in Seq(L) /\ d.found \in Seq(L) /\ x \in L /\ y \in L /\ x.label = y.label
  BY DEF Listings, Commands
<1>3. DOMAIN c.found = DOMAIN d.found /\ \A i \in DOMAIN c.found : c.found[i].label = d.found[i].label
  <2> DEFINE f == [i \in DOMAIN c.found |-> c.found[i].label]
             g == [i \in DOMAIN d.found |-> d.found[i].label]
  <2>1. f = g /\ DOMAIN f = DOMAIN c.found /\ DOMAIN g = DOMAIN d.found
    BY <1>1
  <2>2. \A i \in DOMAIN c.found : f[i] = g[i] /\ f[i] = c.found[i].label
    BY <2>1
  <2>3. \A i \in DOMAIN d.found : g[i] = d.found[i].label
    BY <2>1
  <2> QED
    BY <2>1, <2>2, <2>3
<1>4. CASE b # "LF"
  <2>1. /\ chapterByte(c, j, b).line = Append(c.line, b) /\ chapterByte(c, j, b).found = c.found
        /\ chapterByte(d, k, b).line = Append(c.line, b) /\ chapterByte(d, k, b).found = d.found
    BY <1>1, <1>4 DEF chapterByte, Listings
  <2> QED
    BY <1>3, <2>1 DEF Shown
<1>5. CASE b = "LF" /\ CommandOf(c.line) = <<>>
  <2>1. /\ chapterByte(c, j, b).line = <<>> /\ chapterByte(c, j, b).found = c.found
        /\ chapterByte(d, k, b).line = <<>> /\ chapterByte(d, k, b).found = d.found
    BY <1>1, <1>5 DEF chapterByte
  <2> QED
    BY <1>3, <2>1 DEF Shown
<1>6. CASE b = "LF" /\ CommandOf(c.line) # <<>>
  <2>1. /\ chapterByte(c, j, b).line = <<>> /\ chapterByte(c, j, b).found = Append(c.found, x)
        /\ chapterByte(d, k, b).line = <<>> /\ chapterByte(d, k, b).found = Append(d.found, y)
    BY <1>1, <1>6 DEF chapterByte
  <2> HIDE DEF L, x, y
  <2>2. /\ DOMAIN Append(c.found, x) = 1..(Len(c.found) + 1) /\ DOMAIN Append(d.found, y) = 1..(Len(d.found) + 1)
        /\ DOMAIN c.found = 1..Len(c.found) /\ DOMAIN d.found = 1..Len(d.found)
        /\ Len(c.found) \in Nat /\ Len(d.found) \in Nat
        /\ \A i \in 1..(Len(c.found) + 1) : Append(c.found, x)[i] = IF i \in 1..Len(c.found) THEN c.found[i] ELSE x
        /\ \A i \in 1..(Len(d.found) + 1) : Append(d.found, y)[i] = IF i \in 1..Len(d.found) THEN d.found[i] ELSE y
    BY <1>2
  <2>3. Len(c.found) = Len(d.found)
    <3> DEFINE a == Len(c.found)
               b1 == Len(d.found)
    <3>1. a \in Nat /\ b1 \in Nat /\ 1..a = 1..b1
      BY <1>3, <2>2
    <3> HIDE DEF a, b1
    <3>2. a >= 1 => a \in 1..b1
      <4>1. a >= 1 => a \in 1..a
        BY <3>1
      <4> QED
        BY <3>1, <4>1
    <3>3. b1 >= 1 => b1 \in 1..a
      <4>1. b1 >= 1 => b1 \in 1..b1
        BY <3>1
      <4> QED
        BY <3>1, <4>1
    <3>4. a = b1
      BY <3>1, <3>2, <3>3
    <3> QED
      BY <3>4 DEF a, b1
  <2>4. \A i \in 1..(Len(c.found) + 1) : Append(c.found, x)[i].label = Append(d.found, y)[i].label
    <3> SUFFICES ASSUME NEW i \in 1..(Len(c.found) + 1) PROVE Append(c.found, x)[i].label = Append(d.found, y)[i].label
      OBVIOUS
    <3>1. CASE i \in 1..Len(c.found)
      BY <1>3, <2>2, <2>3, <3>1
    <3>2. CASE i \notin 1..Len(c.found)
      <4>1. Append(c.found, x)[i] = x /\ Append(d.found, y)[i] = y
        BY <2>2, <2>3, <3>2
      <4> QED
        BY <1>2, <4>1
    <3> QED
      BY <3>1, <3>2
  <2> DEFINE p == Append(c.found, x)
             q == Append(d.found, y)
  <2>5. [i \in DOMAIN p |-> p[i].label] = [i \in DOMAIN q |-> q[i].label]
    <3>1. DOMAIN p = DOMAIN q /\ \A i \in DOMAIN p : p[i].label = q[i].label
      BY <2>2, <2>3, <2>4
    <3> HIDE DEF p, q
    <3> QED
      BY <3>1
  <2> HIDE DEF p, q
  <2>6. /\ chapterByte(c, j, b).line = chapterByte(d, k, b).line
        /\ chapterByte(c, j, b).found = p /\ chapterByte(d, k, b).found = q
    BY <2>1 DEF p, q
  <2> QED
    BY <2>5, <2>6 DEF Shown
<1> QED
  BY <1>4, <1>5, <1>6

\* f is what each byte of data makes of c.
ByteTurns(f, c, k, data) == f = [n \in 0..Len(data) |-> IF n = 0 THEN c ELSE chapterByte(f[n - 1], k, data[n])]

\* An event is its turns, taken to the last.
LEMMA EventIs ==
  ASSUME NEW c, NEW k, NEW data
  PROVE  chapterEvent(c, k, data) = (CHOOSE f : ByteTurns(f, c, k, data))[Len(data)]
BY DEF chapterEvent, ByteTurns

\* There are such turns.
LEMMA EventExists ==
  ASSUME NEW c \in Listings, NEW k \in Nat, NEW data \in Seq(Bytes)
  PROVE  \E f \in [0..Len(data) -> Listings] : ByteTurns(f, c, k, data)
<1> DEFINE n == Len(data)
           step == [i \in 1..n |-> [r \in Listings |-> chapterByte(r, k, data[i])]]
<1>1. n \in Nat /\ \A i \in 1..n : data[i] \in Bytes
  OBVIOUS
<1>2. step \in Steps(Listings, n)
  BY <1>1, ByteTyped DEF Steps
<1>3. PICK h \in [0..n -> Listings] : Goes(h, c, n, step)
  <2>1. n \in Nat
    BY <1>1
  <2> HIDE DEF step, n
  <2> QED
    BY <1>2, <2>1, Iteration
<1>4. \A i \in 1..n : h[i] = chapterByte(h[i - 1], k, data[i])
  <2> SUFFICES ASSUME NEW i \in 1..n PROVE h[i] = chapterByte(h[i - 1], k, data[i])
    OBVIOUS
  <2>1. i - 1 \in 0..n
    BY <1>1
  <2>2. h[i - 1] \in Listings /\ h[i] = step[i][h[i - 1]]
    BY <1>3, <2>1 DEF Goes
  <2> QED
    BY <2>2
<1>5. ByteTurns(h, c, k, data)
  BY <1>1, <1>3, <1>4 DEF ByteTurns, Goes
<1> QED
  BY <1>5

\* The turns that CHOOSE picks, each a step.
LEMMA EventTurns ==
  ASSUME NEW c \in Listings, NEW k \in Nat, NEW data \in Seq(Bytes), NEW f, ByteTurns(f, c, k, data)
  PROVE  /\ f[0] = c
         /\ \A i \in 1..Len(data) : f[i] = chapterByte(f[i - 1], k, data[i])
         /\ \A i \in 0..Len(data) : f[i] \in Listings
<1> DEFINE n == Len(data)
           S == {i \in 0..n : f[i] \in Listings}
<1>1. n \in Nat /\ \A i \in 1..n : data[i] \in Bytes
  OBVIOUS
<1>2. f[0] = c /\ \A i \in 1..n : f[i] = chapterByte(f[i - 1], k, data[i])
  BY <1>1 DEF ByteTurns
<1>3. ASSUME NEW i \in 1..n, i - 1 \in S PROVE i \in S
  <2>1. f[i - 1] \in Listings /\ i \in 0..n
    BY <1>1, <1>3
  <2> QED
    BY <1>1, <1>2, <2>1, ByteTyped
<1>3a. 0 \in S
  BY <1>1, <1>2
<1>4. \A i \in 0..n : i \in S
  <2>1. n \in Nat
    BY <1>1
  <2> HIDE DEF S, n
  <2> QED
    BY <1>3, <1>3a, <2>1, UpTo
<1> QED
  BY <1>2, <1>4

\* f runs through the bytes of data.
EventRun(f, c, k, data) ==
  /\ f[0] = c
  /\ \A i \in 1..Len(data) : f[i] = chapterByte(f[i - 1], k, data[i])
  /\ \A i \in 0..Len(data) : f[i] \in Listings

\* What an event makes of a list is the end of such a run.
LEMMA EventChosen ==
  ASSUME NEW c \in Listings, NEW k \in Nat, NEW data \in Seq(Bytes)
  PROVE  \E f : EventRun(f, c, k, data) /\ chapterEvent(c, k, data) = f[Len(data)]
<1>1. \E f : ByteTurns(f, c, k, data)
  BY EventExists
<1> DEFINE g == CHOOSE f : ByteTurns(f, c, k, data)
<1>2. ByteTurns(g, c, k, data) /\ chapterEvent(c, k, data) = g[Len(data)]
  BY <1>1, EventIs
<1> HIDE DEF g
<1>3. EventRun(g, c, k, data)
  BY <1>2, EventTurns DEF EventRun
<1> QED
  BY <1>2, <1>3

\* Listings that show the same do so after the same bytes.
LEMMA ShownEvent ==
  ASSUME NEW c \in Listings, NEW d \in Listings, Shown(c) = Shown(d), NEW j \in Nat, NEW k \in Nat,
         NEW data \in Seq(Bytes)
  PROVE  /\ Shown(chapterEvent(c, j, data)) = Shown(chapterEvent(d, k, data))
         /\ chapterEvent(c, j, data) \in Listings
<1>1. PICK f : EventRun(f, c, j, data) /\ chapterEvent(c, j, data) = f[Len(data)]
  BY EventChosen
<1>2. PICK g : EventRun(g, d, k, data) /\ chapterEvent(d, k, data) = g[Len(data)]
  BY EventChosen
<1> DEFINE n == Len(data)
           S == {i \in 0..n : Shown(f[i]) = Shown(g[i])}
<1>3. n \in Nat /\ \A i \in 1..n : data[i] \in Bytes
  OBVIOUS
<1>4. /\ f[0] = c /\ \A i \in 1..n : f[i] = chapterByte(f[i - 1], j, data[i])
      /\ \A i \in 0..n : f[i] \in Listings
  BY <1>1 DEF EventRun
<1>5. /\ g[0] = d /\ \A i \in 1..n : g[i] = chapterByte(g[i - 1], k, data[i])
      /\ \A i \in 0..n : g[i] \in Listings
  BY <1>2 DEF EventRun
<1>6. ASSUME NEW i \in 1..n, i - 1 \in S PROVE i \in S
  <2>1. i \in 0..n /\ i - 1 \in 0..n
    BY <1>3
  <2>2. f[i - 1] \in Listings /\ g[i - 1] \in Listings /\ Shown(f[i - 1]) = Shown(g[i - 1]) /\ data[i] \in Bytes
    BY <1>3, <1>4, <1>5, <1>6, <2>1
  <2>3. Shown(chapterByte(f[i - 1], j, data[i])) = Shown(chapterByte(g[i - 1], k, data[i]))
    BY <2>2, ShownByte
  <2> QED
    BY <1>4, <1>5, <2>1, <2>3
<1>7. 0 \in S
  BY <1>3, <1>4, <1>5
<1>8. n \in S
  <2>1. n \in Nat /\ n \in 0..n
    BY <1>3
  <2> HIDE DEF S, n
  <2> QED
    BY <1>6, <1>7, <2>1, UpTo
<1> QED
  BY <1>1, <1>2, <1>3, <1>4, <1>8

\* Bytes in one piece or in two are the same.
LEMMA EventConcat ==
  ASSUME NEW c \in Listings, NEW k \in Nat, NEW x \in Seq(Bytes), NEW y \in Seq(Bytes)
  PROVE  chapterEvent(c, k, x \o y) = chapterEvent(chapterEvent(c, k, x), k, y)
<1> DEFINE m == Len(x)
           n == Len(y)
           all == x \o y
           d == chapterEvent(c, k, x)
<1>1. /\ m \in Nat /\ n \in Nat /\ all \in Seq(Bytes) /\ Len(all) = m + n
      /\ \A i \in 1..m : all[i] = x[i]
      /\ \A i \in 1..n : all[m + i] = y[i]
  OBVIOUS
<1>2. PICK f : EventRun(f, c, k, x) /\ d = f[m]
  BY EventChosen
<1>3. d \in Listings
  BY <1>1, <1>2 DEF EventRun
<1> HIDE DEF d
<1>4. PICK g : EventRun(g, d, k, y) /\ chapterEvent(d, k, y) = g[n]
  BY <1>3, EventChosen
<1>5. PICK h : EventRun(h, c, k, all) /\ chapterEvent(c, k, all) = h[m + n]
  <2>1. all \in Seq(Bytes) /\ Len(all) = m + n
    BY <1>1
  <2> HIDE DEF all, m, n
  <2>2. \E h : EventRun(h, c, k, all) /\ chapterEvent(c, k, all) = h[Len(all)]
    BY <2>1, EventChosen
  <2> QED
    BY <2>1, <2>2
<1>6. f[0] = c /\ \A i \in 1..m : f[i] = chapterByte(f[i - 1], k, x[i])
  BY <1>2 DEF EventRun
<1>7. g[0] = d /\ \A i \in 1..n : g[i] = chapterByte(g[i - 1], k, y[i])
  BY <1>3, <1>4 DEF EventRun
<1>8. h[0] = c /\ \A i \in 1..(m + n) : h[i] = chapterByte(h[i - 1], k, all[i])
  BY <1>1, <1>5 DEF EventRun
<1> HIDE DEF m, n, all
<1>9. h[m] = f[m]
  <2> DEFINE S == {i \in 0..m : h[i] = f[i]}
  <2>1. 0 \in S
    BY <1>1, <1>6, <1>8
  <2>2. ASSUME NEW i \in 1..m, i - 1 \in S PROVE i \in S
    <3>1. i \in 0..m /\ i \in 1..(m + n)
      BY <1>1
    <3> QED
      BY <1>1, <1>6, <1>8, <2>2, <3>1
  <2>3. m \in S
    <3>1. m \in Nat /\ m \in 0..m
      BY <1>1
    <3> HIDE DEF S
    <3> QED
      BY <2>1, <2>2, <3>1, UpTo
  <2> QED
    BY <2>3
<1>10. h[m + n] = g[n]
  <2> DEFINE S == {i \in 0..n : h[m + i] = g[i]}
  <2>1. 0 \in S
    BY <1>1, <1>2, <1>7, <1>9
  <2>2. ASSUME NEW i \in 1..n, i - 1 \in S PROVE i \in S
    <3>1. i \in 0..n /\ m + i \in 1..(m + n) /\ (m + i) - 1 = m + (i - 1)
      BY <1>1
    <3>2. h[m + (i - 1)] = g[i - 1] /\ all[m + i] = y[i]
      BY <1>1, <2>2
    <3>3. h[m + i] = chapterByte(h[(m + i) - 1], k, all[m + i])
      BY <1>8, <3>1
    <3> QED
      BY <1>7, <3>1, <3>2, <3>3
  <2>3. n \in S
    <3>1. n \in Nat /\ n \in 0..n
      BY <1>1
    <3> HIDE DEF S
    <3> QED
      BY <2>1, <2>2, <3>1, UpTo
  <2> QED
    BY <2>3
<1> QED
  BY <1>4, <1>5, <1>10 DEF all, d

\* f is what each event makes of the list.
EventTurnsOf(f, evs) == f = [k \in 0..Len(evs) |-> IF k = 0 THEN NoListing ELSE chapterEvent(f[k - 1], k, evs[k])]
Listing(evs) == (CHOOSE f : EventTurnsOf(f, evs))[Len(evs)]

\* buildChapters is the list after the last event.
LEMMA ListingIs ==
  ASSUME NEW evs
  PROVE  buildChapters(evs) = Listing(evs).found
BY DEF buildChapters, Listing, EventTurnsOf, NoListing

\* The empty list is one.
LEMMA NoListingTyped == NoListing \in Listings
<1> DEFINE F == Seq([t : Nat, label : Commands])
<1>1. <<>> \in F /\ <<>> \in Seq(Bytes)
  OBVIOUS
<1> HIDE DEF F
<1>2. NoListing \in [line : Seq(Bytes), found : F]
  BY <1>1 DEF NoListing
<1> QED
  BY <1>2 DEF Listings, F

\* An event makes a list of a list.
LEMMA EventTyped ==
  ASSUME NEW c \in Listings, NEW k \in Nat, NEW data \in Seq(Bytes)
  PROVE  chapterEvent(c, k, data) \in Listings
BY ShownEvent

\* There are such turns for the events.
LEMMA ListingExists ==
  ASSUME NEW evs \in Seq(Seq(Bytes))
  PROVE  \E f : EventTurnsOf(f, evs)
<1> DEFINE n == Len(evs)
           step == [i \in 1..n |-> [r \in Listings |-> chapterEvent(r, i, evs[i])]]
<1>1. n \in Nat /\ \A i \in 1..n : evs[i] \in Seq(Bytes)
  OBVIOUS
<1>2. step \in Steps(Listings, n)
  <2>1. \A i \in 1..n, r \in Listings : chapterEvent(r, i, evs[i]) \in Listings
    BY <1>1, EventTyped
  <2> QED
    BY <2>1 DEF Steps
<1>3. PICK h \in [0..n -> Listings] : Goes(h, NoListing, n, step)
  <2>1. n \in Nat /\ NoListing \in Listings
    BY <1>1, NoListingTyped
  <2> HIDE DEF step, n
  <2> QED
    BY <1>2, <2>1, Iteration
<1>4. \A i \in 1..n : h[i] = chapterEvent(h[i - 1], i, evs[i])
  <2> SUFFICES ASSUME NEW i \in 1..n PROVE h[i] = chapterEvent(h[i - 1], i, evs[i])
    OBVIOUS
  <2>1. i - 1 \in 0..n
    BY <1>1
  <2>2. h[i - 1] \in Listings /\ h[i] = step[i][h[i - 1]]
    BY <1>3, <2>1 DEF Goes
  <2> QED
    BY <2>2
<1>5. EventTurnsOf(h, evs)
  BY <1>1, <1>3, <1>4 DEF EventTurnsOf, Goes
<1> QED
  BY <1>5

\* They go from event to event.
LEMMA ListingTurns ==
  ASSUME NEW evs \in Seq(Seq(Bytes)), NEW f, EventTurnsOf(f, evs)
  PROVE  /\ f[0] = NoListing
         /\ \A i \in 1..Len(evs) : f[i] = chapterEvent(f[i - 1], i, evs[i])
         /\ \A i \in 0..Len(evs) : f[i] \in Listings
<1> DEFINE n == Len(evs)
           S == {i \in 0..n : f[i] \in Listings}
<1>1. n \in Nat /\ \A i \in 1..n : evs[i] \in Seq(Bytes)
  OBVIOUS
<1>2. f[0] = NoListing /\ \A i \in 1..n : f[i] = chapterEvent(f[i - 1], i, evs[i])
  <2>1. \A i \in 0..n : f[i] = IF i = 0 THEN NoListing ELSE chapterEvent(f[i - 1], i, evs[i])
    BY Zenon DEF EventTurnsOf
  <2>2. 0 \in 0..n /\ \A i \in 1..n : i \in 0..n /\ i # 0
    BY <1>1
  <2> HIDE DEF n
  <2> QED
    BY <2>1, <2>2, Zenon
<1>3. ASSUME NEW i \in 1..n, i - 1 \in S PROVE i \in S
  <2>1. f[i - 1] \in Listings /\ i \in 0..n /\ i \in Nat /\ evs[i] \in Seq(Bytes)
    BY <1>1, <1>3
  <2>2. chapterEvent(f[i - 1], i, evs[i]) \in Listings
    BY <2>1, EventTyped
  <2> QED
    BY <1>1, <1>2, <2>1, <2>2
<1>3a. 0 \in S
  BY <1>1, <1>2, NoListingTyped
<1>4. \A i \in 0..n : i \in S
  <2>1. n \in Nat
    BY <1>1
  <2> HIDE DEF S, n
  <2> QED
    BY <1>3, <1>3a, <2>1, UpTo
<1> QED
  BY <1>2, <1>4

\* An event more.
LEMMA ListingAppend ==
  ASSUME NEW evs \in Seq(Seq(Bytes)), NEW x \in Seq(Bytes)
  PROVE  /\ Listing(evs) \in Listings
         /\ Listing(Append(evs, x)) = chapterEvent(Listing(evs), Len(evs) + 1, x)
<1> DEFINE n == Len(evs)
           more == Append(evs, x)
           L == Seq(Bytes)
<1>1. n \in Nat /\ more \in Seq(Seq(Bytes)) /\ Len(more) = n + 1 /\ more[n + 1] = x /\ \A i \in 1..n : more[i] = evs[i]
  <2>1. evs \in Seq(L) /\ x \in L
    OBVIOUS
  <2> HIDE DEF L
  <2>2. n \in Nat /\ more \in Seq(L) /\ Len(more) = n + 1 /\ more[n + 1] = x /\ \A i \in 1..n : more[i] = evs[i]
    BY <2>1
  <2> QED
    BY <2>2 DEF L
<1> HIDE DEF more
<1> DEFINE f == CHOOSE h : EventTurnsOf(h, evs)
           g == CHOOSE h : EventTurnsOf(h, more)
<1>2. EventTurnsOf(f, evs) /\ EventTurnsOf(g, more)
  BY <1>1, ListingExists
<1>3. Listing(evs) = f[n] /\ Listing(more) = g[n + 1]
  BY <1>1 DEF Listing
<1> HIDE DEF f, g
<1>4. /\ f[0] = NoListing /\ \A i \in 1..n : f[i] = chapterEvent(f[i - 1], i, evs[i])
      /\ \A i \in 0..n : f[i] \in Listings
  BY <1>2, ListingTurns
<1>5. g[0] = NoListing /\ \A i \in 1..(n + 1) : g[i] = chapterEvent(g[i - 1], i, more[i])
  <2>1. more \in Seq(Seq(Bytes)) /\ EventTurnsOf(g, more) /\ Len(more) = n + 1
    BY <1>1, <1>2
  <2> HIDE DEF n
  <2>2. g[0] = NoListing /\ \A i \in 1..Len(more) : g[i] = chapterEvent(g[i - 1], i, more[i])
    BY <2>1, ListingTurns, Zenon
  <2> QED
    BY <2>1, <2>2
<1> HIDE DEF n
<1>6. g[n] = f[n]
  <2> DEFINE S == {i \in 0..n : g[i] = f[i]}
  <2>1. 0 \in S
    BY <1>1, <1>4, <1>5
  <2>2. ASSUME NEW i \in 1..n, i - 1 \in S PROVE i \in S
    <3>1. i \in 0..n /\ i \in 1..(n + 1)
      BY <1>1
    <3> QED
      BY <1>1, <1>4, <1>5, <2>2, <3>1
  <2>3. n \in S
    <3>1. n \in Nat /\ n \in 0..n
      BY <1>1
    <3> HIDE DEF S
    <3> QED
      BY <2>1, <2>2, <3>1, UpTo
  <2> QED
    BY <2>3
<1>7. g[n + 1] = chapterEvent(g[n], n + 1, x) /\ f[n] \in Listings
  <2>1. n + 1 \in 1..(n + 1) /\ (n + 1) - 1 = n /\ n \in 0..n
    BY <1>1
  <2> QED
    BY <1>1, <1>4, <1>5, <2>1
<1> QED
  BY <1>3, <1>6, <1>7 DEF n, more

\* Another event, for all that follow the recording.
Fed(data) ==
  /\ data # <<>>
  /\ events' = Append(events, data) /\ scroll' = feed(scroll, data) /\ ring' = add(ring, data)

\* What cast.Writer may write is within what it has.
LEMMA CompleteLen ==
  ASSUME NEW all \in Seq(Bytes)
  PROVE  completeUTF8Len(all) \in 0..Len(all)
<1> DEFINE p == <<>>
<1>1. p \in Seq(Bytes) /\ Len(p) = 0
  OBVIOUS
<1>2. Clean(p \o all, Len(p))
  BY <1>1 DEF Clean
<1> HIDE DEF p
<1> QED
  BY <1>1, <1>2, CutClean

\* A step feeds one event to every view, or touches none.
LEMMA StepFeeds ==
  ASSUME TextInv, [TerminalNext]_terminalVars
  PROVE  UNCHANGED <<events, scroll, ring>> \/ \E data \in Seq(Bytes) : Fed(data)
<1>1. writer \in Seq(Bytes)
  BY DEF TextInv, TextOK
<1>2. ASSUME NEW data \in Seq(Bytes), Emit(data)
      PROVE  UNCHANGED <<events, scroll, ring>> \/ \E d \in Seq(Bytes) : Fed(d)
  BY <1>2 DEF Emit, Fed
<1>3. CASE WriteOutput
  <2>1. PICK size \in 1..(program.max - Len(raw)) : \E data \in [1..size -> program.bytes] :
          Emit(Take(writer \o data, completeUTF8Len(writer \o data)))
    BY <1>3 DEF WriteOutput
  <2>2. PICK data \in [1..size -> program.bytes] : Emit(Take(writer \o data, completeUTF8Len(writer \o data)))
    BY <2>1
  <2> DEFINE all == writer \o data
             n == completeUTF8Len(all)
  <2>3. all \in Seq(Bytes)
    <3>1. program.bytes \subseteq Bytes
      BY DEF TextInv, Bytes
    <3>2. data \in Seq(Bytes)
      BY <3>1
    <3> QED
      BY <1>1, <3>2
  <2>4. Take(all, n) \in Seq(Bytes)
    <3> HIDE DEF all
    <3>1. n \in 0..Len(all)
      BY <2>3, CompleteLen
    <3> HIDE DEF n
    <3> QED
      BY <2>3, <3>1 DEF Take
  <2> QED
    BY <1>2, <2>2, <2>4
<1>4. CASE Close
  BY <1>1, <1>2, <1>4 DEF Close
<1>5. CASE Send \/ ReadByte \/ UNCHANGED terminalVars
  BY <1>5 DEF Send, ReadByte, terminalVars
<1> QED
  BY <1>3, <1>4, <1>5 DEF TerminalNext

\* The list that follows the events shows what the list of the output in one
\* piece does.
ListedInv == Shown(Listing(events)) = Shown(Listing(<<Flat(events)>>))

\* The list of one event.
LEMMA ListingOne ==
  ASSUME NEW data \in Seq(Bytes)
  PROVE  /\ Listing(<<data>>) = chapterEvent(NoListing, 1, data)
         /\ Listing(<<>>) = NoListing
<1> DEFINE none == <<>>
<1>0. none \in Seq(Seq(Bytes)) /\ Len(none) = 0 /\ Append(none, data) = <<data>>
  OBVIOUS
<1>1. Listing(none) = NoListing
  <2>1. PICK f : EventTurnsOf(f, none)
    BY <1>0, ListingExists
  <2> DEFINE g == CHOOSE h : EventTurnsOf(h, none)
  <2>2. EventTurnsOf(g, none)
    BY <2>1
  <2>3. Listing(none) = g[0]
    BY <1>0 DEF Listing
  <2> HIDE DEF g, none
  <2>4. g[0] = NoListing
    BY <1>0, <2>2, ListingTurns
  <2> QED
    BY <2>3, <2>4
<1>2. Listing(Append(none, data)) = chapterEvent(Listing(none), Len(none) + 1, data)
  <2> HIDE DEF none
  <2> QED
    BY <1>0, ListingAppend
<1> QED
  BY <1>0, <1>1, <1>2

\* The list shows the same after another event, in one piece or not.
LEMMA ListedGrows ==
  ASSUME NEW evs \in Seq(Seq(Bytes)), NEW x \in Seq(Bytes),
         Shown(Listing(evs)) = Shown(Listing(<<Flat(evs)>>))
  PROVE  Shown(Listing(Append(evs, x))) = Shown(Listing(<<Flat(Append(evs, x))>>))
<1> DEFINE f == Flat(evs)
           c == Listing(evs)
           d == chapterEvent(NoListing, 1, f)
<1>1. f \in Seq(Bytes) /\ Flat(Append(evs, x)) = f \o x /\ f \o x \in Seq(Bytes)
  BY FlatAppend
<1>2. c \in Listings /\ Listing(Append(evs, x)) = chapterEvent(c, Len(evs) + 1, x)
  BY ListingAppend
<1> HIDE DEF f, c
<1>3. Listing(<<f>>) = d /\ Listing(<<f \o x>>) = chapterEvent(NoListing, 1, f \o x) /\ d \in Listings
  <2>1. NoListing \in Listings /\ 1 \in Nat
    BY NoListingTyped
  <2> QED
    BY <1>1, <2>1, ListingOne, EventTyped
<1>4. chapterEvent(NoListing, 1, f \o x) = chapterEvent(d, 1, x)
  <2>1. NoListing \in Listings /\ 1 \in Nat
    BY NoListingTyped
  <2> QED
    BY <1>1, <2>1, EventConcat
<1> HIDE DEF d
<1>5. Shown(c) = Shown(d)
  BY <1>3 DEF c, f
<1>6. Shown(chapterEvent(c, Len(evs) + 1, x)) = Shown(chapterEvent(d, 1, x))
  <2>1. Len(evs) + 1 \in Nat /\ 1 \in Nat
    OBVIOUS
  <2> QED
    BY <1>2, <1>3, <1>5, <2>1, ShownEvent
<1> QED
  BY <1>1, <1>2, <1>3, <1>4, <1>6

\* What the player lists is what the list shows.
LEMMA LabelsShown ==
  ASSUME NEW evs
  PROVE  Labels(evs) = Shown(Listing(evs)).labels
BY ListingIs DEF Labels, Shown

\* The list keeps showing what that of the output in one piece does.
LEMMA ListedStep ==
  ASSUME TextInv, ListedInv, [TerminalNext]_terminalVars
  PROVE  ListedInv'
<1>1. events \in Seq(Seq(Bytes))
  BY DEF TextInv, TextOK
<1>2. CASE UNCHANGED <<events, scroll, ring>>
  BY <1>2 DEF ListedInv
<1>3. ASSUME NEW data \in Seq(Bytes), Fed(data) PROVE ListedInv'
  BY <1>1, <1>3, ListedGrows DEF ListedInv, Fed
<1> QED
  BY <1>2, <1>3, StepFeeds

\* It does so before the first event.
LEMMA ListedInit == TerminalInit => ListedInv
<1> SUFFICES ASSUME TerminalInit PROVE ListedInv
  OBVIOUS
<1> DEFINE none == <<>>
<1>1. none \in Seq(Bytes) /\ Len(none) = 0
  OBVIOUS
<1> HIDE DEF none
<1>2. PICK f : EventRun(f, NoListing, 1, none) /\ chapterEvent(NoListing, 1, none) = f[Len(none)]
  BY <1>1, EventChosen, NoListingTyped
<1>3. chapterEvent(NoListing, 1, none) = NoListing
  BY <1>1, <1>2 DEF EventRun
<1>4. Listing(<<none>>) = NoListing /\ Listing(<<>>) = NoListing
  BY <1>1, <1>3, ListingOne
<1>5. Flat(<<>>) = none /\ events = <<>>
  BY FlatEmpty DEF none, TerminalInit
<1> QED
  BY <1>4, <1>5 DEF ListedInv

-----------------------------------------------------------------------------
(* tail's ring: where its lines begin and end in the output.                 *)

\* The bytes of d from place a to place b, a place being behind so many bytes.
Seg(d, a, b) == SubSeq(d, a + 1, b)

\* The bytes from a to b are so many of those of d.
LEMMA SegIs ==
  ASSUME NEW B, NEW d \in Seq(B), NEW a \in Nat, NEW b \in Nat, a <= b, b <= Len(d)
  PROVE  /\ Seg(d, a, b) \in Seq(B) /\ Len(Seg(d, a, b)) = b - a
         /\ \A i \in 1..(b - a) : Seg(d, a, b)[i] = d[a + i]
BY DEF Seg

\* From the first place to the last they are all of d.
LEMMA SegWhole ==
  ASSUME NEW B, NEW d \in Seq(B)
  PROVE  Seg(d, 0, Len(d)) = d
BY DEF Seg

\* Between a place and itself there are none.
LEMMA SegNone ==
  ASSUME NEW B, NEW d \in Seq(B), NEW a \in Nat, a <= Len(d)
  PROVE  Seg(d, a, a) = <<>>
<1>1. Seg(d, a, a) \in Seq(B) /\ Len(Seg(d, a, a)) = 0
  BY SegIs
<1> QED
  BY <1>1

\* Two stretches that meet are one.
LEMMA SegJoin ==
  ASSUME NEW B, NEW d \in Seq(B), NEW a \in Nat, NEW b \in Nat, NEW c \in Nat, a <= b, b <= c, c <= Len(d)
  PROVE  Seg(d, a, b) \o Seg(d, b, c) = Seg(d, a, c)
<1>1. a + 1 \in 1..(Len(d) + 1) /\ b \in ((a + 1) - 1)..Len(d) /\ c \in b..Len(d)
  OBVIOUS
<1> QED
  BY <1>1, ConcatAdjacentSubSeq DEF Seg

\* What is behind a place does not change what is before it.
LEMMA SegKept ==
  ASSUME NEW B, NEW d \in Seq(B), NEW x \in B, NEW a \in Nat, NEW b \in Nat, a <= b, b <= Len(d)
  PROVE  Seg(Append(d, x), a, b) = Seg(d, a, b)
<1> DEFINE e == Append(d, x)
<1>1. e \in Seq(B) /\ b <= Len(e) /\ \A i \in 1..Len(d) : e[i] = d[i]
  OBVIOUS
<1> HIDE DEF e
<1>2. /\ Seg(d, a, b) \in Seq(B) /\ Len(Seg(d, a, b)) = b - a
      /\ \A i \in 1..(b - a) : Seg(d, a, b)[i] = d[a + i]
  BY SegIs
<1>3. /\ Seg(e, a, b) \in Seq(B) /\ Len(Seg(e, a, b)) = b - a
      /\ \A i \in 1..(b - a) : Seg(e, a, b)[i] = e[a + i]
  <2>1. e \in Seq(B) /\ b <= Len(e)
    BY <1>1
  <2> QED
    BY <2>1, SegIs
<1>4. \A i \in 1..(b - a) : a + i \in 1..Len(d)
  OBVIOUS
<1>5. \A i \in 1..(b - a) : Seg(e, a, b)[i] = Seg(d, a, b)[i]
  BY <1>1, <1>2, <1>3, <1>4
<1> DEFINE s == Seg(e, a, b)
           t == Seg(d, a, b)
<1> HIDE DEF s, t
<1>6. s \in Seq(B) /\ t \in Seq(B) /\ Len(s) = Len(t) /\ \A i \in 1..Len(s) : s[i] = t[i]
  BY <1>2, <1>3, <1>5 DEF s, t
<1>7. s = t
  BY <1>6, SeqEqual
<1> QED
  BY <1>7 DEF s, t, e

\* A byte more is behind the last place.
LEMMA SegAppend ==
  ASSUME NEW B, NEW d \in Seq(B), NEW x \in B, NEW a \in Nat, a <= Len(d)
  PROVE  Append(Seg(d, a, Len(d)), x) = Seg(Append(d, x), a, Len(d) + 1)
<1> DEFINE e == Append(d, x)
           n == Len(d)
           u == Seg(d, a, n)
           s == Append(u, x)
           t == Seg(e, a, n + 1)
<1>1. e \in Seq(B) /\ Len(e) = n + 1 /\ e[n + 1] = x /\ n \in Nat /\ \A i \in 1..n : e[i] = d[i]
  OBVIOUS
<1>2. u \in Seq(B) /\ Len(u) = n - a /\ \A i \in 1..(n - a) : u[i] = d[a + i]
  <2>1. n \in Nat /\ a <= n /\ n <= Len(d)
    BY <1>1
  <2> HIDE DEF n
  <2> QED
    BY <2>1, SegIs
<1> HIDE DEF e, u
<1>3. t \in Seq(B) /\ Len(t) = (n + 1) - a /\ \A i \in 1..((n + 1) - a) : t[i] = e[a + i]
  <2>1. n + 1 \in Nat /\ a <= n + 1 /\ n + 1 <= Len(e)
    BY <1>1
  <2>2. e \in Seq(B)
    BY <1>1
  <2> DEFINE m == n + 1
  <2> HIDE DEF n, m
  <2>3. Seg(e, a, m) \in Seq(B) /\ Len(Seg(e, a, m)) = m - a /\ \A i \in 1..(m - a) : Seg(e, a, m)[i] = e[a + i]
    <3>1. m \in Nat /\ a <= m /\ m <= Len(e)
      BY <2>1 DEF m
    <3> QED
      BY <2>2, <3>1, SegIs
  <2> QED
    BY <2>3 DEF m
<1>4. s \in Seq(B) /\ Len(s) = (n - a) + 1 /\ s[(n - a) + 1] = x /\ \A i \in 1..(n - a) : s[i] = u[i]
  BY <1>2
<1> HIDE DEF n, s, t
<1>5. ASSUME NEW i \in 1..Len(s) PROVE s[i] = t[i]
  <2>1. Len(s) = (n - a) + 1 /\ n \in Nat /\ n - a \in Int /\ i \in 1..((n + 1) - a)
    BY <1>1, <1>4
  <2>2. CASE i = (n - a) + 1
    <3>1. a + i = n + 1
      BY <1>1, <2>2
    <3> QED
      BY <1>1, <1>3, <1>4, <2>1, <2>2, <3>1
  <2>3. CASE i # (n - a) + 1
    <3>1. i \in 1..(n - a) /\ a + i \in 1..n
      BY <1>1, <2>1, <2>3
    <3> QED
      BY <1>1, <1>2, <1>3, <1>4, <2>1, <3>1
  <2> QED
    BY <2>2, <2>3
<1>6. Len(s) = Len(t)
  BY <1>1, <1>3, <1>4
<1>7. s = t
  BY <1>3, <1>4, <1>5, <1>6, SeqEqual
<1> QED
  BY <1>7 DEF s, t, u, e, n

\* The states of the ring.
Rings == [lines : [0..(TailLines - 1) -> Seq(Bytes)], start : 0..(TailLines - 1),
          count : 0..TailLines, partial : Seq(Bytes)]

\* The lines of ring r, and the part behind them, are what d has between the
\* places of p: the first is the start of d, or behind a line when the ring is
\* full, and the others are all the ends of lines behind it.
Holds(p, d, r) ==
  /\ p \in [0..r.count -> 0..Len(d)]
  /\ \A i, j \in 0..r.count : i < j => p[i] < p[j]
  /\ p[0] = 0 \/ (r.count = TailLines /\ d[p[0]] = "LF")
  /\ \A k \in 1..r.count : d[p[k]] = "LF"
  /\ \A i \in 1..Len(d) : i > p[0] /\ d[i] = "LF" => \E k \in 1..r.count : p[k] = i
  /\ \A k \in 0..(r.count - 1) : Append(r.lines[(r.start + k) % TailLines], "LF") = Seg(d, p[k], p[k + 1])
  /\ r.partial = Seg(d, p[r.count], Len(d))

\* The slots of the ring, from its start and once around.
LEMMA Slots ==
  ASSUME NEW T \in Nat \ {0}, NEW s \in 0..(T - 1), NEW i \in 0..T
  PROVE  (s + i) % T = IF s + i < T THEN s + i ELSE s + i - T
OBVIOUS

\* No two of them are the same.
LEMMA SlotsDiffer ==
  ASSUME NEW T \in Nat \ {0}, NEW s \in 0..(T - 1), NEW c \in 0..(T - 1), NEW k \in 0..(c - 1)
  PROVE  (s + c) % T \in 0..(T - 1) /\ (s + k) % T \in 0..(T - 1) /\ (s + k) % T # (s + c) % T
OBVIOUS

\* The empty ring has the lines of no output.
LEMMA EmptyHolds == EmptyRing \in Rings /\ \E p : Holds(p, <<>>, EmptyRing)
<1> DEFINE d == <<>>
           p == [i \in 0..0 |-> 0]
<1>1. d \in Seq(Bytes) /\ Len(d) = 0
  OBVIOUS
<1>2. EmptyRing \in Rings
  BY <1>1, TerminalAssumption DEF EmptyRing, Rings
<1> HIDE DEF d
<1>3. EmptyRing.count = 0 /\ EmptyRing.partial = d
  BY DEF EmptyRing, d
<1>4. Seg(d, 0, 0) = d
  BY <1>1, SegWhole
<1>5. Holds(p, d, EmptyRing)
  BY <1>1, <1>3, <1>4 DEF Holds
<1> QED
  BY <1>2, <1>5 DEF d

\* The facts about d and a byte more that all cases need.
OneOn(d, b, r, p) ==
  LET e == Append(d, b)
      n == Len(d)
      c == r.count
  IN  /\ n \in Nat /\ e \in Seq(Bytes) /\ Len(e) = n + 1 /\ e[n + 1] = b
      /\ \A i \in 1..n : e[i] = d[i]
      /\ c \in Nat /\ c <= TailLines /\ TailLines \in Nat \ {0}
      /\ r.start \in 0..(TailLines - 1) /\ r.lines \in [0..(TailLines - 1) -> Seq(Bytes)]
      /\ r.partial \in Seq(Bytes)
      /\ \A k \in 0..c : p[k] \in Nat /\ p[k] <= n
      /\ \A k \in 1..c : p[k] \in 1..n
      /\ \A k \in 0..(c - 1) : Seg(e, p[k], p[k + 1]) = Seg(d, p[k], p[k + 1])
      /\ Append(r.partial, b) = Seg(e, p[c], n + 1)
LEMMA OneMore ==
  ASSUME NEW d \in Seq(Bytes), NEW b \in Bytes, NEW r \in Rings, NEW p, Holds(p, d, r)
  PROVE  OneOn(d, b, r, p)
<1> DEFINE e == Append(d, b)
           n == Len(d)
           c == r.count
<1>1. n \in Nat /\ e \in Seq(Bytes) /\ Len(e) = n + 1 /\ e[n + 1] = b /\ \A i \in 1..n : e[i] = d[i]
  OBVIOUS
<1>2. /\ c \in Nat /\ c <= TailLines /\ TailLines \in Nat \ {0}
      /\ r.start \in 0..(TailLines - 1) /\ r.lines \in [0..(TailLines - 1) -> Seq(Bytes)]
      /\ r.partial \in Seq(Bytes)
  BY TerminalAssumption DEF Rings
<1> HIDE DEF c
<1>3. /\ \A i, j \in 0..c : i < j => p[i] < p[j]
      /\ \A k \in 0..c : p[k] \in 0..n
      /\ r.partial = Seg(d, p[c], n)
  BY <1>2 DEF Holds, c
<1> HIDE DEF n, e
<1>4. \A k \in 0..c : p[k] \in Nat /\ p[k] <= n
  BY <1>1, <1>3
<1>5. ASSUME NEW k \in 1..c PROVE p[k] \in 1..n
  <2>1. 0 \in 0..c /\ k \in 0..c /\ 0 < k
    BY <1>2
  <2>2. p[0] < p[k] /\ p[0] \in Nat /\ p[k] \in Nat /\ p[k] <= n
    BY <1>3, <1>4, <2>1
  <2> QED
    BY <1>1, <2>2
<1>6. ASSUME NEW k \in 0..(c - 1) PROVE Seg(e, p[k], p[k + 1]) = Seg(d, p[k], p[k + 1])
  <2>1. k \in 0..c /\ k + 1 \in 0..c /\ k < k + 1
    BY <1>2
  <2>2. p[k] \in Nat /\ p[k + 1] \in Nat /\ p[k + 1] <= n /\ p[k] < p[k + 1]
    BY <1>3, <1>4, <2>1
  <2>3. p[k] <= p[k + 1] /\ p[k + 1] <= Len(d)
    BY <2>2 DEF n
  <2> QED
    BY <2>2, <2>3, SegKept DEF e
<1>7. Append(r.partial, b) = Seg(e, p[c], n + 1)
  <2>1. c \in 0..c
    BY <1>2
  <2>2. p[c] \in Nat /\ p[c] <= Len(d)
    BY <1>4, <2>1 DEF n
  <2>3. Append(Seg(d, p[c], Len(d)), b) = Seg(Append(d, b), p[c], Len(d) + 1)
    BY <2>2, SegAppend
  <2> QED
    BY <1>3, <2>3 DEF e, n
<1> QED
  BY <1>1, <1>2, <1>4, <1>5, <1>6, <1>7 DEF OneOn, e, n, c

\* A byte of a line.
LEMMA AddPlain ==
  ASSUME NEW d \in Seq(Bytes), NEW b \in Bytes, b # "LF", NEW r \in Rings, NEW p, Holds(p, d, r)
  PROVE  addByte(r, b) \in Rings /\ Holds(p, Append(d, b), addByte(r, b))
<1> DEFINE e == Append(d, b)
           n == Len(d)
           c == r.count
           q == addByte(r, b)
<1>1. /\ n \in Nat /\ e \in Seq(Bytes) /\ Len(e) = n + 1 /\ e[n + 1] = b
      /\ \A i \in 1..n : e[i] = d[i]
      /\ c \in Nat /\ c <= TailLines /\ TailLines \in Nat \ {0}
      /\ r.partial \in Seq(Bytes)
      /\ \A k \in 0..c : p[k] \in Nat /\ p[k] <= n
      /\ \A k \in 1..c : p[k] \in 1..n
      /\ \A k \in 0..(c - 1) : Seg(e, p[k], p[k + 1]) = Seg(d, p[k], p[k + 1])
      /\ Append(r.partial, b) = Seg(e, p[c], n + 1)
  <2>1. OneOn(d, b, r, p)
    BY OneMore
  <2> QED
    BY <2>1 DEF OneOn
<1>2. q \in Rings /\ q.lines = r.lines /\ q.start = r.start /\ q.count = c /\ q.partial = Append(r.partial, b)
  <2>0. r.partial \in Seq(Bytes)
    BY <1>1
  <2>1. Append(r.partial, b) \in Seq(Bytes)
    BY <2>0
  <2> QED
    BY <2>1 DEF addByte, Rings
<1> HIDE DEF n, e, q
<1>3. /\ p \in [0..c -> 0..n]
      /\ \A i, j \in 0..c : i < j => p[i] < p[j]
      /\ p[0] = 0 \/ (c = TailLines /\ d[p[0]] = "LF")
      /\ \A k \in 1..c : d[p[k]] = "LF"
      /\ \A i \in 1..n : i > p[0] /\ d[i] = "LF" => \E k \in 1..c : p[k] = i
      /\ \A k \in 0..(c - 1) : Append(r.lines[(r.start + k) % TailLines], "LF") = Seg(d, p[k], p[k + 1])
  BY DEF Holds, n
<1> HIDE DEF c
<1>4. p \in [0..c -> 0..(n + 1)]
  BY <1>1, <1>3
<1>5. p[0] = 0 \/ (c = TailLines /\ e[p[0]] = "LF")
  <2>1. 0 \in 0..c
    BY <1>1
  <2>2. p[0] # 0 => p[0] \in 1..n
    BY <1>1, <2>1
  <2> QED
    BY <1>1, <1>3, <2>2
<1>6. \A k \in 1..c : e[p[k]] = "LF"
  BY <1>1, <1>3
<1>7. \A i \in 1..(n + 1) : i > p[0] /\ e[i] = "LF" => \E k \in 1..c : p[k] = i
  <2>1. \A i \in 1..(n + 1) : i = n + 1 \/ i \in 1..n
    BY <1>1
  <2> QED
    BY <1>1, <1>3, <2>1
<1>8. \A k \in 0..(c - 1) : Append(r.lines[(r.start + k) % TailLines], "LF") = Seg(e, p[k], p[k + 1])
  BY <1>1, <1>3
<1>9. Holds(p, e, q)
  <2>1. q.partial = Seg(e, p[q.count], Len(e))
    BY <1>1, <1>2
  <2> QED
    BY <1>1, <1>2, <1>3, <1>4, <1>5, <1>6, <1>7, <1>8, <2>1 DEF Holds
<1> QED
  BY <1>2, <1>9 DEF e, q

\* A line ends and the ring has a free slot.
LEMMA PushFree ==
  ASSUME NEW d \in Seq(Bytes), NEW b \in Bytes, b = "LF", NEW r \in Rings, NEW p, Holds(p, d, r),
         r.count < TailLines
  PROVE  addByte(r, b) \in Rings /\ \E u : Holds(u, Append(d, b), addByte(r, b))
<1> DEFINE e == Append(d, b)
           n == Len(d)
           c == r.count
           q == addByte(r, b)
           at == (r.start + c) % TailLines
           u == [k \in 0..(c + 1) |-> IF k = c + 1 THEN n + 1 ELSE p[k]]
<1>1. /\ n \in Nat /\ e \in Seq(Bytes) /\ Len(e) = n + 1 /\ e[n + 1] = b
      /\ \A i \in 1..n : e[i] = d[i]
      /\ c \in Nat /\ c < TailLines /\ TailLines \in Nat \ {0}
      /\ r.start \in 0..(TailLines - 1) /\ r.lines \in [0..(TailLines - 1) -> Seq(Bytes)]
      /\ r.partial \in Seq(Bytes)
      /\ \A k \in 0..c : p[k] \in Nat /\ p[k] <= n
      /\ \A k \in 1..c : p[k] \in 1..n
      /\ \A k \in 0..(c - 1) : Seg(e, p[k], p[k + 1]) = Seg(d, p[k], p[k + 1])
      /\ Append(r.partial, b) = Seg(e, p[c], n + 1)
  <2>1. OneOn(d, b, r, p)
    BY OneMore
  <2> QED
    BY <2>1 DEF OneOn
<1>2. at \in 0..(TailLines - 1) /\ \A k \in 0..(c - 1) : (r.start + k) % TailLines \in 0..(TailLines - 1)
                                                        /\ (r.start + k) % TailLines # at
  <2>1. c \in 0..(TailLines - 1) /\ TailLines \in Nat \ {0} /\ r.start \in 0..(TailLines - 1)
    BY <1>1
  <2> HIDE DEF c
  <2>2. \A k \in 0..(c - 1) : at \in 0..(TailLines - 1) /\ (r.start + k) % TailLines \in 0..(TailLines - 1)
                               /\ (r.start + k) % TailLines # at
    BY <2>1, SlotsDiffer
  <2>3. at \in 0..(TailLines - 1)
    <3>1. c \in 0..TailLines /\ TailLines \in Nat \ {0} /\ r.start \in 0..(TailLines - 1)
      BY <2>1
    <3>2. at = IF r.start + c < TailLines THEN r.start + c ELSE r.start + c - TailLines
      BY <3>1, Slots
    <3> HIDE DEF at
    <3> QED
      BY <2>1, <3>2
  <2> QED
    BY <2>2, <2>3
<1>3. /\ q.lines = [r.lines EXCEPT ![at] = r.partial] /\ q.start = r.start /\ q.count = c + 1 /\ q.partial = <<>>
      /\ q = [lines |-> q.lines, start |-> q.start, count |-> q.count, partial |-> q.partial]
  BY <1>1 DEF addByte, pushLine, Rings
<1>4. q \in Rings
  <2>1. q.lines \in [0..(TailLines - 1) -> Seq(Bytes)]
    BY <1>1, <1>2, <1>3
  <2>2. c + 1 \in 0..TailLines /\ <<>> \in Seq(Bytes)
    BY <1>1
  <2> HIDE DEF q, c
  <2> QED
    BY <1>1, <1>3, <2>1, <2>2 DEF Rings
<1> HIDE DEF n, e, q
<1>5. /\ p \in [0..c -> 0..n]
      /\ \A i, j \in 0..c : i < j => p[i] < p[j]
      /\ p[0] = 0
      /\ \A k \in 1..c : d[p[k]] = "LF"
      /\ \A i \in 1..n : i > p[0] /\ d[i] = "LF" => \E k \in 1..c : p[k] = i
      /\ \A k \in 0..(c - 1) : Append(r.lines[(r.start + k) % TailLines], "LF") = Seg(d, p[k], p[k + 1])
  <2>1. c # TailLines /\ 0 \in 0..c
    BY <1>1
  <2> QED
    BY <2>1 DEF Holds, n
<1>5a. c \in Nat /\ n \in Nat /\ c < TailLines /\ TailLines \in Nat
  BY <1>1
<1>5b. \A k \in 0..c : p[k] \in Nat /\ p[k] <= n
  BY <1>1
<1> HIDE DEF c
<1>6. /\ DOMAIN u = 0..(c + 1) /\ u[c + 1] = n + 1 /\ \A k \in 0..c : u[k] = p[k] /\ k \in 0..(c + 1)
      /\ \A k \in 0..(c + 1) : k = c + 1 \/ k \in 0..c
      /\ u = [k \in 0..(c + 1) |-> u[k]]
  BY <1>5a
<1> HIDE DEF u, at
<1>7. u \in [0..(c + 1) -> 0..(n + 1)]
  <2>1. \A k \in 0..(c + 1) : u[k] \in 0..(n + 1)
    <3> SUFFICES ASSUME NEW k \in 0..(c + 1) PROVE u[k] \in 0..(n + 1)
      OBVIOUS
    <3>1. CASE k = c + 1
      <4>1. n + 1 \in 0..(n + 1)
        BY <1>5a
      <4> QED
        BY <1>6, <3>1, <4>1
    <3>2. CASE k \in 0..c
      <4>1. u[k] = p[k] /\ p[k] \in Nat /\ p[k] <= n
        BY <1>5b, <1>6, <3>2
      <4> QED
        BY <1>5a, <4>1
    <3> QED
      BY <1>6, <3>1, <3>2
  <2> QED
    BY <1>6, <2>1
<1>8. ASSUME NEW i \in 0..(c + 1), NEW j \in 0..(c + 1), i < j PROVE u[i] < u[j]
  <2>1. i \in 0..c /\ u[i] = p[i] /\ p[i] \in Nat /\ p[i] <= n
    <3>1. i \in 0..c
      BY <1>5a, <1>8
    <3> QED
      BY <1>5b, <1>6, <3>1
  <2>2. CASE j = c + 1
    BY <1>5a, <1>6, <2>1, <2>2
  <2>3. CASE j \in 0..c
    BY <1>5, <1>6, <1>8, <2>1, <2>3
  <2> QED
    BY <1>6, <2>2, <2>3
<1>9. u[0] = 0
  <2>1. 0 \in 0..c
    BY <1>5a
  <2> QED
    BY <1>5, <1>6, <2>1
<1>10. \A k \in 1..(c + 1) : e[u[k]] = "LF"
  <2> SUFFICES ASSUME NEW k \in 1..(c + 1) PROVE e[u[k]] = "LF"
    OBVIOUS
  <2>1. k = c + 1 \/ (k \in 1..c /\ k \in 0..c)
    BY <1>5a
  <2>2. CASE k = c + 1
    BY <1>1, <1>6, <2>2
  <2>3. CASE k \in 1..c /\ k \in 0..c
    <3>1. u[k] = p[k] /\ d[p[k]] = "LF" /\ p[k] \in 1..n
      BY <1>1, <1>5, <1>6, <2>3
    <3> QED
      BY <1>1, <3>1
  <2> QED
    BY <2>1, <2>2, <2>3
<1>11. ASSUME NEW i \in 1..(n + 1), i > u[0], e[i] = "LF" PROVE \E k \in 1..(c + 1) : u[k] = i
  <2>1. CASE i = n + 1
    <3>1. c + 1 \in 1..(c + 1)
      BY <1>1
    <3> QED
      BY <1>6, <2>1, <3>1
  <2>2. CASE i # n + 1
    <3>1. i \in 1..n
      BY <1>1, <2>2
    <3>2. PICK k \in 1..c : p[k] = i
      BY <1>1, <1>5, <1>9, <1>11, <3>1
    <3>3. k \in 1..(c + 1) /\ k \in 0..c
      BY <1>1
    <3> QED
      BY <1>6, <3>2, <3>3
  <2> QED
    BY <2>1, <2>2
<1>12. ASSUME NEW k \in 0..c
       PROVE  Append(q.lines[(r.start + k) % TailLines], "LF") = Seg(e, u[k], u[k + 1])
  <2>1. CASE k = c
    <3>1. q.lines[at] = r.partial
      BY <1>1, <1>2, <1>3 DEF at
    <3>2. c \in 0..c /\ u[c] = p[c] /\ u[c + 1] = n + 1
      <4>1. c \in 0..c
        BY <1>5a
      <4> QED
        BY <1>6, <4>1
    <3> QED
      BY <1>1, <2>1, <3>1, <3>2 DEF at
  <2>2. CASE k # c
    <3>1. k \in 0..(c - 1) /\ k \in 0..c /\ k + 1 \in 0..c
      BY <1>1, <2>2
    <3> DEFINE x == (r.start + k) % TailLines
    <3>2. x \in 0..(TailLines - 1) /\ x # at
      BY <1>2, <3>1 DEF at
    <3>3. q.lines[x] = r.lines[x]
      <4>1. q.lines = [r.lines EXCEPT ![at] = r.partial] /\ r.lines \in [0..(TailLines - 1) -> Seq(Bytes)]
        BY <1>1, <1>3 DEF at
      <4> HIDE DEF x
      <4> QED
        BY <3>2, <4>1
    <3>4. Append(r.lines[x], "LF") = Seg(d, p[k], p[k + 1]) /\ Seg(e, p[k], p[k + 1]) = Seg(d, p[k], p[k + 1])
      BY <1>1, <1>5, <3>1
    <3>5. u[k] = p[k] /\ u[k + 1] = p[k + 1]
      BY <1>6, <3>1
    <3> QED
      BY <3>3, <3>4, <3>5
  <2> QED
    BY <2>1, <2>2
<1>13. q.partial = Seg(e, u[c + 1], Len(e))
  <2>1. n + 1 \in Nat /\ n + 1 <= Len(e) /\ u[c + 1] = n + 1 /\ Len(e) = n + 1
    BY <1>1, <1>6
  <2>2. Seg(e, n + 1, n + 1) = <<>>
    BY <1>1, <2>1, SegNone
  <2> QED
    BY <1>3, <2>1, <2>2
<1>14. Holds(u, e, q)
  <2>1. (c + 1) - 1 = c
    BY <1>1
  <2>2. \A i, j \in 0..(c + 1) : i < j => u[i] < u[j]
    BY <1>8
  <2>3. \A i \in 1..Len(e) : i > u[0] /\ e[i] = "LF" => \E k \in 1..q.count : u[k] = i
    BY <1>1, <1>3, <1>11
  <2>4. \A k \in 0..(q.count - 1) : Append(q.lines[(q.start + k) % TailLines], "LF") = Seg(e, u[k], u[k + 1])
    BY <1>3, <1>12, <2>1
  <2>5. q.count = c + 1 /\ Len(e) = n + 1
    BY <1>1, <1>3
  <2> QED
    BY <1>7, <1>9, <1>10, <1>13, <2>2, <2>3, <2>4, <2>5 DEF Holds
<1> QED
  BY <1>4, <1>14 DEF e, q

\* The slots when the start moves on from s to t.
StartMoves(T, s, t) ==
  /\ t \in 0..(T - 1)
  /\ (t + (T - 1)) % T = s
  /\ \A k \in 0..(T - 2) : /\ (t + k) % T = (s + (k + 1)) % T
                           /\ (t + k) % T \in 0..(T - 1) /\ (t + k) % T # s

\* Once around, the slots from the next start are those from this one.
LEMMA SlotsTurn ==
  ASSUME NEW T \in Nat \ {0}, NEW s \in 0..(T - 1)
  PROVE  StartMoves(T, s, (s + 1) % T)
<1> DEFINE t == (s + 1) % T
<1>1. t = IF s + 1 < T THEN s + 1 ELSE s + 1 - T
  <2>1. 1 \in 0..T
    OBVIOUS
  <2> QED
    BY <2>1, Slots
<1> HIDE DEF t
<1>2. t \in 0..(T - 1)
  BY <1>1
<1>3. T - 1 \in 0..T
  OBVIOUS
<1>4. (t + (T - 1)) % T = IF t + (T - 1) < T THEN t + (T - 1) ELSE t + (T - 1) - T
  BY <1>2, <1>3, Slots
<1>5. ASSUME NEW k \in 0..(T - 2)
      PROVE  (t + k) % T = (s + (k + 1)) % T /\ (t + k) % T \in 0..(T - 1) /\ (t + k) % T # s
  <2>1. k \in 0..T /\ k + 1 \in 0..T
    OBVIOUS
  <2>2. (t + k) % T = IF t + k < T THEN t + k ELSE t + k - T
    BY <1>2, <2>1, Slots
  <2>3. (s + (k + 1)) % T = IF s + (k + 1) < T THEN s + (k + 1) ELSE s + (k + 1) - T
    BY <2>1, Slots
  <2> DEFINE x == (t + k) % T
             y == (s + (k + 1)) % T
  <2>4. x = y /\ x \in 0..(T - 1) /\ x # s
    <3>1. x = (IF t + k < T THEN t + k ELSE t + k - T) /\ y = (IF s + (k + 1) < T THEN s + (k + 1) ELSE s + (k + 1) - T)
      BY <2>2, <2>3
    <3> HIDE DEF x, y
    <3> QED
      BY <1>1, <3>1
  <2> QED
    BY <2>4
<1>6. (t + (T - 1)) % T = s
  <2> DEFINE x == (t + (T - 1)) % T
  <2>1. x = IF t + (T - 1) < T THEN t + (T - 1) ELSE t + (T - 1) - T
    BY <1>4
  <2> HIDE DEF x
  <2>2. x = s
    BY <1>1, <2>1
  <2> QED
    BY <2>2 DEF x
<1> QED
  BY <1>2, <1>5, <1>6 DEF StartMoves, t

\* A line ends and takes the slot of the oldest.
LEMMA PushFull ==
  ASSUME NEW d \in Seq(Bytes), NEW b \in Bytes, b = "LF", NEW r \in Rings, NEW p, Holds(p, d, r),
         r.count = TailLines
  PROVE  addByte(r, b) \in Rings /\ \E u : Holds(u, Append(d, b), addByte(r, b))
<1> DEFINE e == Append(d, b)
           n == Len(d)
           c == TailLines
           q == addByte(r, b)
           to == (r.start + 1) % TailLines
           u == [k \in 0..c |-> IF k = c THEN n + 1 ELSE p[k + 1]]
<1>1. /\ n \in Nat /\ e \in Seq(Bytes) /\ Len(e) = n + 1 /\ e[n + 1] = b
      /\ \A i \in 1..n : e[i] = d[i]
      /\ c \in Nat \ {0}
      /\ r.start \in 0..(c - 1) /\ r.lines \in [0..(c - 1) -> Seq(Bytes)]
      /\ r.partial \in Seq(Bytes)
      /\ \A k \in 0..c : p[k] \in Nat /\ p[k] <= n
      /\ \A k \in 1..c : p[k] \in 1..n
      /\ \A k \in 0..(c - 1) : Seg(e, p[k], p[k + 1]) = Seg(d, p[k], p[k + 1])
      /\ Append(r.partial, b) = Seg(e, p[c], n + 1)
  <2>1. OneOn(d, b, r, p)
    BY OneMore
  <2> QED
    BY <2>1 DEF OneOn
<1>2. /\ to \in 0..(c - 1) /\ (to + (c - 1)) % c = r.start
      /\ \A k \in 0..(c - 2) : /\ (to + k) % c = (r.start + (k + 1)) % c
                               /\ (to + k) % c \in 0..(c - 1) /\ (to + k) % c # r.start
  <2> DEFINE s == r.start
  <2>1. c \in Nat \ {0} /\ s \in 0..(c - 1) /\ to = (s + 1) % c
    BY <1>1
  <2> HIDE DEF to, c, s
  <2>2. StartMoves(c, s, to)
    BY <2>1, SlotsTurn
  <2> QED
    BY <2>2 DEF s, StartMoves
<1>3. /\ q.lines = [r.lines EXCEPT ![r.start] = r.partial] /\ q.start = to /\ q.count = c /\ q.partial = <<>>
      /\ q = [lines |-> q.lines, start |-> q.start, count |-> q.count, partial |-> q.partial]
  <2>1. ~(r.count < TailLines)
    BY <1>1
  <2> QED
    BY <2>1 DEF addByte, pushLine, Rings
<1>4. q \in Rings
  <2>1. q.lines \in [0..(c - 1) -> Seq(Bytes)]
    BY <1>1, <1>3
  <2>2. c \in 0..c /\ <<>> \in Seq(Bytes)
    BY <1>1
  <2> HIDE DEF q, to
  <2> QED
    BY <1>2, <1>3, <2>1, <2>2 DEF Rings
<1>5. /\ \A i, j \in 0..c : i < j => p[i] < p[j]
      /\ \A k \in 1..c : d[p[k]] = "LF"
      /\ \A i \in 1..n : i > p[0] /\ d[i] = "LF" => \E k \in 1..c : p[k] = i
      /\ \A k \in 0..(c - 1) : Append(r.lines[(r.start + k) % c], "LF") = Seg(d, p[k], p[k + 1])
  BY DEF Holds
<1>5a. c \in Nat \ {0} /\ n \in Nat /\ c >= 1
  BY <1>1
<1>5b. \A k \in 0..c : p[k] \in Nat /\ p[k] <= n
  BY <1>1
<1> HIDE DEF n, e, q, to, c
<1>6. /\ u[c] = n + 1 /\ \A k \in 0..(c - 1) : u[k] = p[k + 1]
      /\ u = [k \in 0..c |-> u[k]]
  BY <1>5a
<1> HIDE DEF u
<1>6a. \A k \in 0..c : k = c \/ k \in 0..(c - 1)
  BY <1>5a
<1>7. u \in [0..c -> 0..(n + 1)]
  <2>1. ASSUME NEW k \in 0..c PROVE u[k] \in 0..(n + 1)
    <3>1. CASE k = c
      <4>1. n + 1 \in 0..(n + 1)
        BY <1>5a
      <4> QED
        BY <1>6, <3>1, <4>1
    <3>2. CASE k \in 0..(c - 1)
      <4>1. u[k] = p[k + 1] /\ k + 1 \in 0..c
        BY <1>5a, <1>6, <3>2
      <4>2. p[k + 1] \in Nat /\ p[k + 1] <= n
        BY <1>5b, <4>1
      <4> QED
        BY <1>5a, <4>1, <4>2
    <3> QED
      BY <1>6a, <3>1, <3>2
  <2> QED
    BY <1>6, <2>1
<1>8. ASSUME NEW i \in 0..c, NEW j \in 0..c, i < j PROVE u[i] < u[j]
  <2>1. i \in 0..(c - 1) /\ i + 1 \in 0..c
    BY <1>5a, <1>8
  <2>2. u[i] = p[i + 1] /\ p[i + 1] \in Nat /\ p[i + 1] <= n
    BY <1>5b, <1>6, <2>1
  <2>3. CASE j = c
    BY <1>5a, <1>6, <2>2, <2>3
  <2>4. CASE j \in 0..(c - 1)
    <3>1. j + 1 \in 0..c /\ i + 1 < j + 1
      BY <1>5a, <1>8, <2>4
    <3> QED
      BY <1>5, <1>6, <2>1, <2>2, <2>4, <3>1
  <2> QED
    BY <1>6a, <2>3, <2>4
<1>9. u[0] = p[1] /\ e[u[0]] = "LF" /\ p[0] < p[1]
  <2>1. 0 \in 0..(c - 1) /\ 0 \in 0..c /\ 1 \in 0..c /\ 1 \in 1..c /\ 0 + 1 = 1 /\ 0 < 1
    BY <1>5a
  <2>2. u[0] = p[0 + 1] /\ p[0] < p[1]
    BY <1>5, <1>6, <2>1
  <2>3. u[0] = p[1]
    BY <2>1, <2>2
  <2>4. p[1] \in 1..n /\ d[p[1]] = "LF"
    BY <1>1, <1>5, <2>1
  <2> QED
    BY <1>1, <2>2, <2>3, <2>4
<1>10. ASSUME NEW k \in 1..c PROVE e[u[k]] = "LF"
  <2>1. CASE k = c
    BY <1>1, <1>6, <2>1
  <2>2. CASE k # c
    <3>1. k \in 0..(c - 1) /\ k + 1 \in 1..c
      BY <1>5a, <2>2
    <3>2. u[k] = p[k + 1] /\ d[p[k + 1]] = "LF" /\ p[k + 1] \in 1..n
      BY <1>1, <1>5, <1>6, <3>1
    <3> QED
      BY <1>1, <3>2
  <2> QED
    BY <2>1, <2>2
<1>11. ASSUME NEW i \in 1..(n + 1), i > u[0], e[i] = "LF" PROVE \E k \in 1..c : u[k] = i
  <2>1. CASE i = n + 1
    <3>1. c \in 1..c
      BY <1>5a
    <3> QED
      BY <1>6, <2>1, <3>1
  <2>2. CASE i # n + 1
    <3>1. i \in 1..n
      BY <1>5a, <2>2
    <3>2. p[0] \in Nat /\ p[1] \in Nat
      <4>1. 0 \in 0..c /\ 1 \in 0..c
        BY <1>5a
      <4> QED
        BY <1>5b, <4>1
    <3>3. i > p[0] /\ i > p[1]
      BY <1>9, <1>11, <3>2
    <3>4. d[i] = "LF"
      BY <1>1, <1>11, <3>1
    <3>5. PICK k \in 1..c : p[k] = i
      BY <1>5, <3>1, <3>3, <3>4
    <3>6. k # 1
      BY <3>2, <3>3, <3>5
    <3>7. k - 1 \in 1..c /\ k - 1 \in 0..(c - 1) /\ (k - 1) + 1 = k
      BY <1>5a, <3>6
    <3>8. u[k - 1] = p[(k - 1) + 1]
      BY <1>6, <3>7
    <3> QED
      BY <3>5, <3>7, <3>8
  <2> QED
    BY <2>1, <2>2
<1>12. ASSUME NEW k \in 0..(c - 1)
       PROVE  Append(q.lines[(to + k) % c], "LF") = Seg(e, u[k], u[k + 1])
  <2>0. q.lines = [r.lines EXCEPT ![r.start] = r.partial] /\ r.lines \in [0..(c - 1) -> Seq(Bytes)]
        /\ r.start \in 0..(c - 1)
    BY <1>1, <1>3
  <2>1. CASE k = c - 1
    <3>1. q.lines[(to + (c - 1)) % c] = r.partial
      <4>1. (to + (c - 1)) % c = r.start
        BY <1>2
      <4>2. q.lines[r.start] = r.partial
        BY <2>0
      <4> QED
        BY <4>1, <4>2
    <3>2. u[k] = p[k + 1] /\ k + 1 = c
      <4>1. k + 1 = c /\ k \in 0..(c - 1)
        BY <1>5a, <2>1
      <4> QED
        BY <1>6, <4>1
    <3>3. u[k] = p[c] /\ u[k + 1] = n + 1
      BY <1>6, <3>2
    <3>4. Append(r.partial, "LF") = Seg(e, p[c], n + 1)
      BY <1>1
    <3> QED
      BY <2>1, <3>1, <3>3, <3>4
  <2>2. CASE k # c - 1
    <3>1. k \in 0..(c - 2) /\ k + 1 \in 0..(c - 1)
      BY <1>5a, <2>2
    <3> DEFINE x == (to + k) % c
    <3>2. x \in 0..(c - 1) /\ x # r.start /\ x = (r.start + (k + 1)) % c
      BY <1>2, <3>1
    <3>3. Append(r.lines[(r.start + (k + 1)) % c], "LF") = Seg(d, p[k + 1], p[(k + 1) + 1])
          /\ Seg(e, p[k + 1], p[(k + 1) + 1]) = Seg(d, p[k + 1], p[(k + 1) + 1])
      BY <1>1, <1>5, <3>1
    <3>4. u[k] = p[k + 1] /\ u[k + 1] = p[(k + 1) + 1]
      BY <1>6, <3>1
    <3> HIDE DEF x
    <3>5. q.lines[x] = r.lines[x]
      BY <2>0, <3>2
    <3>6. Append(q.lines[x], "LF") = Seg(e, u[k], u[k + 1])
      BY <3>2, <3>3, <3>4, <3>5
    <3> QED
      BY <3>6 DEF x
  <2> QED
    BY <2>1, <2>2
<1>13. q.partial = Seg(e, u[c], Len(e))
  <2>1. n + 1 \in Nat /\ n + 1 <= Len(e) /\ u[c] = n + 1 /\ Len(e) = n + 1 /\ e \in Seq(Bytes)
    BY <1>1, <1>6
  <2>2. Seg(e, n + 1, n + 1) = <<>>
    BY <2>1, SegNone
  <2> QED
    BY <1>3, <2>1, <2>2
<1>14. Holds(u, e, q)
  <2>2. \A i, j \in 0..c : i < j => u[i] < u[j]
    BY <1>8
  <2>3. \A i \in 1..Len(e) : i > u[0] /\ e[i] = "LF" => \E k \in 1..c : u[k] = i
    BY <1>1, <1>11
  <2>4. \A k \in 0..(c - 1) : Append(q.lines[(q.start + k) % TailLines], "LF") = Seg(e, u[k], u[k + 1])
    BY <1>3, <1>12 DEF c
  <2>5. q.count = c /\ Len(e) = n + 1 /\ c = TailLines
    BY <1>1, <1>3 DEF c
  <2>6. \A k \in 1..c : e[u[k]] = "LF"
    BY <1>10
  <2>7. u[0] = 0 \/ (c = TailLines /\ e[u[0]] = "LF")
    BY <1>9, <2>5
  <2> HIDE DEF c
  <2> QED
    BY <1>7, <1>13, <2>2, <2>3, <2>4, <2>5, <2>6, <2>7 DEF Holds
<1> QED
  BY <1>4, <1>14 DEF e, q

\* A byte more.
LEMMA AddHolds ==
  ASSUME NEW d \in Seq(Bytes), NEW b \in Bytes, NEW r \in Rings, \E p : Holds(p, d, r)
  PROVE  addByte(r, b) \in Rings /\ \E u : Holds(u, Append(d, b), addByte(r, b))
<1>1. PICK p : Holds(p, d, r)
  OBVIOUS
<1>2. CASE b # "LF"
  BY <1>1, <1>2, AddPlain
<1>3. CASE b = "LF" /\ r.count < TailLines
  BY <1>1, <1>3, PushFree
<1>4. CASE b = "LF" /\ r.count = TailLines
  BY <1>1, <1>4, PushFull
<1>5. r.count < TailLines \/ r.count = TailLines
  BY TerminalAssumption DEF Rings
<1> QED
  BY <1>2, <1>3, <1>4, <1>5

\* A byte makes a ring of a ring.
LEMMA RingTyped ==
  ASSUME NEW r \in Rings, NEW b \in Bytes
  PROVE  addByte(r, b) \in Rings
<1>1. /\ r.count \in 0..TailLines /\ TailLines \in Nat \ {0}
      /\ r.start \in 0..(TailLines - 1) /\ r.lines \in [0..(TailLines - 1) -> Seq(Bytes)]
      /\ r.partial \in Seq(Bytes)
  BY TerminalAssumption DEF Rings
<1>2. Append(r.partial, b) \in Seq(Bytes) /\ <<>> \in Seq(Bytes)
  BY <1>1
<1>3. CASE b # "LF"
  BY <1>2, <1>3 DEF addByte, Rings
<1> DEFINE at == (r.start + r.count) % TailLines
           to == (r.start + 1) % TailLines
<1>4. to \in 0..(TailLines - 1)
  <2> DEFINE s == r.start
  <2>1. s \in 0..(TailLines - 1) /\ TailLines \in Nat \ {0}
    BY <1>1
  <2> HIDE DEF s
  <2>2. StartMoves(TailLines, s, (s + 1) % TailLines)
    BY <2>1, SlotsTurn
  <2> QED
    BY <2>2 DEF StartMoves, s
<1>5. CASE b = "LF" /\ r.count < TailLines
  <2> DEFINE ls == [r.lines EXCEPT ![at] = r.partial]
  <2>1. ls \in [0..(TailLines - 1) -> Seq(Bytes)]
    BY <1>1
  <2>2. r.count + 1 \in 0..TailLines
    BY <1>1, <1>5
  <2>3. addByte(r, b) = [lines |-> ls, start |-> r.start, count |-> r.count + 1, partial |-> <<>>]
    BY <1>5 DEF addByte, pushLine, Rings
  <2> HIDE DEF ls
  <2> QED
    BY <1>1, <1>2, <2>1, <2>2, <2>3 DEF Rings
<1>6. CASE b = "LF" /\ ~(r.count < TailLines)
  <2> DEFINE ls == [r.lines EXCEPT ![r.start] = r.partial]
  <2>1. ls \in [0..(TailLines - 1) -> Seq(Bytes)]
    BY <1>1
  <2>3. addByte(r, b) = [lines |-> ls, start |-> to, count |-> r.count, partial |-> <<>>]
    BY <1>6 DEF addByte, pushLine, Rings
  <2> HIDE DEF ls, to
  <2> QED
    BY <1>1, <1>2, <1>4, <2>1, <2>3 DEF Rings
<1> QED
  BY <1>3, <1>5, <1>6

\* f runs through the bytes of data.
RingTurns(f, r, data) == f = [n \in 0..Len(data) |-> IF n = 0 THEN r ELSE addByte(f[n - 1], data[n])]
RingRun(f, r, data) == f[0] = r /\ \A i \in 1..Len(data) : f[i] = addByte(f[i - 1], data[i])

\* lineRing.add is its turns, taken to the last.
LEMMA AddIs ==
  ASSUME NEW r, NEW data
  PROVE  add(r, data) = (CHOOSE f : RingTurns(f, r, data))[Len(data)]
BY DEF add, RingTurns

\* There are such turns, and add is the end of them.
LEMMA AddChosen ==
  ASSUME NEW r \in Rings, NEW data \in Seq(Bytes)
  PROVE  \E f : RingRun(f, r, data) /\ add(r, data) = f[Len(data)]
<1> DEFINE n == Len(data)
           step == [i \in 1..n |-> [q \in Rings |-> addByte(q, data[i])]]
<1>1. n \in Nat /\ \A i \in 1..n : data[i] \in Bytes
  OBVIOUS
<1>2. step \in Steps(Rings, n)
  BY <1>1, RingTyped DEF Steps
<1>3. PICK h \in [0..n -> Rings] : Goes(h, r, n, step)
  <2>1. n \in Nat
    BY <1>1
  <2> HIDE DEF step, n
  <2> QED
    BY <1>2, <2>1, Iteration
<1>4. \A i \in 1..n : h[i] = addByte(h[i - 1], data[i])
  <2> SUFFICES ASSUME NEW i \in 1..n PROVE h[i] = addByte(h[i - 1], data[i])
    OBVIOUS
  <2>1. i - 1 \in 0..n
    BY <1>1
  <2>2. h[i - 1] \in Rings /\ h[i] = step[i][h[i - 1]]
    BY <1>3, <2>1 DEF Goes
  <2> QED
    BY <2>2
<1>5. RingTurns(h, r, data)
  BY <1>1, <1>3, <1>4 DEF RingTurns, Goes
<1> DEFINE g == CHOOSE f : RingTurns(f, r, data)
<1>6. RingTurns(g, r, data) /\ add(r, data) = g[n]
  BY <1>5, AddIs
<1> HIDE DEF g
<1>7. RingRun(g, r, data)
  BY <1>1, <1>6 DEF RingTurns, RingRun
<1> QED
  BY <1>6, <1>7

\* One byte more of d.
LEMMA SegNext ==
  ASSUME NEW d \in Seq(Bytes), NEW k \in Nat, k < Len(d)
  PROVE  Append(Seg(d, 0, k), d[k + 1]) = Seg(d, 0, k + 1) /\ Seg(d, 0, k) \in Seq(Bytes)
<1> DEFINE u == Seg(d, 0, k)
           s == Append(u, d[k + 1])
           t == Seg(d, 0, k + 1)
<1>1. d[k + 1] \in Bytes
  OBVIOUS
<1>2. u \in Seq(Bytes) /\ Len(u) = k /\ \A i \in 1..k : u[i] = d[i]
  BY DEF Seg
<1>3. t \in Seq(Bytes) /\ Len(t) = k + 1 /\ \A i \in 1..(k + 1) : t[i] = d[i]
  BY DEF Seg
<1> HIDE DEF u, t
<1>4. s \in Seq(Bytes) /\ Len(s) = k + 1 /\ s[k + 1] = d[k + 1] /\ \A i \in 1..k : s[i] = u[i]
  BY <1>1, <1>2
<1> HIDE DEF s
<1>5. \A i \in 1..(k + 1) : i = k + 1 \/ i \in 1..k
  OBVIOUS
<1>6. \A i \in 1..Len(s) : s[i] = t[i]
  BY <1>2, <1>3, <1>4, <1>5
<1>7. Len(s) = Len(t)
  BY <1>3, <1>4
<1>8. s = t
  BY <1>3, <1>4, <1>6, <1>7, SeqEqual
<1> QED
  BY <1>2, <1>8 DEF s, t, u

\* Ring r has the last lines of d.
RingInv(d, r) == r \in Rings /\ \E p : Holds(p, d, r)

\* More bytes.
LEMMA AddMore ==
  ASSUME NEW d \in Seq(Bytes), NEW data \in Seq(Bytes), NEW r, RingInv(d, r)
  PROVE  RingInv(d \o data, add(r, data))
<1> DEFINE m == Len(d)
           n == Len(data)
           all == d \o data
           Pre(i) == Seg(all, 0, m + i)
<1>0. r \in Rings
  BY DEF RingInv
<1>1. /\ m \in Nat /\ n \in Nat /\ all \in Seq(Bytes) /\ Len(all) = m + n
      /\ \A i \in 1..n : all[m + i] = data[i] /\ data[i] \in Bytes
      /\ \A i \in 1..m : all[i] = d[i]
  OBVIOUS
<1>2. PICK f : RingRun(f, r, data) /\ add(r, data) = f[n]
  BY <1>0, AddChosen
<1>3. f[0] = r /\ \A i \in 1..n : f[i] = addByte(f[i - 1], data[i])
  BY <1>2 DEF RingRun
<1> HIDE DEF all, m, n
<1> DEFINE S == {i \in 0..n : RingInv(Pre(i), f[i])}
<1>4. 0 \in S
  <2> DEFINE t == Seg(all, 0, m)
  <2>1. t \in Seq(Bytes) /\ Len(t) = m /\ \A i \in 1..m : t[i] = all[i]
    BY <1>1 DEF Seg
  <2> HIDE DEF t
  <2>2. Len(t) = Len(d) /\ \A i \in 1..Len(t) : t[i] = d[i]
    BY <1>1, <2>1 DEF m
  <2>3. t = d
    BY <2>1, <2>2, SeqEqual
  <2>4. m + 0 = m /\ 0 \in 0..n
    BY <1>1
  <2> QED
    BY <1>3, <2>3, <2>4 DEF t
<1>5. ASSUME NEW i \in 1..n, i - 1 \in S PROVE i \in S
  <2>1. m + (i - 1) \in Nat /\ m + (i - 1) < Len(all) /\ (m + (i - 1)) + 1 = m + i /\ i \in 0..n
    BY <1>1
  <2>2. Append(Pre(i - 1), all[(m + (i - 1)) + 1]) = Seg(all, 0, (m + (i - 1)) + 1) /\ Pre(i - 1) \in Seq(Bytes)
    BY <1>1, <2>1, SegNext
  <2>3. Append(Pre(i - 1), data[i]) = Pre(i) /\ data[i] \in Bytes
    BY <1>1, <2>1, <2>2
  <2>4. RingInv(Pre(i - 1), f[i - 1]) /\ f[i] = addByte(f[i - 1], data[i])
    BY <1>3, <1>5
  <2> HIDE DEF Pre
  <2>5. f[i - 1] \in Rings /\ \E p : Holds(p, Pre(i - 1), f[i - 1])
    BY <2>4 DEF RingInv
  <2>6. addByte(f[i - 1], data[i]) \in Rings /\ \E u : Holds(u, Append(Pre(i - 1), data[i]), addByte(f[i - 1], data[i]))
    BY <2>2, <2>3, <2>5, AddHolds
  <2>7. RingInv(Pre(i), f[i])
    BY <2>3, <2>4, <2>6 DEF RingInv
  <2> QED
    BY <2>1, <2>7
<1>6. n \in S
  <2>1. n \in Nat /\ n \in 0..n
    BY <1>1
  <2> HIDE DEF S
  <2> QED
    BY <1>4, <1>5, <2>1, UpTo
<1>7. Pre(n) = all
  <2>1. Seg(all, 0, Len(all)) = all
    BY <1>1, SegWhole
  <2> QED
    BY <1>1, <2>1
<1>8. RingInv(Pre(n), f[n])
  BY <1>6
<1> HIDE DEF Pre
<1> QED
  BY <1>2, <1>7, <1>8 DEF all

\* How many lines of the ring give way to the part behind them.
Skipped(r) == IF r.partial # <<>> /\ r.count = TailLines THEN 1 ELSE 0
\* Those that are left.
PrintedLines(r) ==
  [k \in 1..(r.count - Skipped(r)) |-> Append(r.lines[(r.start + (Skipped(r) + k - 1)) % TailLines], "LF")]

\* lineRing.String: the lines that stay, and the part.
LEMMA PrintsIs ==
  ASSUME NEW r
  PROVE  RingString(r) = Flat(PrintedLines(r)) \o r.partial
BY DEF RingString, Flat, PrintedLines, Skipped

\* What is printed is the output from one of its places.
LEMMA RingPrints ==
  ASSUME NEW d \in Seq(Bytes), NEW r \in Rings, NEW p, Holds(p, d, r)
  PROVE  RingString(r) = Seg(d, p[Skipped(r)], Len(d))
<1> DEFINE c == r.count
           z == Skipped(r)
           n == Len(d)
           s == PrintedLines(r)
           m == c - z
<1>1. /\ c \in Nat /\ z \in Nat /\ z <= c /\ n \in Nat /\ m \in Nat /\ z + m = c
      /\ r.partial \in Seq(Bytes)
  <2>1. c \in Nat /\ TailLines \in Nat \ {0} /\ r.partial \in Seq(Bytes)
    BY TerminalAssumption DEF Rings
  <2>2. z \in {0, 1} /\ (z = 1 => c = TailLines)
    BY DEF Skipped
  <2> HIDE DEF c, z
  <2> QED
    BY <2>1, <2>2
<1>2. /\ p \in [0..c -> 0..n]
      /\ \A i, j \in 0..c : i < j => p[i] < p[j]
      /\ \A k \in 0..(c - 1) : Append(r.lines[(r.start + k) % TailLines], "LF") = Seg(d, p[k], p[k + 1])
      /\ r.partial = Seg(d, p[c], n)
  BY DEF Holds
<1>2a. ASSUME NEW i \in 0..c, NEW j \in 0..c, i <= j
       PROVE  p[i] \in Nat /\ p[j] \in Nat /\ p[i] <= p[j] /\ p[j] <= n
  <2>1. p[i] \in Nat /\ p[j] \in Nat /\ p[j] <= n /\ (i = j \/ i < j)
    <3>1. p[i] \in 0..n /\ p[j] \in 0..n
      <4> HIDE DEF n, c
      <4> QED
        BY <1>2
    <3>2. i = j \/ i < j
      BY <1>1, <1>2a
    <3> HIDE DEF n, c
    <3> QED
      BY <1>1, <3>1, <3>2
  <2>2. i < j => p[i] < p[j]
    BY <1>2
  <2> QED
    BY <2>1, <2>2
<1>3. DOMAIN s = 1..m /\ s = [k \in 1..m |-> s[k]]
      /\ \A k \in 1..m : s[k] = Append(r.lines[(r.start + (z + k - 1)) % TailLines], "LF")
  BY DEF PrintedLines
<1> HIDE DEF c, z, n, m, s
<1>4. ASSUME NEW k \in 1..m
      PROVE  /\ s[k] = Seg(d, p[z + (k - 1)], p[z + k]) /\ s[k] \in Seq(Bytes)
             /\ z + (k - 1) \in 0..c /\ z + k \in 0..c /\ z \in 0..c
  <2>1. z + (k - 1) \in 0..(c - 1) /\ z + k - 1 = z + (k - 1) /\ (z + (k - 1)) + 1 = z + k
        /\ z + (k - 1) \in 0..c /\ z + k \in 0..c /\ z + (k - 1) <= z + k /\ z \in 0..c
    BY <1>1
  <2>2. s[k] = Append(r.lines[(r.start + (z + (k - 1))) % TailLines], "LF")
    BY <1>3, <2>1
  <2>3. s[k] = Seg(d, p[z + (k - 1)], p[z + k])
    BY <1>2, <2>1, <2>2
  <2>4. p[z + (k - 1)] \in Nat /\ p[z + k] \in Nat /\ p[z + (k - 1)] <= p[z + k] /\ p[z + k] <= Len(d)
    BY <1>2a, <2>1 DEF n
  <2>5. Seg(d, p[z + (k - 1)], p[z + k]) \in Seq(Bytes)
    BY <2>4, SegIs
  <2> QED
    BY <2>1, <2>3, <2>5
<1>5. s \in Seq(Seq(Bytes)) /\ Len(s) = m
  <2> DEFINE L == Seq(Bytes)
  <2>1. \A k \in 1..m : s[k] \in L
    BY <1>4
  <2> HIDE DEF L
  <2>2. s \in [1..m -> L]
    BY <1>3, <2>1
  <2>3. s \in Seq(L) /\ Len(s) = m
    BY <1>1, <2>2
  <2> QED
    BY <2>3 DEF L
<1>6. z \in 0..c /\ c \in 0..c /\ p[z] \in Nat /\ p[c] \in Nat /\ p[z] <= p[c] /\ p[c] <= Len(d)
  <2>1. z \in 0..c /\ c \in 0..c /\ z <= c
    BY <1>1
  <2> QED
    BY <1>2a, <2>1 DEF n
<1>7. Flat(s) = Seg(d, p[z], p[c])
  <2>1. CASE m = 0
    <3>1. s = <<>> /\ z = c
      BY <1>1, <1>5, <2>1
    <3>2. Seg(d, p[c], p[c]) = <<>>
      BY <1>6, SegNone
    <3> QED
      BY <3>1, <3>2, FlatEmpty
  <2>2. CASE m # 0
    <3> DEFINE f == CHOOSE h : Flattens(h, s)
    <3>1. Flattens(f, s)
      BY <1>5, FlatExists
    <3>2. Flat(s) = f[m]
      BY <1>5, <2>2, FlatIs
    <3> HIDE DEF f
    <3>3. \A k \in 1..m : f[k] = IF k = 1 THEN s[k] ELSE f[k - 1] \o s[k]
      BY <1>5, <3>1 DEF Flattens
    <3> DEFINE S == {k \in 0..m : k = 0 \/ f[k] = Seg(d, p[z], p[z + k])}
    <3>4. 0 \in S
      BY <1>1
    <3>5. ASSUME NEW k \in 1..m, k - 1 \in S PROVE k \in S
      <4>1. s[k] = Seg(d, p[z + (k - 1)], p[z + k]) /\ z + (k - 1) \in 0..c /\ z + k \in 0..c /\ k \in 0..m
        BY <1>1, <1>4
      <4>2. CASE k = 1
        <5>1. z + (k - 1) = z
          BY <1>1, <4>2
        <5> QED
          BY <3>3, <4>1, <4>2, <5>1
      <4>3. CASE k # 1
        <5>1. f[k - 1] = Seg(d, p[z], p[z + (k - 1)]) /\ f[k] = f[k - 1] \o s[k]
          <6>1. k - 1 # 0
            BY <4>3
          <6> QED
            BY <3>3, <3>5, <4>3, <6>1
        <5>2. z <= z + (k - 1) /\ z + (k - 1) <= z + k
          BY <1>1
        <5>3. p[z] \in Nat /\ p[z + (k - 1)] \in Nat /\ p[z + k] \in Nat
              /\ p[z] <= p[z + (k - 1)] /\ p[z + (k - 1)] <= p[z + k] /\ p[z + k] <= Len(d)
          BY <1>2a, <1>6, <4>1, <5>2 DEF n
        <5>4. Seg(d, p[z], p[z + (k - 1)]) \o Seg(d, p[z + (k - 1)], p[z + k]) = Seg(d, p[z], p[z + k])
          BY <5>3, SegJoin
        <5> QED
          BY <4>1, <5>1, <5>4
      <4> QED
        BY <4>2, <4>3
    <3>6. m \in S
      <4>1. m \in Nat /\ m \in 0..m
        BY <1>1
      <4> HIDE DEF S
      <4> QED
        BY <3>4, <3>5, <4>1, UpTo
    <3> QED
      BY <1>1, <2>2, <3>2, <3>6
  <2> QED
    BY <2>1, <2>2
<1>8. Seg(d, p[z], p[c]) \o Seg(d, p[c], Len(d)) = Seg(d, p[z], Len(d))
  <2>1. Len(d) \in Nat /\ Len(d) <= Len(d)
    OBVIOUS
  <2> QED
    BY <1>6, <2>1, SegJoin
<1>9. RingString(r) = Flat(s) \o r.partial
  BY PrintsIs DEF s
<1> QED
  BY <1>2, <1>7, <1>8, <1>9 DEF n, z

\* The first of them: the output's own, or behind a line of it.
LineStarts(d) == ({0} \cup {i \in DOMAIN d : d[i] = "LF"}) \ {Len(d)}
\* The places where a printed line begins are those from there.
LEMMA PrintedStarts ==
  ASSUME NEW d \in Seq(Bytes), NEW r \in Rings, NEW p, Holds(p, d, r)
  PROVE  LET e == p[Skipped(r)]
             A == {j \in LineStarts(d) : j >= e}
         IN  /\ e \in Nat /\ e <= Len(d)
             /\ IsFiniteSet(A) /\ Cardinality(A) <= TailLines
             /\ e # 0 => Cardinality(A) = TailLines /\ e \in A
<1> DEFINE c == r.count
           z == Skipped(r)
           n == Len(d)
           e == p[z]
           hi == IF r.partial = <<>> THEN c - 1 ELSE c
           A == {j \in LineStarts(d) : j >= e}
<1>1. /\ c \in Nat /\ n \in Nat /\ TailLines \in Nat \ {0} /\ c <= TailLines /\ DOMAIN d = 1..n
      /\ r.partial \in Seq(Bytes)
  BY TerminalAssumption DEF Rings
<1>2. /\ z \in {0, 1} /\ (z = 1 <=> r.partial # <<>> /\ c = TailLines)
  BY DEF Skipped
<1>3. /\ p \in [0..c -> 0..n]
      /\ \A i, j \in 0..c : i < j => p[i] < p[j]
      /\ p[0] = 0 \/ (c = TailLines /\ d[p[0]] = "LF")
      /\ \A k \in 1..c : d[p[k]] = "LF"
      /\ \A i \in 1..n : i > p[0] /\ d[i] = "LF" => \E k \in 1..c : p[k] = i
      /\ r.partial = Seg(d, p[c], n)
  BY DEF Holds
<1> HIDE DEF c, z
<1>4. /\ z \in 0..c /\ 0 \in 0..c /\ c \in 0..c /\ e \in Nat /\ e <= n /\ p[0] \in Nat /\ p[c] \in Nat /\ p[c] <= n
      /\ \A k \in 0..c : p[k] \in 0..n
  <2>1. z \in 0..c /\ 0 \in 0..c /\ c \in 0..c
    BY <1>1, <1>2
  <2> HIDE DEF n
  <2> QED
    BY <1>1, <1>3, <2>1
<1>5. r.partial = <<>> <=> p[c] = n
  <2>1. Seg(d, p[c], n) \in Seq(Bytes) /\ Len(Seg(d, p[c], n)) = n - p[c]
    <3>1. n \in Nat /\ p[c] \in Nat /\ p[c] <= n /\ n <= Len(d)
      BY <1>1, <1>4
    <3> HIDE DEF n
    <3> QED
      BY <3>1, SegIs
  <2>2. Len(r.partial) = n - p[c]
    BY <1>3, <2>1
  <2>3. r.partial = <<>> <=> Len(r.partial) = 0
    BY <1>1
  <2> HIDE DEF n
  <2> QED
    BY <1>1, <1>4, <2>2, <2>3
<1> HIDE DEF n, e
<1>6. \A k \in 1..c : p[k] \in 1..n /\ p[k] # 0 /\ k \in 0..c
  <2> SUFFICES ASSUME NEW k \in 1..c PROVE p[k] \in 1..n /\ p[k] # 0 /\ k \in 0..c
    OBVIOUS
  <2>1. k \in 0..c /\ 0 < k
    BY <1>1
  <2>2. p[0] < p[k] /\ p[k] \in 0..n
    BY <1>3, <1>4, <2>1
  <2> QED
    BY <1>1, <1>4, <2>1, <2>2
<1>7. hi \in Int /\ (\A k \in z..hi : k \in 0..c) /\ (\A k \in 0..c : k \in 0..hi \/ (k = c /\ p[k] = n))
  BY <1>1, <1>2, <1>5
<1>8. \A k \in z..hi : p[k] # n
  <2> SUFFICES ASSUME NEW k \in z..hi PROVE p[k] # n
    OBVIOUS
  <2>1. CASE r.partial = <<>>
    <3>1. k < c /\ k \in 0..c
      BY <1>1, <1>2, <2>1
    <3>2. p[k] < p[c] /\ p[k] \in 0..n
      BY <1>3, <1>4, <3>1
    <3> QED
      BY <1>1, <1>4, <3>2
  <2>2. CASE r.partial # <<>>
    <3>1. p[c] # n /\ k \in 0..c
      BY <1>5, <1>7, <2>2
    <3>2. k = c \/ (k < c /\ p[k] < p[c])
      BY <1>1, <1>3, <1>4, <3>1
    <3> QED
      BY <1>1, <1>4, <3>1, <3>2
  <2> QED
    BY <2>1, <2>2
<1> HIDE DEF hi
<1>9. A = {p[k] : k \in z..hi}
  <2>1. ASSUME NEW k \in z..hi PROVE p[k] \in A
    <3>1. k \in 0..c /\ p[k] # n /\ (z = k \/ z < k)
      BY <1>1, <1>2, <1>7, <1>8
    <3>2. p[k] \in Nat /\ p[k] >= e
      BY <1>1, <1>3, <1>4, <3>1 DEF e
    <3>3. p[k] = 0 \/ (p[k] \in DOMAIN d /\ d[p[k]] = "LF")
      <4>1. CASE k = 0
        BY <1>1, <1>3, <1>4, <4>1
      <4>2. CASE k # 0
        <5>1. k \in 1..c
          BY <1>1, <3>1, <4>2
        <5> QED
          BY <1>1, <1>3, <1>6, <5>1
      <4> QED
        BY <4>1, <4>2
    <3> QED
      BY <3>1, <3>2, <3>3 DEF LineStarts, n
  <2>2. ASSUME NEW j \in A PROVE j \in {p[k] : k \in z..hi}
    <3>1. j >= e /\ j # n /\ (j = 0 \/ (j \in 1..n /\ d[j] = "LF"))
      BY <1>1 DEF LineStarts, n
    <3>2. PICK k \in 0..c : p[k] = j
      <4>1. CASE j = 0
        <5>1. z = 0
          <6>1. z = 1 => z \in 1..c /\ e = p[z]
            BY <1>1, <1>2 DEF e
          <6>2. z = 1 => e # 0 /\ e \in Nat
            BY <1>4, <1>6, <6>1
          <6> QED
            BY <1>2, <3>1, <4>1, <6>2
        <5>2. p[0] = 0
          BY <1>4, <3>1, <4>1, <5>1 DEF e
        <5> QED
          BY <1>4, <4>1, <5>2
      <4>2. CASE j # 0
        <5>1. j \in 1..n /\ d[j] = "LF"
          BY <3>1, <4>2
        <5>2. z = 0 \/ z > 0
          BY <1>1, <1>2
        <5>3. p[0] <= e
          BY <1>3, <1>4, <5>2 DEF e
        <5>4. j >= p[0]
          BY <1>1, <1>4, <3>1, <5>1, <5>3
        <5>5. CASE j = p[0]
          BY <1>4, <5>5
        <5>6. CASE j > p[0]
          <6>1. PICK k \in 1..c : p[k] = j
            BY <1>3, <5>1, <5>6
          <6> QED
            BY <1>6, <6>1
        <5> QED
          BY <1>1, <1>4, <5>1, <5>4, <5>5, <5>6
      <4> QED
        BY <4>1, <4>2
    <3>3. k \in 0..hi
      BY <1>7, <3>1, <3>2
    <3>4. ~(k < z)
      <4>1. k < z => p[k] < p[z]
        BY <1>3, <1>4
      <4> QED
        BY <1>4, <3>1, <3>2, <4>1 DEF e
    <3>5. k \in z..hi
      BY <1>1, <1>2, <1>7, <3>3, <3>4
    <3> QED
      BY <3>2, <3>5
  <2> QED
    BY <2>1, <2>2
<1> HIDE DEF A
<1>10. IsFiniteSet(A) /\ Cardinality(A) = IF z > hi THEN 0 ELSE hi - z + 1
  <2> DEFINE I == z..hi
             g == [k \in I |-> p[k]]
  <2>1. IsFiniteSet(I) /\ Cardinality(I) = IF z > hi THEN 0 ELSE hi - z + 1
    BY <1>1, <1>2, <1>7, FS_Interval
  <2>2. \A k, l \in I : p[k] = p[l] => k = l
    <3> SUFFICES ASSUME NEW k \in I, NEW l \in I, k # l PROVE p[k] # p[l]
      OBVIOUS
    <3>1. k \in 0..c /\ l \in 0..c /\ (k < l \/ l < k)
      BY <1>1, <1>2, <1>7
    <3>2. p[k] \in Nat /\ p[l] \in Nat
      BY <1>4, <3>1
    <3>3. (k < l => p[k] < p[l]) /\ (l < k => p[l] < p[k])
      BY <1>3, <3>1
    <3> QED
      BY <3>1, <3>2, <3>3
  <2> HIDE DEF I
  <2>3. g \in Bijection(I, A)
    <3>1. A = {p[k] : k \in I}
      BY <1>9 DEF I
    <3>2. g \in [I -> A] /\ \A k \in I : g[k] = p[k]
      BY <3>1
    <3>3. \A x \in A : \E k \in I : g[k] = x
      BY <3>1, <3>2
    <3>4. \A k, l \in I : g[k] = g[l] => k = l
      BY <2>2, <3>2
    <3> HIDE DEF g
    <3> QED
      BY <3>2, <3>3, <3>4 DEF Bijection, Injection, Surjection, IsInjective
  <2>4. ExistsBijection(I, A)
    BY <2>3 DEF ExistsBijection
  <2> QED
    BY <2>1, <2>4, FS_Bijection
<1>11. Cardinality(A) <= TailLines
  BY <1>1, <1>2, <1>10 DEF hi
<1>12. ASSUME e # 0 PROVE Cardinality(A) = TailLines /\ e \in A
  <2>1. c = TailLines
    <3>1. z = 0 => p[0] # 0
      BY <1>12 DEF e
    <3> QED
      BY <1>2, <1>3, <3>1
  <2>2. Cardinality(A) = TailLines
    BY <1>1, <1>2, <1>10, <2>1 DEF hi
  <2>3. z \in z..hi
    BY <1>1, <1>2, <2>1 DEF hi
  <2> QED
    BY <1>9, <2>2, <2>3 DEF e
<1> QED
  BY <1>4, <1>10, <1>11, <1>12 DEF A, e, z, n

\* So many from place i are as many as there are from e only if i is e.
LEMMA SameCount ==
  ASSUME NEW S \in SUBSET Nat, NEW e \in S, NEW i \in S,
         IsFiniteSet({j \in S : j >= e}), IsFiniteSet({j \in S : j >= i}),
         Cardinality({j \in S : j >= i}) = Cardinality({j \in S : j >= e})
  PROVE  i = e
<1> DEFINE A == {j \in S : j >= e}
           C == {j \in S : j >= i}
<1>1. e \in Nat /\ i \in Nat /\ e \in A /\ i \in C
  OBVIOUS
<1>2. CASE i < e
  <2>0. \A j \in A : j \in S /\ j \in Nat /\ j >= e
    OBVIOUS
  <2>1. A \in SUBSET C /\ i \notin A
    <3>1. \A j \in A : j \in S /\ j >= i
      BY <1>1, <1>2, <2>0
    <3>2. i \notin A
      BY <1>1, <1>2, <2>0
    <3>3. \A j \in A : j \in C
      BY <3>1
    <3> HIDE DEF A, C
    <3> QED
      BY <3>2, <3>3
  <2> HIDE DEF A, C
  <2>2. C = A
    BY <2>1, FS_Subset DEF A, C
  <2> QED
    BY <1>1, <2>1, <2>2
<1>3. CASE e < i
  <2>0. \A j \in C : j \in S /\ j \in Nat /\ j >= i
    OBVIOUS
  <2>1. C \in SUBSET A /\ e \notin C
    <3>1. \A j \in C : j \in S /\ j >= e
      BY <1>1, <1>3, <2>0
    <3>2. e \notin C
      BY <1>1, <1>3, <2>0
    <3>3. \A j \in C : j \in A
      BY <3>1
    <3> HIDE DEF A, C
    <3> QED
      BY <3>2, <3>3
  <2> HIDE DEF A, C
  <2>2. A = C
    BY <2>1, FS_Subset DEF A, C
  <2> QED
    BY <1>1, <2>1, <2>2
<1> QED
  BY <1>1, <1>2, <1>3

\* LastLines by the places where lines begin.
LEMMA LastLinesIs ==
  ASSUME NEW d
  PROVE  LastLines(d) = IF Cardinality(LineStarts(d)) <= TailLines THEN d
                        ELSE Drop(d, CHOOSE i \in LineStarts(d) :
                                       Cardinality({j \in LineStarts(d) : j >= i}) = TailLines)
BY DEF LastLines, LineStarts

\* tail prints the last lines.
LEMMA RingTells ==
  ASSUME NEW d \in Seq(Bytes), NEW r, RingInv(d, r)
  PROVE  RingString(r) = LastLines(d)
<1>1. r \in Rings /\ \E p : Holds(p, d, r)
  BY DEF RingInv
<1>2. PICK p : Holds(p, d, r)
  BY <1>1
<1> DEFINE e == p[Skipped(r)]
           S == LineStarts(d)
           From(i) == {j \in S : j >= i}
           n == Len(d)
<1>3. RingString(r) = Seg(d, e, n)
  BY <1>1, <1>2, RingPrints
<1>4. /\ e \in Nat /\ e <= n
      /\ IsFiniteSet(From(e)) /\ Cardinality(From(e)) <= TailLines
      /\ e # 0 => Cardinality(From(e)) = TailLines /\ e \in From(e)
  BY <1>1, <1>2, PrintedStarts
<1>5. S \subseteq 0..n /\ n \in Nat /\ TailLines \in Nat /\ S = ({0} \cup {i \in 1..n : d[i] = "LF"}) \ {n}
  BY TerminalAssumption DEF LineStarts
<1>6. IsFiniteSet(S)
  <2>1. IsFiniteSet(0..n)
    BY <1>5, FS_Interval
  <2> HIDE DEF S, n
  <2> QED
    BY <1>5, <2>1, FS_Subset
<1>7. LastLines(d) = IF Cardinality(S) <= TailLines THEN d
                     ELSE Drop(d, CHOOSE i \in S : Cardinality(From(i)) = TailLines)
  BY LastLinesIs
<1> HIDE DEF e
<1>8. CASE e = 0
  <2>1. From(e) = S
    BY <1>5, <1>8
  <2>2. Cardinality(S) <= TailLines
    BY <1>4, <2>1
  <2>3. LastLines(d) = d
    BY <1>7, <2>2
  <2>4. Seg(d, e, n) = d
    BY <1>8, SegWhole
  <2> QED
    BY <1>3, <2>3, <2>4
<1>9. CASE e # 0
  <2> HIDE DEF S, n
  <2>1. Cardinality(From(e)) = TailLines /\ e \in S
    BY <1>4, <1>9
  <2>2. 0 \in S /\ 0 \notin From(e) /\ From(e) \in SUBSET S
    BY <1>4, <1>5, <1>9
  <2>3. ~(Cardinality(S) <= TailLines)
    <3> HIDE DEF From
    <3>1. Cardinality(From(e)) <= Cardinality(S) /\ (Cardinality(S) = Cardinality(From(e)) => S = From(e))
      BY <1>6, <2>2, FS_Subset
    <3>2. Cardinality(S) \in Nat
      BY <1>6, FS_CardinalityType
    <3> QED
      BY <1>5, <2>1, <2>2, <3>1, <3>2
  <2>4. \A i \in S : IsFiniteSet(From(i))
    <3>1. \A i \in S : From(i) \in SUBSET S
      OBVIOUS
    <3> HIDE DEF From
    <3> QED
      BY <1>6, <3>1, FS_Subset
  <2>5. ASSUME NEW i \in S, Cardinality(From(i)) = TailLines PROVE i = e
    <3>1. S \in SUBSET Nat
      BY <1>5
    <3>2. IsFiniteSet({j \in S : j >= i}) /\ IsFiniteSet({j \in S : j >= e})
      BY <1>4, <2>4
    <3>3. Cardinality({j \in S : j >= i}) = Cardinality({j \in S : j >= e})
      BY <2>1, <2>5
    <3> QED
      BY <2>1, <3>1, <3>2, <3>3, SameCount
  <2> DEFINE at == CHOOSE i \in S : Cardinality(From(i)) = TailLines
  <2> HIDE DEF From
  <2>6. at = e
    BY <2>1, <2>5
  <2> HIDE DEF at
  <2>7. LastLines(d) = Drop(d, at)
    BY <1>7, <2>3 DEF at
  <2> QED
    BY <1>3, <2>6, <2>7 DEF Drop, Seg, n
<1> QED
  BY <1>8, <1>9

\* The ring has the last lines of all that the events hold.
TailInv == RingInv(Flat(events), ring)

\* tail has the lines of no output before the first event.
LEMMA TailInit == TerminalInit => TailInv
BY EmptyHolds, FlatEmpty DEF TerminalInit, TailInv, RingInv

\* Every event keeps the ring true to the output.
LEMMA TailStep ==
  ASSUME TextInv, TailInv, [TerminalNext]_terminalVars
  PROVE  TailInv'
<1>1. events \in Seq(Seq(Bytes))
  BY DEF TextInv, TextOK
<1>2. CASE UNCHANGED <<events, scroll, ring>>
  BY <1>2 DEF TailInv
<1>3. ASSUME NEW data \in Seq(Bytes), Fed(data) PROVE TailInv'
  <2> DEFINE f == Flat(events)
  <2>1. f \in Seq(Bytes) /\ Flat(Append(events, data)) = f \o data
    BY <1>1, FlatAppend
  <2>2. RingInv(f, ring)
    BY DEF TailInv
  <2> HIDE DEF f
  <2>3. RingInv(f \o data, add(ring, data))
    BY <2>1, <2>2, AddMore
  <2>4. events' = Append(events, data) /\ ring' = add(ring, data)
    BY <1>3 DEF Fed
  <2>5. RingInv(Flat(Append(events, data)), add(ring, data))
    BY <2>1, <2>3
  <2> QED
    BY <2>4, <2>5 DEF TailInv
<1> QED
  BY <1>2, <1>3, StepFeeds

-----------------------------------------------------------------------------
(* The player's scrollback: what it makes of the output in two pieces it     *)
(* makes of it in one.  A turn of its loop on d is the same turn on d \o e:   *)
(* it finishes an escape sequence that is complete, waits for the rest of    *)
(* one that is not, and looks past the byte it takes only behind a CR.       *)

\* c with s still to come.
On(c, s) == [c EXCEPT !.pending = s]
\* What the escape sequence seq, n bytes or cut off, makes of b.
EscStep(b, n, seq) ==
  IF n = 0 THEN [b EXCEPT !.stuck = TRUE]
  ELSE IF IsSGR(seq) THEN On(writeCur(b, seq), Drop(b.pending, n))
  ELSE IF isVerticalMove(seq) /\ b.cur # <<>> THEN On(commit(b), Drop(b.pending, n))
  ELSE On(b, Drop(b.pending, n))

\* One turn of feed on a byte that is not ESC.
LEMMA TurnPlain ==
  ASSUME NEW b, b.pending # <<>>, ~b.stuck, NEW x, x = b.pending[1]
  PROVE  /\ x = "LF" => FeedStep(b) = On(commit(b), Drop(b.pending, 1))
         /\ x = "CR" => FeedStep(b) = IF Len(b.pending) > 1 /\ b.pending[2] = "LF" THEN On(b, Drop(b.pending, 1))
                                      ELSE On([b EXCEPT !.cur = <<>>], Drop(b.pending, 1))
         /\ x = "BEL" => FeedStep(b) = On(b, Drop(b.pending, 1))
         /\ x \notin {"LF", "CR", "ESC", "BEL"} => FeedStep(b) = On(writeCur(b, <<x>>), Drop(b.pending, 1))
BY Zenon DEF FeedStep, On

\* One turn on an escape sequence.
LEMMA TurnEsc ==
  ASSUME NEW b, b.pending # <<>>, ~b.stuck, b.pending[1] = "ESC", EscLen(b.pending) \in Nat
  PROVE  FeedStep(b) = EscStep(b, EscLen(b.pending), Take(b.pending, EscLen(b.pending)))
<1> DEFINE d == b.pending
           n == EscLen(d)
           seq == Take(d, n)
           inner == CASE n = 0 -> [b EXCEPT !.stuck = TRUE]
                [] n > 0 /\ IsSGR(seq) -> On(writeCur(b, seq), Drop(d, n))
                [] n > 0 /\ isVerticalMove(seq) /\ b.cur # <<>> -> On(commit(b), Drop(d, n))
                [] OTHER -> On(b, Drop(d, n))
<1>1. FeedStep(b) = inner
  BY Zenon DEF FeedStep, On
<1>2. (n = 0 /\ ~(n > 0)) \/ (n # 0 /\ n > 0)
  OBVIOUS
<1>3. ~(IsSGR(seq) /\ isVerticalMove(seq))
  BY DEF IsSGR, isVerticalMove
<1> HIDE DEF seq, n, d
<1>4. inner = EscStep(b, n, seq)
  BY <1>2, <1>3, Zenon DEF EscStep, d
<1> QED
  BY <1>1, <1>4 DEF seq, n, d

\* EscLen by what follows ESC.
LEMMA EscIs ==
  ASSUME NEW d, Len(d) \in Nat \ {0}
  PROVE  /\ Len(d) = 1 => EscLen(d) = 0
         /\ Len(d) > 1 /\ d[2] = "[" => EscLen(d) = FirstOf(d, 3, Finals)
         /\ Len(d) > 1 /\ d[2] = "]" => EscLen(d) = LET j == FirstOf(d, 3, {"BEL", "ESC"}) IN CASE j = 0 -> 0
           [] j > 0 /\ d[j] = "BEL" -> j
           [] OTHER -> IF j < Len(d) /\ d[j + 1] = "\\" THEN j + 1 ELSE 0
         /\ Len(d) > 1 /\ d[2] \notin {"[", "]"} => EscLen(d) = 2
<1>1. ~(1 > 1)
  OBVIOUS
<1> QED
  BY <1>1, Zenon DEF EscLen

\* FirstOf by the places of S.
LEMMA FirstIs ==
  ASSUME NEW s, NEW from, NEW S
  PROVE  FirstOf(s, from, S) = LET I == {i \in from..Len(s) : s[i] \in S} IN IF I = {} THEN 0 ELSE Min(I)
BY DEF FirstOf, SelectInSubSeq

\* It is the first, or there is none.
LEMMA FirstFacts ==
  ASSUME NEW s \in Seq(Bytes), NEW from \in Nat \ {0}, NEW S
  PROVE  LET j == FirstOf(s, from, S)
         IN  \/ j = 0 /\ \A i \in from..Len(s) : s[i] \notin S
             \/ j \in from..Len(s) /\ s[j] \in S /\ \A i \in from..(j - 1) : s[i] \notin S
<1> DEFINE I == {i \in from..Len(s) : s[i] \in S}
           j == FirstOf(s, from, S)
<1>1. j = IF I = {} THEN 0 ELSE Min(I)
  BY FirstIs
<1>2. CASE I = {}
  BY <1>1, <1>2
<1>3. CASE I # {}
  <2>1. I \subseteq Nat
    OBVIOUS
  <2> HIDE DEF I
  <2>2. PICK x \in I : \A y \in I : x <= y
    BY <1>3, <2>1, Least
  <2>3. Min(I) \in I /\ \A y \in I : Min(I) <= y
    BY <2>2 DEF Min
  <2>4. j = Min(I)
    BY <1>1, <1>3
  <2> HIDE DEF j
  <2>5. j \in from..Len(s) /\ s[j] \in S
    BY <2>3, <2>4 DEF I
  <2>6. ASSUME NEW i \in from..(j - 1), s[i] \in S PROVE FALSE
    <3>1. i \in from..Len(s) /\ ~(j <= i)
      BY <2>5
    <3>2. i \in I
      BY <2>6, <3>1 DEF I
    <3> QED
      BY <2>3, <2>4, <3>1, <3>2
  <2> QED
    BY <2>5, <2>6 DEF j
<1> QED
  BY <1>2, <1>3

\* More behind it changes nothing.
LEMMA FirstKept ==
  ASSUME NEW s \in Seq(Bytes), NEW e \in Seq(Bytes), NEW from \in Nat \ {0}, NEW S, FirstOf(s, from, S) # 0
  PROVE  /\ FirstOf(s \o e, from, S) = FirstOf(s, from, S)
         /\ FirstOf(s, from, S) \in from..Len(s) /\ s[FirstOf(s, from, S)] \in S
<1> DEFINE j == FirstOf(s, from, S)
           t == s \o e
           k == FirstOf(t, from, S)
<1>1. j \in from..Len(s) /\ s[j] \in S /\ \A i \in from..(j - 1) : s[i] \notin S
  BY FirstFacts
<1>2. t \in Seq(Bytes) /\ Len(t) >= Len(s) /\ Len(t) \in Nat /\ Len(s) \in Nat /\ \A i \in 1..Len(s) : t[i] = s[i]
  OBVIOUS
<1> HIDE DEF t
<1>3. \/ k = 0 /\ \A i \in from..Len(t) : t[i] \notin S
      \/ k \in from..Len(t) /\ t[k] \in S /\ \A i \in from..(k - 1) : t[i] \notin S
  <2>1. t \in Seq(Bytes)
    BY <1>2
  <2> QED
    BY <2>1, FirstFacts
<1> HIDE DEF j, k
<1>4. j \in from..Len(t) /\ t[j] \in S /\ j \in Nat
  BY <1>1, <1>2
<1>5. k \in from..Len(t) /\ t[k] \in S /\ \A i \in from..(k - 1) : t[i] \notin S
  BY <1>3, <1>4
<1>6. ~(j < k)
  <2>1. j < k => j \in from..(k - 1)
    BY <1>1, <1>5
  <2> QED
    BY <1>4, <1>5, <2>1
<1>7. ~(k < j)
  <2> SUFFICES ASSUME k < j PROVE FALSE
    OBVIOUS
  <2>1. k \in from..(j - 1) /\ k \in 1..Len(s)
    BY <1>1, <1>2, <1>5
  <2> QED
    BY <1>1, <1>2, <1>5, <2>1
<1>8. k = j
  BY <1>1, <1>5, <1>6, <1>7
<1> QED
  BY <1>1, <1>8 DEF j, k, t

\* An escape sequence that is complete stays what it is.
LEMMA EscKept ==
  ASSUME NEW d \in Seq(Bytes), NEW e \in Seq(Bytes), Len(d) >= 1
  PROVE  EscLen(d) = 0 \/ (EscLen(d) \in 2..Len(d) /\ EscLen(d \o e) = EscLen(d))
<1> DEFINE t == d \o e
<1>1. /\ t \in Seq(Bytes) /\ Len(d) \in Nat \ {0} /\ Len(t) \in Nat \ {0} /\ Len(t) >= Len(d)
      /\ \A i \in 1..Len(d) : t[i] = d[i]
  OBVIOUS
<1> HIDE DEF t
<1>2. CASE Len(d) = 1
  BY <1>1, <1>2, EscIs
<1>3. CASE Len(d) > 1 /\ d[2] = "["
  <2>1. Len(t) > 1 /\ t[2] = "["
    <3>1. 2 \in 1..Len(d)
      BY <1>3
    <3> QED
      BY <1>1, <1>3, <3>1
  <2>2. EscLen(d) = FirstOf(d, 3, Finals) /\ EscLen(t) = FirstOf(t, 3, Finals)
    BY <1>1, <1>3, <2>1, EscIs
  <2>3. FirstOf(d, 3, Finals) # 0 => FirstOf(t, 3, Finals) = FirstOf(d, 3, Finals) /\ FirstOf(d, 3, Finals) \in 3..Len(d)
    <3>1. 3 \in Nat \ {0}
      OBVIOUS
    <3> QED
      BY <3>1, FirstKept DEF t
  <2> DEFINE j == FirstOf(d, 3, Finals)
  <2>4. j \in 3..Len(d) => j \in 2..Len(d)
    BY <1>1
  <2> QED
    BY <2>2, <2>3, <2>4 DEF t
<1>4. CASE Len(d) > 1 /\ d[2] = "]"
  <2> DEFINE S == {"BEL", "ESC"}
             j == FirstOf(d, 3, S)
             V(s, k) == CASE k = 0 -> 0 [] k > 0 /\ s[k] = "BEL" -> k
                          [] OTHER -> IF k < Len(s) /\ s[k + 1] = "\\" THEN k + 1 ELSE 0
  <2>1. Len(t) > 1 /\ t[2] = "]"
    <3>1. 2 \in 1..Len(d)
      BY <1>4
    <3> QED
      BY <1>1, <1>4, <3>1
  <2>2. EscLen(d) = V(d, j) /\ EscLen(t) = V(t, FirstOf(t, 3, S))
    BY <1>1, <1>4, <2>1, EscIs
  <2>3. j # 0 => FirstOf(t, 3, S) = j /\ j \in 3..Len(d)
    <3>1. 3 \in Nat \ {0}
      OBVIOUS
    <3> HIDE DEF S
    <3> QED
      BY <3>1, FirstKept DEF t
  <2> HIDE DEF S, j
  <2>4. j = 0 => V(d, j) = 0
    <3>1. ~(0 > 0)
      OBVIOUS
    <3> QED
      BY <3>1, Zenon
  <2>5. ASSUME j # 0 PROVE V(d, j) = 0 \/ (V(d, j) \in 2..Len(d) /\ V(t, j) = V(d, j))
    <3>1. j \in 3..Len(d) /\ j > 0 /\ t[j] = d[j] /\ j \in 2..Len(d)
      BY <1>1, <2>3, <2>5
    <3>2. CASE d[j] = "BEL"
      <4>1. V(d, j) = j /\ V(t, j) = j
        BY <2>5, <3>1, <3>2, Zenon
      <4> QED
        BY <3>1, <4>1
    <3>3. CASE d[j] # "BEL"
      <4>1. V(d, j) = (IF j < Len(d) /\ d[j + 1] = "\\" THEN j + 1 ELSE 0)
            /\ V(t, j) = (IF j < Len(t) /\ t[j + 1] = "\\" THEN j + 1 ELSE 0)
        BY <2>5, <3>1, <3>3, Zenon
      <4> HIDE DEF V
      <4>2. CASE j < Len(d) /\ d[j + 1] = "\\"
        <5>1. j + 1 \in 1..Len(d) /\ j < Len(t) /\ j + 1 \in 2..Len(d)
          BY <1>1, <3>1, <4>2
        <5> QED
          BY <1>1, <4>1, <4>2, <5>1
      <4>3. CASE ~(j < Len(d) /\ d[j + 1] = "\\")
        BY <4>1, <4>3
      <4> QED
        BY <4>2, <4>3
    <3> QED
      BY <3>2, <3>3
  <2> HIDE DEF V
  <2> QED
    BY <2>2, <2>3, <2>4, <2>5 DEF t
<1>5. CASE Len(d) > 1 /\ d[2] \notin {"[", "]"}
  <2>1. Len(t) > 1 /\ t[2] \notin {"[", "]"} /\ 2 \in 2..Len(d)
    <3>1. 2 \in 1..Len(d) /\ 2 \in 2..Len(d)
      BY <1>5
    <3> QED
      BY <1>1, <1>5, <3>1
  <2>2. EscLen(d) = 2 /\ EscLen(t) = 2
    BY <1>1, <1>5, <2>1, EscIs
  <2> QED
    BY <2>1, <2>2 DEF t
<1>6. Len(d) = 1 \/ Len(d) > 1
  BY <1>1
<1> QED
  BY <1>2, <1>3, <1>4, <1>5, <1>6

\* The states of the scrollback.
Scrolls == [lines : Seq(Seq(Bytes)), cur : Seq(Bytes), pending : Seq(Bytes), stuck : BOOLEAN]

\* What is still to come can be exchanged.
LEMMA OnTyped ==
  ASSUME NEW b \in Scrolls, NEW s \in Seq(Bytes), NEW t \in Seq(Bytes)
  PROVE  /\ On(b, s) \in Scrolls /\ On(b, s).pending = s /\ On(b, s).stuck = b.stuck
         /\ On(b, s).cur = b.cur /\ On(b, s).lines = b.lines
         /\ On(On(b, s), t) = On(b, t)
<1> DEFINE L == Seq(Bytes)
           M == Seq(L)
<1> HIDE DEF M, L
<1>1. b \in [lines : M, cur : L, pending : L, stuck : BOOLEAN] /\ s \in L /\ t \in L
  BY DEF Scrolls, M, L
<1>2. /\ On(b, s) \in [lines : M, cur : L, pending : L, stuck : BOOLEAN] /\ On(b, s).pending = s /\ On(b, s).stuck = b.stuck
      /\ On(b, s).cur = b.cur /\ On(b, s).lines = b.lines
      /\ On(On(b, s), t) = On(b, t)
  BY <1>1 DEF On
<1> QED
  BY <1>2 DEF Scrolls, M, L

\* A finished line is the same whatever is still to come.
LEMMA CommitTyped ==
  ASSUME NEW b \in Scrolls, NEW s \in Seq(Bytes), NEW t \in Seq(Bytes)
  PROVE  /\ commit(b) \in Scrolls /\ commit(b).stuck = b.stuck
         /\ On(commit(On(b, s)), t) = On(commit(b), t)
<1> DEFINE L == Seq(Bytes)
           M == Seq(L)
           lines == Append(b.lines, b.cur)
           kept == IF Len(lines) > 2 * MaxScrollLines THEN Drop(lines, Len(lines) - MaxScrollLines) ELSE lines
<1>1. kept \in Seq(L)
  <2>1. b.lines \in Seq(L) /\ b.cur \in L
    BY DEF Scrolls
  <2> HIDE DEF L
  <2>2. lines \in Seq(L)
    BY <2>1
  <2> HIDE DEF lines
  <2>3. CASE Len(lines) > 2 * MaxScrollLines
    <3>1. MaxScrollLines \in Nat /\ Len(lines) \in Nat /\ Len(lines) - MaxScrollLines \in 0..Len(lines)
      BY <2>2, <2>3, TerminalAssumption
    <3> DEFINE n == Len(lines) - MaxScrollLines
    <3> HIDE DEF n
    <3>2. Drop(lines, n) \in Seq(L)
      BY <2>2, <3>1 DEF Drop, n
    <3> QED
      BY <2>3, <3>2 DEF n
  <2>4. CASE ~(Len(lines) > 2 * MaxScrollLines)
    BY <2>2, <2>4
  <2> QED
    BY <2>3, <2>4
<1>2. <<>> \in L
  OBVIOUS
<1>3. commit(b) = [b EXCEPT !.cur = <<>>, !.lines = kept]
  BY DEF commit
<1>4. commit(On(b, s)) = [On(b, s) EXCEPT !.cur = <<>>, !.lines = kept]
  BY OnTyped DEF commit
<1> HIDE DEF kept, lines, L
<1>5. b \in [lines : M, cur : L, pending : L, stuck : BOOLEAN] /\ s \in L /\ t \in L /\ kept \in M
  BY <1>1 DEF Scrolls, L
<1> HIDE DEF M
<1>6. /\ commit(b) \in [lines : M, cur : L, pending : L, stuck : BOOLEAN] /\ commit(b).stuck = b.stuck
      /\ On(commit(On(b, s)), t) = On(commit(b), t)
  BY <1>2, <1>3, <1>4, <1>5 DEF On
<1> QED
  BY <1>6 DEF Scrolls, M, L

\* So does text for the line.
LEMMA WriteTyped ==
  ASSUME NEW b \in Scrolls, NEW s \in Seq(Bytes), NEW t \in Seq(Bytes), NEW w \in Seq(Bytes)
  PROVE  /\ writeCur(b, w) \in Scrolls /\ writeCur(b, w).stuck = b.stuck
         /\ On(writeCur(On(b, s), w), t) = On(writeCur(b, w), t)
<1> DEFINE L == Seq(Bytes)
           M == Seq(L)
           text == b.cur \o w
           full == Len(b.cur) + Len(w) > MaxLineBytes
<1>1. text \in L
  BY DEF Scrolls
<1>2. writeCur(b, w) = IF full THEN b ELSE [b EXCEPT !.cur = text]
  BY DEF writeCur
<1>3. writeCur(On(b, s), w) = IF full THEN On(b, s) ELSE [On(b, s) EXCEPT !.cur = text]
  BY OnTyped DEF writeCur
<1> HIDE DEF text, full, L, M
<1>5. b \in [lines : M, cur : L, pending : L, stuck : BOOLEAN] /\ s \in L /\ t \in L
  BY DEF Scrolls, L, M
<1>6. /\ writeCur(b, w) \in [lines : M, cur : L, pending : L, stuck : BOOLEAN] /\ writeCur(b, w).stuck = b.stuck
      /\ On(writeCur(On(b, s), w), t) = On(writeCur(b, w), t)
  BY <1>1, <1>2, <1>3, <1>5 DEF On
<1> QED
  BY <1>6 DEF Scrolls, M, L

\* The bytes taken from the front, and those left.
LEMMA FrontIs ==
  ASSUME NEW d \in Seq(Bytes), NEW n \in Nat, n <= Len(d)
  PROVE  /\ Take(d, n) \in Seq(Bytes) /\ Drop(d, n) \in Seq(Bytes)
         /\ Len(Take(d, n)) = n /\ Len(Drop(d, n)) = Len(d) - n
         /\ \A i \in 1..n : Take(d, n)[i] = d[i]
         /\ \A i \in 1..(Len(d) - n) : Drop(d, n)[i] = d[n + i]
BY DEF Take, Drop

\* More bytes behind them change neither but for what is left.
LEMMA Fronts ==
  ASSUME NEW d \in Seq(Bytes), NEW e \in Seq(Bytes), NEW n \in 1..Len(d)
  PROVE  /\ Take(d \o e, n) = Take(d, n) /\ Take(d, n) \in Seq(Bytes)
         /\ Drop(d \o e, n) = Drop(d, n) \o e /\ Drop(d, n) \in Seq(Bytes)
         /\ Len(Drop(d, n)) = Len(d) - n
         /\ Len(Drop(d, n)) > 0 => Drop(d, n)[Len(Drop(d, n))] = d[Len(d)]
<1>1. n \in Nat /\ n <= Len(d) /\ Len(d) \in Nat /\ Len(d \o e) = Len(d) + Len(e) /\ Len(e) \in Nat
  OBVIOUS
<1>2. /\ Take(d, n) \in Seq(Bytes) /\ Drop(d, n) \in Seq(Bytes) /\ Len(Take(d, n)) = n /\ Len(Drop(d, n)) = Len(d) - n
      /\ \A i \in 1..n : Take(d, n)[i] = d[i]
      /\ \A i \in 1..(Len(d) - n) : Drop(d, n)[i] = d[n + i]
  BY <1>1, FrontIs
<1> DEFINE t == d \o e
<1>3. /\ t \in Seq(Bytes) /\ Len(t) = Len(d) + Len(e)
      /\ \A i \in 1..Len(d) : t[i] = d[i]
      /\ \A i \in 1..Len(e) : t[Len(d) + i] = e[i]
  OBVIOUS
<1> HIDE DEF t
<1>4. /\ Take(t, n) \in Seq(Bytes) /\ Drop(t, n) \in Seq(Bytes) /\ Len(Take(t, n)) = n /\ Len(Drop(t, n)) = Len(t) - n
      /\ \A i \in 1..n : Take(t, n)[i] = t[i]
      /\ \A i \in 1..(Len(t) - n) : Drop(t, n)[i] = t[n + i]
  <2>1. n \in Nat /\ n <= Len(t) /\ t \in Seq(Bytes)
    BY <1>1, <1>3
  <2> QED
    BY <2>1, FrontIs
<1>5. Take(t, n) = Take(d, n)
  <2> DEFINE p == Take(t, n)
             q == Take(d, n)
  <2>1. p \in Seq(Bytes) /\ q \in Seq(Bytes) /\ Len(p) = Len(q) /\ \A i \in 1..Len(p) : p[i] = q[i]
    BY <1>1, <1>2, <1>3, <1>4
  <2> HIDE DEF p, q
  <2>2. p = q
    BY <2>1, SeqEqual
  <2> QED
    BY <2>2 DEF p, q
<1>6. Drop(t, n) = Drop(d, n) \o e
  <2> DEFINE p == Drop(t, n)
             q == Drop(d, n)
             r == q \o e
  <2>1. /\ p \in Seq(Bytes) /\ q \in Seq(Bytes) /\ Len(q) = Len(d) - n /\ Len(p) = (Len(d) - n) + Len(e)
        /\ \A i \in 1..Len(q) : q[i] = d[n + i]
        /\ \A i \in 1..Len(p) : p[i] = t[n + i]
    BY <1>1, <1>2, <1>3, <1>4
  <2> HIDE DEF p, q
  <2>2. /\ r \in Seq(Bytes) /\ Len(r) = Len(q) + Len(e)
        /\ \A i \in 1..Len(q) : r[i] = q[i]
        /\ \A i \in 1..Len(e) : r[Len(q) + i] = e[i]
    <3>1. q \in Seq(Bytes)
      BY <2>1
    <3> QED
      BY <3>1
  <2> HIDE DEF r
  <2>3. ASSUME NEW i \in 1..Len(p) PROVE p[i] = r[i]
    <3>1. CASE i <= Len(q)
      <4>1. i \in 1..Len(q) /\ n + i \in 1..Len(d)
        BY <1>1, <2>1, <3>1
      <4> QED
        BY <1>3, <2>1, <2>2, <4>1
    <3>2. CASE ~(i <= Len(q))
      <4> DEFINE k == i - Len(q)
      <4>1. k \in 1..Len(e) /\ i = Len(q) + k /\ n + i = Len(d) + k
        BY <1>1, <2>1, <3>2
      <4> HIDE DEF k
      <4> QED
        BY <1>3, <2>1, <2>2, <4>1
    <3> QED
      BY <3>1, <3>2
  <2>4. p = r
    <3>1. Len(p) = Len(r)
      BY <2>1, <2>2
    <3> QED
      BY <2>1, <2>2, <2>3, <3>1, SeqEqual
  <2> QED
    BY <2>4 DEF p, q, r
<1>7. Len(Drop(d, n)) > 0 => Drop(d, n)[Len(Drop(d, n))] = d[Len(d)]
  <2> SUFFICES ASSUME Len(d) - n > 0 PROVE Drop(d, n)[Len(d) - n] = d[Len(d)]
    BY <1>2
  <2>1. Len(d) - n \in 1..(Len(d) - n) /\ n + (Len(d) - n) = Len(d)
    BY <1>1
  <2> QED
    BY <1>2, <2>1
<1>8. Take(d, n) \in Seq(Bytes) /\ Drop(d, n) \in Seq(Bytes) /\ Len(Drop(d, n)) = Len(d) - n
  BY <1>2
<1> QED
  BY <1>5, <1>6, <1>7, <1>8, Zenon DEF t

\* The line is overwritten.
Erased(b) == [b EXCEPT !.cur = <<>>]

\* So does a CR that overwrites it.
LEMMA EraseTyped ==
  ASSUME NEW b \in Scrolls, NEW s \in Seq(Bytes), NEW t \in Seq(Bytes)
  PROVE  /\ Erased(b) \in Scrolls /\ Erased(b).stuck = b.stuck
         /\ On(Erased(On(b, s)), t) = On(Erased(b), t)
<1> DEFINE L == Seq(Bytes)
           M == Seq(L)
<1>1. <<>> \in L
  OBVIOUS
<1> HIDE DEF L, M
<1>2. b \in [lines : M, cur : L, pending : L, stuck : BOOLEAN] /\ s \in L /\ t \in L
  BY DEF Scrolls, L, M
<1>3. /\ Erased(b) \in [lines : M, cur : L, pending : L, stuck : BOOLEAN] /\ Erased(b).stuck = b.stuck
      /\ On(Erased(On(b, s)), t) = On(Erased(b), t)
  BY <1>1, <1>2 DEF On, Erased
<1> QED
  BY <1>3 DEF Scrolls, M, L

\* The turn takes bytes from the front.
Advances(b, c) == c \in Scrolls /\ ~c.stuck /\ \E n \in 1..Len(b.pending) : c.pending = Drop(b.pending, n)
\* It is the same with more behind them.
Carries(b, e) == FeedStep(On(b, b.pending \o e)) = On(FeedStep(b), FeedStep(b).pending \o e)
\* Nothing is cut between the CR and the LF of a line end.
Apart(d, e) == d[Len(d)] = "CR" => e[1] # "LF"

\* A turn that takes n bytes, and the same turn with e behind them.
LEMMA Moves ==
  ASSUME NEW b \in Scrolls, NEW c \in Scrolls, ~c.stuck, NEW n \in 1..Len(b.pending), NEW e \in Seq(Bytes), NEW C,
         FeedStep(b) = On(c, Drop(b.pending, n)),
         FeedStep(On(b, b.pending \o e)) = On(C, Drop(b.pending \o e, n)),
         \A t \in Seq(Bytes) : On(C, t) = On(c, t)
  PROVE  Advances(b, FeedStep(b)) /\ Carries(b, e)
<1> DEFINE d == b.pending
           r == Drop(d, n)
           re == r \o e
<1>1. d \in Seq(Bytes)
  BY DEF Scrolls
<1>2. r \in Seq(Bytes) /\ Drop(d \o e, n) = re
  <2> HIDE DEF d
  <2>1. n \in 1..Len(d)
    BY DEF d
  <2> QED
    BY <1>1, <2>1, Fronts
<1> HIDE DEF r
<1>3. re \in Seq(Bytes)
  BY <1>2
<1> HIDE DEF re
<1>4. On(c, r) \in Scrolls /\ On(c, r).pending = r /\ On(c, r).stuck = c.stuck /\ On(On(c, r), re) = On(c, re)
  BY <1>2, <1>3, OnTyped
<1>5. FeedStep(b) = On(c, r) /\ FeedStep(On(b, d \o e)) = On(C, re) /\ On(C, re) = On(c, re)
  BY <1>2, <1>3 DEF r
<1>6. Advances(b, FeedStep(b))
  BY <1>4, <1>5 DEF Advances, r
<1>7. Carries(b, e)
  BY <1>4, <1>5 DEF Carries, re
<1> QED
  BY <1>6, <1>7

\* Every turn waits for the rest of an escape sequence or carries e along.
LEMMA StepCarries ==
  ASSUME NEW b \in Scrolls, ~b.stuck, b.pending # <<>>, NEW e \in Seq(Bytes), e # <<>>, Apart(b.pending, e)
  PROVE  FeedStep(b) = [b EXCEPT !.stuck = TRUE] \/ (Advances(b, FeedStep(b)) /\ Carries(b, e))
<1> DEFINE d == b.pending
           t == d \o e
           B == On(b, t)
           x == d[1]
<1>1. d \in Seq(Bytes) /\ Len(d) \in Nat /\ 1 <= Len(d) /\ x \in Bytes /\ 1 \in 1..Len(d)
  <2>1. d \in Seq(Bytes) /\ d # <<>>
    BY DEF Scrolls
  <2> QED
    BY <2>1
<1>2. /\ t \in Seq(Bytes) /\ t # <<>> /\ t[1] = x /\ Len(t) = Len(d) + Len(e) /\ Len(t) > 1
      /\ \A i \in 1..Len(d) : t[i] = d[i]
      /\ Len(d) = 1 => t[2] = e[1]
  <2> HIDE DEF d
  <2>1. Len(e) \in Nat /\ Len(e) >= 1
    OBVIOUS
  <2>2. t \in Seq(Bytes) /\ Len(t) = Len(d) + Len(e)
    BY <1>1
  <2>3. (\A i \in 1..Len(d) : t[i] = d[i]) /\ (\A i \in 1..Len(e) : t[Len(d) + i] = e[i])
    BY <1>1
  <2>4. Len(d) = 1 => t[2] = e[1]
    <3>1. 1 \in 1..Len(e)
      BY <2>1
    <3>2. t[Len(d) + 1] = e[1]
      BY <2>3, <3>1
    <3>3. Len(d) = 1 => Len(d) + 1 = 2
      OBVIOUS
    <3> QED
      BY <3>2, <3>3
  <2>5. Len(t) > 1
    BY <1>1, <2>1, <2>2
  <2> QED
    BY <1>1, <2>2, <2>3, <2>4, <2>5
<1> HIDE DEF t
<1>3. B \in Scrolls /\ B.pending = t /\ ~B.stuck
  BY <1>2, OnTyped
<1> HIDE DEF B, x
<1>4. /\ x = "LF" => FeedStep(b) = On(commit(b), Drop(d, 1)) /\ FeedStep(B) = On(commit(B), Drop(t, 1))
      /\ x = "CR" => /\ FeedStep(b) = IF Len(d) > 1 /\ d[2] = "LF" THEN On(b, Drop(d, 1)) ELSE On(Erased(b), Drop(d, 1))
                     /\ FeedStep(B) = IF Len(t) > 1 /\ t[2] = "LF" THEN On(B, Drop(t, 1)) ELSE On(Erased(B), Drop(t, 1))
      /\ x = "BEL" => FeedStep(b) = On(b, Drop(d, 1)) /\ FeedStep(B) = On(B, Drop(t, 1))
      /\ x \notin {"LF", "CR", "ESC", "BEL"} =>
           FeedStep(b) = On(writeCur(b, <<x>>), Drop(d, 1)) /\ FeedStep(B) = On(writeCur(B, <<x>>), Drop(t, 1))
  <2>1. x = b.pending[1] /\ x = B.pending[1] /\ B.pending # <<>>
    BY <1>2, <1>3 DEF x
  <2>2. /\ x = "LF" => FeedStep(b) = On(commit(b), Drop(b.pending, 1))
        /\ x = "CR" => FeedStep(b) = IF Len(b.pending) > 1 /\ b.pending[2] = "LF" THEN On(b, Drop(b.pending, 1))
                                     ELSE On([b EXCEPT !.cur = <<>>], Drop(b.pending, 1))
        /\ x = "BEL" => FeedStep(b) = On(b, Drop(b.pending, 1))
        /\ x \notin {"LF", "CR", "ESC", "BEL"} => FeedStep(b) = On(writeCur(b, <<x>>), Drop(b.pending, 1))
    BY <2>1, TurnPlain, Zenon
  <2>3. /\ x = "LF" => FeedStep(B) = On(commit(B), Drop(B.pending, 1))
        /\ x = "CR" => FeedStep(B) = IF Len(B.pending) > 1 /\ B.pending[2] = "LF" THEN On(B, Drop(B.pending, 1))
                                     ELSE On([B EXCEPT !.cur = <<>>], Drop(B.pending, 1))
        /\ x = "BEL" => FeedStep(B) = On(B, Drop(B.pending, 1))
        /\ x \notin {"LF", "CR", "ESC", "BEL"} => FeedStep(B) = On(writeCur(B, <<x>>), Drop(B.pending, 1))
    BY <1>3, <2>1, TurnPlain, Zenon
  <2> QED
    BY <1>3, <2>2, <2>3, Zenon DEF Erased
<1> DEFINE Fine == FeedStep(b) = [b EXCEPT !.stuck = TRUE] \/ (Advances(b, FeedStep(b)) /\ Carries(b, e))
<1>5. ASSUME NEW c \in Scrolls, ~c.stuck, NEW n \in 1..Len(d), NEW C,
             FeedStep(b) = On(c, Drop(d, n)), FeedStep(B) = On(C, Drop(t, n)), \A s \in Seq(Bytes) : On(C, s) = On(c, s)
      PROVE  Fine
  <2>1. FeedStep(On(b, b.pending \o e)) = On(C, Drop(b.pending \o e, n))
    BY <1>5 DEF B, t
  <2> QED
    BY <1>5, <2>1, Moves
<1>6. \A s \in Seq(Bytes) : On(B, s) = On(b, s)
  BY <1>2, OnTyped DEF B
<1>7. /\ commit(b) \in Scrolls /\ ~commit(b).stuck
      /\ \A s \in Seq(Bytes) : On(commit(B), s) = On(commit(b), s)
  BY <1>2, CommitTyped DEF B
<1>8. /\ Erased(b) \in Scrolls /\ ~Erased(b).stuck
      /\ \A s \in Seq(Bytes) : On(Erased(B), s) = On(Erased(b), s)
  BY <1>2, EraseTyped DEF B
<1>9. ASSUME NEW w \in Seq(Bytes)
      PROVE  /\ writeCur(b, w) \in Scrolls /\ ~writeCur(b, w).stuck
             /\ \A s \in Seq(Bytes) : On(writeCur(B, w), s) = On(writeCur(b, w), s)
  BY <1>2, WriteTyped DEF B
<1> SUFFICES Fine
  OBVIOUS
<1> HIDE DEF Fine
<1>10. CASE x = "LF"
  BY <1>1, <1>4, <1>5, <1>7, <1>10
<1>11. CASE x = "BEL"
  BY <1>1, <1>4, <1>5, <1>6, <1>11
<1>12. CASE x \notin {"LF", "CR", "ESC", "BEL"}
  <2> DEFINE w == <<x>>
  <2>1. w \in Seq(Bytes)
    BY <1>1
  <2>2. FeedStep(b) = On(writeCur(b, w), Drop(d, 1)) /\ FeedStep(B) = On(writeCur(B, w), Drop(t, 1))
    BY <1>4, <1>12
  <2> HIDE DEF w
  <2>3. /\ writeCur(b, w) \in Scrolls /\ ~writeCur(b, w).stuck
        /\ \A s \in Seq(Bytes) : On(writeCur(B, w), s) = On(writeCur(b, w), s)
    BY <1>9, <2>1
  <2> QED
    BY <1>1, <1>5, <2>2, <2>3
<1>13. CASE x = "CR"
  <2>1. (Len(t) > 1 /\ t[2] = "LF") <=> (Len(d) > 1 /\ d[2] = "LF")
    <3>1. CASE Len(d) > 1
      <4>1. 2 \in 1..Len(d)
        BY <1>1, <3>1
      <4> QED
        BY <1>2, <3>1, <4>1
    <3>2. CASE ~(Len(d) > 1)
      <4>1. Len(d) = 1
        <5> DEFINE k == Len(d)
        <5>1. k \in Nat /\ 1 <= k /\ ~(k > 1)
          BY <1>1, <3>2
        <5> HIDE DEF k
        <5>2. k = 1
          BY <5>1
        <5> QED
          BY <5>2 DEF k
      <4>2. e[1] # "LF"
        BY <1>13, <4>1 DEF Apart, x
      <4> QED
        BY <1>2, <4>1, <4>2
    <3> QED
      BY <3>1, <3>2
  <2>2. CASE Len(d) > 1 /\ d[2] = "LF"
    BY <1>1, <1>4, <1>5, <1>6, <1>13, <2>1, <2>2
  <2>3. CASE ~(Len(d) > 1 /\ d[2] = "LF")
    BY <1>1, <1>4, <1>5, <1>8, <1>13, <2>1, <2>3
  <2> QED
    BY <2>2, <2>3
<1>14. CASE x = "ESC"
  <2> DEFINE n == EscLen(d)
             seq == Take(d, n)
  <2>1. n = 0 \/ (n \in 2..Len(d) /\ EscLen(t) = n)
    BY <1>1, EscKept DEF t
  <2>2. FeedStep(b) = EscStep(b, n, seq)
    <3>1. n \in Nat
      BY <1>1, <2>1
    <3> QED
      BY <1>14, <3>1, TurnEsc DEF x
  <2>3. CASE n = 0
    <3>1. FeedStep(b) = [b EXCEPT !.stuck = TRUE]
      BY <2>2, <2>3 DEF EscStep
    <3> QED
      BY <3>1 DEF Fine
  <2>4. CASE n # 0
    <3>1. n \in 1..Len(d) /\ n \in Nat /\ n # 0 /\ EscLen(t) = n
      BY <1>1, <2>1, <2>4
    <3>2. Take(t, n) = seq /\ seq \in Seq(Bytes)
      BY <1>1, <3>1, Fronts DEF t
    <3>3. FeedStep(B) = EscStep(B, n, seq)
      <4>1. B.pending # <<>> /\ B.pending[1] = "ESC" /\ EscLen(B.pending) = n /\ Take(B.pending, EscLen(B.pending)) = seq
        BY <1>2, <1>3, <1>14, <3>1, <3>2 DEF x
      <4> HIDE DEF n, seq
      <4> QED
        BY <1>3, <3>1, <4>1, TurnEsc
    <3> HIDE DEF n, seq
    <3>4. CASE IsSGR(seq)
      <4>1. FeedStep(b) = On(writeCur(b, seq), Drop(d, n)) /\ FeedStep(B) = On(writeCur(B, seq), Drop(t, n))
        BY <1>3, <2>2, <3>1, <3>3, <3>4 DEF EscStep
      <4> QED
        BY <1>5, <1>9, <3>1, <3>2, <4>1
    <3>5. CASE ~IsSGR(seq) /\ isVerticalMove(seq) /\ b.cur # <<>>
      <4>1. B.cur = b.cur
        BY <1>2, OnTyped DEF B
      <4>2. FeedStep(b) = On(commit(b), Drop(d, n)) /\ FeedStep(B) = On(commit(B), Drop(t, n))
        BY <1>3, <2>2, <3>1, <3>3, <3>5, <4>1 DEF EscStep
      <4> QED
        BY <1>5, <1>7, <3>1, <4>2
    <3>6. CASE ~IsSGR(seq) /\ ~(isVerticalMove(seq) /\ b.cur # <<>>)
      <4>1. B.cur = b.cur
        BY <1>2, OnTyped DEF B
      <4>2. FeedStep(b) = On(b, Drop(d, n)) /\ FeedStep(B) = On(B, Drop(t, n))
        BY <1>3, <2>2, <3>1, <3>3, <3>6, <4>1 DEF EscStep
      <4> QED
        BY <1>5, <1>6, <3>1, <4>2
    <3> QED
      BY <3>4, <3>5, <3>6
  <2> QED
    BY <2>3, <2>4
<1> QED
  BY <1>10, <1>11, <1>12, <1>13, <1>14

\* Every turn waits or takes bytes.
LEMMA StepShort ==
  ASSUME NEW b \in Scrolls, ~b.stuck, b.pending # <<>>
  PROVE  FeedStep(b) = [b EXCEPT !.stuck = TRUE] \/ Advances(b, FeedStep(b))
<1> DEFINE d == b.pending
           x == d[Len(d)]
           e == <<x>>
<1>1. x \in Bytes
  <2>1. d \in Seq(Bytes) /\ d # <<>>
    BY DEF Scrolls
  <2> HIDE DEF d
  <2>2. Len(d) \in 1..Len(d)
    BY <2>1
  <2> QED
    BY <2>1, <2>2
<1>2. e \in Seq(Bytes) /\ e # <<>> /\ e[1] = x
  <2> HIDE DEF x
  <2> QED
    BY <1>1
<1>3. Apart(b.pending, e)
  BY <1>2 DEF Apart
<1> HIDE DEF e
<1> QED
  BY <1>2, <1>3, StepCarries

\* The bytes that the turns may still take.
Left(b) == IF b.stuck THEN 0 ELSE Len(b.pending)

\* Every turn makes a scrollback of a scrollback and brings it nearer to its rest.
LEMMA Turn ==
  ASSUME NEW b \in Scrolls
  PROVE  /\ FeedStep(b) \in Scrolls /\ Left(b) \in Nat /\ Left(FeedStep(b)) \in Nat
         /\ Left(b) = 0 => FeedStep(b) = b
         /\ Left(b) > 0 => Left(FeedStep(b)) < Left(b)
<1> DEFINE d == b.pending
           L == Seq(Bytes)
           M == Seq(L)
<1>1. d \in Seq(Bytes) /\ Len(d) \in Nat /\ (d = <<>> <=> Len(d) = 0) /\ b.stuck \in BOOLEAN
  BY DEF Scrolls
<1>2. ASSUME NEW c \in Scrolls PROVE Left(c) \in Nat
  <2>1. c.pending \in Seq(Bytes)
    BY DEF Scrolls
  <2>2. Len(c.pending) \in Nat
    BY <2>1
  <2> QED
    BY <2>2 DEF Left
<1>3. CASE b.stuck \/ d = <<>>
  <2>1. FeedStep(b) = b
    BY <1>3, Zenon DEF FeedStep
  <2>2. Left(b) = 0
    BY <1>1, <1>3 DEF Left
  <2> QED
    BY <1>2, <2>1, <2>2
<1>4. CASE ~b.stuck /\ d # <<>>
  <2>1. Left(b) = Len(d) /\ Len(d) > 0
    <3> HIDE DEF d
    <3>1. Len(d) > 0
      BY <1>1, <1>4
    <3> QED
      BY <1>4, <3>1 DEF Left, d
  <2>2. CASE FeedStep(b) = [b EXCEPT !.stuck = TRUE]
    <3> HIDE DEF M
    <3>1. b \in [lines : M, cur : L, pending : L, stuck : BOOLEAN]
      BY DEF Scrolls, M
    <3> HIDE DEF L
    <3>2. FeedStep(b) \in [lines : M, cur : L, pending : L, stuck : BOOLEAN] /\ FeedStep(b).stuck
      BY <2>2, <3>1
    <3>3. FeedStep(b) \in Scrolls
      BY <3>2 DEF Scrolls, M, L
    <3>4. Left(FeedStep(b)) = 0
      BY <3>2 DEF Left
    <3> QED
      BY <1>1, <2>1, <3>3, <3>4
  <2>3. CASE Advances(b, FeedStep(b))
    <3> DEFINE c == FeedStep(b)
    <3>1. PICK n \in 1..Len(d) : c.pending = Drop(d, n)
      BY <2>3 DEF Advances
    <3>2. c \in Scrolls /\ ~c.stuck
      BY <2>3 DEF Advances
    <3> HIDE DEF c
    <3>3. Left(c) = Len(d) - n
      <4>1. Len(Drop(d, n)) = Len(d) - n
        <5> HIDE DEF d
        <5>1. <<>> \in Seq(Bytes)
          OBVIOUS
        <5> QED
          BY <1>1, <5>1, Fronts
      <4> QED
        BY <3>1, <3>2, <4>1 DEF Left
    <3>4. Left(c) \in Nat
      BY <1>2, <3>2
    <3> HIDE DEF d
    <3>5. Left(c) < Len(d)
      BY <1>1, <3>3
    <3> QED
      BY <1>1, <2>1, <3>2, <3>4, <3>5 DEF c
  <2> QED
    BY <1>4, <2>2, <2>3, StepShort
<1> QED
  BY <1>1, <1>3, <1>4
-----------------------------------------------------------------------------
\* f is what the turns make of b, n of them.
FeedTurns(f, b, n) == f = [i \in 0..n |-> IF i = 0 THEN b ELSE FeedStep(f[i - 1])]
Turning(f, b, n) == f[0] = b /\ \A i \in 1..n : f[i] = FeedStep(f[i - 1])
\* What becomes of b: there are as many turns as bytes.
Rest(b) == LET n == Len(b.pending) IN (CHOOSE f : FeedTurns(f, b, n))[n]
\* feed begins: data goes behind what the last chunk left.
Start(b, data) == [b EXCEPT !.pending = b.pending \o data, !.stuck = FALSE]

\* New data starts a scrollback again.
LEMMA StartTyped ==
  ASSUME NEW b \in Scrolls, NEW data \in Seq(Bytes)
  PROVE  Start(b, data) \in Scrolls /\ Start(b, data).pending = b.pending \o data /\ ~Start(b, data).stuck
<1> DEFINE L == Seq(Bytes)
           M == Seq(L)
           all == b.pending \o data
<1>1. all \in L
  BY DEF Scrolls
<1> HIDE DEF L, M, all
<1>2. b \in [lines : M, cur : L, pending : L, stuck : BOOLEAN]
  BY DEF Scrolls, M, L
<1>3. Start(b, data) = [b EXCEPT !.pending = all, !.stuck = FALSE]
  BY DEF Start, all
<1>4. Start(b, data) \in [lines : M, cur : L, pending : L, stuck : BOOLEAN] /\ Start(b, data).pending = all /\ ~Start(b, data).stuck
  BY <1>1, <1>2, <1>3
<1> QED
  BY <1>4 DEF Scrolls, M, L, all

\* feed is what becomes of the scrollback with the data behind what was left.
LEMMA FeedIs ==
  ASSUME NEW b \in Scrolls, NEW data \in Seq(Bytes)
  PROVE  feed(b, data) = Rest(Start(b, data))
<1> DEFINE n == Len(b.pending \o data)
           F == CHOOSE f : FeedTurns(f, Start(b, data), n)
<1>1. feed(b, data) = F[n]
  BY DEF feed, FeedTurns, Start
<1>2. Start(b, data).pending = b.pending \o data
  BY StartTyped
<1> QED
  BY <1>1, <1>2 DEF Rest

\* There are such turns.
LEMMA TurnsExist ==
  ASSUME NEW b \in Scrolls, NEW n \in Nat
  PROVE  \E f : FeedTurns(f, b, n)
<1> DEFINE step == [i \in 1..n |-> [c \in Scrolls |-> FeedStep(c)]]
<1>1. step \in Steps(Scrolls, n)
  BY Turn DEF Steps
<1>2. PICK h \in [0..n -> Scrolls] : Goes(h, b, n, step)
  <2> HIDE DEF step
  <2> QED
    BY <1>1, Iteration
<1>3. \A i \in 1..n : h[i] = FeedStep(h[i - 1])
  <2> SUFFICES ASSUME NEW i \in 1..n PROVE h[i] = FeedStep(h[i - 1])
    OBVIOUS
  <2>1. i - 1 \in 0..n
    OBVIOUS
  <2>2. h[i - 1] \in Scrolls /\ h[i] = step[i][h[i - 1]]
    BY <1>2, <2>1 DEF Goes
  <2> QED
    BY <2>2
<1>4. FeedTurns(h, b, n)
  BY <1>2, <1>3 DEF FeedTurns, Goes
<1> QED
  BY <1>4

\* What becomes of b is the end of them.
LEMMA RestIs ==
  ASSUME NEW b \in Scrolls
  PROVE  Len(b.pending) \in Nat /\ \E f : Turning(f, b, Len(b.pending)) /\ Rest(b) = f[Len(b.pending)]
<1> DEFINE n == Len(b.pending)
           F == CHOOSE f : FeedTurns(f, b, n)
<1>1. n \in Nat
  <2>1. b.pending \in Seq(Bytes)
    BY DEF Scrolls
  <2> QED
    BY <2>1
<1>2. Rest(b) = F[n]
  BY DEF Rest
<1> HIDE DEF n
<1>3. FeedTurns(F, b, n)
  BY <1>1, TurnsExist
<1> HIDE DEF F
<1>4. Turning(F, b, n)
  BY <1>1, <1>3 DEF FeedTurns, Turning
<1> QED
  BY <1>1, <1>2, <1>4 DEF n

\* Every turn takes a byte at least, until there is none to take.
LEMMA Settles ==
  ASSUME NEW b \in Scrolls, NEW n \in Nat, NEW f, Turning(f, b, n)
  PROVE  \A i \in 0..n : f[i] \in Scrolls /\ (Left(f[i]) = 0 \/ Left(f[i]) + i <= Left(b))
<1> DEFINE Ok(i) == f[i] \in Scrolls /\ (Left(f[i]) = 0 \/ Left(f[i]) + i <= Left(b))
           S == {i \in 0..n : Ok(i)}
<1>1. 0 \in S
  <2>1. f[0] = b /\ Left(b) \in Nat
    BY Turn DEF Turning
  <2> QED
    BY <2>1
<1>2. ASSUME NEW i \in 1..n, i - 1 \in S PROVE i \in S
  <2> DEFINE c == f[i - 1]
  <2>1. c \in Scrolls /\ (Left(c) = 0 \/ Left(c) + (i - 1) <= Left(b)) /\ f[i] = FeedStep(c) /\ i \in 0..n
    BY <1>2 DEF Turning
  <2> HIDE DEF c
  <2>2. /\ FeedStep(c) \in Scrolls /\ Left(c) \in Nat /\ Left(FeedStep(c)) \in Nat /\ Left(b) \in Nat
        /\ Left(c) = 0 => FeedStep(c) = c
        /\ Left(c) > 0 => Left(FeedStep(c)) < Left(c)
    BY <2>1, Turn
  <2>3. Left(FeedStep(c)) = 0 \/ Left(FeedStep(c)) + i <= Left(b)
    BY <2>1, <2>2
  <2> QED
    BY <2>1, <2>2, <2>3
<1>3. \A i \in 0..n : i \in S
  <2> HIDE DEF S
  <2> QED
    BY <1>1, <1>2, UpTo
<1> QED
  BY <1>3

\* Further turns change nothing.
LEMMA Settled ==
  ASSUME NEW b \in Scrolls, NEW n \in Nat, NEW m \in Nat, NEW f, NEW g, Turning(f, b, n), Turning(g, b, m),
         n >= Left(b), m >= Left(b)
  PROVE  f[n] = g[m]
<1> DEFINE k == Left(b)
<1>1. k \in Nat
  BY Turn
<1> HIDE DEF k
<1>2. k <= n /\ k <= m /\ k \in 0..n /\ k \in 0..m
  BY <1>1 DEF k
<1>3. f[k] = g[k]
  <2> DEFINE S == {i \in 0..k : f[i] = g[i]}
  <2>1. 0 \in S
    BY <1>1 DEF Turning
  <2>2. ASSUME NEW i \in 1..k, i - 1 \in S PROVE i \in S
    <3>1. i \in 1..n /\ i \in 1..m /\ i \in 0..k
      BY <1>1, <1>2
    <3> QED
      BY <2>2, <3>1 DEF Turning
  <2>3. k \in S
    <3>1. k \in 0..k
      BY <1>1
    <3> HIDE DEF S
    <3> QED
      BY <1>1, <2>1, <2>2, <3>1, UpTo
  <2> QED
    BY <2>3
<1>4. ASSUME NEW h, NEW j \in Nat, k <= j, Turning(h, b, j)
      PROVE  h[j] = h[k]
  <2>1. h[k] \in Scrolls /\ Left(h[k]) = 0
    <3>1. k \in 0..j
      BY <1>1, <1>4
    <3>2. h[k] \in Scrolls /\ (Left(h[k]) = 0 \/ Left(h[k]) + k <= k)
      BY <1>4, <3>1, Settles DEF k
    <3>3. Left(h[k]) \in Nat
      BY <3>2, Turn
    <3> QED
      BY <1>1, <3>2, <3>3
  <2>2. FeedStep(h[k]) = h[k]
    BY <2>1, Turn
  <2> DEFINE S == {i \in 0..j : i <= k \/ h[i] = h[k]}
  <2>3. 0 \in S
    BY <1>1, <1>4
  <2>4. ASSUME NEW i \in 1..j, i - 1 \in S PROVE i \in S
    <3>1. i \in 0..j /\ h[i] = FeedStep(h[i - 1])
      BY <1>4 DEF Turning
    <3>2. i - 1 <= k \/ h[i - 1] = h[k]
      BY <2>4
    <3>3. CASE i <= k
      BY <3>1, <3>3
    <3>4. CASE i - 1 = k \/ h[i - 1] = h[k]
      BY <2>2, <3>1, <3>4
    <3>5. i <= k \/ i - 1 = k \/ h[i - 1] = h[k]
      BY <1>1, <1>4, <3>2
    <3> QED
      BY <3>3, <3>4, <3>5
  <2>5. j \in S
    <3>1. j \in 0..j
      BY <1>4
    <3> HIDE DEF S
    <3> QED
      BY <1>4, <2>3, <2>4, <3>1, UpTo
  <2>6. j <= k => j = k
    BY <1>1, <1>4
  <2> QED
    BY <2>5, <2>6
<1> QED
  BY <1>2, <1>3, <1>4

\* A turn does not change what becomes of b.
LEMMA RestTurn ==
  ASSUME NEW b \in Scrolls
  PROVE  /\ Rest(b) \in Scrolls /\ Rest(b) = Rest(FeedStep(b))
         /\ Left(b) = 0 => Rest(b) = b
<1> DEFINE n == Len(b.pending)
           c == FeedStep(b)
           m == Len(c.pending)
<1>1. /\ c \in Scrolls /\ Left(b) \in Nat /\ Left(c) \in Nat
      /\ Left(b) = 0 => c = b
      /\ Left(b) > 0 => Left(c) < Left(b)
  BY Turn
<1> HIDE DEF c
<1>2. n \in Nat /\ m \in Nat /\ Left(b) <= n /\ Left(c) <= m
  <2>1. n \in Nat /\ m \in Nat
    BY <1>1, RestIs
  <2> HIDE DEF n, m
  <2> QED
    BY <2>1 DEF Left, n, m
<1>3. PICK f : Turning(f, b, n) /\ Rest(b) = f[n]
  BY RestIs
<1>4. PICK g : Turning(g, c, m) /\ Rest(c) = g[m]
  BY <1>1, RestIs
<1> HIDE DEF n, m
<1>5. Rest(b) \in Scrolls
  <2>1. n \in 0..n
    BY <1>2
  <2> QED
    BY <1>2, <1>3, <2>1, Settles
<1>6. CASE Left(b) = 0
  <2> DEFINE h == [i \in 0..0 |-> b]
  <2>1. Turning(h, b, 0) /\ h[0] = b
    BY DEF Turning
  <2> HIDE DEF h
  <2>2. f[n] = h[0]
    <3>1. 0 \in Nat /\ 0 >= Left(b) /\ n >= Left(b)
      BY <1>2, <1>6
    <3> QED
      BY <1>2, <1>3, <2>1, <3>1, Settled
  <2> QED
    BY <1>1, <1>3, <1>5, <1>6, <2>1, <2>2 DEF c
<1>7. CASE Left(b) > 0
  <2> DEFINE h == [i \in 0..(n - 1) |-> f[i + 1]]
  <2>1. n - 1 \in Nat /\ n - 1 >= Left(c) /\ m >= Left(c)
    BY <1>1, <1>2, <1>7
  <2>2. Turning(h, c, n - 1) /\ h[n - 1] = f[n]
    <3>1. f[0] = b /\ \A i \in 1..n : f[i] = FeedStep(f[i - 1])
      BY <1>3 DEF Turning
    <3>2. 1 \in 1..n /\ 0 \in 0..(n - 1) /\ n - 1 \in 0..(n - 1) /\ (n - 1) + 1 = n /\ 0 + 1 = 1 /\ 1 - 1 = 0
      BY <1>2, <2>1
    <3>3. h[0] = c
      BY <3>1, <3>2 DEF c
    <3>4. ASSUME NEW i \in 1..(n - 1) PROVE h[i] = FeedStep(h[i - 1])
      <4>1. i \in 0..(n - 1) /\ i - 1 \in 0..(n - 1) /\ (i - 1) + 1 = i /\ (i + 1) - 1 = i /\ i + 1 \in 1..n
        BY <1>2
      <4>2. h[i] = f[i + 1] /\ h[i - 1] = f[i]
        BY <4>1
      <4>3. f[i + 1] = FeedStep(f[i])
        BY <3>1, <4>1
      <4> HIDE DEF h
      <4> QED
        BY <4>2, <4>3
    <3>5. h[n - 1] = f[n]
      BY <3>2
    <3> HIDE DEF h
    <3> QED
      BY <3>3, <3>4, <3>5 DEF Turning
  <2> HIDE DEF h
  <2>3. g[m] = h[n - 1]
    BY <1>1, <1>2, <1>4, <2>1, <2>2, Settled
  <2>4. Left(b) # 0
    BY <1>7
  <2> QED
    BY <1>3, <1>4, <1>5, <2>2, <2>3, <2>4 DEF c
<1> QED
  BY <1>1, <1>6, <1>7

\* b is fed e afterwards or has it with the rest: it comes to the same.
Meets(b, e) == Rest(On(b, b.pending \o e)) = Rest(Start(Rest(b), e))

\* By the number of bytes that b has: it waits, it is through, or a turn leaves it fewer.
LEMMA Pieces ==
  ASSUME NEW b \in Scrolls, ~b.stuck, NEW e \in Seq(Bytes), e # <<>>, b.pending # <<>> => Apart(b.pending, e)
  PROVE  Meets(b, e)
<1> DEFINE Fit(c) == c \in Scrolls /\ ~c.stuck /\ (c.pending # <<>> => Apart(c.pending, e))
           N == Len(b.pending)
           S == {k \in 0..N : \A c \in Scrolls : Fit(c) /\ Len(c.pending) <= k => Meets(c, e)}
<1>1. N \in Nat /\ \A c \in Scrolls : c.pending \in Seq(Bytes) /\ Len(c.pending) \in Nat /\ (c.pending = <<>> <=> Len(c.pending) = 0)
  BY DEF Scrolls
<1> HIDE DEF N
<1>2. ASSUME NEW c \in Scrolls, Fit(c), c.pending = <<>> PROVE Meets(c, e)
  <2>1. Left(c) = 0
    BY <1>1, <1>2 DEF Left
  <2>2. Rest(c) = c
    BY <2>1, RestTurn
  <2>3. On(c, c.pending \o e) = Start(c, e)
    <3> DEFINE L == Seq(Bytes)
               M == Seq(L)
               all == c.pending \o e
    <3>1. all \in L
      BY <1>1
    <3> HIDE DEF L, M, all
    <3>2. c \in [lines : M, cur : L, pending : L, stuck : BOOLEAN] /\ ~c.stuck
      BY <1>2 DEF Scrolls, M, L
    <3>3. On(c, all) = [c EXCEPT !.pending = all, !.stuck = FALSE]
      BY <3>1, <3>2 DEF On
    <3> QED
      BY <3>3 DEF Start, all
  <2> QED
    BY <2>2, <2>3 DEF Meets
<1>3. ASSUME NEW c \in Scrolls, Fit(c), c.pending # <<>>, FeedStep(c) = [c EXCEPT !.stuck = TRUE] PROVE Meets(c, e)
  <2> DEFINE s == FeedStep(c)
             L == Seq(Bytes)
             M == Seq(L)
             all == c.pending \o e
  <2>1. all \in L
    BY <1>1
  <2> HIDE DEF L, M, all
  <2>2. c \in [lines : M, cur : L, pending : L, stuck : BOOLEAN] /\ ~c.stuck
    BY <1>3 DEF Scrolls, M, L
  <2>3. s.stuck /\ s.pending = c.pending /\ [s EXCEPT !.pending = all, !.stuck = FALSE] = On(c, all)
    BY <1>3, <2>1, <2>2 DEF On
  <2>4. s \in Scrolls
    BY Turn
  <2>5. Rest(c) = s
    <3>1. Left(s) = 0
      BY <2>3 DEF Left
    <3> HIDE DEF s
    <3>2. Rest(s) = s
      BY <2>4, <3>1, RestTurn
    <3> QED
      BY <3>2, RestTurn DEF s
  <2>6. Start(s, e) = On(c, all)
    BY <2>3 DEF Start, all
  <2> QED
    BY <2>5, <2>6 DEF Meets, all
<1>4. ASSUME NEW c \in Scrolls, Fit(c), c.pending # <<>>, Advances(c, FeedStep(c)), Carries(c, e),
             Fit(FeedStep(c)) => Meets(FeedStep(c), e)
      PROVE  Meets(c, e)
  <2> DEFINE s == FeedStep(c)
             d == c.pending
             all == d \o e
  <2>1. PICK n \in 1..Len(d) : s.pending = Drop(d, n)
    BY <1>4 DEF Advances
  <2>2. s \in Scrolls /\ ~s.stuck
    BY <1>4 DEF Advances
  <2>3. s.pending # <<>> => Apart(s.pending, e)
    <3> SUFFICES ASSUME s.pending # <<>> PROVE Apart(s.pending, e)
      OBVIOUS
    <3>1. Len(s.pending) > 0
      <4> HIDE DEF s, d
      <4> QED
        BY <1>1, <2>2
    <3>2. Apart(d, e) /\ d \in Seq(Bytes)
      BY <1>1, <1>4
    <3> HIDE DEF s, d
    <3>3. s.pending[Len(s.pending)] = d[Len(d)]
      BY <2>1, <3>1, <3>2, Fronts
    <3> QED
      BY <3>2, <3>3 DEF Apart
  <2>4. Meets(s, e)
    BY <1>4, <2>2, <2>3
  <2>5. all \in Seq(Bytes)
    BY <1>1
  <2>6. On(c, all) \in Scrolls
    BY <2>5, OnTyped
  <2>7. Rest(On(c, all)) = Rest(On(s, s.pending \o e))
    BY <1>4, <2>6, RestTurn DEF Carries
  <2>8. Rest(c) = Rest(s)
    BY RestTurn
  <2> QED
    BY <2>4, <2>7, <2>8 DEF Meets
<1>5. 0 \in S
  BY <1>1, <1>2
<1>6. ASSUME NEW k \in 1..N, k - 1 \in S PROVE k \in S
  <2> SUFFICES ASSUME NEW c \in Scrolls, Fit(c), Len(c.pending) <= k PROVE Meets(c, e)
    BY <1>1
  <2>1. CASE c.pending = <<>>
    BY <1>2, <2>1
  <2>2. CASE c.pending # <<>> /\ FeedStep(c) = [c EXCEPT !.stuck = TRUE]
    BY <1>3, <2>2
  <2>3. CASE c.pending # <<>> /\ Advances(c, FeedStep(c)) /\ Carries(c, e)
    <3> DEFINE s == FeedStep(c)
    <3>1. s \in Scrolls
      BY <2>3 DEF Advances
    <3>2. Len(s.pending) <= k - 1
      <4>1. Left(c) = Len(c.pending) /\ Left(s) = Len(s.pending) /\ Left(c) > 0
        <5>1. ~c.stuck /\ ~s.stuck
          BY <2>3 DEF Advances
        <5>2. Left(c) = Len(c.pending) /\ Left(s) = Len(s.pending)
          BY <5>1 DEF Left
        <5> HIDE DEF s
        <5>3. Len(c.pending) > 0
          BY <1>1, <2>3
        <5> QED
          BY <5>2, <5>3
      <4>2. Left(s) < Left(c) /\ Left(s) \in Nat /\ Left(c) \in Nat
        BY <4>1, Turn
      <4> HIDE DEF s
      <4> QED
        BY <1>1, <4>1, <4>2
    <3>3. Fit(s) => Meets(s, e)
      <4> HIDE DEF s, Fit
      <4> QED
        BY <1>6, <3>1, <3>2
    <3> HIDE DEF Fit
    <3> QED
      BY <1>4, <2>3, <3>3
  <2>4. c.pending = <<>> \/ FeedStep(c) = [c EXCEPT !.stuck = TRUE] \/ (Advances(c, FeedStep(c)) /\ Carries(c, e))
    BY StepCarries
  <2> QED
    BY <2>1, <2>2, <2>3, <2>4
<1>7. N \in S
  <2>1. N \in 0..N
    BY <1>1
  <2> HIDE DEF S
  <2> QED
    BY <1>1, <1>5, <1>6, <2>1, UpTo
<1>8. Fit(b) /\ Len(b.pending) <= N
  BY <1>1 DEF N
<1> QED
  BY <1>7, <1>8

\* The empty scrollback is one.
LEMMA EmptyScrollTyped == EmptyScroll \in Scrolls
<1> DEFINE M == Seq(Seq(Bytes))
           L == Seq(Bytes)
<1>1. <<>> \in M /\ <<>> \in L
  OBVIOUS
<1> HIDE DEF M, L
<1>2. EmptyScroll \in [lines : M, cur : L, pending : L, stuck : BOOLEAN]
  BY <1>1 DEF EmptyScroll
<1> QED
  BY <1>2 DEF Scrolls, M, L

\* feed: output in two pieces is output in one, unless they part a line end.
LEMMA FeedPieces ==
  ASSUME NEW d \in Seq(Bytes), NEW e \in Seq(Bytes), e # <<>>, d # <<>> => Apart(d, e)
  PROVE  feed(EmptyScroll, d \o e) = feed(feed(EmptyScroll, d), e)
<1> DEFINE b == Start(EmptyScroll, d)
           all == d \o e
<1>1. all \in Seq(Bytes) /\ <<>> \o d = d /\ <<>> \o all = all
  OBVIOUS
<1> HIDE DEF all
<1>2. EmptyScroll \in Scrolls /\ EmptyScroll.pending = <<>>
  BY EmptyScrollTyped DEF EmptyScroll
<1>3. b \in Scrolls /\ b.pending = d /\ ~b.stuck
  BY <1>1, <1>2, StartTyped
<1>4. Start(EmptyScroll, all) = On(b, all)
  <2> DEFINE M == Seq(Seq(Bytes))
             L == Seq(Bytes)
             c == EmptyScroll
  <2> HIDE DEF M, L
  <2>1. c \in [lines : M, cur : L, pending : L, stuck : BOOLEAN] /\ d \in L /\ all \in L
    BY <1>1, EmptyScrollTyped DEF Scrolls, M, L
  <2>2. Start(c, all) = [c EXCEPT !.pending = all, !.stuck = FALSE] /\ Start(c, d) = [c EXCEPT !.pending = d, !.stuck = FALSE]
    BY <1>1, <1>2 DEF Start
  <2> HIDE DEF c
  <2>3. Start(c, all) = On(Start(c, d), all)
    BY <2>1, <2>2 DEF On
  <2> QED
    BY <2>3 DEF c
<1>5. feed(EmptyScroll, d) = Rest(b) /\ feed(EmptyScroll, all) = Rest(On(b, all))
  BY <1>1, <1>2, <1>4, FeedIs
<1> HIDE DEF b
<1>6. Rest(b) \in Scrolls
  BY <1>3, RestTurn
<1>7. feed(Rest(b), e) = Rest(Start(Rest(b), e))
  BY <1>6, FeedIs
<1>8. Meets(b, e)
  BY <1>3, Pieces
<1> QED
  BY <1>3, <1>5, <1>7, <1>8 DEF Meets, all

\* The scrollback is the one of the output in one piece; the output ends as its last event does.
ScrolledInv ==
  /\ scroll \in Scrolls
  /\ events # <<>> => Flat(events) # <<>> /\ Last(Flat(events)) = Last(events[Len(events)])
  /\ scroll = feed(EmptyScroll, Flat(events)) \/ CutsLineEnd

\* It holds before the first event.
LEMMA ScrolledInit == TerminalInit => ScrolledInv
<1> SUFFICES ASSUME TerminalInit PROVE ScrolledInv
  OBVIOUS
<1> DEFINE none == <<>>
           b == Start(EmptyScroll, none)
<1>1. none \in Seq(Bytes) /\ none \o none = none /\ Len(none) = 0
  OBVIOUS
<1> HIDE DEF none
<1>2. Flat(events) = none /\ events = <<>> /\ scroll = EmptyScroll
  BY FlatEmpty DEF none, TerminalInit
<1>3. feed(EmptyScroll, none) = Rest(b) /\ b \in Scrolls
  BY <1>1, EmptyScrollTyped, FeedIs, StartTyped
<1>4. b = EmptyScroll
  <2>1. EmptyScroll.pending = none
    BY DEF EmptyScroll, none
  <2>2. b = [EmptyScroll EXCEPT !.pending = none, !.stuck = FALSE]
    BY <1>1, <2>1 DEF Start
  <2> QED
    BY <2>2 DEF EmptyScroll, none
<1>5. Left(b) = 0
  BY <1>1, <1>4 DEF Left, EmptyScroll, none
<1> HIDE DEF b
<1>6. Rest(b) = b
  BY <1>3, <1>5, RestTurn
<1> QED
  BY <1>2, <1>3, <1>4, <1>6, EmptyScrollTyped DEF ScrolledInv

\* It holds after every event: one that parts a line end says so from then on.
LEMMA ScrolledStep ==
  ASSUME TextInv, ScrolledInv, [TerminalNext]_terminalVars
  PROVE  ScrolledInv'
<1>1. CASE UNCHANGED <<events, scroll, ring>>
  BY <1>1 DEF ScrolledInv, CutsLineEnd
<1>2. ASSUME NEW data \in Seq(Bytes), Fed(data) PROVE ScrolledInv'
  <2> DEFINE L == Seq(Bytes)
             n == Len(events)
             f == Flat(events)
             g == f \o data
  <2>1. events \in Seq(L)
    BY DEF TextInv, TextOK
  <2>2. data # <<>> /\ events' = Append(events, data) /\ scroll' = feed(scroll, data)
    BY <1>2 DEF Fed
  <2>3. f \in Seq(Bytes) /\ Flat(events)' = g
    <3>1. Flat(Append(events, data)) = g /\ f \in Seq(Bytes)
      BY <2>1, FlatAppend
    <3>2. Flat(events)' = Flat(events')
      BY DEF Flat
    <3> QED
      BY <2>2, <3>1, <3>2
  <2> HIDE DEF L
  <2>4. /\ n \in Nat /\ Len(events') = n + 1 /\ DOMAIN events = 1..n /\ DOMAIN events' = 1..(n + 1)
        /\ events'[n + 1] = data /\ \A i \in 1..n : events'[i] = events[i]
        /\ events = <<>> \/ n >= 1
    <3>1. data \in L
      BY DEF L
    <3> QED
      BY <2>1, <2>2, <3>1
  <2> HIDE DEF f, n
  <2>5. scroll' \in Scrolls
    <3>1. scroll' = Rest(Start(scroll, data)) /\ Start(scroll, data) \in Scrolls
      BY <2>2, FeedIs, StartTyped DEF ScrolledInv
    <3> QED
      BY <3>1, RestTurn
  <2>6. g # <<>> /\ Last(g) = Last(data)
    <3>1. /\ Len(data) \in Nat /\ Len(data) >= 1 /\ Len(f) \in Nat /\ Len(g) = Len(f) + Len(data) /\ g \in Seq(Bytes)
          /\ \A i \in 1..Len(data) : g[Len(f) + i] = data[i]
      BY <2>2, <2>3
    <3> HIDE DEF g
    <3>2. Len(data) \in 1..Len(data) /\ Len(g) >= 1
      BY <3>1
    <3>3. g[Len(g)] = data[Len(data)]
      BY <3>1, <3>2
    <3>4. g # <<>>
      BY <3>1, <3>2
    <3> QED
      BY <3>3, <3>4 DEF Last
  <2>7. CASE CutsLineEnd
    <3>1. PICK k \in DOMAIN events : k < n /\ Last(events[k]) = "CR" /\ events[k + 1][1] = "LF"
      BY <2>7 DEF CutsLineEnd, n
    <3>2. k \in DOMAIN events' /\ k < n + 1 /\ events'[k] = events[k] /\ events'[k + 1] = events[k + 1]
      <4>1. k \in 1..n /\ k + 1 \in 1..n /\ k \in 1..(n + 1) /\ k < n + 1
        BY <2>4, <3>1
      <4> QED
        BY <2>4, <4>1
    <3>3. CutsLineEnd'
      BY <2>4, <3>1, <3>2 DEF CutsLineEnd
    <3> QED
      BY <2>3, <2>4, <2>5, <2>6, <3>3 DEF ScrolledInv
  <2>8. CASE ~CutsLineEnd /\ events # <<>> /\ ~Apart(f, data)
    <3>1. n \in 1..(n + 1) /\ n \in 1..n /\ n < n + 1
      BY <2>4, <2>8
    <3>2. Last(events[n]) = "CR" /\ data[1] = "LF"
      <4>1. Last(f) = Last(events[n])
        BY <2>8 DEF ScrolledInv, f, n
      <4> QED
        BY <2>8, <4>1 DEF Apart, Last
    <3>3. CutsLineEnd'
      BY <2>4, <3>1, <3>2 DEF CutsLineEnd
    <3> QED
      BY <2>3, <2>4, <2>5, <2>6, <3>3 DEF ScrolledInv
  <2>9. CASE ~CutsLineEnd /\ (events = <<>> \/ Apart(f, data))
    <3>1. f # <<>> => Apart(f, data)
      BY <2>9, FlatEmpty DEF f
    <3>2. feed(EmptyScroll, g) = feed(feed(EmptyScroll, f), data)
      BY <2>2, <2>3, <3>1, FeedPieces
    <3>3. scroll = feed(EmptyScroll, f)
      BY <2>9 DEF ScrolledInv, f
    <3>4. scroll' = feed(EmptyScroll, Flat(events)')
      BY <2>2, <2>3, <3>2, <3>3
    <3>5. (scroll = feed(EmptyScroll, Flat(events)))'
      BY <3>4
    <3> QED
      BY <2>3, <2>4, <2>5, <2>6, <3>5 DEF ScrolledInv
  <2> QED
    BY <2>7, <2>8, <2>9
<1> QED
  BY <1>1, <1>2, StepFeeds
-----------------------------------------------------------------------------
\* Wherever the reads of the recorder and cast.Writer cut the output, and however
\* long it is: tail prints the last lines of all of it (lineRing.add, String), the
\* command list of the player is that of the output in one piece (buildChapters),
\* and so is its scrollback (lineBuf.feed), unless a line end was cut between CR
\* and LF.
THEOREM ViewsSeeStream == TerminalSpec => []ViewsSeeOneStream
<1>1. TerminalInit => TextInv /\ ListedInv /\ TailInv /\ ScrolledInv
  BY TextInit, ListedInit, TailInit, ScrolledInit
<1>2. TextInv /\ ListedInv /\ TailInv /\ ScrolledInv /\ [TerminalNext]_terminalVars =>
        (TextInv /\ ListedInv /\ TailInv /\ ScrolledInv)'
  BY TextStep, ListedStep, TailStep, ScrolledStep
<1>3. TextInv /\ ListedInv /\ TailInv /\ ScrolledInv => ViewsSeeOneStream
  <2> SUFFICES ASSUME TextInv, ListedInv, TailInv, ScrolledInv PROVE ViewsSeeOneStream
    OBVIOUS
  <2> DEFINE all == FlattenSeq(events)
  <2>1. all = Flat(events) /\ all \in Seq(Bytes)
    <3>1. events \in Seq(Seq(Bytes)) /\ <<>> \in Seq(Bytes)
      BY DEF TextInv, TextOK
    <3>2. Flat(events) \in Seq(Bytes)
      BY <3>1, FlatAppend
    <3> QED
      BY <3>2 DEF Flat
  <2>2. RingString(ring) = LastLines(all)
    BY <2>1, RingTells DEF TailInv
  <2>3. Labels(events) = Labels(<<all>>)
    BY <2>1, LabelsShown DEF ListedInv
  <2>4. scroll = feed(EmptyScroll, all) \/ CutsLineEnd
    BY <2>1 DEF ScrolledInv
  <2> QED
    BY <2>2, <2>3, <2>4 DEF ViewsSeeOneStream
<1> QED
  BY <1>1, <1>2, <1>3, PTL DEF TerminalSpec
-----------------------------------------------------------------------------
(* The player, at the other end of a recording (Player): what is on screen   *)
(* are the outputs in front of idx, after every closure of the loop.         *)

\* h collects the members of S from i up to j.
Collects(h, S, i, j) ==
  h = [k \in i..j |-> IF k = i THEN <<>> ELSE IF k - 1 \in S THEN Append(h[k - 1], k - 1) ELSE h[k - 1]]

\* InOrder is the last value of a function that collects.
LEMMA InOrderIs ==
  ASSUME NEW S, NEW i, NEW j
  PROVE  InOrder(S, i, j) = (CHOOSE h : Collects(h, S, i, j))[j]
BY DEF InOrder, Collects

\* There is such a function.
LEMMA CollectExists ==
  ASSUME NEW S, NEW i \in Nat, NEW j \in Nat, i <= j
  PROVE  \E h \in [i..j -> Seq(Nat)] : Collects(h, S, i, j)
<1> DEFINE Now(f, k) == IF k = i THEN <<>> ELSE IF k - 1 \in S THEN Append(f[k - 1], k - 1) ELSE f[k - 1]
           Good(f, m) == \A k \in i..m : f[k] = Now(f, k)
           Bad == {m \in i..j : ~\E f \in [i..j -> Seq(Nat)] : Good(f, m)}
<1>1. ASSUME Bad # {} PROVE FALSE
  <2>1. PICK m \in Bad : \A k \in Bad : m <= k
    <3>1. Bad \subseteq Nat
      OBVIOUS
    <3> HIDE DEF Bad
    <3> QED
      BY <1>1, <3>1, Least
  <2>2. m \in i..j /\ ~\E f \in [i..j -> Seq(Nat)] : Good(f, m)
    OBVIOUS
  <2>3. m # i
    <3>1. [k \in i..j |-> <<>>] \in [i..j -> Seq(Nat)]
      OBVIOUS
    <3>2. Good([k \in i..j |-> <<>>], i)
      OBVIOUS
    <3> QED
      BY <2>2, <3>1, <3>2
  <2>4. m - 1 \in i..j /\ ~(m <= m - 1) /\ m - 1 \in Nat
    BY <2>2, <2>3
  <2>5. PICK f \in [i..j -> Seq(Nat)] : Good(f, m - 1)
    <3>1. m - 1 \notin Bad
      <4> HIDE DEF Bad
      <4> QED
        BY <2>1, <2>4
    <3> QED
      BY <2>4, <3>1
  <2> DEFINE g == [f EXCEPT ![m] = Now(f, m)]
  <2>6. g \in [i..j -> Seq(Nat)]
    <3>1. Now(f, m) \in Seq(Nat)
      BY <2>3, <2>4
    <3> HIDE DEF Now
    <3> QED
      BY <3>1
  <2>7. Good(g, m)
    <3> SUFFICES ASSUME NEW k \in i..m PROVE g[k] = Now(g, k)
      OBVIOUS
    <3>1. k \in i..j /\ (k # m => k \in i..(m - 1)) /\ (k # i => k - 1 \in i..j /\ k - 1 # m)
      BY <2>2
    <3>2. Now(g, k) = Now(f, k)
      BY <3>1
    <3>3. g[k] = IF k = m THEN Now(f, m) ELSE f[k]
      <4> HIDE DEF Now
      <4> QED
        BY <3>1
    <3> QED
      BY <2>5, <3>1, <3>2, <3>3
  <2> QED
    BY <2>2, <2>6, <2>7
<1>2. PICK f \in [i..j -> Seq(Nat)] : Good(f, j)
  <2>0. Bad = {}
    BY <1>1
  <2>1. j \in i..j /\ j \notin Bad
    <3> HIDE DEF Bad
    <3> QED
      BY <2>0
  <2> QED
    BY <2>1
<1> QED
  BY <1>2 DEF Collects

\* Functions that collect from i on from sets that agree so far agree so far.
LEMMA CollectAgree ==
  ASSUME NEW S, NEW T, NEW i \in Nat, NEW j \in Nat, NEW l \in Nat, NEW n \in Nat, i <= n, n <= j, n <= l,
         \A k \in i..(n - 1) : k \in S <=> k \in T,
         NEW f, Collects(f, S, i, j), NEW g, Collects(g, T, i, l)
  PROVE  f[n] = g[n]
<1> DEFINE Bad == {m \in i..n : f[m] # g[m]}
<1>1. ASSUME Bad # {} PROVE FALSE
  <2>1. PICK m \in Bad : \A k \in Bad : m <= k
    <3>1. Bad \subseteq Nat
      OBVIOUS
    <3> HIDE DEF Bad
    <3> QED
      BY <1>1, <3>1, Least
  <2>2. m \in i..n /\ m \in i..j /\ m \in i..l /\ f[m] # g[m]
    OBVIOUS
  <2>3. m # i
    BY <2>2 DEF Collects
  <2>4. m - 1 \in i..n /\ ~(m <= m - 1)
    BY <2>2, <2>3
  <2>5. m - 1 \notin Bad
    <3> HIDE DEF Bad
    <3> QED
      BY <2>1, <2>4
  <2>6. f[m - 1] = g[m - 1]
    BY <2>4, <2>5
  <2>7. m - 1 \in S <=> m - 1 \in T
    BY <2>2, <2>3
  <2> QED
    BY <2>2, <2>3, <2>6, <2>7 DEF Collects
<1>2. Bad = {}
  BY <1>1
<1>3. n \in i..n /\ n \notin Bad
  <2> HIDE DEF Bad
  <2> QED
    BY <1>2
<1> QED
  BY <1>3

\* One number more.
LEMMA InOrderStep ==
  ASSUME NEW S, NEW i \in Nat, NEW j \in Nat, i <= j
  PROVE  /\ InOrder(S, i, i) = <<>> /\ InOrder(S, i, j) \in Seq(Nat)
         /\ j \in S => InOrder(S, i, j + 1) = Append(InOrder(S, i, j), j)
         /\ j \notin S => InOrder(S, i, j + 1) = InOrder(S, i, j)
<1> DEFINE F(k) == CHOOSE h : Collects(h, S, i, k)
<1>1. \A k \in Nat : i <= k => Collects(F(k), S, i, k)
  <2> SUFFICES ASSUME NEW k \in Nat, i <= k PROVE Collects(F(k), S, i, k)
    OBVIOUS
  <2>1. \E h : Collects(h, S, i, k)
    BY CollectExists
  <2> QED
    BY <2>1
<1>2. \A k : InOrder(S, i, k) = F(k)[k]
  BY InOrderIs
<1> HIDE DEF F
<1>3. InOrder(S, i, i) = <<>>
  <2>1. Collects(F(i), S, i, i)
    BY <1>1
  <2> QED
    BY <1>2, <2>1 DEF Collects
<1>4. PICK h \in [i..j -> Seq(Nat)] : Collects(h, S, i, j)
  BY CollectExists
<1>5. F(j)[j] = h[j] /\ F(j + 1)[j] = F(j)[j]
  <2>1. Collects(F(j), S, i, j) /\ Collects(F(j + 1), S, i, j + 1) /\ j <= j /\ j <= j + 1 /\ j + 1 \in Nat
    BY <1>1
  <2>2. F(j)[j] = h[j]
    BY <1>4, <2>1, CollectAgree
  <2>3. \A l \in Nat : j <= l /\ Collects(F(l), S, i, l) => F(j)[j] = F(l)[j]
    BY <2>1, CollectAgree
  <2>3a. F(j)[j] = F(j + 1)[j]
    BY <2>1, <2>3
  <2> QED
    BY <2>2, <2>3a
<1>6. F(j + 1)[j + 1] = IF j \in S THEN Append(F(j + 1)[j], j) ELSE F(j + 1)[j]
  <2>1. Collects(F(j + 1), S, i, j + 1)
    BY <1>1
  <2>2. j + 1 \in i..(j + 1) /\ j + 1 # i /\ (j + 1) - 1 = j
    OBVIOUS
  <2> QED
    BY <2>1, <2>2 DEF Collects
<1>7. h[j] \in Seq(Nat)
  OBVIOUS
<1> QED
  BY <1>2, <1>3, <1>5, <1>6, <1>7

\* From i to j and on to k is from i to k.
LEMMA InOrderParts ==
  ASSUME NEW S, NEW i \in Nat, NEW j \in Nat, NEW k \in Nat, i <= j, j <= k
  PROVE  InOrder(S, i, j) \o InOrder(S, j, k) = InOrder(S, i, k)
<1> DEFINE Bad == {m \in j..k : InOrder(S, i, j) \o InOrder(S, j, m) # InOrder(S, i, m)}
<1>1. ASSUME Bad # {} PROVE FALSE
  <2>1. PICK m \in Bad : \A l \in Bad : m <= l
    <3>1. Bad \subseteq Nat
      OBVIOUS
    <3> HIDE DEF Bad
    <3> QED
      BY <1>1, <3>1, Least
  <2>2. m \in j..k /\ InOrder(S, i, j) \o InOrder(S, j, m) # InOrder(S, i, m)
    OBVIOUS
  <2>a. InOrder(S, i, j) \in Seq(Nat) /\ InOrder(S, j, j) = <<>>
    BY InOrderStep
  <2>3. m # j
    BY <2>2, <2>a
  <2> DEFINE l == m - 1
  <2>4. l \in j..k /\ ~(m <= l) /\ l \in Nat /\ m = l + 1 /\ i <= l /\ j <= l
    BY <2>2, <2>3
  <2>5. l \notin Bad
    <3> HIDE DEF Bad, l
    <3> QED
      BY <2>1, <2>4
  <2>6. InOrder(S, i, j) \o InOrder(S, j, l) = InOrder(S, i, l)
    BY <2>4, <2>5
  <2> HIDE DEF l, Bad
  <2>7. /\ InOrder(S, i, m) = IF l \in S THEN Append(InOrder(S, i, l), l) ELSE InOrder(S, i, l)
        /\ InOrder(S, j, m) = IF l \in S THEN Append(InOrder(S, j, l), l) ELSE InOrder(S, j, l)
        /\ InOrder(S, j, l) \in Seq(Nat)
    <3>1. \A x, y \in Nat : x <= y =>
            /\ InOrder(S, x, y) \in Seq(Nat)
            /\ InOrder(S, x, y + 1) = IF y \in S THEN Append(InOrder(S, x, y), y) ELSE InOrder(S, x, y)
      <4> SUFFICES ASSUME NEW x \in Nat, NEW y \in Nat, x <= y
                   PROVE  /\ InOrder(S, x, y) \in Seq(Nat)
                          /\ InOrder(S, x, y + 1) = IF y \in S THEN Append(InOrder(S, x, y), y) ELSE InOrder(S, x, y)
        OBVIOUS
      <4> QED
        BY InOrderStep
    <3> QED
      BY <2>4, <3>1
  <2>8. \A x, y \in Seq(Nat) : \A e \in Nat : x \o Append(y, e) = Append(x \o y, e)
    OBVIOUS
  <2> QED
    BY <2>2, <2>4, <2>6, <2>7, <2>8, <2>a
<1>2. k \in j..k /\ k \notin Bad
  <2>1. Bad = {}
    BY <1>1
  <2> HIDE DEF Bad
  <2> QED
    BY <2>1
<1> QED
  BY <1>2

\* Sets that agree from i up to j have the same members there, in order.
LEMMA InOrderAgree ==
  ASSUME NEW S, NEW T, NEW i \in Nat, NEW j \in Nat, i <= j, \A k \in i..(j - 1) : k \in S <=> k \in T
  PROVE  InOrder(S, i, j) = InOrder(T, i, j)
<1> DEFINE f == CHOOSE h : Collects(h, S, i, j)
           g == CHOOSE h : Collects(h, T, i, j)
<1>1. Collects(f, S, i, j)
  <2>1. \E h : Collects(h, S, i, j)
    BY CollectExists
  <2> QED
    BY <2>1
<1>2. Collects(g, T, i, j)
  <2>1. \E h : Collects(h, T, i, j)
    BY CollectExists
  <2> QED
    BY <2>1
<1>3. InOrder(S, i, j) = f[j] /\ InOrder(T, i, j) = g[j]
  BY InOrderIs
<1> HIDE DEF f, g
<1>4. f[j] = g[j]
  BY <1>1, <1>2, CollectAgree
<1> QED
  BY <1>3, <1>4

\* Where S has no members there are none.
LEMMA InOrderNone ==
  ASSUME NEW S, NEW i \in Nat, NEW j \in Nat, i <= j, \A k \in i..(j - 1) : k \notin S
  PROVE  InOrder(S, i, j) = <<>>
<1> DEFINE Bad == {m \in i..j : InOrder(S, i, m) # <<>>}
<1>1. ASSUME Bad # {} PROVE FALSE
  <2>1. PICK m \in Bad : \A l \in Bad : m <= l
    <3>1. Bad \subseteq Nat
      OBVIOUS
    <3> HIDE DEF Bad
    <3> QED
      BY <1>1, <3>1, Least
  <2>2. m \in i..j /\ InOrder(S, i, m) # <<>>
    OBVIOUS
  <2>3. m # i
    BY <2>2, InOrderStep
  <2> DEFINE l == m - 1
  <2>4. l \in i..j /\ ~(m <= l) /\ l \in Nat /\ m = l + 1 /\ i <= l /\ l \in i..(j - 1)
    BY <2>2, <2>3
  <2>5. l \notin Bad
    <3> HIDE DEF Bad, l
    <3> QED
      BY <2>1, <2>4
  <2>6. InOrder(S, i, l) = <<>>
    BY <2>4, <2>5
  <2> HIDE DEF l, Bad
  <2>7. InOrder(S, i, l + 1) = InOrder(S, i, l)
    <3>1. \A x, y \in Nat : x <= y =>
            InOrder(S, x, y + 1) = IF y \in S THEN Append(InOrder(S, x, y), y) ELSE InOrder(S, x, y)
      BY InOrderStep, Zenon
    <3>2. l \notin S
      BY <2>4
    <3> QED
      BY <2>4, <3>1, <3>2
  <2> QED
    BY <2>2, <2>4, <2>6, <2>7
<1>2. j \in i..j /\ j \notin Bad
  <2>1. Bad = {}
    BY <1>1
  <2> HIDE DEF Bad
  <2> QED
    BY <2>1
<1> QED
  BY <1>2

\* q shows what it has passed, and stands on an event or behind the last one.
Follows(q) ==
  /\ {"idx", "shown", "paused"} \subseteq DOMAIN q
  /\ q.idx \in 1..(Len(played) + 1)
  /\ q.shown = Between(1, q.idx)
Playable == Len(played) \in Nat /\ DOMAIN played = 1..Len(played)

\* The closures of the loop, one by one.
LEMMA SyncFollows ==
  ASSUME NEW q, Follows(q)
  PROVE  Follows(syncClock(q))
BY DEF Follows, syncClock

LEMMA ForwardFollows ==
  ASSUME Playable, NEW q, Follows(q), NEW target
  PROVE  Follows(emitForward(q, target))
<1> DEFINE S == {i \in q.idx..Len(played) : played[i].t > target} \cup {Len(played) + 1}
           stop == Min(S)
<1>1. Len(played) \in Nat /\ q.idx \in Nat /\ q.idx <= Len(played) + 1 /\ q.idx > 0
  BY DEF Playable, Follows
<1>2. S \subseteq Nat /\ S # {} /\ \A x \in S : q.idx <= x /\ x <= Len(played) + 1
  BY <1>1
<1> HIDE DEF S
<1>3. PICK x \in S : \A y \in S : x <= y
  BY <1>2, Least
<1>4. stop \in S
  BY <1>3 DEF Min
<1>5. stop \in Nat /\ q.idx <= stop /\ stop <= Len(played) + 1
  BY <1>2, <1>4
<1> HIDE DEF stop
<1>6. Between(1, q.idx) \o Between(q.idx, stop) = Between(1, stop)
  <2>1. \A i, j, k \in Nat : i <= j /\ j <= k => Between(i, j) \o Between(j, k) = Between(i, k)
    BY InOrderParts DEF Between
  <2>2. 1 \in Nat /\ q.idx \in Nat /\ stop \in Nat /\ 1 <= q.idx /\ q.idx <= stop
    BY <1>1, <1>5
  <2> QED
    BY <2>1, <2>2, Zenon
<1>7. emitForward(q, target) = [q EXCEPT !.idx = stop, !.shown = @ \o Between(q.idx, stop)]
  BY DEF emitForward, stop, S
<1> QED
  BY <1>1, <1>5, <1>6, <1>7 DEF Follows

LEMMA RenderFollows ==
  ASSUME Playable, NEW q, Follows(q), NEW target
  PROVE  Follows(renderTo(q, target))
<1>1. Between(1, 1) = <<>>
  BY InOrderStep DEF Between
<1>2. Follows([q EXCEPT !.idx = 1, !.shown = <<>>])
  BY <1>1 DEF Follows, Playable
<1> QED
  BY <1>2, ForwardFollows DEF renderTo

LEMMA SeekFollows ==
  ASSUME Playable, NEW q, Follows(q), NEW target
  PROVE  Follows(seek(q, target))
<1> DEFINE t == clampSeek(target)
           r == IF t < q.vt THEN renderTo(q, t) ELSE emitForward(q, t)
<1>1. Follows(r)
  BY RenderFollows, ForwardFollows
<1>2. seek(q, target) = [r EXCEPT !.vt = t, !.ahead = 0]
  BY DEF seek
<1> HIDE DEF r, t
<1> QED
  BY <1>1, <1>2 DEF Follows

LEMMA ScrollFollows ==
  ASSUME Playable, NEW q, Follows(q)
  PROVE  Follows(scrollUp(q)) /\ Follows(scrollDown(q)) /\ Follows(exitScroll(q))
<1>1. ASSUME NEW s, Follows(s) PROVE Follows(exitScroll(s))
  <2>1. Follows([s EXCEPT !.scroll = FALSE, !.region = "bar"])
    BY <1>1 DEF Follows
  <2> QED
    BY <2>1, RenderFollows DEF exitScroll
<1>2. Follows(enterScroll(q))
  <2>1. Follows(syncClock(q))
    BY SyncFollows
  <2> QED
    BY <2>1 DEF Follows, enterScroll
<1>3. Follows(scrollUp(q))
  <2>1. \A x : Follows([q EXCEPT !.offset = x])
    BY DEF Follows
  <2> HIDE DEF Follows
  <2> QED
    BY <1>2, <2>1 DEF scrollUp
<1>4. Follows(scrollDown(q))
  <2>1. \A x : Follows([q EXCEPT !.offset = x])
    BY DEF Follows
  <2>2. Follows([q EXCEPT !.offset = Max({@ - ScrollStep, 0})])
    BY <2>1
  <2> DEFINE down == [q EXCEPT !.offset = Max({@ - ScrollStep, 0})]
  <2>3. Follows(down) /\ Follows(exitScroll(down))
    BY <1>1, <2>2
  <2>4. scrollDown(q) = IF ~q.scroll THEN q ELSE IF down.offset = 0 THEN exitScroll(down) ELSE down
    BY DEF scrollDown
  <2> HIDE DEF down
  <2> QED
    BY <2>3, <2>4
<1> QED
  BY <1>1, <1>3, <1>4

LEMMA ResizeFollows ==
  ASSUME Playable, NEW q, Follows(q)
  PROVE  Follows(resize(q))
<1>1. Follows([q EXCEPT !.region = Region(q)])
  BY DEF Follows
<1> QED
  BY <1>1, RenderFollows DEF resize

LEMMA ToggleFollows ==
  ASSUME Playable, NEW q, Follows(q)
  PROVE  Follows(toggleBar(q))
<1> DEFINE s == [syncClock(q) EXCEPT !.barHidden = ~@]
<1>1. Follows(syncClock(q))
  BY SyncFollows
<1>2. Follows(s)
  BY <1>1 DEF Follows
<1>3. Follows([s EXCEPT !.region = Region(s)])
  <2> HIDE DEF s
  <2> QED
    BY <1>2 DEF Follows
<1> QED
  BY <1>3, RenderFollows DEF toggleBar

LEMMA ListFollows ==
  ASSUME Playable, NEW q, Follows(q)
  PROVE  Follows(openGotoList(q)) /\ \A target, jump : Follows(exitList(q, target, jump))
<1>1. Follows(syncClock(q))
  BY SyncFollows
<1>2. ASSUME NEW x PROVE Follows([syncClock(q) EXCEPT !.inGoto = x]) /\ Follows([syncClock(q) EXCEPT !.list = x])
  BY <1>1 DEF Follows
<1>3. Follows(openGotoList(q))
  BY <1>2 DEF openGotoList
<1>4. ASSUME NEW target, NEW jump PROVE Follows(exitList(q, target, jump))
  <2> DEFINE s == [q EXCEPT !.list = 0, !.ahead = 0, !.vt = IF jump THEN clampSeek(target) ELSE @]
  <2>1. Follows(s)
    BY DEF Follows
  <2>2. exitList(q, target, jump) = renderTo(s, s.vt)
    BY DEF exitList
  <2> HIDE DEF s
  <2> QED
    BY <2>1, <2>2, RenderFollows
<1> QED
  BY <1>3, <1>4

LEMMA ByteFollows ==
  ASSUME Playable, NEW q, Follows(q), NEW b
  PROVE  Follows(handleByte(q, b))
<1>1. Follows(syncClock(q))
  BY SyncFollows
<1>2. Follows([q EXCEPT !.paused = FALSE, !.ahead = 0]) /\ Follows([syncClock(q) EXCEPT !.paused = TRUE])
  BY <1>1 DEF Follows
<1>3. \A target : Follows(seek(q, target)) /\ Follows(seek(syncClock(q), target))
  BY <1>1, SeekFollows
<1>4. \A x : Follows(setSpeed(q, x))
  BY <1>1 DEF Follows, setSpeed
<1>5. Follows(openGotoList(q)) /\ Follows(toggleBar(q))
  BY ListFollows, ToggleFollows
<1> QED
  BY <1>2, <1>3, <1>4, <1>5, Zenon DEF handleByte

LEMMA GotoFollows ==
  ASSUME Playable, NEW q, Follows(q), NEW ev
  PROVE  Follows(gotoByte(q, ev))
<1>1. ASSUME NEW s, Follows(s) PROVE Follows([s EXCEPT !.inGoto = FALSE, !.ahead = 0])
  BY <1>1 DEF Follows
<1>2. Follows(seek(q, ev.at))
  BY SeekFollows
<1>3. Follows(IF ev.at >= 0 THEN seek(q, ev.at) ELSE q)
  BY <1>2
<1> QED
  BY <1>1, <1>3, Zenon DEF gotoByte

LEMMA ListKeyFollows ==
  ASSUME Playable, NEW q, Follows(q), NEW ev
  PROVE  Follows(dispatchList(q, ev))
<1>1. \A x : Follows([q EXCEPT !.list = x]) /\ Follows([q EXCEPT !.list = x, !.inGoto = TRUE])
  BY DEF Follows
<1>2. \A target, jump : Follows(exitList(q, target, jump))
  BY ListFollows
<1>3. \A x, target, jump : Follows(exitList([q EXCEPT !.list = x], target, jump))
  BY <1>1, ListFollows
<1>4. Follows(renderTo([q EXCEPT !.list = 0, !.inGoto = TRUE], q.vt))
  BY <1>1, RenderFollows
<1> QED
  BY <1>1, <1>2, <1>3, <1>4, Zenon DEF dispatchList

LEMMA DispatchFollows ==
  ASSUME Playable, NEW q, Follows(q), NEW ev
  PROVE  Follows(dispatch(q, ev))
<1>1. Follows(dispatchList(q, ev)) /\ Follows(gotoByte(q, ev)) /\ Follows(handleByte(q, ev.b))
  BY ListKeyFollows, GotoFollows, ByteFollows
<1>2. Follows(scrollUp(q)) /\ Follows(scrollDown(q)) /\ Follows(exitScroll(q))
  BY ScrollFollows
<1>3. Follows(seek(syncClock(q), ev.at))
  BY SyncFollows, SeekFollows
<1> QED
  BY <1>1, <1>2, <1>3, Zenon DEF dispatch

\* The last output is an event of the recording, or there is none.
LEMMA LastOut ==
  ASSUME Playable
  PROVE  lastOut \in Outputs \cup {0} /\ lastOut \in 0..Len(played) /\ \A i \in Outputs : i <= lastOut
<1>1. Outputs \subseteq 1..Len(played) /\ Len(played) \in Nat
  BY DEF Outputs, Playable
<1> DEFINE S == Outputs \cup {0}
           T == {Len(played) - x : x \in S}
<1>2. T \subseteq Nat /\ T # {} /\ S \subseteq 0..Len(played)
  BY <1>1
<1>3. PICK t \in T : \A y \in T : t <= y
  <2> HIDE DEF T
  <2> QED
    BY <1>2, Least
<1>4. PICK x \in S : t = Len(played) - x
  OBVIOUS
<1>5. \A y \in S : x >= y
  <2> SUFFICES ASSUME NEW y \in S PROVE x >= y
    OBVIOUS
  <2>1. t <= Len(played) - y
    BY <1>3
  <2> QED
    BY <1>1, <1>2, <1>4, <2>1
<1> HIDE DEF S, T
<1>6. lastOut \in S /\ \A y \in S : lastOut >= y
  BY <1>4, <1>5 DEF lastOut, Max, S
<1>7. \A y \in S : y \in Nat
  BY <1>2
<1> QED
  BY <1>2, <1>6, <1>7 DEF S

\* The loop never waits for an event that is not there.
Waits(q) == frozen(q) \/ q.idx <= lastOut
ScreenInv == Playable /\ Follows(loop) /\ Waits(loop)

\* The hold on the last frame is why the loop waits for events only.
LEMMA SettleFollows ==
  ASSUME Playable, NEW q, Follows(q)
  PROVE  Follows(Settle(q)) /\ Waits(Settle(q))
<1>1. Follows([q EXCEPT !.paused = TRUE, !.vt = lastT])
  BY DEF Follows
<1>2. CASE ~frozen(q) /\ q.idx > lastOut
  <2>1. Settle(q) = [q EXCEPT !.paused = TRUE, !.vt = lastT]
    BY <1>2 DEF Settle
  <2>2. Settle(q).paused
    BY <2>1 DEF Follows
  <2> QED
    BY <1>1, <2>1, <2>2 DEF Waits, frozen
<1>3. CASE ~(~frozen(q) /\ q.idx > lastOut)
  <2>1. Settle(q) = q
    BY <1>3 DEF Settle
  <2>2. frozen(q) \/ q.idx <= lastOut
    <3>1. q.idx \in Nat /\ lastOut \in Nat
      BY LastOut DEF Follows, Playable
    <3> QED
      BY <1>3, <3>1
  <2> QED
    BY <2>1, <2>2 DEF Waits
<1> QED
  BY <1>2, <1>3

\* The recording stays as it is.
LEMMA Kept ==
  ASSUME played' = played, Playable, Follows(loop'), Waits(loop')
  PROVE  ScreenInv'
<1>1. Outputs' = Outputs /\ lastOut' = lastOut
  BY DEF Outputs, lastOut
<1>2. Between(1, loop.idx)' = Between(1, loop'.idx)
  BY <1>1 DEF Between
<1>3. Follows(loop)'
  BY <1>2 DEF Follows
<1>4. Waits(loop)'
  BY <1>1 DEF Waits, frozen
<1>5. Playable'
  BY DEF Playable
<1> QED
  BY <1>3, <1>4, <1>5 DEF ScreenInv

\* The next event is due: it is one, and it is the one that is missing.
LEMMA TickFires ==
  ASSUME ScreenInv, Tick \/ Fire
  PROVE  ScreenInv'
<1>1. played' = played /\ Playable /\ Follows(loop) /\ Waits(loop)
  BY DEF Tick, Fire, ScreenInv
<1>2. CASE Tick
  <2>1. loop' = [loop EXCEPT !.ahead = @ + loop.speed]
    BY <1>2 DEF Tick
  <2>2. Follows(loop')
    BY <1>1, <2>1 DEF Follows
  <2>3. Waits(loop')
    BY <1>1, <2>1 DEF Follows, Waits, frozen
  <2> QED
    BY <1>1, <2>2, <2>3, Kept
<1>3. CASE Fire
  <2> DEFINE n == loop.idx
             next == [loop EXCEPT !.vt = played[n].t, !.ahead = 0, !.idx = @ + 1,
                                  !.shown = @ \o Between(n, n + 1)]
  <2>1. n \in Nat /\ n > 0 /\ n + 1 \in 1..(Len(played) + 1)
    <3>1. ~frozen(loop)
      BY <1>3 DEF Fire
    <3>2. n <= lastOut /\ lastOut \in 0..Len(played) /\ n \in 1..(Len(played) + 1) /\ Len(played) \in Nat
      BY <1>1, <3>1, LastOut DEF Waits, Follows, Playable
    <3> QED
      BY <3>2
  <2>2. Between(1, n) \o Between(n, n + 1) = Between(1, n + 1)
    <3>1. \A i, j, k \in Nat : i <= j /\ j <= k => Between(i, j) \o Between(j, k) = Between(i, k)
      BY InOrderParts DEF Between
    <3>2. 1 \in Nat /\ n \in Nat /\ n + 1 \in Nat /\ 1 <= n /\ n <= n + 1
      BY <2>1
    <3> HIDE DEF n
    <3> QED
      BY <3>1, <3>2, Zenon
  <2>3. Follows(next)
    <3>1. next.idx = n + 1 /\ next.shown = Between(1, n) \o Between(n, n + 1) /\ DOMAIN next = DOMAIN loop
      BY <1>1 DEF Follows
    <3> HIDE DEF next, n
    <3> QED
      BY <1>1, <2>1, <2>2, <3>1 DEF Follows
  <2>4. loop' = Settle(next)
    BY <1>3 DEF Fire
  <2> HIDE DEF next
  <2> QED
    BY <1>1, <2>3, <2>4, SettleFollows, Kept
<1> QED
  BY <1>2, <1>3

\* Every step of the loop.
LEMMA ScreenStep == ScreenInv /\ [PlayerNext]_playerVars => ScreenInv'
<1> SUFFICES ASSUME ScreenInv, [PlayerNext]_playerVars PROVE ScreenInv'
  OBVIOUS
<1>0. Playable /\ Follows(loop) /\ Waits(loop)
  BY DEF ScreenInv
<1>1. CASE UNCHANGED <<played, loop>>
  BY <1>0, <1>1, Kept
<1>2. CASE Tick \/ Fire
  BY <1>2, TickFires
<1>3. ASSUME NEW ev \in Events, Dispatch(ev) PROVE ScreenInv'
  <2>1. CASE UNCHANGED loop
    BY <1>0, <1>3, <2>1, Kept DEF Dispatch
  <2>2. CASE loop' = Settle(dispatch(loop, ev))
    BY <1>0, <1>3, <2>2, DispatchFollows, SettleFollows, Kept DEF Dispatch
  <2> QED
    BY <1>3, <2>1, <2>2 DEF Dispatch
<1>4. CASE Resize
  BY <1>0, <1>4, ResizeFollows, SettleFollows, Kept DEF Resize
<1>5. CASE Stop \/ Closed \/ Typed \/ Unblock \/ InputStops \/ Return \/ UNCHANGED playerVars
  BY <1>1, <1>5 DEF Stop, Closed, Typed, Unblock, InputStops, Return, playerVars
<1> QED
  BY <1>2, <1>3, <1>4, <1>5 DEF PlayerNext

-----------------------------------------------------------------------------
(* The recording as played (sanitizeEvents, clampIdleGaps) is a timeline:     *)
(* whole times that never run backwards.                                      *)

\* A function on numbers given by its steps from 0 exists.
LEMMA Recursion ==
  ASSUME NEW n \in Nat, NEW step \in [1..n -> [Nat -> Nat]]
  PROVE  \E h \in [0..n -> Nat] : h[0] = 0 /\ \A i \in 1..n : h[i] = step[i][h[i - 1]]
<1> DEFINE Now(f, k) == IF k = 0 THEN 0 ELSE step[k][f[k - 1]]
           Good(f, m) == \A k \in 0..m : f[k] = Now(f, k)
           Bad == {m \in 0..n : ~\E f \in [0..n -> Nat] : Good(f, m)}
<1>1. ASSUME Bad # {} PROVE FALSE
  <2>1. PICK m \in Bad : \A k \in Bad : m <= k
    <3>1. Bad \subseteq Nat
      OBVIOUS
    <3> HIDE DEF Bad
    <3> QED
      BY <1>1, <3>1, Least
  <2>2. m \in 0..n /\ ~\E f \in [0..n -> Nat] : Good(f, m)
    OBVIOUS
  <2>3. m # 0
    <3>1. [k \in 0..n |-> 0] \in [0..n -> Nat]
      OBVIOUS
    <3>2. Good([k \in 0..n |-> 0], 0)
      OBVIOUS
    <3> QED
      BY <2>2, <3>1, <3>2
  <2>4. m - 1 \in 0..n /\ ~(m <= m - 1) /\ m - 1 \in Nat /\ m \in 1..n
    BY <2>2, <2>3
  <2>5. PICK f \in [0..n -> Nat] : Good(f, m - 1)
    <3>1. m - 1 \notin Bad
      <4> HIDE DEF Bad
      <4> QED
        BY <2>1, <2>4
    <3> QED
      BY <2>4, <3>1
  <2> DEFINE g == [f EXCEPT ![m] = Now(f, m)]
  <2>6. g \in [0..n -> Nat]
    <3>1. Now(f, m) \in Nat
      <4>1. f[m - 1] \in Nat /\ step[m] \in [Nat -> Nat]
        BY <2>4
      <4> QED
        BY <2>3, <4>1
    <3> HIDE DEF Now
    <3> QED
      BY <3>1
  <2>7. Good(g, m)
    <3> SUFFICES ASSUME NEW k \in 0..m PROVE g[k] = Now(g, k)
      OBVIOUS
    <3>1. k \in 0..n /\ (k # m => k \in 0..(m - 1)) /\ (k # 0 => k - 1 \in 0..n /\ k - 1 # m)
      BY <2>2
    <3>2. Now(g, k) = Now(f, k)
      BY <3>1
    <3>3. g[k] = IF k = m THEN Now(f, m) ELSE f[k]
      <4> HIDE DEF Now
      <4> QED
        BY <3>1
    <3> HIDE DEF Now
    <3> QED
      BY <2>5, <3>1, <3>2, <3>3
  <2> QED
    BY <2>2, <2>6, <2>7
<1>2. PICK f \in [0..n -> Nat] : Good(f, n)
  <2>0. Bad = {}
    BY <1>1
  <2>1. n \in 0..n /\ n \notin Bad
    <3> HIDE DEF Bad
    <3> QED
      BY <2>0
  <2> QED
    BY <2>1
<1>3. f[0] = 0 /\ \A i \in 1..n : f[i] = step[i][f[i - 1]]
  <2>1. 0 \in 0..n /\ \A i \in 1..n : i \in 0..n /\ i # 0
    OBVIOUS
  <2> QED
    BY <1>2, <2>1
<1> QED
  BY <1>3

\* What rises from each to the next rises.
LEMMA Rises ==
  ASSUME NEW n \in Nat, NEW f, \A i \in 1..n : f[i] \in Int, \A i \in 1..(n - 1) : f[i] <= f[i + 1],
         NEW i \in 1..n, NEW j \in 1..n, i <= j
  PROVE  f[i] <= f[j]
<1> DEFINE Bad == {m \in i..n : ~(f[i] <= f[m])}
<1>1. ASSUME Bad # {} PROVE FALSE
  <2>1. PICK m \in Bad : \A k \in Bad : m <= k
    <3>1. Bad \subseteq Nat
      OBVIOUS
    <3> HIDE DEF Bad
    <3> QED
      BY <1>1, <3>1, Least
  <2>2. m \in i..n /\ ~(f[i] <= f[m])
    OBVIOUS
  <2>3. m # i
    BY <2>2
  <2> DEFINE l == m - 1
  <2>4. l \in i..n /\ ~(m <= l) /\ l \in 1..(n - 1) /\ m = l + 1 /\ l \in 1..n /\ m \in 1..n
    BY <2>2, <2>3
  <2>5. l \notin Bad
    <3> HIDE DEF Bad, l
    <3> QED
      BY <2>1, <2>4
  <2>6. f[i] <= f[l]
    BY <2>4, <2>5
  <2> HIDE DEF l, Bad
  <2>7. f[l] <= f[m] /\ f[i] \in Int /\ f[l] \in Int /\ f[m] \in Int
    BY <2>4
  <2> QED
    BY <2>2, <2>6, <2>7
<1>2. j \in i..n /\ j \notin Bad
  <2>1. Bad = {}
    BY <1>1
  <2> HIDE DEF Bad
  <2> QED
    BY <2>1
<1> QED
  BY <1>2

\* Whole times, none before the one in front of it.
Timeline(evs) ==
  /\ Len(evs) \in Nat /\ DOMAIN evs = 1..Len(evs)
  /\ \A i \in 1..Len(evs) : evs[i].t \in Nat
  /\ \A i, j \in 1..Len(evs) : i <= j => evs[i].t <= evs[j].t

\* It takes a look at neighbours.
LEMMA Neighbours ==
  ASSUME NEW evs, Len(evs) \in Nat, DOMAIN evs = 1..Len(evs),
         \A i \in 1..Len(evs) : evs[i].t \in Nat,
         \A i \in 1..(Len(evs) - 1) : evs[i].t <= evs[i + 1].t
  PROVE  Timeline(evs)
<1> DEFINE n == Len(evs)
           f == [i \in 1..n |-> evs[i].t]
<1>1. n \in Nat /\ (\A i \in 1..n : f[i] \in Int) /\ \A i \in 1..(n - 1) : f[i] <= f[i + 1]
  OBVIOUS
<1>2. \A i \in 1..n : f[i] = evs[i].t
  OBVIOUS
<1> HIDE DEF f
<1>3. \A i, j \in 1..n : i <= j => f[i] <= f[j]
  BY <1>1, Rises
<1> QED
  BY <1>2, <1>3 DEF Timeline

\* A function on 1..n is a sequence of length n.
LEMMA LenIs ==
  ASSUME NEW f, NEW n \in Nat, DOMAIN f = 1..n, f = [i \in DOMAIN f |-> f[i]]
  PROVE  Len(f) = n
<1> DEFINE S == {f[i] : i \in 1..n}
<1>1. f \in [1..n -> S]
  OBVIOUS
<1>2. f \in Seq(S)
  BY <1>1, IsASeq
<1> QED
  BY <1>2

\* A record of a cast.
Record == [t : Int, type : STRING, cmd : BOOLEAN]

\* Whatever times are in the file, sanitizeEvents makes a timeline of them.
LEMMA Sanitized ==
  ASSUME NEW r \in Seq(Record)
  PROVE  LET s == sanitizeEvents(r)
         IN  /\ Timeline(s)
             /\ \A i \in 1..Len(s) : s[i] \in Record
<1> DEFINE n == Len(r)
           Sane(h) == h = [i \in 0..n |-> IF i = 0 THEN 0 ELSE sane(h[i - 1], r[i].t)]
           c == CHOOSE h : Sane(h)
           s == sanitizeEvents(r)
<1>1. n \in Nat /\ DOMAIN r = 1..n /\ \A i \in 1..n : r[i] \in Record
  <2> HIDE DEF Record
  <2> QED
    OBVIOUS
<1>1a. \A i \in 1..n : r[i].t \in Int
  BY <1>1 DEF Record
<1>2. \A last \in Nat, t \in Int : sane(last, t) \in Nat /\ sane(last, t) >= last
  BY PlayerAssumption DEF sane, NaN, PosInf
<1>3. \E h : Sane(h)
  <2> DEFINE step == [i \in 1..n |-> [last \in Nat |-> sane(last, r[i].t)]]
  <2>1. step \in [1..n -> [Nat -> Nat]]
    BY <1>1a, <1>2
  <2>2. PICK h \in [0..n -> Nat] : h[0] = 0 /\ \A i \in 1..n : h[i] = step[i][h[i - 1]]
    <3>1. n \in Nat /\ 0 \in Nat
      BY <1>1
    <3> HIDE DEF step, n
    <3> QED
      BY <2>1, <3>1, Recursion
  <2>3. \A i \in 1..n : step[i][h[i - 1]] = sane(h[i - 1], r[i].t)
    <3> SUFFICES ASSUME NEW i \in 1..n PROVE step[i][h[i - 1]] = sane(h[i - 1], r[i].t)
      OBVIOUS
    <3>1. h[i - 1] \in Nat
      BY <1>1
    <3> QED
      BY <3>1
  <2> HIDE DEF step
  <2>4. Sane(h)
    <3>1. \A i \in 0..n : i # 0 => i \in 1..n
      BY <1>1
    <3> QED
      BY <2>2, <2>3, <3>1
  <2> QED
    BY <2>4
<1>4. Sane(c)
  BY <1>3
<1>5. s = [i \in DOMAIN r |-> [r[i] EXCEPT !.t = c[i]]]
  BY DEF sanitizeEvents
<1> HIDE DEF c, s
<1>6. c[0] = 0 /\ \A i \in 1..n : c[i] = sane(c[i - 1], r[i].t)
  BY <1>1, <1>4
<1>7. \A i \in 0..n : c[i] \in Nat
  <2> DEFINE Bad == {m \in 0..n : c[m] \notin Nat}
  <2>1. ASSUME Bad # {} PROVE FALSE
    <3>1. PICK m \in Bad : \A k \in Bad : m <= k
      <4>1. Bad \subseteq Nat
        OBVIOUS
      <4> HIDE DEF Bad
      <4> QED
        BY <2>1, <4>1, Least
    <3>2. m \in 0..n /\ c[m] \notin Nat
      OBVIOUS
    <3>3. m \in 1..n /\ m - 1 \in 0..n /\ ~(m <= m - 1)
      BY <1>1, <1>6, <3>2
    <3>4. c[m - 1] \in Nat
      <4>1. m - 1 \notin Bad
        <5> HIDE DEF Bad
        <5> QED
          BY <3>1, <3>3
      <4> QED
        BY <3>3, <4>1
    <3> QED
      BY <1>1a, <1>2, <1>6, <3>2, <3>3, <3>4
  <2> QED
    BY <2>1
<1>8. \A i \in 1..n : s[i].t = c[i] /\ s[i] \in Record
  <2> SUFFICES ASSUME NEW i \in 1..n PROVE s[i].t = c[i] /\ s[i] \in Record
    OBVIOUS
  <2>1. s[i] = [r[i] EXCEPT !.t = c[i]] /\ r[i] \in Record /\ c[i] \in Int
    BY <1>1, <1>5, <1>7
  <2> QED
    BY <2>1 DEF Record
<1>9. Len(s) = n /\ DOMAIN s = 1..n
  BY <1>1, <1>5, LenIs
<1>10. \A i \in 1..(n - 1) : s[i].t <= s[i + 1].t
  <2> SUFFICES ASSUME NEW i \in 1..(n - 1) PROVE s[i].t <= s[i + 1].t
    OBVIOUS
  <2>1. i \in 1..n /\ i + 1 \in 1..n /\ (i + 1) - 1 = i
    BY <1>1
  <2>2. c[i + 1] = sane(c[i], r[i + 1].t) /\ c[i] \in Nat /\ r[i + 1].t \in Int
    BY <1>1, <1>1a, <1>6, <1>7, <2>1
  <2>3. c[i + 1] >= c[i] /\ c[i + 1] \in Nat
    BY <1>2, <2>2
  <2> QED
    BY <1>8, <2>1, <2>2, <2>3
<1>11. Timeline(s)
  <2>1. \A i \in 1..Len(s) : s[i].t \in Nat
    BY <1>1, <1>7, <1>8, <1>9
  <2>2. \A i \in 1..(Len(s) - 1) : s[i].t <= s[i + 1].t
    BY <1>9, <1>10
  <2>3. Len(s) \in Nat /\ DOMAIN s = 1..Len(s)
    BY <1>1, <1>9
  <2> QED
    BY <2>1, <2>2, <2>3, Neighbours
<1> QED
  BY <1>8, <1>9, <1>11 DEF s

\* clampIdleGaps keeps it one: what it has cut so far is never more than the
\* time of the event, nor does an event move in front of the one before it.
LEMMA Clamped ==
  ASSUME NEW s, Timeline(s), \A i \in 1..Len(s) : s[i] \in Record
  PROVE  Timeline(clampIdleGaps(s))
<1> DEFINE n == Len(s)
           Cuts(h) == h = [i \in 0..n |-> IF i = 0 THEN 0 ELSE h[i - 1] + excess(s, i)]
           c == CHOOSE h : Cuts(h)
           e == clampIdleGaps(s)
<1>1. /\ n \in Nat /\ DOMAIN s = 1..n /\ MaxIdle \in Nat
      /\ \A i \in 1..n : s[i] \in Record /\ s[i].t \in Nat
      /\ \A i, j \in 1..n : i <= j => s[i].t <= s[j].t
  BY PlayerAssumption DEF Timeline
<1>2. CASE MaxIdle = 0
  BY <1>2 DEF clampIdleGaps
<1>3. CASE MaxIdle # 0
  <2>1. \A i \in 1..n : gap(s, i) \in Nat /\ excess(s, i) \in Nat /\ gap(s, i) - excess(s, i) \in Nat
    <3> SUFFICES ASSUME NEW i \in 1..n
                 PROVE  gap(s, i) \in Nat /\ excess(s, i) \in Nat /\ gap(s, i) - excess(s, i) \in Nat
      OBVIOUS
    <3>1. gap(s, i) \in Nat
      <4>1. CASE i = 1
        BY <1>1, <4>1 DEF gap
      <4>2. CASE i # 1
        <5>1. i - 1 \in 1..n /\ i - 1 <= i
          BY <1>1, <4>2
        <5>2. s[i - 1].t <= s[i].t /\ s[i - 1].t \in Nat /\ s[i].t \in Nat
          BY <1>1, <5>1
        <5> QED
          BY <4>2, <5>2 DEF gap
      <4> QED
        BY <4>1, <4>2
    <3> QED
      BY <1>1, <3>1 DEF excess
  <2>2. \E h : Cuts(h)
    <3> DEFINE step == [i \in 1..n |-> [last \in Nat |-> last + excess(s, i)]]
    <3>1. step \in [1..n -> [Nat -> Nat]]
      BY <2>1
    <3>2. PICK h \in [0..n -> Nat] : h[0] = 0 /\ \A i \in 1..n : h[i] = step[i][h[i - 1]]
      <4>1. n \in Nat /\ 0 \in Nat
        BY <1>1
      <4> HIDE DEF step, n
      <4> QED
        BY <3>1, <4>1, Recursion
    <3>3. \A i \in 1..n : step[i][h[i - 1]] = h[i - 1] + excess(s, i)
      <4> SUFFICES ASSUME NEW i \in 1..n PROVE step[i][h[i - 1]] = h[i - 1] + excess(s, i)
        OBVIOUS
      <4>1. h[i - 1] \in Nat
        BY <1>1
      <4> QED
        BY <4>1
    <3> HIDE DEF step
    <3>4. Cuts(h)
      <4>1. \A i \in 0..n : i # 0 => i \in 1..n
        BY <1>1
      <4> QED
        BY <3>2, <3>3, <4>1
    <3> QED
      BY <3>4
  <2>3. Cuts(c)
    BY <2>2
  <2>4. e = [i \in DOMAIN s |-> [s[i] EXCEPT !.t = @ - c[i]]]
    BY <1>3 DEF clampIdleGaps
  <2> HIDE DEF c, e
  <2>5. c[0] = 0 /\ \A i \in 1..n : c[i] = c[i - 1] + excess(s, i)
    BY <1>1, <2>3
  <2> DEFINE Up(m) == c[m] \in Nat /\ (m > 0 => c[m] <= s[m].t)
             Bad == {m \in 0..n : ~Up(m)}
  <2>6. ASSUME Bad # {} PROVE FALSE
    <3>1. PICK m \in Bad : \A k \in Bad : m <= k
      <4>1. Bad \subseteq Nat
        OBVIOUS
      <4> HIDE DEF Bad
      <4> QED
        BY <2>6, <4>1, Least
    <3>2. m \in 0..n /\ ~Up(m)
      OBVIOUS
    <3>3. m \in 1..n /\ m - 1 \in 0..n /\ ~(m <= m - 1)
      BY <1>1, <2>5, <3>2
    <3>4. Up(m - 1)
      <4>1. m - 1 \notin Bad
        <5> HIDE DEF Bad, Up
        <5> QED
          BY <3>1, <3>3
      <4> QED
        BY <3>3, <4>1
    <3>5. gap(s, m) = s[m].t - (IF m = 1 THEN 0 ELSE s[m - 1].t)
      BY DEF gap
    <3>6. s[m].t \in Nat /\ (m # 1 => s[m - 1].t \in Nat)
      BY <1>1, <3>3
    <3>7. excess(s, m) \in Nat /\ gap(s, m) - excess(s, m) \in Nat /\ c[m] = c[m - 1] + excess(s, m)
      BY <2>1, <2>5, <3>3
    <3>8. CASE m = 1
      BY <2>5, <3>2, <3>5, <3>6, <3>7, <3>8
    <3>9. CASE m # 1
      <4>1. c[m - 1] \in Nat /\ c[m - 1] <= s[m - 1].t
        BY <3>3, <3>4, <3>9
      <4> HIDE DEF Bad
      <4>2. c[m] \in Nat /\ c[m] <= s[m].t
        <5>1. gap(s, m) = s[m].t - s[m - 1].t
          BY <3>5, <3>9
        <5> HIDE DEF c
        <5> QED
          BY <3>6, <3>7, <3>9, <4>1, <5>1
      <4> QED
        BY <3>2, <4>2
    <3> QED
      BY <3>8, <3>9
  <2>7. \A m \in 0..n : Up(m)
    BY <2>6
  <2>8. \A i \in 1..n : e[i].t = s[i].t - c[i] /\ e[i].t \in Nat
    <3> SUFFICES ASSUME NEW i \in 1..n PROVE e[i].t = s[i].t - c[i] /\ e[i].t \in Nat
      OBVIOUS
    <3>1. e[i] = [s[i] EXCEPT !.t = @ - c[i]] /\ s[i] \in Record
      BY <1>1, <2>4
    <3>2. c[i] \in Nat /\ c[i] <= s[i].t /\ s[i].t \in Nat
      BY <1>1, <2>7
    <3>3. e[i].t = s[i].t - c[i]
      BY <3>1 DEF Record
    <3> QED
      BY <3>2, <3>3
  <2>9. Len(e) = n /\ DOMAIN e = 1..n
    BY <1>1, <2>4, LenIs
  <2>10. \A i \in 1..(n - 1) : e[i].t <= e[i + 1].t
    <3> SUFFICES ASSUME NEW i \in 1..(n - 1) PROVE e[i].t <= e[i + 1].t
      OBVIOUS
    <3>1. i \in 1..n /\ i + 1 \in 1..n /\ i + 1 # 1 /\ (i + 1) - 1 = i
      BY <1>1
    <3>2. gap(s, i + 1) = s[i + 1].t - s[i].t /\ c[i + 1] = c[i] + excess(s, i + 1)
      BY <2>5, <3>1 DEF gap
    <3>3. gap(s, i + 1) - excess(s, i + 1) >= 0 /\ excess(s, i + 1) \in Nat
      BY <2>1, <3>1
    <3>4. c[i] \in Nat /\ s[i].t \in Nat /\ s[i + 1].t \in Nat
      BY <1>1, <2>7, <3>1
    <3>5. e[i].t = s[i].t - c[i] /\ e[i + 1].t = s[i + 1].t - c[i + 1]
      BY <2>8, <3>1
    <3> QED
      BY <3>2, <3>3, <3>4, <3>5
  <2> QED
    BY <1>1, <2>8, <2>9, <2>10, Neighbours DEF e
<1> QED
  BY <1>2, <1>3

-----------------------------------------------------------------------------
(* Where the loop stops for a time, and what it then shows.                   *)

\* The smaller and the larger of two.
LEMMA MinMax ==
  ASSUME NEW a \in Int, NEW b \in Int
  PROVE  /\ Min({a, b}) = IF a <= b THEN a ELSE b
         /\ Max({a, b}) = IF a <= b THEN b ELSE a
<1>1. CASE a <= b
  <2>1. a \in {a, b} /\ \A y \in {a, b} : a <= y
    BY <1>1
  <2>2. b \in {a, b} /\ \A y \in {a, b} : b >= y
    BY <1>1
  <2>3. \A x \in {a, b} : (\A y \in {a, b} : x <= y) => x = a
    BY <1>1
  <2>4. \A x \in {a, b} : (\A y \in {a, b} : x >= y) => x = b
    BY <1>1
  <2>5. Min({a, b}) = a
    BY <2>1, <2>3 DEF Min
  <2>6. Max({a, b}) = b
    BY <2>2, <2>4 DEF Max
  <2> QED
    BY <1>1, <2>5, <2>6
<1>2. CASE ~(a <= b)
  <2>1. b \in {a, b} /\ \A y \in {a, b} : b <= y
    BY <1>2
  <2>2. a \in {a, b} /\ \A y \in {a, b} : a >= y
    BY <1>2
  <2>3. \A x \in {a, b} : (\A y \in {a, b} : x <= y) => x = b
    BY <1>2
  <2>4. \A x \in {a, b} : (\A y \in {a, b} : x >= y) => x = a
    BY <1>2
  <2>5. Min({a, b}) = b
    BY <2>1, <2>3 DEF Min
  <2>6. Max({a, b}) = a
    BY <2>2, <2>4 DEF Max
  <2> QED
    BY <1>2, <2>5, <2>6
<1> QED
  BY <1>1, <1>2

\* The first event from i on that is after t.
After(i, t) == Min({x \in i..Len(played) : played[x].t > t} \cup {Len(played) + 1})

\* It parts the events from i on into those up to t and those after t.
LEMMA AfterIs ==
  ASSUME Timeline(played), NEW i \in 1..(Len(played) + 1), NEW t \in Int
  PROVE  /\ After(i, t) \in i..(Len(played) + 1)
         /\ \A x \in i..(After(i, t) - 1) : played[x].t <= t
         /\ \A x \in After(i, t)..Len(played) : played[x].t > t
<1> DEFINE n == Len(played)
           S == {x \in i..n : played[x].t > t} \cup {n + 1}
           s == After(i, t)
<1>1. n \in Nat /\ \A x \in 1..n : played[x].t \in Nat
  BY DEF Timeline
<1>2. \A x, y \in 1..n : x <= y => played[x].t <= played[y].t
  BY DEF Timeline
<1>3. S \subseteq Nat /\ S # {} /\ S \subseteq i..(n + 1)
  BY <1>1
<1>4. PICK m \in S : \A y \in S : m <= y
  <2> HIDE DEF S
  <2> QED
    BY <1>3, Least
<1>5. s \in S /\ \A y \in S : s <= y
  BY <1>4 DEF After, Min
<1> HIDE DEF s
<1>6. s \in i..(n + 1) /\ s \in Nat
  BY <1>3, <1>5
<1>7. \A x \in i..(s - 1) : played[x].t <= t
  <2> SUFFICES ASSUME NEW x \in i..(s - 1) PROVE played[x].t <= t
    OBVIOUS
  <2>1. x \in i..n /\ x \in 1..n /\ ~(s <= x)
    BY <1>1, <1>6
  <2>2. x \notin S
    <3> HIDE DEF S
    <3> QED
      BY <1>5, <2>1
  <2> QED
    BY <1>1, <2>1, <2>2
<1>8. \A x \in s..n : played[x].t > t
  <2> SUFFICES ASSUME NEW x \in s..n PROVE played[x].t > t
    OBVIOUS
  <2>1. s \in i..n /\ played[s].t > t
    BY <1>1, <1>5, <1>6
  <2>2. s \in 1..n /\ x \in 1..n /\ s <= x
    BY <1>1, <1>6, <2>1
  <2>3. played[s].t <= played[x].t /\ played[s].t \in Nat /\ played[x].t \in Nat
    BY <1>1, <1>2, <2>2
  <2> QED
    BY <2>1, <2>3
<1> QED
  BY <1>6, <1>7, <1>8 DEF s

\* The outputs in front of i are those up to t if i parts the two.
LEMMA UptoIs ==
  ASSUME Timeline(played), NEW i \in 1..(Len(played) + 1), NEW t \in Int,
         \A x \in Outputs : x < i => played[x].t <= t,
         \A x \in Outputs : x >= i => played[x].t > t
  PROVE  Between(1, i) = Upto(t)
<1> DEFINE n == Len(played)
           T == {x \in Outputs : played[x].t <= t}
<1>1. n \in Nat /\ Outputs \subseteq 1..n /\ \A x \in 1..n : played[x].t \in Nat
  BY DEF Timeline, Outputs
<1>2. 1 \in Nat /\ i \in Nat /\ n + 1 \in Nat /\ 1 <= i /\ i <= n + 1
  BY <1>1
<1>3. \A k \in 1..(i - 1) : k \in Outputs <=> k \in T
  BY <1>1
<1>4. \A k \in i..((n + 1) - 1) : k \notin T
  BY <1>1
<1> HIDE DEF T
<1>5. InOrder(Outputs, 1, i) = InOrder(T, 1, i)
  BY <1>2, <1>3, InOrderAgree
<1>6. InOrder(T, i, n + 1) = <<>>
  BY <1>2, <1>4, InOrderNone
<1>7. InOrder(T, 1, i) \o InOrder(T, i, n + 1) = InOrder(T, 1, n + 1)
  BY <1>2, InOrderParts
<1>8. InOrder(T, 1, i) \in Seq(Nat)
  BY <1>2, InOrderStep
<1>9. InOrder(T, 1, i) \o <<>> = InOrder(T, 1, i)
  BY <1>8
<1> QED
  BY <1>5, <1>6, <1>7, <1>9 DEF Between, Upto, T

\* Going on to t shows the outputs up to t, from a screen that shows no more
\* than those up to some time that is not after t.
LEMMA ForwardExact ==
  ASSUME Timeline(played), NEW q, Follows(q), NEW t \in Int, NEW u \in Int, u <= t,
         Len(q.shown) <= Len(Upto(u))
  PROVE  emitForward(q, t).shown = Upto(t)
<1> DEFINE n == Len(played)
           i == q.idx
           s == After(i, t)
<1>1. n \in Nat /\ Outputs \subseteq 1..n /\ \A x \in 1..n : played[x].t \in Nat
  BY DEF Timeline, Outputs
<1>2. i \in 1..(n + 1) /\ q.shown = Between(1, i) /\ {"idx", "shown"} \subseteq DOMAIN q
  BY DEF Follows
<1>3. /\ s \in i..(n + 1)
      /\ \A x \in i..(s - 1) : played[x].t <= t
      /\ \A x \in s..n : played[x].t > t
  BY <1>2, AfterIs
<1>4. emitForward(q, t).shown = Between(1, i) \o Between(i, s)
  BY <1>2 DEF emitForward, After
<1> HIDE DEF s, i
<1>5. Between(1, i) \o Between(i, s) = Between(1, s)
  <2>1. \A a, b, c \in Nat : a <= b /\ b <= c => Between(a, b) \o Between(b, c) = Between(a, c)
    BY InOrderParts DEF Between
  <2>2. 1 \in Nat /\ i \in Nat /\ s \in Nat /\ 1 <= i /\ i <= s
    BY <1>1, <1>2, <1>3
  <2> QED
    BY <2>1, <2>2, Zenon
<1>6. ASSUME NEW x \in Outputs, x < i, ~(played[x].t <= t) PROVE FALSE
  <2> DEFINE f == After(1, u)
  <2>1. 1 \in 1..(n + 1)
    BY <1>1
  <2>2. /\ f \in 1..(n + 1)
        /\ \A y \in 1..(f - 1) : played[y].t <= u
        /\ \A y \in f..n : played[y].t > u
    BY <2>1, AfterIs
  <2> HIDE DEF f
  <2>3. x \in 1..n /\ played[x].t > u
    BY <1>1, <1>6
  <2>4. f <= x
    BY <1>1, <2>2, <2>3
  <2>5. Between(1, f) = Upto(u)
    <3>1. \A y \in Outputs : y < f => played[y].t <= u
      BY <1>1, <2>2
    <3>2. \A y \in Outputs : y >= f => played[y].t > u
      BY <1>1, <2>2
    <3> QED
      BY <2>2, <3>1, <3>2, UptoIs
  <2>6. 1 \in Nat /\ f \in Nat /\ x \in Nat /\ x + 1 \in Nat /\ i \in Nat /\ 1 <= f /\ f <= x /\ x + 1 <= i /\ 1 <= x /\ f <= x + 1 /\ 1 <= x + 1
    BY <1>1, <1>2, <1>6, <2>2, <2>3, <2>4
  <2>7. \A a, b \in Nat : a <= b => Between(a, b) \in Seq(Nat)
    BY InOrderStep DEF Between
  <2>8. \A a, b, c \in Nat : a <= b /\ b <= c => Between(a, b) \o Between(b, c) = Between(a, c)
    BY InOrderParts DEF Between
  <2>9. Between(1, i) = Between(1, x + 1) \o Between(x + 1, i)
    BY <2>6, <2>8
  <2>10. Between(1, x) = Between(1, f) \o Between(f, x)
    BY <2>6, <2>8
  <2>11. Between(1, x + 1) = Append(Between(1, x), x)
    BY <1>6, <2>6, InOrderStep DEF Between
  <2>12. /\ Between(1, x + 1) \in Seq(Nat) /\ Between(x + 1, i) \in Seq(Nat) /\ Between(1, f) \in Seq(Nat)
         /\ Between(f, x) \in Seq(Nat) /\ Between(1, x) \in Seq(Nat)
    BY <2>6, <2>7
  <2>13. Len(Between(1, i)) >= Len(Between(1, x + 1))
    BY <2>9, <2>12
  <2>14. Len(Between(1, x + 1)) = Len(Between(1, x)) + 1
    BY <2>11, <2>12
  <2>15. Len(Between(1, x)) >= Len(Between(1, f))
    BY <2>10, <2>12
  <2>16. Len(Between(1, i)) \in Nat /\ Len(Between(1, x + 1)) \in Nat /\ Len(Between(1, x)) \in Nat /\ Len(Between(1, f)) \in Nat
    BY <2>12, <2>9
  <2> QED
    BY <1>2, <2>5, <2>13, <2>14, <2>15, <2>16
<1>7. \A x \in Outputs : x < s => played[x].t <= t
  <2> SUFFICES ASSUME NEW x \in Outputs, x < s PROVE played[x].t <= t
    OBVIOUS
  <2>1. CASE x < i
    BY <1>6, <2>1
  <2>2. CASE ~(x < i)
    <3>1. x \in i..(s - 1)
      BY <1>1, <1>2, <1>3, <2>2
    <3> QED
      BY <1>3, <3>1
  <2> QED
    BY <2>1, <2>2
<1>8. \A x \in Outputs : x >= s => played[x].t > t
  BY <1>1, <1>2, <1>3
<1>9. s \in 1..(n + 1)
  BY <1>1, <1>2, <1>3
<1>10. Between(1, s) = Upto(t)
  BY <1>7, <1>8, <1>9, UptoIs
<1> QED
  BY <1>4, <1>5, <1>10

\* Redrawn from the start.
LEMMA RenderExact ==
  ASSUME Timeline(played), NEW q, Follows(q), NEW t \in Int
  PROVE  renderTo(q, t).shown = Upto(t)
<1> DEFINE r == [q EXCEPT !.idx = 1, !.shown = <<>>]
<1>1. Between(1, 1) = <<>>
  BY InOrderStep DEF Between
<1>2. Follows(r) /\ r.shown = <<>>
  BY <1>1 DEF Follows, Timeline
<1>3. Len(Upto(t)) \in Nat
  <2>1. Len(played) + 1 \in Nat /\ 1 <= Len(played) + 1
    BY DEF Timeline
  <2>2. Upto(t) \in Seq(Nat)
    BY <2>1, InOrderStep DEF Upto
  <2> QED
    BY <2>2
<1> HIDE DEF r
<1>4. Len(r.shown) <= Len(Upto(t)) /\ t <= t
  BY <1>2, <1>3
<1>5. emitForward(r, t).shown = Upto(t)
  BY <1>2, <1>4, ForwardExact
<1> QED
  BY <1>5 DEF renderTo, r

\* The bounds that a seek stays in.
LEMMA Times ==
  ASSUME Timeline(played)
  PROVE  /\ lastT \in Nat
         /\ \A x \in Outputs : played[x].t <= lastT
         /\ \A target \in Int : clampSeek(target) \in 0..lastT
<1>1. Len(played) \in Nat /\ Outputs \subseteq 1..Len(played) /\ \A x \in 1..Len(played) : played[x].t \in Nat
  BY DEF Timeline, Outputs
<1>2. \A x, y \in 1..Len(played) : x <= y => played[x].t <= played[y].t
  BY DEF Timeline
<1>3. lastOut \in Outputs \cup {0} /\ \A i \in Outputs : i <= lastOut
  BY LastOut DEF Playable, Timeline
<1>4. lastT \in Nat /\ \A x \in Outputs : played[x].t <= lastT
  <2>1. CASE Outputs = {}
    BY <2>1 DEF lastT
  <2>2. CASE Outputs # {}
    <3>1. lastOut \in Outputs
      <4>1. PICK i \in Outputs : TRUE
        BY <2>2
      <4>2. i \in 1..Len(played) /\ i <= lastOut
        BY <1>1, <1>3
      <4>3. lastOut # 0
        BY <4>2
      <4> QED
        BY <1>3, <4>3
    <3> QED
      BY <1>1, <1>2, <1>3, <2>2, <3>1 DEF lastT
  <2> QED
    BY <2>1, <2>2
<1>5. ASSUME NEW target \in Int PROVE clampSeek(target) \in 0..lastT
  <2>1. Min({target, lastT}) = IF target <= lastT THEN target ELSE lastT
    BY <1>4, MinMax
  <2>2. Min({target, lastT}) \in Int
    BY <1>4, <2>1
  <2>3. clampSeek(target) = IF 0 <= Min({target, lastT}) THEN Min({target, lastT}) ELSE 0
    <3> DEFINE m == Min({target, lastT})
    <3>1. 0 \in Int /\ m \in Int
      BY <2>2
    <3> HIDE DEF m
    <3>2. Max({0, m}) = IF 0 <= m THEN m ELSE 0
      BY <3>1, MinMax
    <3> QED
      BY <3>2 DEF clampSeek, m
  <2> QED
    BY <1>4, <2>1, <2>3
<1> QED
  BY <1>4, <1>5

\* The k-th of a finite set of numbers, counted from below.
LEMMA Ranked ==
  ASSUME NEW n \in Nat, NEW S \in SUBSET (1..n), NEW k \in 1..Cardinality(S)
  PROVE  \E i \in S : Cardinality({j \in S : j <= i}) = k
<1> DEFINE C(m) == {j \in S : j <= m}
           T == {m \in 0..n : Cardinality(C(m)) >= k}
<1>a. \A j \in S : j \in Nat /\ 1 <= j /\ j <= n
  OBVIOUS
<1>0. \A m : IsFiniteSet(C(m)) /\ Cardinality(C(m)) \in Nat
  <2> SUFFICES ASSUME NEW m PROVE IsFiniteSet(C(m)) /\ Cardinality(C(m)) \in Nat
    OBVIOUS
  <2>1. IsFiniteSet(1..n)
    BY FS_Interval
  <2>2. C(m) \subseteq 1..n
    OBVIOUS
  <2>3. IsFiniteSet(C(m))
    BY <2>1, <2>2, FS_Subset
  <2> QED
    BY <2>3, FS_CardinalityType
<1>1. C(n) = S /\ C(0) = {}
  <2>1. \A j \in S : j <= n /\ ~(j <= 0)
    BY <1>a
  <2> QED
    BY <2>1
<1>2. n \in T
  BY <1>0, <1>1
<1>3. PICK m \in T : \A l \in T : m <= l
  <2>1. T \subseteq Nat
    OBVIOUS
  <2> HIDE DEF T
  <2> QED
    BY <1>2, <2>1, Least
<1>4. m \in 0..n /\ Cardinality(C(m)) >= k /\ k \in Nat /\ k > 0
  BY <1>0
<1>5. m # 0
  BY <1>1, <1>4, FS_EmptySet
<1>6. m - 1 \in 0..n /\ ~(m <= m - 1)
  BY <1>4, <1>5
<1>7. Cardinality(C(m - 1)) < k
  <2>1. m - 1 \notin T
    <3> HIDE DEF T
    <3> QED
      BY <1>3, <1>6
  <2>2. ~(Cardinality(C(m - 1)) >= k)
    BY <1>6, <2>1
  <2> HIDE DEF C
  <2> QED
    BY <1>0, <1>4, <2>2
<1>8. m \in S
  <2> SUFFICES ASSUME m \notin S PROVE FALSE
    OBVIOUS
  <2>1. C(m) = C(m - 1)
    <3>1. \A j \in S : j <= m <=> j <= m - 1
      BY <1>a, <1>4
    <3> QED
      BY <3>1
  <2> HIDE DEF C
  <2> QED
    BY <1>0, <1>4, <1>7, <2>1
<1>9. Cardinality(C(m)) = Cardinality(C(m - 1)) + 1
  <2>1. C(m) = C(m - 1) \cup {m} /\ m \notin C(m - 1)
    <3>1. \A j \in S : j <= m <=> (j <= m - 1 \/ j = m)
      BY <1>a, <1>4
    <3>2. m <= m /\ ~(m <= m - 1)
      BY <1>4
    <3> QED
      BY <1>8, <3>1, <3>2
  <2> HIDE DEF C
  <2> QED
    BY <1>0, <2>1, FS_AddElement
<1>10. Cardinality(C(m)) = k
  <2> HIDE DEF C
  <2> QED
    BY <1>0, <1>4, <1>7, <1>9
<1> QED
  BY <1>8, <1>10

\* The commands are finitely many events, and each of them has its time.
LEMMA ChapterTimes ==
  ASSUME Timeline(played)
  PROVE  /\ Cardinality(Chapters) \in Nat
         /\ \A k \in 1..Cardinality(Chapters) : chapterTime(k) \in Int
         /\ \A t : chapterAt(t) \in Int /\ chapterAt(t) >= 1
         /\ Chapters # {} => \A t : chapterAt(t) <= Cardinality(Chapters)
<1> DEFINE n == Len(played)
<1>1. n \in Nat /\ Chapters \in SUBSET (1..n) /\ \A x \in 1..n : played[x].t \in Nat
  BY DEF Timeline, Outputs, Chapters
<1>2. IsFiniteSet(1..n)
  BY <1>1, FS_Interval
<1>3. IsFiniteSet(Chapters)
  BY <1>1, <1>2, FS_Subset
<1>4. Cardinality(Chapters) \in Nat
  BY <1>3, FS_CardinalityType
<1>5. ASSUME NEW k \in 1..Cardinality(Chapters) PROVE chapterTime(k) \in Int
  <2>1. \E i \in Chapters : Cardinality({j \in Chapters : j <= i}) = k
    BY <1>1, Ranked
  <2>2. (CHOOSE i \in Chapters : Cardinality({j \in Chapters : j <= i}) = k) \in Chapters
    BY <2>1
  <2> DEFINE i == CHOOSE x \in Chapters : Cardinality({j \in Chapters : j <= x}) = k
  <2>3. chapterTime(k) = played[i].t
    BY DEF chapterTime
  <2> HIDE DEF i
  <2>4. i \in Chapters
    BY <2>2 DEF i
  <2> QED
    BY <1>1, <2>3, <2>4
<1>6. ASSUME NEW t
      PROVE  /\ chapterAt(t) \in Int /\ chapterAt(t) >= 1
             /\ Chapters # {} => chapterAt(t) <= Cardinality(Chapters)
  <2> DEFINE c == Cardinality({i \in Chapters : played[i].t <= t})
  <2>1. {i \in Chapters : played[i].t <= t} \subseteq Chapters
    OBVIOUS
  <2>2. c \in Nat /\ c <= Cardinality(Chapters)
    BY <1>3, <2>1, FS_Subset, FS_CardinalityType
  <2>3. Chapters # {} => Cardinality(Chapters) >= 1
    BY <1>3, <1>4, FS_EmptySet
  <2>4. chapterAt(t) = IF 1 <= c THEN c ELSE 1
    <3> HIDE DEF c
    <3>1. 1 \in Int /\ c \in Int
      BY <2>2
    <3>2. Max({1, c}) = IF 1 <= c THEN c ELSE 1
      BY <3>1, MinMax
    <3> QED
      BY <3>2 DEF chapterAt, c
  <2> HIDE DEF c
  <2> QED
    BY <1>4, <2>2, <2>3, <2>4
<1> QED
  BY <1>4, <1>5, <1>6

\* The loop's state: its clock within the recording, one overlay at a time.
Fields == {"idx", "vt", "ahead", "speed", "paused", "inGoto", "list", "scroll", "offset", "barHidden",
           "region", "shown"}
Timed(q) ==
  /\ DOMAIN q = Fields
  /\ q.vt \in 0..lastT /\ q.ahead \in Nat /\ q.speed \in Nat
  /\ q.list \in 0..Cardinality(Chapters)
  /\ q.list > 0 => ~q.scroll

\* The clock moves by itself only up to what it shows.
Moved(q, r) == r.vt < q.vt \/ r.vt > displayTime(q)
Early(q) == OnScreen(q) => Len(q.shown) <= Len(Upto(displayTime(q)))
Exact(q) == OnScreen(q) /\ q.shown = Upto(q.vt)
\* What a key or a click makes of q: an exact screen, if it moved the clock.
Jumps(q, r) == Timed(r) /\ (Early(q) /\ Moved(q, r) => Exact(r))

LEMMA Displayed ==
  ASSUME Timeline(played), NEW q, Timed(q)
  PROVE  displayTime(q) \in q.vt..lastT /\ displayTime(q) \in 0..lastT /\ lastT \in Nat /\ q.vt \in Nat
<1>1. lastT \in Nat
  BY Times
<1>2. q.vt \in 0..lastT /\ q.ahead \in Nat
  BY DEF Timed
<1> DEFINE sum == q.vt + q.ahead
<1>3. sum \in Int /\ sum >= q.vt /\ q.vt \in Nat /\ q.vt <= lastT
  BY <1>1, <1>2
<1>4. displayTime(q) = IF frozen(q) THEN q.vt ELSE Min({sum, lastT})
  BY DEF displayTime
<1> HIDE DEF sum
<1>5. Min({sum, lastT}) = IF sum <= lastT THEN sum ELSE lastT
  BY <1>1, <1>3, MinMax
<1> QED
  BY <1>1, <1>3, <1>4, <1>5

\* A clock left alone, or brought up to what it shows, has not moved.
LEMMA Still ==
  ASSUME Timeline(played), NEW q, Timed(q), NEW r, Timed(r), r.vt = q.vt \/ r.vt = displayTime(q)
  PROVE  Jumps(q, r)
BY Displayed DEF Jumps, Moved

LEMMA Synced ==
  ASSUME Timeline(played), NEW q, Timed(q)
  PROVE  /\ Timed(syncClock(q)) /\ syncClock(q).vt = displayTime(q)
         /\ \A f \in Fields \ {"vt", "ahead"} : syncClock(q)[f] = q[f]
BY Displayed DEF Timed, syncClock, Fields

\* Drawing touches neither clock nor overlay.
LEMMA Drawn ==
  ASSUME NEW q, Timed(q), NEW t
  PROVE  /\ Timed(emitForward(q, t)) /\ Timed(renderTo(q, t))
         /\ \A f \in Fields \ {"idx", "shown"} : emitForward(q, t)[f] = q[f] /\ renderTo(q, t)[f] = q[f]
<1> DEFINE Undrawn(r) == DOMAIN r = Fields /\ \A f \in Fields \ {"idx", "shown"} : r[f] = q[f]
<1>1. \A r : Undrawn(r) => Timed(r)
  BY DEF Timed, Fields
<1>2. ASSUME NEW r, Undrawn(r) PROVE Undrawn(emitForward(r, t))
  BY <1>2 DEF emitForward
<1>3. Undrawn(q)
  BY DEF Timed
<1>4. Undrawn([q EXCEPT !.idx = 1, !.shown = <<>>])
  BY <1>3
<1> HIDE DEF Undrawn
<1>5. Undrawn(emitForward(q, t)) /\ Undrawn(renderTo(q, t))
  BY <1>2, <1>3, <1>4 DEF renderTo
<1> QED
  BY <1>1, <1>5 DEF Undrawn

-----------------------------------------------------------------------------
(* Whichever way a key or a click moves the clock, the screen comes along:    *)
(* closure by closure, then every event, then the hold on the last frame.     *)

\* A seek ends at its time, clamped, and touches no overlay.  Forward it needs
\* a screen that was not ahead of its clock; backward it needs nothing.
LEMMA SeekExact ==
  ASSUME Timeline(played), NEW q, Timed(q), Follows(q), NEW target \in Int
  PROVE  /\ Timed(seek(q, target)) /\ seek(q, target).vt = clampSeek(target)
         /\ \A f \in Fields \ {"idx", "shown", "vt", "ahead"} : seek(q, target)[f] = q[f]
         /\ clampSeek(target) < q.vt \/ Len(q.shown) <= Len(Upto(q.vt))
              => seek(q, target).shown = Upto(clampSeek(target))
<1> DEFINE t == clampSeek(target)
           r == IF t < q.vt THEN renderTo(q, t) ELSE emitForward(q, t)
           s == seek(q, target)
<1>1. s = [r EXCEPT !.vt = t, !.ahead = 0]
  BY DEF seek
<1>2. t \in 0..lastT /\ lastT \in Nat /\ t \in Int
  BY Times
<1>3. q.vt \in Int
  BY <1>2 DEF Timed
<1> HIDE DEF t
<1>4. Timed(r) /\ \A f \in Fields \ {"idx", "shown"} : r[f] = q[f]
  BY Drawn
<1>5. t < q.vt \/ Len(q.shown) <= Len(Upto(q.vt)) => r.shown = Upto(t)
  <2>1. CASE t < q.vt
    BY <1>2, <2>1, RenderExact
  <2>2. CASE ~(t < q.vt)
    <3>1. q.vt <= t
      BY <1>2, <1>3, <2>2
    <3>2. Len(q.shown) <= Len(Upto(q.vt)) => emitForward(q, t).shown = Upto(t)
      BY <1>2, <1>3, <3>1, ForwardExact
    <3> QED
      BY <2>2, <3>2
  <2> QED
    BY <2>1, <2>2
<1> HIDE DEF r
<1>6. Timed(s)
  BY <1>1, <1>2, <1>4 DEF Timed, Fields
<1>7. s.vt = t /\ s.shown = r.shown /\ \A f \in Fields \ {"idx", "shown", "vt", "ahead"} : s[f] = q[f]
  BY <1>1, <1>4 DEF Timed, Fields
<1> QED
  BY <1>5, <1>6, <1>7 DEF s, t

\* A seek from the time shown, from the start, from the prompt.
LEMMA SeekJumps ==
  ASSUME Timeline(played), NEW q, Timed(q), Follows(q), OnScreen(q), NEW target \in Int
  PROVE  /\ Jumps(q, seek(syncClock(q), target))
         /\ Jumps(q, seek(q, 0))
         /\ q.inGoto => Jumps(q, [seek(q, target) EXCEPT !.inGoto = FALSE, !.ahead = 0])
<1>1. Jumps(q, seek(syncClock(q), target))
  <2> DEFINE s == syncClock(q)
             r == seek(s, target)
  <2>1. /\ Timed(s) /\ Follows(s) /\ s.vt = displayTime(q) /\ s.shown = q.shown
        /\ s.list = q.list /\ s.scroll = q.scroll
    BY Synced, SyncFollows DEF Fields
  <2> HIDE DEF s
  <2>2. /\ Timed(r) /\ r.vt = clampSeek(target) /\ r.list = s.list /\ r.scroll = s.scroll
        /\ Len(s.shown) <= Len(Upto(s.vt)) => r.shown = Upto(clampSeek(target))
    BY <2>1, SeekExact DEF Fields
  <2> HIDE DEF r
  <2>3. OnScreen(r)
    BY <2>1, <2>2 DEF OnScreen
  <2> QED
    BY <2>1, <2>2, <2>3 DEF Jumps, Exact, Early, r, s
<1>2. Jumps(q, seek(q, 0))
  <2> DEFINE r == seek(q, 0)
  <2>1. /\ Timed(r) /\ r.vt = clampSeek(0) /\ r.list = q.list /\ r.scroll = q.scroll
        /\ clampSeek(0) < q.vt => r.shown = Upto(clampSeek(0))
    BY SeekExact DEF Fields
  <2>2. clampSeek(0) = 0
    <3>1. lastT \in Nat
      BY Times
    <3>2. Min({0, lastT}) = 0
      BY <3>1, MinMax
    <3>3. Max({0, 0}) = 0
      BY MinMax
    <3> QED
      BY <3>2, <3>3 DEF clampSeek
  <2> HIDE DEF r
  <2>3. OnScreen(r)
    BY <2>1 DEF OnScreen
  <2>4. ~(r.vt > displayTime(q))
    BY <2>1, <2>2, Displayed
  <2> QED
    BY <2>1, <2>2, <2>3, <2>4 DEF Jumps, Exact, Moved, r
<1>3. ASSUME q.inGoto PROVE Jumps(q, [seek(q, target) EXCEPT !.inGoto = FALSE, !.ahead = 0])
  <2> DEFINE s == seek(q, target)
             r == [s EXCEPT !.inGoto = FALSE, !.ahead = 0]
  <2>1. /\ Timed(s) /\ s.vt = clampSeek(target) /\ s.list = q.list /\ s.scroll = q.scroll
        /\ Len(q.shown) <= Len(Upto(q.vt)) => s.shown = Upto(clampSeek(target))
    BY SeekExact DEF Fields
  <2>2. displayTime(q) = q.vt
    BY <1>3 DEF displayTime, frozen
  <2> HIDE DEF s
  <2>3. Timed(r) /\ r.vt = s.vt /\ r.shown = s.shown /\ r.list = s.list /\ r.scroll = s.scroll
    BY <2>1 DEF Timed, Fields
  <2> HIDE DEF r
  <2>4. OnScreen(r)
    BY <2>1, <2>3 DEF OnScreen
  <2> QED
    BY <2>1, <2>2, <2>3, <2>4 DEF Jumps, Exact, Early, r, s
<1> QED
  BY <1>1, <1>2, <1>3

\* The scrollback and the bar leave the clock where it is.
LEMMA ScrollJumps ==
  ASSUME Timeline(played), NEW q, Timed(q), q.list = 0
  PROVE  Jumps(q, scrollUp(q)) /\ Jumps(q, scrollDown(q)) /\ Jumps(q, exitScroll(q))
<1>1. ASSUME NEW s, Timed(s) PROVE Timed(exitScroll(s)) /\ exitScroll(s).vt = s.vt
  <2> DEFINE r == [s EXCEPT !.scroll = FALSE, !.region = "bar"]
  <2>1. Timed(r) /\ r.vt = s.vt
    BY <1>1 DEF Timed, Fields
  <2> HIDE DEF r
  <2>2. exitScroll(s) = renderTo(r, s.vt)
    BY DEF exitScroll, r
  <2> QED
    BY <2>1, <2>2, Drawn DEF Fields
<1>2. Timed(enterScroll(q)) /\ enterScroll(q).vt = displayTime(q)
  <2>1. Timed(syncClock(q)) /\ syncClock(q).vt = displayTime(q) /\ syncClock(q).list = 0
    BY Synced DEF Fields
  <2> QED
    BY <2>1 DEF Timed, enterScroll, Fields
<1>3. \A x : Timed([q EXCEPT !.offset = x]) /\ [q EXCEPT !.offset = x].vt = q.vt
  BY DEF Timed, Fields
<1>4. Jumps(q, scrollUp(q))
  <2> DEFINE x == Min({q.offset + ScrollStep, Max({Len(q.shown) - contentH, 0})})
  <2>1. scrollUp(q) = IF ~q.scroll THEN enterScroll(q) ELSE [q EXCEPT !.offset = x]
    BY DEF scrollUp
  <2> HIDE DEF x
  <2> QED
    BY <1>2, <1>3, <2>1, Still
<1>5. Jumps(q, scrollDown(q))
  <2> DEFINE x == Max({q.offset - ScrollStep, 0})
             down == [q EXCEPT !.offset = x]
  <2>1. scrollDown(q) = IF ~q.scroll THEN q ELSE IF down.offset = 0 THEN exitScroll(down) ELSE down
    BY DEF scrollDown
  <2> HIDE DEF x
  <2>2. Timed(down) /\ down.vt = q.vt
    BY <1>3
  <2> HIDE DEF down
  <2>3. Timed(exitScroll(down)) /\ exitScroll(down).vt = q.vt
    BY <1>1, <2>2
  <2> QED
    BY <2>1, <2>2, <2>3, Still
<1>6. Jumps(q, exitScroll(q))
  BY <1>1, Still
<1> QED
  BY <1>4, <1>5, <1>6

\* So do the bar and a resize.
LEMMA BarJumps ==
  ASSUME Timeline(played), NEW q, Timed(q)
  PROVE  Jumps(q, toggleBar(q)) /\ Timed(resize(q))
<1>1. ASSUME NEW s, Timed(s), NEW x, NEW t
      PROVE  LET r == renderTo([s EXCEPT !.region = x], t) IN Timed(r) /\ r.vt = s.vt
  <2> DEFINE r == [s EXCEPT !.region = x]
  <2>1. Timed(r) /\ r.vt = s.vt
    BY <1>1 DEF Timed, Fields
  <2> HIDE DEF r
  <2>2. Timed(renderTo(r, t)) /\ renderTo(r, t).vt = r.vt
    BY <2>1, Drawn DEF Fields
  <2> QED
    BY <2>1, <2>2 DEF r
<1> DEFINE s == [syncClock(q) EXCEPT !.barHidden = ~@]
<1>2. Timed(s) /\ s.vt = displayTime(q)
  <2>1. Timed(syncClock(q)) /\ syncClock(q).vt = displayTime(q)
    BY Synced
  <2> QED
    BY <2>1 DEF Timed, Fields
<1>3. toggleBar(q) = renderTo([s EXCEPT !.region = Region(s)], s.vt)
  BY DEF toggleBar
<1> HIDE DEF s
<1>4. Timed(toggleBar(q)) /\ toggleBar(q).vt = displayTime(q)
  BY <1>1, <1>2, <1>3
<1>5. Timed(resize(q))
  BY <1>1 DEF resize
<1> QED
  BY <1>4, <1>5, Still

\* Leaving the list redraws: at the chosen command, or at the time as it is.
LEMMA ExitJumps ==
  ASSUME Timeline(played), NEW q, Timed(q), Follows(q), ~q.scroll
  PROVE  /\ \A target \in Int : Timed(exitList(q, target, TRUE)) /\ Exact(exitList(q, target, TRUE))
         /\ \A target : Jumps(q, exitList(q, target, FALSE))
<1>1. ASSUME NEW t \in 0..lastT
      PROVE  LET s == [q EXCEPT !.list = 0, !.ahead = 0, !.vt = t]
             IN  Timed(renderTo(s, s.vt)) /\ Exact(renderTo(s, s.vt)) /\ renderTo(s, s.vt).vt = t
  <2> DEFINE s == [q EXCEPT !.list = 0, !.ahead = 0, !.vt = t]
  <2>1. Cardinality(Chapters) \in Nat /\ lastT \in Nat
    BY ChapterTimes, Times
  <2>2. /\ Timed(s) /\ Follows(s) /\ s.vt = t /\ s.list = 0 /\ ~s.scroll
    BY <2>1 DEF Timed, Fields, Follows
  <2> HIDE DEF s
  <2>3. t \in Int
    BY <2>1
  <2>4. renderTo(s, t).shown = Upto(t)
    BY <2>2, <2>3, RenderExact
  <2>5. Timed(renderTo(s, t)) /\ renderTo(s, t).vt = t /\ renderTo(s, t).list = 0 /\ ~renderTo(s, t).scroll
    BY <2>2, Drawn DEF Fields
  <2> QED
    BY <2>2, <2>4, <2>5 DEF Exact, OnScreen, s
<1>2. ASSUME NEW target \in Int PROVE Timed(exitList(q, target, TRUE)) /\ Exact(exitList(q, target, TRUE))
  <2>1. clampSeek(target) \in 0..lastT
    BY Times
  <2> QED
    BY <1>1, <2>1 DEF exitList
<1>3. ASSUME NEW target PROVE Jumps(q, exitList(q, target, FALSE))
  <2>1. q.vt \in 0..lastT
    BY DEF Timed
  <2> DEFINE s == [q EXCEPT !.list = 0, !.ahead = 0, !.vt = q.vt]
  <2>2. exitList(q, target, FALSE) = renderTo(s, s.vt)
    BY DEF exitList
  <2>3. Timed(renderTo(s, s.vt)) /\ renderTo(s, s.vt).vt = q.vt
    BY <1>1, <2>1
  <2> HIDE DEF s
  <2> QED
    BY <2>2, <2>3, Still
<1> QED
  BY <1>2, <1>3

\* The list of commands.
LEMMA ListJumps ==
  ASSUME Timeline(played), NEW q, Timed(q), Follows(q), q.list > 0, NEW ev \in Events
  PROVE  Jumps(q, dispatchList(q, ev))
<1> DEFINE c == Cardinality(Chapters)
<1>1. c \in Nat /\ q.list \in 1..c /\ ~q.scroll /\ \A k \in 1..c : chapterTime(k) \in Int
  BY ChapterTimes DEF Timed
<1>2. ev.at \in Int
  BY PlayerAssumption
<1> HIDE DEF c
<1>3. ASSUME NEW x \in 1..c PROVE Jumps(q, [q EXCEPT !.list = x])
  <2>1. Timed([q EXCEPT !.list = x]) /\ [q EXCEPT !.list = x].vt = q.vt
    BY <1>1, <1>3 DEF Timed, Fields, c
  <2> QED
    BY <2>1, Still
<1>4. ASSUME NEW x \in 1..c PROVE Jumps(q, exitList([q EXCEPT !.list = x], chapterTime(x), TRUE))
  <2> DEFINE s == [q EXCEPT !.list = x]
  <2>1. Timed(s) /\ Follows(s) /\ ~s.scroll
    BY <1>1, <1>4 DEF Timed, Fields, c, Follows
  <2> HIDE DEF s
  <2>2. Timed(exitList(s, chapterTime(x), TRUE)) /\ Exact(exitList(s, chapterTime(x), TRUE))
    BY <1>1, <2>1, ExitJumps
  <2> QED
    BY <2>2 DEF Jumps, s
<1> DEFINE clicked == top(q.list) + ev.at - 1
           up == Max({1, Min({q.list + (-1), c})})
           down == Max({1, Min({q.list + 1, c})})
<1>5. ev.at >= 2 /\ clicked <= c => clicked \in 1..c
  <2>1. rows \in Int
    <3>1. Height - 2 \in Int /\ 1 \in Int
      BY PlayerAssumption
    <3>2. rows = IF Height - 2 <= 1 THEN 1 ELSE Height - 2
      BY <3>1, MinMax DEF rows
    <3> QED
      BY <3>1, <3>2
  <2>2. top(q.list) \in Nat
    <3> DEFINE d == q.list - rows
    <3>1. d \in Int /\ 0 \in Int
      BY <1>1, <2>1
    <3> HIDE DEF d
    <3>2. Max({d, 0}) = IF d <= 0 THEN 0 ELSE d
      BY <3>1, MinMax
    <3> QED
      BY <3>1, <3>2 DEF top, d
  <2> QED
    BY <1>1, <1>2, <2>2
<1>6. up \in 1..c /\ down \in 1..c
  <2>1. ASSUME NEW x \in Int PROVE Max({1, Min({x, c})}) \in 1..c
    <3> DEFINE m == Min({x, c})
    <3>1. m = IF x <= c THEN x ELSE c
      BY <1>1, MinMax
    <3>2. m \in Int /\ m <= c /\ 1 \in Int /\ 1 <= c
      BY <1>1, <3>1
    <3> HIDE DEF m
    <3>3. Max({1, m}) = IF 1 <= m THEN m ELSE 1
      BY <3>2, MinMax
    <3> QED
      BY <1>1, <3>2, <3>3 DEF m
  <2>2. q.list + (-1) \in Int /\ q.list + 1 \in Int
    BY <1>1
  <2> QED
    BY <2>1, <2>2
<1>7. Jumps(q, [q EXCEPT !.list = up]) /\ Jumps(q, [q EXCEPT !.list = down])
  <2> HIDE DEF up, down
  <2> QED
    BY <1>3, <1>6
<1>8. ev.at >= 2 /\ clicked <= c => Jumps(q, exitList([q EXCEPT !.list = clicked], chapterTime(clicked), TRUE))
  <2> HIDE DEF clicked
  <2> QED
    BY <1>4, <1>5
<1>9. Jumps(q, exitList(q, chapterTime(q.list), TRUE))
  BY <1>1, ExitJumps DEF Jumps
<1>10. Jumps(q, exitList(q, 0, FALSE))
  BY <1>1, ExitJumps
<1>11. Jumps(q, renderTo([q EXCEPT !.list = 0, !.inGoto = TRUE], q.vt))
  <2> DEFINE s == [q EXCEPT !.list = 0, !.inGoto = TRUE]
  <2>1. Timed(s) /\ s.vt = q.vt
    BY <1>1 DEF Timed, Fields, c
  <2> HIDE DEF s
  <2>2. Timed(renderTo(s, q.vt)) /\ renderTo(s, q.vt).vt = q.vt
    BY <2>1, Drawn DEF Fields
  <2> QED
    BY <2>2, Still DEF s
<1>12. Jumps(q, q)
  BY Still
<1>13. up = Max({1, Min({q.list + (-1), Cardinality(Chapters)})}) /\ down = Max({1, Min({q.list + 1, Cardinality(Chapters)})})
  BY DEF c
<1>14. ev.at >= 2 /\ clicked <= Cardinality(Chapters) => Jumps(q, exitList([q EXCEPT !.list = clicked], chapterTime(clicked), TRUE))
  BY <1>8 DEF c
<1> HIDE DEF up, down
<1> QED
  BY <1>7, <1>9, <1>10, <1>11, <1>12, <1>13, <1>14, Zenon DEF dispatchList

\* The keys.
LEMMA ByteJumps ==
  ASSUME Timeline(played), NEW q, Timed(q), Follows(q), OnScreen(q), NEW b
  PROVE  Jumps(q, handleByte(q, b))
<1> DEFINE s == syncClock(q)
<1>1. Timed(s) /\ s.vt = displayTime(q) /\ s.list = 0 /\ ~s.scroll /\ displayTime(q) \in Int /\ s.speed = q.speed
  BY Synced, Displayed DEF Fields, OnScreen
<1>2. Jumps(q, [q EXCEPT !.paused = FALSE, !.ahead = 0])
  <2> DEFINE r == [q EXCEPT !.paused = FALSE, !.ahead = 0]
  <2>1. Timed(r) /\ r.vt = q.vt
    BY DEF Timed, Fields
  <2> HIDE DEF r
  <2> QED
    BY <2>1, Still DEF r
<1>3. Jumps(q, [syncClock(q) EXCEPT !.paused = TRUE])
  <2> HIDE DEF s
  <2> DEFINE r == [s EXCEPT !.paused = TRUE]
  <2>1. Timed(r) /\ r.vt = displayTime(q)
    BY <1>1 DEF Timed, Fields
  <2> HIDE DEF r
  <2> QED
    BY <2>1, Still DEF r, s
<1>4. /\ Jumps(q, seek(syncClock(q), displayTime(q) - SeekStep))
      /\ Jumps(q, seek(syncClock(q), displayTime(q) + SeekStep))
  <2>1. displayTime(q) - SeekStep \in Int /\ displayTime(q) + SeekStep \in Int
    BY <1>1, PlayerAssumption
  <2> QED
    BY <2>1, SeekJumps
<1>5. ASSUME NEW x \in Nat PROVE Jumps(q, setSpeed(q, x))
  <2> HIDE DEF s
  <2> DEFINE r == [s EXCEPT !.speed = x]
  <2>1. Timed(r) /\ r.vt = displayTime(q)
    BY <1>1 DEF Timed, Fields
  <2> HIDE DEF r
  <2> QED
    BY <2>1, Still DEF r, s, setSpeed
<1>6. Min({2 * q.speed, MaxSpeed}) \in Nat /\ Max({q.speed \div 2, 1}) \in Nat
  <2>1. q.speed \in Nat /\ MaxSpeed \in Nat
    BY PlayerAssumption DEF Timed
  <2> DEFINE x == 2 * q.speed
             y == q.speed \div 2
  <2>2. x \in Nat /\ y \in Nat
    BY <2>1
  <2> HIDE DEF x, y
  <2>3. Min({x, MaxSpeed}) = IF x <= MaxSpeed THEN x ELSE MaxSpeed
    BY <2>1, <2>2, MinMax
  <2>4. Max({y, 1}) = IF y <= 1 THEN 1 ELSE y
    BY <2>2, MinMax
  <2> QED
    BY <2>1, <2>2, <2>3, <2>4 DEF x, y
<1>7. Jumps(q, setSpeed(q, Min({2 * q.speed, MaxSpeed}))) /\ Jumps(q, setSpeed(q, Max({q.speed \div 2, 1})))
  BY <1>5, <1>6
<1>8. Jumps(q, seek(q, 0))
  <2>1. \A target \in Int : Jumps(q, seek(q, 0))
    BY SeekJumps, Zenon
  <2>2. 0 \in Int
    OBVIOUS
  <2> QED
    BY <2>1, <2>2
<1>9. Jumps(q, openGotoList(q))
  <2>1. openGotoList(q) = IF Chapters = {} THEN [s EXCEPT !.inGoto = TRUE] ELSE [s EXCEPT !.list = chapterAt(s.vt)]
    BY DEF openGotoList
  <2> HIDE DEF s
  <2>2. Timed([s EXCEPT !.inGoto = TRUE]) /\ [s EXCEPT !.inGoto = TRUE].vt = displayTime(q)
    BY <1>1 DEF Timed, Fields
  <2> DEFINE x == chapterAt(s.vt)
  <2>3. Chapters # {} => x \in 1..Cardinality(Chapters) /\ Cardinality(Chapters) \in Nat
    BY ChapterTimes
  <2> HIDE DEF x
  <2>4. Chapters # {} => Timed([s EXCEPT !.list = x]) /\ [s EXCEPT !.list = x].vt = displayTime(q)
    BY <1>1, <2>3 DEF Timed, Fields
  <2> QED
    BY <2>1, <2>2, <2>4, Still DEF x
<1>10. Jumps(q, toggleBar(q)) /\ Jumps(q, q)
  BY BarJumps, Still
<1> HIDE DEF s
<1> QED
  BY <1>2, <1>3, <1>4, <1>7, <1>8, <1>9, <1>10, Zenon DEF handleByte

\* The prompt.
LEMMA PromptJumps ==
  ASSUME Timeline(played), NEW q, Timed(q), Follows(q), OnScreen(q), q.inGoto, NEW ev \in Events
  PROVE  Jumps(q, gotoByte(q, ev))
<1>1. ev.at \in Int
  BY PlayerAssumption
<1>2. Jumps(q, [q EXCEPT !.inGoto = FALSE, !.ahead = 0])
  <2> DEFINE r == [q EXCEPT !.inGoto = FALSE, !.ahead = 0]
  <2>1. Timed(r) /\ r.vt = q.vt
    BY DEF Timed, Fields
  <2> HIDE DEF r
  <2> QED
    BY <2>1, Still DEF r
<1>3. Jumps(q, [seek(q, ev.at) EXCEPT !.inGoto = FALSE, !.ahead = 0])
  BY <1>1, SeekJumps
<1>4. Jumps(q, [(IF ev.at >= 0 THEN seek(q, ev.at) ELSE q) EXCEPT !.inGoto = FALSE, !.ahead = 0])
  BY <1>2, <1>3
<1>5. Jumps(q, q)
  BY Still
<1> QED
  BY <1>2, <1>4, <1>5, Zenon DEF gotoByte

\* Every event.
LEMMA DispatchJumps ==
  ASSUME Timeline(played), NEW q, Timed(q), Follows(q), NEW ev \in Events
  PROVE  Jumps(q, dispatch(q, ev))
<1>1. q.list > 0 \/ q.list = 0
  <2>1. Cardinality(Chapters) \in Nat
    BY ChapterTimes
  <2> QED
    BY <2>1 DEF Timed
<1>2. q.list > 0 => Jumps(q, dispatchList(q, ev))
  BY ListJumps
<1>3. q.list = 0 => Jumps(q, scrollUp(q)) /\ Jumps(q, scrollDown(q)) /\ Jumps(q, exitScroll(q))
  BY ScrollJumps
<1>4. ev.at \in Int
  BY PlayerAssumption
<1>5. q.list = 0 /\ ~q.scroll => Jumps(q, seek(syncClock(q), ev.at)) /\ Jumps(q, handleByte(q, ev.b))
  BY <1>4, SeekJumps, ByteJumps DEF OnScreen
<1>6. q.list = 0 /\ ~q.scroll /\ q.inGoto => Jumps(q, gotoByte(q, ev))
  BY PromptJumps DEF OnScreen
<1>7. Jumps(q, q)
  BY Still
<1> QED
  BY <1>1, <1>2, <1>3, <1>5, <1>6, <1>7, Zenon DEF dispatch

\* The hold on the last frame shows it all.
LEMMA SettleJumps ==
  ASSUME Timeline(played), NEW q, NEW r, Jumps(q, r), Follows(r)
  PROVE  Jumps(q, Settle(r))
<1> DEFINE h == [r EXCEPT !.paused = TRUE, !.vt = lastT]
<1>1. Timed(r) /\ lastT \in Nat
  BY Times DEF Jumps
<1>2. CASE ~frozen(r) /\ r.idx > lastOut
  <2>1. Timed(h) /\ h.vt = lastT /\ h.shown = r.shown /\ h.list = r.list /\ h.scroll = r.scroll
    BY <1>1 DEF Timed, Fields
  <2> HIDE DEF h
  <2>2. OnScreen(h)
    <3>1. ~(r.list > 0) /\ ~r.scroll
      BY <1>2 DEF frozen
    <3>2. r.list = 0
      <4>1. Cardinality(Chapters) \in Nat
        BY ChapterTimes
      <4> QED
        BY <1>1, <3>1, <4>1 DEF Timed
    <3> QED
      BY <2>1, <3>1, <3>2 DEF OnScreen
  <2>3. Between(1, r.idx) = Upto(lastT)
    <3>1. r.idx \in 1..(Len(played) + 1) /\ lastT \in Int
      BY <1>1 DEF Follows
    <3>2. \A x \in Outputs : x < r.idx => played[x].t <= lastT
      BY Times
    <3>3. \A x \in Outputs : ~(x >= r.idx)
      <4>1. Len(played) \in Nat /\ Outputs \subseteq 1..Len(played)
        BY DEF Timeline, Outputs
      <4>2. lastOut \in Int /\ \A x \in Outputs : x <= lastOut
        BY LastOut DEF Playable, Timeline
      <4> QED
        BY <1>2, <3>1, <4>1, <4>2
    <3> QED
      BY <3>1, <3>2, <3>3, UptoIs
  <2>4. h.shown = Upto(lastT)
    BY <2>1, <2>3 DEF Follows
  <2>5. Settle(r) = h
    BY <1>2 DEF Settle, h
  <2> QED
    BY <2>1, <2>2, <2>4, <2>5 DEF Jumps, Exact
<1>3. CASE ~(~frozen(r) /\ r.idx > lastOut)
  BY <1>3 DEF Settle
<1> QED
  BY <1>2, <1>3

\* The whole invariant of the loop.
JumpInv == ScreenInv /\ Timeline(played) /\ Timed(loop)

\* It is of the recording and the loop only.
LEMMA JumpKept ==
  ASSUME played' = played, Timeline(played), Timed(loop')
  PROVE  Timeline(played)' /\ Timed(loop)'
<1>1. Outputs' = Outputs /\ lastOut' = lastOut
  BY DEF Outputs, lastOut
<1>2. lastT' = lastT /\ Chapters' = Chapters
  BY <1>1 DEF lastT, Chapters
<1> QED
  BY <1>2 DEF Timeline, Timed

\* The hold keeps the clock within the recording.
LEMMA TimedSettle ==
  ASSUME Timeline(played), NEW r, Timed(r), Follows(r)
  PROVE  Timed(Settle(r))
<1>1. Jumps(r, r)
  BY Still
<1>2. Jumps(r, Settle(r))
  BY <1>1, SettleJumps
<1> QED
  BY <1>2 DEF Jumps

\* Every step of the loop keeps it.
LEMMA JumpStep == JumpInv /\ [PlayerNext]_playerVars => JumpInv'
<1> SUFFICES ASSUME JumpInv, [PlayerNext]_playerVars PROVE JumpInv'
  OBVIOUS
<1>0. Playable /\ Follows(loop) /\ Waits(loop) /\ Timeline(played) /\ Timed(loop) /\ ScreenInv
  BY DEF JumpInv, ScreenInv
<1>a. ScreenInv'
  BY <1>0, ScreenStep
<1> SUFFICES Timeline(played)' /\ Timed(loop)'
  BY <1>a DEF JumpInv
<1>1. CASE UNCHANGED <<played, loop>>
  BY <1>0, <1>1, JumpKept
<1>2. CASE Tick
  <2>1. loop' = [loop EXCEPT !.ahead = @ + loop.speed] /\ played' = played
    BY <1>2 DEF Tick
  <2>2. Timed(loop')
    BY <1>0, <2>1 DEF Timed, Fields
  <2> QED
    BY <1>0, <2>1, <2>2, JumpKept
<1>3. CASE Fire
  <2> DEFINE n == loop.idx
             next == [loop EXCEPT !.vt = played[n].t, !.ahead = 0, !.idx = @ + 1,
                                  !.shown = @ \o Between(n, n + 1)]
  <2>1. loop' = Settle(next) /\ played' = played /\ ~frozen(loop)
    BY <1>3 DEF Fire
  <2>2. n \in 1..Len(played) /\ n <= lastOut /\ lastOut \in Outputs /\ n + 1 \in 1..(Len(played) + 1)
    <3>1. n <= lastOut /\ n \in 1..(Len(played) + 1) /\ Len(played) \in Nat
      BY <1>0, <2>1 DEF Waits, Follows, Playable
    <3>2. lastOut \in 0..Len(played) /\ lastOut \in Outputs \cup {0}
      BY <1>0, LastOut
    <3> QED
      BY <3>1, <3>2
  <2>3. played[n].t \in 0..lastT
    <3>1. Outputs # {} /\ lastOut \in 1..Len(played)
      BY <2>2 DEF Outputs, Timeline, Playable, JumpInv
    <3>2. lastT = played[lastOut].t
      BY <3>1 DEF lastT
    <3>3. played[n].t \in Nat /\ played[lastOut].t \in Nat /\ played[n].t <= played[lastOut].t
      BY <1>0, <2>2, <3>1 DEF Timeline
    <3> QED
      BY <3>2, <3>3
  <2>4. Timed(next)
    BY <1>0, <2>3 DEF Timed, Fields
  <2>5. Follows(next)
    <3>1. Between(1, n) \o Between(n, n + 1) = Between(1, n + 1)
      <4>1. \A i, j, k \in Nat : i <= j /\ j <= k => Between(i, j) \o Between(j, k) = Between(i, k)
        BY InOrderParts DEF Between
      <4>2. 1 \in Nat /\ n \in Nat /\ n + 1 \in Nat /\ 1 <= n /\ n <= n + 1
        BY <2>2
      <4> HIDE DEF n
      <4> QED
        BY <4>1, <4>2, Zenon
    <3>2. next.idx = n + 1 /\ next.shown = Between(1, n) \o Between(n, n + 1) /\ DOMAIN next = DOMAIN loop
      BY <1>0 DEF Follows
    <3> HIDE DEF next, n
    <3> QED
      BY <1>0, <2>2, <3>1, <3>2 DEF Follows
  <2> HIDE DEF next, n
  <2>6. Timed(loop')
    BY <1>0, <2>1, <2>4, <2>5, TimedSettle
  <2> QED
    BY <1>0, <2>1, <2>6, JumpKept
<1>4. ASSUME NEW ev \in Events, Dispatch(ev), loop' = Settle(dispatch(loop, ev))
      PROVE  Timeline(played)' /\ Timed(loop)'
  <2>1. Follows(dispatch(loop, ev)) /\ Jumps(loop, dispatch(loop, ev))
    BY <1>0, DispatchFollows, DispatchJumps
  <2>2. Timed(loop') /\ played' = played
    BY <1>0, <1>4, <2>1, TimedSettle DEF Jumps, Dispatch
  <2> QED
    BY <1>0, <2>2, JumpKept
<1>5. CASE Resize
  <2>1. Timed(resize(loop)) /\ Follows(resize(loop))
    BY <1>0, BarJumps, ResizeFollows
  <2>2. Timed(loop') /\ played' = played
    BY <1>0, <1>5, <2>1, TimedSettle DEF Resize
  <2> QED
    BY <1>0, <2>2, JumpKept
<1>6. CASE Stop \/ Closed \/ Typed \/ Unblock \/ InputStops \/ Return \/ UNCHANGED playerVars
  BY <1>1, <1>6 DEF Stop, Closed, Typed, Unblock, InputStops, Return, playerVars
<1>7. ASSUME NEW ev \in Events, Dispatch(ev) PROVE Timeline(played)' /\ Timed(loop)'
  BY <1>1, <1>4, <1>7 DEF Dispatch
<1> QED
  BY <1>2, <1>3, <1>5, <1>6, <1>7 DEF PlayerNext

\* It holds when playback starts.
LEMMA JumpInit == PlayerInit => JumpInv
<1> SUFFICES ASSUME PlayerInit PROVE JumpInv
  OBVIOUS
<1>1. Timeline(played)
  <2>1. PICK r \in Recordings : played = clampIdleGaps(sanitizeEvents(r))
    BY DEF PlayerInit
  <2>2. r \in Seq(Record)
    BY PlayerAssumption DEF Record
  <2>3. /\ Timeline(sanitizeEvents(r))
        /\ \A i \in 1..Len(sanitizeEvents(r)) : sanitizeEvents(r)[i] \in Record
    BY <2>2, Sanitized
  <2> QED
    BY <2>1, <2>3, Clamped
<1>2. Playable
  BY <1>1 DEF Timeline, Playable
<1> DEFINE q == [idx |-> 1, vt |-> 0, ahead |-> 0, speed |-> 1, paused |-> FALSE, inGoto |-> FALSE,
                 list |-> 0, scroll |-> FALSE, offset |-> 0, barHidden |-> FALSE, region |-> "bar",
                 shown |-> <<>>]
<1>3. loop = Settle(q)
  BY DEF PlayerInit
<1>4. Follows(q)
  <2>1. Between(1, 1) = <<>>
    BY InOrderStep DEF Between
  <2> QED
    BY <1>2, <2>1 DEF Follows, Playable
<1>5. Timed(q)
  <2>1. lastT \in Nat /\ Cardinality(Chapters) \in Nat
    BY <1>1, Times, ChapterTimes
  <2> QED
    BY <2>1 DEF Timed, Fields
<1> HIDE DEF q
<1> QED
  BY <1>1, <1>2, <1>3, <1>4, <1>5, SettleFollows, TimedSettle DEF JumpInv, ScreenInv

\* What the action property says of a step, from the invariant in front of it.
LEMMA JumpAct == JumpInv /\ [PlayerNext]_playerVars =>
  [NothingEarly /\ (\E ev \in Events : Dispatch(ev)) /\ (loop'.vt < loop.vt \/ loop'.vt > displayTime(loop))
       => OnScreen(loop') /\ loop'.shown = Upto(loop'.vt)]_playerVars
<1> SUFFICES ASSUME JumpInv, NothingEarly, NEW ev \in Events, Dispatch(ev), Moved(loop, loop')
             PROVE  Exact(loop')
  BY DEF Exact, Moved
<1>1. Playable /\ Follows(loop) /\ Timeline(played) /\ Timed(loop)
  BY DEF JumpInv, ScreenInv
<1>2. CASE UNCHANGED loop
  <2>1. ~Moved(loop, loop)
    BY <1>1, Displayed DEF Moved
  <2> QED
    BY <1>2, <2>1 DEF Moved
<1>3. CASE loop' = Settle(dispatch(loop, ev))
  <2>1. Follows(dispatch(loop, ev)) /\ Jumps(loop, dispatch(loop, ev))
    BY <1>1, DispatchFollows, DispatchJumps
  <2>2. Jumps(loop, loop')
    BY <1>1, <1>3, <2>1, SettleJumps
  <2> QED
    BY <2>2 DEF Jumps, Early, NothingEarly
<1> QED
  BY <1>2, <1>3 DEF Dispatch

\* Whatever keys, clicks, resizes and timers come in whatever order, the screen
\* holds the outputs that the loop has passed, and the loop waits for no event
\* that is not there.
THEOREM ScreenFollows == PlayerSpec => []ScreenFollowsLoop
<1>1. JumpInv => ScreenFollowsLoop
  BY DEF JumpInv, ScreenInv, Follows, Waits, ScreenFollowsLoop
<1> QED
  BY <1>1, JumpInit, JumpStep, PTL DEF PlayerSpec

\* For every recording, whatever its times, and every sequence of keys, clicks,
\* wheel, resizes and timers: a key or a click that moves the clock, back or
\* forth, from a screen that is not ahead of it, leaves the output up to the new
\* time on the screen, none missing and none left over (play.go: seek, exitList,
\* toggleBar, exitScroll).
THEOREM JumpExact == PlayerSpec => JumpIsExact
<1> QED
  BY JumpInit, JumpStep, JumpAct, PTL DEF PlayerSpec, JumpIsExact
=============================================================================
