------------------------------ MODULE CastFile ------------------------------
(***************************************************************************)
(* A recording on disk, from the lines the recorder writes to the events a *)
(* reader sees: the recorder's buffered writer cuts the lines into chunks  *)
(* anywhere, the daemon seals each chunk into one encrypted frame (three   *)
(* writes: length, nonce, ciphertext), the storage keeps, loses or damages *)
(* what was written, and a reader that opened the file at any moment opens *)
(* frame after frame and parses the lines it gets back.                    *)
(*                                                                         *)
(* Data: byte b of the recording is the number b, so a chunk, cut anywhere *)
(* by the recorder's buffer, is an interval of numbers.  A unit that is    *)
(* torn is modelled as missing: io.ReadFull treats the two alike.  A crash *)
(* of the daemon is the writer taking no further step.                     *)
(***************************************************************************)
EXTENDS Naturals, Sequences, FiniteSets

CONSTANTS
  MaxBytes,   \* bound: bytes the recorder writes in all
  MaxFrames   \* bound: frames the daemon writes

ASSUME CastFileAssumption ==
  /\ MaxBytes \in Nat \ {0}
  /\ MaxFrames \in Nat \ {0}

VARIABLES
  written,   \* history: the chunks of the frames written in full, in order
  sealing,   \* the chunk of the frame being written, <<>> between frames
  disk,      \* the units of the file, in file order
  faulty,    \* whether the storage has already failed once
  key,       \* whether the key the reader has is the one the frames were sealed with
  reader     \* the reader: where it is, what it has opened, how it ended

vars == <<written, sealing, disk, faulty, key, reader>>

\* A unit of the file: what it is, which frame (or stream) it was written for.
Unit(part, of, sid) == [part |-> part, of |-> of, sid |-> sid, intact |-> TRUE]
FrameParts == <<"len", "nonce", "ct">>
Own == "own"        \* this recording's stream id
Foreign == "other"  \* the stream id of another recording under the same key

Chunk(lo, hi) == [i \in 1..(hi - lo) |-> lo + i]
BytesOf(chunks) == IF chunks = <<>> THEN 0
                   ELSE LET c == chunks[Len(chunks)] IN c[Len(c)]

Init ==
  /\ written = <<>>
  /\ sealing = <<>>
  /\ disk = <<>>
  /\ faulty = FALSE
  /\ key \in BOOLEAN
  /\ reader = [at |-> "closed"]

----------------------------------------------------------------------------
(* The daemon's writer.                                                     *)

\* newWriter: the magic and a random stream id, two writes.
WriteMagic ==
  /\ disk = <<>>
  /\ disk' = <<Unit("magic", 0, Own)>>
  /\ UNCHANGED <<written, sealing, faulty, key, reader>>

WriteStreamId ==
  /\ Len(disk) = 1
  /\ disk' = Append(disk, Unit("sid", 0, Own))
  /\ UNCHANGED <<written, sealing, faulty, key, reader>>

\* A unit of the frame under construction: encWriter.Write seals under the
\* stream id and the number of full frames before this one.
FrameUnit(part) == Unit(part, Len(written), Own)

\* encWriter.Write, the length: the chunk is whatever the recorder's buffer
\* held, cut anywhere.
WriteLength ==
  /\ Len(disk) >= 2 /\ sealing = <<>> /\ Len(written) < MaxFrames
  /\ \E hi \in (BytesOf(written) + 1)..MaxBytes :
       sealing' = Chunk(BytesOf(written), hi)
  /\ disk' = Append(disk, FrameUnit("len"))
  /\ UNCHANGED <<written, faulty, key, reader>>

WriteNonce ==
  /\ sealing # <<>> /\ disk[Len(disk)].part = "len"
  /\ disk' = Append(disk, FrameUnit("nonce"))
  /\ UNCHANGED <<written, sealing, faulty, key, reader>>

\* The counter (Len(written)) advances only after a fully written frame.
WriteCiphertext ==
  /\ sealing # <<>> /\ disk[Len(disk)].part = "nonce"
  /\ disk' = Append(disk, FrameUnit("ct"))
  /\ written' = Append(written, sealing)
  /\ sealing' = <<>>
  /\ UNCHANGED <<faulty, key, reader>>

Writer == WriteMagic \/ WriteStreamId \/ WriteLength \/ WriteNonce \/ WriteCiphertext

----------------------------------------------------------------------------
(* The storage, which fails once and not under the writer's hands: a unit   *)
(* rots, two frames change places, a frame is lost, or one of another       *)
(* recording stands in its place.                                           *)

FrameStart(n) == 3 * n + 3        \* where frame n (from 0) begins in a sound file
WholeFrames(d) == IF Len(d) < 3 THEN 0 ELSE (Len(d) - 2) \div 3

Rot(k) == disk' = [disk EXCEPT ![k].intact = FALSE]
Swap(m, n) ==
  disk' = [k \in DOMAIN disk |->
             CASE k \in FrameStart(m)..(FrameStart(m) + 2) -> disk[k + 3 * (n - m)]
               [] k \in FrameStart(n)..(FrameStart(n) + 2) -> disk[k - 3 * (n - m)]
               [] OTHER -> disk[k]]
Lose(n) == disk' = SubSeq(disk, 1, FrameStart(n) - 1) \o SubSeq(disk, FrameStart(n) + 3, Len(disk))
Replace(n) ==
  disk' = [k \in DOMAIN disk |->
             IF k \in FrameStart(n)..(FrameStart(n) + 2)
             THEN [disk[k] EXCEPT !.sid = Foreign] ELSE disk[k]]

StorageFails ==
  /\ ~faulty /\ sealing = <<>> /\ Len(disk) >= 2 /\ reader.at = "closed"
  /\ faulty' = TRUE
  /\ \/ \E k \in DOMAIN disk : Rot(k)
     \/ \E m, n \in 0..(WholeFrames(disk) - 1) : m < n /\ Swap(m, n)
     \/ \E n \in 0..(WholeFrames(disk) - 1) : Lose(n) \/ Replace(n)
  /\ UNCHANGED <<written, sealing, key, reader>>

----------------------------------------------------------------------------
(* The reader: store.openCast over crypto.DecReader.                        *)

\* openCast: a file that does not start with the magic is handed back as it
\* is; a snapshot reader is bounded to the size the file has now.
Open(snapshot) ==
  /\ reader.at = "closed"
  /\ LET sealed == disk # <<>> /\ disk[1].intact IN
     reader' = [at |-> IF sealed THEN "reading" ELSE "plaintext",
                pos |-> 1, size |-> Len(disk), follows |-> ~snapshot,
                sid |-> "none", counter |-> 0, opened |-> <<>>, err |-> FALSE]
  /\ UNCHANGED <<written, sealing, disk, faulty, key>>

\* Mutant: the last unit within the bound is not read.
Has_offByOne(n) == reader.pos + n < IF reader.follows THEN Len(disk) ELSE reader.size
\* io.ReadFull finds n more units within the reader's bound (io.LimitReader).
Has(n) == reader.pos + n <= IF reader.follows THEN Len(disk) ELSE reader.size
Next1 == disk[reader.pos + 1]

EndsWith(why, err) == reader' = [reader EXCEPT !.at = why, !.err = err]

\* Mutant: a frame is not bound to its position.
Opens_anyPosition(nonce, ct) ==
  key /\ nonce.intact /\ ct.intact /\ nonce.of = ct.of /\ ct.sid = reader.sid
\* gcm.Open with the AAD of frameAAD(streamID, counter): it succeeds only on a
\* whole frame that was sealed under this key, stream id and position.
Opens(nonce, ct) ==
  /\ key /\ nonce.intact /\ ct.intact
  /\ nonce.of = ct.of
  /\ ct.of = reader.counter
  /\ ct.sid = reader.sid

\* DecReader.Read, until it has a frame's plaintext or has met the end.
ReadStreamId ==
  /\ reader.sid = "none"
  /\ IF Has(1)
     THEN reader' = [reader EXCEPT !.pos = @ + 1, !.sid = IF Next1.intact THEN Next1.sid ELSE "rotten"]
     ELSE EndsWith("eof", FALSE)

\* The length: missing, sound, or rotten.  A rotten one below the nonce's size
\* or beyond the file is a clean end, one above maxFrameSize an error, any
\* other misaligns the frame, which then fails to authenticate.
ReadLength ==
  /\ reader.sid # "none" /\ Has(1) /\ Next1.part = "len"
  /\ IF Next1.intact
     THEN reader' = [reader EXCEPT !.pos = @ + 1]
     ELSE EndsWith("eof", FALSE) \/ EndsWith("unexpected", FALSE) \/ EndsWith("eof", TRUE)

\* Mutant: a frame that does not authenticate is taken for the end of the file.
ReadFrame_silent ==
  /\ reader.sid # "none" /\ disk[reader.pos].part = "len"
  /\ IF Has(2) /\ Opens(disk[reader.pos + 1], disk[reader.pos + 2])
     THEN reader' = [reader EXCEPT !.pos = @ + 2, !.counter = @ + 1,
                                   !.opened = Append(@, written[disk[reader.pos + 2].of + 1])]
     ELSE EndsWith("eof", FALSE)
\* The nonce and the ciphertext, read in one go; the plaintext is the chunk
\* that was sealed there.
ReadFrame ==
  /\ reader.sid # "none" /\ disk[reader.pos].part = "len"
  /\ IF ~Has(2) THEN EndsWith("eof", FALSE)
     ELSE IF Opens(disk[reader.pos + 1], disk[reader.pos + 2])
     THEN reader' = [reader EXCEPT !.pos = @ + 2, !.counter = @ + 1,
                                   !.opened = Append(@, written[disk[reader.pos + 2].of + 1])]
     ELSE EndsWith("eof", TRUE)

NoMoreFrames ==
  /\ reader.sid # "none"
  /\ disk[reader.pos].part # "len" /\ ~Has(1)
  /\ EndsWith("eof", FALSE)

Read ==
  /\ reader.at = "reading"
  /\ \/ ReadStreamId
     \/ ReadLength
     \/ ReadFrame
     \/ NoMoreFrames
  /\ UNCHANGED <<written, sealing, disk, faulty, key>>

\* The consumers of the reader stop at its first end; none reads on after it.
Next == Writer \/ StorageFails \/ Read \/ \E snapshot \in BOOLEAN : Open(snapshot)
Spec == Init /\ [][Next]_vars

----------------------------------------------------------------------------
(* Properties.                                                              *)

\* Type invariant: history, file and reader have the shape the code gives them.
TypeOK ==
  /\ \A i \in DOMAIN written : written[i] \in Seq(1..MaxBytes)
  /\ sealing \in Seq(1..MaxBytes)
  /\ \A k \in DOMAIN disk :
       disk[k] \in [part : {"magic", "sid"} \cup {FrameParts[i] : i \in 1..3}, of : 0..MaxFrames,
                    sid : {Own, Foreign}, intact : BOOLEAN]
  /\ faulty \in BOOLEAN /\ key \in BOOLEAN
  /\ reader.at \in {"closed", "plaintext", "reading", "eof", "unexpected"}

Opened == IF reader.at = "closed" THEN <<>> ELSE reader.opened

\* Whatever was lost, swapped, spliced or damaged on disk, and wherever a crash
\* or a snapshot cut the file, a reader is handed a prefix of what the daemon
\* was given, in order and without a hole: the framing implements the tail
\* stream for a reader of the file (encWriter.Write, DecReader.Read).
Stream == INSTANCE TailStream WITH
            Tailers <- {"reader"}, Chunks <- {Chunk(lo, hi) : lo, hi \in 0..MaxBytes},
            recorded <- written, seen <- [t \in {"reader"} |-> Opened]
ImplementsTailStream == Stream!Spec

\* A sound file read under the right key gives back every frame that was whole
\* when it was opened, for a snapshot no more than that, and no error: a file
\* cut in the middle of a frame is not reported as damaged.
SoundFileReadsWhole ==
  reader.at \in {"eof", "unexpected"} /\ ~faulty /\ key =>
    /\ reader.at = "eof" /\ ~reader.err
    /\ Len(reader.opened) >= WholeFrames([k \in 1..reader.size |-> k])
    /\ ~reader.follows => Len(reader.opened) = WholeFrames([k \in 1..reader.size |-> k])

\* Err tells damage from truncation: a reader that stops with whole units still
\* ahead of it either reports damage, and there was some, or has met the one
\* thing the frames do not authenticate, a length.
EarlyStopIsTold ==
  reader.at = "reading" /\ reader'.at = "eof" =>
    /\ reader'.err => faulty \/ ~key
    /\ ~reader'.err /\ Has(3) => Next1.part = "len" /\ ~Next1.intact

\* Both, at every step: a reader can take what it was handed, and whether it is
\* told of damage, for the state of the file.
ReaderTellsTheTruth == [][SoundFileReadsWhole' /\ EarlyStopIsTold]_vars
=============================================================================
