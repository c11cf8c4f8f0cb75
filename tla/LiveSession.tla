----------------------------- MODULE LiveSession ----------------------------
(***************************************************************************)
(* One recording session of ghostshell-daemon and its live tailers         *)
(* (internal/daemon/daemon.go: session, subscriber, the read loop of       *)
(* handleRec, handleTail).                                                 *)
(*                                                                         *)
(* Processes: the recorder's handler goroutine, whose control state is     *)
(* rec, and one handler goroutine per tailer, whose control state is pc[t].*)
(* The client at the far end of a tailer's connection is the environment:  *)
(* it reads, stalls, resumes or goes away whenever it likes.               *)
(*                                                                         *)
(* A chunk is one recorder Read; the n-th one is written as the number n,  *)
(* so a duplicate, a gap and a swap are all visible.  s.mu is held over a  *)
(* whole step everywhere but in write(), where the disk write and the      *)
(* fan-out are two steps (rec = "fanout" is: s.mu held, frame on disk,     *)
(* diskBytes not yet bumped), because a tailer opens its snapshot of the   *)
(* file without the lock.                                                  *)
(***************************************************************************)
EXTENDS Naturals, Sequences

CONSTANTS
  Tailers,     \* root clients that may connect with TAIL <id>
  ChanCap,     \* subChanCap: chunks buffered per tailer
  MaxChunks    \* bound: chunks the recorder sends

ASSUME TailersAssumption == "none" \notin Tailers
ASSUME ChanCapAssumption == ChanCap \in Nat \ {0}
ASSUME MaxChunksAssumption == MaxChunks \in Nat

VARIABLES
  rec,         \* control state of the recorder's handler
  file,        \* the complete frames of the session file, decrypted
  diskBytes,   \* session.diskBytes, counted in chunks
  subs,        \* session.subs: the tailers chunks are fanned out to
  done,        \* session.done
  live,        \* the session is in registry.live
  dropped,     \* write()'s local list: lagging tailers whose conn is to be closed
  closing,     \* close()'s local list: tailers still to be waited for
  awaiting,    \* the tailer whose sub.done close() is blocked on
  pc,          \* pc[t]: control state of tailer t's handler
  chan,        \* chan[t]: the chunks buffered in sub.ch
  closes,      \* closes[t]: how often close(sub.ch) was called
  subDone,     \* subDone[t]: sub.done is closed
  connOpen,    \* connOpen[t]: the daemon has not closed t's conn
  replay,      \* replay[t]: replayBytes, the boundary register() returned
  snap,        \* snap[t]: frames in the snapshot t opened
  held,        \* held[t]: the chunk drain() has taken from sub.ch
  got,         \* got[t]: the chunks written to t's conn
  peer         \* peer[t]: what the client of t does

recVars  == <<rec, file, diskBytes, done, live, dropped, closing, awaiting>>
subVars  == <<subs, chan, closes>>
tailVars == <<pc, subDone, replay, snap, held, got>>
vars == <<recVars, subVars, tailVars, connOpen, peer>>

RecStates == {"read", "fanout", "dropConns", "close", "closeConns", "await", "ended"}
PcStates == {"idle", "register", "closeLate", "snapshot", "replay", "drain", "write",
             "deregister", "flush", "dropRemove", "dropDone", "dropConn",
             "discard", "end"}

Init ==
  /\ rec = "read"
  /\ file = <<>>
  /\ diskBytes = 0
  /\ subs = {}
  /\ done = FALSE
  /\ live = TRUE
  /\ dropped = {}
  /\ closing = {}
  /\ awaiting = "none"
  /\ pc = [t \in Tailers |-> "idle"]
  /\ chan = [t \in Tailers |-> <<>>]
  /\ closes = [t \in Tailers |-> 0]
  /\ subDone = [t \in Tailers |-> FALSE]
  /\ connOpen = [t \in Tailers |-> TRUE]
  /\ replay = [t \in Tailers |-> 0]
  /\ snap = [t \in Tailers |-> 0]
  /\ held = [t \in Tailers |-> 0]
  /\ got = [t \in Tailers |-> <<>>]
  /\ peer = [t \in Tailers |-> "reading"]

\* s.mu is only held across steps by a recorder between its disk write and
\* its fan-out.
MuFree == rec # "fanout"

\* t's handler moves on.
Goto(t, next) == pc' = [pc EXCEPT ![t] = next]

-----------------------------------------------------------------------------
(* The recorder's handler: session.write, session.close, registry.remove.   *)

\* handleRec reads a chunk and write() puts its frame on disk, under s.mu.
DiskWrite ==
  /\ rec = "read"
  /\ Len(file) < MaxChunks
  /\ file' = Append(file, Len(file) + 1)
  /\ rec' = "fanout"
  /\ UNCHANGED <<diskBytes, done, live, dropped, closing, awaiting, subVars, tailVars, connOpen, peer>>

\* enc.Write fails (disk full) and handleRec returns, or the recorder's conn
\* ends: the deferred close runs.
EndOfRecording ==
  /\ rec = "read"
  /\ rec' = "close"
  /\ UNCHANGED <<file, diskBytes, done, live, dropped, closing, awaiting, subVars, tailVars, connOpen, peer>>

\* s.diskBytes once the chunk just written is accounted for.
Accounted == diskBytes + 1

\* The tailers whose channel has no room for one more chunk.
Lagging_everyone == IF \E t \in subs : Len(chan[t]) >= ChanCap THEN subs ELSE {}
Lagging == {t \in subs : Len(chan[t]) >= ChanCap}

\* The rest of write(): account for the chunk, send it to the tailers of sent,
\* drop the tailers of lost, release s.mu.
Offer(sent, lost) ==
  /\ diskBytes' = Accounted
  /\ chan' = [t \in Tailers |-> IF t \in sent THEN Append(chan[t], file[Len(file)]) ELSE chan[t]]
  /\ subs' = subs \ lost
  /\ closes' = [t \in Tailers |-> IF t \in lost THEN closes[t] + 1 ELSE closes[t]]
  /\ dropped' = lost
  /\ rec' = "dropConns"
  /\ UNCHANGED <<file, done, live, closing, awaiting, tailVars, connOpen, peer>>

\* The send never blocks: a tailer whose channel is full is dropped.
FanOut_blocking == rec = "fanout" /\ Lagging = {} /\ Offer(subs, {})
FanOut ==
  /\ rec = "fanout"
  /\ Offer(subs \ Lagging, Lagging)

\* The conn of a dropped tailer is closed with s.mu released.
CloseDropped_keepsConn(t) ==
  /\ rec = "dropConns"
  /\ t \in dropped
  /\ dropped' = dropped \ {t}
  /\ UNCHANGED <<rec, file, diskBytes, done, live, closing, awaiting, subVars, tailVars, connOpen, peer>>
CloseDropped(t) ==
  /\ rec = "dropConns"
  /\ t \in dropped
  /\ connOpen' = [connOpen EXCEPT ![t] = FALSE]
  /\ dropped' = dropped \ {t}
  /\ UNCHANGED <<rec, file, diskBytes, done, live, closing, awaiting, subVars, tailVars, peer>>

\* write() returns.
WriteReturns ==
  /\ rec = "dropConns"
  /\ dropped = {}
  /\ rec' = "read"
  /\ UNCHANGED <<file, diskBytes, done, live, dropped, closing, awaiting, subVars, tailVars, connOpen, peer>>

\* session.close(), the part under s.mu: no tailer may register from here on,
\* and every registered one has its channel closed.
CloseSession ==
  /\ rec = "close"
  /\ done' = TRUE
  /\ closing' = subs
  /\ subs' = {}
  /\ closes' = [t \in Tailers |-> IF t \in subs THEN closes[t] + 1 ELSE closes[t]]
  /\ rec' = "closeConns"
  /\ UNCHANGED <<file, diskBytes, live, dropped, awaiting, chan, tailVars, connOpen, peer>>

\* session.close(), outside s.mu, for one tailer: close its conn ...
CloseConn_waitsOnly(t) ==
  /\ rec = "closeConns"
  /\ t \in closing
  /\ awaiting' = t
  /\ rec' = "await"
  /\ UNCHANGED <<file, diskBytes, done, live, dropped, closing, subVars, tailVars, connOpen, peer>>
CloseConn(t) ==
  /\ rec = "closeConns"
  /\ t \in closing
  /\ connOpen' = [connOpen EXCEPT ![t] = FALSE]
  /\ awaiting' = t
  /\ rec' = "await"
  /\ UNCHANGED <<file, diskBytes, done, live, dropped, closing, subVars, tailVars, peer>>

\* ... and wait for its handler to close sub.done.
AwaitDone(t) ==
  /\ rec = "await"
  /\ awaiting = t
  /\ subDone[t]
  /\ closing' = closing \ {t}
  /\ awaiting' = "none"
  /\ rec' = "closeConns"
  /\ UNCHANGED <<file, diskBytes, done, live, dropped, subVars, tailVars, connOpen, peer>>

\* close() has returned: handleRec takes the session out of the registry.
Unregister ==
  /\ rec = "closeConns"
  /\ closing = {}
  /\ live' = FALSE
  /\ rec' = "ended"
  /\ UNCHANGED <<file, diskBytes, done, dropped, closing, awaiting, subVars, tailVars, connOpen, peer>>

-----------------------------------------------------------------------------
(* A tailer's handler: handleTail, addTailer, drain, dropAndClose.          *)

\* reg.get(id): the session is found, or the client is refused and handle()
\* closes the conn.
Lookup(t) ==
  /\ pc[t] = "idle"
  /\ \/ /\ live
        /\ Goto(t, "register")
        /\ UNCHANGED connOpen
     \/ /\ ~live
        /\ Goto(t, "end")
        /\ connOpen' = [connOpen EXCEPT ![t] = FALSE]
  /\ UNCHANGED <<recVars, subVars, subDone, replay, snap, held, got, peer>>

\* session.register: under s.mu, become a subscriber and learn how much of
\* the recording is on disk; refused once the session is done.
Register(t) ==
  /\ pc[t] = "register"
  /\ MuFree
  /\ \/ /\ done
        /\ Goto(t, "closeLate")
        /\ UNCHANGED <<subs, replay>>
     \/ /\ ~done
        /\ subs' = subs \union {t}
        /\ replay' = [replay EXCEPT ![t] = diskBytes]
        /\ Goto(t, IF diskBytes > 0 THEN "snapshot" ELSE "drain")
  /\ UNCHANGED <<recVars, chan, closes, subDone, snap, held, got, connOpen, peer>>

\* addTailer closes the conn of a tailer that came after the end.
CloseLate(t) ==
  /\ pc[t] = "closeLate"
  /\ connOpen' = [connOpen EXCEPT ![t] = FALSE]
  /\ Goto(t, "discard")
  /\ UNCHANGED <<recVars, subVars, subDone, replay, snap, held, got, peer>>

\* OpenCastSnapshot(path): the file as it is now, or an error.
OpenSnapshot(t) ==
  /\ pc[t] = "snapshot"
  /\ \/ /\ snap' = [snap EXCEPT ![t] = Len(file)]
        /\ Goto(t, "replay")
     \/ /\ Goto(t, "dropRemove")
        /\ UNCHANGED snap
  /\ UNCHANGED <<recVars, subVars, subDone, replay, held, got, connOpen, peer>>

\* t's conn takes a chunk, or fails it; a stalled client does neither.
ConnAccepts(t) == connOpen[t] /\ peer[t] = "reading"
ConnFails(t)   == ~connOpen[t] \/ peer[t] = "gone"

\* How far io.CopyN is told to copy.
Boundary_snapshotEnd(t) == snap[t]
Boundary(t) == replay[t]

\* io.CopyN copies one more chunk of the snapshot.
ReplayChunk(t) ==
  /\ pc[t] = "replay"
  /\ Len(got[t]) < Boundary(t)
  /\ Len(got[t]) < snap[t]
  /\ ConnAccepts(t)
  /\ got' = [got EXCEPT ![t] = Append(@, file[Len(@) + 1])]
  /\ UNCHANGED <<recVars, subVars, pc, subDone, replay, snap, held, connOpen, peer>>

\* io.CopyN fails: the conn broke, or the snapshot ends short of the boundary.
\* Or all is copied, and closing the snapshot fails.
ReplayFails(t) ==
  /\ pc[t] = "replay"
  /\ \/ Len(got[t]) < Boundary(t) /\ (ConnFails(t) \/ Len(got[t]) = snap[t])
     \/ Len(got[t]) = Boundary(t)
  /\ Goto(t, "dropRemove")
  /\ UNCHANGED <<recVars, subVars, subDone, replay, snap, held, got, connOpen, peer>>

\* io.CopyN stops at the boundary; addTailer goes on to drain.
ReplayEnds(t) ==
  /\ pc[t] = "replay"
  /\ Len(got[t]) = Boundary(t)
  /\ Goto(t, "drain")
  /\ UNCHANGED <<recVars, subVars, subDone, replay, snap, held, got, connOpen, peer>>

\* sub.ch is closed.
ChClosed(t) == closes[t] > 0

\* drain receives from sub.ch.
Receive(t) ==
  /\ pc[t] = "drain"
  /\ chan[t] # <<>>
  /\ held' = [held EXCEPT ![t] = Head(chan[t])]
  /\ chan' = [chan EXCEPT ![t] = Tail(@)]
  /\ Goto(t, "write")
  /\ UNCHANGED <<recVars, subs, closes, subDone, replay, snap, got, connOpen, peer>>

\* drain's conn.Write succeeds.
WriteLive(t) ==
  /\ pc[t] = "write"
  /\ ConnAccepts(t)
  /\ got' = [got EXCEPT ![t] = Append(@, held[t])]
  /\ Goto(t, "drain")
  /\ UNCHANGED <<recVars, subVars, subDone, replay, snap, held, connOpen, peer>>

\* drain's conn.Write fails.
WriteFails(t) ==
  /\ pc[t] = "write"
  /\ ConnFails(t)
  /\ Goto(t, "deregister")
  /\ UNCHANGED <<recVars, subVars, subDone, replay, snap, held, got, connOpen, peer>>

\* sub.ch is closed and empty: drain returns and closes sub.done.
DrainEnds_onEmpty(t) ==
  /\ pc[t] = "drain"
  /\ chan[t] = <<>>
  /\ subDone' = [subDone EXCEPT ![t] = TRUE]
  /\ Goto(t, "discard")
  /\ UNCHANGED <<recVars, subVars, replay, snap, held, got, connOpen, peer>>
DrainEnds(t) ==
  /\ pc[t] = "drain"
  /\ chan[t] = <<>>
  /\ ChClosed(t)
  /\ subDone' = [subDone EXCEPT ![t] = TRUE]
  /\ Goto(t, "discard")
  /\ UNCHANGED <<recVars, subVars, replay, snap, held, got, connOpen, peer>>

\* session.remove: under s.mu, a tailer that is still a subscriber stops being
\* one and has its channel closed; for any other one nothing happens.
Remove_closesAnyway(t) ==
  /\ MuFree
  /\ subs' = subs \ {t}
  /\ closes' = [closes EXCEPT ![t] = @ + 1]
Remove(t) ==
  /\ MuFree
  /\ subs' = subs \ {t}
  /\ closes' = [closes EXCEPT ![t] = IF t \in subs THEN @ + 1 ELSE @]

\* drain deregisters a tailer whose conn is dead ...
Deregister(t) ==
  /\ pc[t] = "deregister"
  /\ Remove(t)
  /\ Goto(t, "flush")
  /\ UNCHANGED <<recVars, chan, subDone, replay, snap, held, got, connOpen, peer>>

\* ... and empties the channel until it is closed, then closes sub.done.
Flush(t) ==
  /\ pc[t] = "flush"
  /\ ChClosed(t)
  /\ chan' = [chan EXCEPT ![t] = <<>>]
  /\ subDone' = [subDone EXCEPT ![t] = TRUE]
  /\ Goto(t, "discard")
  /\ UNCHANGED <<recVars, subs, closes, replay, snap, held, got, connOpen, peer>>

\* dropAndClose deregisters a tailer whose replay failed, emptying the channel
\* only if it was the one to close it ...
DropRemove(t) ==
  /\ pc[t] = "dropRemove"
  /\ Remove(t)
  /\ chan' = [chan EXCEPT ![t] = IF t \in subs THEN <<>> ELSE @]
  /\ Goto(t, "dropDone")
  /\ UNCHANGED <<recVars, subDone, replay, snap, held, got, connOpen, peer>>

\* ... then closes sub.done ...
DropDone(t) ==
  /\ pc[t] = "dropDone"
  /\ subDone' = [subDone EXCEPT ![t] = TRUE]
  /\ Goto(t, "dropConn")
  /\ UNCHANGED <<recVars, subVars, replay, snap, held, got, connOpen, peer>>

\* ... and the conn.
DropConn(t) ==
  /\ pc[t] = "dropConn"
  /\ connOpen' = [connOpen EXCEPT ![t] = FALSE]
  /\ Goto(t, "discard")
  /\ UNCHANGED <<recVars, subVars, subDone, replay, snap, held, got, peer>>

\* io.Copy(io.Discard, conn) returns once the conn is closed at either end;
\* handle() then closes it for good.
EndDiscard(t) ==
  /\ pc[t] = "discard"
  /\ ConnFails(t)
  /\ connOpen' = [connOpen EXCEPT ![t] = FALSE]
  /\ Goto(t, "end")
  /\ UNCHANGED <<recVars, subVars, subDone, replay, snap, held, got, peer>>

-----------------------------------------------------------------------------
(* The environment: tail clients, and the daemon's shutdown.                *)

Connected(t) == pc[t] \notin {"idle", "end"}

\* The client stops reading (its socket buffer is full), reads again, or goes.
PeerChanges(t) ==
  /\ Connected(t)
  /\ \/ peer[t] = "reading" /\ peer' = [peer EXCEPT ![t] = "stalled"]
     \/ peer[t] = "stalled" /\ peer' = [peer EXCEPT ![t] = "reading"]
     \/ peer[t] # "gone" /\ peer' = [peer EXCEPT ![t] = "gone"]
  /\ UNCHANGED <<recVars, subVars, tailVars, connOpen>>

\* registry.closeConns on shutdown: every tracked conn is closed under its handler.
ForceClose ==
  /\ \E t \in Tailers : Connected(t) /\ connOpen[t]
  /\ connOpen' = [t \in Tailers |-> connOpen[t] /\ ~Connected(t)]
  /\ UNCHANGED <<recVars, subVars, tailVars, peer>>

\* Everyone has finished.
Finished ==
  /\ rec = "ended"
  /\ \A t \in Tailers : pc[t] = "end"
  /\ UNCHANGED vars

-----------------------------------------------------------------------------
RecorderStep ==
  \/ DiskWrite \/ EndOfRecording \/ FanOut \/ WriteReturns
  \/ CloseSession \/ Unregister
  \/ \E t \in Tailers : CloseDropped(t) \/ CloseConn(t) \/ AwaitDone(t)

TailerStep(t) ==
  \/ Register(t) \/ CloseLate(t) \/ OpenSnapshot(t)
  \/ ReplayChunk(t) \/ ReplayFails(t) \/ ReplayEnds(t)
  \/ Receive(t) \/ WriteLive(t) \/ WriteFails(t) \/ DrainEnds(t)
  \/ Deregister(t) \/ Flush(t)
  \/ DropRemove(t) \/ DropDone(t) \/ DropConn(t)
  \/ EndDiscard(t)

Next ==
  \/ RecorderStep
  \/ \E t \in Tailers : Lookup(t) \/ TailerStep(t) \/ PeerChanges(t)
  \/ ForceClose
  \/ Finished

Spec == Init /\ [][Next]_vars

\* Once write() or close() has started its handler goes on; a tailer's handler
\* goes on whenever it can.  Clients, the recorder's conn and shutdown promise
\* nothing, and a tailer need not arrive.
RecorderRuns ==
  \/ FanOut \/ WriteReturns \/ CloseSession \/ Unregister
  \/ \E t \in Tailers : CloseDropped(t) \/ CloseConn(t) \/ AwaitDone(t)

FairSpec ==
  /\ Spec
  /\ WF_vars(RecorderRuns)
  /\ \A t \in Tailers : WF_vars(TailerStep(t))
-----------------------------------------------------------------------------
(* What must hold.                                                          *)

TypeOK ==
  /\ rec \in RecStates
  /\ file \in Seq(Nat)
  /\ diskBytes \in Nat
  /\ subs \subseteq Tailers
  /\ done \in BOOLEAN
  /\ live \in BOOLEAN
  /\ dropped \subseteq Tailers
  /\ closing \subseteq Tailers
  /\ awaiting \in Tailers \union {"none"}
  /\ pc \in [Tailers -> PcStates]
  /\ chan \in [Tailers -> Seq(Nat)]
  /\ \A t \in Tailers : Len(chan[t]) <= ChanCap
  /\ closes \in [Tailers -> Nat]
  /\ subDone \in [Tailers -> BOOLEAN]
  /\ connOpen \in [Tailers -> BOOLEAN]
  /\ replay \in [Tailers -> Nat]
  /\ snap \in [Tailers -> Nat]
  /\ held \in [Tailers -> Nat]
  /\ got \in [Tailers -> Seq(Nat)]
  /\ peer \in [Tailers -> {"reading", "stalled", "gone"}]

\* The chunks of the recording that t has been handed, or is about to be
\* without the channel: its replay, and the chunk drain is holding.
Base(t) ==
  CASE pc[t] \in {"snapshot", "replay"} -> replay[t]
    [] pc[t] = "write"                  -> Len(got[t]) + 1
    [] OTHER                            -> Len(got[t])

\* "No gap, no overlap" (daemon.go, register and addTailer): what a tailer has
\* been sent is the start of the recording, whatever the recorder, the other
\* tailers and its own replay did meanwhile.
NoGapNoOverlap ==
  \A t \in Tailers :
    /\ Len(got[t]) <= Len(file)
    /\ \A i \in 1..Len(got[t]) : got[t][i] = file[i]

\* The other half of the boundary argument: while t is a subscriber that has
\* not failed, replay, chunk in hand and channel add up to exactly the bytes
\* accounted for, so nothing can be lost between the snapshot and the channel.
NothingLostInHandoff ==
  \A t \in subs :
    pc[t] \in {"snapshot", "replay", "drain", "write"} =>
      Base(t) + Len(chan[t]) = diskBytes

\* write(), remove() and close() close a channel only in the critical section
\* that takes the tailer out of subs, and send only to tailers in subs: no
\* step can send on a closed channel or close one twice (either would panic in
\* the recorder's goroutine), and every registered tailer that is out of subs
\* has a closed channel, so its drain loop is bound to end.
ChannelClosedExactlyOnce ==
  \A t \in Tailers :
    /\ closes[t] <= 1
    /\ t \in subs => closes[t] = 0
    /\ pc[t] \in {"snapshot", "replay", "drain", "write", "deregister",
                  "flush", "dropRemove"} => (t \notin subs => closes[t] = 1)

\* Once the session has left the registry no handler can still be held by a
\* client: whoever has not finished has a conn that fails, closed by the lag
\* drop, by close(), by its own drop or by the client.  (A handler about to
\* close its own conn, "dropDone" and "dropConn", needs no one.)
EndedSessionHoldsNoClient ==
  ~live => /\ subs = {}
           /\ \A t \in Tailers :
                pc[t] \in {"snapshot", "replay", "drain", "write", "deregister",
                           "flush", "dropRemove", "discard"} => ConnFails(t)

\* A tailer loses its subscription while the recording is going on only
\* because its own channel was full or its own conn or snapshot failed: never
\* because of another tailer.
DroppedForOwnFault ==
  [][\A t \in subs \ subs' :
       \/ done'
       \/ Len(chan[t]) >= ChanCap
       \/ pc[t] \in {"deregister", "dropRemove"}]_vars

\* The write path never waits for a tailer: a chunk on disk is always
\* accounted for and the recorder read again, even when every client stalls.
RecorderNeverBlocked == (rec = "fanout") ~> (rec = "read")

\* A session that ends is over: close() gets through, although every sub.done
\* it waits for may belong to a handler stuck in a write to a stalled client or
\* still in its replay, and no handler goroutine is left behind.
HandlersFinish ==
  (rec = "close") ~> (rec = "ended" /\ \A t \in Tailers : pc[t] \in {"idle", "end"})

\* A tailer whose client keeps reading is eventually sent every chunk that was
\* recorded while it was subscribed, unless it loses its subscription.
LiveDelivery ==
  \A t \in Tailers : \A n \in 1..MaxChunks :
    (t \in subs /\ diskBytes >= n) ~>
      (Len(got[t]) >= n \/ t \notin subs \/ peer[t] # "reading")

\* The inductive invariant behind the safety properties.  The handlers that
\* take chunks from their channel:
Streaming == {"snapshot", "replay", "drain", "write"}

\* The file holds chunk after chunk, and diskBytes counts it but for the frame
\* write() has not accounted for yet.
RecordingInv ==
  /\ \A i \in 1..Len(file) : file[i] = i
  /\ Len(file) = IF rec = "fanout" THEN diskBytes + 1 ELSE diskBytes

\* What t was sent is the start of the recording, and what waits in its
\* channel follows on from there, up to diskBytes if t is a subscriber.
ContentInv(t) ==
  /\ Len(got[t]) <= diskBytes
  /\ \A i \in 1..Len(got[t]) : got[t][i] = i
  /\ pc[t] \in {"idle", "register"} => got[t] = <<>> /\ chan[t] = <<>>
  /\ pc[t] \in {"snapshot", "replay"} => Len(got[t]) <= replay[t] /\ replay[t] <= diskBytes
  /\ pc[t] = "replay" => snap[t] <= Len(file)
  /\ pc[t] = "write" => held[t] = Len(got[t]) + 1
  /\ pc[t] \in Streaming =>
       /\ \A i \in 1..Len(chan[t]) : chan[t][i] = Base(t) + i
       /\ Base(t) + Len(chan[t]) <= diskBytes
       /\ t \in subs => Base(t) + Len(chan[t]) = diskBytes

\* A subscriber's handler has not passed remove(), and its channel is open;
\* a handler that counts on the end of its channel has it closed once.
SubscriptionInv(t) ==
  /\ closes[t] <= 1
  /\ t \in subs => closes[t] = 0 /\ pc[t] \in Streaming \union {"deregister", "dropRemove"}
  /\ pc[t] \in {"idle", "register"} => closes[t] = 0
  /\ pc[t] \in Streaming \union {"deregister", "flush", "dropRemove"} =>
       t \in subs \/ closes[t] = 1

IInv ==
  /\ TypeOK
  /\ RecordingInv
  /\ \A t \in Tailers : ContentInv(t) /\ SubscriptionInv(t)

\* The inductive invariant behind EndedSessionHoldsNoClient: the states close()
\* goes through, and, for a handler past its registration, either somebody is
\* still going to close its conn or the conn already fails.
EndingInv ==
  /\ done <=> rec \in {"closeConns", "await", "ended"}
  /\ ~live <=> rec = "ended"
  /\ done => subs = {}
  /\ rec # "dropConns" => dropped = {}
  /\ rec \notin {"closeConns", "await"} => closing = {}
  /\ rec = "await" => awaiting \in closing /\ ~connOpen[awaiting]

ReleaseInv(t) ==
  /\ pc[t] \in Streaming \union {"dropRemove", "discard"} =>
       t \in subs \union dropped \union closing \/ ConnFails(t)
  /\ pc[t] \in {"deregister", "flush"} => ConnFails(t)

\* The session implements the abstract stream: the file is what is recorded,
\* and what is written to a conn is what its tailer is handed.
Stream == INSTANCE TailStream WITH Chunks <- 1..MaxChunks, recorded <- file, seen <- got
ImplementsTailStream == Stream!Spec
=============================================================================
