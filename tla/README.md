# Ghost Shell: specifications

Ghost Shell records terminal sessions. `ghostshell rec` runs a shell under a PTY
and streams what the terminal shows to `ghostshell-daemon`, which encrypts it
into a central store; root can watch a session live; Ansible runs and command
traces go the same way; when the daemon is not there, recordings stay with the
user and are collected later; root lists, searches, analyses, plays and prunes
what is in the store. This directory holds TLA+ models of the parts in which
goroutines, processes, crashes, configuration changes and pieces of a stream
meet, the TLC configurations that check them, and TLAPS proofs about most of
them: the live session, the connection registry, the key, the sweep of local
recordings, the recorder, the Ansible run, the reload, the encrypted file and the
text in it, the player, and prune.

Paths below are relative to the repository; `daemon.go` is
`internal/daemon/daemon.go`, `record.go` is `internal/record/record.go`.

## 1. The system

### Components

| Component | Code | State | Operations | Module |
|---|---|---|---|---|
| Live session and its tailers | `daemon.go` 95-297, 619-736 | the session file, `diskBytes`, `subs`, `done`; per tailer a channel of 256 chunks, a conn, a replay boundary | `write`, `subscribe`/`register`/`remove`, `drain`, `addTailer`, `dropAndClose`, `close` | `LiveSession`, abstract `TailStream` |
| Connections, registry, shutdown | `daemon.go` 299-615, 738-922 | `live`, `connCount`, `cap`, `conns`, the WaitGroup | accept, handshake, `reserve`/`release`, `add`/`remove`/`get`, the REC, TAIL, ANSIBLE and SPAN handlers, `closeConns`, the grace period | `Daemon` |
| Recorder and the scripts that start it | `record.go`, `scripts/profile.d/ghostshell-autorec.sh`, `scripts/ghostshell-ssh-wrap.sh` | the sink, the child, the PTY, `childExited`, the writer's buffer and its sticky error | `openSink`, `recHandshake`, `Run`, `pumpOutput`, the two signalling goroutines, `rec && exit` | `Recorder` |
| Ansible runs | `scripts/ansible/ghostshell.py`, `internal/ansible/ingest.go`, `handleAnsible` | the lines written, the upload, the reply, the store's and the local file | `_emit`, `_close`, `Ingest`, `sendToDaemon`, `writeLocal`, the handler | `AnsibleRun` |
| Ansible commands | `internal/ansible/model.go`, `commands.go`, `incoming.go` | none | `ParseRun`, `show`, `list`; `incoming` | `AnsibleJournal`; `IncomingTasks`, `AuditTools` |
| Reload, backup loop | `cmd/ghostshell-daemon/main.go`, `daemon.go` 464-517, 1217-1266 | two channels of one place, `prevBackup...`, `cur`, the cap | SIGHUP loop, reload goroutine, `backupLoop` | `BackupReload` |
| Configuration | `internal/config/config.go` | the configuration, the file's lines | `Parse`, the environment, `Validate` | `Config` |
| Logger | `internal/logger/logger.go` | the output, `currentFile`, open descriptors | `TeeToFile`, `Reopen`, `emit` | `Logger` |
| Sweep of local recordings | `daemon.go` 1091-1323, `internal/store/store.go` | the user's spool, the central store, a temp file | `ingestHome`, `copyFile`, `isActive`, `WriteFileAtomic` | `LocalIngest` |
| At-rest key | `daemon.go` 958-1089 | the key file, what is encrypted under which key | `ensureKey`, `encryptedRecordingsExist`, the daemon's restarts | `KeyManagement` |
| Encryption framing, cast file | `internal/crypto/crypto.go`, `internal/cast/cast.go` | stream id, frame counter, the reader's place | `newWriter`, `encWriter.Write`, `OpenReader`, `DecReader.Read`, the cast reader | `CastFile` |
| Streams cut anywhere | `internal/cast/cast.go`, `internal/play/scrollback.go`, `chapters.go`, `input.go`, `internal/audit` (line ring) | bytes held back, a pending escape, a partial line | `Writer.event`, `lineBuf.feed`, `buildChapters`, `lineRing`, `inputParser.feed` | `Terminal` |
| Player | `internal/play/play.go` | clock, speed, position, overlays, prompt, the input channel | the loop, keys and clicks, `seek`, resize, end, return | `Player` |
| Audit commands | `internal/audit/audit.go`, `internal/store/store.go` | what a command has collected | ls, search, prune, tree, analyze, incoming | `AuditTools` |
| Process tree and analysis | `internal/audit/audit.go`, `internal/analyze` | none | `buildSpanTree`, the detectors, `correlateOutput` | `SpanAnalysis` |
| Trace shim and reporter | `scripts/trace-shim.sh`, `internal/span` | the pending span, the chunk | DEBUG and EXIT traps, report | handler in `Daemon`, chunks in `AuditTools` |
| Passwords, backup command, completion, init, packaging | `internal/auth`, `internal/backup`, `internal/complete`, `internal/initcmd`, `packaging` | files written in one call | sequential | not modelled (section 8) |

### How they interact

* `ghostshell rec`, `ghostshell tail`, `ghostshell ansible-ingest` and the trace
  reporter each dial one unix socket and write one command line. `handle` runs
  in a goroutine per connection and dispatches to a handler.
* Handlers share `registry` (under `reg.mu`, and `reg.connMu` for the conns that
  shutdown closes) and, for a recording and its tailers, one `session` (under
  `s.mu`). The session's file is shared as well: a tailer opens it again, by
  path and without `s.mu`, to replay what was there before it came.
* A tailer and the recorder it watches meet in the tailer's channel: `write`
  sends to it without blocking, `drain` receives from it; `write` (on lag),
  `remove` and `close` may all end the subscription.
* SIGHUP reaches `main`, which hands a parsed configuration over a channel to a
  goroutine of `Run`, which hands changed backup settings over another channel
  to `backupLoop`.
* At start the daemon makes or loads the key, starts a sweep of the users'
  local recordings beside the accept loop, and waits for it at shutdown.
* logrotate renames the log and sends SIGHUP as well, while any goroutine logs.
* root's commands walk the store directory by directory while the daemon records
  into it, and prune waits for an operator's answer in between.
* Output passes through many hands that each cut it elsewhere: the PTY's reads,
  the recorder's buffer, the frames, the events, the reader's buffer.

### What is hard here

* **Interleavings**: register, replay and fan-out of a live tail; two
  recordings with one id; the accept loop against shutdown; `cmd.Wait` against
  the goroutines that signal the child; a sweep beside running recorders.
* **Ends that wait for each other**: `session.close` for drains that may sit in
  a write to a stalled client; `Run` for a pump that may sit in a write to a
  stalled daemon; ingest and handler of an upload.
* **Partial failure**: a full disk at every call of a handler; a client that
  goes away at every point; a daemon that stops answering after its OK.
* **Crash and power loss** between the steps of `WriteFileAtomic`, of the sweep,
  and of the first write of the key.
* **Newest value wins?** Two channels of one place that drop when full, fed by
  two senders of one signal, over a file that its editor has half written.
* **Cuts**: a frame, a character, an escape sequence, a line end, a key, a run's
  line, each cut anywhere by a crash, a read or a buffer.
* **Stale judgements**: prune and the sweep decide by a pid, a start time and a
  clock, and act later.

What makes each component correct is stated as the properties of its module
(section 4); the places in the code where it could go wrong are listed, line by
line, in `PROJECT.json` under "hazards".

## 2. The modules and the code

Conventions. A model's variable has the name of the code's where there is one;
control states stand for program points between critical sections, so an action
is one critical section, one system call or one blocking operation, with
everything the code does there. Definitions named `X_variant` beside an action
`X` are plausible mistakes in that action: the properties are validated against
them (section 7) and they are in no specification.

### TailStream, LiveSession, MCLiveSession

`LiveSession` is one `session` with any number of tailers. `rec` is where the
recorder's handler is: `read` (in `conn.Read`), `fanout` (frame on disk, `s.mu`
held, `diskBytes` not bumped), `dropConns` (closing lagging conns outside the
lock), `close`, `closeConns`, `await` (in `session.close`), `ended`. `pc[t]` is
where tailer t's handler is, from `idle` through `register`, `snapshot`,
`replay`, `drain`/`write` to one of its ways out. The disk write and the
accounting in `write` are two steps because the snapshot is opened without
`s.mu`; everything else under `s.mu` is one step. Chunks are numbered, so a gap,
a repetition and a swap are different states. `peer[t]` is the client: reading,
stalled or gone, and it changes at will.

`TailStream` is what tailing promises, with no lock, channel or goroutine in it:
a recording grows, and each tailer is handed its next chunk, from the first on.
`LiveSession` implements it with `recorded <- file, seen <- got`.

### Daemon, MCDaemon

One `pc[c]` per connection, from the listener's backlog to the end of its
handler; `run` is `Run`'s accept loop and final wait, `sd` the goroutine that
waits for `ctx.Done()`. `owner[p]` says whose file is at a path; a path is a
request (kind, uid, id), since the code gives each user and kind a directory.
`handleRec`, `handleAnsible` and `handleSpan` share the actions they share in
code; `add`, the OK and `session.close` are REC's. A handler that streams has
one state: what happens inside is `LiveSession`.

### Recorder

`rec` is `Run` from `openSink` to its return, `pump` is `pumpOutput`, `sig[g]`
the stdin and the SIGHUP goroutine up to their `syscall.Kill`. The child, whoever
else holds the terminal, the user's own terminal (`screen`, which may stall), and
the daemon (up, wedged or dead; answering late or never) are the environment. The
local disk may be full from any write on (`full`: bufio keeps its first error).
`heldUp` remembers what kept `pumpOutput` from the end of the PTY when a grace
period ran out and closed the master: another process with the terminal, the
daemon, the user's own terminal, or that stdin had ended before the child.
Output is counted in chunks on their way from PTY to screen and buffer, to socket
or file, to store.

### AnsibleRun, AnsibleJournal, MCAnsibleRun

`AnsibleRun`: the plugin writes a line for the run, for each task result and for
each host's stats; the ingest process buffers them, uploads and waits; the
handler stores; each may die. A line is two chunks, so that a copy can end in the
middle of one. A refusal is a choice of `Open`. `AnsibleJournal` is what
`ParseRun`, `show` and `list` make of any such copy.

### BackupReload, Config, Logger, MCBackupReload

`Config` is `Parse`, the environment and `Validate` as operators on a file's
lines; a value is its form and a number. `Logger` is the tee with its
descriptors under `logrotate`. `BackupReload` puts both into the SIGHUP loop: the
editor writes the new text in two parts, operator and logrotate signal, the loop
reopens, parses and hands over, the reload goroutine applies and passes on,
`backupLoop` receives between transfers. `missed` remembers which channel was
full when the last value came.

### LocalIngest, MCLocalIngest, KeyManagement

`LocalIngest`: one home; a file is the number of events in it; `durable` beside
`central` is what a power loss may leave, and a file that was never synced may
come back with any part of its events. The directory's sync may fail, which the
code ignores. `isActive` compares the recorder's start with the time in the name,
give or take `Slack`: the name has no time zone, so the daemon may read it as
earlier or later than it was (`stamp`, of the user's zone), and setting the clock
forward moves the start (`shift`). `misdated` remembers whose recorder has looked
too young for its file. `KeyManagement`: keys are numbered; the store is the set of (kind,
key) of what is encrypted, beside what of it survives a power loss; starting,
crashing, losing, backing up, restoring, pruning.

### CastFile

The writer puts a frame on disk in three units (length, nonce, ciphertext) after
the magic and the stream id; any unit may be missing at the end (a crash of the
writer at any point), and the storage may once change, drop, swap or graft units.
The reader opens at any moment, follows or takes a snapshot, and reads unit by
unit, keeping its place as `DecReader` does. It implements `TailStream` with one
tailer, the reader of the file.

### Terminal, MCTerminal

One behaviour is one stream. Output: a program writes bytes of a small alphabet
that leads characters of one to four bytes,
the PTY cuts them anywhere, `cast.Writer` makes events, and each view (scrollback,
command list, ring of `tail -n`) is fed event by event. Input: keys, wheel, clicks,
a lone Esc and terminal replies arrive byte by byte at `inputParser`; of what is
sent in one go, `head` says where the parser takes the sequence to be over, which
is too early for a DCS reply, an X10 click and a console's function key. The
properties compare with the same operator on the uncut stream, or with what was
sent.

### Player, MCPlayer

`loop` is the local state of `playInteractive`, and each of its closures (`seek`,
`emitForward`, `renderTo`, the key handlers) an operator from one such state to the
next; an action is one turn of its `select`. The clock is the field `ahead`, which
ticks. Beside it the input goroutine with its bounded channel, and the deferred
calls of the return.

### AuditTools, SpanAnalysis, IncomingTasks, MCAuditTools

`AuditTools` is one command at a time over the store, in steps (the users, the
names of a user, each recording), with the daemon, recorders, pids, the clock and
the operator moving in between; search's workers and semaphore; prune's
selection, password, questions, second look and removal. The daemon makes a file
first and the header comes later; a line that matches lies within an event
(`hits`) or is cut by two (`cut`). The time in a name is the daemon's local time,
which the command reads in its own zone (`Misread`). A recording's header has the
second in which it began (`start`), its events count from within that second
(`zero`). `SpanAnalysis` is
`buildSpanTree` with its rendering, the detectors and `correlateOutput`,
`IncomingTasks` the inference of playbook runs from sessions: operators that the
commands apply to what they have collected.

## 3. How the modules relate

An `MC` module extends its component for TLC with the values of its constants;
`LiveSession_proofs`, `Daemon_proofs`, `KeyManagement_proofs`,
`LocalIngest_proofs`, `Recorder_proofs`, `AnsibleRun_proofs`,
`BackupReload_proofs` and `CastFile_proofs` extend theirs for TLAPS. Two of these
extend other components: `CastFile_proofs` also `Terminal` (what `cast.Writer`
puts into the file, whose specification is `TerminalSpec`) and `Player` (what is
shown of it; `PlayerSpec`, and `FairPlayerSpec` for the run), `Recorder_proofs`
also `AuditTools` (prune, which must not touch what a recorder still writes,
search, incoming, tree and analyze, which must find it; `ToolsSpec`, and
`FairToolsSpec` for the run). `Daemon`
abstracts a session to the states `stream`, `close`, `await` of its recorder and
`tail` of its tailers; the assumption it makes of the session (a `close` that has
closed its tailers' conns comes back) is part of `HandlersFinish` of
`LiveSession`. `Recorder` and `AnsibleRun` take the daemon as an environment that
may do whatever `Daemon` can do to one connection, and worse. `CastFile` opens up
the frame that `LiveSession` takes as a unit, and both implement `TailStream`: a
live tailer and a reader of the file are handed the same stream. `AuditTools`
takes over where the files are closed, and `AnsibleRun` reads its own files back
through `AnsibleJournal`.

## 4. What is checked

| Run | Module | Instance | States | Properties |
|---|---|---|---|---|
| `session_safety` | `MCLiveSession` | 2 tailers, channel of 1, 3 chunks | 4.3 M | `ChannelClosedExactlyOnce`, `EndedSessionHoldsNoClient`, `ImplementsTailStream`, `DroppedForOwnFault`, no deadlock |
| `session_delivery` | `MCLiveSession` | 1 tailer, channel of 1, 3 chunks, fair | 10 k | `RecorderNeverBlocked`, `HandlersFinish`, `LiveDelivery`, no deadlock |
| `daemon` | `MCDaemon` | 2 conns, each REC (two users), SPAN or TAIL on one id, caps 1 and 2, fair | 542 k | `SlotsAccountedFor`, `ReplyTellsStorage`, `CleanExit`, `CapHonoured`, `StoredNeverClobbered`, `SlotReturned`, `RunExits` |
| `recorder` | `Recorder` | 2 chunks, a socket that holds 1, fair | 1.1 M | `OutputKept`, `LoginNotBlocked`, `RunReturnsUnlessWedged` |
| `ansible` | `MCAnsibleRun` | 2 hosts, 2 task results, 5 lines, a socket of 2 chunks, fair | 519 k | `RunLandsWhole`, `RecapTellsTheTasks`, `PlaybookFree` |
| `reload` | `MCBackupReload` | 4 texts, up to 2 edits and rotations | 1.1 M | `AnnouncedInForce`, `LogFollowsRotation`, `WarnsOfIgnored` |
| `ingest` | `MCLocalIngest` | 2 recordings of up to 2 events, 3 time zones, a clock set forward | 5.1 M | `NothingHalfVisible`, `StoredBeforeRemoved` |
| `key` | `KeyManagement` | 3 keys, casts and Ansible runs, fair | 7.9 k | `CastsUnderOneKey`, `KeyServes` |
| `cast_file` | `CastFile` | 3 frames, 4 bytes, one fault | 29 k | `ImplementsTailStream`, `ReaderTellsTheTruth` |
| `terminal` | `MCTerminal` | 3 programs of 4 or 5 bytes, 19 keys and replies, 3 in a row | 284 k | `RecordingKeepsCharacters`, `ViewsSeeOneStream`, `KeysRead` |
| `player` | `MCPlayer` | 4 recordings, 19 events, 4 in a row, a channel of 1, fair | 60 k | `ScreenFollowsLoop`, `JumpIsExact`, `PlaybackRests` |
| `audit` | `MCAuditTools` | 7 recordings of 2 users, 12 commands, 5 steps of others, 2 workers | 1.8 M | `SearchFaithful`, `TreeKeepsSpans`, `AnalysisFaithful`, `IncomingGroups`, `PruneSparesRunning` |

What the runs show, in words:

* A live tailer is sent a prefix of the recording, chunk by chunk, whatever the
  recorder, the other tailers, its own replay, lag, shutdown and clients do; it
  loses the stream only through its own fault; its channel is closed exactly
  once; the recorder never waits for it; and when the session has ended no
  handler is left with a client that could hold it.
* A session slot is counted on every path through a handler and comes back when
  the recorder is gone; a lowered cap admits nobody above it; two recordings
  with one id cannot damage each other; what a client is told is what happened
  to its data; a shutdown ends.
* While the sink works, all that is read from the PTY reaches the one sink that
  was chosen, and the PTY is read to its end, the last chunk included, unless
  stdin ended first or another process with the terminal, the daemon or the user's
  own terminal held the pump up past a grace period (`TailKept`, section 6); a
  login gets to its shell whatever the daemon does; the recorder returns unless
  its daemon or its user's terminal has stopped reading.
* An Ansible run that was refused in words is saved locally, one that was
  served is whole, the playbook is held up for a bounded time at most, and no
  copy that was cut is read back with a recap that is not its tasks'.
* What an operator announced is in force once the signals are served, unless a
  full channel dropped it; no log line goes to a closed file; `--check` warns of
  exactly the lines that have no effect.
* Nothing half-written shows in the central store, before or after a power
  loss, and no source is removed before its copy is there, for good if its
  directory can be synced: of recordings whose recorder never looked younger than
  the time in its name (`InProgressNotSwept`, section 6).
* Casts in the store are all under the key the daemon serves with.
* A reader of an encrypted file is handed a prefix of what was written, all of it
  if the file is sound, and an error exactly for damage that the frames
  authenticate.
* Where reads, events and polls cut the streams shows in no view and no key.
  What the key parser reads wrongly (`RepliesSwallowed`, section 6) costs its own
  bytes, or the one behind an Esc, and nothing after it.
* Playback shows what its clock says after any keys, jumps, resizes and overlays,
  and comes to rest.
* Search, tree, analyze and incoming print what the store held, whatever is
  recorded meanwhile and in whatever order: search, what matches within an event
  (`SearchFindsPattern`) and "(unreadable)" for a header that is damaged or has yet
  to come (`UnreadableIsCorrupt`); analyze, output that is late by the part of a
  second a header leaves out (`FailureOutputExact`). Prune leaves running
  recorders alone unless the clock was set forward since they started, and their
  names are read as too early, by more than 5 seconds together (`NeverInProgress`).

### Bounds and why they are enough

* Two tailers: they interact only through the recorder (`write` and `close` go
  through `subs`), so what one can do to another shows with two; the proofs cover
  any number. A channel of one is the tightest; three chunks let a tailer replay
  one, hold one, have one queued and lag. With one tailer the liveness run is
  small; that `close` waits for several in turn is the same step again, and the
  safety run covers their interleavings. Both runs check for deadlock: the only
  state without a step is the one where every handler has finished, which
  `Finished` allows.
* `daemon`: two connections are a holder and a competitor, with any two of five
  requests (`Contested`; `Pairs` takes one of each pair in two orders, which
  differ by the connections' names only). Two users and two kinds, so that slot
  and id are contested separately; caps of 1 and 2 so that a reload can lower the
  cap below what is running. More connections are the proofs' business.
* `recorder`: with a socket of one, two chunks fill it and block the pump.
* `ansible`: two results can be two hosts' or one's twice; five lines are one
  chunk more than `MaxIngest`, and more than the socket and buffers hold. A
  whole run of two hosts is that long, so that the recap of two hosts is shown by
  the proof (`RecapTold`).
* `reload`: `Budget` allows two edits, an edit and a rotation, or two rotations;
  the four texts set, comment out, repeat, misspell and garble keys of each form.
  One value is in force, one queued, one dropped.
* `ingest`: one entry that fails or is still running beside one that goes through;
  two events so that a copy can be cut short. A slack of 0, zones one unit off in
  either direction and a clock set forward by one are the two sides of the
  comparison in `isActive`, alone and together. Any number of sweeps follow each
  other. Recordings are interchangeable (`Symmetry`).
* `key`: three keys, one lost, one restored, one new.
* `cast_file`: a frame before and one after the one that is hit; four bytes so
  that a line can lie across frames.
* `terminal`: a character of four bytes is the longest that the writer holds back
  (`utf8.UTFMax`), whole or cut off, with a byte before or behind it; every split of
  every text of four or five bytes is reached, and three items, the longest of six
  bytes, end in every parser state.
* `player`: two outputs apart by more than `--idle`, times that run backwards, a
  time that is no number, input records; four events are enough to open, leave
  and reopen an overlay around a jump.
* `audit`: the store holds a damaged header, a name that is no regular file,
  the same Ansible directory in two sessions, a circle, an unknown parent, equal
  starts and a branch of three spans, one deeper than `MaxTreeDepth`; two workers
  with three jobs make one wait. Two more recordings begin while a command runs,
  one of them in an hour that comes twice; root is in the daemon's zone, east or
  west of it by more than the slack; the clock is set forward by the slack or by
  more. A recording begins at its header's second, or within it, by one unit or
  by two. Five steps of the others are enough for a recorder that starts, has the
  clock set and is met by prune, or whose header and two events come while search
  runs.

`CHECK_DEADLOCK FALSE` stands in the runs of components that really may stop: a
daemon that has exited, a recorder or a command that has returned, a stream that
has ended, a bounded number of edits.

### Fairness

Fairness is what the Go scheduler and the operating system give: a goroutine
that can take a step takes one eventually, a timer that is set fires. It is weak
fairness of each goroutine's steps taken together, and nothing is assumed of
clients, of the disk, of the child of a recorder, of the operator, or of the
other end of a connection. In `LiveSession` the recorder is fair inside `write`
and `close` only: that it sends more, or ends, is up to its client. In `Daemon`
the handshake deadline and the grace period are timers, so their actions are
fair; a failing disk is not. In `Recorder` the drain's grace period of seconds runs
out only on a pump that something has held up (`Obstacle`, or a stall since): a
pump that can read and write empties a PTY sooner. In `AnsibleRun` the plugin is fair once its playbook
has ended. In `BackupReload` neither the end of a transfer nor the receive of an
update is fair, since the ticker may win the `select` each time. In `Player` the
clock ticks, and nothing is assumed of the keyboard; in `AuditTools` a command's
goroutines run, and nothing is assumed of the operator. In `KeyManagement` the
daemon is started again (`Restart=on-failure` in
`scripts/systemd/ghostshell-daemon.service`), and reading, scanning and writing
the key are strongly fair: they do not fail each time. (`KeyServes` has as its
premise that a key is there for good.)

## 5. What is proved

`LiveSession_proofs` proves, for every set of tailers, every channel capacity
from one up and every number of chunks (`TailersAssumption`,
`ChanCapAssumption`, `MaxChunksAssumption`):

| Theorem | States |
|---|---|
| `Invariance` | `Spec => []IInv` |
| `TypeCorrect` | `Spec => []TypeOK` |
| `Continuity` | `Spec => []NoGapNoOverlap` |
| `Handoff` | `Spec => []NothingLostInHandoff` |
| `ClosedOnce` | `Spec => []ChannelClosedExactlyOnce` |
| `OwnFault` | `Spec => DroppedForOwnFault` |
| `Refinement` | `Spec => ImplementsTailStream` |
| `EndReleases` | `Spec => []EndedSessionHoldsNoClient` |

The argument. `NoGapNoOverlap` is not inductive: it says nothing of the chunk a
drain holds, of what waits in the channel, or of where a replay will stop. `IInv`
adds that (`ContentInv`): the chunks in the channel follow on from `Base(t)`, the
number of chunks t has been handed or will be handed without the channel (its
replay boundary while it replays; one more than it was sent while it holds one),
and for a subscriber `Base(t)` plus the channel is exactly `diskBytes`. That sum
is why the boundary taken in `register` under `s.mu` works: a chunk written after
it is in the channel, one written before it is in the replay, and the unlocked
snapshot may hold more than the boundary but never less. `RecordingInv` ties
`diskBytes` to the file, with the one frame of slack inside `write`.
`SubscriptionInv` says who may still be in `subs` and that a channel is open
exactly as long, which also gives `ClosedOnce`. The proof that `Next` preserves
`IInv` goes conjunct by conjunct (`ScalarStep`, `ChunkTypesStep`,
`RecordingStep`, `SubscriptionStep`, `ContentStep`); `FanOutContent` and
`OwnContent` are the two places where content changes, `UntouchedContent` covers
the rest.

`EndReleases` has an invariant of its own, `EndingInv` and `ReleaseInv`: past its
registration a handler's conn either fails already, or somebody is still on the
way to closing it (it is in `subs`, `dropped` or `closing`); the states of
`close` empty these one after the other. `Refinement` maps each step: a disk
write stores, a replayed or live chunk hands the next one (by `IInv` it is the
next one), all others change neither `file` nor `got`.

`Daemon_proofs` proves every safety property its runs check, for every finite set
of connections and any users, ids, requests and set of caps (`ConnsAssumption`,
`RequestsAssumption`, `CapsAssumption`, `NoneAssumption`):

| Theorem | States |
|---|---|
| `Invariance` | `Spec => []IInv` |
| `TypeCorrect` | `Spec => []TypeOK` |
| `LiveIds` | `Spec => []LiveIdsAreOpenSessions` |
| `RepliesTrue` | `Spec => []ReplyTellsStorage` |
| `FilesKept` | `Spec => StoredNeverClobbered` |
| `SlotCount` | `Spec => []SlotsAccountedFor` |
| `CapKept` | `Spec => CapHonoured` |
| `NothingLeft` | `Spec => []CleanExit` |

The argument. The invariants hold of each other's states only with where every
handler stands: `KindInv` (only recorders get to the registry), `OwnerInv` (from
`open` on the file at the request's path is the handler's own, before that there
is none of its, and the answer follows the file), `EndInv` (`conns` is exactly the
handlers between `trackConn` and their return, and an answered conn is closed by
then), `QuietInv` (after a clean return nothing runs). Each has a step lemma with
one step per action. `OwnerInv` is what makes `Collide` safe: the file a rejected
recorder removes is the one `open` with O_EXCL gave it. `SlotsAccountedFor` is
inductive given the types: `HolderStep` says that only `Reserve` and `Release`
change who holds a slot, and each by exactly its own handler, so the cardinality
moves with the count; that nobody is released who was not counted is why
`Released` never has to stop at zero. `CapHonoured` and `CleanExit` follow from
it.

The others:

| Module | Theorem | States | Assumes |
|---|---|---|---|
| `KeyManagement_proofs` | `TypeCorrect` | `Spec => []TypeOK` | `MaxKeysAssumption` |
| | `CastsSafe` | `Spec => []CastsUnderOneKey` | |
| `LocalIngest_proofs` | `TypeCorrect` | `Spec => []TypeOK` | `NamesAssumption`, `MaxLenAssumption`, `FilesAssumption`, `ClockAssumption`, and `Custom = {}` |
| | `WholeWhenVisible` | `Spec => []NothingHalfVisible` | |
| | `NeverLost` | `Spec => []StoredBeforeRemoved` | |
| `Recorder_proofs` | `OutputIsKept` | `Spec => []OutputKept` | none |
| | `OneHomeEach` | `Spec => []OneHome` | |
| | `PruneSpares` | `ToolsSpec => PruneSparesRunning` | `ToolsAssumption` |
| | `SearchTells` | `ToolsSpec => []SearchFaithful` | `ToolsAssumption` |
| | `IncomingTells` | `ToolsSpec => []IncomingGroups` | `ToolsAssumption`, `GapAssumption` |
| | `TreeTells` | `ToolsSpec => []TreeKeepsSpans` | `ToolsAssumption`, `AnalysisAssumption` |
| | `AnalysisTells` | `ToolsSpec => []AnalysisFaithful` | `ToolsAssumption`, `AnalysisAssumption` |
| `AnsibleRun_proofs` | `RunLands` | `Spec => []RunLandsWhole` | none |
| | `RecapTold` | `Spec => []RecapTellsTheTasks` | `HostsAssumption` |
| `BackupReload_proofs` | `LogFollows` | `Spec => []LogFollowsRotation` | `TextsAssumption` |
| | `InForce` | `Spec => []AnnouncedInForce` | |
| | `Warns` | `Spec => []WarnsOfIgnored` | |
| `CastFile_proofs` | `Refinement` | `Spec => ImplementsTailStream` | `CastFileAssumption` |
| | `ReaderTold` | `Spec => ReaderTellsTheTruth` | |
| | `WriterKeepsText` | `TerminalSpec => []RecordingKeepsCharacters` | none |
| | `KeysDecoded` | `TerminalSpec => []KeysRead` | `KeysAssumption` |
| | `ViewsSeeStream` | `TerminalSpec => []ViewsSeeOneStream` | `TerminalAssumption` |
| | `ScreenFollows` | `PlayerSpec => []ScreenFollowsLoop` | `PlayerAssumption` |
| | `JumpExact` | `PlayerSpec => JumpIsExact` | |

* **The key.** A new key may replace an old one only when no cast is left. That
  rests on where `ensureKey` stands (`CreateInv`: on its way to a new key it has
  found no key file, and past the scan no cast) and on what the path can hold
  (`PathInv`: the last key or none, now and after a power loss), so that neither
  the operator nor a crash brings an older key back beside newer casts.
* **The sweep.** `Custom = {}` says that every name is one the recorder made, of
  its time and pid; with names given by `-o` both statements are false (section
  6). A recorder that never looked younger than its name (`DateInv` says which
  did) is active as long as it runs, whatever the zones and the clock. `SweepInv`
  collects what the sweep knows of the file at hand: past `OpenSource` its recorder
  is over, past `Copy` the temp file has all of it, past `Sync` durably, unless it
  was misdated. `StoreInv` says that what a name shows is the recording with that
  name, whole and synced, unless it was misdated; two copies under one name are then equal,
  which makes a repeated rename and a power loss in between harmless
  (`RenameEffect`, `PowerLossEffect`).
* **The recorder.** `Accounted = produced` is kept by each step while the sink
  works; that nothing is left behind at the end needs `PumpInv`: a pump that
  nothing held up has emptied the PTY when nobody could write to it any more, and
  the master was not closed before.
* **The Ansible run.** `ChunksInv`: each chunk is to be sent, on its way or in the
  file; `LinesInv`: nothing is sent of a run that still grows; `EndsInv` and
  `ReplyInv`: a handler takes the sender's closing, and nothing else, for the end
  of an upload while the daemon is up, and no refusal comes after the ingest has
  taken the end of the conn for success.
* **The encrypted file.** The reader opens a frame at its own position only. Two
  units behind a length it meets a ciphertext because the layout (`UnitsInv`, by
  the position modulo three) survives every fault (`StorageStep`), and that
  ciphertext is of a frame written in full, so what it hands out is the next
  chunk of the recording.

* **The reload.** Two things a signal sets going, each with its own invariant.
  `OneOwner` and `TeeInv` for the log: every open descriptor is held by exactly
  one of the teed file, the one just opened, and the two waiting to be closed, so
  that none is closed while lines still go to it, and the teed file is one
  rotation behind at most. `ChanInv` and `BackupInv` for the configuration: what
  was announced is in front of every older one, wherever in the pipeline of two
  channels it is, unless a full channel dropped it. `WarnsOfIgnored` is of the
  text alone: the sentinel that `Validate` gives each key differs from its
  default (`SentinelDiffers`), so a line that leaves it has no effect.
* **The reader of a sound file.** `Truth` says where the reader stands as long as
  nothing is damaged: at a frame's beginning or behind its length, with the
  counter of the frame that is there; so it is told the end, and only there.
* **The recorder's text.** `TextInv`: the events and the bytes held back are what
  was written, and no event ends inside a character (`Clean`), save the last one
  of a writer that has closed. One more event leaves the ends of the others
  (`EndsKept`); the event cut off ends before the character it would have torn
  (`CutClean`).
* **The keys.** `KeysAssumption` lists the forms of what is sent in one go
  (`InOneGo`: a sequence the parser knows, an Esc, or a sequence that goes on where
  the parser takes it to be over) and what each of them means; how many there are,
  which, and in what order is open. `Account` is what is read of a row of items:
  of each its share of the bytes, which an Esc in front makes smaller by one.
  `KeyInv` says how far the item that is coming has got (`Progress`; `Within` for
  the state, and of a CSI sequence the buffer, after n bytes of its head), and that
  the items in front of it have been read for their shares (`FeedItem`). An Esc
  with a key behind it that makes a sequence of the two (`Merged`) is left out: the
  terminal sends the same bytes for another key.
* **The views.** A step feeds one event to all three views or touches none
  (`StepFeeds`), so for each it is shown that what it makes of `d` and then of `e`
  is what it makes of `d \o e`. The command list (`ListedInv`) shows the same for a
  byte whatever event it is in (`ShownByte`). For tail's ring, `Holds` ties it to
  places in the output: its lines lie between them, the first is where the output
  begins or behind a line end, and no line end behind it is missing. A byte, a free
  slot, a full ring each keep that (`AddPlain`, `PushFree`, `PushFull`, where the
  start moves around the ring), and `RingTells` counts the line ends from there.
  The scrollback is a loop that may wait: a turn on `d` is the same turn on
  `d \o e` (`StepCarries`: a complete escape sequence stays what it is, `EscKept`),
  or it stops with the rest of a sequence, which the next chunk finds in front. The
  one exception is a CR at the end of `d` whose LF begins `e`: `ScrolledInv` is
  that the scrollback is the one of the output in one piece, or some two events
  part a line end (`CutsLineEnd`).
* **The player.** `Follows`: the screen holds the outputs in front of `idx`; each
  closure of the loop keeps it, since it either redraws from the start or goes on
  from `idx` (`InOrderParts`). For a jump that is not enough: that the outputs in
  front of `idx` are those up to the clock needs a recording whose times do not
  run backwards, which `sanitizeEvents` and `clampIdleGaps` make of whatever is in
  the file (`Sanitized`, `Clamped`: what was cut so far never exceeds an event's
  own time), and a clock that stays in `0..lastT` (`Timed`, `clampSeek`). `After`
  parts the events at the new time; going forward from a screen that is not ahead
  of its clock, and redrawing from any, both stop there (`ForwardExact`,
  `RenderExact`). `Jumps` is then shown of every key, click and overlay, and of the
  hold on the last frame, which moves the clock once more (`SettleJumps`).
* **The recap.** `PrefixOK` takes every beginning of the run at once: a copy that
  was cut reads as one of them, and a line more leaves the earlier ones alone.
  The sums of the recap do not depend on the order in which they are taken
  (`SumRemove`, `SumAdd`).
* **Prune.** `SpareInv`: what prune holds had been made, and nobody recorded it,
  when it was selected, and a recorder never takes up a recording that is there
  already (`O_EXCL`), so it is so until it is removed, whatever waits for the
  operator in between. The selection itself rests on the pid and start time of a
  recorder: its file was made no earlier than it started, and is read as
  `Misread` earlier than it was made, so a running one is active unless that and
  what the clock was set forward by exceed the slack.

* **Search.** `FoundInv` while the jobs are collected: they are in the order of the
  store, those of the users search is through with, and every recording that was
  there when it began is a job or its user is still to come. What is in the store
  stays, its headers come but do not go, and the lines that match only become more
  (`Adds`, `Grown`), so a recording that matched then matches when
  its worker scans it (`MatchesStill`), one that matched when it was scanned matches
  when the blocks are printed, and one whose header is missing at the scan had none
  before (`BlockOf`). The blocks are printed when every worker is
  done, in the order of the jobs: `FlatPicked` says what comes out of that.
* **Incoming.** `IncomingInv`: a user's sessions are on hand only while incoming is
  at that user (`Held`), so the runs printed so far are of users it is through
  with, each whole (`OutInv`), and a recorded execution belongs to a user to come,
  is on hand, or has its task in a run (`TurnInv`). What a user adds is `RunsAdded`,
  from `RunsSplit`: after the first k tasks the runs hold just these, and two are in
  one run unless a task between them begins one (`MadeOf`, kept by `MadeOfOneMore`,
  `CutWhereNoneFollows`). `RunsSplit` is of every order `Orders` allows, so what map
  the tasks came out of makes no difference. Where executions of a directory begin
  at the same time, any of them may give the task its module and result
  (`LastExecs`; there is one, by `EarliestExists`).
* **Tree.** `TreeInv`: a chunk that was there when tree began is loaded or still on
  its list, and what is loaded are spans. What is printed then is a matter of the
  algorithm alone, `buildSpanTree` and its rendering from the roots down to
  `MaxTreeDepth`. The list of children of a span holds each of its children once,
  wherever the sort puts it, since the places of a sort are one for each element
  (`RankPlaces`, `RankedAll`). So what is drawn below a span is, from the
  deepest level up, each span that hangs from it (`Under`) once, behind its own
  parent (`Drawn`, `BlockDrawn`); the roots are the spans without a known parent,
  and `Up` tells at which depth a span is, if it is at any (`AtDepth`).
* **Analysis.** `AnalysisInv` says only that the chunks are of the trace and what is
  loaded are spans of it; the rest is about the algorithms. *The order*: the
  places of two spans decide a comparison only if all else, the id included, is
  equal, so for spans with different ids the rank of each is the same after a
  swap, and each detector gets the same list (`OrderFree`). That is what the
  tie-break by id in `analyze.go` is for. *The output*: after each event the
  window holds the last `MaxOutputBytes` of what the events so far had in the
  failure's stretch, late by what the header leaves out of the beginning (`KeptMore`, `WindowKept`), and `truncated` says whether there was
  more. Reading stops early, behind the end of all failures; since the events are
  in the order of their times, nothing behind that place counts (`SeenIsAll`).
  `ToolsAssumption` has that order from `internal/analyze/correlate.go:76`; for a
  file that was edited by hand nothing is claimed.

Folds and recursive functions (`ParseRun`, `Results`, the sums, `groupIntoRuns`,
`FlattenSeq`, `renderTree`, the output window, the directory's names) have no rule of
induction here. That such a function exists
and what one step more adds is shown by a least counterexample in the natural
numbers (`Least`, `UpTo`), once per function or, where the function only steps
from one state to the next, by `Iteration`; the names `...Is`, `...Exists`,
`...Agree`, `...Append`, `...Turns` mark these lemmas.

Every invariant and every action property of the runs is stated by one of these
theorems, and so are the two refinements. What stays with TLC is liveness:
`RecorderNeverBlocked`, `HandlersFinish`, `LiveDelivery`, `SlotReturned`, `RunExits`,
`LoginNotBlocked`, `RunReturnsUnlessWedged`, `PlaybookFree`, `KeyServes` and
`PlaybackRests`. They rest on fairness and on ENABLED, which the prover does not
handle.

## 6. Where the code and its documentation part

Each of these is a statement a document or comment makes, or a reader would
expect, written down as a property at the end of its module; TLC refutes it. To
see one, name it as INVARIANT (or PROPERTY, for the temporal ones) in place of
those of the module's configuration.

| Property | Module | Statement | What happens |
|---|---|---|---|
| `AcknowledgementComes` | `AnsibleRun` | `internal/ansible/ingest.go:121` "Read daemon acknowledgement" | `sendToDaemon` reads a reply with its end open and no deadline, `handleAnsible` reads until that end closes and writes none: both stay until the daemon stops, and with them a session slot |
| `RunKept` | `AnsibleRun` | `README.md:38` "never silently loses a session" | several failures of `handleAnsible` close the conn without a line, which the ingest takes for success |
| `ShownWhole` | `AnsibleRun` | `commands.go:319` "Fall back to local dir when not found" | a cut copy in the central store hides the whole one in the user's directory |
| `FailuresCounted` | `AnsibleRun` | a failed task is in the recap | the plugin shows a failure that is ignored as failed, Ansible counts it as ok |
| `LatestBackupReceived` | `BackupReload` | `daemon.go:506` "the latest config will be received on next tick" | what is queued is the older one, the newer is dropped, and `prevBackup...` advances |
| `AnnouncedCapInForce` | `BackupReload` | `daemon.go:401-402` "an edited config takes effect without a daemon restart" | with a full reload channel the newer configuration is dropped |
| `EmptyDisablesLogging` | `BackupReload` | `config.go:46`, `README.md:520`: empty disables file logging | an empty value of a path is ignored |
| `PasswordNotReported` | `BackupReload` | `config.go:226` "so Validate never reports it" | the key is known, and its value reported as one without effect |
| `NeverSilentlyLost` | `Recorder` | `README.md:38` | the fallback is in `openSink` only; `pumpOutput` ignores every error, so a daemon that stops after its OK takes the rest with it |
| `TailKept` | `Recorder` | `record.go:302-305` "pumpOutput finishes on its own and records the last command's final bytes" | `drainGrace` also runs out when only the user's own terminal has kept the pump: `Run` then closes the master under it, and what was still in the PTY is lost with a sink that works |
| `RunReturns` | `Recorder` | `record.go:307-310` "so Run can never hang" | a pump blocked in a write to a hung daemon or a stalled terminal has no deadline, and `Run` waits for it |
| `NoSignalAfterReap` | `Recorder` | `record.go:245-246` "any later signal must be gated on childExited" | the flag is set after the reap and tested before the signal; both gaps are open for a moment |
| `LoggedOutWithShell` | `Recorder` | `ghostshell-autorec.sh:3-4` "logs out when the recorded shell exits" | a shell that ends with a non-zero status is followed by an unrecorded one |
| `UserGetsShell` | `Recorder` | `README.md:430` "fall through to a normal shell on any error" | the wrapper has exec'ed the recorder; when that cannot start, the command is not run |
| `ShutdownClosesEveryConn` | `Daemon` | `daemon.go:467-469` "force every in-flight handler connection closed" | a conn accepted just before the listener closed is tracked after `closeConns`; only the grace period ends `Run` |
| `SweptStaysStored` (with `Custom = Names = {n1}` and two recordings) | `LocalIngest` | `README.md:80` "a recording is never silently lost" | a name given with `-o` can be used again, and the second sweep replaces the first |
| `InProgressNotSwept` | `LocalIngest` | `daemon.go:1273-1276` "To avoid capturing a truncated in-progress recording" | an auto-generated name is the user's local time without a zone: for a user west of the daemon's zone, or after the clock was set forward by more than 5 seconds, `isActive` takes the recorder for another process with its pid, and a recording is swept while it is made, half of it shown and the rest lost with its source; with `Custom = Names`, a name given with `-o` tells `isActive` nothing |
| `FirstRunCreatesKey` | `KeyManagement` | `daemon.go:958` "creating it on first run" | a failed or interrupted first write leaves a short key file that every later start refuses |
| `RefusesWhileEncryptedExist` | `KeyManagement` | `README.md:388` "refuses to start if the key is missing while encrypted recordings exist" | encrypted Ansible runs and trace chunks do not count (`daemon.go:1071`) |
| `NeverInProgress` | `AuditTools` | `audit.go:811` "never prune an in-progress recording" | its recorder may be dead and the daemon still writing; a clock set forward, a root whose time zone is east of the daemon's (names have none), or a start in the hour that comes twice, makes running recorders look younger than their files |
| `SearchFindsPattern` | `AuditTools` | `audit.go:1133` "recordings whose output (or recorded command) contains the pattern" | each event is searched by itself: a pattern that two events share is not found |
| `UnreadableIsCorrupt` | `AuditTools` | `audit.go:1305` "so operators see corrupt recordings" | a recording that has just begun, whose header has not arrived, is "(unreadable)" too, although it need not match |
| `FailureOutputExact` | `AuditTools` | `internal/analyze/analyze.go:23` "the slice of pty output that was on screen while it ran" | the header has the second of the beginning, the events count from within it (`record.go:250`, `363`): output is taken up to a second too early, all of a short failure's may be missed |
| `TreeLosesNothing` | `AuditTools` | `audit.go:479` "stays visible rather than being silently lost" | spans that name each other as parents are printed nowhere |
| `ScrollbackSeesOneStream` | `Terminal` | the scrollback is that of the output | a line end cut between CR and LF erases its line |
| `RepliesSwallowed` | `Terminal` | `internal/play/input.go:47-50` "swallows every other escape sequence" | after `ESC P` the parser is at its start again: the text of a DCS reply (to XTVERSION, DECRQSS, DA3) is read as keys, and so is the rest of an X10 click and of a console's function key; an Esc takes the next key with it |
| `NothingEarly` | `Player` | nothing is shown before its time | a resize while an event is due shows it and leaves the clock behind |
| `HiddenBarLeavesTheRow` | `Player` | `play.go:604` "Hiding releases the reserved row" | leaving the scrollback reserves it again |
| `StdinReleased` | `Player` | `play.go:350` "can't steal a byte after we've quit" | the wait ends after 250 ms, a goroutine blocked on a full channel outlives it |
| `RowsAgree` | `Player` | `chapters.go:95` "Both agree on which chapter" | a click on the footer's row jumps to a command that is not shown |

Other statements stand in the modules beside those of the runs because they hold
and say less, or cost more to check than they add: the type invariants,
`NoGapNoOverlap` and `LiveIdsAreOpenSessions` (proved), `SilentClientReleased`
(`Daemon`), `OneHome` (`Recorder`, proved), `OthersStillSwept` (`LocalIngest`), `ThreeTimesQuits` (`Player`), `CommandEnds` (`AuditTools`), and
`CapNotHeldUp` (`BackupReload`; with `MaxEdits = 1` and `MaxRotations = 0`).

## 7. Validation of the properties

Every property of a passing run is broken by at least one plausible mistake in
a definition that models code; the pairs are under "mutants" in `PROJECT.json`
and the mistakes stand beside the definitions (`Lagging_offByOne` counts a
channel as full one late, `HandshakeFails_noDeadline` forgets the deadline,
`SyncDir_skipped` removes a source whose rename is not on disk, and so on).

## 8. What is not modelled, and why

* **Half-closed tail clients.** `handleTail` discards what a client sends and a
  client that closes its writing side only is taken for gone; the model has one
  notion of gone.
* **One home** in `LocalIngest`; homes are swept one after the other and share
  no file name but through the user's directory. `homeDirs` and `ingestible` are
  lookups.
* **Two daemons at once** on one store: the socket's bind excludes it.
* **Bytes of a frame**: the cipher is external; a frame opens under its own key,
  stream and counter or not at all. A unit that is cut is one that is missing,
  which `io.ReadFull` treats alike.
* **Calls on the store that fail without a reason the code could give**: the
  removal of a colliding recorder's new file (`daemon.go:665`, whose error is
  ignored: the file stays, empty), the close of a file opened for reading (where it
  matters, in `addTailer`, it is modelled).
* **Clocks and zones beyond what `isActive` compares.** A zone changes between the
  runs of a command, not within one; the hour that comes twice is the fold of a
  name's time and of a header's alike.
* **A local disk that blocks** (a home on a network): a user-local sink fails or
  takes the output.
* **`setImmutable`** is best effort and changes no contents.
* **The trace shim.** Which commands bash hands to a DEBUG and an EXIT trap is
  bash's behaviour, and a model of the shim would be one of bash; the reporter is
  one write of one line.
* **The player's drawing**: cell widths, the bar, the heal after a cursor save;
  `playLinear`, which only waits and prints.
* **Window size, raw mode, banner, colours, wording**: no property
  depends on them.
* **Status, export, completion, passwords, the backup command, packaging**:
  sequential code over files, or text; a test reaches it.
* **Init and sshd set-up** (`internal/initcmd`): run once by an administrator,
  step after step over files nobody else writes; whether it is undone properly
  hangs on sshd's own check, which is external.
* **The report for a language model** (`internal/ollama`): text.

## 9. Plan

1. Done: the modules above, their runs and the proofs of section 5.
2. Composition: `KeyManagement` with `LocalIngest` as the daemon's start, with
   the property that ties them: a swept recording stays decryptable.
3. If a model of bash's traps is at hand, the trace shim's pending span
   (`scripts/trace-shim.sh:206`).
