------------------------------- MODULE Daemon -------------------------------
(***************************************************************************)
(* ghostshell-daemon's connection handling (internal/daemon/daemon.go:     *)
(* registry, Run, handle, handleRec, handleTail, handleAnsible,            *)
(* handleSpan): who may open a recording, which file it goes to, what the  *)
(* registry says of it, and how the daemon shuts down.                     *)
(*                                                                         *)
(* Processes: one handler goroutine per connection (pc[c]), the accept     *)
(* loop and wait of Run (run), the goroutine Run starts to shut down (sd), *)
(* and the clients, who ask and hang up when they like.  A critical       *)
(* section of reg.mu or reg.connMu is one step.  What flows through a      *)
(* session once it is open is module LiveSession; a handler that streams   *)
(* has one state here.                                                     *)
(***************************************************************************)
EXTENDS Naturals, FiniteSets

CONSTANTS
  Conns,       \* connections, in the order nobody controls
  Uids, Root,  \* peer uids (SO_PEERCRED), and uid 0
  Names,       \* session, run and trace-chunk ids
  Requests,    \* what a client may ask: [kind, uid, name]
  Caps,        \* values session_cap takes, at start and on reload
  None

Kinds == {"REC", "TAIL", "ANSIBLE", "SPAN", "BAD"}

ASSUME ConnsAssumption == IsFiniteSet(Conns)
ASSUME NoneAssumption == None \notin Conns \union {"OK", "ERR"}
ASSUME RootAssumption == Root \in Uids
ASSUME RequestsAssumption == Requests \subseteq [kind : Kinds, uid : Uids, name : Names]
ASSUME CapsAssumption == Caps \subseteq Nat /\ Caps # {}

VARIABLES
  pc,         \* pc[c]: control state of c's handler
  req,        \* req[c]: what c's client asks
  gone,       \* gone[c]: c's client has closed its end
  connOpen,   \* connOpen[c]: the daemon has not closed its end
  reply,      \* reply[c]: the line the handler wrote to c
  target,     \* target[c]: the session tailer c got from registry.get
  connCount,  \* registry.connCount, 0 for an absent uid
  cap,        \* registry.cap
  live,       \* registry.live: the handler whose session has the id
  conns,      \* registry.conns
  owner,      \* owner[p]: the handler whose file is at the path of request p
  run,        \* control state of Run
  sd          \* control state of the goroutine that waits for ctx.Done

clientVars == <<req, gone>>
regVars == <<connCount, cap, live, conns>>
runVars == <<run, sd>>
vars == <<pc, clientVars, connOpen, reply, target, regVars, owner, runVars>>

PcStates == {"none", "backlog", "spawned", "handshake", "reserve", "open", "writer",
             "add", "ack", "stream", "close", "await", "unregister", "release",
             "lookup", "register", "tail", "leave", "end"}

\* Handlers between reserve and release, and recorders whose id is in live.
SlotStates == {"open", "writer", "add", "ack", "stream", "close", "await", "unregister", "release"}
LiveStates == {"ack", "stream", "close", "await", "unregister"}
HoldsSlot(c) == pc[c] \in SlotStates
IsLive(c) == req[c].kind = "REC" /\ pc[c] \in LiveStates

\* Handlers Run's WaitGroup counts, and those of them that are tracked.
Running(c) == pc[c] \notin {"none", "backlog", "end"}
Tracked(c) == Running(c) /\ pc[c] # "spawned"

\* The process is there: nothing runs after Run has returned to main.
Up == run \in {"accept", "wait"}

Init ==
  /\ pc = [c \in Conns |-> "none"]
  /\ req \in [Conns -> Requests]
  /\ gone = [c \in Conns |-> FALSE]
  /\ connOpen = [c \in Conns |-> TRUE]
  /\ reply = [c \in Conns |-> None]
  /\ target = [c \in Conns |-> None]
  /\ connCount = [u \in Uids |-> 0]
  /\ cap \in Caps
  /\ live = [i \in Names |-> None]
  /\ conns = {}
  /\ owner = [p \in Requests |-> None]
  /\ run = "accept"
  /\ sd = "waiting"

Goto(c, next) == pc' = [pc EXCEPT ![c] = next]
Say(c, line) == reply' = [reply EXCEPT ![c] = line]

-----------------------------------------------------------------------------
(* Clients.                                                                 *)

\* The connection waits in the listener's backlog.
Connect(c) ==
  /\ pc[c] = "none" /\ sd \in {"waiting", "cancelled"}
  /\ Goto(c, "backlog")
  /\ UNCHANGED <<clientVars, connOpen, reply, target, regVars, owner, runVars>>

\* The client closes its end: its recording or upload is over, or it died.
HangUp(c) ==
  /\ pc[c] # "none" /\ ~gone[c]
  /\ gone' = [gone EXCEPT ![c] = TRUE]
  /\ UNCHANGED <<pc, req, connOpen, reply, target, regVars, owner, runVars>>

-----------------------------------------------------------------------------
(* handle: track the conn, read the command line, dispatch.                 *)

\* The accept loop hands the conn to a goroutine the WaitGroup counts.
Accept(c) ==
  /\ run = "accept" /\ sd \in {"waiting", "cancelled"}
  /\ pc[c] = "backlog"
  /\ Goto(c, "spawned")
  /\ UNCHANGED <<clientVars, connOpen, reply, target, regVars, owner, runVars>>

TrackConn(c) ==
  /\ pc[c] = "spawned"
  /\ conns' = conns \union {c}
  /\ Goto(c, "handshake")
  /\ UNCHANGED <<clientVars, connOpen, reply, target, connCount, cap, live, owner, runVars>>

\* The handshake deadline passes, the client hangs up or the conn is closed
\* before a line is read, or there are no peer credentials.
HandshakeFails(c) ==
  /\ pc[c] = "handshake"
  /\ Goto(c, "leave")
  /\ UNCHANGED <<clientVars, connOpen, reply, target, regVars, owner, runVars>>

\* An unknown command, an invalid run or trace id, a tail that is not root's.
Refused(r) == r.kind = "BAD" \/ (r.kind = "TAIL" /\ r.uid # Root)

\* The client has sent a line, and may have hung up since.
Dispatch(c) ==
  /\ pc[c] = "handshake" /\ connOpen[c]
  /\ IF Refused(req[c])
     THEN Say(c, "ERR") /\ Goto(c, "leave")
     ELSE Goto(c, IF req[c].kind = "TAIL" THEN "lookup" ELSE "reserve") /\ UNCHANGED reply
  /\ UNCHANGED <<clientVars, connOpen, target, regVars, owner, runVars>>

\* The deferred conn.Close and untrackConn.
Leave_keepsTracked(c) ==
  /\ pc[c] = "leave"
  /\ connOpen' = [connOpen EXCEPT ![c] = FALSE]
  /\ Goto(c, "end")
  /\ UNCHANGED <<clientVars, reply, target, regVars, owner, runVars>>
Leave(c) ==
  /\ pc[c] = "leave"
  /\ connOpen' = [connOpen EXCEPT ![c] = FALSE]
  /\ conns' = conns \ {c}
  /\ Goto(c, "end")
  /\ UNCHANGED <<clientVars, reply, target, connCount, cap, live, owner, runVars>>

-----------------------------------------------------------------------------
(* handleRec, handleAnsible, handleSpan.                                    *)

\* reserve, or "ERR too many sessions".
Reserve_late(c) ==
  /\ pc[c] = "reserve"
  /\ connCount[req[c].uid] <= cap
  /\ connCount' = [connCount EXCEPT ![req[c].uid] = @ + 1]
  /\ Goto(c, "open")
  /\ UNCHANGED <<clientVars, connOpen, reply, target, cap, live, conns, owner, runVars>>
Reserve(c) ==
  /\ pc[c] = "reserve"
  /\ connCount[req[c].uid] < cap
  /\ connCount' = [connCount EXCEPT ![req[c].uid] = @ + 1]
  /\ Goto(c, "open")
  /\ UNCHANGED <<clientVars, connOpen, reply, target, cap, live, conns, owner, runVars>>

TooMany(c) ==
  /\ pc[c] = "reserve"
  /\ connCount[req[c].uid] >= cap
  /\ Say(c, "ERR")
  /\ Goto(c, "leave")
  /\ UNCHANGED <<clientVars, connOpen, target, regVars, owner, runVars>>

\* O_CREATE|O_EXCL: only an absent file is opened.
OpenFile_truncates(c) ==
  /\ pc[c] = "open"
  /\ owner' = [owner EXCEPT ![req[c]] = c]
  /\ Goto(c, "writer")
  /\ UNCHANGED <<clientVars, connOpen, reply, target, regVars, runVars>>
OpenFile(c) ==
  /\ pc[c] = "open" /\ owner[req[c]] = None
  /\ owner' = [owner EXCEPT ![req[c]] = c]
  /\ Goto(c, "writer")
  /\ UNCHANGED <<clientVars, connOpen, reply, target, regVars, runVars>>

\* The directory cannot be made (no reply), the file exists or the open fails.
OpenFails(c) ==
  /\ pc[c] = "open"
  /\ Say(c, "ERR") \/ (owner[req[c]] = None /\ UNCHANGED reply)
  /\ Goto(c, "release")
  /\ UNCHANGED <<clientVars, connOpen, target, regVars, owner, runVars>>

\* crypto.NewWriter writes the file's header; when it fails the file stays.
NewWriter(c) ==
  /\ pc[c] = "writer"
  /\ Goto(c, IF req[c].kind = "REC" THEN "add" ELSE "stream")
  /\ UNCHANGED <<clientVars, connOpen, reply, target, regVars, owner, runVars>>

NewWriterFails(c) ==
  /\ pc[c] = "writer"
  /\ Goto(c, "release")
  /\ UNCHANGED <<clientVars, connOpen, reply, target, regVars, owner, runVars>>

\* registry.add does not overwrite a live id.
Add(c) ==
  /\ pc[c] = "add" /\ live[req[c].name] = None
  /\ live' = [live EXCEPT ![req[c].name] = c]
  /\ Goto(c, "ack")
  /\ UNCHANGED <<clientVars, connOpen, reply, target, connCount, cap, conns, owner, runVars>>

\* An id already live: the newcomer's file is removed.
Collide_keepsFile(c) ==
  /\ pc[c] = "add" /\ live[req[c].name] # None
  /\ Say(c, "ERR")
  /\ Goto(c, "release")
  /\ UNCHANGED <<clientVars, connOpen, target, regVars, owner, runVars>>
Collide(c) ==
  /\ pc[c] = "add" /\ live[req[c].name] # None
  /\ owner' = [owner EXCEPT ![req[c]] = None]
  /\ Say(c, "ERR")
  /\ Goto(c, "release")
  /\ UNCHANGED <<clientVars, connOpen, target, regVars, runVars>>

\* The write of "OK\n", which may fail once the recorder is gone or the conn
\* has been closed.
Ack(c) ==
  /\ pc[c] = "ack"
  /\ \/ connOpen[c] /\ ~gone[c] /\ Say(c, "OK") /\ Goto(c, "stream")
     \/ (~connOpen[c] \/ gone[c]) /\ Goto(c, "close") /\ UNCHANGED reply
  /\ UNCHANGED <<clientVars, connOpen, target, regVars, owner, runVars>>

\* The stream is over: end of file, a closed conn.
AfterStream(c) == IF req[c].kind = "REC" THEN "close" ELSE "release"
StreamEnds(c) ==
  /\ pc[c] = "stream" /\ (gone[c] \/ ~connOpen[c])
  /\ Goto(c, AfterStream(c))
  /\ UNCHANGED <<clientVars, connOpen, reply, target, regVars, owner, runVars>>

\* A write to the file fails.
StreamFails(c) ==
  /\ pc[c] = "stream"
  /\ Goto(c, AfterStream(c))
  /\ UNCHANGED <<clientVars, connOpen, reply, target, regVars, owner, runVars>>

\* session.close: close the conn of every tailer, then wait for their drains.
TailersOf(c) == {t \in Conns : target[t] = c /\ pc[t] = "tail"}

CloseSession_waitsOnly(c) ==
  /\ pc[c] = "close"
  /\ Goto(c, "await")
  /\ UNCHANGED <<clientVars, connOpen, reply, target, regVars, owner, runVars>>
CloseSession(c) ==
  /\ pc[c] = "close"
  /\ connOpen' = [t \in Conns |-> connOpen[t] /\ t \notin TailersOf(c)]
  /\ Goto(c, "await")
  /\ UNCHANGED <<clientVars, reply, target, regVars, owner, runVars>>

AwaitTailers(c) ==
  /\ pc[c] = "await" /\ TailersOf(c) = {}
  /\ Goto(c, "unregister")
  /\ UNCHANGED <<clientVars, connOpen, reply, target, regVars, owner, runVars>>

\* registry.remove.
Unregister(c) ==
  /\ pc[c] = "unregister"
  /\ live' = [live EXCEPT ![req[c].name] = None]
  /\ Goto(c, "release")
  /\ UNCHANGED <<clientVars, connOpen, reply, target, connCount, cap, conns, owner, runVars>>

\* registry.release: the entry is deleted with the last slot.
Released_deletes(n) == 0
Released(n) == IF n > 1 THEN n - 1 ELSE 0
Release(c) ==
  /\ pc[c] = "release"
  /\ connCount' = [connCount EXCEPT ![req[c].uid] = Released(@)]
  /\ Goto(c, "leave")
  /\ UNCHANGED <<clientVars, connOpen, reply, target, cap, live, conns, owner, runVars>>

-----------------------------------------------------------------------------
(* handleTail.                                                              *)

Lookup(c) ==
  /\ pc[c] = "lookup"
  /\ IF live[req[c].name] = None
     THEN Say(c, "ERR") /\ Goto(c, "leave") /\ UNCHANGED target
     ELSE /\ target' = [target EXCEPT ![c] = live[req[c].name]]
          /\ Goto(c, "register")
          /\ UNCHANGED reply
  /\ UNCHANGED <<clientVars, connOpen, regVars, owner, runVars>>

\* session.register: a session already closing turns the tailer away.
SessionDone(s) == pc[s] \in {"await", "unregister", "release", "leave", "end"}
RegisterTailer(c) ==
  /\ pc[c] = "register"
  /\ Goto(c, IF SessionDone(target[c]) THEN "leave" ELSE "tail")
  /\ UNCHANGED <<clientVars, connOpen, reply, target, regVars, owner, runVars>>

\* A tailer that lags has its conn closed by session.write.
DropTailer(c) ==
  /\ pc[c] = "tail" /\ pc[target[c]] = "stream"
  /\ connOpen' = [connOpen EXCEPT ![c] = FALSE]
  /\ UNCHANGED <<pc, clientVars, reply, target, regVars, owner, runVars>>

TailEnds(c) ==
  /\ pc[c] = "tail" /\ (gone[c] \/ ~connOpen[c])
  /\ Goto(c, "leave")
  /\ UNCHANGED <<clientVars, connOpen, reply, target, regVars, owner, runVars>>

-----------------------------------------------------------------------------
(* Run: reload, shutdown, exit.                                             *)

\* A reloaded session_cap; recordings above a lowered cap go on.
SetCap(n) ==
  /\ n # cap
  /\ cap' = n
  /\ UNCHANGED <<pc, clientVars, connOpen, reply, target, connCount, live, conns, owner, runVars>>

\* SIGTERM or SIGINT cancels ctx.
Cancel ==
  /\ sd = "waiting"
  /\ sd' = "cancelled"
  /\ UNCHANGED <<pc, clientVars, connOpen, reply, target, regVars, owner, run>>

\* ln.Close: whoever is still in the backlog is turned away by the kernel.
CloseListener ==
  /\ sd = "cancelled"
  /\ sd' = "closeConns"
  /\ pc' = [c \in Conns |-> IF pc[c] = "backlog" THEN "end" ELSE pc[c]]
  /\ UNCHANGED <<clientVars, connOpen, reply, target, regVars, owner, run>>

CloseConns ==
  /\ sd = "closeConns"
  /\ connOpen' = [c \in Conns |-> connOpen[c] /\ c \notin conns]
  /\ sd' = "done"
  /\ UNCHANGED <<pc, clientVars, reply, target, regVars, owner, run>>

\* Accept fails once ctx is cancelled: the listener is closed.
AcceptFails ==
  /\ run = "accept" /\ sd # "waiting"
  /\ run' = "wait"
  /\ UNCHANGED <<pc, clientVars, connOpen, reply, target, regVars, owner, sd>>

\* Accept fails for good while the daemon serves: Run returns at once.
AcceptFatal ==
  /\ run = "accept" /\ sd = "waiting"
  /\ run' = "fatal"
  /\ UNCHANGED <<pc, clientVars, connOpen, reply, target, regVars, owner, sd>>

\* wg.Wait returns: every handler has returned.  (The ingest goroutine, counted
\* too, only makes it later.)
AllDone ==
  /\ run = "wait"
  /\ \A c \in Conns : ~Running(c)
  /\ run' = "clean"
  /\ UNCHANGED <<pc, clientVars, connOpen, reply, target, regVars, owner, sd>>

\* The grace period is over and handlers or the ingest still run.
GraceElapses_never == FALSE /\ UNCHANGED vars
GraceElapses ==
  /\ run = "wait"
  /\ run' = "grace"
  /\ UNCHANGED <<pc, clientVars, connOpen, reply, target, regVars, owner, sd>>
-----------------------------------------------------------------------------

\* The steps a handler takes by itself, and those somebody must cause.
HandlerStep(c) ==
  \/ TrackConn(c) \/ HandshakeFails(c) \/ Leave(c)
  \/ Reserve(c) \/ TooMany(c) \/ OpenFile(c) \/ OpenFails(c)
  \/ NewWriter(c) \/ NewWriterFails(c) \/ Add(c) \/ Collide(c) \/ Ack(c)
  \/ StreamEnds(c) \/ CloseSession(c) \/ AwaitTailers(c)
  \/ Unregister(c) \/ Release(c)
  \/ Lookup(c) \/ RegisterTailer(c) \/ TailEnds(c)

Environment(c) ==
  Connect(c) \/ Dispatch(c) \/ HangUp(c) \/ Accept(c) \/ StreamFails(c) \/ DropTailer(c)

Shutdown == CloseListener \/ CloseConns \/ AcceptFails \/ AllDone \/ GraceElapses

Next ==
  /\ Up
  /\ \/ \E c \in Conns : HandlerStep(c) \/ Environment(c)
     \/ \E n \in Caps : SetCap(n)
     \/ Cancel \/ AcceptFatal \/ Shutdown

Spec == Init /\ [][Next]_vars

\* Goroutines that can run do; nothing is assumed of clients, of the accept
\* loop while the daemon serves, or of the disk.
FairSpec ==
  /\ Spec
  /\ \A c \in Conns : WF_vars(Up /\ HandlerStep(c))
  /\ WF_vars(Up /\ Shutdown)
-----------------------------------------------------------------------------
(* What must hold.                                                          *)

TypeOK ==
  /\ pc \in [Conns -> PcStates]
  /\ req \in [Conns -> Requests]
  /\ gone \in [Conns -> BOOLEAN]
  /\ connOpen \in [Conns -> BOOLEAN]
  /\ reply \in [Conns -> {"OK", "ERR", None}]
  /\ target \in [Conns -> Conns \union {None}]
  /\ \A c \in Conns : pc[c] \in {"register", "tail"} => target[c] # None
  /\ connCount \in [Uids -> Nat]
  /\ cap \in Caps
  /\ live \in [Names -> Conns \union {None}]
  /\ conns \subseteq Conns
  /\ owner \in [Requests -> Conns \union {None}]
  /\ run \in {"accept", "wait", "fatal", "clean", "grace"}
  /\ sd \in {"waiting", "cancelled", "closeConns", "done"}

\* A uid's count is the number of its handlers between reserve and release,
\* on every path out of a handler: a leaked slot locks the user out, a slot
\* released twice opens the cap.
SlotHolders(u) == {c \in Conns : HoldsSlot(c) /\ req[c].uid = u}
SlotsAccountedFor == \A u \in Uids : connCount[u] = Cardinality(SlotHolders(u))

\* A user gets one more recording, run or report only below the cap in force.
CapHonoured ==
  [][\A u \in Uids : SlotHolders(u)' \ SlotHolders(u) # {} =>
       Cardinality(SlotHolders(u)') <= cap]_vars

\* registry.live and the recording handlers agree both ways: an id leads a
\* tailer to the one session that has it, and a session stays findable until
\* it is closed, whoever else asks for its id ("orphan its file handle and
\* subscribers", the comment of add).
LiveIdsAreOpenSessions ==
  /\ \A c \in Conns : IsLive(c) => live[req[c].name] = c
  /\ \A i \in Names : live[i] # None => IsLive(live[i]) /\ req[live[i]].name = i

\* A file, once somebody's, is never given to somebody else, and disappears
\* only with the rejection of the handler that made it, before it was told OK.
StoredNeverClobbered ==
  [][\A p \in Requests : owner[p] # None =>
       \/ owner'[p] = owner[p]
       \/ owner'[p] = None /\ reply[owner[p]] = None /\ reply'[owner[p]] = "ERR"]_vars

\* What the client was told is what happened to its data: OK means its own
\* file exists, ERR that nothing of it was left in the store.
ReplyTellsStorage ==
  \A c \in Conns :
    /\ reply[c] = "OK" => owner[req[c]] = c
    /\ reply[c] = "ERR" => \A p \in Requests : owner[p] # c

\* When Run returns because everything is done, nothing is left behind: no
\* live id, no slot, no tracked conn, and no conn open that was ever answered.
CleanExit ==
  run = "clean" =>
    /\ conns = {}
    /\ \A u \in Uids : connCount[u] = 0
    /\ \A i \in Names : live[i] = None
    /\ \A c \in Conns : reply[c] # None => ~connOpen[c]

\* A client that connects and says nothing does not hold its handler.
SilentClientReleased ==
  \A c \in Conns : (pc[c] = "spawned") ~> (pc[c] \notin {"spawned", "handshake"} \/ ~Up)

\* A user whose recorder or upload has ended gets the slot back, tailers of
\* the session or not.
SlotReturned ==
  \A c \in Conns : (HoldsSlot(c) /\ gone[c]) ~> (~HoldsSlot(c) \/ ~Up)

\* Shutdown ends, whatever the clients do.
RunExits == (sd = "cancelled") ~> ~Up
-----------------------------------------------------------------------------
(* What the documentation says and the code does not do; TLC refutes each    *)
(* (README, "Where the code and its documentation part").                    *)

\* "then force every in-flight handler connection closed" (daemon.go:467):
\* once the shutdown goroutine is through and Run waits, no handler that
\* talks to its client still has an open conn.
ShutdownClosesEveryConn ==
  sd = "done" /\ run = "wait" => \A c \in Conns : Tracked(c) => ~connOpen[c]
=============================================================================
