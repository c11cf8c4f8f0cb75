------------------------------ MODULE LocalIngest -----------------------------
(***************************************************************************)
(* The sweep of user-local recordings into the central store               *)
(* (internal/daemon/daemon.go: ingestHome, copyFile; internal/store:       *)
(* isActive, WriteFileAtomic) beside recorders that are still writing,     *)
(* daemons that stop at any point, and power losses.                       *)
(*                                                                         *)
(* One home.  A recording is the number of events its file holds; the      *)
(* recorder of an auto-named file is found through the pid in the name and *)
(* must not look younger than the time in the name, which is the user's    *)
(* local time, without its zone; a custom name (ghostshell rec -o) tells   *)
(* isActive nothing.  What is on the disk for good is kept beside what the *)
(* daemon sees: a power loss leaves either.                                *)
(***************************************************************************)
EXTENDS Integers, FiniteSets

CONSTANTS
  Recs,       \* local recordings
  Names,      \* file names in the user's spool
  Custom,     \* those that were given with -o
  MaxLen,     \* bound: events in a recording
  Zones,      \* how far users' local time is ahead of the daemon's
  Slack,      \* by how much a recorder may look younger than its file
  MaxShift,   \* bound: how far the clock is set forward
  None

ASSUME NamesAssumption == Custom \subseteq Names /\ None \notin Recs \union Names
ASSUME MaxLenAssumption == MaxLen \in Nat
ASSUME ClockAssumption == Zones \subseteq Int /\ Slack \in Nat /\ MaxShift \in Nat

VARIABLES
  name,       \* name[r]: the name recording r was given
  rec,        \* rec[r]: "new", "recording" or "over"
  len,        \* len[r]: events its recorder has written
  shift,      \* how far the clock has been set forward
  stamp,      \* stamp[r]: how far ahead the time in r's name is, as the daemon reads it
  local,      \* local[n]: the recording at that name in the spool
  central,    \* central[n]: what the central store shows under that name
  durable,    \* durable[n]: what a power loss may leave there
  tmp,        \* the temp file WriteFileAtomic writes
  pc,         \* control state of the ingest goroutine; "down" without a daemon
  entries,    \* directory entries still to be swept
  cur,        \* the entry at hand
  in,         \* the recording whose file is open
  startSize,  \* its size when it was opened
  due,        \* history: names over when the sweep began, and not failed since
  misdated,   \* history: recordings whose recorder has looked too young for them
  unsynced    \* history: names whose directory could not be synced after the rename

clockVars == <<shift, stamp, misdated>>
spoolVars == <<name, rec, len, local>>
storeVars == <<central, durable, tmp>>
sweepVars == <<entries, cur, in, startSize, due>>
vars == <<clockVars, spoolVars, storeVars, pc, sweepVars, unsynced>>

Files == [of : Recs, events : 0..MaxLen, synced : BOOLEAN]
Contents == Files \union {None}
ASSUME FilesAssumption == None \notin Files

\* An auto-generated name (time and pid) is used once.
GoodNames(f) == \A r, s \in Recs : r # s /\ f[r] = f[s] => f[r] \in Custom

Init ==
  /\ name \in {f \in [Recs -> Names] : GoodNames(f)}
  /\ rec = [r \in Recs |-> "new"]
  /\ len = [r \in Recs |-> 0]
  /\ shift = 0 /\ stamp = [r \in Recs |-> 0] /\ misdated = {}
  /\ local = [n \in Names |-> None]
  /\ central = [n \in Names |-> None]
  /\ durable = [n \in Names |-> None]
  /\ tmp = None
  /\ pc = "down"
  /\ entries = {} /\ due = {} /\ unsynced = {}
  /\ cur = None /\ in = None
  /\ startSize = 0

Going(next) == pc' = next

-----------------------------------------------------------------------------
(* Recorders that had to fall back, or were given -o.                       *)

\* The recorder of r looks younger than the time in its name allows.
TooYoung(r) == rec[r] = "recording" /\ shift - stamp[r] > Slack

\* A user takes a name that is free in the spool.  The time in it is read as if
\* it were the daemon's local time: in another zone (or, once a year, in an hour
\* that comes twice) it is another time.
Begin(r) ==
  /\ rec[r] = "new" /\ local[name[r]] = None
  /\ rec' = [rec EXCEPT ![r] = "recording"]
  /\ local' = [local EXCEPT ![name[r]] = r]
  /\ \E zone \in Zones : stamp' = [stamp EXCEPT ![r] = shift + zone]
  /\ UNCHANGED <<shift, name, len, storeVars, pc, sweepVars, unsynced>>
  /\ misdated' = IF TooYoung(r)' THEN misdated \cup {r} ELSE misdated

\* The start of a process is counted from the boot, the boot from the clock.
SetClock ==
  /\ \E later \in shift + 1 .. MaxShift : shift' = later
  /\ UNCHANGED <<stamp, spoolVars, storeVars, pc, sweepVars, unsynced>>
  /\ misdated' = misdated \cup {r \in Recs : TooYoung(r)'}

\* The recorder holds the file open: it writes whether or not it has a name.
Record(r) ==
  /\ rec[r] = "recording" /\ len[r] < MaxLen
  /\ len' = [len EXCEPT ![r] = @ + 1]
  /\ UNCHANGED <<clockVars, name, rec, local, storeVars, pc, sweepVars, unsynced>>

RecorderExits(r) ==
  /\ rec[r] = "recording"
  /\ rec' = [rec EXCEPT ![r] = "over"]
  /\ UNCHANGED <<clockVars, name, len, local, storeVars, pc, sweepVars, unsynced>>

\* isActive: the process the name gives away is there, and not too young; after
\* the recorder's end its pid may be another recorder's (reused).
IsActive(n, reused) ==
  /\ n \notin Custom
  /\ \/ \E r \in Recs : name[r] = n /\ rec[r] = "recording" /\ ~TooYoung(r)
     \/ reused /\ \A r \in Recs : name[r] = n => rec[r] # "recording"

-----------------------------------------------------------------------------
(* ingestHome and copyFile.                                                 *)

\* The daemon starts and reads the directory.
StartSweep ==
  /\ pc = "down"
  /\ entries' = {n \in Names : local[n] # None}
  /\ due' = {n \in Names : local[n] # None /\ rec[local[n]] = "over"}
  /\ Going("pick")
  /\ UNCHANGED <<clockVars, spoolVars, storeVars, cur, in, startSize, unsynced>>

Skip(n) ==
  /\ pc = "pick" /\ n \in entries
  /\ \E reused \in BOOLEAN : IsActive(n, reused)
  /\ entries' = entries \ {n}
  /\ due' = due \ {n}
  /\ UNCHANGED <<clockVars, spoolVars, storeVars, pc, cur, in, startSize, unsynced>>

\* Open the source and take its size; WriteFileAtomic creates its temp file.
OpenSource(n) ==
  /\ pc = "pick" /\ n \in entries
  /\ ~IsActive(n, FALSE)
  /\ entries' = entries \ {n}
  /\ cur' = n
  /\ in' = local[n]
  /\ startSize' = len[local[n]]
  /\ tmp' = [of |-> local[n], events |-> 0, synced |-> FALSE]
  /\ Going("copy")
  /\ UNCHANGED <<clockVars, spoolVars, central, durable, due, unsynced>>

\* io.Copy, up to the end of the file as it is then.
Copy ==
  /\ pc = "copy"
  /\ tmp' = [tmp EXCEPT !.events = len[in]]
  /\ Going("recheck")
  /\ UNCHANGED <<clockVars, spoolVars, central, durable, sweepVars, unsynced>>

\* The disk is full, or a call fails: the temp file is removed, the source
\* stays, and the next entry's turn comes.
CopyFails ==
  /\ pc \in {"copy", "sync", "rename"}
  /\ tmp' = None
  /\ due' = due \ {cur}
  /\ Going("pick")
  /\ UNCHANGED <<clockVars, spoolVars, central, durable, entries, cur, in, startSize, unsynced>>

\* Active again, or another size: not in this sweep.
Recheck ==
  /\ pc = "recheck"
  /\ \E reused \in BOOLEAN :
       IF IsActive(cur, reused) \/ len[in] # startSize
       THEN tmp' = None /\ due' = due \ {cur} /\ Going("pick")
       ELSE Going("sync") /\ UNCHANGED <<tmp, due>>
  /\ UNCHANGED <<clockVars, spoolVars, central, durable, entries, cur, in, startSize, unsynced>>

Sync_skipped ==
  /\ pc = "sync"
  /\ Going("rename")
  /\ UNCHANGED <<clockVars, spoolVars, storeVars, sweepVars, unsynced>>
Sync ==
  /\ pc = "sync"
  /\ tmp' = [tmp EXCEPT !.synced = TRUE]
  /\ Going("rename")
  /\ UNCHANGED <<clockVars, spoolVars, central, durable, sweepVars, unsynced>>

\* Whatever had the name is gone.
Rename ==
  /\ pc = "rename"
  /\ central' = [central EXCEPT ![cur] = tmp]
  /\ tmp' = None
  /\ Going("syncDir")
  /\ UNCHANGED <<clockVars, spoolVars, durable, sweepVars, unsynced>>

SyncDir_skipped ==
  /\ pc = "syncDir"
  /\ Going("remove")
  /\ UNCHANGED <<clockVars, spoolVars, storeVars, sweepVars, unsynced>>
\* A directory that cannot be opened or synced is passed over, and the source
\* is removed all the same.
SyncDir ==
  /\ pc = "syncDir"
  /\ \/ durable' = [durable EXCEPT ![cur] = central[cur]] /\ UNCHANGED unsynced
     \/ unsynced' = unsynced \cup {cur} /\ UNCHANGED durable
  /\ Going("remove")
  /\ UNCHANGED <<clockVars, spoolVars, central, tmp, sweepVars>>

\* os.Remove, by name.
RemoveSource ==
  /\ pc = "remove"
  /\ local' = [local EXCEPT ![cur] = None]
  /\ Going("pick")
  /\ UNCHANGED <<clockVars, name, rec, len, storeVars, sweepVars, unsynced>>

SweepEnds ==
  /\ pc = "pick" /\ entries = {}
  /\ Going("swept")
  /\ UNCHANGED <<clockVars, spoolVars, storeVars, sweepVars, unsynced>>

-----------------------------------------------------------------------------
(* Crashes.                                                                 *)

SweepForgotten ==
  /\ Going("down")
  /\ entries' = {} /\ due' = {}
  /\ cur' = None /\ in' = None
  /\ startSize' = 0
  /\ tmp' = None      \* a temp file left behind has a name nothing looks at

\* The daemon stops or is killed: what it has written stays.
DaemonStops ==
  /\ pc # "down"
  /\ SweepForgotten
  /\ UNCHANGED <<clockVars, spoolVars, central, durable, unsynced>>

\* The machine goes down: each name keeps what it showed or what was durable,
\* data that was never synced may be cut short, and every recorder is dead.
\* (The spool counts as durable: its loss would be no fault of the sweep.)
Cut(f, k) == IF f = None \/ f.synced \/ f.events <= k THEN f ELSE [f EXCEPT !.events = k]

PowerLoss ==
  /\ pc # "down"
  /\ \E lost \in SUBSET {n \in Names : durable[n] # central[n]}, k \in 0..MaxLen :
       /\ central' = [n \in Names |-> Cut(IF n \in lost THEN durable[n] ELSE central[n], k)]
       /\ durable' = central'
  /\ rec' = [r \in Recs |-> IF rec[r] = "recording" THEN "over" ELSE rec[r]]
  /\ SweepForgotten
  /\ UNCHANGED <<clockVars, name, len, local, unsynced>>
-----------------------------------------------------------------------------

SweepStep ==
  \/ StartSweep
  \/ \E n \in Names : Skip(n) \/ OpenSource(n)
  \/ Copy \/ CopyFails \/ Recheck \/ Sync \/ Rename \/ SyncDir \/ RemoveSource
  \/ SweepEnds

Next ==
  \/ \E r \in Recs : Begin(r) \/ Record(r) \/ RecorderExits(r)
  \/ SetClock
  \/ SweepStep
  \/ DaemonStops \/ PowerLoss

Spec == Init /\ [][Next]_vars
-----------------------------------------------------------------------------
(* What must hold.                                                          *)

PcStates == {"down", "pick", "copy", "recheck", "sync", "rename", "syncDir", "remove", "swept"}

TypeOK ==
  /\ name \in [Recs -> Names]
  /\ rec \in [Recs -> {"new", "recording", "over"}]
  /\ len \in [Recs -> 0..MaxLen]
  /\ shift \in 0..MaxShift /\ stamp \in [Recs -> Int] /\ misdated \subseteq Recs
  /\ local \in [Names -> Recs \union {None}]
  /\ central \in [Names -> Contents]
  /\ durable \in [Names -> Contents]
  /\ tmp \in Contents
  /\ pc \in PcStates
  /\ tmp # None <=> pc \in {"copy", "recheck", "sync", "rename"}
  /\ entries \subseteq Names
  /\ cur \in Names \union {None}
  /\ in \in Recs \union {None}
  /\ startSize \in 0..MaxLen
  /\ due \subseteq Names /\ unsynced \subseteq Names

Whole(f) == f # None /\ rec[f.of] = "over" /\ f.events = len[f.of]

\* What the central store shows, now or after a power loss, is a recording
\* that is over, from its first event to its last ("must never become visible
\* under its real name until it is complete and durable", store.go:214), unless
\* its recorder has looked younger than its name: no other is let in half.
NothingHalfVisible ==
  \A n \in Names : \A f \in {central[n], durable[n]} :
    f # None /\ f.of \notin misdated => Whole(f)

\* A recording whose source was removed is in the central store, whole, and
\* would be there after a power loss, whatever stops at whatever point.  Only
\* where the directory could not be synced may a power loss take it, and only of
\* one whose recorder looked too young may the end be missing.
StoredBeforeRemoved ==
  \A r \in Recs : rec[r] # "new" /\ local[name[r]] # r =>
    \A f \in {central[name[r]], durable[name[r]]} :
      \/ f # None /\ f.of = r /\ (r \in misdated \/ Whole(f))
      \/ name[r] \in unsynced /\ durable[name[r]] = None

\* One file that cannot be copied does not cost the others their turn: after
\* a sweep every recording that was over when it began, and whose own copy
\* did not fail, is in the central store.
OthersStillSwept ==
  pc = "swept" => \A n \in due : central[n] # None /\ local[n] = None

-----------------------------------------------------------------------------
(* What the documentation says and the code does not do; TLC refutes each    *)
(* (README, "Where the code and its documentation part").                    *)

\* "To avoid capturing a truncated in-progress recording" (copyFile): a source
\* is removed only once its recorder is gone.  Refuted for an auto-named file
\* whose user's zone is west of the daemon's, or whose recorder was running when
\* the clock was set forward, and, with Custom = Names, for a name of the user's.
InProgressNotSwept ==
  [][\A r \in Recs : local[name[r]] = r /\ local'[name[r]] # r => rec[r] = "over"]_vars

\* "a recording is never silently lost" (README): a sweep adds to the central
\* store and takes nothing out of it.  Refuted for Custom = Names = {n1} and two
\* recordings, the second of which gets the name of the first.
SweptStaysStored ==
  [][\A n \in Names : central[n] # None /\ pc' # "down" =>
       central'[n] # None /\ central'[n].of = central[n].of]_vars
=============================================================================
