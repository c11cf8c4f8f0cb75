------------------------- MODULE LocalIngest_proofs -------------------------
(***************************************************************************)
(* Nothing half-written shows and nothing is lost by the sweep, for any    *)
(* number of recordings of any length, when every name is one the recorder *)
(* generated (Custom = {}: a name is used once and gives the pid away) and *)
(* the recorder of the file at hand never looked younger than its name.    *)
(*                                                                         *)
(* Neither invariant is inductive: that what is renamed into the store is  *)
(* a whole recording rests on what the sweep has found out about the file  *)
(* at hand, step by step, and that its removal is safe on the store        *)
(* showing, and keeping, nothing but the recording of that name.           *)
(***************************************************************************)
EXTENDS LocalIngest, TLAPS

\* A name in the spool is of the recording it was given to; the entries still
\* to be swept are all there.
SpoolInv ==
  /\ \A r, s \in Recs : name[r] = name[s] => r = s
  /\ \A n \in Names : local[n] # None => name[local[n]] = n /\ rec[local[n]] # "new"
  /\ \A n \in entries : local[n] # None

\* A recorder that looks too young has been seen to.
DateInv == \A r \in Recs : TooYoung(r) => r \in misdated

\* What the sweep knows of the file at hand when it gets there.
SweepInv ==
  /\ pc \in {"copy", "recheck", "sync", "rename", "syncDir", "remove"} =>
       /\ cur \in Names \ entries /\ in \in Recs /\ in = local[cur]
       /\ rec[in] = "over" \/ in \in misdated
  /\ pc \in {"copy", "recheck", "sync", "rename"} => tmp.of = in
  /\ pc \in {"recheck", "sync", "rename"} => tmp.events = len[in] \/ in \in misdated
  /\ pc = "rename" => tmp.synced
  /\ pc \in {"syncDir", "remove"} => central[cur] # None
  /\ pc = "remove" => durable[cur] = central[cur] \/ cur \in unsynced

\* What the store shows under a name, or may show after a power loss, is the
\* recording with that name, whole unless it is misdated; and of one that is not,
\* nothing but what the store shows is durable.
Stored(n, f) ==
  f # None => (Whole(f) \/ f.of \in misdated) /\ f.synced /\ name[f.of] = n
StoreInv ==
  \A n \in Names :
    /\ Stored(n, central[n]) /\ Stored(n, durable[n])
    /\ durable[n] \in {None, central[n]} \/ \E r \in misdated : name[r] = n

IInv == TypeOK /\ SpoolInv /\ DateInv /\ SweepInv /\ StoreInv /\ StoredBeforeRemoved
-----------------------------------------------------------------------------
LEMMA FileEquality ==
  \A f, g \in Files : f.of = g.of /\ f.events = g.events /\ f.synced = g.synced => f = g
BY DEF Files

\* A synced file is not cut.
LEMMA CutKeepsSynced == \A f \in Contents, k \in 0..MaxLen : f = None \/ f.synced => Cut(f, k) = f
BY DEF Cut

\* A file stays one when it is synced.
LEMMA SyncedFile == \A f \in Files : [f EXCEPT !.synced = TRUE] \in Files
BY DEF Files

LEMMA InitInv == Custom = {} /\ Init => IInv
BY NamesAssumption, MaxLenAssumption, ClockAssumption, FilesAssumption
   DEF Init, GoodNames, IInv, TypeOK, SpoolInv, DateInv, TooYoung, SweepInv, StoreInv, Stored,
       StoredBeforeRemoved, Contents, PcStates

\* The types.
LEMMA TypeStep == Custom = {} /\ IInv /\ [Next]_vars => TypeOK'
<1> SUFFICES ASSUME Custom = {}, IInv, [Next]_vars PROVE TypeOK'
  OBVIOUS
<1> USE NamesAssumption, MaxLenAssumption, ClockAssumption, FilesAssumption
      DEF IInv, SpoolInv, SweepInv, PcStates, TypeOK, Contents, Going, clockVars, spoolVars, storeVars, sweepVars, SweepForgotten
<1>1. ASSUME NEW r \in Recs, Begin(r) PROVE TypeOK'
  <2>1. stamp' \in [Recs -> Int] /\ misdated' \subseteq Recs
    <3>1. PICK zone \in Zones : stamp' = [stamp EXCEPT ![r] = shift + zone]
      BY <1>1 DEF Begin
    <3>2. shift + zone \in Int /\ stamp \in [Recs -> Int] /\ misdated \subseteq Recs
      BY ClockAssumption
    <3>3. misdated' \in {misdated \cup {r}, misdated}
      BY <1>1 DEF Begin
    <3> QED
      BY <3>1, <3>2, <3>3
  <2>2. /\ rec' \in [Recs -> {"new", "recording", "over"}] /\ local' \in [Names -> Recs \union {None}]
        /\ UNCHANGED <<shift, name, len, storeVars, pc, sweepVars, unsynced>>
    BY <1>1 DEF Begin
  <2> QED
    BY <2>1, <2>2
<1>2. ASSUME NEW r \in Recs, Record(r) PROVE TypeOK'
  BY <1>2 DEF Record
<1>3. ASSUME NEW r \in Recs, RecorderExits(r) PROVE TypeOK'
  BY <1>3 DEF RecorderExits
<1>4. CASE StartSweep BY <1>4 DEF StartSweep
<1>5. ASSUME NEW n \in Names, Skip(n) PROVE TypeOK'
  BY <1>5 DEF Skip
<1>6. ASSUME NEW n \in Names, OpenSource(n) PROVE TypeOK'
  <2>1. local[n] \in Recs /\ len[local[n]] \in 0..MaxLen
    BY <1>6 DEF OpenSource
  <2>2. tmp' = [of |-> local[n], events |-> 0, synced |-> FALSE] /\ 0 \in 0..MaxLen
    BY <1>6 DEF OpenSource
  <2>3. tmp' \in Files /\ tmp' # None
    <3>1. [of |-> local[n], events |-> 0, synced |-> FALSE] \in Files
      BY <2>1, <2>2 DEF Files
    <3> QED
      BY <3>1, <2>2, FilesAssumption
  <2> QED
    BY <1>6, <2>1, <2>3 DEF OpenSource
<1>7. CASE Copy BY <1>7 DEF Copy, Files
<1>8. CASE CopyFails BY <1>8 DEF CopyFails
<1>9. CASE Recheck BY <1>9 DEF Recheck
<1>10. CASE Sync
  <2>1. tmp \in Files
    BY <1>10 DEF Sync
  <2>2. tmp' \in Files /\ tmp' # None
    BY <1>10, <2>1, SyncedFile, FilesAssumption DEF Sync
  <2> QED
    BY <1>10, <2>2 DEF Sync
<1>11. CASE Rename BY <1>11 DEF Rename
<1>12. CASE SyncDir BY <1>12 DEF SyncDir
<1>13. CASE RemoveSource BY <1>13 DEF RemoveSource
<1>14. CASE SweepEnds BY <1>14 DEF SweepEnds
<1>15. CASE DaemonStops BY <1>15 DEF DaemonStops
<1>16. CASE PowerLoss BY <1>16, CutKeepsSynced DEF PowerLoss, StoreInv, Stored
<1>17. CASE UNCHANGED vars BY <1>17 DEF vars
<1>18. CASE SetClock BY <1>18 DEF SetClock
<1> QED
  BY <1>1, <1>2, <1>3, <1>4, <1>5, <1>6, <1>7, <1>8, <1>9,
     <1>10, <1>11, <1>12, <1>13, <1>14, <1>15, <1>16, <1>17, <1>18
  DEF Next, SweepStep

\* The spool: recorders add to it under their own names, the sweep takes out the
\* one name it has at hand.
LEMMA SpoolStep == Custom = {} /\ IInv /\ [Next]_vars => SpoolInv'
<1> SUFFICES ASSUME Custom = {}, IInv, [Next]_vars PROVE SpoolInv'
  OBVIOUS
<1> USE NamesAssumption, MaxLenAssumption, ClockAssumption, FilesAssumption
      DEF IInv, SpoolInv, SweepInv, TypeOK, Contents, Going, clockVars, spoolVars, storeVars, sweepVars, SweepForgotten
<1>1. ASSUME NEW r \in Recs, Begin(r) PROVE SpoolInv'
  BY <1>1 DEF Begin
<1>2. ASSUME NEW r \in Recs, Record(r) PROVE SpoolInv'
  BY <1>2 DEF Record
<1>3. ASSUME NEW r \in Recs, RecorderExits(r) PROVE SpoolInv'
  BY <1>3 DEF RecorderExits
<1>4. CASE StartSweep BY <1>4 DEF StartSweep
<1>5. ASSUME NEW n \in Names, Skip(n) PROVE SpoolInv'
  BY <1>5 DEF Skip
<1>6. ASSUME NEW n \in Names, OpenSource(n) PROVE SpoolInv'
  BY <1>6 DEF OpenSource
<1>7. CASE Copy BY <1>7 DEF Copy
<1>8. CASE CopyFails BY <1>8 DEF CopyFails
<1>9. CASE Recheck BY <1>9 DEF Recheck
<1>10. CASE Sync BY <1>10 DEF Sync
<1>11. CASE Rename BY <1>11 DEF Rename
<1>12. CASE SyncDir BY <1>12 DEF SyncDir
<1>13. CASE RemoveSource BY <1>13 DEF RemoveSource
<1>14. CASE SweepEnds BY <1>14 DEF SweepEnds
<1>15. CASE DaemonStops BY <1>15 DEF DaemonStops
<1>16. CASE PowerLoss BY <1>16 DEF PowerLoss
<1>17. CASE UNCHANGED vars BY <1>17 DEF vars
<1>18. CASE SetClock BY <1>18 DEF SetClock
<1> QED
  BY <1>1, <1>2, <1>3, <1>4, <1>5, <1>6, <1>7, <1>8, <1>9,
     <1>10, <1>11, <1>12, <1>13, <1>14, <1>15, <1>16, <1>17, <1>18
  DEF Next, SweepStep

\* The clock: it goes forward, and names are given, with misdated kept.
LEMMA DateStep == IInv /\ [Next]_vars => DateInv'
<1> SUFFICES ASSUME IInv, [Next]_vars PROVE DateInv'
  OBVIOUS
<1> USE ClockAssumption DEF IInv, TypeOK, DateInv, TooYoung
<1>1. ASSUME NEW r \in Recs, Begin(r) PROVE DateInv'
  BY <1>1 DEF Begin
<1>2. ASSUME NEW r \in Recs, RecorderExits(r) PROVE DateInv'
  BY <1>2 DEF RecorderExits, clockVars
<1>3. CASE SetClock BY <1>3 DEF SetClock, spoolVars
<1>4. CASE PowerLoss BY <1>4 DEF PowerLoss, clockVars
<1>5. ASSUME UNCHANGED clockVars, UNCHANGED rec PROVE DateInv'
  BY <1>5 DEF clockVars
<1>6. (\E r \in Recs : Record(r)) \/ SweepStep \/ DaemonStops \/ UNCHANGED vars
        => UNCHANGED clockVars /\ UNCHANGED rec
  BY Zenon DEF Record, SweepStep, StartSweep, Skip, OpenSource, Copy, CopyFails, Recheck, Sync,
     Rename, SyncDir, RemoveSource, SweepEnds, DaemonStops, vars, spoolVars
<1> QED
  BY <1>1, <1>2, <1>3, <1>4, <1>5, <1>6 DEF Next

\* The sweep: a name that tells of no running recorder is of one that is over or
\* misdated, and a recording that is over does not grow.
LEMMA SweepStepInv == Custom = {} /\ IInv /\ [Next]_vars => SweepInv'
<1> SUFFICES ASSUME Custom = {}, IInv, [Next]_vars PROVE SweepInv'
  OBVIOUS
<1> USE NamesAssumption, MaxLenAssumption, ClockAssumption, FilesAssumption
      DEF IInv, SpoolInv, DateInv, SweepInv, TypeOK, Contents, Going, clockVars, spoolVars, storeVars, sweepVars, SweepForgotten
<1>1. ASSUME NEW r \in Recs, Begin(r) PROVE SweepInv'
  BY <1>1 DEF Begin
<1>2. ASSUME NEW r \in Recs, Record(r) PROVE SweepInv'
  BY <1>2 DEF Record
<1>3. ASSUME NEW r \in Recs, RecorderExits(r) PROVE SweepInv'
  BY <1>3 DEF RecorderExits
<1>4. CASE StartSweep BY <1>4 DEF StartSweep
<1>5. ASSUME NEW n \in Names, Skip(n) PROVE SweepInv'
  BY <1>5 DEF Skip
<1>6. ASSUME NEW n \in Names, OpenSource(n) PROVE SweepInv'
  BY <1>6 DEF OpenSource, IsActive, Files
<1>7. CASE Copy BY <1>7 DEF Copy, Files
<1>8. CASE CopyFails BY <1>8 DEF CopyFails
<1>9. CASE Recheck BY <1>9 DEF Recheck
<1>10. CASE Sync BY <1>10 DEF Sync, Files
<1>11. CASE Rename BY <1>11 DEF Rename
<1>12. CASE SyncDir BY <1>12 DEF SyncDir
<1>13. CASE RemoveSource BY <1>13 DEF RemoveSource
<1>14. CASE SweepEnds BY <1>14 DEF SweepEnds
<1>15. CASE DaemonStops BY <1>15 DEF DaemonStops
<1>16. CASE PowerLoss BY <1>16 DEF PowerLoss
<1>17. CASE UNCHANGED vars BY <1>17 DEF vars
<1>18. CASE SetClock BY <1>18 DEF SetClock
<1> QED
  BY <1>1, <1>2, <1>3, <1>4, <1>5, <1>6, <1>7, <1>8, <1>9,
     <1>10, <1>11, <1>12, <1>13, <1>14, <1>15, <1>16, <1>17, <1>18
  DEF Next, SweepStep

\* A rename puts the recording at hand into the store, the whole of it unless it
\* is misdated; if it is not, there was nothing under the name or the same.
LEMMA RenameEffect ==
  ASSUME Custom = {}, IInv, Rename
  PROVE  /\ cur \in Names /\ central' = [central EXCEPT ![cur] = tmp]
         /\ tmp \in Files /\ Stored(cur, tmp)
         /\ \/ central[cur] \in {None, tmp} /\ durable[cur] \in {None, tmp}
            \/ \E r \in misdated : name[r] = cur
<1> USE DEF IInv, TypeOK, SweepInv
<1>1. pc = "rename" /\ cur \in Names /\ in \in Recs /\ in = local[cur]
  BY DEF Rename
<1>2. tmp \in Files /\ tmp.of = in /\ tmp.synced
  BY <1>1 DEF Contents
<1>3. name[in] = cur
  BY <1>1, NamesAssumption DEF SpoolInv
<1>4. in \in misdated \/ (rec[in] = "over" /\ tmp.events = len[in])
  BY <1>1
<1>5. Stored(cur, tmp)
  BY <1>1, <1>2, <1>3, <1>4, FilesAssumption DEF Stored, Whole
<1>6. ASSUME in \notin misdated, NEW f \in Contents, Stored(cur, f), f # None PROVE f = tmp
  <2>1. f \in Files /\ f.of \in Recs /\ name[f.of] = name[in]
    BY <1>6, <1>3 DEF Contents, Files, Stored
  <2>2. f.of = in
    BY <2>1, <1>1 DEF SpoolInv
  <2>3. f.events = len[in] /\ f.synced
    BY <2>2, <1>6 DEF Stored, Whole
  <2>4. f.synced \in BOOLEAN /\ tmp.synced \in BOOLEAN
    BY <2>1, <1>2 DEF Files
  <2>5. f.synced = tmp.synced /\ f.events = tmp.events
    BY <2>3, <2>4, <1>2, <1>4, <1>6
  <2> QED
    BY <2>1, <2>2, <2>5, <1>2, FileEquality
<1>7. central[cur] \in Contents /\ durable[cur] \in Contents
  BY <1>1
<1>8. Stored(cur, central[cur]) /\ Stored(cur, durable[cur])
  BY <1>1 DEF StoreInv
<1>9. CASE in \in misdated
  BY <1>9, <1>1, <1>2, <1>3, <1>5 DEF Rename
<1>10. CASE in \notin misdated
  BY <1>10, <1>1, <1>2, <1>5, <1>6, <1>7, <1>8 DEF Rename
<1> QED
  BY <1>9, <1>10

\* A power loss leaves what was shown or what was durable under each name, and
\* only where nothing was durable can a name show nothing any more.
LEMMA PowerLossEffect ==
  ASSUME IInv, PowerLoss
  PROVE  /\ durable' = central'
         /\ \A n \in Names : central'[n] \in {central[n], durable[n]}
         /\ \A r \in Recs : (rec'[r] = "over" <=> rec[r] # "new") /\ (rec'[r] = "new" <=> rec[r] = "new")
<1> USE DEF IInv, TypeOK
<1>1. \A n \in Names : \A f \in {central[n], durable[n]} : f \in Contents /\ (f = None \/ f.synced)
  BY DEF StoreInv, Stored
<1>2. PICK lost \in SUBSET {n \in Names : durable[n] # central[n]}, k \in 0..MaxLen :
        /\ central' = [n \in Names |-> Cut(IF n \in lost THEN durable[n] ELSE central[n], k)]
        /\ durable' = central'
  BY DEF PowerLoss
<1>3. ASSUME NEW n \in Names PROVE central'[n] \in {central[n], durable[n]}
  BY <1>1, <1>2, CutKeepsSynced
<1> QED
  BY <1>2, <1>3 DEF PowerLoss

\* The store: what is renamed into it is whole and synced, what a power loss
\* brings back was there.
LEMMA StoreStep == Custom = {} /\ IInv /\ [Next]_vars => StoreInv'
<1> SUFFICES ASSUME Custom = {}, IInv, [Next]_vars PROVE StoreInv'
  OBVIOUS
<1> USE NamesAssumption, MaxLenAssumption, ClockAssumption, FilesAssumption
      DEF IInv, SpoolInv, SweepInv, StoreInv, Stored, Whole, TypeOK, Contents, Going, clockVars, spoolVars, storeVars, sweepVars, SweepForgotten
<1>1. ASSUME NEW r \in Recs, Begin(r) PROVE StoreInv'
  BY <1>1 DEF Begin
<1>2. ASSUME NEW r \in Recs, Record(r) PROVE StoreInv'
  BY <1>2 DEF Record
<1>3. ASSUME NEW r \in Recs, RecorderExits(r) PROVE StoreInv'
  BY <1>3 DEF RecorderExits
<1>4. CASE StartSweep BY <1>4 DEF StartSweep
<1>5. ASSUME NEW n \in Names, Skip(n) PROVE StoreInv'
  BY <1>5 DEF Skip
<1>6. ASSUME NEW n \in Names, OpenSource(n) PROVE StoreInv'
  BY <1>6 DEF OpenSource
<1>7. CASE Copy BY <1>7 DEF Copy
<1>8. CASE CopyFails BY <1>8 DEF CopyFails
<1>9. CASE Recheck BY <1>9 DEF Recheck
<1>10. CASE Sync BY <1>10 DEF Sync
<1>11. CASE Rename BY <1>11, RenameEffect DEF Rename
<1>12. CASE SyncDir BY <1>12 DEF SyncDir
<1>13. CASE RemoveSource BY <1>13 DEF RemoveSource
<1>14. CASE SweepEnds BY <1>14 DEF SweepEnds
<1>15. CASE DaemonStops BY <1>15 DEF DaemonStops
<1>16. CASE PowerLoss
  <2> SUFFICES ASSUME NEW n \in Names
               PROVE  /\ Stored(n, central[n])' /\ Stored(n, durable[n])'
                      /\ durable'[n] \in {None, central'[n]}
    BY DEF StoreInv
  <2>1. durable'[n] = central'[n] /\ central'[n] \in {central[n], durable[n]}
    BY <1>16, PowerLossEffect
  <2>2. ASSUME NEW f \in Contents, Stored(n, f), f # None
        PROVE  /\ (rec'[f.of] = "over" /\ f.events = len'[f.of]) \/ f.of \in misdated'
               /\ f.synced /\ name'[f.of] = n
    <3>1. f.of \in Recs
      BY <2>2 DEF Contents, Files
    <3>2. len' = len /\ name' = name /\ misdated' = misdated
      BY <1>16 DEF PowerLoss
    <3>3. rec[f.of] = "over" => rec'[f.of] = "over"
      BY <1>16, <3>1, PowerLossEffect
    <3> QED
      BY <2>2, <3>2, <3>3
  <2> QED
    BY <2>1, <2>2
<1>17. CASE UNCHANGED vars BY <1>17 DEF vars
<1>18. CASE SetClock BY <1>18 DEF SetClock
<1> QED
  BY <1>1, <1>2, <1>3, <1>4, <1>5, <1>6, <1>7, <1>8, <1>9,
     <1>10, <1>11, <1>12, <1>13, <1>14, <1>15, <1>16, <1>17, <1>18
  DEF Next, SweepStep

\* The removal of a source: its name in the store is of no other recording.
LEMMA RemovalStep == Custom = {} /\ IInv /\ [Next]_vars => StoredBeforeRemoved'
<1> SUFFICES ASSUME Custom = {}, IInv, [Next]_vars PROVE StoredBeforeRemoved'
  OBVIOUS
<1> USE NamesAssumption, MaxLenAssumption, ClockAssumption, FilesAssumption
      DEF IInv, SpoolInv, SweepInv, StoreInv, Stored, Whole,
      StoredBeforeRemoved, TypeOK, Contents, Going, clockVars, spoolVars, storeVars, sweepVars, SweepForgotten
<1>1. ASSUME NEW r \in Recs, Begin(r) PROVE StoredBeforeRemoved'
  BY <1>1 DEF Begin
<1>2. ASSUME NEW r \in Recs, Record(r) PROVE StoredBeforeRemoved'
  BY <1>2 DEF Record
<1>3. ASSUME NEW r \in Recs, RecorderExits(r) PROVE StoredBeforeRemoved'
  BY <1>3 DEF RecorderExits
<1>4. CASE StartSweep BY <1>4 DEF StartSweep
<1>5. ASSUME NEW n \in Names, Skip(n) PROVE StoredBeforeRemoved'
  BY <1>5 DEF Skip
<1>6. ASSUME NEW n \in Names, OpenSource(n) PROVE StoredBeforeRemoved'
  BY <1>6 DEF OpenSource
<1>7. CASE Copy BY <1>7 DEF Copy
<1>8. CASE CopyFails BY <1>8 DEF CopyFails
<1>9. CASE Recheck BY <1>9 DEF Recheck
<1>10. CASE Sync BY <1>10 DEF Sync
<1>11. CASE Rename BY <1>11, RenameEffect DEF Rename
<1>12. CASE SyncDir BY <1>12 DEF SyncDir
<1>13. CASE RemoveSource
  <2> SUFFICES ASSUME NEW r \in Recs, rec[r] # "new", local'[name[r]] # r,
                      NEW f \in {central[name[r]], durable[name[r]]}
               PROVE  \/ f # None /\ f.of = r /\ (r \in misdated \/ Whole(f))
                      \/ name[r] \in unsynced /\ durable[name[r]] = None
    BY <1>13 DEF RemoveSource
  <2>1. CASE name[r] = cur
    <3>1. in = r /\ central[cur] # None
      BY <1>13, <2>1 DEF RemoveSource
    <3>2. cur \in Names /\ central[cur] \in Files /\ central[cur].of \in Recs
      BY <3>1, <2>1 DEF Files
    <3>3. central[cur].of = r /\ (r \in misdated \/ Whole(central[cur]))
      BY <3>1, <3>2, <2>1
    <3>4. CASE durable[cur] = central[cur]
      BY <2>1, <3>1, <3>3, <3>4
    <3>5. CASE durable[cur] # central[cur]
      <4>1. cur \in unsynced
        BY <1>13, <3>5 DEF RemoveSource
      <4>2. CASE durable[cur] = None
        BY <2>1, <4>1, <4>2
      <4>3. CASE durable[cur] # None
        <5>1. r \in misdated
          BY <2>1, <3>2, <3>5, <4>3
        <5>2. durable[cur].of = r
          BY <2>1, <3>2, <4>3 DEF Files
        <5> QED
          BY <2>1, <3>1, <3>3, <4>3, <5>1, <5>2
      <4> QED
        BY <4>2, <4>3
    <3> QED
      BY <3>4, <3>5
  <2>2. CASE name[r] # cur
    BY <1>13, <2>2 DEF RemoveSource
  <2> QED
    BY <2>1, <2>2
<1>14. CASE SweepEnds BY <1>14 DEF SweepEnds
<1>15. CASE DaemonStops BY <1>15 DEF DaemonStops
<1>16. CASE PowerLoss
  <2> SUFFICES ASSUME NEW r \in Recs, rec'[r] # "new", local[name[r]] # r,
                      NEW g \in {central'[name[r]], durable'[name[r]]}
               PROVE  \/ /\ g # None /\ g.of = r
                         /\ r \in misdated \/ (rec'[g.of] = "over" /\ g.events = len'[g.of])
                      \/ name[r] \in unsynced /\ durable'[name[r]] = None
    <3>1. name' = name /\ local' = local /\ unsynced' = unsynced /\ misdated' = misdated
      BY <1>16 DEF PowerLoss
    <3> QED
      BY <3>1
  <2> DEFINE n == name[r]
  <2>1. n \in Names /\ rec[r] # "new" /\ rec'[r] = "over" /\ len' = len
    BY <1>16, PowerLossEffect DEF PowerLoss
  <2>2. g \in {central[n], durable[n]} /\ durable'[n] = g
    BY <1>16, <2>1, PowerLossEffect
  <2>3. CASE g # None
    <3>1. g \in Files /\ g.of \in Recs /\ Stored(n, g)
      BY <2>1, <2>2, <2>3 DEF Files
    <3>2. g.of = r
      BY <3>1, <2>3
    <3> QED
      BY <2>1, <2>3, <3>1, <3>2
  <2>4. CASE g = None
    <3>1. n \in unsynced
      BY <2>1, <2>2, <2>4
    <3> QED
      BY <2>2, <2>4, <3>1
  <2> QED
    BY <2>3, <2>4
<1>17. CASE UNCHANGED vars BY <1>17 DEF vars
<1>18. CASE SetClock BY <1>18 DEF SetClock
<1> QED
  BY <1>1, <1>2, <1>3, <1>4, <1>5, <1>6, <1>7, <1>8, <1>9,
     <1>10, <1>11, <1>12, <1>13, <1>14, <1>15, <1>16, <1>17, <1>18
  DEF Next, SweepStep

-----------------------------------------------------------------------------
\* The inductive invariant of the sweep (ingestHome, copyFile, WriteFileAtomic)
\* beside recorders, stops, power losses and a clock that is set forward, for
\* names that are used once.
THEOREM Invariance == ASSUME Custom = {} PROVE Spec => []IInv
<1>1. Init => IInv
  BY InitInv
<1>2. IInv /\ [Next]_vars => IInv'
  BY TypeStep, SpoolStep, DateStep, SweepStepInv, StoreStep, RemovalStep DEF IInv
<1> QED
  BY <1>1, <1>2, PTL DEF Spec

\* There is a temp file exactly from the open of the source to the rename, and
\* the store holds files of recordings.
THEOREM TypeCorrect == ASSUME Custom = {} PROVE Spec => []TypeOK
<1>1. IInv => TypeOK
  BY DEF IInv
<1> QED
  BY Invariance, <1>1, PTL

\* copyFile's rename never shows, and no power loss uncovers, a recording that
\* was still going on or a copy that was cut short, except of a recorder that
\* isActive has once taken for younger than its name.
THEOREM WholeWhenVisible == ASSUME Custom = {} PROVE Spec => []NothingHalfVisible
<1>1. IInv => NothingHalfVisible
  BY DEF IInv, StoreInv, Stored, NothingHalfVisible
<1> QED
  BY Invariance, <1>1, PTL

\* ingestHome's os.Remove never takes the last copy, unless the directory of
\* the store could not be synced, and what it leaves is whole, unless isActive
\* has once taken the recorder for younger than its name.
THEOREM NeverLost == ASSUME Custom = {} PROVE Spec => []StoredBeforeRemoved
<1>1. IInv => StoredBeforeRemoved
  BY DEF IInv
<1> QED
  BY Invariance, <1>1, PTL
=============================================================================
