---------------------------- MODULE Daemon_proofs ---------------------------
(***************************************************************************)
(* Proofs about Daemon, for any finite set of connections and any users,   *)
(* ids, requests and caps.  Each part of the inductive invariant IInv has  *)
(* a step lemma, with one step per action; the count of slots builds on    *)
(* the types alone.                                                        *)
(***************************************************************************)
EXTENDS Daemon, FiniteSetTheorems, TLAPS

\* Where a handler is before it has a file, and while the file is its own.
Fileless == {"none", "backlog", "spawned", "handshake", "reserve", "open", "lookup",
             "register", "tail"}
Owning == {"writer", "add", "ack", "stream", "close", "await", "unregister"}

\* The file a handler has made is at the path of its request, and stays its
\* own while it works; an answer tells which.
OwnerInv ==
  /\ \A p \in Requests : owner[p] # None => req[owner[p]] = p
  /\ \A c \in Conns :
       /\ pc[c] \in Owning => owner[req[c]] = c
       /\ pc[c] \in Fileless => owner[req[c]] # c
       /\ pc[c] \in Fileless \union {"writer", "add", "ack"} => reply[c] = None
       /\ reply[c] = "OK" => owner[req[c]] = c
       /\ reply[c] = "ERR" => owner[req[c]] # c

\* closeConns finds every handler past trackConn, and an answered client's
\* conn is closed by the handler's return.
EndInv ==
  /\ conns = {c \in Conns : Tracked(c)}
  /\ \A c \in Conns : pc[c] = "end" /\ reply[c] # None => ~connOpen[c]
  /\ \A c \in Conns : pc[c] \in {"none", "backlog"} => reply[c] = None

\* Only recorders get as far as the registry and the close of a session.
KindInv ==
  \A c \in Conns :
    pc[c] \in {"add", "ack", "close", "await", "unregister"} => req[c].kind = "REC"

\* When Run has returned for want of handlers there are none.
QuietInv == run = "clean" => \A c \in Conns : ~Running(c)

IInv ==
  /\ TypeOK
  /\ KindInv
  /\ LiveIdsAreOpenSessions
  /\ OwnerInv
  /\ EndInv
  /\ QuietInv

LEMMA InitInv == Init => IInv
<1> SUFFICES ASSUME Init PROVE IInv
  OBVIOUS
<1> USE NoneAssumption, RequestsAssumption, CapsAssumption DEF Init
<1>1. TypeOK
  BY DEF TypeOK, PcStates
<1>2. LiveIdsAreOpenSessions
  BY DEF LiveIdsAreOpenSessions, IsLive, LiveStates
<1>3. OwnerInv
  <2>1. \A c \in Conns : req[c] \in Requests /\ owner[req[c]] = None /\ c # None
    OBVIOUS
  <2>2. \A c \in Conns : reply[c] = None /\ pc[c] = "none"
    OBVIOUS
  <2>3. \A p \in Requests : owner[p] = None
    OBVIOUS
  <2>4. None # "OK" /\ None # "ERR"
    BY NoneAssumption
  <2>5. QED
    BY <2>1, <2>2, <2>3, <2>4 DEF OwnerInv, Owning, Fileless
<1>4. EndInv
  BY DEF EndInv, Tracked, Running
<1>5. KindInv
  BY DEF KindInv
<1>6. QuietInv
  BY DEF QuietInv
<1>7. QED
  BY <1>1, <1>2, <1>3, <1>4, <1>5, <1>6 DEF IInv

\* Types are kept; a tailer goes on to register only with a session found.
LEMMA TypeStep ==
  ASSUME IInv, [Next]_vars
  PROVE  TypeOK'
<1> USE NoneAssumption, RequestsAssumption, CapsAssumption
<1> TypeOK
  BY DEF IInv
<1> USE DEF TypeOK, PcStates, clientVars, regVars, runVars, Goto, Say
<1>1. ASSUME NEW c \in Conns, TrackConn(c)
      PROVE  TypeOK'
  BY <1>1 DEF TrackConn
<1>2. ASSUME NEW c \in Conns, HandshakeFails(c)
      PROVE  TypeOK'
  BY <1>2 DEF HandshakeFails
<1>3. ASSUME NEW c \in Conns, Leave(c)
      PROVE  TypeOK'
  BY <1>3 DEF Leave
<1>4. ASSUME NEW c \in Conns, Reserve(c)
      PROVE  TypeOK'
  <2>1. req[c] \in [kind : Kinds, uid : Uids, name : Names]
    BY RequestsAssumption
  <2>2. connCount' \in [Uids -> Nat]
    BY <1>4, <2>1 DEF Reserve
  <2>3. QED
    BY <1>4, <2>2 DEF Reserve
<1>5. ASSUME NEW c \in Conns, TooMany(c)
      PROVE  TypeOK'
  BY <1>5 DEF TooMany
<1>6. ASSUME NEW c \in Conns, OpenFile(c)
      PROVE  TypeOK'
  BY <1>6 DEF OpenFile
<1>7. ASSUME NEW c \in Conns, OpenFails(c)
      PROVE  TypeOK'
  BY <1>7 DEF OpenFails
<1>8. ASSUME NEW c \in Conns, NewWriter(c)
      PROVE  TypeOK'
  BY <1>8 DEF NewWriter
<1>9. ASSUME NEW c \in Conns, NewWriterFails(c)
      PROVE  TypeOK'
  BY <1>9 DEF NewWriterFails
<1>10. ASSUME NEW c \in Conns, Add(c)
      PROVE  TypeOK'
  BY <1>10 DEF Add
<1>11. ASSUME NEW c \in Conns, Collide(c)
      PROVE  TypeOK'
  BY <1>11 DEF Collide
<1>12. ASSUME NEW c \in Conns, Ack(c)
      PROVE  TypeOK'
  <2>1. pc' \in [Conns -> PcStates]
    <3>1. pc' = [pc EXCEPT ![c] = "stream"] \/ pc' = [pc EXCEPT ![c] = "close"]
      BY <1>12 DEF Ack
    <3>2. QED
      BY <3>1
  <2>2. reply' \in [Conns -> {"OK", "ERR", None}]
    BY <1>12 DEF Ack
  <2>3. \A d \in Conns : pc'[d] \in {"register", "tail"} => target'[d] # None
    BY <1>12 DEF Ack
  <2>4. UNCHANGED <<clientVars, connOpen, target, regVars, owner, runVars>>
    BY <1>12 DEF Ack
  <2>5. QED
    BY <2>1, <2>2, <2>3, <2>4
<1>13. ASSUME NEW c \in Conns, StreamEnds(c)
      PROVE  TypeOK'
  BY <1>13 DEF StreamEnds, AfterStream
<1>14. ASSUME NEW c \in Conns, CloseSession(c)
      PROVE  TypeOK'
  BY <1>14 DEF CloseSession
<1>15. ASSUME NEW c \in Conns, AwaitTailers(c)
      PROVE  TypeOK'
  BY <1>15 DEF AwaitTailers
<1>16. ASSUME NEW c \in Conns, Unregister(c)
      PROVE  TypeOK'
  BY <1>16 DEF Unregister
<1>17. ASSUME NEW c \in Conns, Release(c)
      PROVE  TypeOK'
  <2>1. req[c] \in [kind : Kinds, uid : Uids, name : Names]
    BY RequestsAssumption
  <2>2. connCount' \in [Uids -> Nat]
    BY <1>17, <2>1 DEF Release, Released
  <2>3. QED
    BY <1>17, <2>2 DEF Release
<1>18. ASSUME NEW c \in Conns, Lookup(c)
      PROVE  TypeOK'
  <2>1. req[c].name \in Names
    BY RequestsAssumption
  <2>2. live[req[c].name] \in Conns \union {None}
    BY <2>1
  <2>3. CASE live[req[c].name] = None
    <3>1. pc' = [pc EXCEPT ![c] = "leave"] /\ reply' = [reply EXCEPT ![c] = "ERR"]
      BY <1>18, <2>3 DEF Lookup
    <3>2. UNCHANGED <<clientVars, connOpen, target, regVars, owner, runVars>>
      BY <1>18, <2>3 DEF Lookup
    <3>3. \A d \in Conns : pc'[d] \in {"register", "tail"} => target'[d] # None
      BY <3>1, <3>2
    <3>4. QED
      BY <3>1, <3>2, <3>3
  <2>4. CASE live[req[c].name] # None
    <3>1. pc' = [pc EXCEPT ![c] = "register"] /\ target' = [target EXCEPT ![c] = live[req[c].name]]
      BY <1>18, <2>4 DEF Lookup
    <3>2. UNCHANGED <<clientVars, connOpen, reply, regVars, owner, runVars>>
      BY <1>18, <2>4 DEF Lookup
    <3>3. \A d \in Conns : pc'[d] \in {"register", "tail"} => target'[d] # None
      BY <2>4, <3>1, <3>2
    <3>4. QED
      BY <2>2, <3>1, <3>2, <3>3
  <2>5. QED
    BY <2>3, <2>4
<1>19. ASSUME NEW c \in Conns, RegisterTailer(c)
      PROVE  TypeOK'
  BY <1>19 DEF RegisterTailer
<1>20. ASSUME NEW c \in Conns, TailEnds(c)
      PROVE  TypeOK'
  BY <1>20 DEF TailEnds
<1>21. ASSUME NEW c \in Conns, Connect(c)
      PROVE  TypeOK'
  BY <1>21 DEF Connect
<1>22. ASSUME NEW c \in Conns, Dispatch(c)
      PROVE  TypeOK'
  <2>1. pc' \in [Conns -> PcStates]
    BY <1>22 DEF Dispatch, Refused
  <2>2. reply' \in [Conns -> {"OK", "ERR", None}]
    BY <1>22 DEF Dispatch, Refused
  <2>3. \A d \in Conns : pc'[d] \in {"register", "tail"} => target'[d] # None
    BY <1>22 DEF Dispatch, Refused
  <2>4. UNCHANGED <<clientVars, connOpen, target, regVars, owner, runVars>>
    BY <1>22 DEF Dispatch
  <2>5. QED
    BY <2>1, <2>2, <2>3, <2>4
<1>23. ASSUME NEW c \in Conns, HangUp(c)
      PROVE  TypeOK'
  BY <1>23 DEF HangUp
<1>24. ASSUME NEW c \in Conns, Accept(c)
      PROVE  TypeOK'
  BY <1>24 DEF Accept
<1>25. ASSUME NEW c \in Conns, StreamFails(c)
      PROVE  TypeOK'
  BY <1>25 DEF StreamFails, AfterStream
<1>26. ASSUME NEW c \in Conns, DropTailer(c)
      PROVE  TypeOK'
  BY <1>26 DEF DropTailer
<1>27. ASSUME NEW n \in Caps, SetCap(n)
      PROVE  TypeOK'
  BY <1>27 DEF SetCap
<1>28. CASE Cancel
  BY <1>28 DEF Cancel
<1>29. CASE AcceptFatal
  BY <1>29 DEF AcceptFatal
<1>30. CASE CloseListener
  BY <1>30 DEF CloseListener
<1>31. CASE CloseConns
  BY <1>31 DEF CloseConns
<1>32. CASE AcceptFails
  BY <1>32 DEF AcceptFails
<1>33. CASE AllDone
  BY <1>33 DEF AllDone
<1>34. CASE GraceElapses
  BY <1>34 DEF GraceElapses
<1>35. CASE UNCHANGED vars
  BY <1>35 DEF vars
<1>36. QED
  BY <1>1, <1>2, <1>3, <1>4, <1>5, <1>6, <1>7, <1>8, <1>9, <1>10, <1>11, <1>12, <1>13, <1>14, <1>15, <1>16, <1>17, <1>18, <1>19, <1>20, <1>21, <1>22, <1>23, <1>24, <1>25, <1>26, <1>27, <1>28, <1>29, <1>30, <1>31, <1>32, <1>33, <1>34, <1>35 DEF Next, HandlerStep, Environment, Shutdown

\* Which handlers are recorders'.
LEMMA KindStep ==
  ASSUME IInv, [Next]_vars
  PROVE  KindInv'
<1> TypeOK /\ KindInv
  BY DEF IInv
<1> USE DEF KindInv, TypeOK, PcStates, clientVars, regVars, runVars, Goto, Say
<1>1. ASSUME NEW c \in Conns, TrackConn(c)
      PROVE  KindInv'
  BY <1>1 DEF TrackConn
<1>2. ASSUME NEW c \in Conns, HandshakeFails(c)
      PROVE  KindInv'
  BY <1>2 DEF HandshakeFails
<1>3. ASSUME NEW c \in Conns, Leave(c)
      PROVE  KindInv'
  BY <1>3 DEF Leave
<1>4. ASSUME NEW c \in Conns, Reserve(c)
      PROVE  KindInv'
  BY <1>4 DEF Reserve
<1>5. ASSUME NEW c \in Conns, TooMany(c)
      PROVE  KindInv'
  BY <1>5 DEF TooMany
<1>6. ASSUME NEW c \in Conns, OpenFile(c)
      PROVE  KindInv'
  BY <1>6 DEF OpenFile
<1>7. ASSUME NEW c \in Conns, OpenFails(c)
      PROVE  KindInv'
  BY <1>7 DEF OpenFails
<1>8. ASSUME NEW c \in Conns, NewWriter(c)
      PROVE  KindInv'
  BY <1>8 DEF NewWriter
<1>9. ASSUME NEW c \in Conns, NewWriterFails(c)
      PROVE  KindInv'
  BY <1>9 DEF NewWriterFails
<1>10. ASSUME NEW c \in Conns, Add(c)
      PROVE  KindInv'
  BY <1>10 DEF Add
<1>11. ASSUME NEW c \in Conns, Collide(c)
      PROVE  KindInv'
  BY <1>11 DEF Collide
<1>12. ASSUME NEW c \in Conns, Ack(c)
      PROVE  KindInv'
  BY <1>12 DEF Ack
<1>13. ASSUME NEW c \in Conns, StreamEnds(c)
      PROVE  KindInv'
  BY <1>13 DEF StreamEnds, AfterStream
<1>14. ASSUME NEW c \in Conns, CloseSession(c)
      PROVE  KindInv'
  BY <1>14 DEF CloseSession
<1>15. ASSUME NEW c \in Conns, AwaitTailers(c)
      PROVE  KindInv'
  BY <1>15 DEF AwaitTailers
<1>16. ASSUME NEW c \in Conns, Unregister(c)
      PROVE  KindInv'
  BY <1>16 DEF Unregister
<1>17. ASSUME NEW c \in Conns, Release(c)
      PROVE  KindInv'
  BY <1>17 DEF Release
<1>18. ASSUME NEW c \in Conns, Lookup(c)
      PROVE  KindInv'
  BY <1>18 DEF Lookup
<1>19. ASSUME NEW c \in Conns, RegisterTailer(c)
      PROVE  KindInv'
  BY <1>19 DEF RegisterTailer
<1>20. ASSUME NEW c \in Conns, TailEnds(c)
      PROVE  KindInv'
  BY <1>20 DEF TailEnds
<1>21. ASSUME NEW c \in Conns, Connect(c)
      PROVE  KindInv'
  BY <1>21 DEF Connect
<1>22. ASSUME NEW c \in Conns, Dispatch(c)
      PROVE  KindInv'
  BY <1>22 DEF Dispatch, Refused
<1>23. ASSUME NEW c \in Conns, HangUp(c)
      PROVE  KindInv'
  BY <1>23 DEF HangUp
<1>24. ASSUME NEW c \in Conns, Accept(c)
      PROVE  KindInv'
  BY <1>24 DEF Accept
<1>25. ASSUME NEW c \in Conns, StreamFails(c)
      PROVE  KindInv'
  BY <1>25 DEF StreamFails, AfterStream
<1>26. ASSUME NEW c \in Conns, DropTailer(c)
      PROVE  KindInv'
  BY <1>26 DEF DropTailer
<1>27. ASSUME NEW n \in Caps, SetCap(n)
      PROVE  KindInv'
  BY <1>27 DEF SetCap
<1>28. CASE Cancel
  BY <1>28 DEF Cancel
<1>29. CASE AcceptFatal
  BY <1>29 DEF AcceptFatal
<1>30. CASE CloseListener
  BY <1>30 DEF CloseListener
<1>31. CASE CloseConns
  BY <1>31 DEF CloseConns
<1>32. CASE AcceptFails
  BY <1>32 DEF AcceptFails
<1>33. CASE AllDone
  BY <1>33 DEF AllDone
<1>34. CASE GraceElapses
  BY <1>34 DEF GraceElapses
<1>35. CASE UNCHANGED vars
  BY <1>35 DEF vars
<1>36. QED
  BY <1>1, <1>2, <1>3, <1>4, <1>5, <1>6, <1>7, <1>8, <1>9, <1>10, <1>11, <1>12, <1>13, <1>14, <1>15, <1>16, <1>17, <1>18, <1>19, <1>20, <1>21, <1>22, <1>23, <1>24, <1>25, <1>26, <1>27, <1>28, <1>29, <1>30, <1>31, <1>32, <1>33, <1>34, <1>35 DEF Next, HandlerStep, Environment, Shutdown

\* The ids of the registry go with their recorders: only add and remove change either.
LEMMA LiveStep ==
  ASSUME IInv, [Next]_vars
  PROVE  LiveIdsAreOpenSessions'
<1> USE NoneAssumption, RequestsAssumption
<1> TypeOK /\ LiveIdsAreOpenSessions /\ KindInv
  BY DEF IInv
<1> \A c \in Conns : req[c].name \in Names
  BY RequestsAssumption DEF TypeOK
<1> USE DEF LiveIdsAreOpenSessions, IsLive, LiveStates, TypeOK, clientVars, regVars, runVars, Goto, Say
<1>1. ASSUME NEW c \in Conns, TrackConn(c)
      PROVE  LiveIdsAreOpenSessions'
  BY <1>1 DEF TrackConn
<1>2. ASSUME NEW c \in Conns, HandshakeFails(c)
      PROVE  LiveIdsAreOpenSessions'
  BY <1>2 DEF HandshakeFails
<1>3. ASSUME NEW c \in Conns, Leave(c)
      PROVE  LiveIdsAreOpenSessions'
  BY <1>3 DEF Leave
<1>4. ASSUME NEW c \in Conns, Reserve(c)
      PROVE  LiveIdsAreOpenSessions'
  BY <1>4 DEF Reserve
<1>5. ASSUME NEW c \in Conns, TooMany(c)
      PROVE  LiveIdsAreOpenSessions'
  BY <1>5 DEF TooMany
<1>6. ASSUME NEW c \in Conns, OpenFile(c)
      PROVE  LiveIdsAreOpenSessions'
  BY <1>6 DEF OpenFile
<1>7. ASSUME NEW c \in Conns, OpenFails(c)
      PROVE  LiveIdsAreOpenSessions'
  BY <1>7 DEF OpenFails
<1>8. ASSUME NEW c \in Conns, NewWriter(c)
      PROVE  LiveIdsAreOpenSessions'
  BY <1>8 DEF NewWriter
<1>9. ASSUME NEW c \in Conns, NewWriterFails(c)
      PROVE  LiveIdsAreOpenSessions'
  BY <1>9 DEF NewWriterFails
<1>10. ASSUME NEW c \in Conns, Add(c)
      PROVE  LiveIdsAreOpenSessions'
  <2>1. req[c].kind = "REC" /\ req[c].name \in Names /\ ~IsLive(c)
    BY <1>10 DEF KindInv, Add
  <2>2. /\ live[req[c].name] = None /\ live' = [live EXCEPT ![req[c].name] = c]
        /\ pc' = [pc EXCEPT ![c] = "ack"] /\ req' = req
    BY <1>10 DEF Add
  <2>3. ASSUME NEW d \in Conns, IsLive(d)'
        PROVE  (live[req[d].name] = d)'
    BY <2>1, <2>2, <2>3
  <2>4. ASSUME NEW i \in Names, live'[i] # None
        PROVE  (IsLive(live[i]) /\ req[live[i]].name = i)'
    <3>1. CASE i = req[c].name
      BY <2>1, <2>2, <3>1
    <3>2. CASE i # req[c].name
      BY <2>1, <2>2, <2>4, <3>2
    <3>3. QED
      BY <3>1, <3>2
  <2>5. QED
    BY <2>3, <2>4
<1>11. ASSUME NEW c \in Conns, Collide(c)
      PROVE  LiveIdsAreOpenSessions'
  BY <1>11 DEF Collide
<1>12. ASSUME NEW c \in Conns, Ack(c)
      PROVE  LiveIdsAreOpenSessions'
  <2>1. /\ pc' = [pc EXCEPT ![c] = "stream"] \/ pc' = [pc EXCEPT ![c] = "close"]
        /\ pc[c] = "ack" /\ live' = live /\ req' = req
    BY <1>12 DEF Ack
  <2>2. \A d \in Conns : IsLive(d)' <=> IsLive(d)
    BY <2>1
  <2>3. QED
    BY <2>1, <2>2
<1>13. ASSUME NEW c \in Conns, StreamEnds(c)
      PROVE  LiveIdsAreOpenSessions'
  BY <1>13 DEF StreamEnds, AfterStream
<1>14. ASSUME NEW c \in Conns, CloseSession(c)
      PROVE  LiveIdsAreOpenSessions'
  BY <1>14 DEF CloseSession
<1>15. ASSUME NEW c \in Conns, AwaitTailers(c)
      PROVE  LiveIdsAreOpenSessions'
  BY <1>15 DEF AwaitTailers
<1>16. ASSUME NEW c \in Conns, Unregister(c)
      PROVE  LiveIdsAreOpenSessions'
  <2>1. req[c].kind = "REC" /\ req[c].name \in Names /\ live[req[c].name] = c
    BY <1>16 DEF KindInv, Unregister
  <2>2. /\ live' = [live EXCEPT ![req[c].name] = None]
        /\ pc' = [pc EXCEPT ![c] = "release"] /\ req' = req
    BY <1>16 DEF Unregister
  <2>3. ASSUME NEW d \in Conns, IsLive(d)'
        PROVE  (live[req[d].name] = d)'
    BY <2>1, <2>2, <2>3
  <2>4. ASSUME NEW i \in Names, live'[i] # None
        PROVE  (IsLive(live[i]) /\ req[live[i]].name = i)'
    <3>1. i # req[c].name /\ live'[i] = live[i]
      BY <2>1, <2>2, <2>4
    <3>2. live[i] # c
      BY <2>1, <2>4, <3>1
    <3>3. QED
      BY <2>2, <2>4, <3>1, <3>2
  <2>5. QED
    BY <2>3, <2>4
<1>17. ASSUME NEW c \in Conns, Release(c)
      PROVE  LiveIdsAreOpenSessions'
  BY <1>17 DEF Release
<1>18. ASSUME NEW c \in Conns, Lookup(c)
      PROVE  LiveIdsAreOpenSessions'
  BY <1>18 DEF Lookup
<1>19. ASSUME NEW c \in Conns, RegisterTailer(c)
      PROVE  LiveIdsAreOpenSessions'
  BY <1>19 DEF RegisterTailer
<1>20. ASSUME NEW c \in Conns, TailEnds(c)
      PROVE  LiveIdsAreOpenSessions'
  BY <1>20 DEF TailEnds
<1>21. ASSUME NEW c \in Conns, Connect(c)
      PROVE  LiveIdsAreOpenSessions'
  BY <1>21 DEF Connect
<1>22. ASSUME NEW c \in Conns, Dispatch(c)
      PROVE  LiveIdsAreOpenSessions'
  BY <1>22 DEF Dispatch, Refused
<1>23. ASSUME NEW c \in Conns, HangUp(c)
      PROVE  LiveIdsAreOpenSessions'
  BY <1>23 DEF HangUp
<1>24. ASSUME NEW c \in Conns, Accept(c)
      PROVE  LiveIdsAreOpenSessions'
  BY <1>24 DEF Accept
<1>25. ASSUME NEW c \in Conns, StreamFails(c)
      PROVE  LiveIdsAreOpenSessions'
  BY <1>25 DEF StreamFails, AfterStream
<1>26. ASSUME NEW c \in Conns, DropTailer(c)
      PROVE  LiveIdsAreOpenSessions'
  BY <1>26 DEF DropTailer
<1>27. ASSUME NEW n \in Caps, SetCap(n)
      PROVE  LiveIdsAreOpenSessions'
  BY <1>27 DEF SetCap
<1>28. CASE Cancel
  BY <1>28 DEF Cancel
<1>29. CASE AcceptFatal
  BY <1>29 DEF AcceptFatal
<1>30. CASE CloseListener
  BY <1>30 DEF CloseListener
<1>31. CASE CloseConns
  BY <1>31 DEF CloseConns
<1>32. CASE AcceptFails
  BY <1>32 DEF AcceptFails
<1>33. CASE AllDone
  BY <1>33 DEF AllDone
<1>34. CASE GraceElapses
  BY <1>34 DEF GraceElapses
<1>35. CASE UNCHANGED vars
  BY <1>35 DEF vars
<1>36. QED
  BY <1>1, <1>2, <1>3, <1>4, <1>5, <1>6, <1>7, <1>8, <1>9, <1>10, <1>11, <1>12, <1>13, <1>14, <1>15, <1>16, <1>17, <1>18, <1>19, <1>20, <1>21, <1>22, <1>23, <1>24, <1>25, <1>26, <1>27, <1>28, <1>29, <1>30, <1>31, <1>32, <1>33, <1>34, <1>35 DEF Next, HandlerStep, Environment, Shutdown

\* Who owns which file.
LEMMA OwnerStep ==
  ASSUME IInv, [Next]_vars
  PROVE  OwnerInv'
<1> USE NoneAssumption
<1> TypeOK /\ OwnerInv
  BY DEF IInv
<1> USE DEF OwnerInv, Owning, Fileless, TypeOK, clientVars, regVars, runVars, Goto, Say
<1>1. ASSUME NEW c \in Conns, TrackConn(c)
      PROVE  OwnerInv'
  BY <1>1 DEF TrackConn
<1>2. ASSUME NEW c \in Conns, HandshakeFails(c)
      PROVE  OwnerInv'
  BY <1>2 DEF HandshakeFails
<1>3. ASSUME NEW c \in Conns, Leave(c)
      PROVE  OwnerInv'
  BY <1>3 DEF Leave
<1>4. ASSUME NEW c \in Conns, Reserve(c)
      PROVE  OwnerInv'
  BY <1>4 DEF Reserve
<1>5. ASSUME NEW c \in Conns, TooMany(c)
      PROVE  OwnerInv'
  BY <1>5 DEF TooMany
<1>6. ASSUME NEW c \in Conns, OpenFile(c)
      PROVE  OwnerInv'
  BY <1>6 DEF OpenFile
<1>7. ASSUME NEW c \in Conns, OpenFails(c)
      PROVE  OwnerInv'
  BY <1>7 DEF OpenFails
<1>8. ASSUME NEW c \in Conns, NewWriter(c)
      PROVE  OwnerInv'
  BY <1>8 DEF NewWriter
<1>9. ASSUME NEW c \in Conns, NewWriterFails(c)
      PROVE  OwnerInv'
  BY <1>9 DEF NewWriterFails
<1>10. ASSUME NEW c \in Conns, Add(c)
      PROVE  OwnerInv'
  BY <1>10 DEF Add
<1>11. ASSUME NEW c \in Conns, Collide(c)
      PROVE  OwnerInv'
  BY <1>11 DEF Collide
<1>12. ASSUME NEW c \in Conns, Ack(c)
      PROVE  OwnerInv'
  BY <1>12 DEF Ack
<1>13. ASSUME NEW c \in Conns, StreamEnds(c)
      PROVE  OwnerInv'
  BY <1>13 DEF StreamEnds, AfterStream
<1>14. ASSUME NEW c \in Conns, CloseSession(c)
      PROVE  OwnerInv'
  BY <1>14 DEF CloseSession
<1>15. ASSUME NEW c \in Conns, AwaitTailers(c)
      PROVE  OwnerInv'
  BY <1>15 DEF AwaitTailers
<1>16. ASSUME NEW c \in Conns, Unregister(c)
      PROVE  OwnerInv'
  BY <1>16 DEF Unregister
<1>17. ASSUME NEW c \in Conns, Release(c)
      PROVE  OwnerInv'
  BY <1>17 DEF Release
<1>18. ASSUME NEW c \in Conns, Lookup(c)
      PROVE  OwnerInv'
  BY <1>18 DEF Lookup
<1>19. ASSUME NEW c \in Conns, RegisterTailer(c)
      PROVE  OwnerInv'
  BY <1>19 DEF RegisterTailer
<1>20. ASSUME NEW c \in Conns, TailEnds(c)
      PROVE  OwnerInv'
  BY <1>20 DEF TailEnds
<1>21. ASSUME NEW c \in Conns, Connect(c)
      PROVE  OwnerInv'
  BY <1>21 DEF Connect
<1>22. ASSUME NEW c \in Conns, Dispatch(c)
      PROVE  OwnerInv'
  BY <1>22 DEF Dispatch, Refused
<1>23. ASSUME NEW c \in Conns, HangUp(c)
      PROVE  OwnerInv'
  BY <1>23 DEF HangUp
<1>24. ASSUME NEW c \in Conns, Accept(c)
      PROVE  OwnerInv'
  BY <1>24 DEF Accept
<1>25. ASSUME NEW c \in Conns, StreamFails(c)
      PROVE  OwnerInv'
  BY <1>25 DEF StreamFails, AfterStream
<1>26. ASSUME NEW c \in Conns, DropTailer(c)
      PROVE  OwnerInv'
  BY <1>26 DEF DropTailer
<1>27. ASSUME NEW n \in Caps, SetCap(n)
      PROVE  OwnerInv'
  BY <1>27 DEF SetCap
<1>28. CASE Cancel
  BY <1>28 DEF Cancel
<1>29. CASE AcceptFatal
  BY <1>29 DEF AcceptFatal
<1>30. CASE CloseListener
  BY <1>30 DEF CloseListener
<1>31. CASE CloseConns
  BY <1>31 DEF CloseConns
<1>32. CASE AcceptFails
  BY <1>32 DEF AcceptFails
<1>33. CASE AllDone
  BY <1>33 DEF AllDone
<1>34. CASE GraceElapses
  BY <1>34 DEF GraceElapses
<1>35. CASE UNCHANGED vars
  BY <1>35 DEF vars
<1>36. QED
  BY <1>1, <1>2, <1>3, <1>4, <1>5, <1>6, <1>7, <1>8, <1>9, <1>10, <1>11, <1>12, <1>13, <1>14, <1>15, <1>16, <1>17, <1>18, <1>19, <1>20, <1>21, <1>22, <1>23, <1>24, <1>25, <1>26, <1>27, <1>28, <1>29, <1>30, <1>31, <1>32, <1>33, <1>34, <1>35 DEF Next, HandlerStep, Environment, Shutdown

\* Which conns are tracked and which are closed.
LEMMA EndStep ==
  ASSUME IInv, [Next]_vars
  PROVE  EndInv'
<1> USE NoneAssumption
<1> TypeOK /\ EndInv
  BY DEF IInv
<1> USE DEF EndInv, Tracked, Running, TypeOK, PcStates, clientVars, regVars, runVars, Goto, Say
<1>1. ASSUME NEW c \in Conns, TrackConn(c)
      PROVE  EndInv'
  BY <1>1 DEF TrackConn
<1>2. ASSUME NEW c \in Conns, HandshakeFails(c)
      PROVE  EndInv'
  BY <1>2 DEF HandshakeFails
<1>3. ASSUME NEW c \in Conns, Leave(c)
      PROVE  EndInv'
  BY <1>3 DEF Leave
<1>4. ASSUME NEW c \in Conns, Reserve(c)
      PROVE  EndInv'
  BY <1>4 DEF Reserve
<1>5. ASSUME NEW c \in Conns, TooMany(c)
      PROVE  EndInv'
  BY <1>5 DEF TooMany
<1>6. ASSUME NEW c \in Conns, OpenFile(c)
      PROVE  EndInv'
  BY <1>6 DEF OpenFile
<1>7. ASSUME NEW c \in Conns, OpenFails(c)
      PROVE  EndInv'
  BY <1>7 DEF OpenFails
<1>8. ASSUME NEW c \in Conns, NewWriter(c)
      PROVE  EndInv'
  BY <1>8 DEF NewWriter
<1>9. ASSUME NEW c \in Conns, NewWriterFails(c)
      PROVE  EndInv'
  BY <1>9 DEF NewWriterFails
<1>10. ASSUME NEW c \in Conns, Add(c)
      PROVE  EndInv'
  BY <1>10 DEF Add
<1>11. ASSUME NEW c \in Conns, Collide(c)
      PROVE  EndInv'
  BY <1>11 DEF Collide
<1>12. ASSUME NEW c \in Conns, Ack(c)
      PROVE  EndInv'
  BY <1>12 DEF Ack
<1>13. ASSUME NEW c \in Conns, StreamEnds(c)
      PROVE  EndInv'
  BY <1>13 DEF StreamEnds, AfterStream
<1>14. ASSUME NEW c \in Conns, CloseSession(c)
      PROVE  EndInv'
  BY <1>14 DEF CloseSession
<1>15. ASSUME NEW c \in Conns, AwaitTailers(c)
      PROVE  EndInv'
  BY <1>15 DEF AwaitTailers
<1>16. ASSUME NEW c \in Conns, Unregister(c)
      PROVE  EndInv'
  BY <1>16 DEF Unregister
<1>17. ASSUME NEW c \in Conns, Release(c)
      PROVE  EndInv'
  BY <1>17 DEF Release
<1>18. ASSUME NEW c \in Conns, Lookup(c)
      PROVE  EndInv'
  BY <1>18 DEF Lookup
<1>19. ASSUME NEW c \in Conns, RegisterTailer(c)
      PROVE  EndInv'
  BY <1>19 DEF RegisterTailer
<1>20. ASSUME NEW c \in Conns, TailEnds(c)
      PROVE  EndInv'
  BY <1>20 DEF TailEnds
<1>21. ASSUME NEW c \in Conns, Connect(c)
      PROVE  EndInv'
  BY <1>21 DEF Connect
<1>22. ASSUME NEW c \in Conns, Dispatch(c)
      PROVE  EndInv'
  BY <1>22 DEF Dispatch, Refused
<1>23. ASSUME NEW c \in Conns, HangUp(c)
      PROVE  EndInv'
  BY <1>23 DEF HangUp
<1>24. ASSUME NEW c \in Conns, Accept(c)
      PROVE  EndInv'
  BY <1>24 DEF Accept
<1>25. ASSUME NEW c \in Conns, StreamFails(c)
      PROVE  EndInv'
  BY <1>25 DEF StreamFails, AfterStream
<1>26. ASSUME NEW c \in Conns, DropTailer(c)
      PROVE  EndInv'
  BY <1>26 DEF DropTailer
<1>27. ASSUME NEW n \in Caps, SetCap(n)
      PROVE  EndInv'
  BY <1>27 DEF SetCap
<1>28. CASE Cancel
  BY <1>28 DEF Cancel
<1>29. CASE AcceptFatal
  BY <1>29 DEF AcceptFatal
<1>30. CASE CloseListener
  BY <1>30 DEF CloseListener
<1>31. CASE CloseConns
  BY <1>31 DEF CloseConns
<1>32. CASE AcceptFails
  BY <1>32 DEF AcceptFails
<1>33. CASE AllDone
  BY <1>33 DEF AllDone
<1>34. CASE GraceElapses
  BY <1>34 DEF GraceElapses
<1>35. CASE UNCHANGED vars
  BY <1>35 DEF vars
<1>36. QED
  BY <1>1, <1>2, <1>3, <1>4, <1>5, <1>6, <1>7, <1>8, <1>9, <1>10, <1>11, <1>12, <1>13, <1>14, <1>15, <1>16, <1>17, <1>18, <1>19, <1>20, <1>21, <1>22, <1>23, <1>24, <1>25, <1>26, <1>27, <1>28, <1>29, <1>30, <1>31, <1>32, <1>33, <1>34, <1>35 DEF Next, HandlerStep, Environment, Shutdown

SameHolders ==
  /\ connCount' = connCount /\ req' = req
  /\ \A d \in Conns : HoldsSlot(d)' <=> HoldsSlot(d)

\* Only reserve and release change who holds a slot, or a count.
LEMMA HolderStep ==
  ASSUME IInv, [Next]_vars
  PROVE  SameHolders \/ \E d \in Conns : Reserve(d) \/ Release(d)
<1> TypeOK
  BY DEF IInv
<1> USE DEF SameHolders, HoldsSlot, SlotStates, TypeOK, PcStates, clientVars, regVars, runVars, Goto, Say
<1>1. ASSUME NEW c \in Conns, TrackConn(c)
      PROVE  SameHolders \/ \E d \in Conns : Reserve(d) \/ Release(d)
  BY <1>1 DEF TrackConn
<1>2. ASSUME NEW c \in Conns, HandshakeFails(c)
      PROVE  SameHolders \/ \E d \in Conns : Reserve(d) \/ Release(d)
  BY <1>2 DEF HandshakeFails
<1>3. ASSUME NEW c \in Conns, Leave(c)
      PROVE  SameHolders \/ \E d \in Conns : Reserve(d) \/ Release(d)
  BY <1>3 DEF Leave
<1>4. ASSUME NEW c \in Conns, Reserve(c)
      PROVE  SameHolders \/ \E d \in Conns : Reserve(d) \/ Release(d)
  BY <1>4
<1>5. ASSUME NEW c \in Conns, TooMany(c)
      PROVE  SameHolders \/ \E d \in Conns : Reserve(d) \/ Release(d)
  BY <1>5 DEF TooMany
<1>6. ASSUME NEW c \in Conns, OpenFile(c)
      PROVE  SameHolders \/ \E d \in Conns : Reserve(d) \/ Release(d)
  BY <1>6 DEF OpenFile
<1>7. ASSUME NEW c \in Conns, OpenFails(c)
      PROVE  SameHolders \/ \E d \in Conns : Reserve(d) \/ Release(d)
  BY <1>7 DEF OpenFails
<1>8. ASSUME NEW c \in Conns, NewWriter(c)
      PROVE  SameHolders \/ \E d \in Conns : Reserve(d) \/ Release(d)
  BY <1>8 DEF NewWriter
<1>9. ASSUME NEW c \in Conns, NewWriterFails(c)
      PROVE  SameHolders \/ \E d \in Conns : Reserve(d) \/ Release(d)
  BY <1>9 DEF NewWriterFails
<1>10. ASSUME NEW c \in Conns, Add(c)
      PROVE  SameHolders \/ \E d \in Conns : Reserve(d) \/ Release(d)
  BY <1>10 DEF Add
<1>11. ASSUME NEW c \in Conns, Collide(c)
      PROVE  SameHolders \/ \E d \in Conns : Reserve(d) \/ Release(d)
  BY <1>11 DEF Collide
<1>12. ASSUME NEW c \in Conns, Ack(c)
      PROVE  SameHolders \/ \E d \in Conns : Reserve(d) \/ Release(d)
  BY <1>12 DEF Ack
<1>13. ASSUME NEW c \in Conns, StreamEnds(c)
      PROVE  SameHolders \/ \E d \in Conns : Reserve(d) \/ Release(d)
  BY <1>13 DEF StreamEnds, AfterStream
<1>14. ASSUME NEW c \in Conns, CloseSession(c)
      PROVE  SameHolders \/ \E d \in Conns : Reserve(d) \/ Release(d)
  BY <1>14 DEF CloseSession
<1>15. ASSUME NEW c \in Conns, AwaitTailers(c)
      PROVE  SameHolders \/ \E d \in Conns : Reserve(d) \/ Release(d)
  BY <1>15 DEF AwaitTailers
<1>16. ASSUME NEW c \in Conns, Unregister(c)
      PROVE  SameHolders \/ \E d \in Conns : Reserve(d) \/ Release(d)
  BY <1>16 DEF Unregister
<1>17. ASSUME NEW c \in Conns, Release(c)
      PROVE  SameHolders \/ \E d \in Conns : Reserve(d) \/ Release(d)
  BY <1>17
<1>18. ASSUME NEW c \in Conns, Lookup(c)
      PROVE  SameHolders \/ \E d \in Conns : Reserve(d) \/ Release(d)
  BY <1>18 DEF Lookup
<1>19. ASSUME NEW c \in Conns, RegisterTailer(c)
      PROVE  SameHolders \/ \E d \in Conns : Reserve(d) \/ Release(d)
  BY <1>19 DEF RegisterTailer
<1>20. ASSUME NEW c \in Conns, TailEnds(c)
      PROVE  SameHolders \/ \E d \in Conns : Reserve(d) \/ Release(d)
  BY <1>20 DEF TailEnds
<1>21. ASSUME NEW c \in Conns, Connect(c)
      PROVE  SameHolders \/ \E d \in Conns : Reserve(d) \/ Release(d)
  BY <1>21 DEF Connect
<1>22. ASSUME NEW c \in Conns, Dispatch(c)
      PROVE  SameHolders \/ \E d \in Conns : Reserve(d) \/ Release(d)
  BY <1>22 DEF Dispatch, Refused
<1>23. ASSUME NEW c \in Conns, HangUp(c)
      PROVE  SameHolders \/ \E d \in Conns : Reserve(d) \/ Release(d)
  BY <1>23 DEF HangUp
<1>24. ASSUME NEW c \in Conns, Accept(c)
      PROVE  SameHolders \/ \E d \in Conns : Reserve(d) \/ Release(d)
  BY <1>24 DEF Accept
<1>25. ASSUME NEW c \in Conns, StreamFails(c)
      PROVE  SameHolders \/ \E d \in Conns : Reserve(d) \/ Release(d)
  BY <1>25 DEF StreamFails, AfterStream
<1>26. ASSUME NEW c \in Conns, DropTailer(c)
      PROVE  SameHolders \/ \E d \in Conns : Reserve(d) \/ Release(d)
  BY <1>26 DEF DropTailer
<1>27. ASSUME NEW n \in Caps, SetCap(n)
      PROVE  SameHolders \/ \E d \in Conns : Reserve(d) \/ Release(d)
  BY <1>27 DEF SetCap
<1>28. CASE Cancel
  BY <1>28 DEF Cancel
<1>29. CASE AcceptFatal
  BY <1>29 DEF AcceptFatal
<1>30. CASE CloseListener
  BY <1>30 DEF CloseListener
<1>31. CASE CloseConns
  BY <1>31 DEF CloseConns
<1>32. CASE AcceptFails
  BY <1>32 DEF AcceptFails
<1>33. CASE AllDone
  BY <1>33 DEF AllDone
<1>34. CASE GraceElapses
  BY <1>34 DEF GraceElapses
<1>35. CASE UNCHANGED vars
  BY <1>35 DEF vars
<1>36. QED
  BY <1>1, <1>2, <1>3, <1>4, <1>5, <1>6, <1>7, <1>8, <1>9, <1>10, <1>11, <1>12, <1>13, <1>14, <1>15, <1>16, <1>17, <1>18, <1>19, <1>20, <1>21, <1>22, <1>23, <1>24, <1>25, <1>26, <1>27, <1>28, <1>29, <1>30, <1>31, <1>32, <1>33, <1>34, <1>35 DEF Next, HandlerStep, Environment, Shutdown

\* The steps of Run: it returns without a grace period only when nothing runs,
\* and then nothing does.
LEMMA QuietStep ==
  ASSUME IInv, [Next]_vars
  PROVE  QuietInv'
<1>1. CASE UNCHANGED vars
  <2>1. QuietInv
    BY DEF IInv
  <2>2. run' = run /\ pc' = pc
    BY <1>1 DEF vars, runVars
  <2>3. QED
    BY <2>1, <2>2 DEF QuietInv, Running
<1>2. CASE Next
  <2>1. SUFFICES ASSUME run' = "clean" PROVE \A c \in Conns : ~Running(c)'
    BY DEF QuietInv
  <2>2. run # "clean"
    BY <1>2 DEF Next, Up
  <2>3. AllDone
    BY <1>2, <2>1, <2>2 DEF Next, HandlerStep, Environment, Shutdown, runVars,
       TrackConn, HandshakeFails, Leave, Reserve, TooMany, OpenFile, OpenFails, NewWriter,
       NewWriterFails, Add, Collide, Ack, StreamEnds, CloseSession, AwaitTailers, Unregister,
       Release, Lookup, RegisterTailer, TailEnds, Connect, Dispatch, HangUp, Accept,
       StreamFails, DropTailer, SetCap, Cancel, AcceptFatal, CloseListener, CloseConns,
       AcceptFails, GraceElapses
  <2>4. QED
    BY <2>3 DEF AllDone, Running
<1>3. QED
  BY <1>1, <1>2

\* IInv is inductive.
THEOREM Invariance == Spec => []IInv
<1>1. Init => IInv
  BY InitInv
<1>2. IInv /\ [Next]_vars => IInv'
  BY TypeStep, KindStep, LiveStep, OwnerStep, EndStep, QuietStep DEF IInv
<1>3. QED
  BY <1>1, <1>2, PTL DEF Spec

\* Every variable keeps its type, and a tailer that registers has a session
\* (handleTail after registry.get).
THEOREM TypeCorrect == Spec => []TypeOK
<1>1. IInv => TypeOK
  BY DEF IInv
<1>2. QED
  BY <1>1, Invariance, PTL

\* registry.live leads to the one session that has the id, and to every
\* session until it is closed (add, remove).
THEOREM LiveIds == Spec => []LiveIdsAreOpenSessions
<1>1. IInv => LiveIdsAreOpenSessions
  BY DEF IInv
<1>2. QED
  BY <1>1, Invariance, PTL

\* OK means the client's own file exists, ERR that nothing of it was left
\* (handleRec, handleAnsible, handleSpan).
THEOREM RepliesTrue == Spec => []ReplyTellsStorage
<1>1. ASSUME IInv PROVE ReplyTellsStorage
  <2>1. ASSUME NEW c \in Conns PROVE reply[c] = "OK" => owner[req[c]] = c
    BY <1>1 DEF IInv, OwnerInv
  <2>2. ASSUME NEW c \in Conns, reply[c] = "ERR", NEW p \in Requests, owner[p] = c PROVE FALSE
    <3>1. owner[p] # None
      BY <2>2, NoneAssumption
    <3>2. req[c] = p
      BY <1>1, <2>2, <3>1 DEF IInv, OwnerInv
    <3>3. owner[req[c]] # c
      BY <1>1, <2>2 DEF IInv, OwnerInv
    <3>4. QED
      BY <2>2, <3>2, <3>3
  <2>3. QED
    BY <2>1, <2>2 DEF ReplyTellsStorage
<1>2. QED
  BY <1>1, Invariance, PTL

\* No handler takes over or removes another's file (O_EXCL in handleRec, the
\* removal after a collision in registry.add).
THEOREM FilesKept == Spec => StoredNeverClobbered
<1> DEFINE Kept(p) == \/ owner'[p] = owner[p]
                      \/ owner'[p] = None /\ reply[owner[p]] = None /\ reply'[owner[p]] = "ERR"
<1>1. ASSUME IInv, [Next]_vars, NEW p \in Requests, owner[p] # None
      PROVE  Kept(p)
  <2> TypeOK /\ OwnerInv
    BY <1>1 DEF IInv
  <2>1. ASSUME NEW c \in Conns, OpenFile(c)
        PROVE  Kept(p)
    BY <1>1, <2>1 DEF OpenFile, TypeOK
  <2>2. ASSUME NEW c \in Conns, Collide(c)
        PROVE  Kept(p)
    <3>1. reply[c] = None /\ owner[req[c]] = c /\ req[c] \in Requests
      BY <2>2 DEF Collide, OwnerInv, Owning, TypeOK
    <3>2. owner' = [owner EXCEPT ![req[c]] = None] /\ reply'[c] = "ERR"
      BY <2>2 DEF Collide, Say, TypeOK
    <3>3. CASE p = req[c]
      BY <3>1, <3>2, <3>3 DEF TypeOK
    <3>4. CASE p # req[c]
      BY <3>2, <3>4 DEF TypeOK
    <3>5. QED
      BY <3>3, <3>4
  <2>3. UNCHANGED owner \/ \E c \in Conns : OpenFile(c) \/ Collide(c)
    BY <1>1 DEF Next, HandlerStep, Environment, Shutdown, vars,
       TrackConn, HandshakeFails, Leave, Reserve, TooMany, OpenFails, NewWriter,
       NewWriterFails, Add, Ack, StreamEnds, CloseSession, AwaitTailers, Unregister,
       Release, Lookup, RegisterTailer, TailEnds, Connect, Dispatch, HangUp, Accept,
       StreamFails, DropTailer, SetCap, Cancel, AcceptFatal, CloseListener, CloseConns,
       AcceptFails, AllDone, GraceElapses
  <2>4. QED
    BY <2>1, <2>2, <2>3
<1>2. IInv /\ [Next]_vars => [\A p \in Requests : owner[p] # None => Kept(p)]_vars
  BY <1>1
<1>3. QED
  BY <1>2, Invariance, PTL DEF Spec, StoredNeverClobbered

-----------------------------------------------------------------------------
(* The session cap.                                                         *)

LEMMA HoldersFinite ==
  ASSUME NEW u
  PROVE  IsFiniteSet(SlotHolders(u)) /\ Cardinality(SlotHolders(u)) \in Nat
<1>1. SlotHolders(u) \subseteq Conns
  BY DEF SlotHolders
<1>2. IsFiniteSet(SlotHolders(u))
  BY <1>1, ConnsAssumption, FS_Subset
<1>3. QED
  BY <1>2, FS_CardinalityType

\* reserve adds its handler to the holders of its uid and to no others.
LEMMA ReserveHolders ==
  ASSUME TypeOK, NEW c \in Conns, Reserve(c), NEW u
  PROVE  /\ c \notin SlotHolders(u)
         /\ SlotHolders(u)' = IF u = req[c].uid THEN SlotHolders(u) \union {c} ELSE SlotHolders(u)
<1>1. pc[c] = "reserve" /\ pc' = [pc EXCEPT ![c] = "open"] /\ req' = req
  BY DEF Reserve, Goto, clientVars
<1>2. \A d \in Conns : d # c => (HoldsSlot(d)' <=> HoldsSlot(d))
  BY <1>1 DEF HoldsSlot, TypeOK
<1>3. HoldsSlot(c)' /\ ~HoldsSlot(c)
  BY <1>1 DEF HoldsSlot, SlotStates, TypeOK
<1>4. QED
  BY <1>1, <1>2, <1>3 DEF SlotHolders

\* release takes it out again.
LEMMA ReleaseHolders ==
  ASSUME TypeOK, NEW c \in Conns, Release(c), NEW u
  PROVE  /\ c \in SlotHolders(req[c].uid)
         /\ SlotHolders(u)' = IF u = req[c].uid THEN SlotHolders(u) \ {c} ELSE SlotHolders(u)
<1>1. pc[c] = "release" /\ pc' = [pc EXCEPT ![c] = "leave"] /\ req' = req
  BY DEF Release, Goto, clientVars
<1>2. \A d \in Conns : d # c => (HoldsSlot(d)' <=> HoldsSlot(d))
  BY <1>1 DEF HoldsSlot, TypeOK
<1>3. ~HoldsSlot(c)' /\ HoldsSlot(c)
  BY <1>1 DEF HoldsSlot, SlotStates, TypeOK
<1>4. QED
  BY <1>1, <1>2, <1>3 DEF SlotHolders

LEMMA SlotStep ==
  ASSUME IInv, SlotsAccountedFor, [Next]_vars
  PROVE  SlotsAccountedFor'
<1> TypeOK
  BY DEF IInv
<1> SUFFICES ASSUME NEW u \in Uids
             PROVE  connCount'[u] = Cardinality(SlotHolders(u)')
  BY DEF SlotsAccountedFor
<1>1. /\ connCount[u] = Cardinality(SlotHolders(u)) /\ connCount[u] \in Nat
      /\ IsFiniteSet(SlotHolders(u))
  BY HoldersFinite DEF SlotsAccountedFor, TypeOK
<1>2. CASE SameHolders
  <2>1. SlotHolders(u)' = SlotHolders(u)
    BY <1>2 DEF SameHolders, SlotHolders
  <2>2. QED
    BY <1>1, <1>2, <2>1 DEF SameHolders
<1>3. ASSUME NEW c \in Conns, Reserve(c)
      PROVE  connCount'[u] = Cardinality(SlotHolders(u)')
  <2>1. req[c].uid \in Uids /\ connCount' = [connCount EXCEPT ![req[c].uid] = @ + 1]
    BY <1>3, RequestsAssumption DEF Reserve, TypeOK
  <2>2. CASE u = req[c].uid
    <3>1. SlotHolders(u)' = SlotHolders(u) \union {c} /\ c \notin SlotHolders(u)
      BY <1>3, <2>2, ReserveHolders
    <3>2. Cardinality(SlotHolders(u) \union {c}) = Cardinality(SlotHolders(u)) + 1
      BY <1>1, <3>1, FS_AddElement
    <3>3. connCount'[u] = connCount[u] + 1
      BY <2>1, <2>2 DEF TypeOK
    <3>4. QED
      BY <1>1, <3>1, <3>2, <3>3
  <2>3. CASE u # req[c].uid
    <3>1. SlotHolders(u)' = SlotHolders(u)
      BY <1>3, <2>3, ReserveHolders
    <3>2. connCount'[u] = connCount[u]
      BY <2>1, <2>3 DEF TypeOK
    <3>3. QED
      BY <1>1, <3>1, <3>2
  <2>4. QED
    BY <2>2, <2>3
<1>4. ASSUME NEW c \in Conns, Release(c)
      PROVE  connCount'[u] = Cardinality(SlotHolders(u)')
  <2>1. req[c].uid \in Uids /\ connCount' = [connCount EXCEPT ![req[c].uid] = Released(@)]
    BY <1>4, RequestsAssumption DEF Release, TypeOK
  <2>2. CASE u = req[c].uid
    <3>1. SlotHolders(u)' = SlotHolders(u) \ {c} /\ c \in SlotHolders(u)
      BY <1>4, <2>2, ReleaseHolders
    <3>2. Cardinality(SlotHolders(u) \ {c}) = Cardinality(SlotHolders(u)) - 1
      BY <1>1, <3>1, FS_RemoveElement
    <3>3. SlotHolders(u) # {}
      BY <3>1
    <3>4. connCount[u] > 0
      BY <1>1, <3>3, FS_EmptySet
    <3>5. connCount'[u] = connCount[u] - 1
      BY <1>1, <2>1, <2>2, <3>4 DEF Released, TypeOK
    <3>6. QED
      BY <1>1, <3>1, <3>2, <3>5
  <2>3. CASE u # req[c].uid
    <3>1. SlotHolders(u)' = SlotHolders(u)
      BY <1>4, <2>3, ReleaseHolders
    <3>2. connCount'[u] = connCount[u]
      BY <2>1, <2>3 DEF TypeOK
    <3>3. QED
      BY <1>1, <3>1, <3>2
  <2>4. QED
    BY <2>2, <2>3
<1>5. QED
  BY <1>2, <1>3, <1>4, HolderStep

\* A uid's count is the number of its handlers between reserve and release,
\* for any number of connections and users.
THEOREM SlotCount == Spec => []SlotsAccountedFor
<1>1. ASSUME Init PROVE SlotsAccountedFor
  <2>1. ASSUME NEW u \in Uids PROVE connCount[u] = Cardinality(SlotHolders(u))
    <3>1. SlotHolders(u) = {}
      BY <1>1 DEF Init, SlotHolders, HoldsSlot, SlotStates
    <3>2. QED
      BY <1>1, <3>1, FS_EmptySet DEF Init
  <2>2. QED
    BY <2>1 DEF SlotsAccountedFor
<1>2. IInv /\ SlotsAccountedFor /\ [Next]_vars => SlotsAccountedFor'
  BY SlotStep
<1>3. QED
  BY <1>1, <1>2, Invariance, PTL DEF Spec

\* Nobody is let in at or above the cap in force (registry.reserve against
\* registry.setCap).
THEOREM CapKept == Spec => CapHonoured
<1>1. ASSUME IInv, SlotsAccountedFor, SlotsAccountedFor', [Next]_vars,
             NEW u \in Uids, SlotHolders(u)' \ SlotHolders(u) # {}
      PROVE  Cardinality(SlotHolders(u)') <= cap
  <2> TypeOK
    BY <1>1 DEF IInv
  <2>1. ~SameHolders
    BY <1>1 DEF SameHolders, SlotHolders
  <2>2. \A c \in Conns : ~Release(c)
    BY <1>1, ReleaseHolders
  <2>3. PICK c \in Conns : Reserve(c)
    BY <1>1, <2>1, <2>2, HolderStep
  <2>4. u = req[c].uid
    BY <1>1, <2>3, ReserveHolders
  <2>5. connCount[u] < cap /\ connCount'[u] = connCount[u] + 1
    BY <2>3, <2>4 DEF Reserve, TypeOK
  <2>6. Cardinality(SlotHolders(u)') = connCount'[u]
    BY <1>1 DEF SlotsAccountedFor
  <2>7. connCount[u] \in Nat /\ cap \in Nat
    BY CapsAssumption DEF TypeOK
  <2>8. QED
    BY <2>5, <2>6, <2>7
<1>2. IInv /\ SlotsAccountedFor /\ SlotsAccountedFor' /\ [Next]_vars =>
        [\A u \in Uids : SlotHolders(u)' \ SlotHolders(u) # {} =>
           Cardinality(SlotHolders(u)') <= cap]_vars
  BY <1>1
<1>3. QED
  BY <1>2, Invariance, SlotCount, PTL DEF Spec, CapHonoured

\* What is left when Run returns for want of handlers (Run's wg.Wait).
THEOREM NothingLeft == Spec => []CleanExit
<1>1. ASSUME IInv, SlotsAccountedFor PROVE CleanExit
  <2>1. SUFFICES ASSUME run = "clean"
                 PROVE  /\ conns = {}
                        /\ \A u \in Uids : connCount[u] = 0
                        /\ \A i \in Names : live[i] = None
                        /\ \A c \in Conns : reply[c] # None => ~connOpen[c]
    BY DEF CleanExit
  <2>2. \A c \in Conns : pc[c] \in {"none", "backlog", "end"}
    BY <1>1, <2>1 DEF IInv, QuietInv, Running
  <2>3. conns = {}
    BY <1>1, <2>2 DEF IInv, EndInv, Tracked, Running
  <2>4. ASSUME NEW u \in Uids PROVE connCount[u] = 0
    <3>1. SlotHolders(u) = {}
      BY <2>2 DEF SlotHolders, HoldsSlot, SlotStates
    <3>2. QED
      BY <1>1, <3>1, FS_EmptySet DEF SlotsAccountedFor
  <2>5. ASSUME NEW i \in Names PROVE live[i] = None
    BY <1>1, <2>2 DEF IInv, TypeOK, LiveIdsAreOpenSessions, IsLive, LiveStates
  <2>6. ASSUME NEW c \in Conns, reply[c] # None PROVE ~connOpen[c]
    BY <1>1, <2>2, <2>6 DEF IInv, EndInv
  <2>7. QED
    BY <2>3, <2>4, <2>5, <2>6
<1>2. QED
  BY <1>1, Invariance, SlotCount, PTL
===========================================================================
