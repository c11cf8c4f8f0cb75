------------------------------ MODULE MCDaemon ------------------------------
(* Daemon on a small instance: one id that two users, a trace chunk and two  *)
(* tailers ask for, over two connections.                                    *)
EXTENDS Daemon

CONSTANTS root, user, id, c1, c2

Ask(kind, uid) == [kind |-> kind, uid |-> uid, name |-> id]
\* In the order Pairs goes by.
Asked == <<Ask("REC", user), Ask("REC", root), Ask("SPAN", user), Ask("TAIL", root), Ask("TAIL", user)>>
Contested == {Asked[i] : i \in 1..5}

\* Nothing tells the connections apart but what they ask, which never changes:
\* of two initial states with the requests exchanged one is enough.
Pairs == \E i, j \in 1..5 : i <= j /\ req[c1] = Asked[i] /\ req[c2] = Asked[j]
=============================================================================
