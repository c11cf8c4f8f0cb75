---------------------------- MODULE MCAuditTools ----------------------------
(* AuditTools: two users; a recording that cannot be read, a name that is no *)
(* regular file, two recordings to be made while a command runs, one of them *)
(* in the hour that comes twice; a root in the daemon's time zone, east and  *)
(* west of it; the trace with a circle, an unknown parent, equal starts and  *)
(* an invalid span.                                                          *)
EXTENDS AuditTools

R(user, pid, ts, hits) ==
  [user |-> user, pid |-> pid, regular |-> TRUE, readable |-> TRUE, inCmd |-> FALSE, tmp |-> "",
   module |-> "", result |-> "ok", ts |-> ts, hits |-> hits, fold |-> 0]
Ssh(r, tmp, module, result) == [r EXCEPT !.tmp = tmp, !.module = module, !.result = result]
Store ==
  <<Ssh(R(1, 1, 1, 1), "t1", "copy", "changed"),
    [R(1, 1, 0, 0) EXCEPT !.readable = FALSE],
    [Ssh(R(2, 1, 1, 0), "t5", "ping", "ok") EXCEPT !.regular = FALSE, !.inCmd = TRUE],
    Ssh(R(2, 1, 2, 0), "t4", "ping", "ok"),
    Ssh(R(2, 1, 3, 1), "t2", "shell", "failed"),
    [Ssh(R(1, 2, -1, 0), "t1", "", "ok") EXCEPT !.fold = 1],
    Ssh(R(2, 2, -1, 0), "t5", "shell", "failed")>>

C(name, user, sel, all, meets) ==
  [name |-> name, user |-> user, sel |-> sel, all |-> all, meets |-> meets, yes |-> FALSE,
   zone |-> 0, cast |-> <<>>, start |-> 1, zero |-> 2]
East(zone, c) == [c EXCEPT !.zone = zone]
A(start, zero, cast) ==
  [C("analyze", 0, <<>>, FALSE, {"spans"}) EXCEPT !.cast = cast, !.start = start, !.zero = zero]
E(t, type, data) == [t |-> t, type |-> type, data |-> data]
Typed ==
  {C("ls", 0, <<>>, TRUE, {"recorders"}), C("search", 0, <<>>, FALSE, {"writes", "recorders"}),
   C("search", 2, <<2, 3>>, TRUE, {"recorders"}), C("incoming", 0, <<>>, FALSE, {"writes", "recorders"}),
   C("prune", 0, <<>>, FALSE, {"recorders", "clock"}), C("prune", 0, <<1, 2>>, FALSE, {"recorders", "clock"}),
   East(1, C("prune", 0, <<>>, FALSE, {"recorders", "clock"})), East(-1, C("prune", 0, <<>>, FALSE, {"recorders", "clock"})),
   C("tree", 0, <<>>, FALSE, {"spans"}),
   A(1, 2, <<E(0, "o", <<1>>), E(1, "o", <<2, 3>>), E(2, "i", <<4>>), E(2, "o", <<5>>), E(5, "o", <<6>>)>>),
   A(1, 3, <<E(1, "o", <<1, 2, 3>>), E(1, "bad", <<>>), E(2, "o", <<4>>)>>), A(0, 0, <<E(2, "o", <<1>>)>>)}

Sp(id, parent, line, start, end, exit) ==
  [id |-> id, parent |-> parent, cmd |-> line, start |-> start, end |-> end, exit |-> exit, depth |-> 0]
Lines ==
  {<<Sp(1, 0, <<1, 0>>, 2, 4, 1), Bad>>, <<Sp(2, 1, <<1, 1>>, 3, 7, 1), Sp(6, 2, <<2, 1>>, 4, 4, 0)>>,
   <<Sp(3, 4, <<1, 0>>, 3, 6, 0), Sp(4, 3, <<2, 0>>, 3, 3, 2)>>, <<Sp(5, 9, <<1, 0>>, 8, 7, 0), Sp(2, 2, <<1, 0>>, 6, 6, 0)>>}
=============================================================================
