---------------------------- MODULE MCConnections ----------------------------
(* Two connections of one session, through one process or two; a queue of one  *)
(* and few attempts, so that it fills and writes run out of them.              *)
EXTENDS Connections, TLC

CONSTANTS c1, c2, p1, p2

MCConns == {c1, c2}
MCProcs1 == {p1}
MCProcs2 == {p1, p2}
Symmetry == Permutations(MCConns) \cup Permutations(MCProcs2)

MCStore  == {{"reply", "cut", "db", "crash"}, {"sweep", "end", "slow"}}
MCLive   == {{"db", "wait", "drain", "sweep"}}
MCEnding == {{"end"}}
=============================================================================
