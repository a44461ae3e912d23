------------------------------ MODULE MCService ------------------------------
(* Two sessions at most; claims of one session, and one summary at a time.  The    *)
(* worlds: an end request beside a connection; two connections of one session; one *)
(* connection with a failing database; a session to sweep beside a connection, and *)
(* beside a request.                                                               *)
EXTENDS Service, TLC

CONSTANTS s1, s2, c1, c2, r1

MCSess == {s1, s2}
MCConns == {c1, c2}
MCReqs == {r1}

World(left, conns, reqs, turns, faults) ==
  [visited |-> {s1}, left |-> left, conns |-> conns, reqs |-> reqs, turns |-> turns, faults |-> faults]

MCWorlds ==
  {World({}, {c1}, {r1}, 1, {"db", "elsewhere"}), World({}, {c1}, {r1}, 1, {"slow"}),
   World({}, {c1, c2}, {}, 2, {}), World({}, {c1, c2}, {}, 0, {"db", "slow"}),
   World({}, {c1}, {}, 2, {"db", "slow"}),
   World({s2}, {c1}, {}, 1, {"elsewhere"}), World({s2}, {c1}, {}, 0, {"db", "slow"}),
   World({s2}, {}, {r1}, 0, {"db", "listen", "elsewhere", "slow"})}
=============================================================================
