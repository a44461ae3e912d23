-------------------------------- MODULE MCApi --------------------------------
(* The worlds: three users who only fetch tickets, against a limiter of two keys; *)
(* one user with three requests to create, and one with two beside another.       *)
EXTENDS Api, TLC

CONSTANTS u1, u2, u3, a1, a2, a3

MCKeys == {u1, u2, u3}
MCAsks == {a1, a2, a3}
MCIds == 1..3
World(users, asks, tickets) == [users |-> users, asks |-> asks, tickets |-> tickets]
MCWorlds == {World({}, {}, MCKeys), World({u1}, MCAsks, {}), World({u1, u2}, {a1, a2}, {u1})}
=============================================================================
