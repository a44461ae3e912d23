------------------------------ MODULE MCTTSPool ------------------------------
(* Two workers, more segments than the jobs channel holds. *)
EXTENDS TTSPool, TLC

CONSTANTS w1, w2

MCWorkers == {w1, w2}
=============================================================================
