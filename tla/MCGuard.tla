------------------------------- MODULE MCGuard -------------------------------
(* The guard with more callers than slots and a threshold of two, so that      *)
(* callers queue and a single failure is not enough.                           *)
EXTENDS Guard, TLC

CONSTANTS c1, c2

MCCalls == {c1, c2}
=============================================================================
