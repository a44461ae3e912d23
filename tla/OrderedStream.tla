---------------------------- MODULE OrderedStream ----------------------------
(***************************************************************************)
(* What the speech pool of a turn promises to the two goroutines that use  *)
(* it: segments are submitted one after the other, the reader receives     *)
(* every one of them, in order, and is told that the reply is over exactly *)
(* when the input is closed and nothing is left.  Only a cancelled turn    *)
(* ends early (ttspool.go:27-39, the comments on ttsPool, Submit, Poll).   *)
(***************************************************************************)
EXTENDS Naturals

VARIABLES submitted, closed, delivered, cancelled, ended

vars == <<submitted, closed, delivered, cancelled, ended>>

Init == submitted = 0 /\ closed = FALSE /\ delivered = 0 /\ cancelled = FALSE /\ ended = FALSE

Submit ==
  /\ ~closed
  /\ submitted' = submitted + 1
  /\ UNCHANGED <<closed, delivered, cancelled, ended>>

Close == ~closed /\ closed' = TRUE /\ UNCHANGED <<submitted, delivered, cancelled, ended>>

Cancel == cancelled' = TRUE /\ UNCHANGED <<submitted, closed, delivered, ended>>

Deliver ==
  /\ ~ended
  /\ delivered < submitted
  /\ delivered' = delivered + 1
  /\ UNCHANGED <<submitted, closed, cancelled, ended>>

End ==
  /\ cancelled \/ (closed /\ delivered = submitted)
  /\ ended' = TRUE
  /\ UNCHANGED <<submitted, closed, delivered, cancelled>>

Next == Submit \/ Close \/ Cancel \/ Deliver \/ End

Spec == Init /\ [][Next]_vars

\* The reader is never left waiting for a segment that exists, or for the end.
Live == WF_vars(Deliver) /\ WF_vars(End)

LiveSpec == Spec /\ Live
=============================================================================
