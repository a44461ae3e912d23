------------------------------- MODULE TTSPool -------------------------------
(***************************************************************************)
(* The speech pool of one turn (ttspool.go) with the two goroutines of     *)
(* turn.go that share it: the producer, which submits the segments of the  *)
(* reply and closes the input, and the reader (emit), which polls for the  *)
(* next segment and sleeps on a one-place notification channel.  Workers   *)
(* synthesize in parallel and finish in any order.                         *)
(***************************************************************************)
EXTENDS Integers, Sequences, FiniteSets

CONSTANTS
  Workers,   \* TTSParallelism goroutines
  JobsCap,   \* capacity of the jobs channel (128 in the code)
  MaxSegs    \* bound: segments of the reply

ASSUME PoolAssumption ==
  /\ Workers # {} /\ IsFiniteSet(Workers)
  /\ JobsCap \in Nat \ {0}
  /\ MaxSegs \in Nat

VARIABLES
  total,      \* segments submitted so far
  closed,     \* the input is closed: closed and close(jobs)
  jobs,       \* the jobs channel
  results,    \* segments synthesized and not yet polled
  notify,     \* the notification channel holds a token
  prod,       \* producer: open, sending (total counted, job not queued), waking, done
  work,       \* worker: idle, synth, waking, stopped
  job,        \* the segment a worker holds
  reader,     \* emit: poll, sending, wait, done
  next,       \* the segment the reader wants or is sending
  lastFlag,   \* segments sent with the last-frame-of-the-turn flag
  filler,     \* the filler timer has not fired yet
  ctxDone     \* the turn's context is cancelled

vars == <<total, closed, jobs, results, notify, prod, work, job, reader, next, lastFlag, filler, ctxDone>>

Segs == 0..(MaxSegs - 1)

Init ==
  /\ total = 0 /\ closed = FALSE /\ jobs = <<>> /\ results = {} /\ notify = FALSE
  /\ prod = "open" /\ reader = "poll" /\ next = 0 /\ lastFlag = {}
  /\ filler = TRUE /\ ctxDone = FALSE
  /\ work = [w \in Workers |-> "idle"]
  /\ job = [w \in Workers |-> 0]

-----------------------------------------------------------------------------
(* Producer *)

\* Submit, first half: the segment is counted under the mutex.
Submit ==
  /\ prod = "open" /\ total < MaxSegs
  /\ total' = total + 1
  /\ prod' = "sending"
  /\ UNCHANGED <<closed, jobs, results, notify, work, job, reader, next, lastFlag, filler, ctxDone>>

Enqueue_IgnoresContext ==
  /\ prod = "sending"
  /\ Len(jobs) < JobsCap /\ jobs' = Append(jobs, total - 1)
  /\ prod' = "open"
  /\ UNCHANGED <<total, closed, results, notify, work, job, reader, next, lastFlag, filler, ctxDone>>

\* Submit, second half: queue the job, or give up because the turn is cancelled.
Enqueue ==
  /\ prod = "sending"
  /\ \/ Len(jobs) < JobsCap /\ jobs' = Append(jobs, total - 1)
     \/ ctxDone /\ UNCHANGED jobs
  /\ prod' = "open"
  /\ UNCHANGED <<total, closed, results, notify, work, job, reader, next, lastFlag, filler, ctxDone>>

CloseInput_NoWake ==
  /\ prod = "open"
  /\ closed' = TRUE
  /\ prod' = "done"
  /\ UNCHANGED <<total, jobs, results, notify, work, job, reader, next, lastFlag, filler, ctxDone>>

\* CloseInput, deferred by the producer however it ends; wake is a step of its own.
CloseInput ==
  /\ prod = "open"
  /\ closed' = TRUE
  /\ prod' = "waking"
  /\ UNCHANGED <<total, jobs, results, notify, work, job, reader, next, lastFlag, filler, ctxDone>>

ProducerWake ==
  /\ prod = "waking"
  /\ notify' = TRUE
  /\ prod' = "done"
  /\ UNCHANGED <<total, closed, jobs, results, work, job, reader, next, lastFlag, filler, ctxDone>>

-----------------------------------------------------------------------------
(* Workers *)

Take(w) ==
  /\ work[w] = "idle"
  /\ jobs # <<>>
  /\ job' = [job EXCEPT ![w] = Head(jobs)]
  /\ jobs' = Tail(jobs)
  /\ work' = [work EXCEPT ![w] = "synth"]
  /\ UNCHANGED <<total, closed, results, notify, prod, reader, next, lastFlag, filler, ctxDone>>

\* synth has returned, with speech or with an error: either is a result.
Store(w) ==
  /\ work[w] = "synth"
  /\ results' = results \cup {job[w]}
  /\ work' = [work EXCEPT ![w] = "waking"]
  /\ UNCHANGED <<total, closed, jobs, notify, prod, job, reader, next, lastFlag, filler, ctxDone>>

\* wake: a token that is already there is enough.
WorkerWake(w) ==
  /\ work[w] = "waking"
  /\ notify' = TRUE
  /\ work' = [work EXCEPT ![w] = "idle"]
  /\ UNCHANGED <<total, closed, jobs, results, prod, job, reader, next, lastFlag, filler, ctxDone>>

Stop(w) ==
  /\ work[w] = "idle"
  /\ ctxDone \/ (closed /\ jobs = <<>>)
  /\ work' = [work EXCEPT ![w] = "stopped"]
  /\ UNCHANGED <<total, closed, jobs, results, notify, prod, job, reader, next, lastFlag, filler, ctxDone>>

-----------------------------------------------------------------------------
(* Reader: emit *)

Exhausted_Total == next >= total
Exhausted == closed /\ next >= total

Final(s) == closed /\ s + 1 >= total

\* Poll hands the result over and forgets it.
PollReady ==
  /\ reader = "poll" /\ next \in results
  /\ results' = results \ {next}
  /\ reader' = "sending"
  /\ UNCHANGED <<total, closed, jobs, notify, prod, work, job, next, lastFlag, filler, ctxDone>>

\* emitSegment: the flag of its last frame is read from the pool while sending.
Send ==
  /\ reader = "sending"
  /\ lastFlag' = IF Final(next) THEN lastFlag \cup {next} ELSE lastFlag
  /\ next' = next + 1
  /\ reader' = "poll"
  /\ UNCHANGED <<total, closed, jobs, results, notify, prod, work, job, filler, ctxDone>>

\* Sending fails only when the turn is cancelled.
SendFails ==
  /\ reader = "sending" /\ ctxDone
  /\ reader' = "done"
  /\ UNCHANGED <<total, closed, jobs, results, notify, prod, work, job, next, lastFlag, filler, ctxDone>>

PollDone ==
  /\ reader = "poll" /\ next \notin results /\ Exhausted
  /\ reader' = "done"
  /\ UNCHANGED <<total, closed, jobs, results, notify, prod, work, job, next, lastFlag, filler, ctxDone>>

PollPending ==
  /\ reader = "poll" /\ next \notin results /\ ~Exhausted
  /\ reader' = "wait"
  /\ UNCHANGED <<total, closed, jobs, results, notify, prod, work, job, next, lastFlag, filler, ctxDone>>

Wakeup ==
  /\ reader = "wait" /\ notify
  /\ notify' = FALSE
  /\ reader' = "poll"
  /\ UNCHANGED <<total, closed, jobs, results, prod, work, job, next, lastFlag, filler, ctxDone>>

Filler ==
  /\ reader = "wait" /\ filler
  /\ filler' = FALSE
  /\ reader' = "poll"
  /\ UNCHANGED <<total, closed, jobs, results, notify, prod, work, job, next, lastFlag, ctxDone>>

ReaderCancelled ==
  /\ reader = "wait" /\ ctxDone
  /\ reader' = "done"
  /\ UNCHANGED <<total, closed, jobs, results, notify, prod, work, job, next, lastFlag, filler, ctxDone>>

\* Barge-in, deadline or disconnect.
Cancel ==
  /\ ~ctxDone
  /\ ctxDone' = TRUE
  /\ UNCHANGED <<total, closed, jobs, results, notify, prod, work, job, reader, next, lastFlag, filler>>

-----------------------------------------------------------------------------
Producer  == Submit \/ Enqueue \/ CloseInput \/ ProducerWake
Worker(w) == Take(w) \/ Store(w) \/ WorkerWake(w) \/ Stop(w)
Reader    == PollReady \/ Send \/ SendFails \/ PollDone \/ PollPending \/ Wakeup \/ Filler \/ ReaderCancelled

\* emit, Wait and the producer have all returned: respond goes on.
Finished == reader = "done" /\ prod = "done" /\ \A w \in Workers : work[w] = "stopped"

Next ==
  \/ Producer
  \/ \E w \in Workers : Worker(w)
  \/ Reader
  \/ Cancel
  \/ Finished /\ UNCHANGED vars

Spec == Init /\ [][Next]_vars

\* Each goroutine runs, synthesis is bounded by TTSTimeout, and the reply ends:
\* the model's stream ends, fails or is cut by the turn's deadline.  Nothing is
\* assumed of the filler timer or of cancellation.
Fairness ==
  /\ WF_vars(Enqueue \/ ProducerWake) /\ WF_vars(CloseInput)
  /\ \A w \in Workers : WF_vars(Worker(w))
  /\ WF_vars(PollReady \/ Send \/ PollDone \/ PollPending \/ Wakeup \/ ReaderCancelled)

FairSpec == Spec /\ Fairness

-----------------------------------------------------------------------------
(* Properties *)

\* The pool's fields stay in their ranges: sequence numbers below the segments
\* there can be (ttspool.go, the ttsPool struct).
TypeOK ==
  /\ total \in 0..MaxSegs /\ next \in 0..MaxSegs
  /\ closed \in BOOLEAN /\ notify \in BOOLEAN /\ filler \in BOOLEAN /\ ctxDone \in BOOLEAN
  /\ jobs \in Seq(Segs)
  /\ results \in SUBSET Segs /\ lastFlag \in SUBSET Segs
  /\ prod \in {"open", "sending", "waking", "done"}
  /\ reader \in {"poll", "sending", "wait", "done"}
  /\ work \in [Workers -> {"idle", "synth", "waking", "stopped"}]
  /\ job \in [Workers -> Nat]

\* The reader never sleeps through the event it waits for: whenever it waits and
\* its segment is ready, or the reply is over, a token is in the channel or is
\* about to be put there.  The channel has one place and wake drops the token
\* when it is taken, so this is what makes one place enough.
NoLostWakeup ==
  reader = "wait" /\ (next \in results \/ Exhausted) =>
    notify \/ prod = "waking" \/ \E w \in Workers : work[w] = "waking"

\* The last-frame-of-the-turn bit, though best effort, is never wrong: no segment
\* follows the one that carries it (ws-protocol.md:86, ttspool.go final).
LastFlagTruthful == \A s \in lastFlag : closed /\ s + 1 = total

\* The pool implements the ordered stream it stands for.
Stream == INSTANCE OrderedStream WITH
  submitted <- total, delivered <- next, cancelled <- ctxDone, ended <- reader = "done"
ImplementsStream == Stream!LiveSpec

\* A cancelled or finished turn frees all its goroutines: emit returns, the
\* producer is not stuck on a full jobs channel, and Wait does not hang.
AllStop == <>[]Finished
=============================================================================
