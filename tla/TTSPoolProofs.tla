---------------------------- MODULE TTSPoolProofs ----------------------------
(***************************************************************************)
(* Proofs about the speech pool, for any number of workers, any channel    *)
(* capacity and any number of segments: no wakeup is lost, the             *)
(* last-of-turn flag is never wrong, and the pool implements the ordered   *)
(* stream (safety; its liveness is checked by TLC).                        *)
(***************************************************************************)
EXTENDS TTSPool, SequenceTheorems, TLAPS

\* Every segment that exists anywhere has been counted by Submit.
Counted ==
  /\ \A i \in 1..Len(jobs) : jobs[i] < total
  /\ \A w \in Workers : work[w] = "synth" => job[w] < total
  /\ \A s \in results : s < total
  /\ reader = "sending" => next < total

\* The input is closed exactly when the producer has passed CloseInput.
ClosedByProducer ==
  /\ closed <=> prod \in {"waking", "done"}
  /\ prod = "sending" => total > 0

PoolInv ==
  /\ TypeOK /\ Counted /\ ClosedByProducer
  /\ next <= total
  /\ NoLostWakeup /\ LastFlagTruthful

LEMMA PoolInit == Init => PoolInv
<1> SUFFICES ASSUME Init PROVE PoolInv
  OBVIOUS
<1> USE PoolAssumption
<1>1. TypeOK
  <2>1. jobs \in Seq(Segs) /\ results \in SUBSET Segs /\ lastFlag \in SUBSET Segs
    BY DEF Init
  <2>2. /\ work \in [Workers -> {"idle", "synth", "waking", "stopped"}]
        /\ job \in [Workers -> Nat]
    BY DEF Init
  <2>3. total \in 0..MaxSegs /\ next \in 0..MaxSegs
    BY PoolAssumption DEF Init
  <2> QED BY <2>1, <2>2, <2>3 DEF Init, TypeOK
<1>2. Counted /\ ClosedByProducer /\ next <= total
  BY DEF Init, Counted, ClosedByProducer
<1>3. NoLostWakeup /\ LastFlagTruthful
  BY DEF Init, NoLostWakeup, LastFlagTruthful
<1> QED BY <1>1, <1>2, <1>3 DEF PoolInv

\* Types are kept by the reader and the producer's bookkeeping steps.
LEMMA PoolTypes == PoolInv /\ [Next]_vars => TypeOK'
<1> SUFFICES ASSUME PoolInv, [Next]_vars PROVE TypeOK'
  OBVIOUS
<1> USE PoolAssumption DEF PoolInv, TypeOK
<1>1. CASE Submit
  BY <1>1 DEF Submit
<1>2. CASE Enqueue
  <2>1. total - 1 \in Segs
    BY <1>2 DEF Enqueue, Segs, ClosedByProducer
  <2>2. jobs' \in Seq(Segs)
    BY <1>2, <2>1, SMTT(60) DEF Enqueue
  <2> QED BY <1>2, <2>2 DEF Enqueue
<1>3. CASE CloseInput \/ ProducerWake
  BY <1>3 DEF CloseInput, ProducerWake
<1>4. ASSUME NEW w \in Workers, Take(w) PROVE TypeOK'
  BY <1>4 DEF Take, Segs
<1>5. ASSUME NEW w \in Workers, Store(w) PROVE TypeOK'
  <2>1. job[w] \in Segs
    BY <1>5 DEF Store, Segs, Counted
  <2> QED BY <1>5, <2>1 DEF Store
<1>6. ASSUME NEW w \in Workers, WorkerWake(w) \/ Stop(w) PROVE TypeOK'
  BY <1>6 DEF WorkerWake, Stop
<1>7. CASE Reader
  <2>1. CASE Send
    <3>1. next \in Segs /\ next' \in 0..MaxSegs
      BY <1>7, <2>1 DEF Send, Segs, Counted
    <3> QED BY <2>1, <3>1 DEF Send
  <2>2. CASE PollReady \/ SendFails \/ PollDone \/ PollPending
    BY <2>2 DEF PollReady, SendFails, PollDone, PollPending
  <2>3. CASE Wakeup \/ Filler \/ ReaderCancelled
    BY <2>3 DEF Wakeup, Filler, ReaderCancelled
  <2> QED BY <1>7, <2>1, <2>2, <2>3 DEF Reader
<1>8. CASE Cancel
  BY <1>8 DEF Cancel
<1>9. CASE UNCHANGED vars
  BY <1>9 DEF vars
<1> QED BY <1>1, <1>2, <1>3, <1>4, <1>5, <1>6, <1>7, <1>8, <1>9 DEF Next, Producer, Worker

\* The facts the arithmetic of PoolCounted needs from the types.
LEMMA PoolNumbers ==
  ASSUME TypeOK
  PROVE  /\ total \in Nat /\ next \in Nat
         /\ jobs \in Seq(Segs) /\ Len(jobs) \in Nat
         /\ \A i \in 1..Len(jobs) : jobs[i] \in Nat
         /\ \A s \in results : s \in Nat
         /\ \A w \in Workers : job[w] \in Nat
<1>1. total \in Nat /\ next \in Nat
  BY PoolAssumption DEF TypeOK
<1>2. jobs \in Seq(Segs) /\ Len(jobs) \in Nat
  BY DEF TypeOK
<1>3. \A i \in 1..Len(jobs) : jobs[i] \in Segs
  BY <1>2
<1>4. \A s \in Segs : s \in Nat
  BY PoolAssumption DEF Segs
<1> QED BY <1>1, <1>2, <1>3, <1>4 DEF TypeOK

LEMMA PoolCounted == PoolInv /\ [Next]_vars => Counted' /\ ClosedByProducer' /\ next' <= total'
<1> SUFFICES ASSUME PoolInv, [Next]_vars
             PROVE  Counted' /\ ClosedByProducer' /\ next' <= total'
  OBVIOUS
<1> USE DEF PoolInv
<1>0. /\ total \in Nat /\ next \in Nat
      /\ jobs \in Seq(Segs) /\ Len(jobs) \in Nat
      /\ \A i \in 1..Len(jobs) : jobs[i] \in Nat
      /\ \A s \in results : s \in Nat
      /\ \A w \in Workers : job[w] \in Nat
  BY PoolNumbers
<1>1. CASE Submit
  BY <1>0, <1>1 DEF Submit, Counted, ClosedByProducer
<1>2. CASE Enqueue
  BY <1>0, <1>2 DEF Enqueue, Counted, ClosedByProducer
<1>3. CASE CloseInput \/ ProducerWake
  BY <1>3 DEF CloseInput, ProducerWake, Counted, ClosedByProducer
<1>4. ASSUME NEW w \in Workers, Take(w) PROVE Counted' /\ ClosedByProducer' /\ next' <= total'
  <2>1. /\ Len(jobs) >= 1
        /\ Head(jobs) = jobs[1]
        /\ Len(Tail(jobs)) = Len(jobs) - 1
        /\ \A i \in 1..Len(Tail(jobs)) : Tail(jobs)[i] = jobs[i + 1]
    BY <1>0, <1>4 DEF Take
  <2>2. work \in [Workers -> {"idle", "synth", "waking", "stopped"}] /\ job \in [Workers -> Nat]
    BY DEF TypeOK
  <2> QED BY <1>0, <1>4, <2>1, <2>2 DEF Take, Counted, ClosedByProducer
<1>5. ASSUME NEW w \in Workers, Worker(w), ~Take(w)
      PROVE  Counted' /\ ClosedByProducer' /\ next' <= total'
  <2>1. work \in [Workers -> {"idle", "synth", "waking", "stopped"}] /\ job \in [Workers -> Nat]
    BY DEF TypeOK
  <2> QED BY <1>0, <1>5, <2>1 DEF Worker, Store, WorkerWake, Stop, Counted, ClosedByProducer
<1>6. CASE Send
  BY <1>0, <1>6 DEF Send, Counted, ClosedByProducer
<1>7. CASE PollReady
  BY <1>0, <1>7 DEF PollReady, Counted, ClosedByProducer
<1>8. CASE SendFails \/ PollDone \/ PollPending \/ Wakeup \/ Filler \/ ReaderCancelled
  <2>1. UNCHANGED <<total, closed, jobs, results, prod, work, job, next>> /\ reader' # "sending"
    BY <1>8 DEF SendFails, PollDone, PollPending, Wakeup, Filler, ReaderCancelled
  <2> QED BY <2>1 DEF Counted, ClosedByProducer
<1>9. CASE Cancel \/ UNCHANGED vars
  BY <1>9 DEF Cancel, vars, Counted, ClosedByProducer
<1> QED BY <1>1, <1>2, <1>3, <1>4, <1>5, <1>6, <1>7, <1>8, <1>9 DEF Next, Producer, Reader

LEMMA PoolWakeup == PoolInv /\ [Next]_vars => NoLostWakeup'
<1> SUFFICES ASSUME PoolInv, [Next]_vars PROVE NoLostWakeup'
  OBVIOUS
<1> USE DEF PoolInv, NoLostWakeup, Exhausted
<1>1. CASE Submit \/ Enqueue
  BY <1>1 DEF Submit, Enqueue, ClosedByProducer
<1>2. CASE CloseInput \/ ProducerWake
  BY <1>2 DEF CloseInput, ProducerWake
<1>3. ASSUME NEW w \in Workers, Take(w) \/ Store(w) PROVE NoLostWakeup'
  BY <1>3 DEF Take, Store, TypeOK
<1>4. ASSUME NEW w \in Workers, WorkerWake(w) \/ Stop(w) PROVE NoLostWakeup'
  BY <1>4 DEF WorkerWake, Stop, TypeOK
<1>5. CASE Reader
  BY <1>5 DEF Reader, PollReady, Send, SendFails, PollDone, PollPending, Wakeup, Filler, ReaderCancelled
<1>6. CASE Cancel \/ UNCHANGED vars
  BY <1>6 DEF Cancel, vars
<1> QED BY <1>1, <1>2, <1>3, <1>4, <1>5, <1>6 DEF Next, Producer, Worker

LEMMA PoolLastFlag == PoolInv /\ [Next]_vars => LastFlagTruthful'
<1> SUFFICES ASSUME PoolInv, [Next]_vars PROVE LastFlagTruthful'
  OBVIOUS
<1> USE DEF PoolInv, LastFlagTruthful
<1>1. CASE Submit \/ Enqueue \/ CloseInput \/ ProducerWake
  BY <1>1 DEF Submit, Enqueue, CloseInput, ProducerWake, ClosedByProducer
<1>2. ASSUME NEW w \in Workers, Worker(w) PROVE LastFlagTruthful'
  BY <1>2 DEF Worker, Take, Store, WorkerWake, Stop
<1>3. CASE Send
  BY <1>3 DEF Send, Final, Counted, TypeOK
<1>4. CASE PollReady \/ SendFails \/ PollDone \/ PollPending \/ Wakeup \/ Filler \/ ReaderCancelled
  BY <1>4 DEF PollReady, SendFails, PollDone, PollPending, Wakeup, Filler, ReaderCancelled
<1>5. CASE Cancel \/ UNCHANGED vars
  BY <1>5 DEF Cancel, vars
<1> QED BY <1>1, <1>2, <1>3, <1>4, <1>5 DEF Next, Producer, Reader

\* The pool's bookkeeping is consistent in every reachable state.
THEOREM PoolInvariant == Spec => []PoolInv
<1>1. Init => PoolInv
  BY PoolInit
<1>2. PoolInv /\ [Next]_vars => PoolInv'
  BY PoolTypes, PoolCounted, PoolWakeup, PoolLastFlag DEF PoolInv
<1> QED BY <1>1, <1>2, PTL DEF Spec

\* Every reachable state of the pool has the declared types.
THEOREM PoolTypeCorrect == Spec => []TypeOK
<1>1. PoolInv => TypeOK
  BY DEF PoolInv
<1> QED BY <1>1, PoolInvariant, PTL

\* One place in the notification channel is enough, whatever the interleaving.
THEOREM WakeupsNotLost == Spec => []NoLostWakeup
<1>1. PoolInv => NoLostWakeup
  BY DEF PoolInv
<1> QED BY <1>1, PoolInvariant, PTL

\* The last-frame-of-the-turn bit is never set on a segment that others follow.
THEOREM LastFlagSafe == Spec => []LastFlagTruthful
<1>1. PoolInv => LastFlagTruthful
  BY DEF PoolInv
<1> QED BY <1>1, PoolInvariant, PTL

\* The pool delivers as the ordered stream does: in order, nothing skipped, and
\* the end is reported only after the last segment or a cancellation.
THEOREM PoolRefinesStream == Spec => Stream!Spec
<1>1. Init => Stream!Init
  BY DEF Init, Stream!Init
<1>2. PoolInv /\ [Next]_vars => [Stream!Next]_(Stream!vars)
  <2> SUFFICES ASSUME PoolInv, [Next]_vars PROVE [Stream!Next]_(Stream!vars)
    OBVIOUS
  <2> USE DEF PoolInv, Stream!vars
  <2>1. CASE Submit
    BY <2>1 DEF Submit, Stream!Next, Stream!Submit, ClosedByProducer
  <2>2. CASE CloseInput
    BY <2>2 DEF CloseInput, Stream!Next, Stream!Close, ClosedByProducer
  <2>3. CASE Enqueue \/ ProducerWake
    BY <2>3 DEF Enqueue, ProducerWake
  <2>4. ASSUME NEW w \in Workers, Worker(w) PROVE UNCHANGED Stream!vars
    BY <2>4 DEF Worker, Take, Store, WorkerWake, Stop
  <2>5. CASE Send
    BY <2>5 DEF Send, Stream!Next, Stream!Deliver, Counted
  <2>6. CASE PollDone
    BY <2>6 DEF PollDone, Exhausted, Stream!Next, Stream!End, TypeOK
  <2>7. CASE SendFails \/ ReaderCancelled
    BY <2>7 DEF SendFails, ReaderCancelled, Stream!Next, Stream!End
  <2>8. CASE PollReady \/ PollPending \/ Wakeup \/ Filler
    BY <2>8 DEF PollReady, PollPending, Wakeup, Filler
  <2>9. CASE Cancel
    BY <2>9 DEF Cancel, Stream!Next, Stream!Cancel
  <2>10. CASE UNCHANGED vars
    BY <2>10 DEF vars
  <2> QED BY <2>1, <2>2, <2>3, <2>4, <2>5, <2>6, <2>7, <2>8, <2>9, <2>10 DEF Next, Producer, Reader
<1> QED BY <1>1, <1>2, PoolInvariant, PTL DEF Spec, Stream!Spec
=============================================================================
