----------------------------- MODULE GuardProofs -----------------------------
(***************************************************************************)
(* Proofs about the provider guard, for any number of callers, any         *)
(* semaphore capacity and any failure threshold.                           *)
(*                                                                         *)
(* GuardInv is inductive.  It needs its four parts together: the range of  *)
(* sem after a release follows from the count of running calls, and that a *)
(* record clears the flag of nobody else's trial follows from SingleProbe. *)
(***************************************************************************)
EXTENDS Guard, FiniteSetTheorems, TLAPS

GuardInv == TypeOK /\ SemCountsRunning /\ SingleProbe /\ ClosedBelowThreshold

\* What feeding one outcome to the breaker does to it (guard.go, record).
LEMMA RecordBreaker ==
  ASSUME TypeOK, ClosedBelowThreshold,
         NEW p \in BOOLEAN, NEW out \in Outcomes, Record(p, out)
  PROVE  /\ state' \in States
         /\ failures' \in 0..FailureThreshold
         /\ cooling' \in BOOLEAN
         /\ probing' \in BOOLEAN
         /\ probing' = (probing /\ ~p)
         /\ ClosedBelowThreshold'
<1> USE GuardAssumption
<1>1. probing' = (probing /\ ~p) /\ probing' \in BOOLEAN
  BY DEF Record, StillProbing, TypeOK
<1>2. CASE out \in {"ok", "client_error"}
  BY <1>1, <1>2 DEF Record, Closes, TypeOK, States, ClosedBelowThreshold
<1>3. CASE out = "error"
  BY <1>1, <1>3 DEF Record, Closes, TypeOK, States, ClosedBelowThreshold, Trips
<1>4. CASE out = "canceled"
  BY <1>1, <1>4 DEF Record, Closes, TypeOK, States, ClosedBelowThreshold
<1> QED BY <1>2, <1>3, <1>4 DEF Outcomes

\* A call that enters or leaves the provider changes the count by one.
LEMMA RunningSet ==
  ASSUME TypeOK, NEW c \in Calls, NEW v \in {"idle", "queued", "running", "finished"},
         pc' = [pc EXCEPT ![c] = v]
  PROVE  /\ IsFiniteSet(Running)
         /\ v = "running" => Running' = Running \cup {c}
         /\ v # "running" => Running' = Running \ {c}
<1>1. Running \in SUBSET Calls
  BY DEF Running
<1>2. IsFiniteSet(Running)
  BY <1>1, FS_Subset, GuardAssumption
<1>3. v = "running" => Running' = Running \cup {c}
  BY DEF Running, TypeOK
<1>4. v # "running" => Running' = Running \ {c}
  BY DEF Running, TypeOK
<1> QED BY <1>2, <1>3, <1>4

\* The step that ends a provider call, whatever the outcome.
LEMMA FinishPreserves ==
  ASSUME GuardInv, NEW c \in Calls, NEW out \in Outcomes, Finish(c, out),
         timedOut' \in [Calls -> BOOLEAN]
  PROVE  GuardInv'
<1> USE GuardAssumption DEF GuardInv
<1>1. /\ pc' = [pc EXCEPT ![c] = "finished"]
      /\ pc[c] = "running"
      /\ sem' = sem - 1
  BY DEF Finish
<1>2. c \in Running /\ IsFiniteSet(Running) /\ Running' = Running \ {c}
  BY <1>1, RunningSet DEF Running
<1>3. Cardinality(Running') = Cardinality(Running) - 1 /\ Cardinality(Running') \in Nat
  BY <1>2, FS_RemoveElement, FS_CardinalityType
<1>4. SemCountsRunning' /\ sem' \in 0..MaxConcurrency
  BY <1>1, <1>3 DEF SemCountsRunning, TypeOK
<1>5. TypeOK'
  BY <1>4 DEF TypeOK, Finish, breaker
<1>6. SingleProbe'
  BY DEF SingleProbe, Finish, breaker, TypeOK
<1>7. ClosedBelowThreshold'
  BY DEF ClosedBelowThreshold, Finish, breaker
<1> QED BY <1>4, <1>5, <1>6, <1>7

\* The step in which a call leaves the guard: from the queue, or finished.
LEMMA RecordPreserves ==
  ASSUME GuardInv, NEW c \in Calls, NEW out \in Outcomes,
         pc[c] \in {"queued", "finished"},
         Record(probe[c], out),
         pc' = [pc EXCEPT ![c] = "idle"], probe' = [probe EXCEPT ![c] = FALSE],
         UNCHANGED <<sem, op, outcome, timedOut, up>>
  PROVE  GuardInv'
<1> USE GuardAssumption DEF GuardInv
<1>1. probe[c] \in BOOLEAN
  BY DEF TypeOK
<1>2. /\ state' \in States /\ failures' \in 0..FailureThreshold
      /\ cooling' \in BOOLEAN /\ probing' \in BOOLEAN
      /\ probing' = (probing /\ ~probe[c])
      /\ ClosedBelowThreshold'
  BY <1>1, RecordBreaker
<1>3. TypeOK'
  BY <1>2 DEF TypeOK
<1>4. Running' = Running
  BY RunningSet DEF Running
<1>5. SemCountsRunning'
  BY <1>4 DEF SemCountsRunning
<1>6. SingleProbe'
  BY <1>2 DEF SingleProbe, TypeOK
<1> QED BY <1>2, <1>3, <1>5, <1>6

LEMMA ClassifyType ==
  ASSUME NEW err \in Errs, NEW ctxErr \in {"none", "canceled", "deadline"}
  PROVE  Classify(err, ctxErr) \in Outcomes
BY DEF Classify, Outcomes, Errs

LEMMA GuardInit == Init => GuardInv
<1> SUFFICES ASSUME Init PROVE GuardInv
  OBVIOUS
<1>1. Running = {}
  BY DEF Init, Running
<1>2. SemCountsRunning
  BY <1>1, FS_EmptySet DEF SemCountsRunning, Init
<1>3. TypeOK
  <2>1. failures \in 0..FailureThreshold /\ sem \in 0..MaxConcurrency
    BY GuardAssumption DEF Init
  <2>2. probe \in [Calls -> BOOLEAN] /\ timedOut \in [Calls -> BOOLEAN]
    BY Zenon DEF Init
  <2>3. /\ pc \in [Calls -> {"idle", "queued", "running", "finished"}]
        /\ op \in [Calls -> Ops]
        /\ outcome \in [Calls -> Outcomes]
    BY DEF Init, Ops, Outcomes
  <2> QED BY <2>1, <2>2, <2>3 DEF TypeOK, Init, States
<1>4. SingleProbe /\ ClosedBelowThreshold
  BY GuardAssumption DEF SingleProbe, ClosedBelowThreshold, Init
<1> QED BY <1>2, <1>3, <1>4 DEF GuardInv

LEMMA GuardStep == GuardInv /\ [Next]_vars => GuardInv'
<1> SUFFICES ASSUME GuardInv, [Next]_vars PROVE GuardInv'
  OBVIOUS
<1> USE GuardAssumption DEF GuardInv
<1>1. CASE CoolDown
  BY <1>1 DEF CoolDown, TypeOK, SemCountsRunning, SingleProbe, ClosedBelowThreshold, Running
<1>2. CASE Reject
  BY <1>2 DEF Reject, TypeOK, States, SemCountsRunning, SingleProbe, ClosedBelowThreshold, Running
<1>3. CASE Outage
  BY <1>3 DEF Outage, breaker, TypeOK, SemCountsRunning, SingleProbe, ClosedBelowThreshold, Running
<1>4. ASSUME NEW c \in Calls, NEW o \in Ops, Admit(c, o) PROVE GuardInv'
  <2>1. Running' = Running
    BY <1>4, RunningSet DEF Admit, Running
  <2>2. SemCountsRunning'
    BY <1>4, <2>1 DEF SemCountsRunning, Admit
  <2>3. TypeOK'
    BY <1>4 DEF Admit, TypeOK, States
  <2>4. SingleProbe'
    <3>1. CASE state = "closed" /\ UNCHANGED <<state, probing>> /\ probe' = [probe EXCEPT ![c] = FALSE]
      <4>1. ~probe[c]
        BY <1>4 DEF Admit, SingleProbe
      <4>2. probe' = probe
        BY <3>1, <4>1 DEF TypeOK
      <4> QED BY <1>4, <3>1, <4>1, <4>2 DEF Admit, SingleProbe, TypeOK
    <3>2. CASE ~probing /\ probing' = TRUE /\ probe' = [probe EXCEPT ![c] = TRUE]
      BY <1>4, <3>2 DEF Admit, SingleProbe, TypeOK
    <3> QED BY <1>4, <3>1, <3>2 DEF Admit
  <2>5. ClosedBelowThreshold'
    BY <1>4 DEF Admit, ClosedBelowThreshold
  <2> QED BY <2>2, <2>3, <2>4, <2>5
<1>5. ASSUME NEW c \in Calls, Acquire(c) PROVE GuardInv'
  <2>1. c \notin Running /\ IsFiniteSet(Running) /\ Running' = Running \cup {c}
    BY <1>5, RunningSet DEF Acquire, Running
  <2>2. Cardinality(Running') = Cardinality(Running) + 1
    BY <2>1, FS_AddElement
  <2>3. SemCountsRunning'
    BY <1>5, <2>2 DEF SemCountsRunning, Acquire
  <2>4. TypeOK'
    BY <1>5 DEF Acquire, breaker, TypeOK
  <2>5. SingleProbe' /\ ClosedBelowThreshold'
    BY <1>5 DEF Acquire, breaker, SingleProbe, ClosedBelowThreshold, TypeOK
  <2> QED BY <2>3, <2>4, <2>5
<1>6. ASSUME NEW c \in Calls, GiveUp(c) PROVE GuardInv'
  BY <1>6, RecordPreserves DEF GiveUp, Outcomes
<1>7. ASSUME NEW c \in Calls, Ends(c) PROVE GuardInv'
  <2>1. ASSUME NEW err \in Errs, Answer(c, err) PROVE GuardInv'
    <3>1. Classify(err, "none") \in Outcomes
      BY ClassifyType
    <3> QED BY <2>1, <3>1, FinishPreserves DEF Answer, TypeOK
  <2>2. CASE CallerCancels(c)
    <3>1. Classify("canceled", "canceled") \in Outcomes
      BY ClassifyType DEF Errs
    <3> QED BY <2>2, <3>1, FinishPreserves DEF CallerCancels, TypeOK
  <2>3. CASE CallTimesOut(c)
    <3> DEFINE ctxErr == IF op[c] = "stream" THEN "canceled" ELSE "deadline"
    <3>1. Classify("transient", ctxErr) \in Outcomes
      BY ClassifyType DEF Errs
    <3>2. timedOut' \in [Calls -> BOOLEAN]
      BY <2>3 DEF CallTimesOut, TypeOK
    <3>3. Finish(c, Classify("transient", ctxErr))
      BY <2>3 DEF CallTimesOut
    <3> QED BY <3>1, <3>2, <3>3, FinishPreserves
  <2>4. CASE Panic(c)
    BY <2>4, FinishPreserves DEF Panic, Outcomes, TypeOK
  <2> QED BY <1>7, <2>1, <2>2, <2>3, <2>4 DEF Ends
<1>8. ASSUME NEW c \in Calls, FinishRecord(c) PROVE GuardInv'
  <2>1. outcome[c] \in Outcomes
    BY DEF TypeOK
  <2> QED BY <1>8, <2>1, RecordPreserves DEF FinishRecord
<1>9. CASE UNCHANGED vars
  BY <1>9 DEF vars, TypeOK, SemCountsRunning, SingleProbe, ClosedBelowThreshold, Running
<1> QED BY <1>1, <1>2, <1>3, <1>4, <1>5, <1>6, <1>7, <1>8, <1>9 DEF Next

\* The guard's state is well formed, the semaphore counts the calls in flight,
\* there is at most one trial call, and a closed breaker is below its threshold.
THEOREM GuardInvariant == Spec => []GuardInv
<1>1. Init => GuardInv
  BY GuardInit
<1>2. GuardInv /\ [Next]_vars => GuardInv'
  BY GuardStep
<1> QED BY <1>1, <1>2, PTL DEF Spec

\* Every reachable state of the guard has the declared types.
THEOREM TypeCorrect == Spec => []TypeOK
<1>1. GuardInv => TypeOK
  BY DEF GuardInv
<1> QED BY <1>1, GuardInvariant, PTL

\* No slot is leaked and no more than MaxConcurrency provider calls run at once.
THEOREM ConcurrencyBounded == Spec => [](SemCountsRunning /\ Cardinality(Running) <= MaxConcurrency)
<1>1. GuardInv => SemCountsRunning /\ Cardinality(Running) <= MaxConcurrency
  BY GuardAssumption DEF GuardInv, SemCountsRunning, TypeOK
<1> QED BY <1>1, GuardInvariant, PTL

\* The half-open breaker runs one trial at a time, and its flag is never stuck.
THEOREM OneTrial == Spec => []SingleProbe
<1>1. GuardInv => SingleProbe
  BY DEF GuardInv
<1> QED BY <1>1, GuardInvariant, PTL
=============================================================================
