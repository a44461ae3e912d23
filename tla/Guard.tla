-------------------------------- MODULE Guard --------------------------------
(***************************************************************************)
(* The provider guard of internal/adapter/gateway/guard.go: a counting     *)
(* semaphore in front of a circuit breaker.  Every call to a speech or     *)
(* language provider takes the path admit - acquire - call - release -     *)
(* record, and the mutex is held only inside admit and inside record, so   *)
(* those two are atomic steps and everything else interleaves.             *)
(*                                                                         *)
(* A member of Calls is a caller slot: a goroutine that makes guarded      *)
(* calls one after the other.                                              *)
(***************************************************************************)
EXTENDS Integers, FiniteSets

CONSTANTS
  Calls,             \* caller slots
  MaxConcurrency,    \* capacity of the semaphore
  FailureThreshold   \* consecutive failures that open the breaker

ASSUME GuardAssumption ==
  /\ IsFiniteSet(Calls)
  /\ MaxConcurrency \in Nat \ {0}
  /\ FailureThreshold \in Nat \ {0}

VARIABLES
  state,      \* "closed", "halfopen" or "open"
  failures,   \* consecutive failures, counted up to FailureThreshold: the code
              \* only ever asks whether it has been reached
  cooling,    \* now is before openUntil
  probing,    \* the half-open trial call is in flight
  sem,        \* slots taken in the semaphore channel
  pc,         \* where each caller is: idle, queued, running, finished
  op,         \* the kind of call: "unary" (asr, tts, complete) or "stream"
  probe,      \* the call was admitted as the trial call
  outcome,    \* how the call ended, once it has
  timedOut,   \* the caller's own time limit cut the call off
  up          \* the provider answers (environment)

breaker == <<state, failures, cooling, probing>>
vars == <<state, failures, cooling, probing, sem, pc, op, probe, outcome, timedOut, up>>

States   == {"closed", "halfopen", "open"}
Ops      == {"unary", "stream"}
Outcomes == {"ok", "canceled", "client_error", "error"}
Errs     == {"none", "canceled", "permanent", "transient"}

-----------------------------------------------------------------------------
Classify(err, ctxErr) ==
  CASE err = "none"                                        -> "ok"
    [] err # "none" /\ "canceled" \in {err, ctxErr}        -> "canceled"
    [] err = "permanent" /\ ctxErr # "canceled"            -> "client_error"
    [] OTHER                                               -> "error"

\* A failure opens the breaker when it is the trial's, or the last one allowed.
Trips(p, n) == p \/ (state = "closed" /\ n >= FailureThreshold)

StillProbing_Any(p, out)  == FALSE
StillProbing(p, out)      == probing /\ ~p

Closes_NotFailed(out) == out # "error"
\* A result closes the breaker, and so does the provider's verdict that the request is
\* wrong: it has answered.  A cancelled call says nothing.
Closes(out) == out \in {"ok", "client_error"}

\* record(probe, outcome), under the mutex.
Record(p, out) ==
  LET seen == IF failures < FailureThreshold THEN failures + 1 ELSE failures
  IN  /\ probing' = StillProbing(p, out)
      /\ \/ /\ Closes(out)
            /\ failures' = 0
            /\ state' = "closed"
            /\ UNCHANGED cooling
         \/ /\ out = "error"
            /\ failures' = seen
            /\ state' = IF Trips(p, seen) THEN "open" ELSE state
            /\ cooling' = (Trips(p, seen) \/ cooling)
         \/ /\ out # "error" /\ ~Closes(out)
            /\ UNCHANGED <<failures, state, cooling>>

-----------------------------------------------------------------------------
Init ==
  /\ state = "closed" /\ failures = 0 /\ cooling = FALSE /\ probing = FALSE
  /\ sem = 0
  /\ pc = [c \in Calls |-> "idle"]
  /\ op = [c \in Calls |-> "unary"]
  /\ probe = [c \in Calls |-> FALSE]
  /\ outcome = [c \in Calls |-> "ok"]
  /\ timedOut = [c \in Calls |-> FALSE]
  /\ up = TRUE

\* openUntil passes.
CoolDown ==
  /\ cooling
  /\ cooling' = FALSE
  /\ UNCHANGED <<state, failures, probing, sem, pc, op, probe, outcome, timedOut, up>>

\* admit lets a call start: freely while closed, as the only trial otherwise.
Admit(c, o) ==
  /\ pc[c] = "idle"
  /\ \/ state = "closed" /\ UNCHANGED <<state, probing>> /\ probe' = [probe EXCEPT ![c] = FALSE]
     \/ /\ state = "halfopen" \/ (state = "open" /\ ~cooling)
        /\ ~probing
        /\ state' = "halfopen" /\ probing' = TRUE
        /\ probe' = [probe EXCEPT ![c] = TRUE]
  /\ pc' = [pc EXCEPT ![c] = "queued"]
  /\ op' = [op EXCEPT ![c] = o]
  /\ timedOut' = [timedOut EXCEPT ![c] = FALSE]
  /\ UNCHANGED <<failures, cooling, sem, outcome, up>>

\* admit fails fast while a trial is in flight.  The first rejected call after
\* openUntil still moves the breaker from open to half-open.
Reject ==
  /\ state = "open" /\ ~cooling /\ probing
  /\ state' = "halfopen"
  /\ UNCHANGED <<failures, cooling, probing, sem, pc, op, probe, outcome, timedOut, up>>

Acquire(c) ==
  /\ pc[c] = "queued"
  /\ sem < MaxConcurrency
  /\ sem' = sem + 1
  /\ pc' = [pc EXCEPT ![c] = "running"]
  /\ UNCHANGED <<breaker, op, probe, outcome, timedOut, up>>

GiveUp_NoRecord(c) ==
  /\ pc[c] = "queued"
  /\ pc' = [pc EXCEPT ![c] = "idle"]
  /\ probe' = [probe EXCEPT ![c] = FALSE]
  /\ UNCHANGED <<breaker, sem, op, outcome, timedOut, up>>

\* The caller's context ended while it waited for a slot.
GiveUp(c) ==
  /\ pc[c] = "queued"
  /\ Record(probe[c], "canceled")
  /\ pc' = [pc EXCEPT ![c] = "idle"]
  /\ probe' = [probe EXCEPT ![c] = FALSE]
  /\ UNCHANGED <<sem, op, outcome, timedOut, up>>

Finish_KeepsSlotOnError(c, out) ==
  /\ pc[c] = "running"
  /\ sem' = IF out = "error" THEN sem ELSE sem - 1
  /\ outcome' = [outcome EXCEPT ![c] = out]
  /\ pc' = [pc EXCEPT ![c] = "finished"]
  /\ UNCHANGED <<breaker, op, probe, up>>

\* The call is over, its outcome is known and its slot is given back.  The
\* breaker does not hear of it before FinishRecord.
Finish(c, out) ==
  /\ pc[c] = "running"
  /\ sem' = sem - 1
  /\ outcome' = [outcome EXCEPT ![c] = out]
  /\ pc' = [pc EXCEPT ![c] = "finished"]
  /\ UNCHANGED <<breaker, op, probe, up>>

\* The provider answers: with a result, or with an error of its own.
Answer(c, err) ==
  /\ err \in IF up THEN {"none", "permanent"} ELSE {"transient"}
  /\ Finish(c, Classify(err, "none"))
  /\ UNCHANGED timedOut

\* The learner interrupted the turn, or the stream's consumer stopped early.
CallerCancels(c) == Finish(c, Classify("canceled", "canceled")) /\ UNCHANGED timedOut

\* The provider stays silent past the caller's limit.  A unary call runs under
\* context.WithTimeout; the reply stream is cut by a watchdog that cancels its
\* context (turn.go, stream).
CallTimesOut(c) ==
  /\ ~up
  /\ Finish(c, Classify("transient", IF op[c] = "stream" THEN "canceled" ELSE "deadline"))
  /\ timedOut' = [timedOut EXCEPT ![c] = TRUE]

\* A panicking provider or consumer: the deferred bookkeeping counts a failure.
Panic(c) == Finish(c, "error") /\ UNCHANGED timedOut

FinishRecord(c) ==
  /\ pc[c] = "finished"
  /\ Record(probe[c], outcome[c])
  /\ pc' = [pc EXCEPT ![c] = "idle"]
  /\ probe' = [probe EXCEPT ![c] = FALSE]
  /\ UNCHANGED <<sem, op, outcome, timedOut, up>>

\* Environment: the provider goes down or comes back.
Outage == up' = ~up /\ UNCHANGED <<breaker, sem, pc, op, probe, outcome, timedOut>>

Ends(c) ==
  \/ \E err \in Errs : Answer(c, err)
  \/ CallerCancels(c)
  \/ CallTimesOut(c)
  \/ Panic(c)

Next ==
  \/ CoolDown
  \/ Reject
  \/ Outage
  \/ \E c \in Calls : \/ \E o \in Ops : Admit(c, o)
                      \/ Acquire(c)
                      \/ GiveUp(c)
                      \/ Ends(c)
                      \/ FinishRecord(c)

Spec == Init /\ [][Next]_vars

\* Goroutines run, timers fire, and every guarded call is bounded by a timeout
\* or a turn's deadline, while it waits for a slot and while it runs.
Progress ==
  /\ WF_vars(CoolDown)
  /\ \A c \in Calls : /\ WF_vars(Acquire(c) \/ GiveUp(c))
                      /\ WF_vars(Ends(c))
                      /\ WF_vars(FinishRecord(c))

\* A provider that is down refuses the call, or lets a unary one run into its limit
\* (a stream's watchdog makes a cancelled call of it).
FailsVisibly(c) == Answer(c, "transient") \/ (op[c] = "unary" /\ CallTimesOut(c))

\* Callers keep coming, not every one of them loses patience, and not every call to a
\* provider that is down is a stream that is cut or a turn that is interrupted.
KeepCalling ==
  /\ WF_vars(\E c \in Calls, o \in Ops : Admit(c, o))
  /\ \A c \in Calls : SF_vars(Acquire(c)) /\ SF_vars(Answer(c, "none"))
  /\ SF_vars(\E c \in Calls : FailsVisibly(c))

FairSpec == Spec /\ Progress /\ KeepCalling

-----------------------------------------------------------------------------
(* Properties *)

\* The breaker's fields stay in their ranges, and the semaphore between none and
\* all of its slots (guard.go, the guard struct).
TypeOK ==
  /\ state \in States
  /\ failures \in 0..FailureThreshold
  /\ cooling \in BOOLEAN /\ probing \in BOOLEAN /\ up \in BOOLEAN
  /\ sem \in 0..MaxConcurrency
  /\ pc \in [Calls -> {"idle", "queued", "running", "finished"}]
  /\ op \in [Calls -> Ops]
  /\ probe \in [Calls -> BOOLEAN]
  /\ outcome \in [Calls -> Outcomes]
  /\ timedOut \in [Calls -> BOOLEAN]

\* The semaphore counts exactly the provider calls in flight: no path through a
\* call (answered, cancelled, timed out, panicked) leaks a slot or returns one
\* it does not hold (guard.go, acquire and the deferred release).
Running == {c \in Calls : pc[c] = "running"}
SemCountsRunning == sem = Cardinality(Running)

\* The probing flag is set exactly while one admitted trial call is unrecorded,
\* and there is never a second trial: a cancelled, panicked or slot-starved
\* trial leaves no stuck flag, and a straggler's record does not clear it.
SingleProbe ==
  /\ probing <=> \E c \in Calls : probe[c]
  /\ \A c, d \in Calls : probe[c] /\ probe[d] => c = d
  /\ \A c \in Calls : probe[c] => pc[c] # "idle"

\* A closed breaker has not yet seen FailureThreshold consecutive failures: the
\* failure that reaches the limit opens it, whichever call brings it.
ClosedBelowThreshold == state = "closed" => failures < FailureThreshold

\* An outage is noticed, and stays noticed: once the provider is down for good the
\* breaker opens and is never closed again, though answers from before the outage are
\* recorded late, calls and trials are cancelled in between, and trials are overtaken
\* (guard.go, record: a cancelled call neither closes nor restarts the count).
OutageIsSeen == <>[]~up => <>[](state # "closed")

\* Once the provider is back for good, the breaker does not stay open, nor
\* half-open behind a trial call that never reports.
Recovers == <>[]up => []<>(state = "closed")

(* What the code's comments say, and the code does not do *)

\* guard.go:46-48: "then a single probe call decides whether the breaker closes again".
OnlyProbeCloses ==
  [][state # "closed" /\ state' = "closed" => \E c \in Calls : probe[c] /\ ~probe'[c]]_vars

\* guard.go:40: "consecutive failures that open the breaker".
OpensAtThreshold ==
  [][state = "closed" /\ state' = "open" => failures' = FailureThreshold]_vars

\* guard.go:18: "timeout, network error, 429, 5xx: counts toward opening the breaker".
TimeoutsCount == \A c \in Calls : pc[c] = "finished" /\ timedOut[c] => outcome[c] = "error"
=============================================================================
