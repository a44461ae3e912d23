------------------------------- MODULE Limiter -------------------------------
(***************************************************************************)
(* The keyed rate limiter of the REST API (infrastructure/ratelimit): a    *)
(* token bucket for each key, and at most MaxKeys keys, the least recently *)
(* used of which makes room for a new one.                                 *)
(*                                                                         *)
(* A token is Interval units, and a bucket gains one unit a tick, so that  *)
(* a fraction of a token counts.  One key is watched from some moment on.  *)
(***************************************************************************)
EXTENDS Integers, Sequences, FiniteSets

CONSTANTS
  Keys,      \* the keys clients come with: a user, an address, an email
  MaxKeys,   \* keys tracked at once (maxKeys)
  Burst,     \* events allowed at once
  Interval,  \* ticks in which one event is refilled
  MaxNow,    \* bound: ticks
  MaxForgets \* bound: times the watched key is forgotten in one window

ASSUME LimiterAssumption ==
  /\ MaxKeys \in Nat \ {0} /\ Burst \in Nat \ {0} /\ Interval \in Nat \ {0}
  /\ MaxNow \in Nat /\ MaxForgets \in Nat

VARIABLES
  now,      \* the clock
  bucket,   \* the bucket of each key, while the key is tracked
  order,    \* the tracked keys, the most recently used first
  watch     \* the watched key: since when, the units it spent, how often it was forgotten,
            \* the other keys used since its last use, and how many pushed it out, in all

limiterVars == <<now, bucket, order, watch>>

Full == Burst * Interval
Untouched == [tokens |-> Full, last |-> 0]
Fresh == [tokens |-> Full, last |-> now]

LimiterInit ==
  /\ now = 0 /\ order = <<>>
  /\ bucket = [k \in Keys |-> Untouched]
  /\ \E k \in Keys : watch = [key |-> k, from |-> 0, spent |-> 0, lost |-> 0, paid |-> 0, others |-> {}]

-----------------------------------------------------------------------------
Refilled_NoCap(b) == b.tokens + (now - b.last)

\* rate.Limiter: what a bucket holds now.
Refilled(b) == IF b.tokens + (now - b.last) <= Full THEN b.tokens + (now - b.last) ELSE Full

\* AllowN: one token is taken, if there is one; a refusal changes nothing.
Grants(b) == Refilled(b) >= Interval
Taken(b) == IF Grants(b) THEN [tokens |-> Refilled(b) - Interval, last |-> now] ELSE b

Tracked == {order[i] : i \in 1..Len(order)}

\* MoveToFront.
Moved_Never(k) == order
Moved(k) ==
  [i \in 1..Len(order) |-> IF i = 1 THEN k
                           ELSE IF \E j \in i..Len(order) : order[j] = k THEN order[i - 1] ELSE order[i]]

\* A new key, in place of the least recently used one when there are too many.
Added(k) ==
  [i \in 1..(IF Len(order) >= MaxKeys THEN Len(order) ELSE Len(order) + 1) |->
     IF i = 1 THEN k ELSE order[i - 1]]

\* The bucket that answers for k.
BucketOf(k) == IF k \in Tracked THEN bucket[k] ELSE Fresh
Allowed(k) == Grants(BucketOf(k))

\* The window that is watched begins now.
Anew(w) == [w EXCEPT !.from = now, !.spent = 0, !.lost = 0, !.paid = 0]

\* The watched key was forgotten, for the others that were used since it was.
Forgotten(w) ==
  IF w.lost < MaxForgets THEN [w EXCEPT !.lost = @ + 1, !.paid = @ + Cardinality(w.others)] ELSE Anew(w)

\* What the watch knows after k was used.
Watched(k) ==
  IF k = watch.key THEN [watch EXCEPT !.others = {}, !.spent = IF Allowed(k) THEN @ + Interval ELSE @]
  ELSE LET w == [watch EXCEPT !.others = @ \cup {k}]
       IN  IF watch.key \in Tracked \ Tracked' THEN Forgotten(w) ELSE w

\* Memory.Allow, whatever it answers.  A key that is forgotten leaves nothing behind.
Use(k) ==
  /\ order' = IF k \in Tracked THEN Moved(k) ELSE Added(k)
  /\ bucket' = [j \in Keys |-> IF j = k THEN Taken(BucketOf(k)) ELSE IF j \in Tracked' THEN bucket[j] ELSE Untouched]
  /\ watch' = Watched(k)
  /\ UNCHANGED now

Tick == now < MaxNow /\ now' = now + 1 /\ UNCHANGED <<bucket, order, watch>>

Watch == watch' = Anew(watch) /\ UNCHANGED <<now, bucket, order>>

LimiterNext == Tick \/ Watch \/ \E k \in Keys : Use(k)

LimiterSpec == LimiterInit /\ [][LimiterNext]_limiterVars

-----------------------------------------------------------------------------
(* Properties *)

\* Over any window a key is allowed no more than Burst events, one more for each
\* interval of the window, and Burst more for each time it was forgotten in it; and
\* for each of those MaxKeys other keys were used since its last use (memory.go, Allow).
RateBound ==
  /\ watch.spent <= Full * (1 + watch.lost) + (now - watch.from)
  /\ MaxKeys * watch.lost <= watch.paid

\* A key is forgotten, and starts afresh, only when MaxKeys other keys were used
\* since it was used last.
ForgottenWhenOld ==
  [][watch.key \in Tracked /\ watch.key \notin Tracked' => Cardinality(watch'.others) >= MaxKeys]_limiterVars

\* memory.go: an evicted bucket starts full again, "since rate.Limiter refills idle
\* buckets anyway": forgetting a key gives it nothing it would not have had.
ForgettingGivesNothing ==
  [][\A k \in Tracked : k \notin Tracked' => Refilled(bucket[k]) = Full]_limiterVars
=============================================================================
