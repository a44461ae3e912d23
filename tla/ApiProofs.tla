------------------------------ MODULE ApiProofs ------------------------------
(***************************************************************************)
(* The limiter's budget, and the pages of a listing, for any users, keys,  *)
(* requests, capacity, budget, interval and page size.                     *)
(*                                                                         *)
(* The budget: within a window, what a tracked key spent and what its      *)
(* bucket still holds is at most a full bucket, another for each time it   *)
(* was forgotten, and what the clock brought until the bucket was last     *)
(* brought up to date (Spending).  The order of                            *)
(* the keys: whatever is before the watched key was used after it          *)
(* (Recent).  The pages: what a listing must show is shown, or behind its  *)
(* cursor (Covered), whatever commits between two pages.                   *)
(***************************************************************************)
EXTENDS Api, FiniteSetTheorems, SequenceTheorems, TLAPS


WatchRec == [key : Keys, from : Nat, spent : Nat, lost : Nat, paid : Nat, others : SUBSET Keys]

\* The limiter keeps its types; the list holds at most MaxKeys keys.
LimiterTypes ==
  /\ now \in Nat
  /\ order \in Seq(Keys) /\ Len(order) <= MaxKeys
  /\ bucket \in [Keys -> [tokens : 0..Full, last : Nat]]
  /\ \A k \in Keys : bucket[k].last <= now
  /\ watch \in WatchRec
  /\ watch.from <= now
  /\ IsFiniteSet(watch.others)

\* No key has two places in the list.
Distinct == \A i, j \in 1..Len(order) : order[i] = order[j] => i = j

\* The keys before the watched one were used since it was.
Recent == \A i, j \in 1..Len(order) : i < j /\ order[j] = watch.key => order[i] \in watch.others

\* The bursts the watched key has had, or has, in the window.
Bursts == Full * (1 + watch.lost)

\* The watched key's account of the window.
Spending ==
  IF watch.key \in Tracked THEN
    LET b == bucket[watch.key] IN
    IF b.last >= watch.from THEN watch.spent + b.tokens <= Bursts + (b.last - watch.from)
                            ELSE watch.spent = 0 /\ watch.lost = 0
  ELSE watch.spent <= Full * watch.lost + (now - watch.from)

LimiterInv == LimiterTypes /\ Distinct /\ Recent /\ Spending /\ RateBound

-----------------------------------------------------------------------------
(* The list *)

\* A full bucket is a number of units.
LEMMA FullIsNat == Full \in Nat
BY LimiterAssumption DEF Full

\* A tracked key has a place of its own, and moving it to the front shifts the
\* keys before that place (memory.go, MoveToFront).
LEMMA MovedShifts ==
  ASSUME NEW k \in Tracked, LimiterTypes, Distinct
  PROVE  \E p \in 1..Len(order) :
           /\ order[p] = k
           /\ Moved(k) = [i \in 1..Len(order) |-> IF i = 1 THEN k ELSE IF i <= p THEN order[i - 1] ELSE order[i]]
<1>1. PICK p \in 1..Len(order) : order[p] = k
  BY DEF Tracked
<1>2. Len(order) \in Nat
  BY DEF LimiterTypes
<1>3. ASSUME NEW i \in 1..Len(order)
      PROVE  (\E j \in i..Len(order) : order[j] = k) <=> i <= p
  <2>1. i <= p => p \in i..Len(order)
    BY <1>2
  <2>2. ASSUME NEW j \in i..Len(order), order[j] = k PROVE i <= p
    BY <1>1, <1>2, <2>2 DEF Distinct
  <2> QED BY <1>1, <2>1, <2>2
<1>4. Moved(k) = [i \in 1..Len(order) |-> IF i = 1 THEN k ELSE IF i <= p THEN order[i - 1] ELSE order[i]]
  BY <1>3 DEF Moved
<1> QED BY <1>1, <1>4

\* What an event for k does to the list, whether k is there or not: k comes first,
\* and every other place is taken by a key that was there, in the same order.
LEMMA UseShifts ==
  ASSUME NEW k \in Keys, LimiterTypes, Distinct,
         order' = IF k \in Tracked THEN Moved(k) ELSE Added(k)
  PROVE  /\ order' \in Seq(Keys) /\ Len(order') \in 1..MaxKeys /\ order'[1] = k
         /\ \E at \in [2..Len(order') -> 1..Len(order)] :
              /\ \A i \in 2..Len(order') : order'[i] = order[at[i]] /\ order'[i] # k
              /\ \A i, j \in 2..Len(order') : i < j => at[i] < at[j]
<1>1. Len(order) \in Nat /\ Len(order) <= MaxKeys /\ MaxKeys \in Nat /\ MaxKeys >= 1
  BY LimiterAssumption DEF LimiterTypes
<1>2. \A i \in 1..Len(order) : order[i] \in Keys
  BY DEF LimiterTypes
<1>3. CASE k \in Tracked
  <2>1. PICK p \in 1..Len(order) :
          /\ order[p] = k
          /\ Moved(k) = [i \in 1..Len(order) |-> IF i = 1 THEN k ELSE IF i <= p THEN order[i - 1] ELSE order[i]]
    BY <1>3, MovedShifts
  <2> DEFINE at == [i \in 2..Len(order) |-> IF i <= p THEN i - 1 ELSE i]
  <2>2. order' = [i \in 1..Len(order) |-> IF i = 1 THEN k ELSE IF i <= p THEN order[i - 1] ELSE order[i]]
    BY <1>3, <2>1
  <2>3. order' \in [1..Len(order) -> Keys]
    BY <1>1, <1>2, <2>2, SMTT(60)
  <2>4. order' \in Seq(Keys) /\ Len(order') = Len(order) /\ Len(order) >= 1
    BY <1>1, <2>1, <2>3, SMTT(60)
  <2>5. at \in [2..Len(order') -> 1..Len(order)]
    BY <1>1, <2>4
  <2>6. \A i \in 2..Len(order') : order'[i] = order[at[i]] /\ at[i] # p
    BY <1>1, <2>2, <2>4
  <2>7. ASSUME NEW i \in 2..Len(order') PROVE order'[i] # k
    <3>1. at[i] \in 1..Len(order) /\ order'[i] = order[at[i]] /\ at[i] # p
      BY <2>5, <2>6
    <3> HIDE DEF at
    <3> QED BY <2>1, <3>1 DEF Distinct
  <2>8. \A i, j \in 2..Len(order') : i < j => at[i] < at[j]
    BY <1>1, <2>4
  <2>9. order'[1] = k
    BY <1>1, <2>2, <2>4
  <2> HIDE DEF at
  <2> QED BY <1>1, <2>4, <2>5, <2>6, <2>7, <2>8, <2>9, SMTT(60)
<1>4. CASE k \notin Tracked
  <2> DEFINE n == IF Len(order) >= MaxKeys THEN Len(order) ELSE Len(order) + 1
             at == [i \in 2..n |-> i - 1]
  <2>1. order' = [i \in 1..n |-> IF i = 1 THEN k ELSE order[i - 1]]
    BY <1>4 DEF Added
  <2>2. n \in 1..MaxKeys /\ n <= Len(order) + 1
    BY <1>1
  <2> HIDE DEF n
  <2>3. order' \in [1..n -> Keys]
    <3>1. ASSUME NEW i \in 1..n, i # 1 PROVE order[i - 1] \in Keys
      <4>1. i - 1 \in 1..Len(order)
        BY <1>1, <2>2, <3>1
      <4> QED BY <1>2, <4>1
    <3> QED BY <2>1, <3>1
  <2>4. order' \in Seq(Keys) /\ Len(order') = n
    BY <2>2, <2>3
  <2>5. at \in [2..Len(order') -> 1..Len(order)]
    BY <1>1, <2>2, <2>4
  <2>6. \A i \in 2..Len(order') : order'[i] = order[at[i]]
    BY <1>1, <2>1, <2>2, <2>4
  <2>7. ASSUME NEW i \in 2..Len(order') PROVE order'[i] # k
    <3>1. at[i] \in 1..Len(order) /\ order'[i] = order[at[i]]
      BY <2>5, <2>6
    <3> HIDE DEF at
    <3> QED BY <1>4, <3>1 DEF Tracked
  <2>8. \A i, j \in 2..Len(order') : i < j => at[i] < at[j]
    BY <1>1, <2>2, <2>4
  <2>9. order'[1] = k
    BY <2>1, <2>2
  <2> HIDE DEF at
  <2> QED BY <2>2, <2>4, <2>5, <2>6, <2>7, <2>8, <2>9
<1> QED BY <1>3, <1>4

\* What the list holds after an event for k was tracked before, or is k.
LEMMA UseTracks ==
  ASSUME NEW k \in Keys, LimiterTypes, Distinct,
         order' = IF k \in Tracked THEN Moved(k) ELSE Added(k)
  PROVE  /\ order' \in Seq(Keys) /\ Len(order') <= MaxKeys
         /\ Distinct'
         /\ k \in Tracked' /\ Tracked' \subseteq Tracked \cup {k}
<1>1. /\ order' \in Seq(Keys) /\ Len(order') \in 1..MaxKeys /\ order'[1] = k
      /\ \E at \in [2..Len(order') -> 1..Len(order)] :
           /\ \A i \in 2..Len(order') : order'[i] = order[at[i]] /\ order'[i] # k
           /\ \A i, j \in 2..Len(order') : i < j => at[i] < at[j]
  BY UseShifts
<1>2. PICK at \in [2..Len(order') -> 1..Len(order)] :
           /\ \A i \in 2..Len(order') : order'[i] = order[at[i]] /\ order'[i] # k
           /\ \A i, j \in 2..Len(order') : i < j => at[i] < at[j]
  BY <1>1
<1>3. MaxKeys \in Nat /\ Len(order') \in Nat /\ Len(order') >= 1 /\ Len(order) \in Nat
  BY <1>1, LimiterAssumption, SMTT(60) DEF LimiterTypes
<1>4. ASSUME NEW i \in 1..Len(order'), NEW j \in 1..Len(order'), i < j
      PROVE  order'[i] # order'[j]
  <2>1. j \in 2..Len(order')
    BY <1>3, <1>4
  <2>2. CASE i = 1
    BY <1>1, <1>2, <2>1, <2>2
  <2>3. CASE i # 1
    <3>1. i \in 2..Len(order')
      BY <1>3, <2>3
    <3>2. at[i] \in 1..Len(order) /\ at[j] \in 1..Len(order) /\ at[i] < at[j]
      BY <1>2, <1>4, <2>1, <3>1
    <3>3. at[i] # at[j]
      BY <1>3, <3>2
    <3> QED BY <1>2, <2>1, <3>1, <3>2, <3>3 DEF Distinct
  <2> QED BY <2>2, <2>3
<1>5. Distinct'
  <2> SUFFICES ASSUME NEW i \in 1..Len(order'), NEW j \in 1..Len(order'), order'[i] = order'[j] PROVE i = j
    BY DEF Distinct
  <2>1. i < j \/ j < i \/ i = j
    BY <1>3
  <2> QED BY <1>4, <2>1
<1>6. k \in Tracked'
  <2>1. 1 \in 1..Len(order')
    BY <1>3
  <2> QED BY <1>1, <2>1 DEF Tracked
<1>7. Tracked' \subseteq Tracked \cup {k}
  <2> SUFFICES ASSUME NEW i \in 1..Len(order') PROVE order'[i] \in Tracked \cup {k}
    BY DEF Tracked
  <2>1. CASE i = 1
    BY <1>1, <2>1
  <2>2. CASE i # 1
    <3>1. i \in 2..Len(order')
      BY <1>3, <2>2
    <3>2. at[i] \in 1..Len(order) /\ order'[i] = order[at[i]]
      BY <1>2, <3>1
    <3> QED BY <3>2 DEF Tracked
  <2> QED BY <2>1, <2>2
<1> QED BY <1>1, <1>3, <1>5, <1>6, <1>7

-----------------------------------------------------------------------------
(* The bucket *)

\* The bucket that answers holds at most Burst tokens, also after it answered, and
\* was last brought up to date at some earlier moment, or now.
LEMMA BucketHolds ==
  ASSUME NEW k \in Keys, LimiterTypes
  PROVE  LET b == BucketOf(k) IN
         /\ b \in [tokens : 0..Full, last : Nat] /\ b.last <= now
         /\ Taken(b) \in [tokens : 0..Full, last : Nat] /\ Taken(b).last <= now
         /\ Refilled(b) \in 0..Full /\ Refilled(b) <= b.tokens + (now - b.last)
         /\ Taken(b) = IF Allowed(k) THEN [tokens |-> Refilled(b) - Interval, last |-> now] ELSE b
         /\ Allowed(k) => Refilled(b) >= Interval
<1> DEFINE b == BucketOf(k)
<1>1. Full \in Nat /\ Interval \in Nat /\ now \in Nat
  BY FullIsNat, LimiterAssumption DEF LimiterTypes
<1>2. b \in [tokens : 0..Full, last : Nat] /\ b.last <= now
  BY <1>1 DEF LimiterTypes, BucketOf, Fresh
<1> HIDE DEF b
<1>3. Refilled(b) \in 0..Full /\ Refilled(b) <= b.tokens + (now - b.last)
  BY <1>1, <1>2 DEF Refilled
<1>4. Taken(b) = IF Grants(b) THEN [tokens |-> Refilled(b) - Interval, last |-> now] ELSE b
  BY DEF Taken
<1>5. Allowed(k) <=> Grants(b)
  BY DEF Allowed, b
<1>6. Grants(b) => Refilled(b) >= Interval
  BY DEF Grants
<1>7. Taken(b) \in [tokens : 0..Full, last : Nat] /\ Taken(b).last <= now
  <2>1. CASE Grants(b)
    <3>1. Refilled(b) - Interval \in 0..Full
      BY <1>1, <1>3, <1>6, <2>1
    <3> QED BY <1>1, <1>4, <2>1, <3>1
  <2>2. CASE ~Grants(b)
    BY <1>2, <1>4, <2>2
  <2> QED BY <2>1, <2>2
<1> QED BY <1>2, <1>3, <1>4, <1>5, <1>6, <1>7 DEF b

-----------------------------------------------------------------------------
(* The invariant *)

LEMMA InitInv == LimiterInit => LimiterInv
<1> SUFFICES ASSUME LimiterInit PROVE LimiterInv
  OBVIOUS
<1>1. Full \in Nat
  BY FullIsNat
<1>2. now = 0 /\ order = <<>> /\ Len(order) = 0 /\ order \in Seq(Keys)
  BY DEF LimiterInit
<1>3. bucket \in [Keys -> [tokens : 0..Full, last : Nat]] /\ \A k \in Keys : bucket[k].last <= now
  BY <1>1 DEF LimiterInit, Untouched
<1>4. PICK k \in Keys : watch = [key |-> k, from |-> 0, spent |-> 0, lost |-> 0, paid |-> 0, others |-> {}]
  BY DEF LimiterInit
<1>5. MaxKeys \in Nat
  BY LimiterAssumption
<1>6. LimiterTypes
  BY <1>2, <1>3, <1>4, <1>5, FS_EmptySet DEF LimiterTypes, WatchRec
<1>7. Tracked = {}
  BY <1>2 DEF Tracked
<1>8. Spending /\ RateBound
  BY <1>1, <1>2, <1>4, <1>5, <1>7 DEF Spending, RateBound
<1> QED BY <1>2, <1>6, <1>8 DEF LimiterInv, Distinct, Recent

\* A burst more for each time the key was forgotten.
LEMMA Products ==
  ASSUME NEW n \in Nat
  PROVE  /\ Full * n \in Nat /\ Full * (1 + n) \in Nat /\ MaxKeys * n \in Nat
         /\ Full * (1 + n) = Full + Full * n /\ MaxKeys * (n + 1) = MaxKeys * n + MaxKeys
         /\ Full * 0 = 0 /\ Full * (1 + 0) = Full /\ MaxKeys * 0 = 0
<1>1. Full \in Nat /\ MaxKeys \in Nat
  BY FullIsNat, LimiterAssumption
<1> QED BY <1>1, SMT

\* The clock changes no account, and the bound grows with it.
LEMMA TickInv == LimiterInv /\ Tick => LimiterInv'
<1> SUFFICES ASSUME LimiterInv, Tick PROVE LimiterInv'
  OBVIOUS
<1>1. now' = now + 1 /\ bucket' = bucket /\ order' = order /\ watch' = watch /\ now \in Nat /\ Full \in Nat
  BY FullIsNat DEF Tick, LimiterInv, LimiterTypes
<1>2. LimiterTypes'
  <2>1. \A k \in Keys : bucket[k].last \in Nat /\ bucket[k].last <= now
    BY DEF LimiterInv, LimiterTypes
  <2>2. watch.from \in Nat /\ watch.from <= now
    BY DEF LimiterInv, LimiterTypes, WatchRec
  <2>3. \A k \in Keys : bucket[k].last <= now + 1
    BY <1>1, <2>1
  <2>4. watch.from <= now + 1
    BY <1>1, <2>2
  <2> QED BY <1>1, <2>3, <2>4 DEF LimiterInv, LimiterTypes
<1>3. Distinct' /\ Recent'
  BY <1>1 DEF LimiterInv, Distinct, Recent
<1>4. Spending' /\ RateBound'
  <2>1. watch.from \in Nat /\ watch.spent \in Nat /\ Full * watch.lost \in Nat /\ Bursts \in Nat
    BY <1>1, Products DEF LimiterInv, LimiterTypes, WatchRec, Bursts
  <2>2. Bursts' = Bursts /\ Tracked' = Tracked
    BY <1>1 DEF Bursts, Tracked
  <2>3. Spending'
    BY <1>1, <2>1, <2>2 DEF LimiterInv, Spending
  <2>4. RateBound'
    BY <1>1, <2>1, <2>2 DEF LimiterInv, RateBound, Bursts
  <2> QED BY <2>3, <2>4
<1> QED BY <1>2, <1>3, <1>4 DEF LimiterInv

\* What a watch is made of.
LEMMA AnewFields ==
  ASSUME NEW w \in WatchRec, now \in Nat
  PROVE  /\ Anew(w) \in WatchRec /\ Anew(w).key = w.key /\ Anew(w).others = w.others /\ Anew(w).from = now
         /\ Anew(w).spent = 0 /\ Anew(w).lost = 0 /\ Anew(w).paid = 0
BY DEF WatchRec, Anew

\* A window that begins has spent nothing.
LEMMA WatchInv == LimiterInv /\ Watch => LimiterInv'
<1> SUFFICES ASSUME LimiterInv, Watch PROVE LimiterInv'
  OBVIOUS
<1>1. now' = now /\ bucket' = bucket /\ order' = order /\ now \in Nat /\ Full \in Nat
  BY FullIsNat DEF Watch, LimiterInv, LimiterTypes
<1>2. watch \in WatchRec
  BY DEF LimiterInv, LimiterTypes
<1>3. watch' \in WatchRec /\ watch'.key = watch.key /\ watch'.others = watch.others /\ watch'.from = now
      /\ watch'.spent = 0 /\ watch'.lost = 0 /\ watch'.paid = 0
  BY <1>1, <1>2, AnewFields DEF Watch
<1>4. LimiterTypes'
  BY <1>1, <1>3 DEF LimiterInv, LimiterTypes
<1>5. Distinct' /\ Recent'
  BY <1>1, <1>3 DEF LimiterInv, Distinct, Recent
<1>6. Spending'
  <2>1. bucket[watch.key].last \in Nat /\ bucket[watch.key].tokens \in 0..Full /\ bucket[watch.key].last <= now
    BY <1>2 DEF LimiterInv, LimiterTypes, WatchRec
  <2>2. Bursts' = Full /\ Full * watch'.lost = 0 /\ Tracked' = Tracked
    BY <1>1, <1>3, Products DEF Bursts, Tracked
  <2> QED BY <1>1, <1>3, <2>1, <2>2 DEF Spending
<1>7. RateBound'
  BY <1>1, <1>3, Products DEF RateBound
<1> QED BY <1>4, <1>5, <1>6, <1>7 DEF LimiterInv

-----------------------------------------------------------------------------
(* An event *)

\* What becomes of the watch when a key is used.
LEMMA WatchedFields ==
  ASSUME NEW k \in Keys, LimiterTypes, Use(k)
  PROVE  /\ watch' \in WatchRec /\ watch'.from <= now /\ watch'.key = watch.key
         /\ watch'.others = IF k = watch.key THEN {} ELSE watch.others \cup {k}
         /\ IsFiniteSet(watch'.others)
         /\ k = watch.key =>
              /\ watch'.from = watch.from /\ watch'.lost = watch.lost /\ watch'.paid = watch.paid
              /\ watch'.spent = IF Allowed(k) THEN watch.spent + Interval ELSE watch.spent
         /\ k # watch.key /\ watch.key \notin Tracked \ Tracked' =>
              /\ watch'.from = watch.from /\ watch'.spent = watch.spent
              /\ watch'.lost = watch.lost /\ watch'.paid = watch.paid
         /\ k # watch.key /\ watch.key \in Tracked \ Tracked' =>
              \/ /\ watch'.from = watch.from /\ watch'.spent = watch.spent /\ watch'.lost = watch.lost + 1
                 /\ watch'.paid = watch.paid + Cardinality(watch'.others)
              \/ watch'.from = now /\ watch'.spent = 0 /\ watch'.lost = 0 /\ watch'.paid = 0
<1>1. watch \in WatchRec /\ watch.from <= now /\ now \in Nat /\ watch' = Watched(k)
  BY DEF LimiterTypes, Use
<1>2. CASE k = watch.key
  <2> DEFINE v == [watch EXCEPT !.others = {}]
             n == IF Allowed(k) THEN watch.spent + Interval ELSE watch.spent
  <2>1. watch' = [v EXCEPT !.spent = n]
    BY <1>1, <1>2 DEF Watched, WatchRec
  <2>2. v \in WatchRec /\ v.others = {} /\ v.key = watch.key /\ v.from = watch.from
        /\ v.lost = watch.lost /\ v.paid = watch.paid
    BY <1>1 DEF WatchRec
  <2>3. n \in Nat
    BY <1>1, LimiterAssumption DEF WatchRec
  <2> HIDE DEF v, n
  <2>4. watch' \in WatchRec /\ watch'.others = {} /\ watch'.key = watch.key /\ watch'.from = watch.from
        /\ watch'.lost = watch.lost /\ watch'.paid = watch.paid /\ watch'.spent = n
    BY <2>1, <2>2, <2>3 DEF WatchRec
  <2> QED BY <1>1, <1>2, <2>4, FS_EmptySet DEF n
<1>3. CASE k # watch.key
  <2> DEFINE w == [watch EXCEPT !.others = @ \cup {k}]
  <2>1. w \in WatchRec /\ w.others = watch.others \cup {k} /\ w.key = watch.key /\ w.from = watch.from
        /\ w.spent = watch.spent /\ w.lost = watch.lost /\ w.paid = watch.paid
    BY <1>1 DEF WatchRec
  <2>2. watch' = IF watch.key \in Tracked \ Tracked' THEN Forgotten(w) ELSE w
    BY <1>1, <1>3 DEF Watched
  <2> HIDE DEF w
  <2>3. IsFiniteSet(w.others) /\ Cardinality(w.others) \in Nat
    <3>1. IsFiniteSet(watch.others)
      BY DEF LimiterTypes
    <3> QED BY <2>1, <3>1, FS_AddElement, FS_CardinalityType
  <2>4. CASE watch.key \notin Tracked \ Tracked'
    BY <1>1, <1>3, <2>1, <2>2, <2>3, <2>4
  <2>5. CASE watch.key \in Tracked \ Tracked' /\ w.lost < MaxForgets
    <3> DEFINE n == w.paid + Cardinality(w.others)
               v == [w EXCEPT !.lost = w.lost + 1]
    <3>1. watch' = [v EXCEPT !.paid = n]
      BY <2>1, <2>2, <2>5 DEF Forgotten, WatchRec
    <3>2. n \in Nat
      BY <2>1, <2>3 DEF WatchRec
    <3>3. v \in WatchRec /\ v.others = w.others /\ v.key = w.key /\ v.from = w.from
          /\ v.spent = w.spent /\ v.lost = w.lost + 1
      BY <2>1 DEF WatchRec
    <3> HIDE DEF v, n
    <3>4. watch' \in WatchRec /\ watch'.others = w.others /\ watch'.key = w.key /\ watch'.from = w.from
          /\ watch'.spent = w.spent /\ watch'.lost = w.lost + 1 /\ watch'.paid = n
      BY <3>1, <3>2, <3>3 DEF WatchRec
    <3>5. watch'.paid = watch.paid + Cardinality(watch'.others)
      BY <2>1, <3>4 DEF n
    <3> QED BY <1>1, <1>3, <2>1, <2>3, <2>5, <3>4, <3>5
  <2>6. CASE watch.key \in Tracked \ Tracked' /\ ~(w.lost < MaxForgets)
    <3>1. watch' = Anew(w)
      BY <2>2, <2>6 DEF Forgotten
    <3>2. /\ watch' \in WatchRec /\ watch'.key = w.key /\ watch'.others = w.others /\ watch'.from = now
          /\ watch'.spent = 0 /\ watch'.lost = 0 /\ watch'.paid = 0
      BY <1>1, <2>1, <3>1, AnewFields
    <3>3. watch'.from <= now
      BY <1>1, <3>2
    <3> QED BY <1>3, <2>1, <2>3, <2>6, <3>2, <3>3
  <2> QED BY <2>4, <2>5, <2>6
<1> QED BY <1>2, <1>3

LEMMA UseTypes == ASSUME NEW k \in Keys, LimiterInv, Use(k) PROVE LimiterTypes' /\ Distinct'
<1>0. LimiterTypes /\ Distinct
  BY DEF LimiterInv
<1>1. order' = IF k \in Tracked THEN Moved(k) ELSE Added(k)
  BY DEF Use
<1>2. order' \in Seq(Keys) /\ Len(order') <= MaxKeys /\ Distinct'
  BY <1>0, <1>1, UseTracks
<1>3. now' = now /\ now \in Nat /\ Full \in Nat /\ Interval \in Nat
  BY FullIsNat, LimiterAssumption, <1>0 DEF Use, LimiterTypes
<1>4. Taken(BucketOf(k)) \in [tokens : 0..Full, last : Nat] /\ Taken(BucketOf(k)).last <= now
  BY <1>0, BucketHolds
<1>5. ASSUME NEW j \in Keys
      PROVE  /\ bucket'[j] \in [tokens : 0..Full, last : Nat] /\ bucket'[j].last <= now
  <2>1. bucket'[j] = IF j = k THEN Taken(BucketOf(k)) ELSE IF j \in Tracked' THEN bucket[j] ELSE Untouched
    BY DEF Use
  <2>2. bucket[j] \in [tokens : 0..Full, last : Nat] /\ bucket[j].last <= now
    BY <1>0 DEF LimiterTypes
  <2>3. Untouched \in [tokens : 0..Full, last : Nat] /\ Untouched.last <= now
    BY <1>3 DEF Untouched
  <2> QED BY <1>4, <2>1, <2>2, <2>3
<1>6. bucket' \in [Keys -> [tokens : 0..Full, last : Nat]]
  <2>1. bucket' = [j \in Keys |-> bucket'[j]]
    BY DEF Use
  <2> QED BY <1>5, <2>1
<1>7. watch' \in WatchRec /\ watch'.from <= now /\ IsFiniteSet(watch'.others)
  BY <1>0, WatchedFields
<1> QED BY <1>2, <1>3, <1>5, <1>6, <1>7 DEF LimiterTypes

\* The key moves to the front: what was before the watched key still is, and so is k.
LEMMA UseRecent == ASSUME NEW k \in Keys, LimiterInv, Use(k) PROVE Recent'
<1>0. LimiterTypes /\ Distinct /\ Recent
  BY DEF LimiterInv
<1>1. order' = IF k \in Tracked THEN Moved(k) ELSE Added(k)
  BY DEF Use
<1>2. /\ order' \in Seq(Keys) /\ Len(order') \in 1..MaxKeys /\ order'[1] = k
      /\ \E at \in [2..Len(order') -> 1..Len(order)] :
           /\ \A i \in 2..Len(order') : order'[i] = order[at[i]] /\ order'[i] # k
           /\ \A i, j \in 2..Len(order') : i < j => at[i] < at[j]
  BY <1>0, <1>1, UseShifts
<1>3. PICK at \in [2..Len(order') -> 1..Len(order)] :
           /\ \A i \in 2..Len(order') : order'[i] = order[at[i]] /\ order'[i] # k
           /\ \A i, j \in 2..Len(order') : i < j => at[i] < at[j]
  BY <1>2
<1>4. Len(order') \in Nat
  BY <1>2
<1> SUFFICES ASSUME NEW i \in 1..Len(order'), NEW j \in 1..Len(order'), i < j, order'[j] = watch'.key
             PROVE  order'[i] \in watch'.others
  BY DEF Recent
<1>5. j \in 2..Len(order') /\ order'[j] # k
  BY <1>3, <1>4
<1>6. watch'.key = watch.key /\ watch'.others = IF k = watch.key THEN {} ELSE watch.others \cup {k}
  BY <1>0, WatchedFields
<1>7. k # watch.key
  BY <1>5, <1>6
<1>8. watch'.others = watch.others \cup {k}
  BY <1>6, <1>7
<1>9. CASE i = 1
  BY <1>2, <1>8, <1>9
<1>10. CASE i # 1
  <2>1. i \in 2..Len(order')
    BY <1>4, <1>10
  <2>2. at[i] \in 1..Len(order) /\ at[j] \in 1..Len(order) /\ at[i] < at[j]
    BY <1>3, <1>5, <2>1
  <2>3. order[at[j]] = watch.key
    BY <1>3, <1>5, <1>6
  <2> QED BY <1>0, <1>3, <1>8, <2>1, <2>2, <2>3 DEF Recent
<1> QED BY <1>9, <1>10

\* The key an event pushes out is the last of a full list, and all before it were
\* used since it was, and so is the one that comes in.
LEMMA UseForgets ==
  ASSUME NEW k \in Keys, LimiterInv, Use(k),
         watch.key \in Tracked, watch.key \notin Tracked'
  PROVE  Cardinality(watch'.others) >= MaxKeys
<1>0. LimiterTypes /\ Distinct /\ Recent /\ LimiterTypes' /\ Distinct'
  BY UseTypes DEF LimiterInv
<1>1. order' = IF k \in Tracked THEN Moved(k) ELSE Added(k)
  BY DEF Use
<1>2. MaxKeys \in Nat /\ Len(order) \in Nat /\ Len(order) <= MaxKeys
  BY <1>0, LimiterAssumption DEF LimiterTypes
<1>3. PICK q \in 1..Len(order) : order[q] = watch.key
  BY DEF Tracked
<1>4. k # watch.key
  BY <1>0, <1>1, UseTracks
<1>5. k \notin Tracked
  <2> SUFFICES ASSUME k \in Tracked PROVE FALSE
    OBVIOUS
  <2>1. PICK p \in 1..Len(order) :
          /\ order[p] = k
          /\ Moved(k) = [i \in 1..Len(order) |-> IF i = 1 THEN k ELSE IF i <= p THEN order[i - 1] ELSE order[i]]
    BY <1>0, MovedShifts
  <2>2. order' = [i \in 1..Len(order) |-> IF i = 1 THEN k ELSE IF i <= p THEN order[i - 1] ELSE order[i]]
    BY <1>1, <2>1
  <2>3. Len(order') = Len(order)
    BY <1>2, <2>2
  <2>4. q # p
    BY <1>3, <1>4, <2>1
  <2>5. CASE q < p
    <3>1. q + 1 \in 1..Len(order) /\ q + 1 # 1 /\ q + 1 <= p /\ (q + 1) - 1 = q
      BY <1>2, <2>5
    <3>2. order'[q + 1] = watch.key
      BY <1>3, <2>2, <3>1
    <3> QED BY <2>3, <3>1, <3>2 DEF Tracked
  <2>6. CASE p < q
    <3>1. q # 1 /\ ~(q <= p)
      BY <1>2, <2>6
    <3>2. order'[q] = watch.key
      BY <1>3, <2>2, <3>1
    <3> QED BY <1>3, <2>3, <3>2 DEF Tracked
  <2> QED BY <1>2, <2>4, <2>5, <2>6
<1>6. Len(order) = MaxKeys /\ q = MaxKeys
  <2> DEFINE n == IF Len(order) >= MaxKeys THEN Len(order) ELSE Len(order) + 1
  <2>1. order' = [i \in 1..n |-> IF i = 1 THEN k ELSE order[i - 1]]
    BY <1>1, <1>5 DEF Added
  <2>2. n \in Nat
    BY <1>2
  <2>3. Len(order') = n
    BY <2>1, <2>2
  <2>4. ~(q + 1 \in 1..n)
    <3> SUFFICES ASSUME q + 1 \in 1..n PROVE FALSE
      OBVIOUS
    <3>1. order'[q + 1] = order[q]
      BY <1>2, <2>1
    <3> QED BY <1>3, <2>3, <3>1 DEF Tracked
  <2> QED BY <1>2, <2>4
<1>7. /\ order' \in Seq(Keys) /\ Len(order') = MaxKeys
      /\ order' = [i \in 1..MaxKeys |-> IF i = 1 THEN k ELSE order[i - 1]]
  BY <1>0, <1>1, <1>2, <1>5, <1>6 DEF Added, LimiterTypes
<1>8. watch'.others = watch.others \cup {k}
  BY <1>0, <1>4, WatchedFields
<1>9. ASSUME NEW i \in 1..MaxKeys PROVE order'[i] \in watch'.others
  <2>1. CASE i = 1
    BY <1>7, <1>8, <2>1
  <2>2. CASE i # 1
    <3>1. i - 1 \in 1..Len(order) /\ i - 1 < q /\ order'[i] = order[i - 1]
      BY <1>2, <1>6, <1>7, <2>2
    <3> QED BY <1>0, <1>3, <1>8, <3>1 DEF Recent
  <2> QED BY <2>1, <2>2
<1>10. IsFiniteSet(watch'.others)
  BY <1>0 DEF LimiterTypes
<1>11. order' \in Injection(1..MaxKeys, watch'.others)
  BY <1>0, <1>7, <1>9 DEF Distinct, Injection, IsInjective
<1>12. MaxKeys <= Cardinality(watch'.others)
  <2>1. IsFiniteSet(1..MaxKeys) /\ Cardinality(1..MaxKeys) = MaxKeys
    BY <1>2, FS_Interval
  <2> QED BY <1>10, <1>11, <2>1, FS_Injection
<1> QED BY <1>2, <1>10, <1>12, FS_CardinalityType

\* The account of the watched key: what it spends its bucket loses, and a key that
\* is tracked anew has the burst that its forgetting counted for.
LEMMA UseSpending == ASSUME NEW k \in Keys, LimiterInv, Use(k) PROVE Spending' /\ RateBound'
<1>0. LimiterTypes /\ Distinct /\ Spending /\ RateBound
  BY DEF LimiterInv
<1>1. order' = IF k \in Tracked THEN Moved(k) ELSE Added(k)
  BY DEF Use
<1>2. k \in Tracked' /\ Tracked' \subseteq Tracked \cup {k}
  BY <1>0, <1>1, UseTracks
<1>3. now' = now /\ now \in Nat /\ Full \in Nat /\ Interval \in Nat /\ MaxKeys \in Nat
  BY FullIsNat, LimiterAssumption, <1>0 DEF Use, LimiterTypes
<1>4. /\ watch.key \in Keys /\ watch.from \in Nat /\ watch.from <= now /\ watch.spent \in Nat
      /\ watch.lost \in Nat /\ watch.paid \in Nat
  BY <1>0 DEF LimiterTypes, WatchRec
<1> DEFINE L == Full * watch.lost
           M == MaxKeys * watch.lost
<1>5. L \in Nat /\ M \in Nat /\ Bursts = Full + L /\ M <= watch.paid
  BY <1>0, <1>4, Products DEF Bursts, RateBound
<1>6. CASE k # watch.key /\ watch.key \notin Tracked \ Tracked'
  <2>1. watch'.key = watch.key /\ watch'.from = watch.from /\ watch'.spent = watch.spent
        /\ watch'.lost = watch.lost /\ watch'.paid = watch.paid
    BY <1>0, <1>6, WatchedFields
  <2>2. Bursts' = Bursts
    BY <2>1 DEF Bursts, Full
  <2>3. RateBound'
    BY <1>0, <1>3, <2>1 DEF RateBound, Full
  <2>4. watch.key \in Tracked' <=> watch.key \in Tracked
    BY <1>2, <1>6
  <2>5. watch.key \in Tracked' => bucket'[watch.key] = bucket[watch.key]
    BY <1>4, <1>6 DEF Use
  <2> QED BY <1>0, <1>3, <2>1, <2>2, <2>3, <2>4, <2>5 DEF Spending
<1>7. CASE k # watch.key /\ watch.key \in Tracked \ Tracked'
  <2>1. watch.spent <= Full + L + (now - watch.from)
    <3>1. bucket[watch.key].tokens \in 0..Full /\ bucket[watch.key].last \in Nat /\ bucket[watch.key].last <= now
      BY <1>0, <1>4 DEF LimiterTypes
    <3> HIDE DEF L
    <3>2. CASE bucket[watch.key].last >= watch.from
      <4>1. watch.spent + bucket[watch.key].tokens <= Full + L + (bucket[watch.key].last - watch.from)
        BY <1>0, <1>5, <1>7, <3>2 DEF Spending
      <4> QED BY <1>3, <1>4, <1>5, <3>1, <4>1
    <3>3. CASE ~(bucket[watch.key].last >= watch.from)
      <4>1. watch.spent = 0
        BY <1>0, <1>7, <3>3 DEF Spending
      <4> QED BY <1>3, <1>4, <1>5, <4>1
    <3> QED BY <3>2, <3>3
  <2>2. watch'.key = watch.key /\ watch.key \notin Tracked' /\ Cardinality(watch'.others) \in Nat
    BY <1>0, <1>7, WatchedFields, FS_CardinalityType
  <2>3. Cardinality(watch'.others) >= MaxKeys
    BY <1>7, UseForgets
  <2>4. CASE /\ watch'.from = watch.from /\ watch'.spent = watch.spent /\ watch'.lost = watch.lost + 1
             /\ watch'.paid = watch.paid + Cardinality(watch'.others)
    <3>1. Full * watch'.lost = Full + L /\ MaxKeys * watch'.lost = M + MaxKeys /\ Full * (1 + watch'.lost) = Full + (Full + L)
      BY <1>3, <1>4, <1>5, <2>4, Products
    <3> HIDE DEF L, M
    <3>2. Spending'
      BY <1>3, <2>1, <2>2, <2>4, <3>1 DEF Spending, Full
    <3>3. watch'.spent <= (Full * (1 + watch'.lost)) + (now - watch'.from)
      BY <1>3, <1>4, <1>5, <2>1, <2>4, <3>1
    <3>4. MaxKeys * watch'.lost <= watch'.paid
      BY <1>3, <1>4, <1>5, <2>2, <2>3, <2>4, <3>1
    <3> QED BY <1>3, <3>2, <3>3, <3>4 DEF RateBound, Full
  <2>5. CASE watch'.from = now /\ watch'.spent = 0 /\ watch'.lost = 0 /\ watch'.paid = 0
    <3>1. Full * watch'.lost = 0 /\ MaxKeys * watch'.lost = 0 /\ Full * (1 + watch'.lost) = Full
      BY <2>5, Products
    <3> QED BY <1>3, <2>2, <2>5, <3>1 DEF Spending, RateBound, Full
  <2> QED BY <1>0, <1>7, <2>4, <2>5, WatchedFields
<1>8. CASE k = watch.key
  <2> DEFINE b == BucketOf(k)
  <2>1. /\ b \in [tokens : 0..Full, last : Nat] /\ b.last <= now
        /\ Taken(b) \in [tokens : 0..Full, last : Nat]
        /\ Refilled(b) \in 0..Full /\ Refilled(b) <= b.tokens + (now - b.last)
        /\ Taken(b) = IF Allowed(k) THEN [tokens |-> Refilled(b) - Interval, last |-> now] ELSE b
        /\ Allowed(k) => Refilled(b) >= Interval
    BY <1>0, BucketHolds
  <2>2. /\ watch'.key = watch.key /\ watch'.from = watch.from
        /\ watch'.lost = watch.lost /\ watch'.paid = watch.paid
        /\ watch'.spent = IF Allowed(k) THEN watch.spent + Interval ELSE watch.spent
    BY <1>0, <1>8, WatchedFields
  <2>3. bucket'[watch'.key] = Taken(b) /\ watch'.key \in Tracked' /\ Bursts' = Full + L
        /\ Full * (1 + watch'.lost) = Full + L /\ MaxKeys * watch'.lost = M
    <3>1. bucket'[k] = Taken(b)
      BY DEF Use
    <3>2. Full * (1 + watch.lost) = Full + L
      BY <1>5 DEF Bursts
    <3>3. Bursts' = Full * (1 + watch'.lost)
      BY DEF Bursts, Full
    <3> HIDE DEF b, L
    <3> QED BY <1>2, <1>8, <2>2, <3>1, <3>2, <3>3
  <2>4. IF b.last >= watch.from THEN watch.spent + b.tokens <= (Full + L) + (b.last - watch.from)
                                ELSE watch.spent = 0 /\ watch.lost = 0
    <3>1. CASE k \in Tracked
      BY <1>0, <1>5, <1>8, <3>1 DEF Spending, BucketOf
    <3>2. CASE k \notin Tracked
      <4>1. b.tokens = Full /\ b.last = now /\ watch.spent <= L + (now - watch.from)
        BY <1>0, <1>8, <3>2 DEF BucketOf, Fresh, Spending
      <4> HIDE DEF b, L
      <4> QED BY <1>3, <1>4, <1>5, <4>1
    <3> QED BY <3>1, <3>2
  <2> DEFINE t == Taken(b)
             r == Refilled(b)
             spent == watch'.spent
  <2> HIDE DEF b, L, M
  <2>5. watch.spent + r <= (Full + L) + (now - watch.from)
    <3> HIDE DEF r
    <3>1. CASE b.last >= watch.from
      BY <1>3, <1>4, <1>5, <2>1, <2>4, <3>1 DEF r
    <3>2. CASE ~(b.last >= watch.from)
      BY <1>3, <1>4, <1>5, <2>1, <2>4, <3>2 DEF r
    <3> QED BY <3>1, <3>2
  <2>6. CASE Allowed(k)
    <3>1. t.tokens = r - Interval /\ t.last = now /\ spent = watch.spent + Interval /\ r >= Interval /\ r \in Nat
      BY <1>3, <2>1, <2>2, <2>6
    <3> HIDE DEF t, r, spent
    <3>2. spent + t.tokens <= (Full + L) + (now - watch.from) /\ spent <= (Full + L) + (now - watch.from)
      BY <1>3, <1>4, <1>5, <2>5, <3>1
    <3>3. bucket'[watch'.key] = t /\ t.last >= watch'.from /\ watch'.spent = spent
      BY <1>3, <1>4, <2>2, <2>3, <3>1 DEF t, spent
    <3>4. Spending'
      BY <1>3, <2>2, <2>3, <3>1, <3>2, <3>3 DEF Spending
    <3>5. RateBound'
      <4>1. MaxKeys * watch'.lost <= watch'.paid
        BY <1>5, <2>2, <2>3
      <4>2. watch'.spent <= Full * (1 + watch'.lost) + (now' - watch'.from)
        BY <1>3, <2>2, <2>3, <3>2, <3>3
      <4> QED BY <4>1, <4>2 DEF RateBound, Full
    <3> QED BY <3>4, <3>5
  <2>7. CASE ~Allowed(k)
    <3>1. t = b /\ spent = watch.spent
      BY <2>1, <2>2, <2>7
    <3>2. spent <= (Full + L) + (now - watch.from)
      BY <1>3, <1>4, <1>5, <2>1, <2>5, <3>1
    <3> HIDE DEF t, r
    <3>3. Spending'
      BY <2>2, <2>3, <2>4, <3>1 DEF Spending, t
    <3>4. RateBound'
      <4>1. MaxKeys * watch'.lost <= watch'.paid
        BY <1>5, <2>2, <2>3
      <4>2. watch'.spent <= Full * (1 + watch'.lost) + (now' - watch'.from)
        BY <1>3, <2>2, <2>3, <3>2
      <4> QED BY <4>1, <4>2 DEF RateBound, Full
    <3> QED BY <3>3, <3>4
  <2> QED BY <2>6, <2>7
<1> QED BY <1>6, <1>7, <1>8

LEMMA NextInv == LimiterInv /\ [LimiterNext]_limiterVars => LimiterInv'
<1> SUFFICES ASSUME LimiterInv, [LimiterNext]_limiterVars PROVE LimiterInv'
  OBVIOUS
<1>1. CASE Tick
  BY <1>1, TickInv
<1>2. CASE Watch
  BY <1>2, WatchInv
<1>3. ASSUME NEW k \in Keys, Use(k) PROVE LimiterInv'
  BY <1>3, UseTypes, UseRecent, UseSpending DEF LimiterInv
<1>4. CASE UNCHANGED limiterVars
  BY <1>4 DEF limiterVars, LimiterInv, LimiterTypes, Distinct, Recent, Spending, Bursts, RateBound, Tracked
<1> QED BY <1>1, <1>2, <1>3, <1>4 DEF LimiterNext

\* The limiter's bookkeeping is an invariant, for every number of keys, capacity,
\* budget and interval (memory.go, Allow).
THEOREM LimiterInvariant == LimiterSpec => []LimiterInv
<1>1. LimiterInit => LimiterInv
  BY InitInv
<1>2. LimiterInv /\ [LimiterNext]_limiterVars => LimiterInv'
  BY NextInv
<1> QED BY <1>1, <1>2, PTL DEF LimiterSpec

\* Over any window the limiter lets no more than Burst events of a key through, one
\* more for each interval, and Burst more for each time it forgot the key, for which
\* MaxKeys other keys were used (memory.go, Allow).
THEOREM BudgetKept == LimiterSpec => []RateBound
<1>1. LimiterInv => RateBound
  BY DEF LimiterInv
<1> QED BY <1>1, LimiterInvariant, PTL

-----------------------------------------------------------------------------
(* Forgetting *)

\* A key is forgotten, and starts afresh, only when as many other keys as the limiter
\* tracks were used since its last use (memory.go, Allow).
THEOREM ForgetsTheOldest == LimiterSpec => ForgottenWhenOld
<1> DEFINE A == watch.key \in Tracked /\ watch.key \notin Tracked' => Cardinality(watch'.others) >= MaxKeys
<1>1. LimiterInv /\ LimiterInv' /\ [LimiterNext]_limiterVars => [A]_limiterVars
  <2> SUFFICES ASSUME LimiterInv, LimiterInv', LimiterNext PROVE A
    OBVIOUS
  <2>1. CASE Tick \/ Watch
    <3>1. Tracked' = Tracked
      BY <2>1 DEF Tick, Watch, Tracked
    <3> QED BY <3>1
  <2>2. ASSUME NEW k \in Keys, Use(k) PROVE A
    BY <2>2, UseForgets
  <2> QED BY <2>1, <2>2 DEF LimiterNext
<1> QED BY <1>1, LimiterInvariant, PTL DEF LimiterSpec, ForgottenWhenOld
-----------------------------------------------------------------------------
(* The order of the sessions *)

RowRec == [id : Ids, owner : Keys, at : Nat]
OwnIds(S) == \A r, s \in S : r.id = s.id => r = s

\* ORDER BY created_at DESC, id DESC is a strict order of sessions, total because no two
\* have one identifier.
LEMMA NewerOrders ==
  ASSUME NEW S, S \subseteq RowRec, OwnIds(S)
  PROVE  /\ \A r \in S : ~Newer(r, r)
         /\ \A r, s, t \in S : Newer(r, s) /\ Newer(s, t) => Newer(r, t)
         /\ \A r, s \in S : r = s \/ Newer(r, s) \/ Newer(s, r)
<1>1. ASSUME NEW r \in S PROVE r.at \in Int /\ r.id \in Int
  <2>1. r.at \in Nat
    BY DEF RowRec
  <2>2. r.id \in Ids
    BY DEF RowRec
  <2>3. r.id \in Nat
    BY <2>2, ApiAssumption
  <2> QED BY <2>1, <2>3
<1> QED BY <1>1 DEF Newer, OwnIds

\* The place of r in S: one more than the number of sessions that are newer.
Above(S, r) == {s \in S : Newer(s, r)}
Place(S, r) == Cardinality(Above(S, r)) + 1

LEMMA PlaceFacts ==
  ASSUME NEW S, S \subseteq RowRec, OwnIds(S), IsFiniteSet(S)
  PROVE  /\ \A r \in S : Place(S, r) \in 1..Cardinality(S)
         /\ \A r, s \in S : Newer(r, s) => Place(S, r) < Place(S, s)
<1>1. ASSUME NEW r \in S
      PROVE  IsFiniteSet(Above(S, r)) /\ Cardinality(Above(S, r)) \in Nat /\ r \notin Above(S, r)
  <2>1. Above(S, r) \in SUBSET S
    BY DEF Above
  <2>2. IsFiniteSet(Above(S, r))
    BY <2>1, FS_Subset
  <2>3. r \notin Above(S, r)
    BY NewerOrders DEF Above
  <2> QED BY <2>2, <2>3, FS_CardinalityType
<1>2. ASSUME NEW r \in S, NEW T, IsFiniteSet(T), Above(S, r) \cup {r} \subseteq T
      PROVE  Place(S, r) <= Cardinality(T)
  <2>1. IsFiniteSet(Above(S, r) \cup {r}) /\ Cardinality(Above(S, r) \cup {r}) = Place(S, r)
    BY <1>1, FS_AddElement DEF Place
  <2> QED BY <1>2, <2>1, FS_Subset
<1>3. ASSUME NEW r \in S PROVE Place(S, r) \in 1..Cardinality(S)
  <2>1. Above(S, r) \cup {r} \subseteq S
    BY DEF Above
  <2>2. Place(S, r) <= Cardinality(S) /\ Cardinality(S) \in Nat
    BY <1>2, <2>1, FS_CardinalityType
  <2> QED BY <1>1, <2>2 DEF Place
<1>4. ASSUME NEW r \in S, NEW s \in S, Newer(r, s) PROVE Place(S, r) < Place(S, s)
  <2>1. Above(S, r) \cup {r} \subseteq Above(S, s)
    BY <1>4, NewerOrders DEF Above
  <2>2. Place(S, r) <= Cardinality(Above(S, s))
    BY <1>1, <1>2, <2>1
  <2> QED BY <1>1, <2>2 DEF Place
<1> QED BY <1>3, <1>4

\* A finite set of sessions is brought into that order, each session once.
LEMMA OrderedFacts ==
  ASSUME NEW S, S \subseteq RowRec, OwnIds(S), IsFiniteSet(S), NEW q, q = Ordered(S)
  PROVE  /\ q \in Seq(S) /\ Len(q) \in Nat
         /\ \A i, j \in 1..Len(q) : i < j => Newer(q[i], q[j])
         /\ \A r \in S : \E i \in 1..Len(q) : q[i] = r
<1> DEFINE n == Cardinality(S)
           D == 1..n
           place == [r \in S |-> Place(S, r)]
<1>1. n \in Nat /\ IsFiniteSet(D) /\ Cardinality(D) = n
  BY FS_CardinalityType, FS_Interval
<1>2. place \in Injection(S, D)
  <2>1. place \in [S -> D]
    BY PlaceFacts
  <2>2. ASSUME NEW r \in S, NEW s \in S, place[r] = place[s] PROVE r = s
    <3>1. Place(S, r) = Place(S, s) /\ Place(S, r) \in Int /\ Place(S, s) \in Int
      BY <2>2, PlaceFacts
    <3> QED BY <3>1, PlaceFacts, NewerOrders
  <2> QED BY <2>1, <2>2 DEF Injection, IsInjective
<1>3. place \in Surjection(S, D)
  BY <1>1, <1>2, FS_Injection
<1>4. \A i \in D : \E r \in S : Place(S, r) = i
  BY <1>3 DEF Surjection
<1> DEFINE s == [i \in D |-> CHOOSE r \in S : Place(S, r) = i]
<1>5. s \in [D -> S] /\ \A i \in D : Place(S, s[i]) = i
  BY <1>4
<1>6. \A f \in [D -> S] : f \in Seq(S) /\ Len(f) = n /\ DOMAIN f = D
  BY <1>1
<1> HIDE DEF s
<1>7. \A i, j \in D : i # j => s[i] # s[j]
  BY <1>5
<1>8. s \in SetToSeqs(S)
  BY <1>5, <1>7 DEF SetToSeqs
<1>9. ASSUME NEW i \in 1..Len(s), NEW j \in 1..Len(s), i < j PROVE Newer(s[i], s[j])
  <2>1. i \in D /\ j \in D /\ s[i] \in S /\ s[j] \in S /\ Place(S, s[i]) = i /\ Place(S, s[j]) = j
    BY <1>5, <1>6
  <2>2. s[i] # s[j] /\ ~Newer(s[j], s[i])
    BY <1>1, <1>9, <2>1, PlaceFacts
  <2> QED BY <2>1, <2>2, NewerOrders
<1>10. q \in SetToSeqs(S) /\ \A i, j \in 1..Len(q) : i < j => Newer(q[i], q[j])
  BY <1>8, <1>9 DEF Ordered
<1>11. q \in [D -> S] /\ \A i, j \in D : i # j => q[i] # q[j]
  BY <1>10 DEF SetToSeqs
<1>12. q \in Injection(D, S)
  BY <1>11 DEF Injection, IsInjective
<1>13. q \in Surjection(D, S)
  BY <1>1, <1>12, FS_Injection
<1>14. \A r \in S : \E i \in D : q[i] = r
  BY <1>13 DEF Surjection
<1> QED BY <1>1, <1>6, <1>10, <1>11, <1>14

\* A page of what was fetched: its sessions are the first ones, and there is a cursor
\* exactly when there are more.
LEMMA PageFacts ==
  ASSUME NEW S, NEW q \in Seq(S), NEW page, page = Page(FirstOf(q, PageSize + 1))
  PROVE  /\ page.items \in Seq(S)
         /\ Len(page.items) = IF Len(q) < PageSize THEN Len(q) ELSE PageSize
         /\ \A i \in 1..Len(page.items) : page.items[i] = q[i]
         /\ page.next = IF Len(q) > PageSize THEN {q[PageSize]} ELSE {}
<1>1. PageSize \in Nat /\ PageSize > 0 /\ Len(q) \in Nat
  BY ApiAssumption
<1>2. ASSUME NEW s \in Seq(S), NEW n \in Nat
      PROVE  /\ FirstOf(s, n) \in Seq(S)
             /\ Len(FirstOf(s, n)) = IF Len(s) < n THEN Len(s) ELSE n
             /\ \A i \in 1..Len(FirstOf(s, n)) : FirstOf(s, n)[i] = s[i]
  <2> DEFINE m == IF Len(s) < n THEN Len(s) ELSE n
  <2>1. m \in Nat /\ m <= Len(s) /\ FirstOf(s, n) = SubSeq(s, 1, m) /\ Len(s) \in Nat
    BY DEF FirstOf
  <2>2. \A i \in 1..m : s[i] \in S
    BY <2>1
  <2> HIDE DEF m
  <2>3. /\ SubSeq(s, 1, m) \in Seq(S) /\ Len(SubSeq(s, 1, m)) = IF 1 <= m THEN m - 1 + 1 ELSE 0
        /\ \A i \in 1..(m - 1 + 1) : SubSeq(s, 1, m)[i] = s[1 + i - 1]
    BY <2>1, <2>2, SubSeqProperties
  <2>4. Len(SubSeq(s, 1, m)) = m /\ m - 1 + 1 = m /\ \A i \in 1..m : 1 + i - 1 = i
    BY <2>1, <2>3
  <2>5. \A i \in 1..m : SubSeq(s, 1, m)[i] = s[i]
    BY <2>3, <2>4
  <2> QED BY <2>1, <2>3, <2>4, <2>5 DEF m
<1> DEFINE f == FirstOf(q, PageSize + 1)
<1>3. /\ f \in Seq(S) /\ Len(f) = IF Len(q) < PageSize + 1 THEN Len(q) ELSE PageSize + 1
      /\ \A i \in 1..Len(f) : f[i] = q[i]
  BY <1>1, <1>2
<1> HIDE DEF f
<1>4. page.items = FirstOf(f, PageSize) /\ page.next = IF Len(f) > PageSize THEN {f[PageSize]} ELSE {}
  BY DEF Page, f
<1>5. /\ FirstOf(f, PageSize) \in Seq(S)
      /\ Len(FirstOf(f, PageSize)) = IF Len(f) < PageSize THEN Len(f) ELSE PageSize
      /\ \A i \in 1..Len(FirstOf(f, PageSize)) : FirstOf(f, PageSize)[i] = f[i]
  BY <1>1, <1>2, <1>3
<1>6. Len(page.items) = IF Len(q) < PageSize THEN Len(q) ELSE PageSize
  BY <1>1, <1>3, <1>4, <1>5
<1>7. \A i \in 1..Len(page.items) : page.items[i] = q[i]
  BY <1>1, <1>3, <1>4, <1>5
<1>8. page.next = IF Len(q) > PageSize THEN {q[PageSize]} ELSE {}
  <2>1. Len(f) > PageSize <=> Len(q) > PageSize
    BY <1>1, <1>3
  <2>2. Len(f) > PageSize => f[PageSize] = q[PageSize]
    BY <1>1, <1>3
  <2> QED BY <1>4, <2>1, <2>2
<1> QED BY <1>4, <1>5, <1>6, <1>7, <1>8

-----------------------------------------------------------------------------
(* The requests *)

AskType == [pc : {"out", "valid", "refused", "stamped", "done"}, user : SUBSET Keys, at : Nat]
RowsOK == row \subseteq RowRec /\ IsFiniteSet(row) /\ OwnIds(row)
ApiTypes == world \in Worlds /\ ask \in [Asks -> AskType] /\ RowsOK

\* The listing shows committed sessions in order.  Between two pages the cursor is the
\* last session shown, and what is still to be shown is behind it.
Shown(r) == \E i \in 1..Len(list.seen) : list.seen[i] = r
LastSeen == list.seen[Len(list.seen)]
InOrder == \A i, j \in 1..Len(list.seen) : i < j => Newer(list.seen[i], list.seen[j])
Covered == list.pc # "out" => \A r \in list.base : Shown(r) \/ (list.pc = "more" /\ Newer(LastSeen, r))
ListType == [pc : {"out", "more", "done"}, owner : SUBSET Keys, after : SUBSET row, seen : Seq(row), base : SUBSET row]
ListInv ==
  /\ list \in ListType /\ InOrder /\ Covered
  /\ list.pc = "out" => list.seen = <<>>
  /\ list.pc = "more" => list.seen # <<>> /\ list.after = {LastSeen}
  /\ \A r \in list.base : r.owner \in list.owner

ApiInv == LimiterInv /\ ApiTypes /\ ListInv

LEMMA ApiInit == Init => ApiInv
<1> SUFFICES ASSUME Init PROVE ApiInv
  OBVIOUS
<1>1. LimiterInv
  BY InitInv DEF Init
<1>2. ApiTypes
  <2>1. ask \in [Asks -> AskType]
    BY DEF Init, AskType
  <2>2. RowsOK
    BY FS_EmptySet DEF Init, RowsOK, OwnIds
  <2> QED BY <2>1, <2>2 DEF Init, ApiTypes
<1>3. ListInv
  <2>1. list = [pc |-> "out", owner |-> {}, after |-> {}, seen |-> <<>>, base |-> {}] /\ <<>> \in Seq(row)
    BY DEF Init
  <2>2. list \in ListType
    BY <2>1 DEF ListType
  <2> QED BY <2>1, <2>2 DEF ListInv, InOrder, Covered
<1> QED BY <1>1, <1>2, <1>3 DEF ApiInv

\* Whoever asks uses the limiter, once, with a key of its own; nothing else does.
LEMMA NextLimits == ASSUME ApiTypes, [Next]_vars PROVE [LimiterNext]_limiterVars
<1>1. \A u \in world.users \cup world.tickets : u \in Keys
  BY ApiAssumption DEF ApiTypes
<1>2. CASE UNCHANGED vars
  BY <1>2 DEF vars, limiterVars
<1>3. CASE Clock
  BY <1>3 DEF Clock, LimiterNext
<1>4. ASSUME NEW a \in Asks, Admit(a) PROVE LimiterNext
  BY <1>1, <1>4 DEF Admit, LimiterNext
<1>5. ASSUME NEW a \in Asks, Stamp(a) \/ Commit(a) PROVE UNCHANGED limiterVars
  BY <1>5 DEF Stamp, Commit
<1>6. ASSUME NEW u \in Keys, NewTicket(u) PROVE LimiterNext
  BY <1>6 DEF NewTicket, LimiterNext
<1>7. CASE FirstPage \/ NextPage
  BY <1>7 DEF FirstPage, NextPage
<1> QED BY <1>2, <1>3, <1>4, <1>5, <1>6, <1>7 DEF Next

\* Sessions are only added, each with an identifier of its own.
LEMMA NextTypes ==
  ASSUME LimiterInv, ApiTypes, [Next]_vars
  PROVE  ApiTypes' /\ row \subseteq row'
<1>0. now \in Nat /\ world \in Worlds /\ ask \in [Asks -> AskType]
  BY DEF LimiterInv, LimiterTypes, ApiTypes
<1>1. ASSUME UNCHANGED <<row, world>>, ask' \in [Asks -> AskType] PROVE ApiTypes' /\ row \subseteq row'
  BY <1>1 DEF ApiTypes, RowsOK, OwnIds
<1>2. CASE UNCHANGED <<row, ask, world>>
  BY <1>0, <1>1, <1>2
<1>3. ASSUME NEW a \in Asks, Admit(a) PROVE ApiTypes' /\ row \subseteq row'
  <2>1. UNCHANGED <<row, world>>
    BY <1>3 DEF Admit
  <2>2. PICK u \in world.users :
          ask' = [ask EXCEPT ![a].pc = IF Allowed(u) THEN "valid" ELSE "refused", ![a].user = {u}]
    BY <1>3 DEF Admit
  <2>3. u \in Keys
    BY <1>0, ApiAssumption
  <2>4. ask' \in [Asks -> AskType]
    BY <1>0, <2>2, <2>3, ZenonT(60) DEF AskType
  <2> QED BY <1>1, <2>1, <2>4
<1>4. ASSUME NEW a \in Asks, Stamp(a) PROVE ApiTypes' /\ row \subseteq row'
  <2>1. UNCHANGED <<row, world>>
    BY <1>4 DEF Stamp
  <2>2. ask' \in [Asks -> AskType]
    BY <1>0, <1>4 DEF Stamp, AskType
  <2> QED BY <1>1, <2>1, <2>2
<1>5. ASSUME NEW a \in Asks, Commit(a) PROVE ApiTypes' /\ row \subseteq row'
  <2>1. world' = world
    BY <1>5 DEF Commit
  <2>2. ask' \in [Asks -> AskType]
    BY <1>0, <1>5 DEF Commit, AskType
  <2>3. CASE row' = row
    BY <1>1, <2>1, <2>2, <2>3
  <2>4. CASE row' # row
    <3>1. PICK u \in ask[a].user, i \in Unused : row' = Created(a, u, i)
      BY <1>5, <2>4 DEF Commit
    <3> DEFINE r == [id |-> i, owner |-> u, at |-> ask[a].at]
    <3>2. row' = row \cup {r}
      BY <3>1 DEF Created
    <3>3. u \in Keys /\ ask[a].at \in Nat /\ i \in Ids
      BY <1>0 DEF AskType, Unused
    <3>4. r \in RowRec /\ r.id = i
      BY <3>3 DEF RowRec
    <3>5. \A s \in row : s.id # i
      BY DEF Unused
    <3> HIDE DEF r
    <3>6. row' \subseteq RowRec /\ IsFiniteSet(row')
      BY <3>2, <3>4, FS_AddElement DEF ApiTypes, RowsOK
    <3>7. OwnIds(row')
      BY <3>2, <3>4, <3>5 DEF ApiTypes, RowsOK, OwnIds
    <3> QED BY <1>0, <2>1, <2>2, <3>2, <3>6, <3>7 DEF ApiTypes, RowsOK
  <2> QED BY <2>3, <2>4
<1>6. CASE UNCHANGED vars
  BY <1>2, <1>6 DEF vars, apiVars
<1>7. CASE Clock
  BY <1>2, <1>7 DEF Clock, apiVars
<1>8. ASSUME NEW u \in Keys, NewTicket(u) PROVE ApiTypes' /\ row \subseteq row'
  BY <1>2, <1>8 DEF NewTicket, apiVars
<1>9. CASE FirstPage \/ NextPage
  BY <1>2, <1>9 DEF FirstPage, NextPage
<1> QED BY <1>3, <1>4, <1>5, <1>6, <1>7, <1>8, <1>9 DEF Next

-----------------------------------------------------------------------------
(* The pages *)

\* A page appends, in order, what is behind the cursor; what it leaves out is behind
\* the next cursor (usecase/sessions.go, List).
LEMMA ShowOK ==
  ASSUME ApiTypes, ListInv, row' = row,
         NEW owner, owner \subseteq Keys, NEW after, NEW base, base \subseteq row,
         \/ list.seen = <<>> /\ after = {}
         \/ list.seen # <<>> /\ after = {LastSeen},
         \A r \in base : r.owner \in owner /\ (Shown(r) \/ r \in RowsAfter(owner, after)),
         Show(owner, after, base)
  PROVE  ListInv'
<1> DEFINE S == RowsAfter(owner, after)
           q == Ordered(S)
           page == Page(FirstOf(q, PageSize + 1))
           old == list.seen
           new == page.items
           n == Len(old)
<1>1. row \subseteq RowRec /\ IsFiniteSet(row) /\ OwnIds(row)
  BY DEF ApiTypes, RowsOK
<1>2. S \in SUBSET row /\ S \subseteq RowRec /\ IsFiniteSet(S) /\ OwnIds(S)
  <2>1. S \in SUBSET row
    BY DEF RowsAfter
  <2> QED BY <1>1, <2>1, FS_Subset DEF OwnIds
<1>3. /\ q \in Seq(S) /\ Len(q) \in Nat
      /\ \A i, j \in 1..Len(q) : i < j => Newer(q[i], q[j])
      /\ \A r \in S : \E i \in 1..Len(q) : q[i] = r
  BY <1>2, OrderedFacts
<1>4. /\ new \in Seq(S)
      /\ Len(new) = IF Len(q) < PageSize THEN Len(q) ELSE PageSize
      /\ \A i \in 1..Len(new) : new[i] = q[i]
      /\ page.next = IF Len(q) > PageSize THEN {q[PageSize]} ELSE {}
  BY <1>3, PageFacts
<1>5. /\ old \in Seq(row) /\ n \in Nat /\ n = Len(old)
      /\ \A i, j \in 1..n : i < j => Newer(old[i], old[j])
  BY DEF ListInv, ListType, InOrder
<1>6. PageSize \in Nat /\ PageSize > 0
  BY ApiAssumption
<1>7. list' = [pc |-> IF page.next = {} THEN "done" ELSE "more", owner |-> owner, after |-> page.next,
               seen |-> old \o new, base |-> base]
  BY DEF Show
<1>7a. n > 0 => after = {old[n]}
  BY DEF LastSeen
<1> HIDE DEF page, q, S, old, new, n
<1>8. Len(new) \in Nat /\ Len(new) <= Len(q) /\ new \in Seq(row)
  BY <1>2, <1>3, <1>4, <1>6
<1>9. /\ old \o new \in Seq(row) /\ Len(old \o new) = n + Len(new)
      /\ \A i \in 1..(n + Len(new)) : (old \o new)[i] = IF i <= n THEN old[i] ELSE new[i - n]
  BY <1>5, <1>8, ConcatProperties
<1>10. /\ \A i \in 1..n : (old \o new)[i] = old[i] /\ old[i] \in row
       /\ \A i \in 1..Len(new) : (old \o new)[n + i] = q[i] /\ q[i] \in S
  <2>1. \A i \in 1..n : old[i] \in row /\ i \in 1..(n + Len(new))
    BY <1>5, <1>8
  <2>2. ASSUME NEW i \in 1..Len(new) PROVE (old \o new)[n + i] = q[i] /\ q[i] \in S
    <3>1. n + i \in 1..(n + Len(new)) /\ ~(n + i <= n) /\ (n + i) - n = i /\ i \in 1..Len(q)
      BY <1>5, <1>8
    <3>2. (old \o new)[n + i] = new[(n + i) - n]
      BY <1>9, <3>1
    <3>3. new[i] = q[i] /\ q[i] \in S
      BY <1>3, <1>4, <3>1, SMTT(60)
    <3> QED BY <3>1, <3>2, <3>3
  <2>3. ASSUME NEW i \in 1..n PROVE (old \o new)[i] = old[i]
    <3>1. i <= n /\ i \in 1..(n + Len(new))
      BY <1>5, <2>1
    <3> QED BY <1>9, <3>1
  <2> QED BY <2>1, <2>2, <2>3
<1>11. \A i \in 1..n : \A r \in S : Newer(old[i], r)
  <2> SUFFICES ASSUME NEW i \in 1..n, NEW r \in S PROVE Newer(old[i], r)
    OBVIOUS
  <2>1. after = {old[n]} /\ n \in 1..n
    BY <1>5, <1>7a
  <2>2. Newer(old[n], r)
    BY <2>1 DEF S, RowsAfter
  <2>3. i = n \/ Newer(old[i], old[n])
    BY <1>5, <2>1
  <2>4. old[i] \in row /\ old[n] \in row /\ r \in row
    BY <1>2, <1>10, <2>1
  <2> QED BY <1>1, <2>2, <2>3, <2>4, NewerOrders
<1> DEFINE seen == old \o new
           m == n + Len(new)
<1>12. ASSUME NEW i \in 1..m, NEW j \in 1..m, i < j PROVE Newer(seen[i], seen[j])
  <2>1. CASE j <= n
    <3>1. i \in 1..n /\ j \in 1..n
      BY <1>5, <1>8, <1>12, <2>1
    <3> QED BY <1>5, <1>10, <1>12, <3>1
  <2>2. CASE i <= n /\ j > n
    <3>1. i \in 1..n /\ j - n \in 1..Len(new) /\ n + (j - n) = j
      BY <1>5, <1>8, <2>2
    <3> HIDE DEF seen
    <3>2. seen[i] = old[i] /\ seen[j] \in S
      BY <1>10, <3>1 DEF seen
    <3> QED BY <1>11, <3>1, <3>2
  <2>3. CASE i > n
    <3>0. i \in Int /\ j \in Int /\ n \in Int /\ Len(new) \in Int /\ i <= m /\ j <= m /\ n < i /\ i < j
      BY <1>5, <1>8, <1>12, <2>3
    <3>1. /\ i - n \in 1..Len(new) /\ n + (i - n) = i /\ i - n < j - n
          /\ j - n \in 1..Len(new) /\ n + (j - n) = j
      BY <3>0
    <3>2. i - n \in 1..Len(q) /\ j - n \in 1..Len(q)
      BY <1>3, <1>8, <3>1, SMTT(60)
    <3>3. seen[i] = q[i - n] /\ seen[j] = q[j - n]
      BY <1>10, <3>1
    <3> QED BY <1>3, <3>1, <3>2, <3>3
  <2> QED BY <1>5, <1>8, <2>1, <2>2, <2>3
<1>13. page.next # {} => Len(new) = PageSize /\ page.next = {seen[m]} /\ seen[m] = q[PageSize] /\ m > 0
                         /\ Len(q) > PageSize
  <2> SUFFICES ASSUME page.next # {} PROVE Len(new) = PageSize /\ page.next = {seen[m]} /\ seen[m] = q[PageSize]
                                           /\ m > 0 /\ Len(q) > PageSize
    OBVIOUS
  <2>1. Len(q) > PageSize /\ page.next = {q[PageSize]}
    BY <1>4
  <2>2. Len(new) = PageSize
    BY <1>3, <1>4, <1>6, <2>1
  <2>3. seen[m] = q[PageSize]
    <3>1. PageSize \in 1..Len(new)
      BY <1>6, <2>2
    <3> QED BY <1>10, <2>2, <3>1
  <2>4. m > 0
    BY <1>5, <1>6, <2>2
  <2> QED BY <2>1, <2>2, <2>3, <2>4
<1>14. ASSUME NEW r \in base
       PROVE  (\E i \in 1..m : seen[i] = r) \/ (page.next # {} /\ Newer(seen[m], r))
  <2>1. CASE Shown(r)
    <3>1. PICK i \in 1..n : old[i] = r
      BY <2>1 DEF Shown, old, n
    <3>2. i \in 1..m /\ seen[i] = r
      BY <1>5, <1>8, <1>10, <3>1
    <3> QED BY <3>2
  <2>2. CASE r \in S
    <3>1. PICK k \in 1..Len(q) : q[k] = r
      BY <1>3, <2>2
    <3>2. CASE k <= Len(new)
      <4>1. k \in 1..Len(new) /\ n + k \in 1..m
        BY <1>5, <1>8, <3>2
      <4>2. seen[n + k] = r
        BY <1>10, <3>1, <4>1
      <4> QED BY <4>1, <4>2
    <3>3. CASE k > Len(new)
      <4>1. Len(q) > PageSize /\ Len(new) = PageSize
        BY <1>3, <1>4, <1>6, <3>3
      <4>2. page.next # {}
        BY <1>4, <4>1
      <4>3. PageSize \in 1..Len(q) /\ PageSize < k
        BY <1>3, <1>6, <3>3, <4>1
      <4>4. Newer(q[PageSize], r)
        BY <1>3, <3>1, <4>3
      <4>5. Newer(seen[m], r)
        <5>1. seen[m] = q[PageSize]
          BY <1>13, <4>2
        <5> HIDE DEF seen, m
        <5> QED BY <4>4, <5>1
      <4> QED BY <4>2, <4>5
    <3>4. k <= Len(new) \/ k > Len(new)
      BY <1>3, <1>8
    <3> HIDE DEF seen, m
    <3> QED BY <3>2, <3>3, <3>4
  <2> QED BY <2>1, <2>2 DEF S
<1> HIDE DEF seen, m
<1>15. /\ list'.seen = seen /\ list'.base = base /\ list'.owner = owner /\ list'.after = page.next
       /\ list'.pc = IF page.next = {} THEN "done" ELSE "more"
       /\ seen \in Seq(row) /\ Len(seen) = m /\ m \in Nat
  BY <1>5, <1>7, <1>8, <1>9 DEF seen, m
<1>16. list' \in ListType'
  <2>1. page.next \in SUBSET row
    BY <1>13, <1>15
  <2>2. list' = [pc |-> IF page.next = {} THEN "done" ELSE "more", owner |-> owner, after |-> page.next,
                 seen |-> seen, base |-> base]
    BY <1>7 DEF seen
  <2> QED BY <1>15, <2>1, <2>2 DEF ListType
<1>17. InOrder'
  BY <1>12, <1>15 DEF InOrder
<1>18. Covered'
  BY <1>14, <1>15 DEF Covered, Shown, LastSeen
<1>19. list'.pc = "more" => list'.seen # <<>> /\ list'.after = {list'.seen[Len(list'.seen)]}
  BY <1>13, <1>15
<1>20. list'.pc # "out"
  BY <1>15
<1> QED BY <1>15, <1>16, <1>17, <1>18, <1>19, <1>20 DEF ListInv, LastSeen

\* Creating a session, ticket or clock leaves the listing alone, and what it shows stays.
LEMMA ListStays == ASSUME ListInv, row \subseteq row', list' = list PROVE ListInv'
<1>1. list \in ListType
  BY DEF ListInv
<1>2. list.seen \in Seq(row')
  BY <1>1 DEF ListType
<1>3. list \in ListType'
  BY <1>1, <1>2 DEF ListType
<1> QED BY <1>3 DEF ListInv, InOrder, Covered, Shown, LastSeen

LEMMA NextList ==
  ASSUME LimiterInv, ApiTypes, ListInv, [Next]_vars
  PROVE  ListInv'
<1>1. CASE list' = list
  BY <1>1, NextTypes, ListStays
<1>2. CASE FirstPage
  <2>1. PICK u \in world.users : Show({u}, {}, {r \in row : r.owner = u})
    BY <1>2 DEF FirstPage
  <2>2. u \in Keys
    BY ApiAssumption DEF ApiTypes
  <2> DEFINE base == {r \in row : r.owner = u}
  <2>3. \A r \in base : r.owner \in {u} /\ r \in RowsAfter({u}, {})
    BY DEF RowsAfter
  <2>4. list.seen = <<>> /\ row' = row
    BY <1>2 DEF FirstPage, ListInv
  <2>5. base \subseteq row /\ {u} \subseteq Keys /\ Show({u}, {}, base)
    BY <2>1, <2>2
  <2> HIDE DEF base
  <2> QED BY <2>3, <2>4, <2>5, ShowOK
<1>3. CASE NextPage
  <2>1. list.pc = "more" /\ row' = row /\ Show(list.owner, list.after, list.base)
    BY <1>3 DEF NextPage
  <2>2. list.seen # <<>> /\ list.after = {LastSeen}
    BY <2>1 DEF ListInv
  <2>3. list.owner \subseteq Keys /\ list.base \subseteq row
    BY DEF ListInv, ListType
  <2>4. ASSUME NEW r \in list.base
        PROVE  r.owner \in list.owner /\ (Shown(r) \/ r \in RowsAfter(list.owner, list.after))
    <3>1. r.owner \in list.owner /\ r \in row
      BY <2>3 DEF ListInv
    <3>2. Shown(r) \/ Newer(LastSeen, r)
      BY <2>1 DEF ListInv, Covered
    <3> QED BY <2>2, <3>1, <3>2 DEF RowsAfter
  <2> QED BY <2>1, <2>2, <2>3, <2>4, ShowOK
<1>4. list' = list \/ FirstPage \/ NextPage
  BY DEF Next, vars, apiVars, Clock, Admit, Stamp, Commit, NewTicket
<1> QED BY <1>1, <1>2, <1>3, <1>4

-----------------------------------------------------------------------------
(* The theorems *)

\* The requests use the limiter as it is meant to be used: what they do to it is a
\* behaviour of the limiter (session_handlers.go, memory.go).
THEOREM ApiUsesLimiter == Spec => LimiterSpec
<1>1. Init => LimiterInit
  BY DEF Init
<1>2. Init => ApiInv
  BY ApiInit
<1>3. ApiInv /\ [Next]_vars => ApiInv'
  BY NextLimits, NextTypes, NextList, NextInv DEF ApiInv
<1>4. ApiInv /\ [Next]_vars => [LimiterNext]_limiterVars
  BY NextLimits DEF ApiInv
<1> QED BY <1>1, <1>2, <1>3, <1>4, PTL DEF Spec, LimiterSpec

\* Sessions, requests and the listing keep their invariant, whatever commits between
\* the pages.
THEOREM ApiInvariant == Spec => []ApiInv
<1>1. Init => ApiInv
  BY ApiInit
<1>2. ApiInv /\ [Next]_vars => ApiInv'
  BY NextLimits, NextTypes, NextList, NextInv DEF ApiInv
<1> QED BY <1>1, <1>2, PTL DEF Spec

\* Over any window a user creates sessions and fetches tickets within one budget, and
\* another for each time MaxKeys other users pushed its key out (handleCreateSession,
\* handleSessionTicket).
THEOREM BudgetShared == Spec => []RateBound
BY ApiUsesLimiter, BudgetKept, PTL

\* Following the cursor shows every session that was there at the first page, once and
\* in order (handleListSessions, Sessions.List).
THEOREM PagesShowAll == Spec => []PagesAreComplete
<1>1. ApiInv => PagesAreComplete
  <2> SUFFICES ASSUME ListInv PROVE PagesAreComplete
    BY DEF ApiInv
  <2>1. list.pc = "done" => \A r \in list.base : Shown(r)
    BY DEF ListInv, Covered
  <2> QED BY <2>1 DEF ListInv, InOrder, PagesAreComplete, Shown
<1> QED BY <1>1, ApiInvariant, PTL
=============================================================================
