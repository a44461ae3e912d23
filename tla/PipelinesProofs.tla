--------------------------- MODULE PipelinesProofs ---------------------------
(***************************************************************************)
(* Who waits for a config request is served, and the cache never goes back *)
(* to an older key, for any number of callers, tasks and keys.             *)
(*                                                                         *)
(* Both rest on one fact, that the requests of a language do not overlap   *)
(* (OneFlight): an answer is then newer than all that is cached, and a     *)
(* caller is waited for in one place only.  That nobody fails with another *)
(* rests on the request's context, which outlives its caller (Unfailed).   *)
(***************************************************************************)
EXTENDS Pipelines, TLAPS

Places == {"idle", "resolve", "refresh", "fetch", "wait", "reread", "compute", "invalidate", "backoff"}

\* Where everybody is; the background refresh runs while its flag is set.
PlacesOK ==
  /\ pc \in [Parties -> Places]
  /\ refreshing <=> pc[Refresher] \in {"fetch", "wait"}
  /\ pc[Refresher] \in {"idle", "fetch", "wait"}
  /\ \A c \in Callers : /\ pc[c] # "idle" => task[c] \in Tasks
                        /\ pc[c] = "refresh" => svc[c] # None
                        /\ pc[c] = "invalidate" => attempt[c] = 0

OneFlight == \A f, g \in flights : f = g

\* An answer reached nobody who is still waited for.
AnsweredOnce == \A p \in Parties : answer[p] # None => \A f \in flights : p \notin f.waiting

\* Whoever waits has joined the request, or has its answer.
Known == \A p \in Parties : pc[p] = "wait" <=> answer[p] # None \/ \E f \in flights : p \in f.waiting

\* While the service answers, no request fails and nobody is told that one did.
Unfailed ==
  healthy => /\ \A f \in flights : f.phase # "failed"
             /\ \A p \in Parties : answer[p] # "failed"

\* Nothing cached is newer than an answer on its way, nor than the provider's key.
AnswersAreNewer ==
  /\ \A t \in Tasks : cache[t] # None => cache[t].key <= key
  /\ \A f \in flights : f.phase = "answered" =>
       /\ f.key \in Keys /\ f.key <= key
       /\ \A t \in Tasks : cache[t] # None => cache[t].key <= f.key

Types == TypeOK /\ PlacesOK
Waiting == OneFlight /\ AnsweredOnce /\ Known
PipelinesInv == Types /\ Waiting /\ Unfailed /\ AnswersAreNewer

-----------------------------------------------------------------------------
(* What the steps have in common *)

LEMMA Initial == Init => PipelinesInv
<1> SUFFICES ASSUME Init PROVE PipelinesInv
  OBVIOUS
<1>1. TypeOK
  <2>1. key \in Keys /\ healthy \in BOOLEAN /\ attempt \in [Callers -> 0..1]
    BY PipelinesAssumption DEF Init, Keys
  <2>2. cache \in [Tasks -> Entries \cup {None}] /\ answer \in [Parties -> {"stored", "failed", None}]
    BY DEF Init
  <2>3. task \in [Callers -> Tasks \cup {None}] /\ svc \in [Callers -> Keys \cup {None}]
    BY DEF Init
  <2>4. \A c \in Callers : pc[c] # "compute"
    BY DEF Init, Parties
  <2> QED BY <2>1, <2>2, <2>3, <2>4 DEF Init, TypeOK
<1>2. PlacesOK
  BY PipelinesAssumption DEF Init, PlacesOK, Places, Parties
<1>3. Waiting
  BY DEF Init, Waiting, OneFlight, AnsweredOnce, Known
<1>4. AnswersAreNewer
  BY DEF Init, AnswersAreNewer
<1>5. Unfailed
  BY PipelinesAssumption DEF Init, Unfailed
<1> QED BY <1>1, <1>2, <1>3, <1>4, <1>5 DEF PipelinesInv, Types

LEMMA PartiesApart ==
  /\ Callers \subseteq Parties /\ Refresher \in Parties /\ Warmer \in Parties
  /\ Refresher \notin Callers /\ Warmer \notin Callers /\ Refresher # Warmer
  /\ None \notin Keys /\ None # "stored" /\ None # "failed"
BY PipelinesAssumption DEF Parties, Keys

\* Whatever becomes of a request, it stays one.
LEMMA FlightFields ==
  ASSUME NEW f \in Flights
  PROVE  /\ \A p \in Parties : [f EXCEPT !.waiting = @ \cup {p}] \in Flights
         /\ \A p : [f EXCEPT !.waiting = @ \ {p}] \in Flights
         /\ [f EXCEPT !.phase = "failed", !.leader = None] \in Flights
         /\ \A o \in SUBSET Tasks, k \in Keys :
              [f EXCEPT !.phase = "answered", !.leader = None, !.key = k, !.offers = o] \in Flights
         /\ [Request(None) EXCEPT !.phase = "stored", !.waiting = f.waiting] \in Flights
         /\ \A p \in Parties : Request(p) \in Flights
BY ZenonT(60) DEF Flights, Request


-----------------------------------------------------------------------------
(* Types *)

LEMMA LeaveTypes == ASSUME TypeOK, NEW p, Leave(p) PROVE flights' \subseteq Flights
<1> SUFFICES ASSUME NEW g \in flights' PROVE g \in Flights
  OBVIOUS
<1>1. PICK f \in flights : g = [f EXCEPT !.waiting = @ \ {p}]
  BY DEF Leave
<1>2. f \in Flights
  BY DEF TypeOK
<1> QED BY <1>1, <1>2, FlightFields

LEMMA CallerTypes ==
  ASSUME Types, NEW c \in Callers,
         (\E t \in Tasks : Begin(c, t)) \/ CallStep(c) \/ GiveUp(c)
  PROVE  Types'
<1> USE PartiesApart
<1>1. CASE \E t \in Tasks : Begin(c, t)
  BY <1>1 DEF Begin, TypeOK, PlacesOK, Places, Types, At, Go, Return, Take, call
<1>2. CASE Resolve(c)
  BY <1>2 DEF Resolve, TypeOK, PlacesOK, Places, Types, At, Go, Return, Take, call, Entries
<1>3. CASE Miss(c)
  BY <1>3 DEF Miss, TypeOK, PlacesOK, Places, Types, At, Go, Return, Take, call
<1>4. CASE RefreshInBackground(c)
  <2>1. pc' \in [Parties -> Places] /\ \A p \in Parties \ {c, Refresher} : pc'[p] = pc[p]
    BY <1>4 DEF RefreshInBackground, PlacesOK, Places, Types
  <2>2. pc'[Refresher] \in {"fetch", "wait"} /\ pc'[c] = "compute" /\ refreshing' = TRUE
    BY <1>4 DEF RefreshInBackground, PlacesOK, Types
  <2>3. svc[c] # None
    BY <1>4 DEF RefreshInBackground, PlacesOK, Types, At
  <2> QED BY <1>4, <2>1, <2>2, <2>3 DEF RefreshInBackground, TypeOK, PlacesOK, Types, At, call
<1>5. CASE Reread(c)
  BY <1>5 DEF Reread, TypeOK, PlacesOK, Places, Types, At, Go, Return, Take, call, Entries
<1>6. CASE Computed(c)
  BY <1>6 DEF Computed, TypeOK, PlacesOK, Places, Types, At, Go, Return, Take, call
<1>7. CASE ComputeFails(c)
  BY <1>7 DEF ComputeFails, TypeOK, PlacesOK, Places, Types, At, Go, Return, Take, call
<1>8. CASE Refused(c)
  BY <1>8 DEF Refused, TypeOK, PlacesOK, Places, Types, At, Go, Return, Take, call, MayRetry
<1>9. CASE Invalidate(c)
  <2>1. attempt' \in [Callers -> 0..1]
    BY <1>9 DEF Invalidate, TypeOK, PlacesOK, Types, At
  <2> QED BY <1>9, <2>1 DEF Invalidate, TypeOK, PlacesOK, Places, Types, At, Go
<1>10. CASE Collect(c)
  BY <1>10 DEF Collect, TypeOK, PlacesOK, Places, Types, At, Go, Return, Take, call
<1>11. CASE GiveUp(c)
  <2>1. flights' \subseteq Flights
    BY <1>11, LeaveTypes DEF GiveUp, Types
  <2> QED BY <1>11, <2>1 DEF GiveUp, TypeOK, PlacesOK, Places, Types, Go, Return
<1> QED BY <1>1, <1>2, <1>3, <1>4, <1>5, <1>6, <1>7, <1>8, <1>9, <1>10, <1>11 DEF CallStep

LEMMA FlightTypes ==
  ASSUME Types, AnswersAreNewer, (\E p \in Parties : Fetch(p)) \/ FlightStep
  PROVE  Types'
<1> USE PartiesApart
<1>1. CASE \E p \in Parties : Fetch(p)
  <2>1. PICK p \in Parties : Fetch(p)
    BY <1>1
  <2>2. flights' \subseteq Flights
    <3>1. flights \subseteq Flights /\ Request(p) \in Flights
      BY SMTT(60) DEF TypeOK, Types, Request, Flights
    <3>2. \A f \in flights : [f EXCEPT !.waiting = @ \cup {p}] \in Flights
      BY <3>1, FlightFields
    <3> QED BY <2>1, <3>1, <3>2 DEF Fetch, Become, Shared
  <2> QED BY <2>1, <2>2 DEF Fetch, TypeOK, PlacesOK, Places, Types, At, Go, call
<1>2. ASSUME NEW f \in flights, ConfigAnswers(f) \/ ConfigFails(f) PROVE Types'
  <2>1. flights \subseteq Flights /\ f \in Flights /\ key \in Keys
    BY SMTT(60) DEF TypeOK, Types
  <2>2. /\ [f EXCEPT !.phase = "failed", !.leader = None] \in Flights
        /\ \A o \in Offers : [f EXCEPT !.phase = "answered", !.leader = None, !.key = key, !.offers = o] \in Flights
    BY <2>1, FlightFields, PipelinesAssumption
  <2>3. flights' \subseteq Flights
    BY <1>2, <2>1, <2>2 DEF ConfigAnswers, ConfigFails, Become
  <2>4. UNCHANGED <<key, healthy, cache, available, refreshing, answer, pc, task, attempt, svc>>
    BY <1>2 DEF ConfigAnswers, ConfigFails, call
  <2> QED BY <2>3, <2>4 DEF TypeOK, PlacesOK, Types
<1>3. ASSUME NEW f \in flights, Store(f) PROVE Types'
  <2>1. flights' \subseteq Flights
    BY <1>3, FlightFields DEF Store, Become, TypeOK, Types
  <2>2. cache' \in [Tasks -> Entries \cup {None}]
    BY <1>3 DEF Store, TypeOK, Types, Entries, AnswersAreNewer
  <2> QED BY <1>3, <2>1, <2>2 DEF Store, TypeOK, PlacesOK, Types, call
<1>4. ASSUME NEW f \in flights, Deliver(f) PROVE Types'
  <2>1. answer' \in [Parties -> {"stored", "failed", None}]
    BY <1>4 DEF Deliver, TypeOK, Types
  <2> QED BY <1>4, <2>1 DEF Deliver, TypeOK, PlacesOK, Types, call
<1> QED BY <1>1, <1>2, <1>3, <1>4 DEF FlightStep

LEMMA OtherTypes ==
  ASSUME Types, Refreshed \/ Warmed \/ WarmAgain \/ WarmStops \/ Rotate \/ \E t \in Tasks : Age(t)
  PROVE  Types'
<1> USE PartiesApart
<1>1. CASE Refreshed
  BY <1>1 DEF Refreshed, TypeOK, PlacesOK, Places, Types, At, Go, call
<1>2. CASE Warmed
  BY <1>2 DEF Warmed, TypeOK, PlacesOK, Places, Types, At, Go, call
<1>3. CASE WarmAgain
  BY <1>3 DEF WarmAgain, TypeOK, PlacesOK, Places, Types, At, Go, call
<1>4. CASE WarmStops
  <2>1. flights' \subseteq Flights
    BY <1>4, LeaveTypes DEF WarmStops, Types
  <2> QED BY <1>4, <2>1 DEF WarmStops, TypeOK, PlacesOK, Places, Types, Go, call
<1>5. CASE Rotate
  <2>1. key' \in Keys
    BY <1>5, PipelinesAssumption DEF Rotate, TypeOK, Types, Keys
  <2> QED BY <1>5, <2>1 DEF Rotate, TypeOK, PlacesOK, Types, call
<1>6. CASE \E t \in Tasks : Age(t)
  <2>1. PICK t \in Tasks : Age(t)
    BY <1>6
  <2>2. cache[t] \in Entries
    BY <2>1 DEF Age, TypeOK, Types
  <2>3. [cache[t] EXCEPT !.old = TRUE] \in Entries
    BY <2>2 DEF Entries
  <2>4. cache' = [cache EXCEPT ![t] = [cache[t] EXCEPT !.old = TRUE]]
    BY <2>1 DEF Age, TypeOK, Types
  <2> QED BY <2>1, <2>3, <2>4 DEF Age, TypeOK, PlacesOK, Types, call
<1> QED BY <1>1, <1>2, <1>3, <1>4, <1>5, <1>6

-----------------------------------------------------------------------------
(* Waiting *)

\* Leaving takes one party from the request, and nobody else.
LEMMA LeaveWaits ==
  ASSUME Types, Waiting, NEW p \in Parties, Leave(p)
  PROVE  /\ OneFlight'
         /\ \A f \in flights' : p \notin f.waiting
         /\ \A q \in Parties \ {p} : (\E f \in flights' : q \in f.waiting) <=> \E f \in flights : q \in f.waiting
<1>1. \A f \in flights : [f EXCEPT !.waiting = @ \ {p}].waiting = f.waiting \ {p}
  BY DEF Types, TypeOK, Flights
<1> QED BY <1>1, ZenonT(60) DEF Leave, Waiting, OneFlight

\* A request that becomes another one with the same waiters changes nothing for them.
LEMMA BecomeWaits ==
  ASSUME Types, Waiting, NEW f \in flights, NEW g, g.waiting = f.waiting, Become(f, g), UNCHANGED <<answer, pc>>
  PROVE  Waiting'
<1>1. flights = {f} /\ flights' = {g}
  BY DEF Waiting, OneFlight, Become
<1> QED BY <1>1 DEF Waiting, OneFlight, AnsweredOnce, Known

\* Who moves between places where nobody waits.
LEMMA MoveWaits ==
  ASSUME Types, Waiting, UNCHANGED <<flights, answer>>, pc' \in [Parties -> Places],
         \A p \in Parties : pc'[p] = "wait" <=> pc[p] = "wait"
  PROVE  Waiting'
BY DEF Waiting, OneFlight, AnsweredOnce, Known

\* Who stops waiting, with an answer or without.
LEMMA GoneWaits ==
  ASSUME Types, Waiting, NEW p \in Parties,
         pc'[p] # "wait", \A q \in Parties \ {p} : pc'[q] = pc[q],
         answer' = [answer EXCEPT ![p] = None],
         \/ Leave(p)
         \/ answer[p] # None /\ UNCHANGED flights
  PROVE  Waiting'
<1>1. OneFlight' /\ \A f \in flights' : p \notin f.waiting
  BY LeaveWaits DEF Waiting, AnsweredOnce, OneFlight
<1>2. \A q \in Parties \ {p} : (\E f \in flights' : q \in f.waiting) <=> \E f \in flights : q \in f.waiting
  BY LeaveWaits
<1>3. answer'[p] = None /\ \A q \in Parties \ {p} : answer'[q] = answer[q]
  BY DEF Types, TypeOK
<1> QED BY <1>1, <1>2, <1>3 DEF Waiting, AnsweredOnce, Known

LEMMA CallerWaits ==
  ASSUME Types, Waiting, NEW c \in Callers,
         (\E t \in Tasks : Begin(c, t)) \/ CallStep(c) \/ GiveUp(c)
  PROVE  Waiting'
<1> USE PartiesApart
<1>1. CASE GiveUp(c)
  BY <1>1, GoneWaits DEF GiveUp, Return, Go, Types, PlacesOK
<1>2. CASE Collect(c)
  BY <1>2, GoneWaits DEF Collect, Return, Go, Types, PlacesOK
<1>3. CASE RefreshInBackground(c)
  <2>1. ~refreshing => pc[Refresher] = "idle"
    BY DEF Types, PlacesOK
  <2> QED BY <1>3, <2>1, MoveWaits, CallerTypes DEF RefreshInBackground, CallStep, Types, PlacesOK, At
<1>4. CASE (\E t \in Tasks : Begin(c, t)) \/ Resolve(c) \/ Miss(c) \/ Reread(c)
             \/ Computed(c) \/ ComputeFails(c) \/ Refused(c) \/ Invalidate(c)
  <2>1. /\ UNCHANGED <<flights, answer>> /\ pc[c] # "wait"
        /\ \E place \in Places \ {"wait"} : Go(c, place)
    BY <1>4 DEF Begin, Resolve, Miss, Reread, Computed, ComputeFails, Refused, Invalidate, Take, Return, At, Places
  <2> QED BY <2>1, MoveWaits DEF Go, Types, PlacesOK
<1> QED BY <1>1, <1>2, <1>3, <1>4 DEF CallStep

LEMMA FlightWaits ==
  ASSUME Types, Waiting, (\E p \in Parties : Fetch(p)) \/ FlightStep
  PROVE  Waiting'
<1> USE PartiesApart
<1>1. ASSUME NEW p \in Parties, Fetch(p) PROVE Waiting'
  <2>1. answer[p] = None /\ \A f \in flights : p \notin f.waiting
    BY <1>1 DEF Fetch, At, Waiting, Known
  <2> DEFINE Joined(g) == /\ flights' = {g}
                          /\ \A q \in Parties : q \in g.waiting <=> q = p \/ \E f \in flights : q \in f.waiting
  <2>2. \E g : Joined(g)
    <3>1. CASE flights = {} /\ flights' = flights \cup {Request(p)}
      <4>1. flights' = {Request(p)} /\ Request(p).waiting = {p}
        BY <3>1 DEF Request
      <4>2. Joined(Request(p))
        BY <3>1, <4>1
      <4> QED BY <4>2
    <3>2. ASSUME NEW f \in flights, Become(f, [f EXCEPT !.waiting = @ \cup {p}])
          PROVE  \E g : Joined(g)
      <4>1. [f EXCEPT !.waiting = @ \cup {p}].waiting = f.waiting \cup {p}
        BY DEF Types, TypeOK, Flights
      <4>2. flights = {f}
        BY DEF Waiting, OneFlight
      <4> QED BY <3>2, <4>1, <4>2 DEF Become
    <3> QED BY <1>1, <3>1, <3>2 DEF Fetch, Shared
  <2>3. UNCHANGED answer /\ pc'[p] = "wait" /\ \A q \in Parties \ {p} : pc'[q] = pc[q]
    BY <1>1 DEF Fetch, Go, Types, PlacesOK
  <2> QED BY <2>1, <2>2, <2>3 DEF Waiting, OneFlight, AnsweredOnce, Known
<1>2. ASSUME NEW f \in flights, ConfigAnswers(f) \/ ConfigFails(f) \/ Store(f) PROVE Waiting'
  <2>1. f \in Flights
    BY DEF Types, TypeOK
  <2>2. \E g : g.waiting = f.waiting /\ Become(f, g)
    BY <1>2, <2>1 DEF ConfigAnswers, ConfigFails, Store, Flights, Request
  <2>3. UNCHANGED <<answer, pc>>
    BY <1>2 DEF ConfigAnswers, ConfigFails, Store
  <2> QED BY <2>2, <2>3, BecomeWaits
<1>3. ASSUME NEW f \in flights, Deliver(f) PROVE Waiting'
  <2>1. flights = {f} /\ flights' = {}
    BY <1>3 DEF Deliver, Waiting, OneFlight
  <2>2. \A p \in Parties : answer'[p] # None <=> p \in f.waiting \/ answer[p] # None
    BY <1>3 DEF Deliver
  <2> QED BY <1>3, <2>1, <2>2 DEF Deliver, Waiting, OneFlight, AnsweredOnce, Known
<1> QED BY <1>1, <1>2, <1>3 DEF FlightStep

LEMMA OtherWaits ==
  ASSUME Types, Waiting, Refreshed \/ Warmed \/ WarmAgain \/ WarmStops \/ Rotate \/ \E t \in Tasks : Age(t)
  PROVE  Waiting'
<1> USE PartiesApart
<1>1. CASE Refreshed
  BY <1>1, GoneWaits DEF Refreshed, RefreshDone, Go, Types, PlacesOK
<1>2. CASE Warmed
  BY <1>2, GoneWaits DEF Warmed, Go, Types, PlacesOK
<1>3. CASE WarmAgain
  BY <1>3, MoveWaits DEF WarmAgain, At, Go, Types, PlacesOK, Places
<1>4. CASE WarmStops
  BY <1>4, GoneWaits DEF WarmStops, Go, Types, PlacesOK
<1>5. CASE Rotate \/ \E t \in Tasks : Age(t)
  BY <1>5, MoveWaits DEF Rotate, Age, Types, PlacesOK
<1> QED BY <1>1, <1>2, <1>3, <1>4, <1>5

-----------------------------------------------------------------------------
(* Failing *)

\* Nobody's cancellation ends a request, so that only the service fails one.
LEMMA UnfailedNext == ASSUME Types, Unfailed, [Next]_vars PROVE Unfailed'
<1> USE PartiesApart
<1>1. UNCHANGED healthy
  BY DEF Next, CallStep, FlightStep, Begin, Resolve, Miss, RefreshInBackground, Reread, Computed, ComputeFails,
         Refused, Invalidate, Collect, GiveUp, Fetch, ConfigAnswers, ConfigFails, Store, Deliver, Refreshed,
         Warmed, WarmAgain, WarmStops, Rotate, Age, vars
<1> SUFFICES ASSUME healthy
             PROVE  (\A f \in flights' : f.phase # "failed") /\ \A p \in Parties : answer'[p] # "failed"
  BY <1>1 DEF Unfailed
<1>2. (\A f \in flights : f.phase # "failed") /\ \A p \in Parties : answer[p] # "failed"
  BY DEF Unfailed
<1>3. CASE UNCHANGED <<flights, answer>>
  BY <1>2, <1>3
<1>4. ASSUME NEW p \in Parties, Leave(p) \/ UNCHANGED flights, answer' = [answer EXCEPT ![p] = None]
      PROVE  (\A f \in flights' : f.phase # "failed") /\ \A q \in Parties : answer'[q] # "failed"
  <2>1. \A f \in flights : [f EXCEPT !.waiting = @ \ {p}].phase = f.phase
    BY DEF Types, TypeOK, Flights
  <2>2. \A g \in flights' : \E f \in flights : g.phase = f.phase
    <3>1. CASE Leave(p)
      BY <2>1, <3>1 DEF Leave
    <3> QED BY <1>4, <3>1
  <2>3. \A q \in Parties : answer'[q] # "failed"
    BY <1>2, <1>4 DEF Types, TypeOK
  <2> QED BY <1>2, <2>2, <2>3
<1>5. ASSUME NEW p \in Parties, Fetch(p)
      PROVE  (\A f \in flights' : f.phase # "failed") /\ \A q \in Parties : answer'[q] # "failed"
  <2>1. \A f \in flights : [f EXCEPT !.waiting = @ \cup {p}].phase = f.phase
    BY DEF Types, TypeOK, Flights
  <2>2. Request(p).phase = "asked"
    BY DEF Request
  <2>3. \A g \in flights' : g.phase = "asked" \/ \E f \in flights : g.phase = f.phase
    BY <1>5, <2>1, <2>2 DEF Fetch, Become, Shared
  <2>4. UNCHANGED answer
    BY <1>5 DEF Fetch
  <2> QED BY <1>2, <2>3, <2>4
<1>6. ASSUME NEW f \in flights, ConfigAnswers(f) \/ Store(f)
      PROVE  (\A g \in flights' : g.phase # "failed") /\ \A q \in Parties : answer'[q] # "failed"
  <2>1. f \in Flights
    BY DEF Types, TypeOK
  <2>2. /\ \A o \in Offers : [f EXCEPT !.phase = "answered", !.leader = None, !.key = key, !.offers = o].phase = "answered"
        /\ [Request(None) EXCEPT !.phase = "stored", !.waiting = f.waiting].phase = "stored"
    BY <2>1 DEF Flights, Request
  <2>3. \E g : Become(f, g) /\ g.phase # "failed"
    BY <1>6, <2>2 DEF ConfigAnswers, Store
  <2>4. UNCHANGED answer
    BY <1>6 DEF ConfigAnswers, Store
  <2> QED BY <1>2, <2>3, <2>4 DEF Become
<1>7. ASSUME NEW f \in flights, ConfigFails(f) PROVE FALSE
  BY <1>7 DEF ConfigFails, CtxEnds
<1>8. ASSUME NEW f \in flights, Deliver(f)
      PROVE  (\A g \in flights' : g.phase # "failed") /\ \A q \in Parties : answer'[q] # "failed"
  <2>1. f.phase = "stored" /\ flights' \subseteq flights
    BY <1>2, <1>8 DEF Deliver
  <2> QED BY <1>2, <1>8, <2>1 DEF Deliver
<1>9. ASSUME NEW c \in Callers, (\E t \in Tasks : Begin(c, t)) \/ CallStep(c) \/ GiveUp(c)
      PROVE  \/ UNCHANGED <<flights, answer>>
             \/ (Leave(c) \/ UNCHANGED flights) /\ answer' = [answer EXCEPT ![c] = None]
  BY <1>9 DEF CallStep, Begin, Resolve, Miss, RefreshInBackground, Reread, Computed, ComputeFails,
              Refused, Invalidate, Collect, GiveUp
<1>10. CASE Refreshed
  BY <1>4, <1>10 DEF Refreshed
<1>11. CASE Warmed \/ WarmStops
  BY <1>4, <1>11 DEF Warmed, WarmStops
<1>12. CASE WarmAgain \/ Rotate \/ (\E t \in Tasks : Age(t)) \/ UNCHANGED vars
  BY <1>3, <1>12 DEF WarmAgain, Rotate, Age, vars
<1> QED BY <1>3, <1>4, <1>5, <1>6, <1>7, <1>8, <1>9, <1>10, <1>11, <1>12 DEF Next, FlightStep

-----------------------------------------------------------------------------
(* Keys *)

\* What is cached is an entry, and an entry has a key.
LEMMA CachedKeys ==
  ASSUME Types
  PROVE  key \in Nat /\ \A t \in Tasks : cache[t] # None => cache[t] \in Entries /\ cache[t].key \in Nat
BY PipelinesAssumption DEF Types, TypeOK, Entries, Keys

LEMMA KeysNext ==
  ASSUME Types, OneFlight, AnswersAreNewer, [Next]_vars
  PROVE  /\ AnswersAreNewer'
         /\ \A t \in Tasks : cache[t] # None /\ cache'[t] # None => cache'[t].key >= cache[t].key
<1> DEFINE Newer == \A t \in Tasks : cache[t] # None /\ cache'[t] # None => cache'[t].key >= cache[t].key
<1> USE PartiesApart, CachedKeys
\* A step that stores nothing, and asks the provider nothing.
<1>1. ASSUME \A t \in Tasks : cache'[t] # None => cache[t] # None /\ cache'[t].key = cache[t].key,
             key' \in Nat, key' >= key,
             \A g \in flights' : g.phase = "answered" => \E f \in flights : f.phase = "answered" /\ f.key = g.key
      PROVE  AnswersAreNewer' /\ Newer
  <2>1. \A f \in flights : f.phase = "answered" => f.key \in Nat
    BY PipelinesAssumption DEF AnswersAreNewer, Keys
  <2> QED BY <1>1, <2>1 DEF AnswersAreNewer
<1>2. ASSUME NEW f \in flights, ConfigAnswers(f) PROVE AnswersAreNewer' /\ Newer
  <2>1. PICK o \in Offers : flights' = {[f EXCEPT !.phase = "answered", !.leader = None, !.key = key, !.offers = o]}
    BY <1>2 DEF ConfigAnswers, Become, OneFlight
  <2>2. [f EXCEPT !.phase = "answered", !.leader = None, !.key = key, !.offers = o].key = key
    BY DEF Types, TypeOK, Flights
  <2>3. UNCHANGED <<key, cache>> /\ key \in Keys
    BY <1>2 DEF ConfigAnswers, Types, TypeOK
  <2> QED BY <2>1, <2>2, <2>3 DEF AnswersAreNewer
<1>3. ASSUME NEW f \in flights, Store(f) PROVE AnswersAreNewer' /\ Newer
  <2>1. f.key \in Nat /\ f.key <= key /\ \A t \in Tasks : cache[t] # None => cache[t].key <= f.key
    BY <1>3, PipelinesAssumption DEF Store, AnswersAreNewer, Keys
  <2>2. \A t \in Tasks : \/ cache'[t] = cache[t]
                         \/ cache'[t] = [key |-> f.key, old |-> FALSE]
    BY <1>3 DEF Store
  <2>3. key' = key /\ \A g \in flights' : g.phase = "stored"
    BY <1>3 DEF Store, Become, OneFlight, Request
  <2>4. \A t \in Tasks : cache'[t] # None => cache'[t].key <= key
    BY <2>1, <2>2 DEF AnswersAreNewer
  <2> QED BY <2>1, <2>2, <2>3, <2>4 DEF AnswersAreNewer
<1>4. CASE UNCHANGED <<key, cache, flights>>
  BY <1>1, <1>4
<1>5. ASSUME NEW p, Leave(p), UNCHANGED <<key, cache>> PROVE AnswersAreNewer' /\ Newer
  <2>1. \A f \in flights : /\ [f EXCEPT !.waiting = @ \ {p}].phase = f.phase
                           /\ [f EXCEPT !.waiting = @ \ {p}].key = f.key
    BY DEF Types, TypeOK, Flights
  <2>2. \A g \in flights' : \E f \in flights : g.phase = f.phase /\ g.key = f.key
    BY <1>5, <2>1 DEF Leave
  <2> QED BY <1>1, <1>5, <2>2
<1>6. ASSUME NEW c \in Callers, Invalidate(c) PROVE AnswersAreNewer' /\ Newer
  <2>1. \A t \in Tasks : cache'[t] # None => cache'[t] = cache[t]
    BY <1>6 DEF Invalidate, Types, TypeOK
  <2> QED BY <1>1, <1>6, <2>1 DEF Invalidate
<1>7. ASSUME NEW p \in Parties, Fetch(p) PROVE AnswersAreNewer' /\ Newer
  <2>1. \A f \in flights : /\ [f EXCEPT !.waiting = @ \cup {p}].phase = f.phase
                           /\ [f EXCEPT !.waiting = @ \cup {p}].key = f.key
    BY DEF Types, TypeOK, Flights
  <2>2. Request(p).phase = "asked"
    BY DEF Request
  <2>3. \A g \in flights' : g.phase = "asked" \/ \E f \in flights : g.phase = f.phase /\ g.key = f.key
    BY <1>7, <2>1, <2>2 DEF Fetch, Become, Shared
  <2>4. UNCHANGED <<key, cache>>
    BY <1>7 DEF Fetch
  <2> QED BY <1>1, <2>3, <2>4
<1>8. ASSUME NEW f \in flights, ConfigFails(f) \/ Deliver(f) PROVE AnswersAreNewer' /\ Newer
  <2>1. [f EXCEPT !.phase = "failed", !.leader = None].phase = "failed"
    BY DEF Types, TypeOK, Flights
  <2>2. \A g \in flights' : g \in flights \/ g.phase = "failed"
    BY <1>8, <2>1 DEF ConfigFails, Deliver, Become
  <2> QED BY <1>1, <1>8, <2>2 DEF ConfigFails, Deliver
<1>9. CASE Rotate
  BY <1>1, <1>9 DEF Rotate
<1>10. ASSUME NEW t \in Tasks, Age(t) PROVE AnswersAreNewer' /\ Newer
  <2>1. cache[t] \in Entries /\ cache' = [cache EXCEPT ![t] = [cache[t] EXCEPT !.old = TRUE]]
    BY <1>10 DEF Age, Types, TypeOK
  <2>2. [cache[t] EXCEPT !.old = TRUE].key = cache[t].key
    BY <2>1 DEF Entries
  <2>3. \A u \in Tasks : cache'[u] # None => cache[u] # None /\ cache'[u].key = cache[u].key
    BY <1>10, <2>1, <2>2 DEF Age, Types, TypeOK
  <2> QED BY <1>1, <1>10, <2>3 DEF Age
<1>11. ASSUME NEW c \in Callers, (\E t \in Tasks : Begin(c, t)) \/ CallStep(c) \/ GiveUp(c)
       PROVE  \/ UNCHANGED <<key, cache, flights>>
              \/ Invalidate(c)
              \/ Leave(c) /\ UNCHANGED <<key, cache>>
  BY <1>11 DEF CallStep, Begin, Resolve, Miss, RefreshInBackground, Reread, Computed, ComputeFails,
               Refused, Collect, GiveUp
<1>12. CASE Refreshed \/ Warmed \/ WarmAgain \/ UNCHANGED vars
  BY <1>4, <1>12 DEF Refreshed, Warmed, WarmAgain, vars
<1>13. CASE WarmStops
  BY <1>5, <1>13 DEF WarmStops
<1> QED BY <1>2, <1>3, <1>4, <1>5, <1>6, <1>7, <1>8, <1>9, <1>10, <1>11, <1>12, <1>13 DEF Next, FlightStep

-----------------------------------------------------------------------------
(* The theorems *)

\* The invariant of the gateway's client.
THEOREM PipelinesInvariant == Spec => []PipelinesInv
<1>1. ASSUME PipelinesInv, [Next]_vars PROVE PipelinesInv'
  <2>1. Types' /\ Waiting'
    <3>1. CASE UNCHANGED vars
      BY <1>1, <3>1 DEF PipelinesInv, Types, TypeOK, PlacesOK, Waiting, OneFlight, AnsweredOnce,
                        Known, vars, call
    <3>2. CASE Next
      BY <1>1, <3>2, CallerTypes, FlightTypes, OtherTypes, CallerWaits, FlightWaits, OtherWaits
        DEF PipelinesInv, Next
    <3> QED BY <1>1, <3>1, <3>2
  <2>2. AnswersAreNewer'
    BY <1>1, KeysNext DEF PipelinesInv, Waiting
  <2>3. Unfailed'
    BY <1>1, UnfailedNext DEF PipelinesInv
  <2> QED BY <2>1, <2>2, <2>3 DEF PipelinesInv
<1> QED BY Initial, <1>1, PTL DEF Spec

\* Entries, requests and calls keep their shapes (client.go, Client and service).
THEOREM PipelinesTypeOK == Spec => []TypeOK
BY PipelinesInvariant, PTL DEF PipelinesInv, Types

\* Whoever waits for the config is served, and fails only with the service, also when
\* the call that made the request is cut (client.go, fetch).
THEOREM WaitersServed == Spec => []WaitersAreServed
<1>1. PipelinesInv => WaitersAreServed
  BY DEF PipelinesInv, Waiting, Known, Unfailed, WaitersAreServed
<1> QED BY PipelinesInvariant, <1>1, PTL

\* A slow answer never puts an older key over a newer one (client.go, fetch and store).
THEOREM CacheMovesForward == Spec => CacheNeverGoesBack
<1>1. PipelinesInv /\ [Next]_vars =>
        [\A t \in Tasks : cache[t] # None /\ cache'[t] # None => cache'[t].key >= cache[t].key]_vars
  BY KeysNext DEF PipelinesInv, Waiting
<1> QED BY PipelinesInvariant, <1>1, PTL DEF Spec, CacheNeverGoesBack
=============================================================================
