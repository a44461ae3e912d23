------------------------------ MODULE Pipelines ------------------------------
(***************************************************************************)
(* How the Bhashini gateway finds out which service to call:               *)
(* internal/adapter/gateway/bhashini/client.go, for one language.  A       *)
(* config request names a service and an inference key for each task; the  *)
(* answer is cached, served while it is old and refreshed in the           *)
(* background, dropped when the provider refuses its key, and requested    *)
(* once for all who need it at the same time.                              *)
(*                                                                         *)
(* Languages share nothing but the mutex, so one stands for all.  Of an    *)
(* entry only the generation of its key and its age matter.                *)
(***************************************************************************)
EXTENDS Integers, FiniteSets

CONSTANTS
  Callers,     \* goroutines that transcribe or synthesize, one call after another
  Refresher,   \* the background refresh
  Warmer,      \* the goroutine of Warm
  Tasks,       \* what a pipeline offers: asr and tts
  Offers,      \* the sets of tasks a config answer may name
  MaxKey,      \* bound: generations of the inference key
  Worlds,      \* bound: the key a behaviour begins with, and whether it is healthy
  None         \* no entry, no key, nothing

ASSUME PipelinesAssumption ==
  /\ {Refresher, Warmer} \cap Callers = {} /\ Refresher # Warmer
  /\ Offers \subseteq SUBSET Tasks
  /\ MaxKey \in Nat /\ Worlds \subseteq (0..MaxKey) \X BOOLEAN
  /\ None \notin 0..MaxKey /\ None \notin {"stored", "failed"}

Parties == Callers \cup {Refresher, Warmer}
Keys    == 0..MaxKey

VARIABLES
  key,         \* the key the provider accepts (environment)
  healthy,     \* the config service answers every request in time (environment)
  cache,       \* per task an entry, or None
  available,   \* both tasks resolved
  refreshing,  \* a background refresh is on its way
  flights,     \* the config requests under way, each with who waits for it
  answer,      \* per party what the request it waited for came to
  pc,          \* where each party is
  task,        \* per caller the task it calls
  attempt,     \* per caller 0, or 1 once it was refused
  svc          \* per caller the key of the service it resolved

call == <<task, attempt, svc>>
vars == <<key, healthy, cache, available, refreshing, flights, answer, pc, call>>

Entries == [key : Keys, old : BOOLEAN]
Flights == [phase : {"asked", "answered", "failed", "stored"}, key : Keys \cup {None},
            offers : SUBSET Tasks, leader : Parties \cup {None}, waiting : SUBSET Parties]

Init ==
  /\ \E w \in Worlds : key = w[1] /\ healthy = w[2]
  /\ cache = [t \in Tasks |-> None] /\ available = FALSE /\ refreshing = FALSE
  /\ flights = {}
  /\ answer = [p \in Parties |-> None]
  /\ pc = [p \in Parties |-> IF p = Warmer THEN "fetch" ELSE "idle"]
  /\ task = [c \in Callers |-> None] /\ attempt = [c \in Callers |-> 0]
  /\ svc = [c \in Callers |-> None]

At(p, place) == pc[p] = place
Go(p, place) == pc' = [pc EXCEPT ![p] = place]

Return(c) ==
  /\ Go(c, "idle")
  /\ task' = [task EXCEPT ![c] = None]
  /\ attempt' = [attempt EXCEPT ![c] = 0]
  /\ svc' = [svc EXCEPT ![c] = None]

-----------------------------------------------------------------------------
(* A call: resolve, compute, and once more when the key was refused *)

Begin(c, t) ==
  /\ At(c, "idle") /\ Go(c, "resolve")
  /\ task' = [task EXCEPT ![c] = t]
  /\ UNCHANGED <<key, healthy, cache, available, refreshing, flights, answer, attempt, svc>>

Take(c, e, place) ==
  /\ Go(c, place)
  /\ svc' = [svc EXCEPT ![c] = e.key]
  /\ UNCHANGED <<task, attempt>>

\* A cached entry is always served, and an old one asks for a refresh.
Resolve(c) ==
  /\ At(c, "resolve") /\ cache[task[c]] # None
  /\ LET e == cache[task[c]] IN Take(c, e, IF e.old THEN "refresh" ELSE "compute")
  /\ UNCHANGED <<key, healthy, cache, available, refreshing, flights, answer>>

Miss(c) ==
  /\ At(c, "resolve") /\ cache[task[c]] = None
  /\ Go(c, "fetch")
  /\ UNCHANGED <<key, healthy, cache, available, refreshing, flights, answer, call>>

RefreshInBackground(c) ==
  /\ At(c, "refresh")
  /\ refreshing' = TRUE
  /\ pc' = [pc EXCEPT ![c] = "compute", ![Refresher] = IF refreshing THEN @ ELSE "fetch"]
  /\ UNCHANGED <<key, healthy, cache, available, flights, answer, call>>

\* After a fetch the entry is read under the lock again: it may be gone.
Reread(c) ==
  /\ At(c, "reread")
  /\ LET e == cache[task[c]]
     IN  IF e # None THEN Take(c, e, "compute") ELSE Return(c)
  /\ UNCHANGED <<key, healthy, cache, available, refreshing, flights, answer>>

Computed(c) ==
  /\ At(c, "compute") /\ svc[c] = key
  /\ Return(c)
  /\ UNCHANGED <<key, healthy, cache, available, refreshing, flights, answer>>

ComputeFails(c) ==
  /\ At(c, "compute") /\ Return(c)
  /\ UNCHANGED <<key, healthy, cache, available, refreshing, flights, answer>>

MayRetry_Never(c) == FALSE
MayRetry(c) == attempt[c] = 0

\* 401 or 403: the provider has replaced the key.
Refused(c) ==
  /\ At(c, "compute") /\ svc[c] # key
  /\ \/ MayRetry(c) /\ Go(c, "invalidate") /\ UNCHANGED call
     \/ ~MayRetry(c) /\ Return(c)
  /\ UNCHANGED <<key, healthy, cache, available, refreshing, flights, answer>>

\* Whatever entry the task has by now is dropped.
Invalidate(c) ==
  /\ At(c, "invalidate") /\ Go(c, "resolve")
  /\ cache' = [cache EXCEPT ![task[c]] = None]
  /\ attempt' = [attempt EXCEPT ![c] = @ + 1]
  /\ UNCHANGED <<key, healthy, available, refreshing, flights, answer, task, svc>>

\* A caller that stops waiting leaves the request to those who still do.
Leave(p) == flights' = {[f EXCEPT !.waiting = @ \ {p}] : f \in flights}

\* The turn was cut while its call waited for the config or for the provider.
GiveUp(c) ==
  /\ pc[c] \in {"wait", "compute"}
  /\ Leave(c)
  /\ answer' = [answer EXCEPT ![c] = None]
  /\ Return(c)
  /\ UNCHANGED <<key, healthy, cache, available, refreshing>>

-----------------------------------------------------------------------------
(* fetch: one config request for all who ask while it is in flight *)

Request(p) == [phase |-> "asked", key |-> None, offers |-> {}, leader |-> p, waiting |-> {p}]

Shared_Never(p) == {f \in flights : p \in f.waiting}
Shared(p) == flights

Become(f, g) == flights' = (flights \ {f}) \cup {g}

Fetch(p) ==
  /\ At(p, "fetch") /\ Go(p, "wait")
  /\ \/ Shared(p) = {} /\ flights' = flights \cup {Request(p)}
     \/ \E f \in Shared(p) : Become(f, [f EXCEPT !.waiting = @ \cup {p}])
  /\ UNCHANGED <<key, healthy, cache, available, refreshing, answer, call>>

ConfigAnswers(f) ==
  /\ f.phase = "asked"
  /\ \E o \in Offers : Become(f, [f EXCEPT !.phase = "answered", !.leader = None, !.key = key, !.offers = o])
  /\ UNCHANGED <<key, healthy, cache, available, refreshing, answer, pc, call>>

\* Does a cancellation end the request?  While it runs, its context is that of the
\* caller that made it (leader), without that caller's cancellation.
CtxEnds_Leader(f) == f.leader \notin f.waiting
CtxEnds(f) == FALSE

\* An error of the service, or 30 seconds.
ConfigFails(f) ==
  /\ f.phase = "asked" /\ (~healthy \/ CtxEnds(f))
  /\ Become(f, [f EXCEPT !.phase = "failed", !.leader = None])
  /\ UNCHANGED <<key, healthy, cache, available, refreshing, answer, pc, call>>

\* A task the answer does not name keeps the entry it has.
Store(f) ==
  /\ f.phase = "answered"
  /\ cache' = [t \in Tasks |-> IF t \in f.offers THEN [key |-> f.key, old |-> FALSE] ELSE cache[t]]
  /\ available' = (f.offers = Tasks)
  /\ Become(f, [Request(None) EXCEPT !.phase = "stored", !.waiting = f.waiting])
  /\ UNCHANGED <<key, healthy, refreshing, answer, pc, call>>

\* The group forgets the request and tells everyone who joined it.
Deliver(f) ==
  /\ f.phase \in {"stored", "failed"}
  /\ answer' = [p \in Parties |-> IF p \in f.waiting THEN f.phase ELSE answer[p]]
  /\ flights' = flights \ {f}
  /\ UNCHANGED <<key, healthy, cache, available, refreshing, pc, call>>

Collect(c) ==
  /\ At(c, "wait") /\ answer[c] # None
  /\ IF answer[c] = "stored" THEN Go(c, "reread") /\ UNCHANGED call ELSE Return(c)
  /\ answer' = [answer EXCEPT ![c] = None]
  /\ UNCHANGED <<key, healthy, cache, available, refreshing, flights>>

RefreshDone == answer[Refresher] # None

\* Success or not, the flag is cleared; on failure the old entry keeps serving.
Refreshed ==
  /\ At(Refresher, "wait") /\ RefreshDone
  /\ Go(Refresher, "idle")
  /\ refreshing' = FALSE
  /\ answer' = [answer EXCEPT ![Refresher] = None]
  /\ UNCHANGED <<key, healthy, cache, available, flights, call>>

Warmed ==
  /\ At(Warmer, "wait") /\ answer[Warmer] # None
  /\ Go(Warmer, IF answer[Warmer] = "stored" THEN "idle" ELSE "backoff")
  /\ answer' = [answer EXCEPT ![Warmer] = None]
  /\ UNCHANGED <<key, healthy, cache, available, refreshing, flights, call>>

WarmAgain ==
  /\ At(Warmer, "backoff") /\ Go(Warmer, "fetch")
  /\ UNCHANGED <<key, healthy, cache, available, refreshing, flights, answer, call>>

\* The process shuts down.
WarmStops ==
  /\ pc[Warmer] \in {"wait", "backoff"} /\ Go(Warmer, "idle")
  /\ Leave(Warmer)
  /\ answer' = [answer EXCEPT ![Warmer] = None]
  /\ UNCHANGED <<key, healthy, cache, available, refreshing, call>>

-----------------------------------------------------------------------------
(* The provider, and time *)

Rotate ==
  /\ key < MaxKey /\ key' = key + 1
  /\ UNCHANGED <<healthy, cache, available, refreshing, flights, answer, pc, call>>

\* An entry is older than 80 % of CacheTTL.
Age(t) ==
  /\ cache[t] # None /\ ~cache[t].old
  /\ cache' = [cache EXCEPT ![t].old = TRUE]
  /\ UNCHANGED <<key, healthy, available, refreshing, flights, answer, pc, call>>

-----------------------------------------------------------------------------
CallStep(c) ==
  \/ Resolve(c) \/ Miss(c) \/ RefreshInBackground(c) \/ Reread(c)
  \/ Computed(c) \/ ComputeFails(c) \/ Refused(c) \/ Invalidate(c)
  \/ Collect(c)

FlightStep == \E f \in flights : ConfigAnswers(f) \/ ConfigFails(f) \/ Store(f) \/ Deliver(f)

Next ==
  \/ \E c \in Callers : \/ \E t \in Tasks : Begin(c, t)
                        \/ CallStep(c)
                        \/ GiveUp(c)
  \/ \E p \in Parties : Fetch(p)
  \/ FlightStep
  \/ Refreshed \/ Warmed \/ WarmAgain \/ WarmStops
  \/ Rotate
  \/ \E t \in Tasks : Age(t)

Spec == Init /\ [][Next]_vars

\* Goroutines run, and the config request is bounded by 30 seconds.  For the
\* keys only: every task is called again and again, and of the calls that come
\* with a replaced key some are refused rather than lost or given up.
FairSpec ==
  /\ Spec
  /\ \A c \in Callers : WF_vars(CallStep(c) \/ Fetch(c)) /\ SF_vars(Refused(c))
  /\ WF_vars(Fetch(Refresher) \/ Refreshed)
  /\ WF_vars(FlightStep)
  /\ \A t \in Tasks : SF_vars(\E c \in Callers : Begin(c, t))

-----------------------------------------------------------------------------
(* Properties *)

\* Entries, requests and calls have their shapes; a caller that computes has a
\* service (client.go, Client and service).
TypeOK ==
  /\ key \in Keys /\ healthy \in BOOLEAN /\ available \in BOOLEAN /\ refreshing \in BOOLEAN
  /\ cache \in [Tasks -> Entries \cup {None}]
  /\ flights \subseteq Flights
  /\ answer \in [Parties -> {"stored", "failed", None}]
  /\ task \in [Callers -> Tasks \cup {None}] /\ attempt \in [Callers -> 0..1]
  /\ svc \in [Callers -> Keys \cup {None}]
  /\ \A c \in Callers : pc[c] = "compute" => svc[c] # None

\* A slow answer never puts an older key over a newer one, though the answers
\* are stored by whoever's request they are: requests of a language do not
\* overlap (client.go, fetch and store).
CacheNeverGoesBack ==
  [][\A t \in Tasks : cache[t] # None /\ cache'[t] # None => cache'[t].key >= cache[t].key]_vars

\* Whoever waits for the config is served: a request that the waiter has joined is
\* in flight, or its answer is there, and while the service answers nobody is told
\* that it failed.  The call that made the request may be cut at any moment, and
\* those who joined it must neither be forgotten nor fail with it (client.go, fetch).
WaitersAreServed ==
  \A p \in Parties :
    /\ pc[p] = "wait" <=> answer[p] # None \/ \E f \in flights : p \in f.waiting
    /\ healthy => answer[p] # "failed"

\* Once the key stays the same, no cached key stays outdated: the calls that are
\* refused drop it, whoever else reads, refreshes or drops it meanwhile.
KeysCatchUp == \A t \in Tasks : <>[](cache[t] # None => cache[t].key = key)

(* What the code's comments say, and the code does not do *)

\* client.go:244: compute "retries once with a freshly fetched inference key".
RetryHasNewKey ==
  [][\A c \in Callers : attempt[c] = 1 /\ At(c, "resolve") /\ pc'[c] # "fetch"
       => svc'[c] # svc[c]]_vars

\* usecase/conversation/ports.go:90: "ErrLanguageUnsupported means the provider
\* has no model for the requested language."
UnsupportedIsNotOffered ==
  [][\A c \in Callers : At(c, "reread") /\ pc'[c] = "idle" => \E o \in Offers : task[c] \notin o]_vars
=============================================================================
