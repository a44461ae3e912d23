# Verification of Shiksha AI

Shiksha AI is a voice tutor: a learner speaks or types over a WebSocket, the
server recognizes the speech, streams a reply from a language model, speaks it
segment by segment and stores what the learner heard. This directory models the
parts of it where goroutines, connections and processes meet, and the algorithms
on text that decide what is spoken; checks them with TLC on small instances; and
proves the parts that can be proved for every value of their constants. Paths
below are under `src/internal/` unless they begin with `docs/` (`src/docs/`) or
`cmd/` (`src/cmd/`).

## Inventory

| Component | State | Operations | What makes it correct |
|---|---|---|---|
| **Actor and turns** (`usecase/conversation/session.go`, `turn.go`) | actor state (idle, capturing, responding), current and last turn, audio buffer, history, turn number; per turn: context, segments, `audioQueued`, `completed` | client messages, audio, `evTurnDone`, timers, stop, close; a turn recognizes, produces, emits, reports | a turn is recorded once, under its own number; what is stored is what was heard; every turn ends |
| **Reply** (`turn.go` `produce`, `stream`; `adapter/gateway/gemini/llm.go`) | attempt, segmenter, watchdog, what was handed on | stream, fall back, flush, respond | nothing that came is lost or repeated; a silent provider is noticed |
| **Text pipeline** (`segmenter.go`, `normalize.go`, `usecase/history.go`) | segmenter buffer; the history and the stored messages | Push, Flush, NormalizeForSpeech, BuildHistory | how a stream is chunked does not show; trimming does not show; a new connection tells the model what the old one would |
| **Outbox and handler** (`adapter/ws/outbox.go`, `handler.go`) | queue, turn in scope, segments written for the latest turns | Send, TrySend, SetTurn, HeardSegments, Close, writer, reader, ping | frames of a cut turn never follow the cut; only superseded frames are dropped; the connection is closed |
| **Speech pool** (`usecase/conversation/ttspool.go`) | jobs, results, total, closed, notify | Submit, CloseInput, Poll, final; workers | segments come out once, in order; the reader never sleeps with work to do |
| **Provider guard** (`adapter/gateway/guard.go`) | breaker state, failures, trial flag, semaphore | admit, acquire, record, release | slots never leak; the breaker opens on evidence and recovers |
| **Hub** (`usecase/conversation/hub.go`) | live connection per session, draining | Serve, End, Drain | every arrival is served or refused; a drain ends |
| **Persister** (`usecase/conversation/persister.go`) | queue, touch, fenced, closed | TryEnqueue, Touch, Drain; writer with retries | an accepted write is stored, reported as failed, or fenced |
| **Turn store** (`adapter/repository/sessions.go`, `messages.go`) | session row with epoch and status; messages | Connect, MaxTurnNo, InsertTurn, UpdateTutor, Touch, End, ClaimStale, Recent | turn numbers never collide; what a connection loaded stays complete |
| **Sessions, tickets, sweeper, summaries** (`usecase/sessions.go`, `sweeper.go`, `summaries.go`, `adapter/repository/tickets.go`) | rows, tickets, summary jobs and slots | create, list, ticket, redeem, end, sweep, summarize | a session ends once, is summarized at most once, and with all its turns if the persister was drained |
| **Shutdown** (`bootstrap/bootstrap.go`) | the phase of `App.Run` | drain, stop servers, stop workers, wait for summaries | it returns; without an error it leaves nothing behind |
| **Rate limiting** (`infrastructure/ratelimit/memory.go`, `usecase/conversation/bucket.go`) | buckets per key, order of use | Allow, eviction | the rate holds over any window, up to a full bucket for each time the key was forgotten, which takes as many other keys as the limiter tracks |
| **Accounts and tokens** (`usecase/auth.go`, `accounts.go`, `adapter/repository/tokens.go`) | refresh token families, reset links | login, refresh, logout, reset, delete, purge | a family has one live end; revoking reaches every older token; a used link ends the older ones |
| **Bhashini gateway** (`adapter/gateway/bhashini/client.go`) | pipeline cache with age, shared config request | resolve, invalidate, refresh in the background, warm up | a replaced key leaves the cache and is never put back; who waits for a request gets its answer, also when the caller that made it has left |
| Fake providers, warmer, codec, configuration, mail, database, clips, audio, most of the tools | little or none | | see "Not modelled" |

How they interact. `handler.go` asks the hub whether it takes connections,
redeems a ticket, makes an outbox and calls `Hub.Serve`, which registers the
connection, loads the session and runs its actor. The connection's reader posts
events into the actor's channel; the actor starts one goroutine per turn, which
posts `evTurnDone` back; both send through the outbox, whose writer drops frames
of a turn that is no longer in scope. A turn runs a producer (language model,
segmenter), the speech pool and an emitter; each of its service calls passes a
guard shared by all turns of the process. The actor hands finished turns to its
persister, which writes them on its own goroutine under the connection's epoch
and posts `evFenced` or `evStorage` back. A connection, an end request or the
sweeper ends the session and submits it to the summaries. `App.Run` stops these
parts one after the other. Processes share only the database.

What is hard: interleavings of actor, turn, writer and client (barge-in, merged
pauses, late cuts); the order of flags and sends; full queues; replaced and
half-loaded connections over several processes; retried, lost and late
statements; crashes with turns in a queue; ending a session from three sides at
once; stopping parts that still make work for one another; requests that rotate,
revoke and reset the same rows; a key that is replaced while answers with it are
on their way; a stream that is chunked anyhow and fails anywhere. The `hazards`
of `PROJECT.json` name each at its line.

## Modules

| Module | Models | State ↔ code |
|---|---|---|
| `Session` | `session.go`, `turn.go`, `outbox.go`, `handler.go` | `srv` holds the actor's fields, turns and the outbox queue; `events` the actor's channel; `inflight`, `written` the writer's frame and counts; `cli` a client that follows `docs/ws-protocol.md` |
| `SessionProofs` | | the invariant of the connection, helper by helper, and the theorems |
| `Speech` | `segmenter.go`, `normalize.go`, the first clause of `cmd/voicecli/latency.go` | pure operators on sequences of runes; a segmenter is its buffer and whether it has emitted |
| `Reply` | `produce`, `stream` and `respond` of `turn.go` over `gemini/llm.go` | `pc` is the place in `produce`, `seg` and `said` the segmenter and what went to the pool, `res` `producerResult`, `watch` the first-token timer |
| `Conversation` | the history of `session.go`, `history.go`, loading (`hub.go`, `messages.go`), around `Reply` | `mem` is `Session.history`, `last` the reply that speech may still cut, `queue` and `rows` the persister's writes and the table, `prompt` what the turn asks with |
| `Connections` | `hub.go`, `persister.go`, `repository/sessions.go`, ends and sweeps | `live`, `draining` are the hub's fields per process; `conn` a connection's way through `Serve` and what its actor knows; `wr` its persister; `db` the row and the messages |
| `ConnectionsProofs` | | the invariant of rows, writers and epochs, and the theorems |
| `Service` | `bootstrap.go` (`App.Run`), `handler.go` (`ServeHTTP`), `hub.go`, `usecase/sessions.go` (`End`), `sweeper.go`, `summaries.go` | `run` is the place in `App.Run`, `conn`, `req` and `sweep` where each connect, request and the sweeper is, `conn[c].q` and `late` the turns that its persister holds and whether its drain timed out, `job` and `closed` the fields of `Summaries`, `row` the sessions |
| `ServiceProofs` | | the two invariants of the process and the theorems |
| `Limiter` | `infrastructure/ratelimit/memory.go` over `rate.Limiter` | `bucket` and `order` are the map and the list; `watch` is a history of one key: what it spent, how often it was forgotten (`lost`), and how many other keys that took (`paid`) |
| `Api` | `httpapi/session_handlers.go`, `usecase/sessions.go` (`Create`, `ListSessions`, `Ticket`), `repository/sessions.go` (`List`), over `Limiter` | `row` the committed sessions, `ask` the requests under way, `list` a listing with its cursor |
| `ApiProofs` | | the invariants of the limiter and of the listing, and the theorems |
| `Guard` | `guard.go` | `state`, `failures`, `probing`, `sem` are the fields of `Guard`, `cooling` is `now < openUntil`; one slot per caller with its place in `do` or `Stream` |
| `GuardProofs` | | the guard's inductive invariant and theorems |
| `OrderedStream` | | abstract: segments are submitted, delivered in order, and the stream ends or is cut |
| `TTSPool` | `ttspool.go` with its callers in `turn.go` | `jobs`, `results`, `total`, `closed`, `notify` are the pool's fields; producer, workers and reader have program counters; `Stream` is the refinement |
| `TTSPoolProofs` | | the pool's invariant, theorems and the refinement |
| `Pipelines` | `bhashini/client.go` | `cache`, `available`, `refreshing` are the client's fields; `flights` the group's requests in flight, each with who made it and who waits for it; `key` the key the provider accepts, `healthy` whether it answers every request |
| `PipelinesProofs` | | the invariant of the shared request, and the theorems |
| `Accounts` | `usecase/auth.go`, `accounts.go`, `repository/tokens.go`, `users.go` | `tokens`, `links`, `account` are the rows; `pc` the statement a request comes to next, `req` what it has read; locks are who has changed what and not ended |
| `AccountsProofs` | | the invariants of tokens and links, and the theorems |
| `MC…` | | small sets of model values for TLC, and the worlds |

How they divide the system. `Session` looks inside a connection and lets an
accepted write take effect at once. `Connections` keeps of the actor only what it
saves and how it ends, and looks inside the persister and the store.
`Conversation` looks at what the language model is told: it composes `Reply`
(which uses `Speech`) with the actor's history and the table, and keeps of the
persister only that a write is applied, fails or is lost. `Service` keeps of a
connection only that it saves, ends and leaves, and of its persister how many turns
it still holds and whether the actor gave up waiting for them (`Drain` waits at
most `persistDrain`; `finish` then ends the session all the same, and the persister
writes on, fenced by nothing but the epoch). It composes them with the end request,
the sweeper, the summaries and the shutdown. That another process connects to the
session is in `Connections` only. `Api` composes the limiter
with the requests that share it.

How an action is cut. The handlers of `Session` are operators on the server's
record, composed in the order of the code, and one action per event applies them:
an actor's handler runs to its end before the next event is read. What another
goroutine can see in between is a step of its own: a queue's send and a flag's
store (`EmitSpeech`, `MarkAudio`; `SendDone`, `Flag`, `Report`), `finish` reading
the heard counts before it silences the writer (`FinishRead`, `FinishSave`), the
handler closing the outbox after the actor (`CloseOutbox`). In `Connections` a
statement is one step, except `UpdateTutor`: it joins the session without locking
its row, so at READ COMMITTED its snapshot may be older than its commit
(`UpdateReads`, `UpdateCommits`). In `Accounts` a statement that changes several
rows is two steps, for the same reason: it finds them in a snapshot
(`RevokeFamily`, `FindPasswordResets`, `RevokeAllForUser`), waits for the
transactions that hold them, and then changes those that still match (`Revoked`,
`InvalidatePasswordResets`, `Committed`). In `Api` a session is stamped with the
clock (`Stamp`) before its transaction commits, so it may show later than a
younger one. In `Service` and `Connections` reading the session, asking the hub
and ending the row are steps of their own.

Worlds. `Session`, `Reply`, `Service`, `Connections`, `Pipelines` and `Api` have a constant
with sets of what may happen (`Worlds`, `Faults`: inputs, requests, failures,
crashes, a provider that blocks) from which a behaviour draws one at its start
and keeps it. A run thus covers several small instances, each with the faults
that matter together, instead of one product of all of them.

## Runs

A run that passes checks its properties over every behaviour of its instance.

| Run | Instance | Shows |
|---|---|---|
| `Session` | 2 turns of 1 segment, spoken, typed or cancelled; and 1 turn of 2 segments while recognition, model, speech and storage fail; event channel 1, outbox 2, counts of 1 turn | only superseded frames are dropped; no segment follows `tutor.done`; a row keeps its turn; history agrees with the rows; a stored reply is within what the learner got, and `complete` means all of it |
| `Session_end` | 1 turn of 2 segments, channels of 1, every way to end, fair | turns end, and a session that must close closes and its connection with it; no deadlock |
| `Conversation` | 1 reply from every stream of up to 7 runes in every chunking, with errors, blocked answers, silence and cancels; 3 turns of one word, a history of 2, with cuts, failed writes and new connections, fair | no rune is lost; chunking does not show; a reply told as complete was not silent and its model finished; silence is noticed; the latency report measures no more than the first segment; trimming does not show; a new connection goes on with the same history |
| `Conn_store` | 2 connections, 2 processes, queue of 1, 2 attempts, with lost replies, failing and late statements and crashes; or with end request, sweeper and a writer left behind | turn numbers never collide; what was loaded stays complete; nothing accepted is lost; the session is summarized at most once |
| `Conn_live` | 2 connections, 1 process, failing database, drain, sweeper, fair | arrivals are served or refused; a stopped connection leaves |
| `Service` | 2 connects, an end request, 2 sessions of up to 2 turns, 1 summary slot, claims of 1, in eight worlds, with drains that time out, a failing database, a failing listener, a sweeper elsewhere, a deadline that passes, fair | a return without an error leaves nothing behind; a summary that a connection asks for has every turn the session ever gets, unless the drain of the session's last connection timed out; summaries are tried; `Run` returns, and a drain that told everyone ends by itself |
| `Api` | 3 users, a limiter of 2 keys, burst 1, 4 ticks, 3 creations, pages of 1 | no key gets more than its budget and a full bucket for each time it was forgotten, and each of those takes as many other keys as the limiter tracks; the pages of a listing show every session that was there, once and in order |
| `Guard` | 2 callers, 1 slot, threshold 2, fair | slots and trial flag agree; the breaker opens and stays open when the provider is down for good, and recovers when it is back |
| `TTSPool` | 2 workers, channel of 1, 5 segments, fair | no lost wake-up; the pool implements `OrderedStream` with its liveness: no segment is lost, repeated or overtaken; all goroutines stop |
| `Pipelines` | 2 callers, refresh and warm-up, 1 task that an answer may lack, 2 keys, fair | a cached key is never replaced by an older one; nobody who waits for a request is forgotten, or is failed because the caller that made it has left; outdated keys leave the cache |
| `Accounts` | 2 requests, 3 tokens, 2 links, sign-in, deletion, expiry | a family stays a chain; revoking leaves no older token; a used link ends the links before it, also with two used at once |

No run checks a type invariant: those of `Guard`, `TTSPool`, `Accounts`, `Limiter`,
`Api`, `Service`, `Pipelines`, `Connections` and `Session` are proved, and those of
`Reply` and `Conversation` were checked on these instances and are kept in the modules.

Bounds. Two callers over one slot show every meeting of two calls in the guard:
one trial and one call from before the outage, or one waiting for the other's
slot; more callers and slots are covered by the proofs. Two workers finish out
of order, and five segments fill the channel of one, both workers and the
results at once. Two turns are needed and enough for a turn to meet its
predecessor's late events: a report, a frame or a cut names its turn, and the
actor remembers only the current and the last one; for the same reason a window
of one turn's counts (eight in the code) is the one that forgets something the
actor may ask for. `SessionProofs` covers any number of turns, segments and frames
and any capacities. One segment per reply shows every order of frames of two
turns; two segments distinguish "some heard" from "none" and "all", so what was
heard takes one turn of two. Channels of one or two are full after one or two
sends, which the capacities of the code (256 and 512) are not in any run that TLC
could finish. Seven runes, with the lengths of the segmenter scaled down to 2, 3,
4 and 6, hold two segments and a forced cut, an abbreviation or a list's number
at each end of a chunk. Three turns overfill a history of two messages and its
double in memory. Two connections meet in every pair of places of `Serve`; a
third would wait for a connection that itself waits, and the proofs cover any
number of connections, processes and attempts. In `Service` one connection
beside one request, two connections of one session, and a sweep beside each are
the pairs that share a row or a slot; the proofs cover any number. Its eight
worlds keep turns and failures apart where both would be too many states: two
connections save two turns with nothing failing, or none while the database fails;
the deadline passes (`slow`) in five of the eight, and a turn is held by a
persister that was left behind in every world in which turns are saved. Two keys fill
the limiter and a third evicts one, and pages of one put a page's end after every
session; two forgotten buckets are one more than a window of 4 ticks needs to give
a key more than its budget. One task is enough for the gateway because a config answer treats each
by itself; `available`, which needs both, is read by no property. One replaced
key has an old and a new one in the cache, in answers and in calls at once; in the world where the config service answers
every request the key is not replaced any more. Two
requests and three tokens have a rotation meet a revocation of its own family
with a token on either side of the one that is issued; the proofs cover any
number. `MaxTurns`, `MaxSegs`, `MaxFrames`, `MaxInputs`, `MaxNo`, `MaxKey`,
`MaxTokens`, `MaxLinks`, `MaxNow`, `MaxForgets`, `runes` and `turns` are bounds of the models, not of
the code. Deadlock is not checked in `Session` and `Api`, where clients may stop at
their bounds; every other run checks it, with a state in which nothing is left
to do named as such (`Quiet` in `Session` and `Connections`, `Exited` in
`Service`).

### Where the code and its documentation disagree

`Session_heardkept` states one sentence of a comment, and TLC finds the code doing
something else: a reply cut once is cut again, to nothing, by the next
`speech.start`. `PROJECT.json` quotes the sentence.

Other sentences of the comments and documents are stated in the modules too.
They do not hold either, with the constants of the cfg named here and without
symmetry; they are kept next to the properties that do hold, because they are
what a reader of the comments would assume.

| Statement | Constants of | The code |
|---|---|---|
| `Guard!OnlyProbeCloses` | `Guard` | a call from before the outage closes the breaker |
| `Guard!OpensAtThreshold` | `Guard` | an overtaken trial opens the closed breaker after one failure |
| `Guard!TimeoutsCount` | `Guard` | a first-token time-out counts as a caller who gave up, so a provider that only hangs never opens the breaker |
| `Session!FailedStaysFailed` | `Session`, with `"deadline"` added to the faults of the second world | a failed reply is stored as interrupted with text |
| `Session!RespondingHasTurn` | `Session` | refused typed input leaves the actor responding to nothing |
| `Session!DoneOnce` | `Session` | two `tutor.done` with different statuses for one turn |
| `Session!PlayedDoneNotCut` | `Session` | an early `playback.done` is lost and the reply is cut |
| `Session!MergedIsAnswered` | `Session` | merged audio may be dropped with the second half of the sentence |
| `Session!MergedBeforeAudio` | `Session` | a pause is merged although audio was sent |
| `Session!FinishSavesHeard` | `Session_end` | `finish` misses a segment that is written after it counted |
| `Conversation!ResumeKeepsMax` | `Conversation` | a new connection loads the last messages and drops those that did not reach the learner, so it may have fewer than `BuildHistory` would keep |
| `Connections!ReplacedNeverWrites` | `Conn_store` | a late cut commits after a newer connection took over |
| `Connections!EndFences` | `Conn_store`, with 1 attempt and the endings alone (`MCEnding`) | a session ended elsewhere accepts further turns |
| `Connections!EndSummarizes` | `Conn_store` | the summary is decided by an old turn count |
| `Connections!DrainTellsAll`, `Service!DrainTellsAll` | `Conn_live`, `Service` | a loading connection is not told of the shutdown |
| `Connections!AcceptedEndEnds` | `Conn_store` | an end request is accepted by a connection that no longer listens |
| `Connections!NewReplacesOld` | `Conn_live` | a loading connection is not replaced; the new one is refused after `replaceWait` |
| `Service!DrainedBeforeEnd` | `Service` | a drain that times out ends nothing: the session is ended and its summary asked for while the persister still holds turns, which `InsertTurn` stores in the ended session |
| `Service!NoTicketBurnt` | `Service` | a connect that the hub refuses after the ticket was redeemed has burnt it |
| `Service!EndQueuesSummary` | `Service` | the end request queues no summary when turns came after it had read the session |
| `Limiter!ForgettingGivesNothing` | `Api` | a key that is evicted starts with a full bucket, although its own was not |
| `Pipelines!RetryHasNewKey` | `Pipelines` | the retry after a refusal may get the refused key from an answer that was on its way |
| `Pipelines!UnsupportedIsNotOffered` | `Pipelines`, with `Offers = {{"asr"}}` | a language is called unsupported because another call dropped the entry in between |
| `Accounts!LogoutEndsFamily` | `Accounts` | a rotation that commits while the family is being revoked leaves its new token alive |
| `Accounts!ResetSignsOut` | `Accounts` | the same, and a sign-in, survive a password reset |

`Conversation!ChunksDoNotShow` holds only for texts that are not long enough to be
cut at a space: a longer one is cut where the buffer stood when it grew too long,
so the chunks do show there.

## Fairness

`Session`, `Conn_store`, `Api` and `Accounts` assume none.
`Guard!FairSpec`: goroutines run, calls are bounded by their time-outs or the
turn's deadline. For recovery and for noticing an outage, callers keep coming; a
healthy provider answers some of them, and of the calls to one that is down some end
as a refusal or a unary time-out (`FailsVisibly`): not every one is a stream that is
cut or a turn that is interrupted, which say nothing of the provider. That is an
assumption about the load, and `TimeoutsCount` above shows what happens without it. `TTSPool!FairSpec`: goroutines run, a synthesis is bounded
by `TTSTimeout`, the model's stream ends or is cut by `TurnDeadline`; nothing is
assumed of cancellation or the filler. `Session!FairSpec`: actor, writer, handler
and turns run, a write that was begun is done or fails (`writeTimeout`), closing
the outbox does not wait for ever (`flushTimeout`), the deadline's timer fires,
and a service returns once its context is done; the client need not do anything
and no idle connection need fail. `Conversation!FairSpec`: the producer runs on,
the first-token timer fires, and an aborted stream returns; the provider need not
send, end or fail, so it may be silent for ever. `Connections!FairSpec`: `Serve`
and the persister's goroutine run, statements are bounded (`persistTimeout`),
`replaceWait` passes, and an actor that was told to stop reads its events.
`Conn_live` leaves `persistDrain` out, so that the bound on retries alone must let
a connection go. `Service!FairSpec`: connections, requests, jobs, the sweeper and
`App.Run` make progress, and an actor that was told to stop reads its events; no
signal and no deadline need come, and no persister need ever get its answer, because
what waits for one has a limit of its own (`RunReturns` says what follows when the deadline
does). `Pipelines!FairSpec`: calls, the refresh and the shared request make
progress, the last because the request has a time-out of its own; for
`KeysCatchUp` only, each task is called again and again, and of the calls that
carry a replaced key some are refused, rather than all given up or lost.

## What is proved

`GuardProofs`, for any finite set of callers and any positive concurrency and
threshold. The inductive invariant is
`TypeOK /\ SemCountsRunning /\ SingleProbe /\ ClosedBelowThreshold`:
`SemCountsRunning` needs the type of each caller's place, `SingleProbe` needs
that the flag is set while any caller holds a trial. One lemma says what an outcome
does to the breaker (`RecordBreaker`), one what an action does to the set of
running calls (`RunningSet`).

`TTSPoolProofs`, for any finite set of workers, any channel capacity and any
number of segments. The invariant adds to the types that every segment in a
channel, a worker or the results was counted (`Counted`) and that the input is
closed exactly when the producer has passed `CloseInput` (`ClosedByProducer`);
both are needed because `Poll` and `final` compare with `total`, which only the
producer raises.

`AccountsProofs`, for any set of requests and any number of tokens and links.
Neither `RotationIsAChain` nor `RevokedIsPrefix` is inductive: a statement acts on
rows it found earlier. `TokenInv` therefore adds what a waiting statement still
knows: the row a rotation holds stays unused and unrevoked (`HeldTokens`), one
request holds it (`OneHolder`), and a statement that revokes has found all that is
behind what it found (`FoundAllBehind`), because what is issued later comes last.
One lemma, `RowsNext`, says what any step does to the rows (`RowsStep`: old rows
keep their family and are never less used or less revoked; a new row comes last,
is not revoked, and all before it in its family are used); the invariant's parts
follow from it. `LinkInv` is about the links: one reset at a time holds the user's row
(`OneUser`), no reset has taken or is about to take another's link (`LinksApart`),
and a reset has found every usable link older than its own (`OlderFound`).

`ApiProofs`, for any keys, capacity, burst, interval, requests and page size. `RateBound` is not
inductive: `Spending` adds that what the watched key spent and what its bucket
still holds is at most a full bucket, one more for each time it was forgotten, and
what the clock had brought when the bucket was last brought up to date; that
each forgetting is paid for by `MaxKeys` other keys, in `RateBound` as in
`ForgottenWhenOld`, needs that the list has no
key twice (`Distinct`) and that every key before the watched one was used after it
(`Recent`). `MovedShifts` and `UseShifts` say what an event does to the list. That is proved of the
limiter alone (`LimiterSpec`); `ApiUsesLimiter` shows that the requests over it are,
for the limiter, a behaviour of its own, so that its theorems hold of them.
`PagesAreComplete` needs `Covered`: a session that was there at the first page is
shown, or behind the cursor, which is the last session shown; a younger one that
commits late is in neither, and need not be. `OrderedFacts` says that a finite set of
sessions can be brought into the order of the statement, by each session's number of
newer ones, so that what is fetched exists and has each session once.

`ServiceProofs`, for any sessions, connects and requests, any number of slots and
any worlds. `CleanExit` is about the last phase of the shutdown only; `ExitInv` says
what each phase leaves behind for good: from `servers` on no connection is
registered, because none registers while the hub drains; from `workers` on no
request is in flight, because none is admitted once the servers stop; when
`Summaries` is closed the sweeper has stopped and had submitted all it claimed; so
only then, and only after an error, is a summary refused. `SummaryIsWhole` needs
`WholeInv`: a session has one registered connection (`Alone`), who claimed or
submits a session is who ended it, no connection of a session that its
connection ended is at a place from which it still saves (`EndedBy`), and a row's
epoch is that of a connection of its session (`Owned`). A connection that is past its
drain still holds turns only if the drain timed out (`Held`, which `CleanExit` needs
too), so when the last one's did not (`AllDrained`) nothing that an earlier one
holds passes the epoch, and what the job has read is all there will be (`JobOf`).

`PipelinesProofs`, for any callers, tasks and keys. That a waiting call is known to
a request that is under way is inductive only together with `OneFlight` (there is at
most one request of the group in flight, and every call that waits is in its list)
and `AnsweredOnce` (who has an answer is no longer waited for): a request that ends
would otherwise leave behind those that joined another one. That nobody is told of a
failure while the service answers needs that no request has failed (`Unfailed`), which
rests on the request's context: it ends by its own time-out and not with the caller
that made it (`CtxEnds`). `CacheNeverGoesBack`
needs `AnswersAreNewer`: an answer that is not stored yet is no older than any cached
one and no newer than the provider's key, which holds because requests do not overlap.

`ConnectionsProofs`, for any connections, processes, turns, attempts, capacities and
faults. Whether a fenced statement may be trusted depends on where its connection is
and what its writer still holds, so `StoreInv` is a conjunction per connection:
`Control` ties its place in `Serve` to its writer and to the numbers it gave out,
`EpochsApart` says that no two connections have one epoch, `Mine` that while a
connection has the newest epoch the rows behind what it loaded are its own, and `Kept` that each turn it saved is stored, still held by its
writer, or given up aloud. `LastRow` is what `MAX(turn_no)` returns. `NumbersNeverCollide`
and `LoadedIsComplete` follow from `Mine`, `AcceptedIsStored` from `Kept` once the hub
has let go. A step changes one connection, one writer and the row; `Same` and
`Onward` say what it leaves alone, so the other connections need one lemma each.

`SessionProofs`, for any turns, segments, frames, capacities and worlds: all six
properties of the run `Session`. None of them is inductive. The handlers of the
actor are operators on the server's record, so the invariant of the record (`SrvOK`)
is proved of each helper (`TrySendOK`, `RecordedOK`, `CutOK`, `BargeInOK`, `MergeOK`,
`StartTurnOK`, ...) and the handlers follow by composing the lemmas in the order of
the code; a step of a turn's goroutine changes one turn and may send one frame
(`TurnStepOK`). `SrvOK` says that the latest turn is current and in scope, or was cut,
or has finished (`ScopeOK`); that the current turn has the last number given and no
row (`NumberOK`, from which `RowsKeepTheirTurn` follows although a merge gives a
number back); that the turn speech may still cut has its row (`LastOK`); that no
counted frame stands behind the end of its turn while the turn is in scope
(`QueueOK`); and that `complete` is stored only for a turn that stopped growing
(`RowOK`, `TurnOK`). Three more parts speak of what is outside: what an event
claims was so when it was posted and stays so (`EventsOK`); a client that was told
a turn's end is not about to get more of it (`WriterOK`); `finish` read no more than is
written by then (`CountOK`), even if the window of counts forgets a turn. That
events, writer and client survive a step needs only `Onward`: rows keep their turn, a
turn that left the scope does not return, and one past its `tutor.done` stays so.

That no more of a turn is written, received or played than its reply has, and that
neither channel outgrows its capacity (`SentOnce`, from which `SessionTypeOK` follows),
needs a second invariant over the first: `CountInv` counts the frames of a turn that
complete a segment, in the queue (`Counted`) and at the writer (`Writing`), and says that
they and what is written, and they and what the client received, are together no more
than what the turn's emitter is through with (`Given`). Its clause for the server is one
line of `Onward` (`Queues`): a step that queues such a frame raises `Given` in the same
step, and no handler of the actor queues one. `CountedTail` says that the writer takes
one of them or none.

| Module | Theorem | States |
|---|---|---|
| `GuardProofs` | `GuardInvariant`, `TypeCorrect` | the invariant, the types |
| | `ConcurrencyBounded` | the semaphore counts the running calls, at most `MaxConcurrency` |
| | `OneTrial` | at most one trial at a time |
| `TTSPoolProofs` | `PoolInvariant`, `PoolTypeCorrect` | the invariant, the types |
| | `WakeupsNotLost` | `NoLostWakeup`: a sleeping reader has nothing to do or a signal is on its way |
| | `LastFlagSafe` | a segment that is sent as the last one is |
| | `PoolRefinesStream` | `Spec => Stream!Spec`: the pool implements the safety part of `OrderedStream` |
| `AccountsProofs` | `TokenInvariant`, `LinkInvariant`, `AccountsTypeOK` | the invariants, the types |
| | `RotationStaysAChain` | `RotationIsAChain` |
| | `RevokingMissesNoOlder` | `RevokedIsPrefix` |
| | `ResetEndsOlder` | `ResetEndsOlderLinks` |
| `ApiProofs` | `LimiterInvariant`, `ApiInvariant` | the invariants |
| | `ApiUsesLimiter` | `Spec => LimiterSpec` |
| | `BudgetKept`, `BudgetShared` | `RateBound`, of the limiter and of the requests |
| | `ForgetsTheOldest` | `ForgottenWhenOld` |
| | `PagesShowAll` | `PagesAreComplete` |
| `ServiceProofs` | `TypesHold`, `ExitInvariant`, `WholeInvariant` | the types, the invariants |
| | `HeldInvariant` | a connection past its drain holds turns only if the drain timed out |
| | `RunLeavesNothing` | `CleanExit` |
| | `ConnectionsSummaryIsWhole` | `SummaryIsWhole` |
| `PipelinesProofs` | `PipelinesInvariant`, `PipelinesTypeOK` | the invariant, the types |
| | `WaitersServed` | `WaitersAreServed` |
| | `CacheMovesForward` | `CacheNeverGoesBack` |
| `ConnectionsProofs` | `StoreInvariant`, `ConnectionsTypeOK` | the invariant, the types |
| | `LoadedStaysComplete` | `LoadedIsComplete` |
| | `NumbersStayApart` | `NumbersNeverCollide` |
| | `AcceptedStaysStored` | `AcceptedIsStored` |
| | `OneSummary` | `SummarizedOnce` |
| `SessionProofs` | `SessionInvariant` | the invariant |
| | `HistoryIsStored` | `HistoryMatchesRows` |
| | `OnlySupersededDropped` | `DroppedOnlyWhenSuperseded` |
| | `StoredIsHeard` | `StoredWithinHeard` |
| | `CompleteIsWhole` | `CompleteMeansAll` |
| | `NothingAfterDone` | `SegmentsBeforeDone` |
| | `RowsStayTheirs` | `RowsKeepTheirTurn` |
| | `SentOnce`, `SessionTypeOK` | no segment is sent twice: the counts, and the types |

The only assumptions are those on the constants (`GuardAssumption`,
`PoolAssumption`, `AccountsAssumption`, `LimiterAssumption`, `ServiceAssumption`,
`ApiAssumption`, `PipelinesAssumption`, `ConnectionsAssumption`,
`SessionAssumption`), which TLC evaluates in the runs. A leaf that took the provers
more than about a second names its prover and a time limit well above what it took.

Model-checked only: liveness (`Recovers`, `AllStop`, `ImplementsStream`, `TurnsEnd`,
`Closes` and the others under fairness), because fairness and `ENABLED` are out of the
prover's reach; and the safety properties of `Reply` and `Conversation`. Five of these
speak of what a recursive definition computes for every text or history (`Speech!Push`,
`SelectSeq`, `FlattenSeq`), which is an induction over data; the sixth,
`Reply!CompleteIsWhole`, does not, but its module reaches the RECURSIVE `Speech!Cuts`,
and with that the prover has no SMT backend.

## What the models leave out

- A client's `played` and `tutor.done` are as of the write: no network latency,
  only the channels of the server.
- Text outside 1 to 1000 characters and unknown messages are one `ping`: they
  are answered by a control frame and change nothing.
- An utterance under `MIN_UTTERANCE` has no frames; a segment's audio is one
  frame; a filler or a clip is one frame; the error event of a segment without
  audio is part of its caption.
- In `Session` the persister applies an accepted write at once, and a connection's
  own rate limiter answers freely. In `Connections` a touch is one step with its
  retries, and the tickets are one per connection.
- In `Speech` a rune is one of eight that the code tells apart; the marks that
  normalization removes are one, and tags, links and emphasis, which regular
  expressions strip, are left out. The speech pool is not composed with `Reply`:
  `submit` succeeds until the turn is cancelled.
- In `Conversation` a message is how much of its text there is. The summaries of
  earlier sessions, which a new connection reads too, are left out.
- `Service` keeps what is inside a connection out: when it saves is free, a full
  queue refuses nothing (it is longer than a session has turns), and of the
  persister's retries only the last outcome counts. A
  transaction is one step; the prompt and the text of a summary are left out.
- `Api` gives every user one budget for creations and tickets, as the handlers do;
  the other budgets use the same limiter, and how a key is taken from a request
  is left out.
- `Pipelines` is about one language, since languages share nothing but the mutex;
  endpoints, callback address and the encoding of audio are left out.
- `Accounts` is about one account. A form's validation, the hash of a password or
  token, the profile and the stateless access tokens are left out. Expiry and the
  sweeper's purge of a row are one step: in between, no statement tells an unused
  expired token from a purged one. A statement takes all its row locks at once;
  one of two transactions that wait for each other, which Postgres would end, is
  a `Fails`.
- The guard is not composed with the turns: `Session` and `Reply` let a service
  fail or hang at will, which covers what a guard may do.

## Not modelled

The fake providers stand in for services in tests. The warmer keeps one time
stamp per origin and calls it again when it is old. The codec is the layout of
frames. The handlers of accounts and sign-in, the router and the middleware map
requests to use cases and keep nothing. Configuration and entities are values.
Database, mail, clips, audio and password hashing are I/O and libraries. The tools
are entry points, except for the latency report's cut of a reply (`Speech`). The
time stamps and metrics of a turn decide nothing.

## Plan

1. Done: `Guard`, `TTSPool`, `Session`, `Reply` over `Speech`, `Conversation`,
   `Connections`, `Service`, `Limiter` under `Api`, `Pipelines`, `Accounts`; proofs of
   `Guard`, `TTSPool`, `Accounts`, `Limiter`, `Api`, `Service`, `Pipelines`, `Connections` and
   `Session`.
2. Proofs next: `Reply!CompleteIsWhole`, once `Speech!Cuts` is a fold.
3. Composition next: the persister as the implementation of an abstract turn log
   that `Session` and `Conversation` use; `Connections` refining "one writer per
   epoch"; `Service` as an abstraction of `Connections`.
