------------------------------- MODULE Session -------------------------------
(***************************************************************************)
(* One live connection of a tutoring session: the actor of session.go, the *)
(* turn goroutines of turn.go, the outbox of ws/outbox.go with its writer, *)
(* and a client that follows docs/ws-protocol.md.                          *)
(*                                                                         *)
(* The actor's handlers call one another and run to the end before the     *)
(* next event is read, so each is an operator from the server's record to  *)
(* its next value, composed in the order of the code, and one action per   *)
(* event applies it.  A handler touches what other goroutines see (a       *)
(* turn's segments and flags, the outbox) in one place each, except finish,*)
(* which reads the outbox before it silences it and is two steps.          *)
(*                                                                         *)
(* A segment is a number: a reply is the count of its segments, a stored   *)
(* reply the count of segments kept.  The persister applies accepted       *)
(* writes in order, so rows holds what the accepted writes amount to.      *)
(***************************************************************************)
EXTENDS Integers, Sequences, FiniteSets

CONSTANTS
  MaxTurns,   \* bound: turns started on the connection
  MaxSegs,    \* bound: segments of a reply
  MaxAudio,   \* frames at which an utterance reaches MAX_UTTERANCE
  MaxFrames,  \* bound: frames the client sends of one utterance
  MaxInputs,  \* bound: utterances and texts the client begins
  Worlds,     \* what a behaviour may be drawn from: [turns and segs, bounds of it,
              \* inputs: what the client does ("speak", "cancel", "type", "ping", "bye"),
              \* faults: what may go wrong ("asr", "llm", "tts", "deadline", "storage",
              \* "limit", "timer", "write", "lost", "stop")]
  EventCap,   \* capacity of the actor's event channel (256 in the code)
  OutCap,     \* capacity of the outbox channel (512 in the code)
  HeardWindow \* turns whose written segments are counted (8 in the code)

ASSUME SessionAssumption ==
  /\ {MaxTurns, MaxSegs, MaxAudio, MaxFrames, MaxInputs, EventCap, OutCap, HeardWindow} \subseteq Nat
  /\ \A w \in Worlds :
       /\ w.turns \in 0..MaxTurns /\ w.segs \in 0..MaxSegs
       /\ w.inputs \subseteq {"speak", "cancel", "type", "ping", "bye"}
       /\ w.faults \subseteq {"asr", "llm", "tts", "deadline", "storage", "limit", "timer", "write", "lost", "stop"}
  /\ MaxAudio > 0 /\ EventCap > 0 /\ OutCap > 0 /\ HeardWindow > 0

VARIABLES
  srv,       \* the actor's fields, the turns, and what they share (see TurnType)
  events,    \* the actor's event channel
  inflight,  \* the frame the writer is writing
  written,   \* Outbox.heard: segments completely written, per turn
  conn,      \* the connection: "up", "lost" (read error), "down" (context cancelled)
  cli,       \* the client
  world      \* what happens around it; it does not change

vars == <<srv, events, inflight, written, conn, cli, world>>

TurnID == 1..MaxTurns
NoRow  == [id |-> 0, heard |-> 0, status |-> "none"]
NoLast == [id |-> 0, no |-> 0, total |-> 0, persisted |-> FALSE, pdone |-> FALSE, trunc |-> FALSE]
Unborn == [mode |-> "text", no |-> 0, pc |-> "unborn", cause |-> "none", learner |-> FALSE,
           segs |-> 0, prod |-> "open", emit |-> "caption", sent |-> 0,
           audio |-> FALSE, completed |-> FALSE, finalized |-> FALSE, status |-> "complete"]

\* Whether the persister's queue has room, whether the turn limiter has a token.
StorageOK == IF "storage" \in world.faults THEN BOOLEAN ELSE {TRUE}
Allowed   == IF "limit" \in world.faults THEN BOOLEAN ELSE {TRUE}

\* Frames.  Scoped frames may be dropped as stale; a frame that counts completes a segment.
Frame(k, t, scoped, counts) == [k |-> k, t |-> t, scoped |-> scoped, counts |-> counts]
Control(k, t) == Frame(k, t, FALSE, FALSE)
Scoped(k, t)  == Frame(k, t, TRUE, FALSE)
NoFrame == Control("none", 0)

NoPlayed == [t |-> 0, n |-> 0]
Event(k) == [k |-> k, t |-> 0, n |-> 0, status |-> "none"]

-----------------------------------------------------------------------------
(* The actor's helpers, as functions of the server's record *)

TrySend(a, f) ==
  IF Len(a.q) < OutCap THEN [a EXCEPT !.q = Append(@, f)]
  ELSE IF a.closing = "no" THEN [a EXCEPT !.closing = "slow"] ELSE a

SetTurn_OnlyToATurn(a, t) == IF t = 0 THEN a ELSE [a EXCEPT !.scope = t]
SetTurn(a, t) == [a EXCEPT !.scope = t]

\* A context keeps the first cause it was cancelled with.
Cancel(a, t) == IF a.turn[t].cause = "none" THEN [a EXCEPT !.turn[t].cause = "actor"] ELSE a
\* The connection's context is every turn's parent.
CancelAll(a) == [a EXCEPT !.turn = [t \in TurnID |->
  IF a.turn[t].pc \notin {"unborn", "ended"} /\ a.turn[t].cause = "none"
  THEN [a.turn[t] EXCEPT !.cause = "actor"] ELSE a.turn[t]]]

Enqueue_InsertOnly(a, ok, no, row) == IF ok /\ a.rows[no].id = 0 THEN [a EXCEPT !.rows[no] = row] ELSE a
\* ok: the persister's queue had room.
Enqueue(a, ok, no, row) ==
  IF ok THEN [a EXCEPT !.rows[no] = row]
  ELSE IF a.closing = "no" THEN [a EXCEPT !.closing = "storage"] ELSE a

BeginCapture(a, initial) ==
  [a EXCEPT !.st = "capturing", !.buf = initial, !.merged = (initial # 0)]
DiscardCapture(a) == [a EXCEPT !.st = "idle", !.buf = 0, !.merged = FALSE]

StoredStatus_EvenUnfinished(t, status, heard) ==
  IF status = "interrupted" /\ heard >= t.segs THEN "complete" ELSE status
\* The status a turn is stored with, given how many of its segments were heard.
StoredStatus(t, status, heard) ==
  IF status = "complete" /\ heard < t.segs THEN "interrupted"
  ELSE IF status = "interrupted" /\ t.completed /\ heard >= t.segs THEN "complete"
  ELSE status

\* finalize: once per turn.  all stands for heard = -1.
Finalize(a, id, status, all, heard, ok) ==
  LET t   == a.turn[id]
      n   == IF all \/ heard > t.segs THEN t.segs ELSE heard
      row == [id |-> id, heard |-> IF status = "failed" THEN 0 ELSE n,
              status |-> StoredStatus(t, status, n)]
      a1  == [a EXCEPT !.turn[id].finalized = TRUE]
      a2  == IF t.learner THEN Enqueue([a1 EXCEPT !.hist[t.no] = row], ok, t.no, row) ELSE a1
  IN  IF t.finalized THEN a
      ELSE [a2 EXCEPT !.last = [id |-> id, no |-> t.no, total |-> t.segs,
                                persisted |-> t.learner /\ ok, pdone |-> FALSE, trunc |-> FALSE]]

BargeIn(a, played, ok) ==
  LET id    == a.cur
      heard == IF played.t = id THEN played.n ELSE 0
      a1    == Finalize(Cancel(SetTurn(a, 0), id), id, "interrupted", FALSE, heard, ok)
  IN  IF id = 0 THEN a
      ELSE TrySend([a1 EXCEPT !.cur = 0], Control("interrupted", id))

\* lateBargeIn: speech after the turn finished here but before it was played to the end.
LateBargeIn(a, played, ok) ==
  LET l     == a.last
      heard == IF played.t = l.id THEN played.n ELSE 0
      row   == [id |-> l.id, heard |-> heard, status |-> "interrupted"]
      a1    == [a EXCEPT !.last.trunc = TRUE, !.hist[l.no] = row]
  IN  IF l.id = 0 \/ l.pdone \/ l.trunc \/ played.t \notin {0, l.id} \/ heard >= l.total THEN a
      ELSE IF l.persisted THEN Enqueue(a1, ok, l.no, row) ELSE a1

MergeContinuation(a) ==
  LET id == a.cur
      a1 == Cancel(SetTurn(a, 0), id)
      a2 == [a1 EXCEPT !.turn[id].finalized = TRUE, !.cur = 0, !.no = @ - 1]
  IN  BeginCapture(a2, a.prev)

StartTurn_KeepsNumber(a, mode) ==
  LET id == a.nextID
      t  == [Unborn EXCEPT !.mode = mode, !.no = a.no + 1,
                           !.pc = IF mode = "voice" THEN "recognize" ELSE "recognized"]
      a1 == [a EXCEPT !.nextID = @ + 1, !.turn[id] = t, !.cur = id, !.st = "responding"]
  IN  TrySend(SetTurn(a1, id), Control("started", id))

StartTurn(a, mode) ==
  LET id == a.nextID
      t  == [Unborn EXCEPT !.mode = mode, !.no = a.no + 1,
                           !.pc = IF mode = "voice" THEN "recognize" ELSE "recognized"]
      a1 == [a EXCEPT !.nextID = @ + 1, !.no = @ + 1, !.turn[id] = t, !.cur = id, !.st = "responding"]
  IN  TrySend(SetTurn(a1, id), Control("started", id))

\* allowed: the turn limiter (burst 3, 30 a minute) has a token.
FinishUtterance(a, allowed) ==
  LET a1 == DiscardCapture(a)
  IN  IF a.buf = 0 THEN a1
      ELSE IF ~allowed THEN TrySend(a1, Control("error", 0))
      ELSE StartTurn([a1 EXCEPT !.prev = a.buf], "voice")

-----------------------------------------------------------------------------
(* The actor: Run's loop and its handlers *)

Running == srv.stage = "run" /\ srv.closing = "no"

\* The next event, when it is of kind k.
Next1(k) == Running /\ events # <<>> /\ Head(events).k = k
\* The handler's effect; a turn started on a connection that is gone is born cancelled.
Handle(a) == srv' = (IF conn = "down" THEN CancelAll(a) ELSE a) /\ events' = Tail(events) /\ UNCHANGED <<inflight, written, conn, cli, world>>

CanStart == srv.nextID <= world.turns
Played_OneMore(e) == [t |-> e.t, n |-> e.n + 1]
Played(e) == [t |-> e.t, n |-> e.n]

SpeechStart ==
  /\ Next1("speech.start")
  /\ LET played == Played(Head(events)) IN
     \E ok \in StorageOK, inWindow \in BOOLEAN :
       \/ /\ srv.st = "idle"
          /\ Handle(BeginCapture(LateBargeIn(srv, played, ok), 0))
       \/ /\ srv.st = "capturing"
          /\ Handle(BeginCapture(srv, 0))
       \/ /\ srv.st = "responding"
          /\ srv.cur # 0 /\ srv.turn[srv.cur].mode = "voice" /\ ~srv.turn[srv.cur].audio /\ inWindow
          /\ Handle(MergeContinuation(srv))
       \/ /\ srv.st = "responding"
          /\ srv.cur = 0 \/ srv.turn[srv.cur].mode # "voice" \/ srv.turn[srv.cur].audio \/ ~inWindow
          /\ Handle(BeginCapture(BargeIn(srv, played, ok), 0))

\* Audio outside a capture is dropped; at MAX_UTTERANCE the utterance ends itself.
Audio ==
  /\ Next1("audio")
  /\ \/ srv.st # "capturing" /\ Handle(srv)
     \/ /\ srv.st = "capturing" /\ srv.buf + 1 < MaxAudio
        /\ Handle([srv EXCEPT !.buf = @ + 1])
     \/ /\ srv.st = "capturing" /\ srv.buf + 1 >= MaxAudio
        /\ \E allowed \in Allowed :
             /\ allowed => CanStart
             /\ Handle(FinishUtterance(TrySend([srv EXCEPT !.buf = MaxAudio], Control("error", 0)), allowed))

SpeechEnd ==
  /\ Next1("speech.end")
  /\ \/ srv.st # "capturing" /\ Handle(srv)
     \/ /\ srv.st = "capturing"
        /\ \E allowed \in Allowed :
             /\ allowed => CanStart
             /\ Handle(FinishUtterance(srv, allowed))

SpeechCancel ==
  /\ Next1("speech.cancel")
  /\ Handle(IF srv.st = "capturing" THEN DiscardCapture(srv) ELSE srv)

TextInput ==
  /\ Next1("text.input")
  /\ \E ok \in StorageOK, allowed \in Allowed :
       LET a1 == CASE srv.st = "responding" -> BargeIn(srv, NoPlayed, ok)
                   [] srv.st = "capturing"  -> DiscardCapture(srv)
                   [] srv.st = "idle"       -> srv
       IN  /\ allowed => CanStart
           /\ Handle(IF allowed THEN StartTurn(a1, "text") ELSE TrySend(a1, Control("error", 0)))

PlaybackDone ==
  /\ Next1("playback.done")
  /\ Handle(IF srv.last.id = Head(events).t THEN [srv EXCEPT !.last.pdone = TRUE] ELSE srv)

Ping == Next1("ping") /\ Handle(TrySend(srv, Control("pong", 0)))

\* A message or a stop request that ends the connection.
Stopped ==
  /\ Running /\ events # <<>>
  /\ Head(events).k \in {"ended", "closed", "stop", "storage"}
  /\ Handle([srv EXCEPT !.closing = Head(events).k])

TurnDone ==
  /\ Next1("turndone")
  /\ LET e == Head(events) IN
     \E ok \in StorageOK :
       Handle(IF e.t # srv.cur \/ srv.turn[e.t].finalized THEN srv
              ELSE [Finalize(srv, e.t, e.status, TRUE, 0, ok) EXCEPT !.cur = 0, !.st = "idle"])

\* The idle and the longest-session timers end the connection, the capture
\* watchdog drops the capture.
Timer ==
  /\ Running /\ "timer" \in world.faults
  /\ \/ \E c \in {"idle", "max"} : srv' = [srv EXCEPT !.closing = c]
     \/ srv.st = "capturing" /\ srv' = DiscardCapture(srv)
  /\ UNCHANGED <<events, inflight, written, conn, cli, world>>

\* Run's ctx.Done branch.
ContextDone ==
  /\ Running /\ conn = "down"
  /\ srv' = [srv EXCEPT !.closing = "stop"]
  /\ UNCHANGED <<events, inflight, written, conn, cli, world>>

\* HeardSegments: the count of a turn the outbox knows of, 0 for any other.
HeardSegments(t) == IF t = 0 THEN 0 ELSE written[t]

\* finish, first step: how much of the current turn is written.
FinishRead ==
  /\ srv.stage = "run" /\ srv.closing # "no"
  /\ srv' = [srv EXCEPT !.stage = "finish", !.heardAt = HeardSegments(srv.cur)]
  /\ UNCHANGED <<events, inflight, written, conn, cli, world>>

\* finish, up to close(done): stop the turn, save it, tell the client.
FinishSave ==
  /\ srv.stage = "finish"
  /\ \E ok \in StorageOK :
       LET id == srv.cur
           a1 == [Finalize(Cancel(SetTurn(srv, 0), id), id, "interrupted", FALSE, srv.heardAt, ok)
                    EXCEPT !.cur = 0]
           a2 == IF id = 0 THEN srv ELSE a1
           a3 == IF srv.closing \in {"closed", "slow"} THEN a2 ELSE TrySend(a2, Control("bye", 0))
       IN  srv' = [a3 EXCEPT !.stage = "wait"]
  /\ events' = <<>>   \* never read again
  /\ UNCHANGED <<inflight, written, conn, cli, world>>

\* turns.Wait, then the drain and the end of the session.
FinishWait ==
  /\ srv.stage = "wait"
  /\ \A t \in TurnID : srv.turn[t].pc \in {"unborn", "ended"}
  /\ srv' = [srv EXCEPT !.stage = "closed"]
  /\ UNCHANGED <<events, inflight, written, conn, cli, world>>

Actor == \/ SpeechStart \/ Audio \/ SpeechEnd \/ SpeechCancel \/ TextInput \/ PlaybackDone \/ Ping
         \/ Stopped \/ TurnDone \/ ContextDone
         \/ FinishRead \/ FinishSave \/ FinishWait

-----------------------------------------------------------------------------
(* A turn's goroutine: execute, respond and run of turn.go.  The producer and *)
(* the emitter run side by side while pc is "respond"; TTSPool.tla has what   *)
(* lies between them.  Errors, transcripts and clips are one frame each.      *)

Alive(t) == srv.turn[t].pc \notin {"unborn", "ended"}
Goto(t, pc) == srv' = [srv EXCEPT !.turn[t].pc = pc]

\* Outbox.Send queues a frame and goes on as a, or gives up, once its context is
\* done, and goes on as b.  When there is room too, either may be taken.
OutboxSend(done, f, a, b) ==
  \/ Len(srv.q) < OutCap /\ srv' = [a EXCEPT !.q = Append(@, f)]
  \/ done /\ srv' = b

\* turn.send: the turn's context or, past the deadline, a fresh one of two seconds,
\* which runs out only on a queue that stays full.
Send(t, f, a, b) ==
  OutboxSend(srv.turn[t].cause = "actor" \/ (srv.turn[t].cause = "deadline" /\ Len(srv.q) = OutCap), f, a, b)

\* recognize: cut short, failed, nothing heard (ask to repeat), or a text.
Recognize(t) ==
  LET failed == [srv.turn[t] EXCEPT !.status = "failed"] IN
  /\ srv.turn[t].pc = "recognize"
  /\ IF srv.turn[t].cause # "none"
     THEN srv' = [srv EXCEPT !.turn[t] = [failed EXCEPT !.pc = "exit"]]
     ELSE \/ "asr" \in world.faults /\ srv' = [srv EXCEPT !.turn[t] = [failed EXCEPT !.pc = "note"]]
          \/ "asr" \in world.faults /\ Goto(t, "note")
          \/ srv' = [srv EXCEPT !.turn[t].learner = TRUE, !.turn[t].pc = "transcript"]

\* A text turn starts here.
Recognized(t) ==
  /\ srv.turn[t].pc = "recognized"
  /\ srv' = [srv EXCEPT !.turn[t].learner = TRUE, !.turn[t].pc = "transcript"]

SendTranscript(t) ==
  /\ srv.turn[t].pc = "transcript"
  /\ Send(t, Scoped("note", t), [srv EXCEPT !.turn[t].pc = "respond"],
                                [srv EXCEPT !.turn[t].pc = "exit", !.turn[t].status = "failed"])

\* produce: a segment of the reply, also after the turn was cancelled (submit
\* adds the segment before it looks at the context).
AddSegment(t) ==
  /\ srv.turn[t].pc = "respond" /\ srv.turn[t].prod = "open"
  /\ srv.turn[t].segs < world.segs
  /\ srv' = [srv EXCEPT !.turn[t].segs = @ + 1]

\* The stream ends, fails (as it does when the context is done), or is blocked
\* before anything was said.
EndStream(t) ==
  /\ srv.turn[t].pc = "respond" /\ srv.turn[t].prod = "open"
  /\ \E r \in {"ok", "failed", "redirect"} :
       /\ r = "ok" => srv.turn[t].segs > 0
       /\ r = "failed" => "llm" \in world.faults \/ srv.turn[t].cause # "none"
       /\ r = "redirect" => "llm" \in world.faults /\ srv.turn[t].segs = 0
       /\ srv' = [srv EXCEPT !.turn[t].prod = r]

Emitting(t, e) == srv.turn[t].pc = "respond" /\ srv.turn[t].emit = e

\* Whether a segment stays without audio: synthesize failed, twice if that helps,
\* or brought no audio.
NoAudio == IF "tts" \in world.faults THEN BOOLEAN ELSE {FALSE}

\* emitSegment: the caption first.  A segment that could not be spoken ends there.
EmitCaption(t) ==
  /\ Emitting(t, "caption") /\ srv.turn[t].sent < srv.turn[t].segs
  /\ \E noAudio \in NoAudio :
       Send(t, Frame("caption", t, TRUE, noAudio),
            IF noAudio THEN [srv EXCEPT !.turn[t].sent = @ + 1] ELSE [srv EXCEPT !.turn[t].emit = "speech"],
            [srv EXCEPT !.turn[t].emit = "over"])

EmitSpeech(t) ==
  /\ Emitting(t, "speech")
  /\ Send(t, Frame("speech", t, TRUE, TRUE), [srv EXCEPT !.turn[t].emit = "mark"],
                                             [srv EXCEPT !.turn[t].emit = "over"])

\* audioQueued is raised once the frame is in the queue.
MarkAudio(t) ==
  /\ Emitting(t, "mark")
  /\ srv' = [srv EXCEPT !.turn[t].audio = TRUE, !.turn[t].sent = @ + 1, !.turn[t].emit = "caption"]

EndEmit(t) ==
  /\ Emitting(t, "caption")
  /\ \/ srv.turn[t].sent = srv.turn[t].segs /\ srv.turn[t].prod # "open"
     \/ srv.turn[t].cause # "none"
  /\ srv' = [srv EXCEPT !.turn[t].emit = "over"]

\* respond, after emit and the producer are through.
EndRespond(t) ==
  LET r == srv.turn[t]
      failed == [r EXCEPT !.status = "failed"] IN
  /\ Emitting(t, "over") /\ r.prod # "open"
  /\ srv' = [srv EXCEPT !.turn[t] =
       IF r.cause # "none" THEN [failed EXCEPT !.pc = "exit"]
       ELSE IF r.segs = 0 /\ r.prod # "redirect" THEN [failed EXCEPT !.pc = "note"]
       ELSE IF r.prod # "ok" THEN [r EXCEPT !.pc = "note"]
       ELSE [r EXCEPT !.pc = "exit"]]

\* An error with its clip, a redirect or a repeat clip.
SendNote(t) ==
  /\ srv.turn[t].pc \in {"note", "latenote"}
  /\ LET a == [srv EXCEPT !.turn[t].pc = IF @ = "note" THEN "exit" ELSE "done"]
     IN  Send(t, Scoped("note", t), a, a)

\* run: a turn the actor cancelled reports nothing to the client.
Exit(t) ==
  /\ srv.turn[t].pc = "exit"
  /\ CASE srv.turn[t].cause = "actor"    -> Goto(t, "post")
       [] srv.turn[t].cause = "deadline" ->
            srv' = [srv EXCEPT !.turn[t].status = "failed", !.turn[t].pc = "latenote"]
       [] srv.turn[t].cause = "none"     -> Goto(t, "done")

SendDone(t) ==
  /\ srv.turn[t].pc = "done"
  /\ LET a == [srv EXCEPT !.turn[t].pc = "flag"]
     IN  Send(t, Scoped(srv.turn[t].status, t), a, a)

Flag(t) ==
  /\ srv.turn[t].pc = "flag"
  /\ srv' = [srv EXCEPT !.turn[t].completed = (srv.turn[t].status = "complete"), !.turn[t].pc = "post"]

\* What waits for a service (speech recognition, the language model, speech
\* synthesis behind it), and what the goroutine does on its own.
Service(t) ==
  /\ Recognize(t) \/ AddSegment(t) \/ EndStream(t)
  /\ UNCHANGED <<events, inflight, written, conn, cli, world>>

OwnStep(t) ==
  /\ \/ Recognized(t) \/ SendTranscript(t)
     \/ EmitCaption(t) \/ EmitSpeech(t) \/ MarkAudio(t) \/ EndEmit(t) \/ EndRespond(t)
     \/ SendNote(t) \/ Exit(t) \/ SendDone(t) \/ Flag(t)
  /\ UNCHANGED <<events, inflight, written, conn, cli, world>>

Report_NoDone(t) ==
  /\ srv.turn[t].pc = "post"
  /\ srv.stage \in {"run", "finish"} /\ Len(events) < EventCap
  /\ events' = Append(events, [Event("turndone") EXCEPT !.t = t, !.status = srv.turn[t].status])
  /\ srv' = [srv EXCEPT !.turn[t] = [@ EXCEPT !.pc = "ended", !.prod = "open", !.emit = "caption", !.sent = 0]]
  /\ UNCHANGED <<inflight, written, conn, cli, world>>

\* done(res): the event, unless the actor no longer reads events.
Report(t) ==
  /\ srv.turn[t].pc = "post"
  /\ \/ /\ srv.stage \in {"run", "finish"} /\ Len(events) < EventCap
        /\ events' = Append(events, [Event("turndone") EXCEPT !.t = t, !.status = srv.turn[t].status])
     \/ srv.stage \in {"wait", "closed"} /\ UNCHANGED events
  /\ srv' = [srv EXCEPT !.turn[t] = [@ EXCEPT !.pc = "ended", !.prod = "open", !.emit = "caption", !.sent = 0]]
  /\ UNCHANGED <<inflight, written, conn, cli, world>>

Deadline_VoiceOnly(t) ==
  /\ "deadline" \in world.faults /\ Alive(t) /\ srv.turn[t].cause = "none" /\ srv.turn[t].mode = "voice"
  /\ srv' = [srv EXCEPT !.turn[t].cause = "deadline"]
  /\ UNCHANGED <<events, inflight, written, conn, cli, world>>

\* The turn's deadline, counted from its start.
Deadline(t) ==
  /\ "deadline" \in world.faults /\ Alive(t) /\ srv.turn[t].cause = "none"
  /\ srv' = [srv EXCEPT !.turn[t].cause = "deadline"]
  /\ UNCHANGED <<events, inflight, written, conn, cli, world>>

-----------------------------------------------------------------------------
(* The outbox's writer *)

Stale_NotCurrent(f) == f.scoped /\ f.t # srv.cur
Stale(f) == f.scoped /\ f.t # srv.scope

\* Take the next frame: a stale one is dropped, any other is being written.
WriterTake ==
  /\ conn # "down" /\ inflight = NoFrame /\ srv.q # <<>>
  /\ inflight' = IF Stale(Head(srv.q)) THEN NoFrame ELSE Head(srv.q)
  /\ srv' = [srv EXCEPT !.q = Tail(@)]
  /\ UNCHANGED <<events, written, conn, cli, world>>

\* What the client does with a frame: it ignores segments of a turn not current.
Receive(f) ==
  cli' = CASE f.k = "started" -> [cli EXCEPT !.cur = f.t]
           [] f.counts /\ f.t = cli.cur -> [cli EXCEPT !.got[f.t] = @ + 1]
           [] f.k \in {"complete", "failed", "interrupted"} -> [cli EXCEPT !.done[f.t] = Append(@, f.k)]
           [] OTHER -> cli

\* The counts of the latest turns are kept: the oldest goes when there is one too many.
CountWritten(t) ==
  LET counts == [written EXCEPT ![t] = @ + 1]
      known  == {u \in TurnID : counts[u] > 0} IN
  IF Cardinality(known) > HeardWindow
  THEN [counts EXCEPT ![CHOOSE u \in known : \A v \in known : u <= v] = 0] ELSE counts

WriterWrite ==
  /\ conn # "down" /\ inflight # NoFrame
  /\ Receive(inflight)
  /\ written' = IF inflight.counts THEN CountWritten(inflight.t) ELSE written
  /\ inflight' = NoFrame
  /\ UNCHANGED <<srv, events, conn, world>>

\* A failed write or an unanswered ping cancels the connection's context: the
\* frame being written is lost, the writer stops, the turns are cancelled.
ConnectionFails ==
  /\ "write" \in world.faults /\ conn # "down"
  /\ conn' = "down" /\ inflight' = NoFrame
  /\ srv' = CancelAll(srv)
  /\ UNCHANGED <<events, written, cli, world>>

\* The session is done: what is queued is written, or flushTimeout passes, and the
\* connection is closed.
CloseOutbox ==
  /\ srv.stage = "closed" /\ conn # "down"
  /\ conn' = "down" /\ inflight' = NoFrame
  /\ UNCHANGED <<srv, events, written, cli, world>>

-----------------------------------------------------------------------------
(* The client.  Playback lags behind what was received; a learner who speaks or *)
(* types stops it, and the speech.start says how much was fully played.         *)

Post(e) == conn = "up" /\ srv.stage \in {"run", "finish"} /\ Len(events) < EventCap /\ events' = Append(events, e)

Play(t) ==
  /\ t = cli.cur /\ t \notin cli.stopped /\ cli.played[t] < cli.got[t]
  /\ cli' = [cli EXCEPT !.played[t] = @ + 1]
  /\ UNCHANGED <<srv, events, inflight, written, conn, world>>

Begins == cli.inputs < MaxInputs
StopPlayback(c) == [c EXCEPT !.inputs = @ + 1, !.stopped = IF c.cur = 0 THEN @ ELSE @ \cup {c.cur}]

\* played is sent when something was fully played of a reply that still plays.
ClientSpeaks ==
  /\ "speak" \in world.inputs /\ Begins /\ ~cli.talking
  /\ LET t == cli.cur
         playing == t # 0 /\ t \notin cli.stopped \cup cli.pdone /\ cli.played[t] > 0
     IN  Post([Event("speech.start") EXCEPT !.t = IF playing THEN t ELSE 0,
                                            !.n = IF playing THEN cli.played[t] ELSE 0])
  /\ cli' = [StopPlayback(cli) EXCEPT !.talking = TRUE]
  /\ UNCHANGED <<srv, inflight, written, conn, world>>

ClientAudio ==
  /\ cli.talking /\ cli.audio < MaxFrames
  /\ Post(Event("audio"))
  /\ cli' = [cli EXCEPT !.audio = @ + 1]
  /\ UNCHANGED <<srv, inflight, written, conn, world>>

ClientStopsTalking ==
  /\ cli.talking
  /\ \/ Post(Event("speech.end"))
     \/ "cancel" \in world.inputs /\ Post(Event("speech.cancel"))
  /\ cli' = [cli EXCEPT !.talking = FALSE, !.audio = 0]
  /\ UNCHANGED <<srv, inflight, written, conn, world>>

ClientTypes ==
  /\ "type" \in world.inputs /\ Begins
  /\ Post(Event("text.input"))
  /\ cli' = [StopPlayback(cli) EXCEPT !.talking = FALSE, !.audio = 0]
  /\ UNCHANGED <<srv, inflight, written, conn, world>>

ClientPlayed(t) ==
  /\ t = cli.cur /\ t \notin cli.stopped \cup cli.pdone
  /\ cli.done[t] # <<>> /\ cli.played[t] = cli.got[t]
  /\ Post([Event("playback.done") EXCEPT !.t = t])
  /\ cli' = [cli EXCEPT !.pdone = @ \cup {t}]
  /\ UNCHANGED <<srv, inflight, written, conn, world>>

ClientOther ==
  /\ \/ "ping" \in world.inputs /\ Begins /\ Post(Event("ping")) /\ cli' = [cli EXCEPT !.inputs = @ + 1]
     \/ "bye" \in world.inputs /\ Post(Event("ended")) /\ UNCHANGED cli
  /\ UNCHANGED <<srv, inflight, written, conn, world>>

\* The reader fails; or the hub or the persister stops the session.
Disconnect ==
  /\ "lost" \in world.faults
  /\ Post(Event("closed"))
  /\ conn' = "lost"
  /\ UNCHANGED <<srv, inflight, written, cli, world>>

StopRequest ==
  /\ Running /\ "stop" \in world.faults
  /\ Len(events) < EventCap
  /\ \E k \in {"stop", "storage"} : events' = Append(events, Event(k))
  /\ UNCHANGED <<srv, inflight, written, conn, cli, world>>

-----------------------------------------------------------------------------
Init ==
  /\ srv = [st |-> "idle", cur |-> 0, nextID |-> 1, no |-> 0, buf |-> 0, prev |-> 0, merged |-> FALSE,
            last |-> NoLast, hist |-> [n \in TurnID |-> NoRow], rows |-> [n \in TurnID |-> NoRow],
            closing |-> "no", stage |-> "run", heardAt |-> 0,
            q |-> <<>>, scope |-> 0, turn |-> [t \in TurnID |-> Unborn]]
  /\ events = <<>> /\ inflight = NoFrame /\ conn = "up"
  /\ written = [t \in TurnID |-> 0]
  /\ cli = [cur |-> 0, got |-> [t \in TurnID |-> 0], played |-> [t \in TurnID |-> 0],
            done |-> [t \in TurnID |-> <<>>], stopped |-> {}, pdone |-> {},
            talking |-> FALSE, audio |-> 0, inputs |-> 0]
  /\ world \in Worlds

Client == \/ ClientSpeaks \/ ClientAudio \/ ClientStopsTalking \/ ClientTypes \/ ClientOther
          \/ Disconnect \/ \E t \in TurnID : Play(t) \/ ClientPlayed(t)

\* The session and its connection are over.
Quiet == srv.stage = "closed" /\ conn = "down" /\ UNCHANGED vars

Next ==
  \/ Actor \/ Timer
  \/ \E t \in TurnID : Service(t) \/ OwnStep(t) \/ Report(t) \/ Deadline(t)
  \/ WriterTake \/ WriterWrite \/ ConnectionFails \/ CloseOutbox
  \/ Client \/ StopRequest
  \/ Quiet

Spec == Init /\ [][Next]_vars

\* The goroutines are scheduled, a write and the last flush end (writeTimeout,
\* flushTimeout) and the turn's timer fires.  A service need not answer before the turn's context is done, no ping
\* need fail, and nothing is asked of the client.
Fairness ==
  /\ WF_vars(Actor) /\ WF_vars(CloseOutbox)
  /\ WF_vars(WriterTake) /\ WF_vars(inflight # NoFrame /\ (WriterWrite \/ ConnectionFails))
  /\ \A t \in TurnID :
       /\ WF_vars(OwnStep(t)) /\ WF_vars(Report(t)) /\ WF_vars(Deadline(t))
       /\ WF_vars(srv.turn[t].cause # "none" /\ Service(t))

FairSpec == Spec /\ Fairness

-----------------------------------------------------------------------------
(* Properties *)

RowType == [id : 0..MaxTurns, heard : 0..MaxSegs, status : {"none", "complete", "interrupted", "failed"}]

TurnType ==
  [mode : {"voice", "text"}, no : 0..MaxTurns,
   pc : {"unborn", "recognize", "recognized", "transcript", "respond", "note", "latenote",
         "exit", "done", "flag", "post", "ended"},
   cause : {"none", "actor", "deadline"}, learner : BOOLEAN, segs : 0..MaxSegs,
   prod : {"open", "ok", "failed", "redirect"}, emit : {"caption", "speech", "mark", "over"},
   sent : 0..MaxSegs, audio : BOOLEAN, completed : BOOLEAN, finalized : BOOLEAN,
   status : {"complete", "failed"}]

\* The type of the state: the actor's fields stay in their ranges, the channels
\* within their capacities, and a capture never holds more than MAX_UTTERANCE.
TypeOK ==
  /\ srv.st \in {"idle", "capturing", "responding"}
  /\ srv.cur \in 0..MaxTurns /\ srv.nextID \in 1..(MaxTurns + 1) /\ srv.no \in 0..MaxTurns
  /\ srv.buf \in 0..MaxAudio /\ srv.prev \in 0..MaxAudio
  /\ srv.hist \in [TurnID -> RowType] /\ srv.rows \in [TurnID -> RowType]
  /\ srv.turn \in [TurnID -> TurnType]
  /\ Len(srv.q) <= OutCap /\ Len(events) <= EventCap
  /\ written \in [TurnID -> 0..MaxSegs]
  /\ cli.played \in [TurnID -> 0..MaxSegs]

\* The client is never sent a segment of a turn after that turn's tutor.done,
\* whoever sent it: the turn's goroutine in order with its frames, or the actor
\* ahead of frames still queued (bargeIn, Outbox.write).
SegmentsBeforeDone ==
  [][\A t \in TurnID : written'[t] > written[t] => cli.done[t] = <<>>]_vars

\* The writer drops a frame only of a turn that was cut off or that a later turn
\* has replaced: not of one that runs, nor of one that finished and still plays.
DroppedOnlyWhenSuperseded ==
  srv.q # <<>> /\ Stale(Head(srv.q)) =>
    LET t == Head(srv.q).t IN
    t # srv.cur /\ (srv.turn[t].cause # "none" \/ t + 1 < srv.nextID)

\* A stored turn number stays with its turn, although merging an utterance gives
\* numbers back: a second insert of a number would break the table's unique key.
RowsKeepTheirTurn ==
  [][\A n \in TurnID : srv.rows[n].id # 0 => srv'.rows[n].id = srv.rows[n].id]_vars

\* Until a write is refused, the history the next prompt is built from is what the
\* database holds (finalize and lateBargeIn change both).
HistoryMatchesRows == srv.closing = "no" => srv.hist = srv.rows

\* An interrupted reply is never stored with more than the learner was played, or,
\* when the connection ended, with more than was written to it.
StoredWithinHeard ==
  \A n \in TurnID :
    LET r == srv.rows[n] IN
    r.status = "interrupted" =>
      r.heard <= cli.played[r.id] \/ (srv.stage # "run" /\ r.heard <= written[r.id])

\* A reply stored as complete is stored whole, also when its last segments came
\* after the learner interrupted.
CompleteMeansAll ==
  \A n \in TurnID : srv.rows[n].status = "complete" => srv.rows[n].heard = srv.turn[srv.rows[n].id].segs

\* Every turn ends, whatever its services do.
TurnsEnd == \A t \in TurnID : Alive(t) ~> ~Alive(t)

\* A session that started to close gets through turns.Wait, and its connection is
\* closed, whatever is still queued for it.
Closes == srv.closing # "no" ~> srv.stage = "closed" /\ conn = "down"

-----------------------------------------------------------------------------
(* What the documentation says and the code does not do *)

\* session.go: "the stored reply is cut to what was heard".  A cut keeps every
\* segment that was fully played.
HeardKept ==
  [][\A n \in TurnID :
       LET r == srv.rows[n]
           s == srv'.rows[n] IN
       r.id # 0 /\ s.heard < r.heard => s.heard >= cli.played[r.id]]_vars

\* design.md: a failed tutor row gets empty content and is skipped in history, so
\* a failed row stays failed.
FailedStaysFailed ==
  [][\A n \in TurnID : srv.rows[n].status = "failed" => srv'.rows[n].status = "failed"]_vars

\* design.md's state diagram: the actor is Responding while it has a turn.
RespondingHasTurn == Running /\ srv.st = "responding" => srv.cur # 0

\* ws-protocol.md: "Use tutor.done to know a turn is finished": it comes once.
DoneOnce == \A t \in TurnID : Len(cli.done[t]) <= 1

\* ws-protocol.md: the stored reply is cut down to the heard text "unless you
\* already sent playback.done".
PlayedDoneNotCut ==
  [][\A n \in TurnID :
       srv.rows[n].id \in cli.pdone => srv'.rows[n].heard >= srv.rows[n].heard]_vars

\* ws-protocol.md: an utterance merged with a continuation is answered: "a new
\* turn.started follows at the next speech.end".
MergedIsAnswered ==
  [][srv.merged /\ SpeechEnd => srv'.nextID > srv.nextID]_vars

\* session.go: finish "saves what the learner actually heard".
FinishSavesHeard ==
  [][\A n \in TurnID :
       srv.stage = "finish" /\ srv.rows[n].id = 0 /\ srv'.rows[n].id # 0
         => srv'.rows[n].heard = written[srv'.rows[n].id]]_vars

\* ws-protocol.md: a turn is dropped for a continuation only when "no tutor audio
\* has been sent yet".
MergedBeforeAudio ==
  [][srv.st = "responding" /\ srv'.merged => written[srv.cur] = 0]_vars
=============================================================================
