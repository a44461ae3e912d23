----------------------------- MODULE Conversation -----------------------------
(***************************************************************************)
(* The turns of a session as the language model sees them: each turn asks  *)
(* with the conversation so far (usecase/history.go), its reply (Reply.tla)*)
(* is recorded in the actor's history and given to the persister           *)
(* (session.go, finalize), speech may cut it afterwards (lateBargeIn), and *)
(* a new connection goes on from the stored messages (hub.go, load; the    *)
(* repository's messages.go).                                              *)
(*                                                                         *)
(* A message is its turn, its role, its status and how much of its text    *)
(* there is.  Queue and fencing of the persister are in Connections.tla:   *)
(* here a write is applied in its turn, fails, or is lost with the process.*)
(***************************************************************************)
EXTENDS Reply

CONSTANT MaxHistory   \* HISTORY_MAX_MESSAGES (20 in the code)

ASSUME HistoryAssumption == MaxHistory \in Nat \ {0}

VARIABLES
  turns,   \* turns started, for the bound
  no,      \* Session.turnNo
  mem,     \* Session.history, oldest first
  kept,    \* history: what mem would be if it were never trimmed
  last,    \* Session.last: a reply that speech may still cut, if any
  queue,   \* writes the persister has taken
  rows,    \* the messages table, in messageOrder
  storage, \* what the connection has met: "fine", "failed", a write; "full", the queue
  prompt   \* the conversation the turn in progress asks with

talkVars == <<turns, no, mem, kept, last, queue, rows, storage, prompt>>
vars == <<replyVars, world, talkVars>>

Message(n, role, status, content) == [no |-> n, role |-> role, status |-> status, content |-> content]

LastN(s, n) == IF Len(s) <= n THEN s ELSE SubSeq(s, Len(s) - n + 1, Len(s))

\* Message.Heard: a failed reply never reached the learner.
Heard(m) == ~(m.role = "tutor" /\ m.status = "failed")

\* What the model is sent: the last max messages that reached the learner and are not
\* empty.  The mark of an interrupted one is its status.
BuildHistory(msgs, max) == LastN(SelectSeq(msgs, LAMBDA m : Heard(m) /\ m.content # "none"), max)

\* Messages.Recent: the last n rows.
Recent(n) == LastN(rows, n)

Init ==
  /\ ReplyInit /\ world \in Worlds
  /\ turns = 0 /\ no = 0 /\ mem = <<>> /\ kept = <<>> /\ last = {} /\ queue = <<>>
  /\ rows = <<>> /\ storage = "fine" /\ prompt = <<>>

-----------------------------------------------------------------------------
(* The actor *)

\* startTurn.  A connection whose queue was full is closing.
StartTurn ==
  /\ pc = "idle" /\ storage # "full" /\ turns < world.turns
  /\ pc' = "call" /\ turns' = turns + 1
  /\ prompt' = BuildHistory(mem, MaxHistory)
  /\ UNCHANGED <<model, text, seg, said, res, watch, ctx, whole, told, no, mem, kept, last, queue, rows, storage>>

\* How a turn may be recorded: as it ended (a reply cut short is complete) or, when
\* the learner speaks first, cut to what was heard.  Without a segment there is no text.
Part(content) == IF AnySpoken(said) THEN content ELSE "none"
AsItEnded == IF told \in {"complete", "cut short"} THEN {<<"complete", Part("all")>>} ELSE {<<"failed", "none">>}
Outcomes == AsItEnded \union {<<"interrupted", Part(c)>> : c \in {"none", "part", "all"}}

Trimmed_ToMax(s) == LastN(s, MaxHistory)
\* The actor keeps twice what the model is sent.
Trimmed(s) == LastN(s, 2 * MaxHistory)

\* finalize and enqueue; a full queue ends the connection.
Finalize ==
  /\ pc = "over"
  /\ \E o \in Outcomes, ok \in BOOLEAN :
       LET msgs == <<Message(no + 1, "learner", "complete", "all"), Message(no + 1, "tutor", o[1], o[2])>> IN
       /\ mem' = Trimmed(mem \o msgs) /\ kept' = kept \o msgs
       /\ last' = IF AnySpoken(said) THEN {[no |-> no + 1, persisted |-> ok]} ELSE {}
       /\ queue' = IF ok THEN Append(queue, [k |-> "insert", msgs |-> msgs]) ELSE queue
       /\ storage' = IF ok THEN storage ELSE "full"
  /\ no' = no + 1 /\ prompt' = <<>> /\ ReplyReset
  /\ UNCHANGED <<turns, rows>>

\* A turn that recognized nothing asks for no reply: it keeps its number, has no
\* messages and leaves nothing to cut.
NothingHeard ==
  /\ pc = "idle" /\ storage # "full" /\ turns < world.turns
  /\ turns' = turns + 1 /\ no' = no + 1 /\ last' = {}
  /\ UNCHANGED <<replyVars, mem, kept, queue, rows, storage, prompt>>

\* mergeContinuation: no record is made, and the turn gives its number back.
Forget ==
  /\ pc = "over" /\ told = "cancelled" /\ prompt' = <<>> /\ ReplyReset
  /\ UNCHANGED <<turns, no, mem, kept, last, queue, rows, storage>>

Patched(msgs, n, content) ==
  [i \in DOMAIN msgs |-> IF msgs[i].no = n /\ msgs[i].role = "tutor"
                         THEN Message(n, "tutor", "interrupted", content) ELSE msgs[i]]

LateBargeIn_InMemory ==
  /\ pc = "idle" /\ storage # "full" /\ last' = {}
  /\ \E l \in last, content \in {"none", "part"} :
       mem' = Patched(mem, l.no, content) /\ kept' = Patched(kept, l.no, content)
  /\ UNCHANGED <<replyVars, turns, no, queue, rows, storage, prompt>>

\* lateBargeIn: the reply was not played to its end.
LateBargeIn ==
  /\ pc = "idle" /\ storage # "full" /\ last' = {}
  /\ \E l \in last, content \in {"none", "part"}, ok \in BOOLEAN :
       /\ mem' = Patched(mem, l.no, content) /\ kept' = Patched(kept, l.no, content)
       /\ queue' = IF l.persisted /\ ok THEN Append(queue, [k |-> "update", no |-> l.no, content |-> content])
                   ELSE queue
       /\ storage' = IF l.persisted /\ ~ok THEN "full" ELSE storage
  /\ UNCHANGED <<replyVars, turns, no, rows, prompt>>

-----------------------------------------------------------------------------
(* The persister, and the next connection *)

Write ==
  /\ queue # <<>> /\ queue' = Tail(queue)
  /\ LET op == Head(queue) IN
     rows' = IF op.k = "insert" THEN rows \o op.msgs ELSE Patched(rows, op.no, op.content)
  /\ UNCHANGED <<replyVars, turns, no, mem, kept, last, storage, prompt>>

\* It fails after its attempts.  The actor is told, and may go on for a while.
WriteFails ==
  /\ queue # <<>> /\ queue' = Tail(queue) /\ storage' = (IF storage = "full" THEN storage ELSE "failed")
  /\ UNCHANGED <<replyVars, turns, no, mem, kept, last, rows, prompt>>

\* A new connection, after an orderly end, a crash or a takeover: what is not stored is lost.
Resume ==
  /\ ReplyReset /\ prompt' = <<>> /\ queue' = <<>>
  /\ mem' = Recent(MaxHistory) /\ kept' = mem'
  /\ no' = IF rows = <<>> THEN 0 ELSE Last(rows).no
  /\ last' = {} /\ storage' = "fine"
  /\ UNCHANGED <<turns, rows>>

Next ==
  \/ ReplyNext /\ UNCHANGED talkVars
  \/ (StartTurn \/ NothingHeard \/ Finalize \/ Forget \/ LateBargeIn \/ Write \/ WriteFails \/ Resume) /\ UNCHANGED world

Spec == Init /\ [][Next]_vars

\* The timer fires, an aborted stream returns, and the producer runs on.  A
\* provider may be silent for ever: neither Delta, StreamEnds nor an error is fair.
FairSpec ==
  /\ Spec
  /\ WF_vars((Call \/ Fallback \/ Finish \/ Respond) /\ UNCHANGED <<world, talkVars>>)
  /\ WF_vars(WatchdogFires /\ UNCHANGED <<world, talkVars>>)
  /\ WF_vars(Aborted /\ StreamFails /\ UNCHANGED <<world, talkVars>>)

-----------------------------------------------------------------------------
(* Properties *)

TypeOK ==
  /\ ReplyTypeOK /\ turns \in Nat /\ no \in Nat /\ storage \in {"fine", "failed", "full"}
  /\ \A m \in Range(mem) \union Range(kept) \union Range(rows) \union Range(prompt) :
       m.no \in Nat /\ m.role \in {"learner", "tutor"} /\ m.content \in {"none", "part", "all"}

\* However long the conversation, what the actor has dropped from its history is
\* never missed: the model is sent the same as if everything had been kept, though
\* replies that failed, or were cut to nothing after the trim, are left out.
TrimmingDoesNotShow == BuildHistory(mem, MaxHistory) = BuildHistory(kept, MaxHistory)

\* Once a connection's writes are applied, a new connection would tell the model
\* what this one would, from a later point at most: no message is told
\* differently, out of order or twice, and a cut reply stays cut.
ResumeTellsTheSame ==
  pc = "idle" /\ queue = <<>> /\ storage = "fine" =>
    IsSuffix(BuildHistory(Recent(MaxHistory), MaxHistory), BuildHistory(mem, MaxHistory))

-----------------------------------------------------------------------------
(* What the comments say, and the code does not do *)

\* history.go: BuildHistory "keeps the last max messages that reached the learner";
\* a new connection loads the last max rows and drops those that did not.
ResumeKeepsMax ==
  pc = "idle" /\ queue = <<>> /\ storage = "fine" =>
    BuildHistory(Recent(MaxHistory), MaxHistory) = BuildHistory(mem, MaxHistory)
=============================================================================
