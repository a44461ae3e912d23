-------------------------------- MODULE Reply --------------------------------
(***************************************************************************)
(* One reply of the tutor, from the language model to the segments queued  *)
(* for speech: produce and stream of turn.go over the Gemini client, with  *)
(* its two attempts, the first-token watchdog, the safety filter and the   *)
(* turn's cancellation.  What happens to a queued segment is in TTSPool.   *)
(***************************************************************************)
EXTENDS Speech

CONSTANTS
  Redirect,   \* the phrase that leads away from a blocked reply
  Worlds      \* what a behaviour may be drawn from: [texts, the texts a chunk may carry;
              \* runes, a bound on what one stream delivers; turns, a bound on the replies;
              \* faults, what may happen: "error", "block", "cancel"]

ASSUME RedirectAssumption == Redirect \in Seq(Runes) \ {<<>>}
ASSUME WorldsAssumption ==
  \A w \in Worlds :
    /\ w.texts \subseteq Seq(Runes) /\ w.runes \in Nat /\ w.turns \in Nat
    /\ w.faults \subseteq {"error", "block", "cancel"}

Models == 1..2   \* the default model, then the fallback

VARIABLES
  pc,       \* the producer: "call", "stream", "ended", "respond", "over"; "idle" when there is none
  model,    \* whose stream is read
  text,     \* history: what each model delivered and was not blocked
  seg,      \* the segmenter
  said,     \* the segments handed to submit, before they are cleaned
  res,      \* producerResult
  watch,    \* the first-token watchdog of this attempt: "armed", "fired", "stopped"
  ctx,      \* the turn's context: "live", "cancelled"
  whole,    \* history: a stream ended by itself, with a token
  told,     \* how respond ended
  world     \* what may come; it does not change

replyVars == <<pc, model, text, seg, said, res, watch, ctx, whole, told>>

Spoken(s) == NormalizeForSpeech(s) # <<>>
AnySpoken(segs) == \E i \in DOMAIN segs : Spoken(segs[i])

NoResult == [err |-> FALSE, blocked |-> FALSE, spoke |-> FALSE, clip |-> FALSE, got |-> FALSE]

\* The turn's state before it begins, and again once the actor has its result.
ReplyInit ==
  /\ pc = "idle" /\ model = 1
  /\ text = [m \in Models |-> <<>>]
  /\ seg = Empty /\ said = <<>> /\ res = NoResult
  /\ watch = "stopped" /\ ctx = "live" /\ whole = FALSE /\ told = "nothing"

ReplyReset ==
  /\ pc' = "idle" /\ model' = 1
  /\ text' = [m \in Models |-> <<>>]
  /\ seg' = Empty /\ said' = <<>> /\ res' = NoResult
  /\ watch' = "stopped" /\ ctx' = "live" /\ whole' = FALSE /\ told' = "nothing"

-----------------------------------------------------------------------------
(* stream: one attempt.                                                      *)

AtCall_FirstOnly(m) == IF m = 1 THEN "armed" ELSE "stopped"
AtCall(m) == "armed"

Call ==
  /\ pc = "call"
  /\ pc' = "stream" /\ watch' = AtCall(model)
  /\ UNCHANGED <<model, text, seg, said, res, ctx, whole, told>>

\* The attempt's own context: the watchdog's, or the turn's.
Aborted == watch = "fired" \/ ctx = "cancelled"

WatchdogFires ==
  /\ pc = "stream" /\ watch = "armed"
  /\ watch' = "fired"
  /\ UNCHANGED <<pc, model, text, seg, said, res, ctx, whole, told>>

\* The stream of an attempt returns; its deferred calls stop the watchdog.
Return(err) ==
  /\ pc' = "ended" /\ watch' = "stopped"
  /\ res' = [res EXCEPT !.err = err]

\* A chunk carries text, the reason the reply ends, both, or neither: toDelta
\* drops the last (a thought).  Text of a blocked chunk is not spoken.
Chunks ==
  [text : world.texts \union {<<>>}, finish : {"none", "stop", "safety"}, refused : {FALSE}]
    \union [text : {<<>>}, finish : {"none"}, refused : {TRUE}]

ToDelta(c) ==
  IF c.refused THEN [text |-> <<>>, blocked |-> TRUE]
  ELSE [text |-> c.text, blocked |-> c.finish = "safety"]

Carries(c) == c.refused \/ c.text # <<>> \/ c.finish # "none"

\* A chunk that was read already is delivered also after the attempt was aborted.
Delta ==
  /\ pc = "stream"
  /\ \E c \in {x \in Chunks : Carries(x)} :
       LET d == ToDelta(c)
           cut == Push(seg, d.text) IN
       /\ d.blocked => "block" \in world.faults
       /\ Len(text[model]) + Len(d.text) <= world.runes
       /\ IF d.blocked
          THEN /\ pc' = "ended" /\ watch' = "stopped"
               /\ res' = [res EXCEPT !.got = TRUE, !.blocked = TRUE, !.err = FALSE]
               /\ UNCHANGED <<text, seg, said>>
          ELSE /\ text' = [text EXCEPT ![model] = @ \o d.text]
               /\ seg' = cut.seg
               /\ \/ /\ said' = said \o cut.out
                     /\ watch' = IF watch = "armed" THEN "stopped" ELSE watch
                     /\ res' = [res EXCEPT !.got = TRUE, !.spoke = @ \/ AnySpoken(cut.out)]
                     /\ UNCHANGED pc
                  \/ \* submit fails at the k-th segment, which counts as spoken
                     /\ ctx = "cancelled"
                     /\ \E k \in {i \in DOMAIN cut.out : Spoken(cut.out[i])} :
                          said' = said \o SubSeq(cut.out, 1, k)
                     /\ pc' = "ended" /\ watch' = "stopped"
                     /\ res' = [res EXCEPT !.got = TRUE, !.spoke = TRUE, !.err = TRUE]
  /\ UNCHANGED <<model, ctx, whole, told>>

\* The provider's stream is over.  Without a token that is an error.
StreamEnds ==
  /\ pc = "stream"
  /\ Return(~res.got) /\ whole' = res.got
  /\ UNCHANGED <<model, text, seg, said, ctx, told>>

\* The provider fails, the breaker refuses the call, or the context was cancelled.
StreamFails ==
  /\ pc = "stream"
  /\ Aborted \/ "error" \in world.faults
  /\ Return(TRUE)
  /\ UNCHANGED <<model, text, seg, said, ctx, whole, told>>

-----------------------------------------------------------------------------
(* produce, after an attempt.                                                *)

Settled == ~res.err \/ res.got \/ ctx = "cancelled"

Fallback ==
  /\ pc = "ended" /\ ~Settled /\ model = 1
  /\ pc' = "call" /\ model' = 2
  /\ UNCHANGED <<text, seg, said, res, watch, ctx, whole, told>>

Rest_UnlessFailed(seg1, failed) == IF failed THEN <<>> ELSE SelectSeq(<<Flush(seg1)>>, LAMBDA s : s # <<>>)
Rest(seg1, failed) == SelectSeq(<<Flush(seg1)>>, LAMBDA s : s # <<>>)

Kept_NeverOnceSpoke(r, any) == [r EXCEPT !.spoke = any, !.err = @ /\ ~any]
Kept(r, any) == [r EXCEPT !.spoke = any]

\* The rest of the text is spoken, also when the stream failed or was blocked in
\* the middle of it; then comes the redirect, as a phrase or as a clip.
Finish ==
  /\ pc = "ended" /\ (Settled \/ model = 2)
  /\ pc' = "respond"
  /\ IF ctx = "cancelled" THEN UNCHANGED <<seg, said, res>>
     ELSE \E rest \in {Rest(seg, res.err)} :
          \E any \in {res.spoke \/ AnySpoken(rest)} :
            /\ seg' = [seg EXCEPT !.buf = <<>>]
            /\ said' = said \o rest \o (IF res.blocked /\ any THEN <<Redirect>> ELSE <<>>)
            /\ res' = IF res.blocked THEN [res EXCEPT !.spoke = any, !.err = FALSE, !.clip = ~any]
                      ELSE Kept(res, any)
  /\ UNCHANGED <<model, text, watch, ctx, whole, told>>

\* respond: what the learner is told when the segments were spoken.
Respond ==
  /\ pc = "respond" /\ pc' = "over"
  /\ told' = IF ctx = "cancelled" THEN "cancelled"
             ELSE IF res.err THEN (IF res.spoke THEN "cut short" ELSE "no answer")
             ELSE IF ~res.spoke /\ ~res.clip THEN "no answer"
             ELSE "complete"
  /\ UNCHANGED <<model, text, seg, said, res, watch, ctx, whole>>

\* A barge-in, the turn's deadline, or the end of the session.
Cancel ==
  /\ "cancel" \in world.faults /\ ctx = "live" /\ pc \notin {"idle", "over"}
  /\ ctx' = "cancelled"
  /\ UNCHANGED <<pc, model, text, seg, said, res, watch, whole, told>>

ReplyNext ==
  /\ Call \/ WatchdogFires \/ Delta \/ StreamEnds \/ StreamFails \/ Fallback \/ Finish \/ Respond \/ Cancel
  /\ UNCHANGED world

-----------------------------------------------------------------------------
ReplyTypeOK ==
  /\ pc \in {"idle", "call", "stream", "ended", "respond", "over"} /\ model \in Models
  /\ text \in [Models -> Seq(Runes)]
  /\ seg \in [buf : Seq(Runes), first : BOOLEAN] /\ said \in Seq(Seq(Runes))
  /\ res \in [err : BOOLEAN, blocked : BOOLEAN, spoke : BOOLEAN, clip : BOOLEAN, got : BOOLEAN]
  /\ watch \in {"armed", "fired", "stopped"} /\ ctx \in {"live", "cancelled"} /\ whole \in BOOLEAN
  /\ told \in {"nothing", "cancelled", "cut short", "no answer", "complete"}

\* Without the redirect phrase.
Own == IF res.blocked /\ said # <<>> /\ Last(said) = Redirect THEN Front(said) ELSE said

\* Until the turn is cancelled no rune of the reply but white space is lost,
\* doubled or moved by the cuts of Push, forced cuts and Flush, also when the
\* stream fails or is blocked in the middle of a sentence.
NothingLost == ctx = "live" => NonSpace(FlattenSeq(Own) \o seg.buf) = NonSpace(text[model])

\* How the provider chunks its stream does not show: as long as no text was long
\* enough to be cut at a space, the segments so far are those of the whole text
\* pushed at once (TestSegmenter feeds each text in chunks of 1, 3 and 1000).
ChunksDoNotShow ==
  pc = "stream" /\ ctx = "live" /\ Len(text[model]) <= ForceSplit =>
    said = Push(Empty, text[model]).out

\* A turn that ends without an error was not silent, and unless the filter stopped
\* it, its model finished: respond reports a reply cut short by a failure.
CompleteIsWhole == told = "complete" => 
  (AnySpoken(said) \/ res.clip) /\ (res.blocked \/ whole)

\* The latency report of voicecli never measures more text than the first segment
\* a learner would wait for (firstClause against the first cut of Push).
MeasuredInTime ==
  LET first == SelectSeq(said, LAMBDA s : s # <<>>) IN
  pc = "stream" /\ ctx = "live" /\ first # <<>> /\ Len(text[model]) <= ForceSplit =>
    FirstClause(text[model]) # <<>> /\ Len(FirstClause(text[model])) <= Len(first[1])

\* With a provider that never says a word the learner is still told, without
\* waiting for the turn's deadline: the watchdog ends both attempts.
SilenceIsTold == pc = "call" ~> res.got \/ told # "nothing" \/ pc = "idle"
=============================================================================
