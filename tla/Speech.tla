------------------------------- MODULE Speech -------------------------------
(***************************************************************************)
(* Cutting a streamed reply into segments and cleaning them for speech     *)
(* synthesis (segmenter.go, normalize.go), and the cut the latency report  *)
(* of voicecli makes.  A text is a sequence of runes, a rune is one of a   *)
(* few that the code tells apart; "D" stands for an abbreviation such as   *)
(* Dr, "1" for a number of one or two digits, "*" for a mark that is also  *)
(* a bullet.  The lengths of the source are constants, to be scaled down.  *)
(***************************************************************************)
EXTENDS Integers, Sequences, SequencesExt, FiniteSetsExt

CONSTANTS
  FirstMin,       \* the first segment may end at a soft stop from here on (20)
  LaterSoftMin,   \* a later one (120)
  MinLater,       \* a later segment shorter than this is merged forward (8)
  MinFirst,       \* the first one (2)
  ForceSplit      \* a text longer than this is cut at a space (250)

ASSUME LengthsAssumption ==
  /\ {FirstMin, LaterSoftMin, MinLater, MinFirst, ForceSplit} \subseteq Nat \ {0}
  /\ FirstMin <= LaterSoftMin

Runes == {"a", "D", "1", " ", "n", ".", ",", "*"}

IsSpace(r) == r \in {" ", "n"}       \* "n" is the line break
IsHard(r)  == r = "."
IsSoft(r)  == r = ","
IsMark(r)  == r = "*"

Places(s, Is(_)) == {i \in DOMAIN s : Is(s[i])}
NonSpace(s) == SelectSeq(s, LAMBDA r : ~IsSpace(r))

TrimLeft(s) ==
  LET text == Places(s, LAMBDA r : ~IsSpace(r)) IN
  IF text = {} THEN <<>> ELSE SubSeq(s, Min(text), Len(s))

Trim(s) ==
  LET text == Places(s, LAMBDA r : ~IsSpace(r)) IN
  IF text = {} THEN <<>> ELSE SubSeq(s, Min(text), Max(text))

-----------------------------------------------------------------------------
(* The segmenter: a buffer, and whether a segment was emitted already.       *)

Empty == [buf |-> <<>>, first |-> TRUE]

\* The word that ends before the full stop at i is a known abbreviation.
AfterAbbreviation(b, i) ==
  i > 1 /\ b[i - 1] = "D" /\ (i > 2 => IsSpace(b[i - 2]))

\* How many runes the segment that ends at the stop in place i keeps.
CutAt(b, i) == IF b[i] = "n" THEN i - 1 ELSE i

\* The rune after a stop decides whether it ends a segment.
Spaced_AtEnd(b, i) == i = Len(b) \/ IsSpace(b[i + 1])
Spaced(b, i) == i < Len(b) /\ IsSpace(b[i + 1])

Boundary(b, i, first) ==
  LET spaced == Spaced(b, i)
      seg == Trim(SubSeq(b, 1, CutAt(b, i)))
      long == Len(seg) >= (IF first THEN MinFirst ELSE MinLater)
  IN  /\ seg # <<>>
      /\ \/ b[i] = "n" /\ long
         \/ IsHard(b[i]) /\ spaced /\ ~AfterAbbreviation(b, i) /\ long
         \/ IsSoft(b[i]) /\ spaced /\ Len(seg) >= (IF first THEN FirstMin ELSE LaterSoftMin)

\* The spaces a text that is too long may be cut at: never its first rune.
Forced(b) ==
  IF Len(b) <= ForceSplit THEN {} ELSE {i \in 1..ForceSplit : IsSpace(b[i + 1])}

\* The length of the next segment, 0 when there is none yet.
NextCut(b, first) ==
  LET stops == {i \in DOMAIN b : Boundary(b, i, first)} IN
  IF stops # {} THEN CutAt(b, Min(stops))
  ELSE IF Forced(b) # {} THEN Max(Forced(b)) ELSE 0

\* Cut off segments for as long as there are any.
RECURSIVE Cuts(_, _)
Cuts(seg, out) ==
  LET n == NextCut(seg.buf, seg.first) IN
  IF n = 0 THEN [seg |-> seg, out |-> out]
  ELSE Cuts([buf |-> TrimLeft(SubSeq(seg.buf, n + 1, Len(seg.buf))), first |-> FALSE],
            Append(out, Trim(SubSeq(seg.buf, 1, n))))

Push(seg, delta) == Cuts([seg EXCEPT !.buf = @ \o delta], <<>>)

\* What is left when the stream is over.
Flush(seg) == Trim(seg.buf)

-----------------------------------------------------------------------------
(* Cleaning.                                                                 *)

\* Runs of white space become one, and none is left at the ends.
Squeeze(s) ==
  LET t == Trim(s)
      kept == SelectSeq([i \in DOMAIN t |-> i], LAMBDA i : ~IsSpace(t[i]) \/ ~IsSpace(t[i - 1]))
  IN  [k \in DOMAIN kept |-> IF IsSpace(t[kept[k]]) THEN " " ELSE t[kept[k]]]

OneLine(s, i, j) == \A k \in i..j : s[k] # "n"

\* The first rune of a line that is no white space.
Starts(s, j) == ~IsSpace(s[j]) /\ \A i \in 1..(j - 1) : OneLine(s, i, j) => IsSpace(s[i])

\* A line that starts with a number, a full stop and a space, and has more text:
\* the number and the stop are taken for a list's.  (The bullets are marks here.)
Numbered(s, j) ==
  /\ Starts(s, j) /\ IsPrefix(<<"1", ".", " ">>, SubSeq(s, j, Len(s)))
  /\ \E k \in (j + 3)..Len(s) : ~IsSpace(s[k]) /\ OneLine(s, j, k)

NormalizeForSpeech(s) ==
  LET stripped == UNION {{j, j + 1} : j \in {i \in DOMAIN s : Numbered(s, i)}}
      kept == SelectSeq([i \in DOMAIN s |-> i], LAMBDA i : i \notin stripped /\ ~IsMark(s[i]))
  IN  Squeeze([k \in DOMAIN kept |-> s[kept[k]]])

-----------------------------------------------------------------------------
(* voicecli measures the time to the first clause with a cut of its own.     *)

LongEnough_OneMore(i) == i > FirstMin
LongEnough(i) == i >= FirstMin

FirstClause(s) ==
  LET stops == {i \in DOMAIN s :
                  \/ IsHard(s[i]) /\ i >= 2 /\ i < Len(s) /\ IsSpace(s[i + 1])
                  \/ s[i] = "n" /\ Trim(SubSeq(s, 1, i - 1)) # <<>>
                  \/ IsSoft(s[i]) /\ LongEnough(i)}
  IN  IF stops = {} THEN <<>> ELSE Trim(SubSeq(s, 1, CutAt(s, Min(stops))))
=============================================================================
