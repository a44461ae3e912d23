---------------------------- MODULE MCConversation ----------------------------
(* The worlds: one reply from any text in any chunks, and three turns of one word. *)
EXTENDS Conversation

\* Words, stops with and without the space after them, a line break, an
\* abbreviation, a number that may look like a bullet.
MCTexts == {<<"a", "a">>, <<" ">>, <<".">>, <<",", " ">>, <<"D", ".">>, <<"n">>, <<"1", ".", " ">>}
MCRedirect == <<"a", "1", "a">>
MCWorlds == {[texts |-> MCTexts, runes |-> 7, turns |-> 1, faults |-> {"error", "block", "cancel"}],
             [texts |-> {<<"a">>}, runes |-> 1, turns |-> 3, faults |-> {"cancel"}]}
=============================================================================
