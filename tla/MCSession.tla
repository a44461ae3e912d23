------------------------------ MODULE MCSession ------------------------------
(* The connection of Session.tla on small instances.  A world says what the client *)
(* does, what may fail, and how many turns and segments there are: either two turns *)
(* of one segment, or one turn of two and everything that fails in a turn.         *)
EXTENDS Session, TLC

World(turns, segs, inputs, faults) == [turns |-> turns, segs |-> segs, inputs |-> inputs, faults |-> faults]

MCWorlds == {World(2, 1, {"speak", "type", "cancel"}, {"limit"}),
             World(1, 2, {"speak", "type"}, {"limit", "tts", "storage", "llm", "asr"})}
MCEnding == {World(1, 2, {"type", "bye", "ping"}, {"timer", "write", "lost", "stop", "deadline"})}
MCSpeech == {World(1, 1, {"speak"}, {"limit"})}
=============================================================================
