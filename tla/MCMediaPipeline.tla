--------------------------- MODULE MCMediaPipeline ---------------------------
(***************************************************************************)
(* Queues of one video and two audio packets, and two frames each.  The    *)
(* films: sound and pictures interleaved; so much sound first that the     *)
(* audio queue is full before there are timecodes; silent and longer than  *)
(* the queues; silent and looping.                                         *)
(***************************************************************************)
EXTENDS MediaPipeline

Film(packets, audio, loop) == [packets |-> packets, audio |-> audio, loop |-> loop]
MCFilms == {Film(<<"v", "a", "v", "a">>, TRUE, FALSE),
            Film(<<"a", "a", "a", "v">>, TRUE, FALSE),
            Film(<<"v", "x", "v", "v", "v">>, FALSE, FALSE),
            Film(<<"v", "v">>, FALSE, TRUE),
            Film(<<>>, FALSE, FALSE)}
MCPacketCap == [s \in Stream |-> IF s = "v" THEN 1 ELSE 2]
MCFrameCap == [s \in Stream |-> 2]
=============================================================================
