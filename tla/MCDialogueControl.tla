-------------------------- MODULE MCDialogueControl --------------------------
(***************************************************************************)
(* Dialogues for TLC: a command the script defines between two texts, a    *)
(* built-in wait and a click, a text that meets the script at [#] and [*], *)
(* and commands that follow each other with no text between.               *)
(***************************************************************************)
EXTENDS DialogueControl

MCDialogues == {<<"text", "user", "text">>, <<"wait", "click">>,
                <<"builtin", "hash", "star", "text">>, <<"user", "wait">>}
=============================================================================
