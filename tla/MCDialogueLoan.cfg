CONSTANTS
    Dialogues <- MCDialogues
    CallbackUninterruptible = TRUE
    MaxCommands = 5
SPECIFICATION Spec
INVARIANT
    NeverWonky
CHECK_DEADLOCK FALSE
