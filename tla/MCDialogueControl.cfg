CONSTANTS
    Dialogues <- MCDialogues
    CallbackUninterruptible = TRUE
    MaxCommands = 5
SPECIFICATION FairSpec
INVARIANTS
    TypeOK
    DialogueDriven
    OnePartAtATime
    OnlyKnownFatal
PROPERTIES
    MainStackKept
    UninterruptibleHonoured
    InlineReturns
CHECK_DEADLOCK FALSE
