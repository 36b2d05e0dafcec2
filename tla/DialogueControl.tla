--------------------------- MODULE DialogueControl ---------------------------
(***************************************************************************)
(* Who runs next: the script or a dialogue.  ONScripter::executeLabel runs *)
(* frames, then an event callback, then the dialogue's events              *)
(* (DialogueController), then a script command, in that order of           *)
(* preference.  A command inside a dialogue's text runs on a copy of the   *)
(* script's state, call stack included; while such a command waits, its    *)
(* state is put aside and the script's own is back in use ("loan").        *)
(*                                                                         *)
(* A call stack is a sequence of frames, the last one the current          *)
(* subroutine.  The script defines textgosub and no pretextgosub, and      *)
(* starts a dialogue only when the one before it has ended.                *)
(***************************************************************************)
EXTENDS Integers, Sequences, SequencesExt

CONSTANTS
    Dialogues,                \* texts: sequences of parts
    CallbackUninterruptible,  \* event_callback_label is uninterruptible
    MaxCommands               \* bound: commands the script and player issue

Part == {"text", "builtin", "wait", "user", "click", "star", "hash"}

ASSUME ConstantsAssumption ==
    /\ Dialogues \subseteq Seq(Part)
    /\ CallbackUninterruptible \in BOOLEAN
    /\ MaxCommands \in Nat

VARIABLES
    pc,           \* "loop": executeLabel; "events": processDialogueEvents
    stack,        \* ons.callStack
    aside,        \* scriptState.state: the call stack not in use
    using,        \* scriptState.swaps: none (0), dialogue (odd), main (even)
    flag,         \* callStackHasUninterruptible
    active,       \* dialogueProcessingState.active and readyToRun
    text,         \* the parts from currentTextPos on
    d2,           \* continueScriptExecution
    shown,        \* a segment is fading in, its monitor has not reported
    executing,    \* executingDialogueInlineCommand
    varQueue,     \* inVariableQueueSubroutine
    loan,         \* loanExecutionActive
    events,       \* the dialogue controller's events
    passes,       \* suspendDialoguePasses
    scriptPasses, \* suspendScriptPasses of the end (-1) and of [#] (0)
    inlineWaits,  \* registered actions created by a dialogue's command
    mainWaits,    \* registered actions created by the script
    callback,     \* eventCallbackRequired
    commands,     \* commands issued
    fatal         \* what ended the program: a check of ScriptState, or "plain"

scriptVars == <<stack, aside, using, flag, varQueue>>
textVars == <<active, text, d2, passes, scriptPasses>>
controlVars == <<pc, executing, loan, events>>
waitVars == <<shown, inlineWaits, mainWaits>>
inputVars == <<callback, commands, fatal>>
vars == <<scriptVars, textVars, controlVars, waitVars, inputVars>>

Index == {-1, 0}
Frame == [uninterruptible : BOOLEAN, eventOnReturn : BOOLEAN]
Event == {"first", "part", "loanStart", "loanEnd", "inlineEnd"}
NoState == <<>>
NoPasses == [i \in Index |-> 0]

TypeOK ==
    /\ pc \in {"loop", "events"}
    /\ stack \in Seq(Frame) /\ aside \in Seq(Frame)
    /\ using \in {"none", "dialogue", "main"}
    /\ flag \in BOOLEAN /\ active \in BOOLEAN /\ d2 \in BOOLEAN
    /\ text \in Seq(Part)
    /\ shown \in BOOLEAN /\ executing \in BOOLEAN
    /\ varQueue \in BOOLEAN /\ loan \in BOOLEAN
    /\ events \in Seq(Event)
    /\ passes \in Int /\ scriptPasses \in [Index -> Int]
    /\ inlineWaits \in Nat /\ mainWaits \in Nat
    /\ callback \in BOOLEAN /\ commands \in Nat
    /\ fatal \in {"none", "early", "loan", "unloan", "part", "inlineEnd", "plain"}

Init ==
    /\ pc = "loop"
    /\ stack = <<>> /\ aside = NoState /\ using = "none" /\ flag = FALSE
    /\ active = FALSE /\ text = <<>> /\ d2 = FALSE
    /\ shown = FALSE /\ executing = FALSE /\ varQueue = FALSE /\ loan = FALSE
    /\ events = <<>>
    /\ passes = 0 /\ scriptPasses = NoPasses
    /\ inlineWaits = 0 /\ mainWaits = 0
    /\ callback = FALSE /\ commands = 0 /\ fatal = "none"

HasUninterruptible(s) == \E i \in DOMAIN s : s[i].uninterruptible

-----------------------------------------------------------------------------
(* ScriptState: useDialogue, useMainScript, disposeDialogue.               *)

\* Into the dialogue's state: a copy of the script's the first time.
UseDialogue ==
    /\ using' = "dialogue"
    /\ aside' = stack
    /\ stack' = IF using = "none" THEN stack ELSE aside

UseMainScript ==
    /\ using' = "main"
    /\ stack' = aside /\ aside' = stack

DisposeDialogue ==
    /\ using' = "none" /\ aside' = NoState
    /\ stack' = IF using = "dialogue" THEN aside ELSE stack

\* useDialogue and at once disposeDialogue.
VisitDialogue ==
    using' = "none" /\ aside' = NoState /\ stack' = stack

\* errorAndExit: nothing else happens.
Exit(check) ==
    /\ fatal' = check
    /\ UNCHANGED <<scriptVars, textVars, controlVars, waitVars, callback, commands>>

Running == fatal = "none"

-----------------------------------------------------------------------------
(* One turn of executeLabel.                                               *)

CallbackDue == callback /\ ~varQueue /\ ~flag
WantsControl == active /\ events # <<>>

\* FAULTY: an inline command's wait holds the script back too.
PermittedIgnoringLoan ==
    ~active /\ mainWaits = 0 /\ inlineWaits = 0

ScriptExecutionPermitted ==
    \/ flag
    \/ executing /\ ~loan
    \/ /\ active => d2 /\ \A i \in Index : scriptPasses[i] > -1
       /\ mainWaits = 0

\* gosubReal; uninterruptible is a property of the label.
Gosub(s, uninterruptible, eventOnReturn) ==
    Append(s, [uninterruptible |-> uninterruptible, eventOnReturn |-> eventOnReturn])

Turn == Running /\ pc = "loop"

EventCallback ==
    /\ Turn /\ CallbackDue
    /\ stack' = Gosub(stack, CallbackUninterruptible, FALSE)
    /\ flag' = CallbackUninterruptible
    /\ callback' = FALSE
    /\ UNCHANGED <<aside, using, varQueue, textVars, controlVars, waitVars, commands, fatal>>

\* FAULTY: the dialogue does not ask whether the code may be interrupted.
TakeControlAnyway ==
    /\ Turn /\ ~CallbackDue /\ WantsControl
    /\ pc' = "events"
    /\ UNCHANGED <<scriptVars, textVars, executing, loan, events, waitVars, inputVars>>

TakeControl ==
    /\ Turn /\ ~CallbackDue /\ WantsControl /\ ~flag
    /\ pc' = "events"
    /\ UNCHANGED <<scriptVars, textVars, executing, loan, events, waitVars, inputVars>>

\* It is the script's turn, and it has a command left.
ScriptTurn ==
    /\ Turn /\ ~CallbackDue /\ ~(WantsControl /\ ~flag)
    /\ ScriptExecutionPermitted

Command ==
    /\ ScriptTurn
    /\ commands < MaxCommands /\ commands' = commands + 1
    /\ UNCHANGED <<callback, fatal>>

-----------------------------------------------------------------------------
(* Commands of the script, or of a subroutine that a dialogue called.      *)

\* d and d2
StartDialogue(t) ==
    /\ Command /\ ~active /\ using = "none"
    /\ active' = TRUE /\ text' = t /\ d2' \in BOOLEAN
    /\ events' = Append(events, "first")
    /\ UNCHANGED <<scriptVars, passes, scriptPasses, pc, executing, loan, waitVars>>

\* A wait with a positive count.  initialize() takes the action for the
\* dialogue's whenever an inline command is under way.  A script does not
\* wait in uninterruptible code, which no wait holds back.
StartWait ==
    /\ Command /\ ~HasUninterruptible(stack)
    /\ IF executing
         THEN /\ inlineWaits' = inlineWaits + 1
              /\ events' = Append(events, "loanStart")
              /\ UNCHANGED mainWaits
         ELSE /\ mainWaits' = mainWaits + 1
              /\ UNCHANGED <<inlineWaits, events>>
    /\ UNCHANGED <<scriptVars, textVars, pc, executing, loan, shown>>

GosubCommand(uninterruptible) ==
    /\ Command
    /\ stack' = Gosub(stack, uninterruptible, FALSE)
    /\ flag' = (flag \/ uninterruptible)
    /\ UNCHANGED <<aside, using, varQueue, textVars, controlVars, waitVars>>

\* FAULTY: the end of an inline command is not reported.
ReturnSilently ==
    /\ ScriptTurn /\ stack # <<>>
    /\ stack' = Front(stack)
    /\ flag' = HasUninterruptible(stack')
    /\ UNCHANGED <<aside, using, varQueue, textVars, controlVars, waitVars, inputVars>>

ReturnCommand ==
    /\ ScriptTurn /\ stack # <<>>
    /\ events' = IF Last(stack).eventOnReturn THEN Append(events, "inlineEnd") ELSE events
    /\ stack' = Front(stack)
    /\ flag' = HasUninterruptible(stack')
    /\ UNCHANGED <<aside, using, varQueue, textVars, pc, executing, loan, waitVars, inputVars>>

GetparamCommand ==
    /\ Command /\ varQueue /\ stack # <<>>
    /\ varQueue' = FALSE
    /\ UNCHANGED <<stack, aside, using, flag, textVars, controlVars, waitVars>>

\* mgoto, which a script uses outside a dialogue's commands.  The flag stays.
MainGotoCommand ==
    /\ Command /\ using # "dialogue" /\ stack # <<>>
    /\ stack' = <<>>
    /\ UNCHANGED <<aside, using, flag, varQueue, textVars, controlVars, waitVars>>

\* FAULTY: wakes the dialogue even if it is not at a [*].
ContinueRegardless ==
    /\ Command /\ active
    /\ events' = Append(events, "part")
    /\ passes' = passes + 1
    /\ UNCHANGED <<scriptVars, active, text, d2, scriptPasses, pc, executing, loan, waitVars>>

\* d_continue
DialogueContinueCommand ==
    /\ Command /\ active
    /\ events' = IF passes < 0 THEN Append(events, "part") ELSE events
    /\ passes' = passes + 1
    /\ UNCHANGED <<scriptVars, active, text, d2, scriptPasses, pc, executing, loan, waitVars>>

\* wait_on_d
WaitOnDialogueCommand(index) ==
    /\ Command /\ active
    /\ scriptPasses' = [scriptPasses EXCEPT ![index] = @ - 1]
    /\ UNCHANGED <<scriptVars, active, text, d2, passes, controlVars, waitVars>>

ScriptStep ==
    \/ \E t \in Dialogues : StartDialogue(t)
    \/ StartWait
    \/ \E u \in BOOLEAN : GosubCommand(u)
    \/ ReturnCommand
    \/ GetparamCommand
    \/ MainGotoCommand
    \/ DialogueContinueCommand
    \/ \E i \in Index : WaitOnDialogueCommand(i)

-----------------------------------------------------------------------------
(* processDialogueEvents: handles events until there are none.             *)

\* The event at the front is handled and popped; more may follow it.
Handle(more) ==
    /\ events' = Tail(events) \o more
    /\ pc' = IF events' = <<>> THEN "loop" ELSE "events"

Processing(kinds) ==
    Running /\ pc = "events" /\ Head(events) \in kinds

AtPart(p) ==
    /\ Processing({"first", "part"}) /\ active
    /\ text # <<>> /\ Head(text) = p

\* The next part is a p.
NextPart(p) ==
    /\ AtPart(p)
    /\ text' = Tail(text)
    /\ UNCHANGED <<active, d2, commands, callback>>

\* The next part is a command, for which useDialogue must find the
\* dialogue's state not yet in use.
NextCommand(p, run) ==
    /\ AtPart(p)
    /\ IF using = "dialogue" THEN Exit("part") ELSE NextPart(p) /\ run

\* displayDialogue: in skip mode the next part follows at once.
ShowText(skip) ==
    /\ NextPart("text")
    /\ shown' = ~skip
    /\ Handle(IF skip THEN <<"part">> ELSE <<>>)
    /\ UNCHANGED <<scriptVars, passes, scriptPasses, executing, loan, inlineWaits, mainWaits, fatal>>

\* A built-in command that does not wait.
RunBuiltin ==
    NextCommand("builtin",
        /\ VisitDialogue
        /\ executing' = FALSE
        /\ Handle(<<"part">>)
        /\ UNCHANGED <<flag, varQueue, passes, scriptPasses, loan, waitVars, fatal>>)

\* A built-in command that waits: [!w], [|] or waitvoice.  waitForAction
\* returns to the script's state at once.
RunBuiltinWait ==
    NextCommand("wait",
        /\ inlineWaits' = inlineWaits + 1
        /\ using' = "main" /\ UNCHANGED stack
        /\ aside' = IF using = "none" THEN stack ELSE aside
        /\ executing' = FALSE
        /\ Handle(<<>>)
        /\ UNCHANGED <<flag, varQueue, passes, scriptPasses, loan, shown, mainWaits, fatal>>)

\* FAULTY: the command runs on the script's own call stack.
CallOnMainStack(part, u) ==
    NextCommand(part,
        /\ using' = "dialogue" /\ aside' = Gosub(stack, u, TRUE)
        /\ stack' = Gosub(stack, u, TRUE)
        /\ flag' = (flag \/ u) /\ executing' = TRUE
        /\ varQueue' = (varQueue \/ part = "user")
        /\ Handle(<<>>)
        /\ UNCHANGED <<passes, scriptPasses, loan, waitVars, fatal>>)

\* A command the script defines, or textgosub at a [@] or [\].
CallSubroutine(part, u) ==
    NextCommand(part,
        /\ using' = "dialogue" /\ aside' = stack
        /\ stack' = Gosub(IF using = "none" THEN stack ELSE aside, u, TRUE)
        /\ flag' = (flag \/ u) /\ executing' = TRUE
        /\ varQueue' = (varQueue \/ part = "user")
        /\ Handle(<<>>)
        /\ UNCHANGED <<passes, scriptPasses, loan, waitVars, fatal>>)

\* A part at which dialogue and script meet, an error in a plain d.
NextMeeting(p, run) ==
    /\ AtPart(p)
    /\ IF d2 THEN NextPart(p) /\ run ELSE Exit("plain")

\* [*]: the script must have said d_continue.
PassStar ==
    NextMeeting("star",
        /\ passes' = passes - 1
        /\ Handle(IF passes > 0 THEN <<"part">> ELSE <<>>)
        /\ UNCHANGED <<scriptVars, scriptPasses, executing, loan, waitVars, fatal>>)

\* [#]: lets a wait_on_d of its number through.
PassHash ==
    NextMeeting("hash",
        /\ scriptPasses' = [scriptPasses EXCEPT ![0] = @ + 1]
        /\ Handle(<<"part">>)
        /\ UNCHANGED <<scriptVars, passes, executing, loan, waitVars, fatal>>)

\* The end of the text: setDialogueActive(false).  Its disposeDialogue is
\* forced, and leaves the events and the loan as they are.  A part that is
\* due after the end is nothing.
EndText ==
    /\ Processing({"first", "part"}) /\ text = <<>>
    /\ Handle(<<>>)
    /\ UNCHANGED <<flag, varQueue, text, loan, inlineWaits, mainWaits, inputVars>>
    /\ IF active
         THEN /\ active' = FALSE /\ d2' = FALSE /\ executing' = FALSE /\ shown' = FALSE
              /\ passes' = 0 /\ scriptPasses' = NoPasses
              /\ DisposeDialogue
         ELSE UNCHANGED <<active, d2, executing, shown, passes, scriptPasses,
                          stack, aside, using>>

StartLoanExecution ==
    /\ Processing({"loanStart"})
    /\ IF using # "dialogue"
         THEN Exit("loan")
         ELSE /\ loan' = TRUE
              /\ UseMainScript
              /\ Handle(<<>>)
              /\ UNCHANGED <<flag, varQueue, textVars, executing, waitVars, inputVars>>

EndLoanExecution ==
    /\ Processing({"loanEnd"})
    /\ IF using = "dialogue"
         THEN Exit("unloan")
         ELSE /\ loan' = FALSE
              /\ UseDialogue
              /\ Handle(<<>>)
              /\ UNCHANGED <<flag, varQueue, textVars, executing, waitVars, inputVars>>

\* FAULTY: the dialogue's state is kept.
EndInlineUndisposed ==
    /\ Processing({"inlineEnd"})
    /\ IF using # "dialogue"
         THEN Exit("inlineEnd")
         ELSE /\ executing' = FALSE /\ varQueue' = FALSE
              /\ Handle(<<"part">>)
              /\ UNCHANGED <<stack, aside, using, flag, textVars, loan, waitVars, inputVars>>

EndInlineCommand ==
    /\ Processing({"inlineEnd"})
    /\ IF using # "dialogue"
         THEN Exit("inlineEnd")
         ELSE /\ executing' = FALSE /\ varQueue' = FALSE
              /\ DisposeDialogue
              /\ Handle(<<"part">>)
              /\ UNCHANGED <<flag, textVars, loan, waitVars, inputVars>>

DialogueStep ==
    \/ \E skip \in BOOLEAN : ShowText(skip)
    \/ RunBuiltin
    \/ RunBuiltinWait
    \/ \E p \in {"user", "click"}, u \in BOOLEAN : CallSubroutine(p, u)
    \/ PassStar
    \/ PassHash
    \/ EndText
    \/ StartLoanExecution
    \/ EndLoanExecution
    \/ EndInlineCommand

-----------------------------------------------------------------------------
(* A frame, which waitEvent may run before every turn.                     *)

\* TextRenderingMonitorAction::run: the segment has begun to fade in.
TextShown ==
    /\ Turn /\ shown
    /\ shown' = FALSE
    /\ events' = Append(events, "part")
    /\ UNCHANGED <<scriptVars, textVars, pc, executing, loan, inlineWaits, mainWaits, inputVars>>

\* onExpired of an action that suspends the dialogue.
ExpireInlineWait ==
    /\ Turn /\ inlineWaits > 0
    /\ IF loan
         THEN /\ inlineWaits' = inlineWaits - 1
              /\ events' = Append(events, "loanEnd")
              /\ UNCHANGED <<scriptVars, textVars, pc, executing, loan, shown, mainWaits, inputVars>>
       ELSE IF using = "dialogue"
         THEN Exit("early")
         ELSE /\ inlineWaits' = inlineWaits - 1
              /\ VisitDialogue
              /\ events' = Append(events, "part")
              /\ UNCHANGED <<flag, varQueue, textVars, pc, executing, loan, shown, mainWaits, inputVars>>

\* FAULTY: counts a wait down again after it has gone.
ExpireMainWaitTwice ==
    /\ Turn
    /\ mainWaits' = mainWaits - 1
    /\ UNCHANGED <<scriptVars, textVars, controlVars, shown, inlineWaits, inputVars>>

\* onExpired of an action that suspends the script.
ExpireMainWait ==
    /\ Turn /\ mainWaits > 0
    /\ mainWaits' = mainWaits - 1
    /\ UNCHANGED <<scriptVars, textVars, controlVars, shown, inlineWaits, inputVars>>

\* A click or a key that leaves automode or skip mode.
Input ==
    /\ Turn /\ ~callback
    /\ commands < MaxCommands /\ commands' = commands + 1
    /\ callback' = TRUE
    /\ UNCHANGED <<scriptVars, textVars, controlVars, waitVars, fatal>>

FrameStep == TextShown \/ ExpireInlineWait \/ ExpireMainWait \/ Input

Next == EventCallback \/ TakeControl \/ ScriptStep \/ DialogueStep \/ FrameStep

Spec == Init /\ [][Next]_vars

\* The loop goes on, time passes, and the script's subroutines return.
FairSpec ==
    /\ Spec
    /\ WF_vars(EventCallback) /\ WF_vars(TakeControl) /\ WF_vars(DialogueStep)
    /\ WF_vars(TextShown) /\ WF_vars(ExpireInlineWait) /\ WF_vars(ExpireMainWait)
    /\ WF_vars(ReturnCommand)

-----------------------------------------------------------------------------
(* Properties.                                                             *)

AtStar == passes < 0

\* The call stack of the inline command that has not ended.
DialogueStack == IF using = "dialogue" THEN stack ELSE aside

\* An inline command's subroutine will report its end, or has done so.
WillReport ==
    \/ \E i \in DOMAIN DialogueStack : DialogueStack[i].eventOnReturn
    \/ \E i \in DOMAIN events : events[i] = "inlineEnd"

\* What will bring the dialogue's next part: an event, a segment that is
\* fading in, a wait, a subroutine, or the d_continue a [*] waits for.
Drivers ==
    {<<"event", i>> : i \in {n \in DOMAIN events : events[n] \in {"first", "part"}}}
      \cup {<<"segment", i>> : i \in {n \in {0} : shown}}
      \cup {<<"subroutine", i>> : i \in {n \in {0} : executing /\ WillReport}}
      \cup {<<"wait", i>> : i \in {n \in 1..inlineWaits : ~executing}}
      \cup {<<"star", i>> : i \in {n \in {0} : AtStar}}

\* A dialogue that has not ended is never lost: the next part is on its way
\* whatever the script does meanwhile (processDialogue posts an event only
\* for parts that do not leave it to something else).
DialogueDriven == Running /\ active /\ pc = "loop" => Drivers # {}

\* Nor does it get ahead of itself: it never starts a part while another
\* has still to report, so no text is replaced before it was shown and no
\* command of the text runs while the one before it waits.
OnePartAtATime == Running /\ pc = "loop" => \A d, e \in Drivers : d = e

\* "safe helper functions so that our intent is extremely clear and we can't
\* screw up" (Dialogue.hpp:300): the checks in useDialogue, useMainScript
\* and disposeDialogue, which end the program, never fire.  A script that
\* asks for [*] or [#] in a plain d is ended for an error of its own.
NeverWonky == fatal \in {"none", "plain"}

\* These checks fire for two reasons only: an inline command's wait ends before its
\* loan has started, or the script waits while the loan is on.  Parts of the
\* text and the ends of inline commands and loans always find the state
\* they expect.
OnlyKnownFatal == fatal \in {"none", "plain", "early", "loan"}

MainStack == IF using = "dialogue" THEN aside ELSE stack

\* A dialogue's commands work on a copy of the call stack: nothing that they
\* or the controller do, in whatever order loans start and end, changes the
\* one to which the script returns.
MainStackKept ==
    [][using = "dialogue" \/ pc = "events" => MainStack' = MainStack]_vars

\* While an uninterruptible label is on the call stack neither an event
\* callback is called nor a dialogue event handled, whichever stack the
\* label was called on.
UninterruptibleHonoured ==
    [][HasUninterruptible(stack) =>
        pc = "loop" /\ pc' = "loop" /\ (callback => callback')]_vars

\* mgoto empties the stack and leaves the flag.
StaleFlag == flag /\ ~HasUninterruptible(stack)

\* An inline command ends, its waits and loans included, if its subroutines
\* return: the script's and the dialogue's turns never wait for each other.
\* Excepted are a program that has ended and the stale flag, which keeps the
\* dialogue from its turn until some subroutine returns.
InlineReturns == executing ~> ~executing \/ ~Running \/ StaleFlag
=============================================================================
