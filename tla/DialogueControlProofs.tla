------------------------ MODULE DialogueControlProofs ------------------------
(***************************************************************************)
(* For any dialogues, commands and inputs: the variables keep their types, *)
(* and a dialogue's commands leave the script's call stack alone.  The     *)
(* second needs no invariant: each swap of the two states either brings    *)
(* the script's stack back or puts it aside, and whoever moves while it is *)
(* aside touches only the other one.                                       *)
(*                                                                         *)
(* What drives a dialogue that is shown, what ends the program and what an *)
(* uninterruptible section is spared follow from one invariant, DInv: who  *)
(* reports to whom, how the mode fits the actions that are running, and    *)
(* which commands may be interrupted.                                      *)
(***************************************************************************)
EXTENDS DialogueControl, TLAPS

\* The stacks, of which the script's is the one MainStack names.
Kept == using = "dialogue" \/ pc = "events" => MainStack' = MainStack

\* A script command, a frame and a callback move only the stack in use.
LEMMA LoopKeeps ==
    ASSUME pc = "loop", UNCHANGED <<aside, using>>
    PROVE  Kept
BY DEF Kept, MainStack

LEMMA ScriptStepKeeps == ScriptStep => Kept
<1>1. ASSUME NEW t \in Dialogues, StartDialogue(t) PROVE Kept
  BY <1>1, LoopKeeps DEF StartDialogue, Command, ScriptTurn, Turn, scriptVars
<1>2. ASSUME StartWait PROVE Kept
  BY <1>2, LoopKeeps DEF StartWait, Command, ScriptTurn, Turn, scriptVars
<1>3. ASSUME NEW u \in BOOLEAN, GosubCommand(u) PROVE Kept
  BY <1>3, LoopKeeps DEF GosubCommand, Command, ScriptTurn, Turn
<1>4. ASSUME ReturnCommand PROVE Kept
  BY <1>4, LoopKeeps DEF ReturnCommand, ScriptTurn, Turn
<1>5. ASSUME GetparamCommand PROVE Kept
  BY <1>5, LoopKeeps DEF GetparamCommand, Command, ScriptTurn, Turn
<1>6. ASSUME MainGotoCommand PROVE Kept
  BY <1>6, LoopKeeps DEF MainGotoCommand, Command, ScriptTurn, Turn
<1>7. ASSUME DialogueContinueCommand PROVE Kept
  BY <1>7, LoopKeeps DEF DialogueContinueCommand, Command, ScriptTurn, Turn, scriptVars
<1>8. ASSUME NEW i \in Index, WaitOnDialogueCommand(i) PROVE Kept
  BY <1>8, LoopKeeps DEF WaitOnDialogueCommand, Command, ScriptTurn, Turn, scriptVars
<1> QED
  BY <1>1, <1>2, <1>3, <1>4, <1>5, <1>6, <1>7, <1>8 DEF ScriptStep

\* The four uses of ScriptState, and a program that ends.
LEMMA SwapsKeep ==
    /\ using # "dialogue" /\ UseDialogue => MainStack' = MainStack
    /\ using = "dialogue" /\ UseMainScript => MainStack' = MainStack
    /\ DisposeDialogue => MainStack' = MainStack
    /\ using # "dialogue" /\ VisitDialogue => MainStack' = MainStack
    /\ \A check : Exit(check) => MainStack' = MainStack
BY DEF UseDialogue, UseMainScript, DisposeDialogue, VisitDialogue, Exit, MainStack, scriptVars

LEMMA DialogueStepKeeps == DialogueStep => MainStack' = MainStack
<1>1. ASSUME NEW skip \in BOOLEAN, ShowText(skip) PROVE MainStack' = MainStack
  BY <1>1 DEF ShowText, MainStack, scriptVars
<1>2. ASSUME RunBuiltin PROVE MainStack' = MainStack
  BY <1>2, SwapsKeep DEF RunBuiltin, NextCommand
<1>3. ASSUME RunBuiltinWait PROVE MainStack' = MainStack
  BY <1>3, SwapsKeep DEF RunBuiltinWait, NextCommand, MainStack
<1>4. ASSUME NEW p \in {"user", "click"}, NEW u \in BOOLEAN, CallSubroutine(p, u)
      PROVE  MainStack' = MainStack
  BY <1>4, SwapsKeep DEF CallSubroutine, NextCommand, MainStack
<1>5. ASSUME PassStar PROVE MainStack' = MainStack
  BY <1>5, SwapsKeep DEF PassStar, NextMeeting, NextPart, MainStack, scriptVars
<1>6. ASSUME PassHash PROVE MainStack' = MainStack
  BY <1>6, SwapsKeep DEF PassHash, NextMeeting, NextPart, MainStack, scriptVars
<1>7. ASSUME EndText PROVE MainStack' = MainStack
  BY <1>7, SwapsKeep DEF EndText, MainStack
<1>8. ASSUME StartLoanExecution PROVE MainStack' = MainStack
  BY <1>8, SwapsKeep DEF StartLoanExecution
<1>9. ASSUME EndLoanExecution PROVE MainStack' = MainStack
  BY <1>9, SwapsKeep DEF EndLoanExecution
<1>10. ASSUME EndInlineCommand PROVE MainStack' = MainStack
  BY <1>10, SwapsKeep DEF EndInlineCommand
<1> QED
  BY <1>1, <1>2, <1>3, <1>4, <1>5, <1>6, <1>7, <1>8, <1>9, <1>10 DEF DialogueStep

LEMMA FrameStepKeeps == FrameStep => Kept
<1>1. ASSUME TextShown PROVE Kept
  BY <1>1, LoopKeeps DEF TextShown, Turn, scriptVars
<1>2. ASSUME ExpireInlineWait PROVE Kept
  <2>1. pc = "loop"
    BY <1>2 DEF ExpireInlineWait, Turn
  <2>2. CASE loan
    BY <1>2, <2>1, <2>2, LoopKeeps DEF ExpireInlineWait, scriptVars
  <2>3. CASE ~loan /\ using = "dialogue"
    BY <1>2, <2>1, <2>3, LoopKeeps DEF ExpireInlineWait, Exit, scriptVars
  <2>4. CASE ~loan /\ using # "dialogue"
    BY <2>1, <2>4 DEF Kept
  <2> QED
    BY <2>2, <2>3, <2>4
<1>3. ASSUME ExpireMainWait PROVE Kept
  BY <1>3, LoopKeeps DEF ExpireMainWait, Turn, scriptVars
<1>4. ASSUME Input PROVE Kept
  BY <1>4, LoopKeeps DEF Input, Turn, scriptVars
<1> QED
  BY <1>1, <1>2, <1>3, <1>4 DEF FrameStep

\* Nothing that a dialogue's commands or the controller do, in whatever
\* order loans start and end, changes the call stack to which the script
\* returns.
THEOREM MainStackKeptCorrect == Spec => MainStackKept
<1>1. ASSUME Next PROVE Kept
  <2>1. CASE EventCallback
    BY <2>1, LoopKeeps DEF EventCallback, Turn
  <2>2. CASE TakeControl
    BY <2>2, LoopKeeps DEF TakeControl, Turn, scriptVars
  <2>3. CASE ScriptStep
    BY <2>3, ScriptStepKeeps
  <2>4. CASE DialogueStep
    BY <2>4, DialogueStepKeeps DEF Kept
  <2>5. CASE FrameStep
    BY <2>5, FrameStepKeeps
  <2> QED
    BY <1>1, <2>1, <2>2, <2>3, <2>4, <2>5 DEF Next
<1>2. [Next]_vars => [using = "dialogue" \/ pc = "events" => MainStack' = MainStack]_vars
  BY <1>1 DEF Kept
<1> QED
  BY <1>2, PTL DEF Spec, MainStackKept
-----------------------------------------------------------------------------
\* Events are handled while there are any, so there is one at the front.
TypeInv == TypeOK /\ (pc = "events" => events # <<>>)

LEMMA ConstantFacts ==
    /\ CallbackUninterruptible \in BOOLEAN
    /\ \A t \in Dialogues : t \in Seq(Part)
    /\ <<>> \in Seq(Frame) /\ <<>> \in Seq(Part) /\ <<>> \in Seq(Event)
    /\ <<"part">> \in Seq(Event)
BY ConstantsAssumption DEF Event

LEMMA TypeInit == Init => TypeInv
<1> SUFFICES ASSUME Init PROVE TypeInv
  OBVIOUS
<1>1. /\ pc = "loop" /\ using = "none" /\ fatal = "none"
      /\ stack = <<>> /\ aside = <<>> /\ text = <<>> /\ events = <<>>
      /\ passes = 0 /\ inlineWaits = 0 /\ mainWaits = 0 /\ commands = 0
  BY DEF Init, NoState
<1>2. /\ flag \in BOOLEAN /\ active \in BOOLEAN /\ d2 \in BOOLEAN /\ shown \in BOOLEAN
      /\ executing \in BOOLEAN /\ varQueue \in BOOLEAN /\ loan \in BOOLEAN
      /\ callback \in BOOLEAN
  BY DEF Init
<1>3. scriptPasses \in [Index -> Int]
  BY DEF Init, NoPasses
<1> QED
  BY <1>1, <1>2, <1>3, ConstantFacts DEF TypeInv, TypeOK

LEMMA GosubType ==
    ASSUME NEW s \in Seq(Frame), NEW u \in BOOLEAN, NEW e \in BOOLEAN
    PROVE  Gosub(s, u, e) \in Seq(Frame)
BY DEF Gosub, Frame

LEMMA FrontType ==
    ASSUME NEW s \in Seq(Frame), s # <<>>
    PROVE  Front(s) \in Seq(Frame)
BY DEF Front

LEMMA HandleType ==
    ASSUME TypeInv, pc = "events", NEW more \in Seq(Event), Handle(more)
    PROVE  /\ events' \in Seq(Event)
           /\ pc' \in {"loop", "events"}
           /\ pc' = "events" => events' # <<>>
<1>1. Tail(events) \in Seq(Event)
  BY DEF TypeInv, TypeOK
<1> QED
  BY <1>1 DEF Handle

LEMMA ExitType ==
    ASSUME TypeInv, NEW check, Exit(check),
           check \in {"early", "loan", "unloan", "part", "inlineEnd", "plain"}
    PROVE  TypeInv'
BY DEF Exit, TypeInv, TypeOK, scriptVars, textVars, controlVars, waitVars

\* What is left to show of a step of the loop.
LEMMA LoopType ==
    ASSUME TypeInv, pc = "loop" /\ pc' = "loop",
           events' \in Seq(Event) /\ inlineWaits' \in Nat /\ mainWaits' \in Nat,
           using' \in {"none", "dialogue", "main"},
           stack' \in Seq(Frame) /\ aside' \in Seq(Frame), commands' \in Nat,
           UNCHANGED <<flag, varQueue, textVars, executing, loan, callback, fatal>>,
           shown' \in BOOLEAN
    PROVE  TypeInv'
BY DEF TypeInv, TypeOK, textVars

LEMMA ScriptStepType == TypeInv /\ ScriptStep => TypeInv'
<1> SUFFICES ASSUME TypeInv, ScriptStep PROVE TypeInv'
  OBVIOUS
<1> USE DEF TypeInv, TypeOK
<1>1. ASSUME NEW t \in Dialogues, StartDialogue(t) PROVE TypeInv'
  <2>1. t \in Seq(Part) /\ events' \in Seq(Event)
    BY <1>1, ConstantFacts DEF StartDialogue, Event
  <2> QED
    BY <1>1, <2>1 DEF StartDialogue, Command, ScriptTurn, Turn, scriptVars, waitVars
<1>2. ASSUME StartWait PROVE TypeInv'
  <2>0. events' = events \/ events' = Append(events, "loanStart")
    BY <1>2 DEF StartWait
  <2>1. events' \in Seq(Event)
    <3>1. Append(events, "loanStart") \in Seq(Event)
      BY DEF Event
    <3> QED
      BY <2>0, <3>1
  <2>2. inlineWaits' \in Nat /\ mainWaits' \in Nat
    BY <1>2 DEF StartWait
  <2>3. /\ pc = "loop" /\ commands' \in Nat
        /\ UNCHANGED <<scriptVars, textVars, pc, executing, loan, shown, callback, fatal>>
    BY <1>2 DEF StartWait, Command, ScriptTurn, Turn
  <2> QED
    BY <2>1, <2>2, <2>3, LoopType DEF scriptVars
<1>3. ASSUME NEW u \in BOOLEAN, GosubCommand(u) PROVE TypeInv'
  <2>1. stack' \in Seq(Frame) /\ flag' \in BOOLEAN
    BY <1>3, GosubType DEF GosubCommand
  <2>2. /\ pc = "loop" /\ commands' \in Nat
        /\ UNCHANGED <<aside, using, varQueue, textVars, controlVars, waitVars, callback, fatal>>
    BY <1>3 DEF GosubCommand, Command, ScriptTurn, Turn
  <2> QED
    BY <2>1, <2>2 DEF textVars, controlVars, waitVars
<1>4. ASSUME ReturnCommand PROVE TypeInv'
  <2>1. stack' \in Seq(Frame)
    BY <1>4, FrontType DEF ReturnCommand
  <2>2. flag' \in BOOLEAN
    BY <1>4 DEF ReturnCommand, HasUninterruptible
  <2>3. events' \in Seq(Event)
    BY <1>4 DEF ReturnCommand, Event
  <2> QED
    BY <1>4, <2>1, <2>2, <2>3 DEF ReturnCommand, ScriptTurn, Turn, textVars, waitVars, inputVars
<1>5. ASSUME GetparamCommand PROVE TypeInv'
  <2>1. /\ pc = "loop" /\ commands' \in Nat /\ varQueue' = FALSE
        /\ UNCHANGED <<stack, aside, using, flag, textVars, controlVars, waitVars, callback, fatal>>
    BY <1>5 DEF GetparamCommand, Command, ScriptTurn, Turn
  <2> QED
    BY ZenonT(30), <2>1 DEF textVars, controlVars, waitVars
<1>6. ASSUME MainGotoCommand PROVE TypeInv'
  BY <1>6, ConstantFacts DEF MainGotoCommand, Command, ScriptTurn, Turn, textVars, controlVars, waitVars
<1>7. ASSUME DialogueContinueCommand PROVE TypeInv'
  <2>1. events' \in Seq(Event)
    BY <1>7 DEF DialogueContinueCommand, Event
  <2> QED
    BY <1>7, <2>1 DEF DialogueContinueCommand, Command, ScriptTurn, Turn, scriptVars, waitVars
<1>8. ASSUME NEW i \in Index, WaitOnDialogueCommand(i) PROVE TypeInv'
  BY <1>8 DEF WaitOnDialogueCommand, Command, ScriptTurn, Turn, scriptVars, controlVars, waitVars
<1> QED
  BY <1>1, <1>2, <1>3, <1>4, <1>5, <1>6, <1>7, <1>8 DEF ScriptStep

LEMMA NextPartType ==
    ASSUME TypeInv, NEW p, NextPart(p)
    PROVE  /\ pc = "events" /\ text' \in Seq(Part)
           /\ UNCHANGED <<active, d2, commands, callback>>
<1>1. pc = "events" /\ text # <<>> /\ text' = Tail(text)
      /\ UNCHANGED <<active, d2, commands, callback>>
  BY DEF NextPart, AtPart, Processing
<1>2. text \in Seq(Part)
  BY DEF TypeInv, TypeOK
<1> QED
  BY <1>1, <1>2

\* What is left to show of a step of the controller.
LEMMA RestType ==
    ASSUME TypeInv,
           pc' \in {"loop", "events"} /\ events' \in Seq(Event),
           pc' = "events" => events' # <<>>,
           text' \in Seq(Part) /\ stack' \in Seq(Frame) /\ aside' \in Seq(Frame),
           using' \in {"none", "dialogue", "main"},
           flag' \in BOOLEAN /\ active' \in BOOLEAN /\ d2' \in BOOLEAN,
           shown' \in BOOLEAN /\ executing' \in BOOLEAN,
           varQueue' \in BOOLEAN /\ loan' \in BOOLEAN,
           passes' \in Int /\ scriptPasses' \in [Index -> Int],
           inlineWaits' \in Nat,
           UNCHANGED <<mainWaits, callback, commands, fatal>>
    PROVE  TypeInv'
BY DEF TypeInv, TypeOK

LEMMA DialogueStepType == TypeInv /\ DialogueStep => TypeInv'
<1> SUFFICES ASSUME TypeInv, DialogueStep PROVE TypeInv'
  OBVIOUS
<1> DEFINE Handled ==
      /\ events' \in Seq(Event) /\ pc' \in {"loop", "events"}
      /\ pc' = "events" => events' # <<>>
<1>0. TypeOK
  BY DEF TypeInv
<1>1. ASSUME NEW skip \in BOOLEAN, ShowText(skip) PROVE TypeInv'
  <2>1. /\ pc = "events" /\ text' \in Seq(Part)
        /\ UNCHANGED <<active, d2, commands, callback>>
    BY <1>1, NextPartType DEF ShowText
  <2>2. Handled
    BY <1>1, <2>1, HandleType, ConstantFacts DEF ShowText
  <2> QED
    BY <1>0, <1>1, <2>1, <2>2, RestType DEF ShowText, TypeOK, scriptVars
<1>2. ASSUME RunBuiltin PROVE TypeInv'
  <2>1. CASE using = "dialogue"
    BY <1>2, <2>1, ExitType DEF RunBuiltin, NextCommand
  <2>2. CASE using # "dialogue"
    <3>1. /\ NextPart("builtin") /\ Handle(<<"part">>) /\ VisitDialogue /\ executing' = FALSE
          /\ UNCHANGED <<flag, varQueue, passes, scriptPasses, loan, waitVars, fatal>>
      BY <1>2, <2>2 DEF RunBuiltin, NextCommand
    <3>2. /\ pc = "events" /\ text' \in Seq(Part)
          /\ UNCHANGED <<active, d2, commands, callback>>
      BY <3>1, NextPartType
    <3>3. Handled
      BY <3>1, <3>2, HandleType, ConstantFacts
    <3> QED
      BY <1>0, <3>1, <3>2, <3>3, RestType, ConstantFacts DEF VisitDialogue, NoState, TypeOK, waitVars
  <2> QED
    BY <2>1, <2>2
<1>3. ASSUME RunBuiltinWait PROVE TypeInv'
  <2>1. CASE using = "dialogue"
    BY <1>3, <2>1, ExitType DEF RunBuiltinWait, NextCommand
  <2>2. CASE using # "dialogue"
    <3>1. /\ NextPart("wait") /\ Handle(<<>>) /\ executing' = FALSE
          /\ inlineWaits' = inlineWaits + 1 /\ using' = "main" /\ stack' = stack
          /\ aside' = IF using = "none" THEN stack ELSE aside
          /\ UNCHANGED <<flag, varQueue, passes, scriptPasses, loan, shown, mainWaits, fatal>>
      BY <1>3, <2>2 DEF RunBuiltinWait, NextCommand
    <3>2. /\ pc = "events" /\ text' \in Seq(Part)
          /\ UNCHANGED <<active, d2, commands, callback>>
      BY <3>1, NextPartType
    <3>3. Handled
      BY <3>1, <3>2, HandleType, ConstantFacts
    <3>4. inlineWaits' \in Nat /\ using' \in {"none", "dialogue", "main"}
      BY <1>0, <3>1 DEF TypeOK
    <3>5. stack' \in Seq(Frame) /\ aside' \in Seq(Frame)
      BY <1>0, <3>1 DEF TypeOK
    <3> QED
      BY <1>0, <3>1, <3>2, <3>3, <3>4, <3>5, RestType DEF TypeOK
  <2> QED
    BY <2>1, <2>2
<1>4. ASSUME NEW p \in {"user", "click"}, NEW u \in BOOLEAN, CallSubroutine(p, u)
      PROVE  TypeInv'
  <2>1. CASE using = "dialogue"
    BY <1>4, <2>1, ExitType DEF CallSubroutine, NextCommand
  <2>2. CASE using # "dialogue"
    <3>1. /\ NextPart(p) /\ Handle(<<>>) /\ using' = "dialogue" /\ aside' = stack
          /\ stack' = Gosub(IF using = "none" THEN stack ELSE aside, u, TRUE)
          /\ flag' = (flag \/ u) /\ executing' = TRUE
          /\ varQueue' = (varQueue \/ p = "user")
          /\ UNCHANGED <<passes, scriptPasses, loan, waitVars, fatal>>
      BY <1>4, <2>2 DEF CallSubroutine, NextCommand
    <3>2. /\ pc = "events" /\ text' \in Seq(Part)
          /\ UNCHANGED <<active, d2, commands, callback>>
      BY <3>1, NextPartType
    <3>3. Handled
      BY <3>1, <3>2, HandleType, ConstantFacts
    <3>4. stack' \in Seq(Frame)
      <4>1. (IF using = "none" THEN stack ELSE aside) \in Seq(Frame)
        BY <1>0 DEF TypeOK
      <4> QED
        BY <3>1, <4>1, GosubType
    <3>5. flag' \in BOOLEAN /\ varQueue' \in BOOLEAN
      BY <3>1
    <3> QED
      BY <1>0, <3>1, <3>2, <3>3, <3>4, <3>5, RestType DEF TypeOK, waitVars
  <2> QED
    BY <2>1, <2>2
<1>5. ASSUME PassStar PROVE TypeInv'
  <2>0. CASE ~d2
    BY <1>5, <2>0, ExitType DEF PassStar, NextMeeting
  <2>a. CASE d2
    <3>1. /\ NextPart("star") /\ passes' = passes - 1
          /\ Handle(IF passes > 0 THEN <<"part">> ELSE <<>>)
          /\ UNCHANGED <<scriptVars, scriptPasses, executing, loan, waitVars, fatal>>
      BY <1>5, <2>a DEF PassStar, NextMeeting
    <3>2. /\ pc = "events" /\ text' \in Seq(Part)
          /\ UNCHANGED <<active, d2, commands, callback>>
      BY <3>1, NextPartType
    <3>3. Handled
      BY <3>1, <3>2, HandleType, ConstantFacts
    <3> QED
      BY <1>0, <3>1, <3>2, <3>3, RestType DEF TypeOK, scriptVars, waitVars
  <2> QED
    BY <2>0, <2>a
<1>6. ASSUME PassHash PROVE TypeInv'
  <2>0. CASE ~d2
    BY <1>6, <2>0, ExitType DEF PassHash, NextMeeting
  <2>a. CASE d2
    <3>1. /\ NextPart("hash") /\ Handle(<<"part">>)
          /\ scriptPasses' = [scriptPasses EXCEPT ![0] = @ + 1]
          /\ UNCHANGED <<scriptVars, passes, executing, loan, waitVars, fatal>>
      BY <1>6, <2>a DEF PassHash, NextMeeting
    <3>2. /\ pc = "events" /\ text' \in Seq(Part)
          /\ UNCHANGED <<active, d2, commands, callback>>
      BY <3>1, NextPartType
    <3>3. Handled
      BY <3>1, <3>2, HandleType, ConstantFacts
    <3>4. scriptPasses' \in [Index -> Int]
      BY <1>0, <3>1 DEF TypeOK, Index
    <3> QED
      BY <1>0, <3>1, <3>2, <3>3, <3>4, RestType DEF TypeOK, scriptVars, waitVars
  <2> QED
    BY <2>0, <2>a
<1>7. ASSUME EndText PROVE TypeInv'
  <2>1. Handled
    BY <1>7, HandleType, ConstantFacts DEF EndText, Processing
  <2>2. stack' \in Seq(Frame) /\ aside' \in Seq(Frame) /\ using' \in {"none", "dialogue", "main"}
    BY <1>0, <1>7, ConstantFacts DEF EndText, DisposeDialogue, NoState, TypeOK
  <2>3. passes' \in Int /\ scriptPasses' \in [Index -> Int]
    BY <1>0, <1>7 DEF EndText, NoPasses, TypeOK
  <2> QED
    BY <1>0, <1>7, <2>1, <2>2, <2>3, RestType DEF EndText, TypeOK, inputVars
<1>8. ASSUME StartLoanExecution PROVE TypeInv'
  <2>1. CASE using # "dialogue"
    BY <1>8, <2>1, ExitType DEF StartLoanExecution
  <2>2. CASE using = "dialogue"
    <3>1. Handled
      BY <1>8, <2>2, HandleType, ConstantFacts DEF StartLoanExecution, Processing
    <3> QED
      BY <1>0, <1>8, <2>2, <3>1, RestType
      DEF StartLoanExecution, UseMainScript, TypeOK, textVars, waitVars, inputVars
  <2> QED
    BY <2>1, <2>2
<1>9. ASSUME EndLoanExecution PROVE TypeInv'
  <2>1. CASE using = "dialogue"
    BY <1>9, <2>1, ExitType DEF EndLoanExecution
  <2>2. CASE using # "dialogue"
    <3>1. Handled
      BY <1>9, <2>2, HandleType, ConstantFacts DEF EndLoanExecution, Processing
    <3> QED
      BY <1>0, <1>9, <2>2, <3>1, RestType
      DEF EndLoanExecution, UseDialogue, TypeOK, textVars, waitVars, inputVars
  <2> QED
    BY <2>1, <2>2
<1>10. ASSUME EndInlineCommand PROVE TypeInv'
  <2>1. CASE using # "dialogue"
    BY <1>10, <2>1, ExitType DEF EndInlineCommand
  <2>2. CASE using = "dialogue"
    <3>1. Handled
      BY <1>10, <2>2, HandleType, ConstantFacts DEF EndInlineCommand, Processing
    <3> QED
      BY <1>0, <1>10, <2>2, <3>1, RestType, ConstantFacts
      DEF EndInlineCommand, DisposeDialogue, NoState, TypeOK, textVars, waitVars, inputVars
  <2> QED
    BY <2>1, <2>2
<1> QED
  BY <1>1, <1>2, <1>3, <1>4, <1>5, <1>6, <1>7, <1>8, <1>9, <1>10 DEF DialogueStep

LEMMA FrameStepType == TypeInv /\ FrameStep => TypeInv'
<1> SUFFICES ASSUME TypeInv, FrameStep PROVE TypeInv'
  OBVIOUS
<1> USE DEF TypeInv, TypeOK
<1>1. ASSUME TextShown PROVE TypeInv'
  <2>1. events' \in Seq(Event)
    BY <1>1 DEF TextShown, Event
  <2> QED
    BY ZenonT(30), <1>1, <2>1 DEF TextShown, Turn, scriptVars, textVars, inputVars
<1>2. ASSUME ExpireInlineWait PROVE TypeInv'
  <2>1. Append(events, "loanEnd") \in Seq(Event) /\ Append(events, "part") \in Seq(Event)
    BY DEF Event
  <2>2. CASE loan
    <3>1. /\ inlineWaits > 0 /\ inlineWaits' = inlineWaits - 1 /\ pc = "loop"
          /\ events' = Append(events, "loanEnd")
          /\ UNCHANGED <<scriptVars, textVars, pc, executing, loan, shown, mainWaits, inputVars>>
      BY <1>2, <2>2 DEF ExpireInlineWait, Turn
    <3>2. inlineWaits' \in Nat /\ events' \in Seq(Event)
      BY <2>1, <3>1
    <3> QED
      BY <3>1, <3>2, LoopType DEF scriptVars, inputVars
  <2>3. CASE ~loan /\ using = "dialogue"
    BY <1>2, <2>3, ExitType DEF ExpireInlineWait
  <2>4. CASE ~loan /\ using # "dialogue"
    <3>0. /\ inlineWaits > 0 /\ inlineWaits' = inlineWaits - 1 /\ pc = "loop" /\ VisitDialogue
          /\ events' = Append(events, "part")
          /\ UNCHANGED <<flag, varQueue, textVars, pc, executing, loan, shown, mainWaits, inputVars>>
      BY <1>2, <2>4 DEF ExpireInlineWait, Turn
    <3>1. inlineWaits' \in Nat /\ events' \in Seq(Event)
      BY <2>1, <3>0
    <3>2. using' = "none" /\ aside' \in Seq(Frame) /\ stack' = stack
      BY <3>0, ConstantFacts DEF VisitDialogue, NoState
    <3> QED
      BY <3>0, <3>1, <3>2, LoopType DEF inputVars
  <2> QED
    BY <2>2, <2>3, <2>4
<1>3. ASSUME ExpireMainWait PROVE TypeInv'
  BY <1>3 DEF ExpireMainWait, Turn, scriptVars, textVars, controlVars, inputVars
<1>4. ASSUME Input PROVE TypeInv'
  BY <1>4 DEF Input, Turn, scriptVars, textVars, controlVars, waitVars
<1> QED
  BY <1>1, <1>2, <1>3, <1>4 DEF FrameStep

LEMMA TypeStep == TypeInv /\ [Next]_vars => TypeInv'
<1> SUFFICES ASSUME TypeInv, [Next]_vars PROVE TypeInv'
  OBVIOUS
<1>1. CASE EventCallback
  BY ZenonT(30), <1>1, GosubType, ConstantFacts
  DEF EventCallback, Turn, TypeInv, TypeOK, textVars, controlVars, waitVars
<1>2. CASE TakeControl
  BY <1>2 DEF TakeControl, Turn, WantsControl, TypeInv, TypeOK, scriptVars, textVars, waitVars, inputVars
<1>3. CASE ScriptStep
  BY <1>3, ScriptStepType
<1>4. CASE DialogueStep
  BY <1>4, DialogueStepType
<1>5. CASE FrameStep
  BY <1>5, FrameStepType
<1>6. CASE UNCHANGED vars
  BY <1>6 DEF vars, scriptVars, textVars, controlVars, waitVars, inputVars, TypeInv, TypeOK
<1> QED
  BY <1>1, <1>2, <1>3, <1>4, <1>5, <1>6 DEF Next

\* Every variable keeps its type, whatever the dialogues and however many
\* commands: no count of waits goes below zero, and no event is handled
\* that was not posted.
THEOREM TypeCorrect == Spec => []TypeOK
<1>1. TypeInv => TypeOK
  BY DEF TypeInv
<1> QED
  BY TypeInit, TypeStep, <1>1, PTL DEF Spec
-----------------------------------------------------------------------------
(* The inductive invariant of the other safety properties.                 *)

Clean(s) == ~HasUninterruptible(s)
NoReports(s) == \A i \in DOMAIN s : ~s[i].eventOnReturn

\* The flag is never down while it should be up, and the dialogue's turn
\* comes only while it is down; while the dialogue's stack is in use, it is
\* exact.  A stack is put aside only while it may be interrupted.
Interruptible ==
    /\ HasUninterruptible(stack) => flag
    /\ pc = "events" => ~flag
    /\ using = "dialogue" /\ flag => HasUninterruptible(stack)
    /\ using \in {"dialogue", "main"} => Clean(aside)

\* Only a dialogue's command has a frame that reports its return, with
\* nothing uninterruptible below it, and none in it once an event is due.
Reports ==
    /\ NoReports(MainStack)
    /\ using = "dialogue" =>
          \A i \in DOMAIN stack : stack[i].eventOnReturn =>
              \A j \in 1..i : j < i \/ events # <<>> => ~stack[j].uninterruptible

Reporting == \E i \in DOMAIN DialogueStack : DialogueStack[i].eventOnReturn

\* Whether a loan will be on when the first n events have been handled.
LoanAfter(n) == IF n = 0 THEN loan ELSE events[n] = "loanStart"

\* The script has waited while a loan was on: the program will end here.
Doomed(n) == events[n] = "loanStart" /\ LoanAfter(n - 1)

\* Loans start and end in turn, and as many waits as are not yet over are on
\* loan, unless the program ends first.
Matched ==
    /\ \A n \in DOMAIN events : events[n] \in {"loanStart", "loanEnd"}
    /\ \A n \in DOMAIN events : events[n] = "loanEnd" =>
          LoanAfter(n - 1) \/ \E m \in 1..(n - 1) : Doomed(m)
    /\ \/ \E n \in DOMAIN events : Doomed(n)
       \/ inlineWaits = IF LoanAfter(Len(events)) THEN 1 ELSE 0

\* What a dialogue may be at, one for each driver.
Between ==
    using = "none" /\ ~executing /\ ~loan /\ inlineWaits = 0
PartDue ==
    Between /\ ~shown /\ passes >= 0 /\ (events = <<"first">> \/ events = <<"part">>)
Showing ==
    Between /\ shown /\ passes >= 0 /\ events = <<>>
Starred ==
    Between /\ ~shown /\ passes = -1 /\ events = <<>>
InWait ==
    /\ using = "main" /\ ~executing /\ ~loan /\ inlineWaits = 1
    /\ ~shown /\ passes >= 0 /\ events = <<>>
InCommand ==
    /\ executing /\ ~shown /\ passes >= 0
    /\ using = IF loan THEN "main" ELSE "dialogue"
    /\ \/ Matched /\ Reporting
       \/ events = <<"inlineEnd">> /\ inlineWaits = 0 /\ ~loan

Ended ==
    Between /\ ~shown /\ passes >= 0 /\ events = <<>>

Mode == IF active THEN PartDue \/ Showing \/ Starred \/ InWait \/ InCommand ELSE Ended

DInv == TypeInv /\ Interruptible /\ Reports /\ Mode /\ OnlyKnownFatal

\* One driver at a time, and one while the dialogue is active.
LEMMA OneDriver ==
    ASSUME TypeInv, Mode
    PROVE  /\ active => Drivers # {}
           /\ \A d, e \in Drivers : d = e
<1> DEFINE due == {n \in DOMAIN events : events[n] \in {"first", "part"}}
           D1 == {<<"event", i>> : i \in due}
           D2 == {<<"segment", i>> : i \in {n \in {0} : shown}}
           D3 == {<<"subroutine", i>> : i \in {n \in {0} : executing /\ WillReport}}
           D4 == {<<"wait", i>> : i \in {n \in 1..inlineWaits : ~executing}}
           D5 == {<<"star", i>> : i \in {n \in {0} : AtStar}}
<1>0. events \in Seq(Event) /\ inlineWaits \in Nat /\ passes \in Int
  BY DEF TypeInv, TypeOK
<1>1. Drivers = D1 \cup D2 \cup D3 \cup D4 \cup D5
  BY DEF Drivers
<1>2. /\ due = {} => D1 = {}
      /\ due = {1} => D1 = {<<"event", 1>>}
      /\ D2 = IF shown THEN {<<"segment", 0>>} ELSE {}
      /\ D3 = IF executing /\ WillReport THEN {<<"subroutine", 0>>} ELSE {}
      /\ D5 = IF AtStar THEN {<<"star", 0>>} ELSE {}
  OBVIOUS
<1>3. /\ executing \/ inlineWaits = 0 => D4 = {}
      /\ ~executing /\ inlineWaits = 1 => D4 = {<<"wait", 1>>}
  OBVIOUS
<1> HIDE DEF due, D1, D2, D3, D4, D5
<1>4. /\ events = <<>> => due = {}
      /\ events = <<"first">> \/ events = <<"part">> => due = {1}
      /\ events = <<"inlineEnd">> => due = {}
      /\ Matched => due = {}
  BY DEF due, Matched
<1>5. /\ passes >= 0 => ~AtStar
      /\ passes = -1 => AtStar
  BY <1>0 DEF AtStar
<1>6. CASE ~active
  BY <1>1, <1>2, <1>3, <1>4, <1>5, <1>6 DEF Mode, Ended, Between
<1>7. CASE active /\ PartDue
  BY <1>1, <1>2, <1>3, <1>4, <1>5, <1>7 DEF PartDue, Between
<1>8. CASE active /\ Showing
  BY <1>1, <1>2, <1>3, <1>4, <1>5, <1>8 DEF Showing, Between
<1>9. CASE active /\ Starred
  BY <1>1, <1>2, <1>3, <1>4, <1>5, <1>9 DEF Starred, Between
<1>10. CASE active /\ InWait
  BY <1>1, <1>2, <1>3, <1>4, <1>5, <1>10 DEF InWait
<1>11. CASE active /\ InCommand
  <2>1. WillReport
    <3>1. CASE Reporting
      BY <3>1 DEF Reporting, WillReport
    <3>2. CASE events = <<"inlineEnd">>
      <4>1. 1 \in DOMAIN events /\ events[1] = "inlineEnd"
        BY <3>2
      <4> QED
        BY <4>1 DEF WillReport
    <3> QED
      BY <1>11, <3>1, <3>2 DEF InCommand
  <2> QED
    BY <1>1, <1>2, <1>3, <1>4, <1>5, <1>11, <2>1 DEF InCommand
<1> QED
  BY <1>6, <1>7, <1>8, <1>9, <1>10, <1>11 DEF Mode

LEMMA DInvImplies == DInv => DialogueDriven /\ OnePartAtATime
BY OneDriver DEF DInv, DialogueDriven, OnePartAtATime

LEMMA DInvInit == Init => DInv
<1> SUFFICES ASSUME Init PROVE DInv
  OBVIOUS
<1>1. TypeInv
  BY TypeInit
<1>2. /\ pc = "loop" /\ using = "none" /\ stack = <<>> /\ events = <<>> /\ passes = 0
      /\ fatal = "none" /\ ~active /\ ~shown /\ ~executing /\ ~loan /\ inlineWaits = 0
  BY DEF Init
<1>3. Interruptible
  BY <1>2 DEF Interruptible, HasUninterruptible
<1>4. Reports
  BY <1>2 DEF Reports, NoReports, MainStack
<1>5. Mode
  BY <1>2 DEF Mode, Ended, Between
<1> QED
  BY <1>1, <1>2, <1>3, <1>4, <1>5 DEF DInv, OnlyKnownFatal

-----------------------------------------------------------------------------
(* Frames pushed and popped.                                               *)

LEMMA GosubFacts ==
    ASSUME NEW s \in Seq(Frame), NEW u \in BOOLEAN, NEW e \in BOOLEAN
    PROVE  /\ Gosub(s, u, e) \in Seq(Frame)
           /\ DOMAIN Gosub(s, u, e) = 1..(Len(s) + 1) /\ DOMAIN s = 1..Len(s)
           /\ \A i \in 1..Len(s) : Gosub(s, u, e)[i] = s[i]
           /\ Gosub(s, u, e)[Len(s) + 1].uninterruptible = u
           /\ Gosub(s, u, e)[Len(s) + 1].eventOnReturn = e
           /\ HasUninterruptible(Gosub(s, u, e)) <=> HasUninterruptible(s) \/ u
           /\ NoReports(s) /\ ~e => NoReports(Gosub(s, u, e))
<1> DEFINE f == [uninterruptible |-> u, eventOnReturn |-> e]
           r == Append(s, f)
<1>1. f \in Frame /\ f.uninterruptible = u /\ f.eventOnReturn = e
  BY DEF Frame
<1> HIDE DEF f
<1>2. /\ r \in Seq(Frame) /\ DOMAIN r = 1..(Len(s) + 1) /\ DOMAIN s = 1..Len(s)
      /\ Len(s) \in Nat
      /\ \A i \in 1..Len(s) : r[i] = s[i]
      /\ r[Len(s) + 1] = f
  BY <1>1
<1> HIDE DEF r
<1>3. \A i \in 1..(Len(s) + 1) : i \in 1..Len(s) \/ i = Len(s) + 1
  BY <1>2
<1>4. 1..Len(s) \subseteq 1..(Len(s) + 1) /\ Len(s) + 1 \in 1..(Len(s) + 1)
  BY <1>2
<1>5. HasUninterruptible(r) <=> HasUninterruptible(s) \/ u
  BY <1>1, <1>2, <1>3, <1>4 DEF HasUninterruptible
<1>6. NoReports(s) /\ ~e => NoReports(r)
  BY <1>1, <1>2, <1>3 DEF NoReports
<1>7. Gosub(s, u, e) = r
  BY DEF Gosub, r, f
<1> QED
  BY <1>1, <1>2, <1>5, <1>6, <1>7

\* A subroutine that does not report.
LEMMA PushFacts ==
    ASSUME NEW s \in Seq(Frame), NEW u \in BOOLEAN
    PROVE  /\ Len(s) \in Nat /\ DOMAIN s = 1..Len(s)
           /\ DOMAIN Gosub(s, u, FALSE) = 1..(Len(s) + 1)
           /\ \A i \in 1..Len(s) : Gosub(s, u, FALSE)[i] = s[i]
           /\ ~Gosub(s, u, FALSE)[Len(s) + 1].eventOnReturn
<1>1. FALSE \in BOOLEAN /\ Len(s) \in Nat
  OBVIOUS
<1>2. Gosub(s, u, FALSE)[Len(s) + 1].eventOnReturn = FALSE
  BY <1>1, GosubFacts
<1> QED
  BY <1>1, <1>2, GosubFacts

LEMMA FrontFacts ==
    ASSUME NEW s \in Seq(Frame), s # <<>>
    PROVE  /\ Front(s) \in Seq(Frame)
           /\ DOMAIN Front(s) = 1..(Len(s) - 1) /\ DOMAIN s = 1..Len(s)
           /\ Len(s) \in Nat \ {0} /\ Last(s) = s[Len(s)]
           /\ \A i \in 1..(Len(s) - 1) : Front(s)[i] = s[i] /\ i \in 1..Len(s)
           /\ NoReports(s) => NoReports(Front(s))
<1>1. /\ Front(s) \in Seq(Frame) /\ DOMAIN Front(s) = 1..(Len(s) - 1)
      /\ DOMAIN s = 1..Len(s) /\ Len(s) \in Nat \ {0} /\ Last(s) = s[Len(s)]
      /\ \A i \in 1..(Len(s) - 1) : Front(s)[i] = s[i] /\ i \in 1..Len(s)
  BY DEF Front, Last
<1> QED
  BY <1>1 DEF NoReports

LEMMA EmptyClean == Clean(<<>>) /\ NoReports(<<>>)
BY DEF Clean, NoReports, HasUninterruptible

-----------------------------------------------------------------------------
(* What steps leave as it was.                                             *)

\* The stacks stay, and a dialogue's command does not get its first event
\* while its code is uninterruptible.
LEMMA StackSame ==
    ASSUME TypeInv, Interruptible, Reports,
           UNCHANGED <<stack, aside, using, flag>>,
           pc' = "events" => ~flag,
           events = <<>> /\ events' # <<>> /\ using = "dialogue" => Clean(stack)
    PROVE  Interruptible' /\ Reports'
<1>1. /\ HasUninterruptible(stack)' <=> HasUninterruptible(stack)
      /\ Clean(aside)' <=> Clean(aside)
      /\ NoReports(MainStack)' <=> NoReports(MainStack)
  BY DEF HasUninterruptible, Clean, NoReports, MainStack
<1>2. Interruptible'
  BY <1>1 DEF Interruptible
<1>3. ASSUME using = "dialogue", NEW i \in DOMAIN stack, stack[i].eventOnReturn,
             NEW j \in 1..i, j < i \/ events' # <<>>
      PROVE  ~stack[j].uninterruptible
  <2>1. CASE j < i \/ events # <<>>
    BY <1>3, <2>1 DEF Reports
  <2>2. CASE events = <<>> /\ events' # <<>>
    <3>1. j \in DOMAIN stack
      BY <1>3 DEF TypeInv, TypeOK
    <3> QED
      BY <1>3, <2>2, <3>1 DEF Clean, HasUninterruptible
  <2> QED
    BY <1>3, <2>1, <2>2
<1> QED
  BY <1>1, <1>2, <1>3 DEF Reports

\* What the dialogue is at stays.
LEMMA ModeSame ==
    ASSUME TypeInv, Mode, passes' \in Int, passes >= 0 => passes' >= 0,
           passes < 0 => passes' = passes,
           UNCHANGED <<active, using, executing, loan, inlineWaits, shown, events>>,
           Reporting => Reporting'
    PROVE  Mode'
<1>0. passes \in Int
  BY DEF TypeInv, TypeOK
<1>1. Between' = Between /\ Matched' = Matched
  BY DEF Between, Matched, Doomed, LoanAfter
<1>2. /\ Ended => Ended'
      /\ PartDue => PartDue'
      /\ Showing => Showing'
      /\ Starred => Starred'
  BY <1>0, <1>1 DEF Ended, PartDue, Showing, Starred
<1>3. InWait => InWait'
  BY <1>0 DEF InWait
<1>4. InCommand => InCommand'
  BY <1>0, <1>1 DEF InCommand
<1> QED
  BY <1>2, <1>3, <1>4 DEF Mode

\* A command waits, or such a wait is over.
LEMMA LoanReported ==
    ASSUME TypeInv, Matched, loan' = loan, NEW e,
           \/ e = "loanStart" /\ inlineWaits' = inlineWaits + 1
           \/ e = "loanEnd" /\ inlineWaits > 0 /\ inlineWaits' = inlineWaits - 1,
           events' = Append(events, e)
    PROVE  Matched'
<1>0. PICK k \in Nat : k = Len(events)
  BY DEF TypeInv, TypeOK
<1>1. /\ k = Len(events) /\ DOMAIN events = 1..k /\ DOMAIN events' = 1..(k + 1)
      /\ \A n \in 1..k : events'[n] = events[n]
      /\ events'[k + 1] = e /\ Len(events') = k + 1
  BY <1>0 DEF TypeInv, TypeOK
<1>2. inlineWaits \in Nat
  BY DEF TypeInv, TypeOK
<1>3. \A n \in 1..(k + 1) : n \in 1..k \/ n = k + 1
  BY <1>1
<1>4. \A n \in 0..k : LoanAfter(n)' <=> LoanAfter(n)
  <2>1. \A n \in 0..k : n = 0 \/ n \in 1..k
    BY <1>1
  <2> QED
    BY <1>1, <2>1 DEF LoanAfter
<1>5. \A n \in 1..k : n - 1 \in 0..k
  BY <1>1
<1>6. \A n \in 1..k : Doomed(n)' <=> Doomed(n)
  BY <1>1, <1>4, <1>5 DEF Doomed
<1>7. k \in 0..k /\ (k + 1) - 1 = k /\ k + 1 # 0 /\ k + 1 \in 1..(k + 1)
      /\ \A n \in 1..k : n \in 1..(k + 1)
  BY <1>1
<1>8. LoanAfter(k + 1)' <=> e = "loanStart"
  BY <1>1, <1>7 DEF LoanAfter
<1>9. Doomed(k + 1)' <=> e = "loanStart" /\ LoanAfter(k)
  BY <1>1, <1>4, <1>7 DEF Doomed
<1>10. \A n \in DOMAIN events' : events'[n] \in {"loanStart", "loanEnd"}
  BY <1>1, <1>3 DEF Matched
<1>11. \/ \E n \in 1..k : Doomed(n)
       \/ inlineWaits = IF LoanAfter(k) THEN 1 ELSE 0
  BY <1>1 DEF Matched
<1>12. ASSUME NEW n \in DOMAIN events', events'[n] = "loanEnd"
       PROVE  LoanAfter(n - 1)' \/ \E m \in 1..(n - 1) : Doomed(m)'
  <2>1. CASE n \in 1..k
    <3>1. \A m \in 1..(n - 1) : m \in 1..k
      BY <1>1, <2>1
    <3>2. LoanAfter(n - 1) \/ \E m \in 1..(n - 1) : Doomed(m)
      BY <1>1, <1>12, <2>1 DEF Matched
    <3> QED
      BY <1>4, <1>5, <1>6, <2>1, <3>1, <3>2
  <2>2. CASE n = k + 1
    <3>1. inlineWaits > 0
      BY <1>1, <1>12, <2>2
    <3>2. LoanAfter(k) \/ \E m \in 1..k : Doomed(m)
      BY <1>2, <1>11, <3>1
    <3> QED
      BY <1>4, <1>6, <1>7, <2>2, <3>2
  <2> QED
    BY <1>1, <1>3, <1>12, <2>1, <2>2
<1>13. \/ \E n \in 1..(k + 1) : Doomed(n)'
       \/ inlineWaits' = IF LoanAfter(k + 1)' THEN 1 ELSE 0
  <2>1. CASE \E n \in 1..k : Doomed(n)
    BY <1>6, <1>7, <2>1
  <2>2. CASE inlineWaits = IF LoanAfter(k) THEN 1 ELSE 0
    <3>1. CASE e = "loanStart" /\ LoanAfter(k)
      BY <1>7, <1>9, <3>1
    <3>2. CASE e = "loanStart" /\ ~LoanAfter(k)
      BY <1>2, <1>8, <2>2, <3>2
    <3>3. CASE e # "loanStart"
      BY <1>2, <1>8, <2>2, <3>3
    <3> QED
      BY <3>1, <3>2, <3>3
  <2> QED
    BY <1>11, <2>1, <2>2
<1>14. Len(events)' = k + 1
  BY <1>1
<1>15. /\ \A n \in DOMAIN events' : events'[n] = "loanEnd" =>
             LoanAfter(n - 1)' \/ \E m \in 1..(n - 1) : Doomed(m)'
       /\ \/ \E n \in DOMAIN events' : Doomed(n)'
          \/ inlineWaits' = IF LoanAfter(Len(events))' THEN 1 ELSE 0
  <2>1. LoanAfter(Len(events))' <=> LoanAfter(k + 1)'
    BY <1>14 DEF LoanAfter
  <2> QED
    BY <1>1, <1>12, <1>13, <2>1
<1> QED
  BY <1>10, <1>15 DEF Matched

\* A loan starts, or ends.
LEMMA LoanHandled ==
    ASSUME TypeInv, Matched, events # <<>>, ~Doomed(1),
           events' = Tail(events), loan' = (Head(events) = "loanStart"),
           inlineWaits' = inlineWaits
    PROVE  Matched'
<1>0. PICK k \in Nat : k = Len(events) - 1
  <2>1. Len(events) \in Nat /\ Len(events) # 0
    BY DEF TypeInv, TypeOK
  <2>2. Len(events) - 1 \in Nat
    BY <2>1
  <2> QED
    BY <2>2
<1>1. /\ DOMAIN events = 1..(k + 1) /\ DOMAIN events' = 1..k
      /\ Len(events) = k + 1 /\ Len(events') = k
      /\ \A n \in 1..k : events'[n] = events[n + 1]
      /\ Head(events) = events[1]
  BY <1>0 DEF TypeInv, TypeOK
<1>2. \A n \in 1..k : n + 1 \in 1..(k + 1) /\ n # 0 /\ n + 1 # 0 /\ n - 1 \in 0..k
                        /\ (n - 1) + 1 = n /\ (n + 1) - 1 = n
  BY <1>1
<1>3. \A n \in 0..k : n = 0 \/ n \in 1..k
  BY <1>1
<1>4. \A n \in 0..k : LoanAfter(n)' <=> LoanAfter(n + 1)
  <2>1. LoanAfter(0)' <=> LoanAfter(1)
    <3>1. LoanAfter(1) <=> events[1] = "loanStart"
      BY DEF LoanAfter
    <3>2. LoanAfter(0)' <=> loan'
      BY DEF LoanAfter
    <3> QED
      BY <1>1, <3>1, <3>2
  <2>2. \A n \in 1..k : LoanAfter(n)' <=> LoanAfter(n + 1)
    BY <1>1, <1>2 DEF LoanAfter
  <2> QED
    BY <1>3, <2>1, <2>2
<1>5. \A n \in 1..k : Doomed(n)' <=> Doomed(n + 1)
  BY <1>1, <1>2, <1>4 DEF Doomed
<1>6. ASSUME NEW n \in 1..k, events'[n] = "loanEnd"
      PROVE  LoanAfter(n - 1)' \/ \E m \in 1..(n - 1) : Doomed(m)'
  <2>1. events[n + 1] = "loanEnd"
    BY <1>1, <1>6
  <2>2. LoanAfter(n) \/ \E m \in 1..n : Doomed(m)
    BY <1>1, <1>2, <2>1 DEF Matched
  <2>3. LoanAfter(n - 1)' <=> LoanAfter(n)
    BY <1>2, <1>4
  <2>4. ASSUME NEW m \in 1..n, Doomed(m) PROVE \E q \in 1..(n - 1) : Doomed(q)'
    <3>1. m # 1
      BY <2>4
    <3>2. m - 1 \in 1..(n - 1) /\ m - 1 \in 1..k /\ (m - 1) + 1 = m
      BY <1>1, <3>1
    <3>3. Doomed(m - 1)'
      BY <1>5, <2>4, <3>2
    <3> QED
      BY <3>2, <3>3
  <2> QED
    BY <2>2, <2>3, <2>4
<1>7. \/ \E n \in 1..k : Doomed(n)'
      \/ inlineWaits' = IF LoanAfter(k)' THEN 1 ELSE 0
  <2>1. \/ \E n \in 1..(k + 1) : Doomed(n)
        \/ inlineWaits = IF LoanAfter(k + 1) THEN 1 ELSE 0
    BY <1>1 DEF Matched
  <2>2. ASSUME NEW n \in 1..(k + 1), Doomed(n) PROVE \E q \in 1..k : Doomed(q)'
    <3>1. n # 1
      BY <2>2
    <3>2. n - 1 \in 1..k /\ (n - 1) + 1 = n
      BY <1>1, <3>1
    <3>3. Doomed(n - 1)'
      BY <1>5, <2>2, <3>2
    <3> QED
      BY <3>2, <3>3
  <2>3. LoanAfter(k)' <=> LoanAfter(k + 1)
    BY <1>1, <1>4
  <2> QED
    BY <2>1, <2>2, <2>3
<1>8. \A n \in DOMAIN events' : events'[n] \in {"loanStart", "loanEnd"}
  BY <1>1, <1>2 DEF Matched
<1>9. /\ \A n \in DOMAIN events' : events'[n] = "loanEnd" =>
             LoanAfter(n - 1)' \/ \E m \in 1..(n - 1) : Doomed(m)'
      /\ \/ \E n \in DOMAIN events' : Doomed(n)'
         \/ inlineWaits' = IF LoanAfter(Len(events))' THEN 1 ELSE 0
  <2>1. LoanAfter(Len(events))' <=> LoanAfter(k)'
    BY <1>1 DEF LoanAfter
  <2> QED
    BY <1>1, <1>6, <1>7, <2>1
<1> QED
  BY <1>8, <1>9 DEF Matched

-----------------------------------------------------------------------------
(* The script's steps.                                                     *)

Safe == Interruptible /\ Reports /\ Mode

\* Whose turn it is says what the controller has not to do.
LEMMA TurnFacts ==
    ASSUME DInv, ScriptTurn
    PROVE  /\ pc = "loop" /\ fatal = "none"
           /\ active /\ events # <<>> => flag
           /\ using = "dialogue" /\ Clean(stack) => events = <<>> /\ active
<1>1. pc = "loop" /\ fatal = "none" /\ ~(WantsControl /\ ~flag)
  BY DEF ScriptTurn, Turn, Running
<1>2. active /\ events # <<>> => flag
  BY <1>1 DEF WantsControl
<1>3. using = "dialogue" => active
  BY DEF DInv, Mode, Ended, Between
<1> QED
  BY <1>1, <1>2, <1>3 DEF DInv, Interruptible, Clean

\* A stack that is not a dialogue's command's, or a push: the report stays.
LEMMA ReportingStays ==
    ASSUME UNCHANGED <<using, aside>>, stack \in Seq(Frame),
           \/ using # "dialogue"
           \/ stack' = stack
           \/ \E u \in BOOLEAN : stack' = Gosub(stack, u, FALSE)
    PROVE  Reporting => Reporting'
<1>1. CASE using # "dialogue"
  BY <1>1 DEF Reporting, DialogueStack
<1>2. CASE using = "dialogue" /\ stack' = stack
  BY <1>2 DEF Reporting, DialogueStack
<1>3. ASSUME using = "dialogue", NEW u \in BOOLEAN, stack' = Gosub(stack, u, FALSE)
      PROVE  Reporting => Reporting'
  <2> SUFFICES ASSUME Reporting PROVE Reporting'
    OBVIOUS
  <2>1. PICK i \in DOMAIN stack : stack[i].eventOnReturn
    BY <1>3 DEF Reporting, DialogueStack
  <2>2. i \in DOMAIN stack' /\ stack'[i] = stack[i]
    <3>1. Len(stack) \in Nat /\ i \in 1..Len(stack) /\ i \in 1..(Len(stack) + 1)
      BY <2>1
    <3>2. /\ DOMAIN Gosub(stack, u, FALSE) = 1..(Len(stack) + 1)
          /\ Gosub(stack, u, FALSE)[i] = stack[i]
      BY <3>1, PushFacts
    <3> QED
      BY <1>3, <3>1, <3>2
  <2> QED
    BY <1>3, <2>1, <2>2 DEF Reporting, DialogueStack
<1> QED
  BY <1>1, <1>2, <1>3

\* A frame that does not report is pushed on the stack in use.
LEMMA PushKeeps ==
    ASSUME DInv, pc = "loop", pc' = "loop", NEW u \in BOOLEAN,
           stack' = Gosub(stack, u, FALSE), UNCHANGED <<aside, using, events>>,
           flag' = (flag \/ u) \/ (Clean(stack) /\ flag' = u)
    PROVE  Interruptible' /\ Reports'
<1>0. stack \in Seq(Frame) /\ flag \in BOOLEAN
  BY DEF DInv, TypeInv, TypeOK
<1>1. /\ HasUninterruptible(stack)' <=> HasUninterruptible(stack) \/ u
      /\ Clean(aside)' <=> Clean(aside)
  <2>1. HasUninterruptible(stack)' <=> HasUninterruptible(stack')
    BY DEF HasUninterruptible
  <2> QED
    BY <1>0, <2>1, GosubFacts DEF Clean, HasUninterruptible
<1>2. Interruptible
  BY DEF DInv
<1>3. Interruptible'
  <2>1. /\ flag' => flag \/ u
        /\ u => flag'
        /\ flag /\ ~Clean(stack) => flag'
    BY <1>0
  <2> QED
    BY <1>1, <1>2, <2>1 DEF Interruptible, Clean
<1>4. NoReports(MainStack)'
  <2>1. NoReports(MainStack)
    BY DEF DInv, Reports
  <2>2. CASE using = "dialogue"
    BY <2>1, <2>2 DEF NoReports, MainStack
  <2>3. CASE using # "dialogue"
    <3>1. NoReports(stack)' <=> NoReports(stack')
      BY DEF NoReports
    <3>2. NoReports(stack')
      BY <1>0, <2>1, <2>3, GosubFacts DEF MainStack
    <3> QED
      BY <2>3, <3>1, <3>2 DEF MainStack, NoReports
  <2> QED
    BY <2>2, <2>3
<1>5. ASSUME using = "dialogue", NEW i \in DOMAIN stack', stack'[i].eventOnReturn,
             NEW j \in 1..i, j < i \/ events # <<>>
      PROVE  ~stack'[j].uninterruptible
  <2>0. /\ DOMAIN Gosub(stack, u, FALSE) = 1..(Len(stack) + 1)
        /\ DOMAIN stack = 1..Len(stack) /\ Len(stack) \in Nat
        /\ ~Gosub(stack, u, FALSE)[Len(stack) + 1].eventOnReturn
        /\ \A k \in 1..Len(stack) : Gosub(stack, u, FALSE)[k] = stack[k]
    BY <1>0, PushFacts
  <2>1. DOMAIN stack' = 1..(Len(stack) + 1)
    BY <2>0
  <2>2. i # Len(stack) + 1
    BY <1>5, <2>0
  <2>3. i \in 1..Len(stack) /\ j \in 1..Len(stack)
    <3>1. i \in 1..(Len(stack) + 1)
      BY <1>5, <2>1
    <3> QED
      BY <2>0, <2>2, <3>1
  <2>4. stack'[i] = stack[i] /\ stack'[j] = stack[j]
    BY <2>0, <2>3
  <2> QED
    BY <1>5, <2>0, <2>3, <2>4 DEF DInv, Reports
<1> QED
  BY <1>3, <1>4, <1>5 DEF Reports

\* The end of a dialogue's command is reported once: no event is on its way,
\* or the code would be interruptible and the dialogue's turn.
LEMMA ReturnKeeps == DInv /\ ReturnCommand => Safe'
<1> SUFFICES ASSUME DInv, ReturnCommand PROVE Safe'
  OBVIOUS
<1>0. /\ TypeInv /\ stack \in Seq(Frame) /\ passes \in Int
      /\ Interruptible /\ Reports /\ Mode
  BY DEF DInv, TypeInv, TypeOK
<1>1. /\ stack # <<>> /\ stack' = Front(stack) /\ ScriptTurn
      /\ events' = IF Last(stack).eventOnReturn THEN Append(events, "inlineEnd") ELSE events
      /\ flag' = HasUninterruptible(stack')
      /\ UNCHANGED <<aside, using, active, passes, pc, executing, loan, inlineWaits, shown>>
  BY DEF ReturnCommand, textVars, waitVars
<1>2. /\ Front(stack) \in Seq(Frame) /\ DOMAIN stack' = 1..(Len(stack) - 1)
      /\ DOMAIN stack = 1..Len(stack)
      /\ Len(stack) \in Nat \ {0} /\ Last(stack) = stack[Len(stack)]
      /\ \A i \in 1..(Len(stack) - 1) : stack'[i] = stack[i] /\ i \in 1..Len(stack)
  BY <1>0, <1>1, FrontFacts
<1>3. pc = "loop" /\ pc' = "loop"
  BY <1>1, TurnFacts
<1>4. Interruptible'
  <2>1. HasUninterruptible(stack)' <=> HasUninterruptible(stack')
    BY DEF HasUninterruptible
  <2>2. Clean(aside)' <=> Clean(aside)
    BY <1>1 DEF Clean, HasUninterruptible
  <2> QED
    BY <1>0, <1>1, <1>3, <2>1, <2>2 DEF Interruptible
<1>5. NoReports(MainStack)'
  <2>1. CASE using = "dialogue"
    BY <1>0, <1>1, <2>1 DEF Reports, NoReports, MainStack
  <2>2. CASE using # "dialogue"
    BY <1>0, <1>1, <1>2, <2>2 DEF Reports, NoReports, MainStack
  <2> QED
    BY <2>1, <2>2
<1>6. ASSUME using = "dialogue", NEW i \in DOMAIN stack', stack'[i].eventOnReturn,
             NEW j \in 1..i, j < i \/ events' # <<>>
      PROVE  ~stack'[j].uninterruptible
  <2>1. i \in 1..(Len(stack) - 1) /\ j \in 1..(Len(stack) - 1)
    BY <1>2, <1>6
  <2>2. i \in DOMAIN stack /\ stack[i].eventOnReturn /\ stack'[j] = stack[j]
    BY <1>2, <1>6, <2>1
  <2>3. CASE j < i \/ events # <<>>
    BY <1>0, <1>6, <2>2, <2>3 DEF Reports
  <2>4. CASE events = <<>> /\ events' # <<>>
    <3>1. Len(stack) \in DOMAIN stack /\ stack[Len(stack)].eventOnReturn
      BY <1>1, <1>2, <2>4
    <3>2. j \in 1..Len(stack) /\ j < Len(stack)
      BY <1>2, <2>1
    <3> QED
      BY <1>0, <1>6, <2>2, <3>1, <3>2 DEF Reports
  <2> QED
    BY <1>6, <2>3, <2>4
<1>7. CASE Last(stack).eventOnReturn
  <2>1. using = "dialogue"
    <3>1. ASSUME using # "dialogue" PROVE FALSE
      <4>1. NoReports(stack)
        BY <1>0, <3>1 DEF Reports, MainStack
      <4>2. Len(stack) \in DOMAIN stack
        BY <1>2
      <4> QED
        BY <1>2, <1>7, <4>1, <4>2 DEF NoReports
    <3> QED
      BY <3>1
  <2>2. events = <<>>
    <3> SUFFICES ASSUME events # <<>> PROVE Clean(stack)
      BY <1>1, <2>1, TurnFacts
    <3>1. Len(stack) \in DOMAIN stack /\ stack[Len(stack)].eventOnReturn
      BY <1>2, <1>7
    <3>2. \A j \in 1..Len(stack) : ~stack[j].uninterruptible
      BY <1>0, <2>1, <3>1 DEF Reports
    <3> QED
      BY <1>2, <3>2 DEF Clean, HasUninterruptible
  <2>3. active /\ InCommand
    BY <1>0, <2>1 DEF Mode, Ended, PartDue, Showing, Starred, Between, InWait
  <2>4. Matched /\ ~loan
    <3>1. events # <<"inlineEnd">>
      BY <2>2
    <3> QED
      BY <2>1, <2>3, <3>1 DEF InCommand
  <2>5. inlineWaits = 0
    <3>1. Len(events) = 0 /\ DOMAIN events = {}
      BY <2>2
    <3>2. ~LoanAfter(0)
      BY <2>4 DEF LoanAfter
    <3> QED
      BY <2>4, <3>1, <3>2 DEF Matched
  <2>6. events' = <<"inlineEnd">>
    BY <1>1, <1>7, <2>2
  <2>7. InCommand'
    BY <1>1, <2>3, <2>4, <2>5, <2>6, <2>1 DEF InCommand
  <2>8. Mode'
    BY <1>1, <2>3, <2>7 DEF Mode
  <2> QED
    BY <1>1, <1>4, <1>5, <1>6, <2>8 DEF Safe, Reports
<1>8. CASE ~Last(stack).eventOnReturn
  <2>1. ASSUME Reporting PROVE Reporting'
    <3>1. CASE using # "dialogue"
      BY <1>1, <2>1, <3>1 DEF Reporting, DialogueStack
    <3>2. CASE using = "dialogue"
      <4>1. PICK i \in DOMAIN stack : stack[i].eventOnReturn
        BY <2>1, <3>2 DEF Reporting, DialogueStack
      <4>2. i \in DOMAIN stack' /\ stack'[i] = stack[i]
        <5>1. i # Len(stack) /\ i \in 1..Len(stack)
          BY <1>2, <1>8, <4>1
        <5>2. i \in 1..(Len(stack) - 1)
          BY <1>2, <5>1
        <5> QED
          BY <1>2, <5>2
      <4> QED
        BY <1>1, <3>2, <4>1, <4>2 DEF Reporting, DialogueStack
    <3> QED
      BY <3>1, <3>2
  <2>2. Mode'
    BY <1>0, <1>1, <1>8, <2>1, ModeSame
  <2> QED
    BY <1>1, <1>4, <1>5, <1>6, <2>2 DEF Safe, Reports
<1> QED
  BY <1>7, <1>8

\* A wait of the dialogue's command puts it on loan, sooner or later.
LEMMA WaitKeeps == DInv /\ StartWait => Safe'
<1> SUFFICES ASSUME DInv, StartWait PROVE Safe'
  OBVIOUS
<1>0. /\ TypeInv /\ Interruptible /\ Reports /\ Mode
      /\ passes \in Int /\ stack \in Seq(Frame)
  BY DEF DInv, TypeInv, TypeOK
<1>1. /\ ScriptTurn /\ Clean(stack)
      /\ UNCHANGED <<stack, aside, using, flag, active, passes, pc, executing, loan, shown>>
      /\ executing => inlineWaits' = inlineWaits + 1 /\ events' = Append(events, "loanStart")
      /\ ~executing => UNCHANGED <<inlineWaits, events>>
  BY DEF StartWait, Command, Clean, scriptVars, textVars
<1>2. pc = "loop" /\ (active /\ events # <<>> => flag)
  BY <1>1, TurnFacts
<1>3. Interruptible' /\ Reports'
  BY <1>0, <1>1, <1>2, StackSame
<1>4. Reporting => Reporting'
  BY <1>0, <1>1, ReportingStays
<1>5. CASE ~executing
  BY <1>0, <1>1, <1>3, <1>4, <1>5, ModeSame DEF Safe
<1>6. CASE executing
  <2>1. active /\ InCommand
    BY <1>0, <1>6 DEF Mode, Ended, PartDue, Showing, Starred, Between, InWait
  <2>2. Matched /\ Reporting
    <3>1. ASSUME events = <<"inlineEnd">>, ~loan PROVE FALSE
      <4>1. using = "dialogue" /\ events # <<>>
        BY <2>1, <3>1 DEF InCommand
      <4> QED
        BY <1>1, <4>1, TurnFacts
    <3> QED
      BY <2>1, <3>1 DEF InCommand
  <2>3. Matched'
    BY <1>0, <1>1, <1>6, <2>2, LoanReported
  <2>4. InCommand'
    BY <1>1, <1>4, <2>1, <2>2, <2>3 DEF InCommand
  <2> QED
    BY <1>1, <1>3, <2>1, <2>4 DEF Safe, Mode
<1> QED
  BY <1>5, <1>6

LEMMA ScriptStepSafe == DInv /\ ScriptStep => Safe' /\ fatal' = fatal
<1> SUFFICES ASSUME DInv, ScriptStep PROVE Safe' /\ fatal' = fatal
  OBVIOUS
<1>0. /\ TypeInv /\ Interruptible /\ Reports /\ Mode
      /\ passes \in Int /\ stack \in Seq(Frame)
  BY DEF DInv, TypeInv, TypeOK
\* What is left to show of a command that posts no event.
<1>a. ASSUME ScriptTurn, passes' = passes \/ (passes >= 0 /\ passes' = passes + 1),
             UNCHANGED <<stack, aside, using, flag, active, pc, executing, loan,
                         inlineWaits, shown, events>>
      PROVE  Safe'
  <2>1. Interruptible' /\ Reports'
    BY <1>0, <1>a, TurnFacts, StackSame
  <2>2. Reporting => Reporting'
    BY <1>0, <1>a, ReportingStays
  <2> QED
    BY <1>0, <1>a, <2>1, <2>2, ModeSame DEF Safe
<1>1. ASSUME NEW t \in Dialogues, StartDialogue(t) PROVE Safe' /\ fatal' = fatal
  <2>1. /\ ScriptTurn /\ ~active /\ using = "none" /\ active'
        /\ events' = Append(events, "first") /\ fatal' = fatal
        /\ UNCHANGED <<stack, aside, using, flag, passes, pc, executing, loan,
                       inlineWaits, shown>>
    BY <1>1 DEF StartDialogue, Command, scriptVars, waitVars
  <2>2. Ended
    BY <1>0, <2>1 DEF Mode
  <2>3. events' = <<"first">>
    BY <2>1, <2>2 DEF Ended
  <2>4. Interruptible' /\ Reports'
    BY <1>0, <2>1, TurnFacts, StackSame
  <2>5. PartDue'
    BY <2>1, <2>2, <2>3 DEF Ended, PartDue, Between
  <2> QED
    BY <2>1, <2>4, <2>5 DEF Safe, Mode
<1>2. ASSUME StartWait PROVE Safe' /\ fatal' = fatal
  BY <1>2, WaitKeeps DEF StartWait, Command
<1>3. ASSUME NEW u \in BOOLEAN, GosubCommand(u) PROVE Safe' /\ fatal' = fatal
  <2>1. /\ ScriptTurn /\ fatal' = fatal
        /\ stack' = Gosub(stack, u, FALSE) /\ flag' = (flag \/ u)
        /\ UNCHANGED <<aside, using, active, passes, pc, executing, loan,
                       inlineWaits, shown, events>>
    BY <1>3 DEF GosubCommand, Command, textVars, controlVars, waitVars
  <2>2. pc = "loop" /\ pc' = "loop"
    BY <2>1, TurnFacts
  <2>3. Interruptible' /\ Reports'
    BY <2>1, <2>2, PushKeeps
  <2>4. Reporting => Reporting'
    BY <1>0, <2>1, ReportingStays
  <2> QED
    BY <1>0, <2>1, <2>3, <2>4, ModeSame DEF Safe
<1>4. ASSUME ReturnCommand PROVE Safe' /\ fatal' = fatal
  BY <1>4, ReturnKeeps DEF ReturnCommand, inputVars
<1>5. ASSUME GetparamCommand PROVE Safe' /\ fatal' = fatal
  <2>1. /\ ScriptTurn /\ fatal' = fatal /\ passes' = passes
        /\ UNCHANGED <<stack, aside, using, flag, active, pc, executing, loan,
                       inlineWaits, shown, events>>
    BY <1>5 DEF GetparamCommand, Command, textVars, controlVars, waitVars
  <2> QED
    BY <1>a, <2>1
<1>6. ASSUME MainGotoCommand PROVE Safe' /\ fatal' = fatal
  <2>1. /\ ScriptTurn /\ fatal' = fatal /\ using # "dialogue" /\ stack' = <<>>
        /\ UNCHANGED <<aside, using, flag, active, passes, pc, executing, loan,
                       inlineWaits, shown, events>>
    BY <1>6 DEF MainGotoCommand, Command, textVars, controlVars, waitVars
  <2>2. pc = "loop" /\ pc' = "loop"
    BY <2>1, TurnFacts
  <2>3. /\ ~HasUninterruptible(stack)'
        /\ Clean(aside)' <=> Clean(aside)
        /\ NoReports(MainStack)'
    BY <2>1, EmptyClean DEF HasUninterruptible, Clean, NoReports, MainStack
  <2>4. Interruptible' /\ Reports'
    BY <1>0, <2>1, <2>2, <2>3 DEF Interruptible, Reports
  <2>5. Reporting => Reporting'
    BY <1>0, <2>1, ReportingStays
  <2> QED
    BY <1>0, <2>1, <2>4, <2>5, ModeSame DEF Safe
<1>7. ASSUME DialogueContinueCommand PROVE Safe' /\ fatal' = fatal
  <2>1. /\ ScriptTurn /\ fatal' = fatal /\ active
        /\ events' = IF passes < 0 THEN Append(events, "part") ELSE events
        /\ passes' = passes + 1
        /\ UNCHANGED <<stack, aside, using, flag, active, pc, executing, loan,
                       inlineWaits, shown>>
    BY <1>7 DEF DialogueContinueCommand, Command, scriptVars, waitVars
  <2>2. CASE passes >= 0
    BY <1>0, <1>a, <2>1, <2>2
  <2>3. CASE passes < 0
    <3>1. Starred
      BY <1>0, <2>1, <2>3 DEF Mode, PartDue, Showing, InWait, InCommand
    <3>2. events' = <<"part">> /\ passes' = 0
      BY <2>1, <2>3, <3>1 DEF Starred
    <3>3. PartDue'
      BY <2>1, <3>1, <3>2 DEF Starred, PartDue, Between
    <3>4. using # "dialogue"
      BY <3>1 DEF Starred, Between
    <3>5. Interruptible' /\ Reports'
      BY <1>0, <2>1, <3>4, TurnFacts, StackSame
    <3> QED
      BY <2>1, <3>3, <3>5 DEF Safe, Mode
  <2> QED
    BY <1>0, <2>2, <2>3
<1>8. ASSUME NEW i \in Index, WaitOnDialogueCommand(i) PROVE Safe' /\ fatal' = fatal
  <2>1. /\ ScriptTurn /\ fatal' = fatal /\ passes' = passes
        /\ UNCHANGED <<stack, aside, using, flag, active, pc, executing, loan,
                       inlineWaits, shown, events>>
    BY <1>8 DEF WaitOnDialogueCommand, Command, scriptVars, controlVars, waitVars
  <2> QED
    BY <1>a, <2>1
<1> QED
  BY <1>1, <1>2, <1>3, <1>4, <1>5, <1>6, <1>7, <1>8 DEF ScriptStep

-----------------------------------------------------------------------------
(* Frames, callbacks and the controller's turn.                            *)

LEMMA ExitSafe ==
    ASSUME DInv, NEW check, Exit(check)
    PROVE  Safe'
<1>1. UNCHANGED <<stack, aside, using, flag, active, passes, pc, executing, loan,
                  inlineWaits, shown, events>>
  BY DEF Exit, scriptVars, textVars, controlVars, waitVars
<1>2. /\ TypeInv /\ Interruptible /\ Reports /\ Mode /\ passes \in Int
      /\ pc = "events" => ~flag
  BY DEF DInv, TypeInv, TypeOK, Interruptible
<1>3. Interruptible' /\ Reports'
  BY <1>1, <1>2, StackSame
<1>4. Reporting => Reporting'
  BY <1>1 DEF Reporting, DialogueStack
<1> QED
  BY <1>1, <1>2, <1>3, <1>4, ModeSame DEF Safe

\* A wait ends: the loan does, or the dialogue's next part is due, or the
\* program ends because the loan has not started.
LEMMA ExpireKeeps == DInv /\ ExpireInlineWait => Safe' /\ fatal' \in {fatal, "early"}
<1> SUFFICES ASSUME DInv, ExpireInlineWait PROVE Safe' /\ fatal' \in {fatal, "early"}
  OBVIOUS
<1>0. /\ TypeInv /\ Interruptible /\ Reports /\ Mode
      /\ passes \in Int /\ stack \in Seq(Frame) /\ inlineWaits \in Nat
  BY DEF DInv, TypeInv, TypeOK
<1>1. pc = "loop" /\ inlineWaits > 0
  BY DEF ExpireInlineWait, Turn
<1>2. active /\ (InWait \/ InCommand)
  BY <1>1 DEF DInv, Mode, Ended, PartDue, Showing, Starred, Between
<1>3. CASE loan
  <2>1. /\ inlineWaits' = inlineWaits - 1 /\ events' = Append(events, "loanEnd")
        /\ UNCHANGED <<stack, aside, using, flag, active, passes, pc, executing, loan,
                       shown, fatal>>
    BY <1>3 DEF ExpireInlineWait, scriptVars, textVars, inputVars
  <2>2. InCommand /\ using = "main" /\ Matched /\ Reporting
    BY <1>2, <1>3 DEF InWait, InCommand
  <2>3. Matched'
    BY <1>0, <1>1, <2>1, <2>2, LoanReported
  <2>4. Reporting'
    BY <2>1, <2>2 DEF Reporting, DialogueStack
  <2>5. InCommand'
    BY <2>1, <2>2, <2>3, <2>4 DEF InCommand
  <2>6. Interruptible' /\ Reports'
    BY <1>0, <1>1, <2>1, <2>2, StackSame
  <2> QED
    BY <1>2, <2>1, <2>5, <2>6 DEF Safe, Mode
<1>4. CASE ~loan /\ using = "dialogue"
  <2>1. Exit("early")
    BY <1>4 DEF ExpireInlineWait
  <2> QED
    BY <2>1, ExitSafe DEF Exit
<1>5. CASE ~loan /\ using # "dialogue"
  <2>1. /\ inlineWaits' = inlineWaits - 1 /\ events' = Append(events, "part")
        /\ using' = "none" /\ stack' = stack /\ aside' = NoState
        /\ UNCHANGED <<flag, active, passes, pc, executing, loan, shown, fatal>>
    BY <1>5 DEF ExpireInlineWait, VisitDialogue, textVars, inputVars
  <2>2. InWait
    BY <1>2, <1>5 DEF InCommand
  <2>3. events' = <<"part">> /\ inlineWaits' = 0
    BY <2>1, <2>2 DEF InWait
  <2>4. PartDue'
    BY <2>1, <2>2, <2>3 DEF InWait, PartDue, Between
  <2>5. HasUninterruptible(stack)' <=> HasUninterruptible(stack)
    BY <2>1 DEF HasUninterruptible
  <2>6. Interruptible'
    BY <1>0, <1>1, <2>1, <2>5 DEF Interruptible
  <2>7. Reports'
    BY <1>0, <1>5, <2>1 DEF Reports, NoReports, MainStack
  <2> QED
    BY <1>2, <2>1, <2>4, <2>6, <2>7 DEF Safe, Mode
<1> QED
  BY <1>3, <1>4, <1>5

LEMMA LoopStepSafe ==
    DInv /\ (FrameStep \/ EventCallback \/ TakeControl)
      => Safe' /\ fatal' \in {fatal, "early"}
<1> SUFFICES ASSUME DInv, FrameStep \/ EventCallback \/ TakeControl
             PROVE  Safe' /\ fatal' \in {fatal, "early"}
  OBVIOUS
<1>0. /\ TypeInv /\ Interruptible /\ Reports /\ Mode
      /\ passes \in Int /\ stack \in Seq(Frame)
  BY DEF DInv, TypeInv, TypeOK
<1>a. ASSUME pc' = "events" => ~flag,
             UNCHANGED <<stack, aside, using, flag, active, passes, executing, loan,
                         inlineWaits, shown, events, fatal>>
      PROVE  Safe' /\ fatal' \in {fatal, "early"}
  <2>1. Interruptible' /\ Reports'
    BY <1>0, <1>a, StackSame
  <2>2. Reporting => Reporting'
    BY <1>0, <1>a, ReportingStays
  <2> QED
    BY <1>0, <1>a, <2>1, <2>2, ModeSame DEF Safe
<1>1. CASE TextShown
  <2>1. /\ pc = "loop" /\ shown /\ shown' = FALSE /\ events' = Append(events, "part")
        /\ UNCHANGED <<stack, aside, using, flag, active, passes, pc, executing, loan,
                       inlineWaits, fatal>>
    BY <1>1 DEF TextShown, Turn, scriptVars, textVars, inputVars
  <2>2. active /\ Showing
    BY <1>0, <2>1 DEF Mode, Ended, PartDue, Starred, InWait, InCommand
  <2>3. events' = <<"part">>
    BY <2>1, <2>2 DEF Showing
  <2>4. PartDue' /\ using # "dialogue"
    BY <2>1, <2>2, <2>3 DEF Showing, PartDue, Between
  <2>5. Interruptible' /\ Reports'
    BY <1>0, <2>1, <2>4, StackSame
  <2> QED
    BY <2>1, <2>2, <2>4, <2>5 DEF Safe, Mode
<1>2. CASE ExpireInlineWait
  BY <1>2, ExpireKeeps
<1>3. CASE ExpireMainWait
  <2>1. /\ pc = "loop"
        /\ UNCHANGED <<stack, aside, using, flag, active, passes, pc, executing, loan,
                       inlineWaits, shown, events, fatal>>
    BY <1>3 DEF ExpireMainWait, Turn, scriptVars, textVars, controlVars, inputVars
  <2> QED
    BY <1>a, <2>1
<1>4. CASE Input
  <2>1. /\ pc = "loop"
        /\ UNCHANGED <<stack, aside, using, flag, active, passes, pc, executing, loan,
                       inlineWaits, shown, events, fatal>>
    BY <1>4 DEF Input, Turn, scriptVars, textVars, controlVars, waitVars
  <2> QED
    BY <1>a, <2>1
<1>5. CASE EventCallback
  <2>1. /\ pc = "loop" /\ pc' = "loop" /\ ~flag
        /\ stack' = Gosub(stack, CallbackUninterruptible, FALSE)
        /\ flag' = CallbackUninterruptible
        /\ UNCHANGED <<aside, using, active, passes, executing, loan,
                       inlineWaits, shown, events, fatal>>
    BY <1>5 DEF EventCallback, Turn, CallbackDue, textVars, controlVars, waitVars
  <2>2. CallbackUninterruptible \in BOOLEAN /\ Clean(stack)
    BY <1>0, <2>1, ConstantFacts DEF Interruptible, Clean
  <2>3. Interruptible' /\ Reports'
    BY <2>1, <2>2, PushKeeps
  <2>4. Reporting => Reporting'
    BY <1>0, <2>1, <2>2, ReportingStays
  <2> QED
    BY <1>0, <2>1, <2>3, <2>4, ModeSame DEF Safe
<1>6. CASE TakeControl
  <2>1. /\ ~flag
        /\ UNCHANGED <<stack, aside, using, flag, active, passes, executing, loan,
                       inlineWaits, shown, events, fatal>>
    BY <1>6 DEF TakeControl, scriptVars, textVars, waitVars, inputVars
  <2> QED
    BY <1>a, <2>1
<1> QED
  BY <1>1, <1>2, <1>3, <1>4, <1>5, <1>6 DEF FrameStep

-----------------------------------------------------------------------------
(* The controller's steps.                                                 *)

\* An event at the front says what the dialogue is at.
LEMMA EventFacts ==
    ASSUME DInv, NEW kinds, Processing(kinds)
    PROVE  /\ Running /\ pc = "events" /\ Clean(stack) /\ ~flag /\ active
           /\ events # <<>> /\ Head(events) \in kinds
           /\ kinds = {"first", "part"} => PartDue /\ Tail(events) = <<>>
           /\ kinds \in {{"loanStart"}, {"loanEnd"}} => InCommand /\ Matched /\ Reporting
           /\ kinds = {"inlineEnd"} =>
                /\ InCommand /\ Tail(events) = <<>>
                /\ using = "dialogue" /\ ~loan /\ inlineWaits = 0
<1>1. /\ TypeInv /\ Interruptible /\ Mode
      /\ Running /\ pc = "events" /\ Head(events) \in kinds /\ events # <<>>
  BY DEF DInv, TypeInv, Processing
<1>2. Clean(stack) /\ ~flag
  BY <1>1 DEF Interruptible, Clean
<1>3. active /\ (PartDue \/ InCommand)
  BY <1>1 DEF Mode, Ended, Showing, Starred, InWait
<1>4. /\ PartDue => Head(events) \in {"first", "part"} /\ Tail(events) = <<>>
      /\ events = <<"inlineEnd">> => Head(events) = "inlineEnd" /\ Tail(events) = <<>>
  <2>1. \A e : Head(<<e>>) = e /\ Tail(<<e>>) = <<>>
    OBVIOUS
  <2>2. events = <<"first">> => Head(events) = "first" /\ Tail(events) = <<>>
    BY <2>1
  <2>3. events = <<"part">> => Head(events) = "part" /\ Tail(events) = <<>>
    BY <2>1
  <2>4. events = <<"inlineEnd">> => Head(events) = "inlineEnd" /\ Tail(events) = <<>>
    BY <2>1
  <2> QED
    BY <2>2, <2>3, <2>4 DEF PartDue
<1>5. Matched => Head(events) \in {"loanStart", "loanEnd"}
  <2>1. 1 \in DOMAIN events /\ Head(events) = events[1]
    BY <1>1 DEF TypeInv, TypeOK
  <2> QED
    BY <2>1 DEF Matched
<1>6. ASSUME kinds = {"first", "part"} PROVE PartDue /\ Tail(events) = <<>>
  BY <1>1, <1>3, <1>4, <1>5, <1>6 DEF InCommand
<1>7. ASSUME kinds \in {{"loanStart"}, {"loanEnd"}} PROVE InCommand /\ Matched /\ Reporting
  BY <1>1, <1>3, <1>4, <1>7 DEF InCommand
<1>8. ASSUME kinds = {"inlineEnd"}
      PROVE  /\ InCommand /\ Tail(events) = <<>>
             /\ using = "dialogue" /\ ~loan /\ inlineWaits = 0
  BY <1>1, <1>3, <1>4, <1>5, <1>8 DEF InCommand
<1> QED
  BY <1>1, <1>2, <1>3, <1>6, <1>7, <1>8

\* The only event is handled, and at most one more follows it.
LEMMA HandleLast ==
    ASSUME Tail(events) = <<>>, NEW more \in {<<>>, <<"part">>}, Handle(more)
    PROVE  events' = more /\ (pc' = "events" => more = <<"part">>)
<1>1. events' = <<>> \o more /\ (pc' = "events" => events' # <<>>)
  BY DEF Handle
<1>2. <<>> \o <<"part">> = <<"part">> /\ <<>> \o <<>> = <<>>
  OBVIOUS
<1>3. events' = more
  BY <1>1, <1>2
<1> QED
  BY <1>1, <1>3

\* The next part of the text; what of it is not a command.
LEMMA PartFacts ==
    ASSUME DInv, NEW p, AtPart(p)
    PROVE  /\ active /\ PartDue /\ Between /\ Clean(stack) /\ ~flag
           /\ Tail(events) = <<>> /\ using = "none" /\ stack \in Seq(Frame)
           /\ Running
BY EventFacts DEF AtPart, PartDue, Between, DInv, TypeInv, TypeOK

LEMMA TextSafe ==
    ASSUME DInv, NEW p, AtPart(p), NEW more \in {<<>>, <<"part">>}, Handle(more),
           UNCHANGED <<stack, aside, using, flag, active, executing, loan, inlineWaits>>,
           \/ more = <<"part">> /\ ~shown' /\ passes' >= 0
           \/ more = <<>> /\ shown' /\ passes' >= 0
           \/ more = <<>> /\ ~shown' /\ passes' = -1
    PROVE  Safe'
<1>1. active /\ Between /\ ~flag /\ using = "none"
  BY PartFacts
<1>2. events' = more
  BY PartFacts, HandleLast
<1>3. TypeInv /\ Interruptible /\ Reports
  BY DEF DInv
<1>4. Interruptible' /\ Reports'
  BY <1>1, <1>3, StackSame
<1>5. PartDue' \/ Showing' \/ Starred'
  BY <1>1, <1>2 DEF Between, PartDue, Showing, Starred
<1> QED
  BY <1>1, <1>4, <1>5 DEF Safe, Mode

\* The stack in use is what it was, and it is the script's.
LEMMA VisitKeeps ==
    ASSUME DInv, using = "none", ~flag, stack' = stack, flag' = flag,
           \/ using' = "none"
           \/ using' = "main" /\ aside' = stack
    PROVE  Interruptible' /\ Reports'
<1>1. Interruptible /\ Reports /\ Clean(stack)
  BY DEF DInv, Interruptible, Clean
<1>2. /\ HasUninterruptible(stack)' <=> HasUninterruptible(stack)
      /\ aside' = stack => Clean(aside)'
  BY <1>1 DEF HasUninterruptible, Clean
<1>3. Interruptible'
  BY <1>1, <1>2 DEF Interruptible
<1>4. Reports'
  BY <1>1 DEF Reports, NoReports, MainStack
<1> QED
  BY <1>3, <1>4

\* A dialogue's command starts with one frame that reports, on a copy of a
\* stack that may be interrupted.
LEMMA CallKeeps ==
    ASSUME DInv, NEW p \in {"user", "click"}, NEW u \in BOOLEAN, CallSubroutine(p, u)
    PROVE  Safe' /\ fatal' = fatal
<1>1. AtPart(p)
  BY DEF CallSubroutine, NextCommand
<1>2. /\ active /\ PartDue /\ Between /\ Clean(stack) /\ ~flag
      /\ Tail(events) = <<>> /\ using = "none" /\ stack \in Seq(Frame)
      /\ Interruptible /\ Reports
  BY <1>1, PartFacts DEF DInv
<1>3. /\ NextPart(p) /\ using' = "dialogue" /\ aside' = stack
      /\ stack' = Gosub(stack, u, TRUE)
      /\ flag' = (flag \/ u) /\ executing' = TRUE /\ Handle(<<>>)
      /\ UNCHANGED <<passes, loan, shown, inlineWaits, fatal>>
  BY <1>2 DEF CallSubroutine, NextCommand, waitVars
<1>4. events' = <<>> /\ pc' # "events"
  BY <1>2, <1>3, HandleLast
<1>5. active'
  BY <1>2, <1>3 DEF NextPart
<1>6. /\ Len(stack) \in Nat /\ DOMAIN stack = 1..Len(stack)
      /\ DOMAIN stack' = 1..(Len(stack) + 1)
      /\ \A i \in 1..Len(stack) : stack'[i] = stack[i]
      /\ stack'[Len(stack) + 1].eventOnReturn
      /\ HasUninterruptible(stack') <=> u
  <2>1. TRUE \in BOOLEAN /\ Len(stack) \in Nat
    BY <1>2
  <2>2. Gosub(stack, u, TRUE)[Len(stack) + 1].eventOnReturn = TRUE
    BY <1>2, <2>1, GosubFacts
  <2>3. HasUninterruptible(Gosub(stack, u, TRUE)) <=> HasUninterruptible(stack) \/ u
    BY <1>2, <2>1, GosubFacts
  <2>4. \A e \in BOOLEAN :
          /\ DOMAIN Gosub(stack, u, e) = 1..(Len(stack) + 1) /\ DOMAIN stack = 1..Len(stack)
          /\ \A i \in 1..Len(stack) : Gosub(stack, u, e)[i] = stack[i]
    BY <1>2, GosubFacts
  <2> QED
    BY <1>2, <1>3, <2>1, <2>2, <2>3, <2>4 DEF Clean
<1>7. Interruptible'
  <2>1. HasUninterruptible(stack)' <=> HasUninterruptible(stack')
    BY DEF HasUninterruptible
  <2>2. Clean(aside)'
    BY <1>2, <1>3 DEF Clean, HasUninterruptible
  <2>3. flag' <=> u
    BY <1>2, <1>3
  <2> QED
    BY <1>4, <1>6, <2>1, <2>2, <2>3 DEF Interruptible
<1>8. Reports'
  <2>1. NoReports(stack)
    BY <1>2 DEF Reports, MainStack
  <2>2. NoReports(MainStack)'
    BY <1>3, <2>1 DEF MainStack, NoReports
  <2>3. ASSUME NEW i \in DOMAIN stack', stack'[i].eventOnReturn,
               NEW j \in 1..i, j < i \/ events' # <<>>
        PROVE  ~stack'[j].uninterruptible
    <3>1. j \in 1..Len(stack)
      BY <1>4, <1>6, <2>3
    <3> QED
      BY <1>2, <1>6, <3>1 DEF Clean, HasUninterruptible
  <2> QED
    BY <2>2, <2>3 DEF Reports
<1>9. InCommand'
  <2>1. Reporting'
    <3>1. Len(stack) + 1 \in DOMAIN stack'
      BY <1>6
    <3> QED
      BY <1>3, <1>6, <3>1 DEF Reporting, DialogueStack
  <2>2. ~loan' /\ inlineWaits' = 0 /\ ~shown' /\ passes' >= 0
    BY <1>2, <1>3 DEF PartDue, Between
  <2>3. Matched'
    <3>1. DOMAIN events' = {} /\ Len(events)' = 0
      BY <1>4
    <3>2. ~LoanAfter(Len(events))'
      BY <2>2, <3>1 DEF LoanAfter
    <3> QED
      BY <2>2, <3>1, <3>2 DEF Matched
  <2> QED
    BY <1>3, <2>1, <2>2, <2>3 DEF InCommand
<1> QED
  BY <1>3, <1>5, <1>7, <1>8, <1>9 DEF Safe, Mode

\* A loan starts while the dialogue's stack is in use, unless the program
\* ends here, and brings the script's stack, which may be interrupted.
LEMMA StartLoanKeeps == DInv /\ StartLoanExecution => Safe' /\ fatal' \in {fatal, "loan"}
<1> SUFFICES ASSUME DInv, StartLoanExecution PROVE Safe' /\ fatal' \in {fatal, "loan"}
  OBVIOUS
<1>1. Processing({"loanStart"})
  BY DEF StartLoanExecution
<1>2. /\ InCommand /\ Matched /\ Reporting /\ Clean(stack) /\ ~flag /\ active
      /\ events # <<>> /\ Head(events) = "loanStart"
      /\ TypeInv /\ Interruptible /\ Reports /\ events \in Seq(Event)
  BY <1>1, EventFacts DEF DInv, TypeInv, TypeOK
<1>3. CASE using # "dialogue"
  <2>1. Exit("loan")
    BY <1>3 DEF StartLoanExecution
  <2> QED
    BY <2>1, ExitSafe DEF Exit
<1>4. CASE using = "dialogue"
  <2>1. /\ loan' = TRUE /\ using' = "main" /\ stack' = aside /\ aside' = stack /\ Handle(<<>>)
        /\ UNCHANGED <<flag, active, passes, executing, inlineWaits, shown, fatal>>
    BY <1>4 DEF StartLoanExecution, UseMainScript, textVars, waitVars, inputVars
  <2>2. ~loan
    BY <1>2, <1>4 DEF InCommand
  <2>3. ~Doomed(1)
    <3>1. ~LoanAfter(1 - 1)
      BY <2>2 DEF LoanAfter
    <3> QED
      BY <3>1 DEF Doomed
  <2>4. events' = Tail(events)
    <3>1. Tail(events) \in Seq(Event)
      BY <1>2
    <3>2. Tail(events) \o <<>> = Tail(events)
      BY <3>1
    <3> QED
      BY <2>1, <3>2 DEF Handle
  <2>5. Matched'
    BY <1>2, <2>1, <2>3, <2>4, LoanHandled
  <2>6. Reporting'
    BY <1>2, <1>4, <2>1 DEF Reporting, DialogueStack
  <2>7. InCommand'
    BY <1>2, <2>1, <2>5, <2>6 DEF InCommand
  <2>8. Clean(stack)' /\ Clean(aside)'
    BY <1>2, <1>4, <2>1 DEF Interruptible, Clean, HasUninterruptible
  <2>9. Interruptible'
    BY <1>2, <2>1, <2>8 DEF Interruptible, Clean
  <2>10. Reports'
    BY <1>2, <1>4, <2>1 DEF Reports, NoReports, MainStack
  <2> QED
    BY <1>2, <2>1, <2>7, <2>9, <2>10 DEF Safe, Mode
<1> QED
  BY <1>3, <1>4

\* A loan ends only while it is on: the script's stack is in use, and the
\* dialogue's, which may be interrupted, is back.
LEMMA EndLoanKeeps == DInv /\ EndLoanExecution => Safe' /\ fatal' = fatal
<1> SUFFICES ASSUME DInv, EndLoanExecution PROVE Safe' /\ fatal' = fatal
  OBVIOUS
<1>1. Processing({"loanEnd"})
  BY DEF EndLoanExecution
<1>2. /\ InCommand /\ Matched /\ Reporting /\ Clean(stack) /\ ~flag /\ active
      /\ events # <<>> /\ Head(events) = "loanEnd"
      /\ TypeInv /\ Interruptible /\ Reports /\ events \in Seq(Event)
  BY <1>1, EventFacts DEF DInv, TypeInv, TypeOK
<1>3. loan
  <2>1. 1 \in DOMAIN events /\ events[1] = "loanEnd"
    BY <1>2
  <2>2. LoanAfter(1 - 1) \/ \E m \in 1..(1 - 1) : Doomed(m)
    BY <1>2, <2>1 DEF Matched
  <2>3. 1 - 1 = 0 /\ 1..(1 - 1) = {}
    OBVIOUS
  <2> QED
    BY <2>2, <2>3 DEF LoanAfter
<1>4. using = "main"
  BY <1>2, <1>3 DEF InCommand
<1>5. /\ loan' = FALSE /\ using' = "dialogue" /\ stack' = aside /\ aside' = stack
      /\ Handle(<<>>)
      /\ UNCHANGED <<flag, active, passes, executing, inlineWaits, shown, fatal>>
  BY <1>4 DEF EndLoanExecution, UseDialogue, textVars, waitVars, inputVars
<1>6. ~Doomed(1) /\ Head(events) # "loanStart"
  BY <1>2 DEF Doomed
<1>7. events' = Tail(events)
  <2>1. Tail(events) \in Seq(Event)
    BY <1>2
  <2>2. Tail(events) \o <<>> = Tail(events)
    BY <2>1
  <2> QED
    BY <1>5, <2>2 DEF Handle
<1>8. Matched'
  BY <1>2, <1>5, <1>6, <1>7, LoanHandled
<1>9. Reporting'
  BY <1>2, <1>4, <1>5 DEF Reporting, DialogueStack
<1>10. InCommand'
  BY <1>2, <1>5, <1>8, <1>9 DEF InCommand
<1>11. Clean(stack)' /\ Clean(aside)'
  BY <1>2, <1>4, <1>5 DEF Interruptible, Clean, HasUninterruptible
<1>12. Interruptible'
  BY <1>2, <1>5, <1>11 DEF Interruptible, Clean
<1>13. Reports'
  <2>1. NoReports(MainStack)'
    BY <1>2, <1>4, <1>5 DEF Reports, NoReports, MainStack
  <2>2. stack' \in Seq(Frame)
    BY <1>2, <1>5 DEF TypeInv, TypeOK
  <2>3. ASSUME NEW i \in DOMAIN stack', NEW j \in 1..i PROVE ~stack'[j].uninterruptible
    <3>1. j \in DOMAIN stack'
      BY <2>2, <2>3
    <3> QED
      BY <1>11, <3>1 DEF Clean, HasUninterruptible
  <2> QED
    BY <2>1, <2>3 DEF Reports
<1> QED
  BY <1>2, <1>5, <1>10, <1>12, <1>13 DEF Safe, Mode

LEMMA EndInlineKeeps == DInv /\ EndInlineCommand => Safe' /\ fatal' = fatal
<1> SUFFICES ASSUME DInv, EndInlineCommand PROVE Safe' /\ fatal' = fatal
  OBVIOUS
<1>1. Processing({"inlineEnd"})
  BY DEF EndInlineCommand
<1>2. /\ InCommand /\ Tail(events) = <<>> /\ using = "dialogue" /\ ~loan /\ inlineWaits = 0
      /\ Clean(stack) /\ ~flag /\ active /\ Interruptible /\ Reports
  BY <1>1, EventFacts DEF DInv
<1>3. /\ executing' = FALSE /\ using' = "none" /\ stack' = aside /\ Handle(<<"part">>)
      /\ UNCHANGED <<flag, active, passes, loan, inlineWaits, shown, fatal>>
  BY <1>2 DEF EndInlineCommand, DisposeDialogue, textVars, waitVars, inputVars
<1>4. events' = <<"part">>
  BY <1>2, <1>3, HandleLast
<1>5. PartDue'
  BY <1>2, <1>3, <1>4 DEF InCommand, PartDue, Between
<1>6. Clean(stack)'
  BY <1>2, <1>3 DEF Interruptible, Clean, HasUninterruptible
<1>7. Interruptible'
  BY <1>2, <1>3, <1>6 DEF Interruptible, Clean
<1>8. Reports'
  BY <1>2, <1>3 DEF Reports, NoReports, MainStack
<1> QED
  BY <1>2, <1>3, <1>5, <1>7, <1>8 DEF Safe, Mode

LEMMA DialogueStepSafe == DInv /\ DialogueStep => Safe' /\ fatal' \in {fatal, "loan", "plain"}
<1> SUFFICES ASSUME DInv, DialogueStep PROVE Safe' /\ fatal' \in {fatal, "loan", "plain"}
  OBVIOUS
<1> DEFINE Goal == Safe' /\ fatal' = fatal
<1>0. passes \in Int
  BY DEF DInv, TypeInv, TypeOK
<1>1. ASSUME NEW skip \in BOOLEAN, ShowText(skip) PROVE Goal
  <2>1. /\ AtPart("text") /\ shown' = ~skip /\ Handle(IF skip THEN <<"part">> ELSE <<>>)
        /\ UNCHANGED <<stack, aside, using, flag, active, executing, loan, inlineWaits,
                       passes, fatal>>
    BY <1>1 DEF ShowText, NextPart, scriptVars
  <2>2. passes >= 0
    BY <2>1, PartFacts DEF PartDue
  <2> QED
    BY <2>1, <2>2, TextSafe
<1>2. ASSUME RunBuiltin PROVE Goal
  <2>1. AtPart("builtin")
    BY <1>2 DEF RunBuiltin, NextCommand
  <2>2. /\ active /\ PartDue /\ Between /\ ~flag /\ Tail(events) = <<>> /\ using = "none"
    BY <2>1, PartFacts
  <2>3. /\ NextPart("builtin") /\ using' = "none" /\ stack' = stack /\ executing' = FALSE
        /\ Handle(<<"part">>)
        /\ UNCHANGED <<flag, passes, loan, inlineWaits, shown, fatal>>
    BY <1>2, <2>2 DEF RunBuiltin, NextCommand, VisitDialogue, waitVars
  <2>4. active' /\ events' = <<"part">>
    BY <2>2, <2>3, HandleLast DEF NextPart
  <2>5. PartDue'
    BY <2>2, <2>3, <2>4 DEF PartDue, Between
  <2> QED
    BY <2>2, <2>3, <2>4, <2>5, VisitKeeps DEF Safe, Mode
<1>3. ASSUME RunBuiltinWait PROVE Goal
  <2>1. AtPart("wait")
    BY <1>3 DEF RunBuiltinWait, NextCommand
  <2>2. /\ active /\ PartDue /\ Between /\ ~flag /\ Tail(events) = <<>> /\ using = "none"
    BY <2>1, PartFacts
  <2>3. /\ NextPart("wait") /\ using' = "main" /\ stack' = stack /\ aside' = stack
        /\ executing' = FALSE /\ inlineWaits' = inlineWaits + 1 /\ Handle(<<>>)
        /\ UNCHANGED <<flag, passes, loan, shown, fatal>>
    BY <1>3, <2>2 DEF RunBuiltinWait, NextCommand
  <2>4. active' /\ events' = <<>>
    BY <2>2, <2>3, HandleLast DEF NextPart
  <2>5. InWait'
    BY <2>2, <2>3, <2>4 DEF PartDue, Between, InWait
  <2> QED
    BY <2>2, <2>3, <2>4, <2>5, VisitKeeps DEF Safe, Mode
<1>4. ASSUME NEW p \in {"user", "click"}, NEW u \in BOOLEAN, CallSubroutine(p, u)
      PROVE  Goal
  BY <1>4, CallKeeps
<1>a. ASSUME PassStar \/ PassHash, ~d2 PROVE Safe' /\ fatal' = "plain"
  <2>1. Exit("plain")
    BY <1>a DEF PassStar, PassHash, NextMeeting
  <2> QED
    BY <2>1, ExitSafe DEF Exit
<1>5. ASSUME PassStar, d2 PROVE Goal
  <2>1. /\ AtPart("star") /\ passes' = passes - 1
        /\ Handle(IF passes > 0 THEN <<"part">> ELSE <<>>)
        /\ UNCHANGED <<stack, aside, using, flag, active, executing, loan, inlineWaits,
                       shown, fatal>>
    BY <1>5 DEF PassStar, NextMeeting, NextPart, scriptVars, waitVars
  <2>2. passes >= 0 /\ ~shown
    BY <2>1, PartFacts DEF PartDue
  <2>3. CASE passes > 0
    BY <1>0, <2>1, <2>2, <2>3, TextSafe
  <2>4. CASE passes = 0
    BY <1>0, <2>1, <2>2, <2>4, TextSafe
  <2> QED
    BY <1>0, <2>2, <2>3, <2>4
<1>6. ASSUME PassHash, d2 PROVE Goal
  <2>1. /\ AtPart("hash") /\ Handle(<<"part">>)
        /\ UNCHANGED <<stack, aside, using, flag, active, executing, loan, inlineWaits,
                       shown, passes, fatal>>
    BY <1>6 DEF PassHash, NextMeeting, NextPart, scriptVars, waitVars
  <2>2. passes >= 0 /\ ~shown
    BY <2>1, PartFacts DEF PartDue
  <2> QED
    BY <2>1, <2>2, TextSafe
<1>7. ASSUME EndText PROVE Goal
  <2>1. Processing({"first", "part"})
    BY <1>7 DEF EndText
  <2>2. /\ active /\ PartDue /\ Between /\ ~flag /\ Tail(events) = <<>> /\ using = "none"
    BY <2>1, EventFacts DEF PartDue, Between
  <2>3. /\ active' = FALSE /\ executing' = FALSE /\ shown' = FALSE /\ passes' = 0
        /\ using' = "none" /\ stack' = stack /\ Handle(<<>>)
        /\ UNCHANGED <<flag, loan, inlineWaits, fatal>>
    BY <1>7, <2>2 DEF EndText, DisposeDialogue, inputVars
  <2>4. events' = <<>>
    BY <2>2, <2>3, HandleLast
  <2>5. Ended'
    BY <2>2, <2>3, <2>4 DEF Between, Ended
  <2> QED
    BY <2>2, <2>3, <2>5, VisitKeeps DEF Safe, Mode
<1>8. ASSUME EndLoanExecution \/ EndInlineCommand PROVE Goal
  BY <1>8, EndLoanKeeps, EndInlineKeeps
<1> QED
  BY <1>1, <1>2, <1>3, <1>4, <1>5, <1>6, <1>7, <1>8, <1>a, StartLoanKeeps DEF DialogueStep

-----------------------------------------------------------------------------
(* The invariant, and what follows.                                        *)

LEMMA DInvStep == DInv /\ [Next]_vars => DInv'
<1> SUFFICES ASSUME DInv, [Next]_vars PROVE DInv'
  OBVIOUS
<1>1. TypeInv'
  BY TypeStep DEF DInv
<1>2. Safe' /\ fatal' \in {fatal, "early", "loan", "plain"}
  <2>1. CASE UNCHANGED vars
    <3>1. /\ UNCHANGED <<stack, aside, using, flag, active, passes, pc, executing, loan,
                         inlineWaits, shown, events, fatal>>
          /\ TypeInv /\ Interruptible /\ Reports /\ Mode /\ passes \in Int
          /\ pc = "events" => ~flag
      BY <2>1 DEF vars, scriptVars, textVars, controlVars, waitVars, inputVars, DInv,
                  TypeInv, TypeOK, Interruptible
    <3>2. Interruptible' /\ Reports'
      BY <3>1, StackSame
    <3>3. Reporting => Reporting'
      BY <3>1 DEF Reporting, DialogueStack
    <3> QED
      BY <3>1, <3>2, <3>3, ModeSame DEF Safe
  <2>2. CASE Next
    BY <2>2, ScriptStepSafe, LoopStepSafe, DialogueStepSafe DEF Next
  <2> QED
    BY <2>1, <2>2
<1>3. OnlyKnownFatal'
  BY <1>2 DEF DInv, OnlyKnownFatal
<1> QED
  BY <1>1, <1>2, <1>3 DEF DInv, Safe

LEMMA Invariant == Spec => []DInv
BY DInvInit, DInvStep, PTL DEF Spec

\* Whatever the script does, and however waits, loans and callbacks
\* interleave, a dialogue that has not ended has its next part on the way: an
\* event, a segment fading in, a wait, a command that will report its end, or
\* a [*] that d_continue releases.
THEOREM DialogueDrivenCorrect == Spec => []DialogueDriven
<1>1. DInv => DialogueDriven
  BY DInvImplies
<1> QED
  BY Invariant, <1>1, PTL

\* It has never two on the way: no part starts while another has still to
\* report (the dialogue posts an event only for parts that leave none behind).
THEOREM OnePartAtATimeCorrect == Spec => []OnePartAtATime
<1>1. DInv => OnePartAtATime
  BY DInvImplies
<1> QED
  BY Invariant, <1>1, PTL

\* Of the checks that end the program only two can fire: a wait that ends
\* before its loan, and a wait of the script during one.  A part of the text,
\* an inline command's end and a loan's end always find the state they expect
\* (useDialogue, useMainScript and disposeDialogue).
THEOREM OnlyKnownFatalCorrect == Spec => []OnlyKnownFatal
<1>1. DInv => OnlyKnownFatal
  BY DEF DInv
<1> QED
  BY Invariant, <1>1, PTL

LEMMA ScriptStepQuiet == ScriptStep => pc' = pc /\ callback' = callback
<1>1. ASSUME Command PROVE callback' = callback
  BY <1>1 DEF Command
<1>2. ASSUME NEW t \in Dialogues, StartDialogue(t) PROVE pc' = pc /\ callback' = callback
  BY <1>1, <1>2 DEF StartDialogue
<1>3. ASSUME StartWait PROVE pc' = pc /\ callback' = callback
  BY <1>1, <1>3 DEF StartWait
<1>4. ASSUME NEW u \in BOOLEAN, GosubCommand(u) PROVE pc' = pc /\ callback' = callback
  BY <1>1, <1>4 DEF GosubCommand, controlVars
<1>5. ASSUME ReturnCommand PROVE pc' = pc /\ callback' = callback
  BY <1>5 DEF ReturnCommand, inputVars
<1>6. ASSUME GetparamCommand PROVE pc' = pc /\ callback' = callback
  BY <1>1, <1>6 DEF GetparamCommand, controlVars
<1>7. ASSUME MainGotoCommand PROVE pc' = pc /\ callback' = callback
  BY <1>1, <1>7 DEF MainGotoCommand, controlVars
<1>8. ASSUME DialogueContinueCommand PROVE pc' = pc /\ callback' = callback
  BY <1>1, <1>8 DEF DialogueContinueCommand
<1>9. ASSUME NEW i \in Index, WaitOnDialogueCommand(i) PROVE pc' = pc /\ callback' = callback
  BY <1>1, <1>9 DEF WaitOnDialogueCommand, controlVars
<1> QED
  BY <1>2, <1>3, <1>4, <1>5, <1>6, <1>7, <1>8, <1>9 DEF ScriptStep

LEMMA FrameStepQuiet == FrameStep => pc' = pc /\ (callback => callback')
<1>1. ASSUME TextShown PROVE pc' = pc /\ (callback => callback')
  BY <1>1 DEF TextShown, inputVars
<1>2. ASSUME ExpireInlineWait PROVE pc' = pc /\ (callback => callback')
  BY <1>2 DEF ExpireInlineWait, Exit, controlVars, inputVars
<1>3. ASSUME ExpireMainWait PROVE pc' = pc /\ (callback => callback')
  BY <1>3 DEF ExpireMainWait, controlVars, inputVars
<1>4. ASSUME Input PROVE pc' = pc /\ (callback => callback')
  BY <1>4 DEF Input, controlVars
<1> QED
  BY <1>1, <1>2, <1>3, <1>4 DEF FrameStep

\* While an uninterruptible label is on the stack in use no event callback
\* is called and no dialogue event handled: the flag that executeLabel reads
\* is never down when a label, from whichever stack, says otherwise.
THEOREM UninterruptibleHonouredCorrect == Spec => UninterruptibleHonoured
<1> DEFINE Honoured ==
      HasUninterruptible(stack) => pc = "loop" /\ pc' = "loop" /\ (callback => callback')
<1>1. DInv /\ [Next]_vars => [Honoured]_vars
  <2> SUFFICES ASSUME DInv, Next, HasUninterruptible(stack)
               PROVE  pc = "loop" /\ pc' = "loop" /\ (callback => callback')
    OBVIOUS
  <2>1. flag /\ pc = "loop"
    BY DEF DInv, Interruptible, TypeInv, TypeOK
  <2>2. CASE EventCallback
    BY <2>1, <2>2 DEF EventCallback, CallbackDue
  <2>3. CASE TakeControl
    BY <2>1, <2>3 DEF TakeControl
  <2>4. CASE ScriptStep
    <3>1. pc' = pc /\ callback' = callback
      BY <2>4, ScriptStepQuiet
    <3> QED
      BY <2>1, <3>1
  <2>5. CASE DialogueStep
    <3>1. pc = "events"
      BY <2>5 DEF DialogueStep, ShowText, RunBuiltin, RunBuiltinWait, CallSubroutine,
           PassStar, PassHash, EndText, StartLoanExecution, EndLoanExecution,
           EndInlineCommand, NextCommand, NextMeeting, NextPart, AtPart, Processing
    <3> QED
      BY <2>1, <3>1
  <2>6. CASE FrameStep
    <3>1. pc' = pc /\ (callback => callback')
      BY <2>6, FrameStepQuiet
    <3> QED
      BY <2>1, <3>1
  <2> QED
    BY <2>2, <2>3, <2>4, <2>5, <2>6 DEF Next
<1> QED
  BY Invariant, <1>1, PTL DEF Spec, UninterruptibleHonoured
=============================================================================
