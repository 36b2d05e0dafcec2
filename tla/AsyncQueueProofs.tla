-------------------------- MODULE AsyncQueueProofs --------------------------
(***************************************************************************)
(* Safety of AsyncQueue for every set of instructions, threads and kinds   *)
(* of queue.  The argument: `running` is the witness that a live thread    *)
(* exists, `thread` is that thread, and whatever main does while it stops  *)
(* or restarts the queue keeps the two in step.                            *)
(***************************************************************************)
EXTENDS AsyncQueue, TLAPS

\* A subsequence of a sequence over S is a sequence over S and no longer.
LEMMA SubsequenceFacts ==
    ASSUME NEW S, NEW s \in Seq(S), NEW u \in Subsequences(s)
    PROVE  u \in Seq(S) /\ Len(u) <= Len(s) /\ (s = <<>> => u = <<>>)
<1>1. PICK m \in 0..Len(s) : \E f \in Picks(m, Len(s)) :
          u = [k \in 1..m |-> s[f[k]]]
  BY DEF Subsequences
<1>2. PICK f \in Picks(m, Len(s)) : u = [k \in 1..m |-> s[f[k]]]
  BY <1>1
<1>3. \A k \in 1..m : f[k] \in 1..Len(s)
  BY <1>2 DEF Picks
<1>4. u \in [1..m -> S]
  BY <1>2, <1>3
<1>5. m \in Nat /\ Len(s) \in Nat
  OBVIOUS
<1>6. u \in Seq(S) /\ Len(u) = m
  BY <1>4, <1>5
<1> QED  BY <1>6

\* So is a sequence with one of its elements brought to the front.
LEMMA ToFrontFacts ==
    ASSUME NEW S, NEW s \in Seq(S), NEW n \in 1..Len(s)
    PROVE  ToFront(s, n) \in Seq(S) /\ Len(ToFront(s, n)) = Len(s) /\ s # <<>>
<1>1. Len(s) \in Nat /\ \A k \in 1..Len(s) : s[k] \in S
  OBVIOUS
<1>2. \A k \in 1..Len(s) :
          (IF k = 1 THEN s[n] ELSE IF k <= n THEN s[k - 1] ELSE s[k]) \in S
  BY <1>1
<1>3. ToFront(s, n) \in [1..Len(s) -> S]
  BY <1>2 DEF ToFront
<1>4. ToFront(s, n) \in Seq(S) /\ Len(ToFront(s, n)) = Len(s)
  BY <1>1, <1>3
<1> QED  BY <1>4

\* What main's edits make of the deque.
LEMMA EditFacts ==
    ASSUME q \in Seq(Instr), EditSteps
    PROVE  q' \in Seq(Instr) /\ Len(q') <= Len(q) /\ (q = <<>> => q' = <<>>)
<1>1. CASE EraseCancelled
  BY <1>1, SubsequenceFacts DEF EraseCancelled
<1>2. CASE Promote
  BY <1>2, ToFrontFacts DEF Promote
<1> QED  BY <1>1, <1>2 DEF EditSteps

\* What main and the worker hold while they need it.
Hands ==
    /\ main \in {"join", "push"} => arg.instr \in Instr
    /\ main = "join" => joining \in Thread
    /\ \A t \in Thread : pc[t] = "execute" => cur[t] \in Instr

TypeInv == TypeOK /\ Hands

\* The part of TypeOK about the two flags.
Flags == running \in BOOLEAN /\ shutdown \in BOOLEAN

LEMMA TypeInit == Init => TypeInv
<1> SUFFICES ASSUME Init PROVE TypeInv
  OBVIOUS
<1>1. Flags
  BY Zenon DEF Init, Flags
<1>2. arg \in [instr : Instr \cup {NoInstr}, priority : BOOLEAN]
  <2>1. arg = [instr |-> NoInstr, priority |-> FALSE]
    BY DEF Init
  <2> QED  BY <2>1, Zenon
<1>3. /\ pc \in [Thread -> Live \cup {"none", "done"}]
      /\ cur \in [Thread -> Instr \cup {NoInstr}]
      /\ \A t \in Thread : pc[t] # "execute"
  BY DEF Init
<1>4. Hands
  BY <1>3 DEF Init, Hands
<1> QED  BY <1>1, <1>2, <1>3, <1>4 DEF Init, Flags, TypeInv, TypeOK, MainPlaces

\* The flags stay Booleans.
LEMMA FlagsStep == Flags /\ [Next]_vars => Flags'
<1> SUFFICES ASSUME Flags, [Next]_vars PROVE Flags'
  OBVIOUS
<1> USE DEF Flags, threadVars, flags
<1>1. CASE MainChoice
  BY <1>1, Zenon DEF MainChoice, Queue, QueueEnter, StartDrain, EditBegin,
                     DrainResults, StopBegin
<1>2. CASE QueueSteps
  BY <1>2, Zenon DEF QueueSteps, QueueJoin, Push, EnsureRunning
<1>3. CASE WaitSteps
  BY <1>3, Zenon DEF WaitSteps, AwaitResult, TakeResult, DrainDone, ContinueAt
<1>4. CASE StopSteps
  BY <1>4, Zenon DEF StopSteps, StopPost, StopRead, StopJoin, StopReset, StopEnd
<1>5. CASE DrainPoll \/ SpawnFails \/ EditSteps
  BY <1>5, Zenon DEF DrainPoll, SpawnFails, EditSteps, EraseCancelled, Promote
<1>6. ASSUME NEW t \in Thread, Worker(t) PROVE Flags'
  BY <1>6, Zenon DEF Worker, Check, SemWait, Recheck, Fetch, Execute, Throw, Finish, Leave
<1>7. CASE UNCHANGED vars
  BY <1>7, Zenon DEF vars
<1> QED
  BY <1>1, <1>2, <1>3, <1>4, <1>5, <1>6, <1>7, Zenon
     DEF Next, MainProgress, ProcessOver

\* Types are preserved by every step.
LEMMA TypeStep == TypeInv /\ [Next]_vars => TypeInv'
<1> SUFFICES ASSUME TypeOK, Hands, [Next]_vars PROVE TypeInv'
  BY DEF TypeInv
<1>0. running' \in BOOLEAN /\ shutdown' \in BOOLEAN
  BY FlagsStep DEF Flags, TypeOK
<1> USE <1>0 DEF TypeInv, TypeOK, Hands, MainPlaces, Stopping, Live,
            queueVars, threadVars, mainVars, flags
<1>1. ASSUME NEW i \in Instr, NEW p \in BOOLEAN, QueueEnter(i, p) PROVE TypeInv'
  <2>1. arg' = [instr |-> i, priority |-> p]
    BY <1>1, Zenon DEF QueueEnter
  <2>2. arg' \in [instr : Instr \cup {NoInstr}, priority : BOOLEAN] /\ arg'.instr \in Instr
    BY <2>1
  <2>3. CASE thread # NoThread /\ ~running
    BY <1>1, <2>2, <2>3 DEF QueueEnter
  <2>4. CASE ~(thread # NoThread /\ ~running)
    BY <1>1, <2>2, <2>4 DEF QueueEnter
  <2> QED  BY <2>3, <2>4
<1>2. CASE QueueJoin
  BY <1>2 DEF QueueJoin
<1>3. CASE Push
  <2>1. q' \in Seq(Instr) /\ items' \in Nat
    BY <1>3 DEF Push
  <2> QED  BY <1>3, <2>1 DEF Push
<1>4. CASE EnsureRunning
  BY <1>4 DEF EnsureRunning, Unused, AfterQueue
<1>5. CASE AwaitResult \/ DrainDone
  <2>1. main' \in {"take", "idle", "stopPost"} /\ exit' \in {exit, "begun"}
    BY <1>5, Zenon DEF AwaitResult, DrainDone, ContinueAt
  <2> QED  BY <1>5, <2>1 DEF AwaitResult, DrainDone
<1>6. CASE StartDrain \/ DrainPoll \/ DrainResults \/ EditBegin
  BY <1>6 DEF StartDrain, DrainPoll, DrainResults, EditBegin
<1>7. CASE EditSteps
  <2>1. q' \in Seq(Instr)
    BY <1>7, EditFacts
  <2> QED  BY <1>7, <2>1 DEF EditSteps, EraseCancelled, Promote
<1>8. CASE StopBegin
  BY <1>8 DEF StopBegin
<1>9. CASE StopPost \/ StopRead \/ StopJoin
  BY <1>9 DEF StopPost, StopRead, StopJoin
<1>10. CASE StopReset
  BY <1>10 DEF StopReset
<1>17. CASE StopEnd \/ SpawnFails
  BY <1>17 DEF StopEnd, SpawnFails
<1>18. CASE TakeResult
  <2>1. results' \in Seq(Instr)
    BY <1>18 DEF TakeResult
  <2> QED  BY <1>18, <2>1 DEF TakeResult
<1>11. ASSUME NEW t \in Thread, Check(t) \/ SemWait(t) \/ Recheck(t) \/ Leave(t)
       PROVE TypeInv'
  BY <1>11 DEF Check, SemWait, Recheck, Leave
<1>12. ASSUME NEW t \in Thread, Fetch(t) PROVE TypeInv'
  <2>1. CASE q = <<>>
    BY <1>12, <2>1 DEF Fetch
  <2>2. CASE q # <<>>
    <3>0. q' = q \/ q' = Tail(q)
      BY <1>12, <2>2, Zenon DEF Fetch
    <3>1. Head(q) \in Instr /\ q' \in Seq(Instr)
      <4>1. q \in Seq(Instr) /\ q # <<>>
        BY <2>2
      <4>2. Head(q) \in Instr /\ Tail(q) \in Seq(Instr)
        BY <4>1
      <4> QED  BY <3>0, <4>1, <4>2
    <3>2. /\ pc' = [pc EXCEPT ![t] = "execute"]
          /\ cur' = [cur EXCEPT ![t] = Head(q)]
      BY <1>12, <2>2, Zenon DEF Fetch
    <3> QED  BY <1>12, <3>1, <3>2 DEF Fetch
  <2> QED  BY <2>1, <2>2
<1>13. ASSUME NEW t \in Thread, Execute(t) PROVE TypeInv'
  <2>1. cur[t] \in Instr /\ results' \in Seq(Instr)
    BY <1>13 DEF Execute
  <2> QED  BY <1>13, <2>1 DEF Execute
<1>14. ASSUME NEW t \in Thread, Throw(t) PROVE TypeInv'
  BY <1>14 DEF Throw
<1>15. ASSUME NEW t \in Thread, Finish(t) PROVE TypeInv'
  <2>1. tokens' \in Nat
    BY <1>15 DEF Finish
  <2>2. cur' = [cur EXCEPT ![t] = NoInstr]
    BY <1>15 DEF Finish
  <2>3. \E p \in {"done", "check"} : pc' = [pc EXCEPT ![t] = p]
    BY <1>15 DEF Finish
  <2>4. /\ pc' \in [Thread -> Live \cup {"none", "done"}]
        /\ \A u \in Thread : pc'[u] = "execute" => cur'[u] \in Instr
    BY <2>2, <2>3
  <2> QED  BY <1>15, <2>1, <2>2, <2>4 DEF Finish
<1>16. CASE UNCHANGED vars
  BY <1>16 DEF vars
<1> QED
  BY <1>1, <1>2, <1>3, <1>4, <1>5, <1>6, <1>7, <1>8, <1>9, <1>10, <1>11,
     <1>12, <1>13, <1>14, <1>15, <1>16, <1>17, <1>18
     DEF Next, MainChoice, MainProgress, Queue, QueueSteps, WaitSteps, StopSteps,
         Worker, ProcessOver

\* Every variable keeps to its type, for all constants and kinds of queue.
THEOREM TypeCorrect == Spec => []TypeOK
<1>1. TypeInv => TypeOK
  BY DEF TypeInv
<1> QED  BY <1>1, TypeInit, TypeStep, PTL DEF Spec

-----------------------------------------------------------------------------
(* One worker at a time.                                                   *)

Safe == TypeInv /\ Coherent

LEMMA CoherentInit == Init => Coherent
BY ConstantsAssumption DEF Init, Coherent, OneWorker, Live, Stopping

\* Coherent is inductive: main starts a thread only when `running` says that
\* none is live, and stops one by joining the handle it retains.
LEMMA CoherentStep == Safe /\ [Next]_vars => Coherent'
<1> SUFFICES ASSUME TypeOK, Hands, Coherent, [Next]_vars PROVE Coherent'
  BY DEF Safe, TypeInv
<1> USE ConstantsAssumption
        DEF TypeOK, Hands, Coherent, OneWorker, Stopping, Live,
            queueVars, threadVars, mainVars, flags
<1>1. ASSUME NEW i \in Instr, NEW p \in BOOLEAN, QueueEnter(i, p) PROVE Coherent'
  <2>1. CASE thread # NoThread /\ ~running
    BY <1>1, <2>1 DEF QueueEnter
  <2>2. CASE ~(thread # NoThread /\ ~running)
    BY <1>1, <2>2 DEF QueueEnter
  <2> QED  BY <2>1, <2>2
<1>2. CASE QueueJoin
  BY <1>2 DEF QueueJoin
<1>3. CASE Push
  BY <1>3 DEF Push
<1>4. CASE EnsureRunning
  <2>1. CASE running
    BY <1>4, <2>1 DEF EnsureRunning, AfterQueue
  <2>2. CASE ~running
    <3>1. PICK t \in Thread : Unused(t) /\ thread' = t /\ pc' = [pc EXCEPT ![t] = "check"]
      BY <1>4, <2>2 DEF EnsureRunning
    <3>2. running' /\ main' \in {"await", "idle"} /\ joining' = joining
      BY <1>4, <2>2 DEF EnsureRunning, AfterQueue
    <3>3. \A u \in Thread : pc[u] \notin Live
      BY <2>2
    <3> QED  BY <1>4, <2>2, <3>1, <3>2, <3>3 DEF EnsureRunning
  <2> QED  BY <2>1, <2>2
<1>5. CASE AwaitResult \/ DrainDone
  <2>1. \/ main' \in {"take", "idle"} /\ UNCHANGED flags
        \/ main' = "stopPost"
    BY <1>5, Zenon DEF AwaitResult, DrainDone, ContinueAt
  <2> QED  BY <1>5, <2>1 DEF AwaitResult, DrainDone
<1>6. CASE TakeResult \/ StartDrain \/ DrainPoll \/ DrainResults \/ EditBegin
           \/ EditSteps
  BY <1>6 DEF TakeResult, StartDrain, DrainPoll, DrainResults, EditBegin,
              EditSteps, EraseCancelled, Promote
<1>7. CASE StopBegin \/ StopPost \/ StopRead \/ SpawnFails
  BY <1>7 DEF StopBegin, StopPost, StopRead, SpawnFails
<1>8. CASE StopJoin
  <2>1. CASE joining = NoThread
    BY <1>8, <2>1 DEF StopJoin
  <2>2. CASE joining # NoThread
    BY <1>8, <2>2 DEF StopJoin
  <2> QED  BY <2>1, <2>2
<1>9. CASE StopReset \/ StopEnd
  BY <1>9 DEF StopReset, StopEnd
<1>10. ASSUME NEW t \in Thread, Worker(t) PROVE Coherent'
  <2>1. pc[t] \in Live /\ thread = t /\ running
    BY <1>10 DEF Worker, Check, SemWait, Recheck, Fetch, Execute, Throw, Finish, Leave
  <2>2. main \notin {"join", "stopReset", "stopClear"}
    BY <2>1
  <2>3. UNCHANGED <<thread, shutdown, main, joining>>
    BY <1>10 DEF Worker, Check, SemWait, Recheck, Fetch, Execute, Throw, Finish, Leave
  <2>4. CASE ~(Finish(t) \/ Leave(t))
    <3>1. running' /\ \E p \in Live : pc' = [pc EXCEPT ![t] = p]
      BY <1>10, <2>1, <2>4 DEF Worker, Check, SemWait, Recheck, Fetch, Execute, Throw
    <3> QED  BY <2>1, <2>2, <2>3, <3>1
  <2>5. CASE Finish(t) \/ Leave(t)
    <3>1. \/ ~running' /\ pc' = [pc EXCEPT ![t] = "done"]
          \/ running' /\ pc' = [pc EXCEPT ![t] = "check"]
      BY <2>1, <2>5 DEF Finish, Leave
    <3> QED  BY <2>1, <2>2, <2>3, <3>1
  <2> QED  BY <2>4, <2>5
<1>11. CASE UNCHANGED vars
  BY <1>11 DEF vars
<1> QED
  BY <1>1, <1>2, <1>3, <1>4, <1>5, <1>6, <1>7, <1>8, <1>9, <1>10, <1>11
     DEF Next, MainChoice, MainProgress, Queue, QueueSteps, WaitSteps, StopSteps,
         ProcessOver

LEMMA SafeInvariant == Spec => []Safe
<1>1. Init => Safe
  BY TypeInit, CoherentInit DEF Safe
<1>2. Safe /\ [Next]_vars => Safe'
  BY TypeStep, CoherentStep DEF Safe
<1> QED  BY <1>1, <1>2, PTL DEF Spec

\* The flag, the retained handle and the handle being joined agree on which
\* thread there is, wherever queue(), endThreads() and the worker are.
THEOREM CoherentCorrect == Spec => []Coherent
<1>1. Safe => Coherent
  BY DEF Safe
<1> QED  BY <1>1, SafeInvariant, PTL

\* Instructions of one queue never run concurrently: at most one thread is in
\* asyncLoop, whatever queue(), endThreads() and the workers interleave.
THEOREM OneWorkerCorrect == Spec => []OneWorker
<1>1. Safe => OneWorker
  BY DEF Safe, Coherent
<1> QED  BY <1>1, SafeInvariant, PTL

\* endThreads() leaves a queue that can be started afresh.
THEOREM StopLeavesNothingCorrect == Spec => []StopLeavesNothing
<1>1. Safe => StopLeavesNothing
  BY DEF Safe, Coherent, OneWorker, StopLeavesNothing
<1> QED  BY <1>1, SafeInvariant, PTL

-----------------------------------------------------------------------------
(* A worker never sleeps on work.                                          *)

\* A thread has taken a unit it is going to fetch with.
Taken == \E t \in Thread : pc[t] \in {"recheck", "fetch"}

Covered == Len(q) <= items + (IF Taken THEN 1 ELSE 0)

\* A step that neither lengthens the deque nor spends a unit keeps it covered,
\* as long as it keeps what was taken.
LEMMA CoveredMonotone ==
    ASSUME TypeOK, Covered, q' \in Seq(Instr), items' \in Nat,
           Len(q') - items' <= Len(q) - items, Taken => Taken'
    PROVE  Covered'
<1>1. Len(q) \in Nat /\ Len(q') \in Nat /\ items \in Nat
  BY DEF TypeOK
<1>2. CASE Taken
  BY <1>1, <1>2 DEF Covered
<1>3. CASE ~Taken
  BY <1>1, <1>3 DEF Covered
<1> QED  BY <1>2, <1>3

LEMMA EmptyCoveredNext == TypeOK' /\ Len(q') = 0 => Covered'
<1> SUFFICES ASSUME items' \in Nat, Len(q') = 0 PROVE Covered'
  BY DEF TypeOK
<1>1. PICK n \in {0, 1} : n = IF Taken' THEN 1 ELSE 0
  OBVIOUS
<1>2. \A k \in Nat : 0 <= k + n
  OBVIOUS
<1>3. 0 <= items' + n
  BY <1>2
<1> QED  BY <1>1, <1>3, Zenon DEF Covered

LEMMA KindStays == [Next]_vars => kind' = kind
BY DEF Next, MainChoice, MainProgress, Queue, QueueSteps, WaitSteps, StopSteps,
       EditSteps, EraseCancelled, Promote,
       Worker, ProcessOver, vars, QueueEnter, StartDrain, EditBegin,
       DrainResults, StopBegin, QueueJoin, Push, EnsureRunning, SpawnFails,
       AwaitResult, TakeResult, DrainPoll, DrainDone, StopPost, StopRead,
       StopJoin, StopReset, StopEnd, Check, SemWait, Recheck, Fetch, Execute,
       Throw, Finish, Leave

LEMMA UnitsStep ==
    Safe /\ Safe' /\ UnitsCoverQueue /\ [Next]_vars => UnitsCoverQueue'
<1> SUFFICES ASSUME TypeInv, Coherent, TypeInv', Coherent', UnitsCoverQueue,
                    [Next]_vars, UsesSemaphores', main' \notin Stopping
             PROVE  Covered'
  BY DEF Safe, UnitsCoverQueue, Covered, Taken
<1>1. TypeOK /\ q \in Seq(Instr) /\ items \in Nat /\ q' \in Seq(Instr) /\ items' \in Nat
  BY DEF TypeInv, TypeOK
<1>2. UNCHANGED kind
  BY KindStays
<1>3. UsesSemaphores /\ ~kind.quitOnEmpty
  BY <1>2 DEF UsesSemaphores
<1>4. CASE main \in Stopping
  \* only StopEnd leaves Stopping, with an empty deque
  <2>1. main = "stopClear" /\ q' = q
    BY <1>4 DEF Stopping, Next, MainChoice, MainProgress, Queue, QueueSteps,
         WaitSteps, StopSteps, Worker, ProcessOver, vars, mainVars, queueVars,
         EditSteps, EraseCancelled, Promote,
         QueueEnter, StartDrain, EditBegin, DrainResults, StopBegin,
         QueueJoin, Push, EnsureRunning, SpawnFails, AwaitResult, TakeResult,
         DrainPoll, DrainDone, StopPost, StopRead, StopJoin, StopReset, StopEnd,
         Check, SemWait, Recheck, Fetch, Execute, Throw, Finish, Leave
  <2>2. Len(q') = 0
    BY <2>1 DEF Coherent
  <2> QED  BY <2>2, EmptyCoveredNext DEF TypeInv
<1>5. CASE main \notin Stopping
  <2>1. Covered
    BY <1>3, <1>5 DEF UnitsCoverQueue, Covered, Taken
  <2> USE DEF queueVars, threadVars, mainVars, flags
  <2>2. CASE Queue \/ StartDrain \/ DrainResults \/ DrainPoll \/ SpawnFails
             \/ EditBegin \/ WaitSteps \/ ProcessOver \/ UNCHANGED vars
    <3>1. UNCHANGED <<q, items, pc>>
      BY <2>2 DEF Queue, QueueEnter, StartDrain, DrainResults, DrainPoll, SpawnFails,
                  EditBegin, WaitSteps, AwaitResult, TakeResult, DrainDone, ProcessOver, vars
    <3> QED  BY <2>1, <3>1 DEF Covered, Taken
  <2>3. CASE EditSteps
    <3>1. Len(q') <= Len(q) /\ UNCHANGED <<items, pc>>
      BY <1>1, <2>3, EditFacts DEF EditSteps, EraseCancelled, Promote
    <3>2. Taken => Taken'
      BY <3>1 DEF Taken
    <3> QED  BY <1>1, <2>1, <3>1, <3>2, CoveredMonotone
  <2>4. CASE Push
    <3>1. arg.instr \in Instr /\ UNCHANGED pc
      BY <2>4 DEF Push, TypeInv, Hands
    <3>2. q' = Append(q, arg.instr) \/ q' = <<arg.instr>> \o q
      BY <2>4, Zenon DEF Push
    <3>3. Len(q') = Len(q) + 1
      BY <1>1, <3>1, <3>2
    <3>4. items' = items + 1
      BY <1>3, <2>4, Zenon DEF Push
    <3>5. Taken => Taken'
      BY <3>1 DEF Taken
    <3> QED  BY <1>1, <2>1, <3>3, <3>4, <3>5, CoveredMonotone
  <2>5. CASE QueueJoin \/ EnsureRunning
    <3>1. UNCHANGED <<q, items>>
      BY <2>5 DEF QueueJoin, EnsureRunning
    <3>2. \A t \in Thread : pc[t] \in {"recheck", "fetch"} => pc'[t] = pc[t]
      BY <2>5 DEF QueueJoin, EnsureRunning, Unused, TypeInv, TypeOK
    <3>3. Taken => Taken'
      BY <3>2 DEF Taken
    <3> QED  BY <1>1, <2>1, <3>1, <3>3, CoveredMonotone
  <2>6. ASSUME NEW t \in Thread, Worker(t) PROVE Covered'
    <3>1. \A u \in Thread : u # t => pc[u] \notin Live
      BY <2>6 DEF Worker, Check, SemWait, Recheck, Fetch, Execute, Throw, Finish,
                  Leave, Live, Coherent, OneWorker
    <3>2. ~shutdown
      BY <1>5 DEF Coherent
    <3>3. CASE SemWait(t)
      <4>1. ~Taken /\ Taken' /\ q' = q /\ items' = items - 1
        BY <3>1, <3>3 DEF SemWait, Taken, Live, TypeInv, TypeOK
      <4> QED  BY <1>1, <2>1, <4>1 DEF Covered
    <3>4. CASE Fetch(t)
      <4>1. CASE q = <<>>
        <5>1. q' = <<>>
          BY <3>4, <4>1, Zenon DEF Fetch
        <5>2. Len(q') = 0
          BY <5>1
        <5> QED  BY <5>2, EmptyCoveredNext DEF TypeInv
      <4>2. CASE q # <<>>
        <5>1. q' = Tail(q)
          BY <1>3, <3>4, <4>2, Zenon DEF Fetch, UsesSemaphores
        <5>2. Len(q') = Len(q) - 1 /\ items' = items
          BY <1>1, <3>4, <4>2, <5>1 DEF Fetch
        <5> QED  BY <1>1, <2>1, <5>2 DEF Covered
      <4> QED  BY <4>1, <4>2
    <3>5. CASE Recheck(t)
      <4>1. UNCHANGED <<q, items>> /\ Taken'
        BY <3>2, <3>5 DEF Recheck, Taken, TypeInv, TypeOK
      <4> QED  BY <1>1, <2>1, <4>1, CoveredMonotone
    <3>6. CASE Check(t) \/ Execute(t) \/ Throw(t) \/ Finish(t) \/ Leave(t)
      <4>1. UNCHANGED <<q, items>>
        BY <3>6 DEF Check, Execute, Throw, Finish, Leave
      <4>2. ~Taken
        BY <3>1, <3>6 DEF Check, Execute, Throw, Finish, Leave, Taken, Live
      <4> QED  BY <1>1, <2>1, <4>1, <4>2, CoveredMonotone
    <3> QED  BY <2>6, <3>3, <3>4, <3>5, <3>6 DEF Worker
  <2>7. ~StopSteps /\ ~StopBegin
    BY <1>5 DEF StopSteps, StopPost, StopRead, StopJoin, StopReset, StopEnd,
                StopBegin, Stopping
  <2> QED
    BY <2>2, <2>3, <2>4, <2>5, <2>6, <2>7
       DEF Next, MainChoice, MainProgress, QueueSteps
<1> QED  BY <1>4, <1>5

\* A worker never goes to sleep on a deque with work in it.
THEOREM UnitsCoverQueueCorrect == Spec => []UnitsCoverQueue
<1>1. Init => UnitsCoverQueue
  BY DEF Init, UnitsCoverQueue
<1> QED  BY <1>1, SafeInvariant, UnitsStep, PTL DEF Spec

-----------------------------------------------------------------------------
(* No work is stranded and no handle lost, as long as nothing throws.      *)

LEMMA AttendedStep ==
    Throwing = {} /\ Safe /\ Safe' /\ Attended /\ [Next]_vars => Attended'
<1> SUFFICES ASSUME Throwing = {}, TypeOK, Hands, Coherent, TypeOK', Coherent',
                    Attended, [Next]_vars
             PROVE  Attended'
  BY DEF Safe, TypeInv
<1> USE ConstantsAssumption
        DEF TypeOK, Hands, Coherent, OneWorker, Stopping, Live, Attended,
            HandleRetained, queueVars, threadVars, mainVars, flags
<1>1. ASSUME NEW i \in Instr, NEW p \in BOOLEAN, QueueEnter(i, p) PROVE Attended'
  <2>1. CASE thread # NoThread /\ ~running
    BY <1>1, <2>1 DEF QueueEnter
  <2>2. CASE ~(thread # NoThread /\ ~running)
    BY <1>1, <2>2 DEF QueueEnter
  <2> QED  BY <2>1, <2>2
<1>2. CASE QueueJoin
  BY <1>2 DEF QueueJoin
<1>3. CASE Push
  BY <1>3 DEF Push
<1>4. CASE EnsureRunning
  <2>1. CASE running
    BY <1>4, <2>1 DEF EnsureRunning, AfterQueue
  <2>2. CASE ~running
    <3>1. PICK t \in Thread : Unused(t) /\ thread' = t /\ pc' = [pc EXCEPT ![t] = "check"]
      BY <1>4, <2>2 DEF EnsureRunning
    <3>2. running' /\ main' \in {"await", "idle"} /\ UNCHANGED <<joining, shutdown, q>>
      BY <1>4, <2>2 DEF EnsureRunning, AfterQueue
    <3>3. thread = NoThread
      BY <1>4, <2>2 DEF EnsureRunning
    <3> QED  BY <3>1, <3>2, <3>3
  <2> QED  BY <2>1, <2>2
<1>5. CASE AwaitResult \/ DrainDone
  <2>1. \/ main' \in {"take", "idle"} /\ UNCHANGED flags
        \/ main' = "stopPost" /\ shutdown'
    BY <1>5, Zenon DEF AwaitResult, DrainDone, ContinueAt
  <2> QED  BY <1>5, <2>1 DEF AwaitResult, DrainDone
<1>6. CASE TakeResult \/ StartDrain \/ DrainPoll \/ DrainResults \/ EditBegin
  BY <1>6 DEF TakeResult, StartDrain, DrainPoll, DrainResults, EditBegin
<1>7. CASE EditSteps
  <2>1. q' # <<>> => q # <<>>
    BY <1>7, EditFacts
  <2> QED  BY <1>7, <2>1 DEF EditSteps, EraseCancelled, Promote
<1>8. CASE StopBegin \/ StopPost \/ StopRead
  BY <1>8 DEF StopBegin, StopPost, StopRead
<1>9. CASE SpawnFails
  BY <1>9 DEF SpawnFails
<1>10. CASE StopJoin
  <2>1. CASE joining = NoThread
    BY <1>10, <2>1 DEF StopJoin
  <2>2. CASE joining # NoThread
    BY <1>10, <2>2 DEF StopJoin
  <2> QED  BY <2>1, <2>2
<1>11. CASE StopReset
  BY <1>11 DEF StopReset
<1>12. CASE StopEnd
  BY <1>12 DEF StopEnd
<1>13. ASSUME NEW t \in Thread, Worker(t) PROVE Attended'
  <2>1. pc[t] \in Live /\ thread = t /\ running
    BY <1>13 DEF Worker, Check, SemWait, Recheck, Fetch, Execute, Throw, Finish, Leave
  <2>2. UNCHANGED <<thread, shutdown, main, joining>>
    BY <1>13 DEF Worker, Check, SemWait, Recheck, Fetch, Execute, Throw, Finish, Leave
  <2>3. ~Throw(t)
    BY DEF Throw
  <2>4. CASE ~(Finish(t) \/ Leave(t))
    <3>1. running' /\ \E p \in Live : pc' = [pc EXCEPT ![t] = p] /\ (p = "leave" => shutdown)
      BY <1>13, <2>1, <2>3, <2>4 DEF Worker, Check, SemWait, Recheck, Fetch, Execute
    <3>2. main' # "stopReset"
      BY <2>1, <2>2
    <3> QED  BY <2>1, <2>2, <3>1, <3>2
  <2>5. CASE Finish(t)
    <3>1. LockFree /\ main' # "stopReset" /\ q' = q
      BY <2>1, <2>2, <2>5 DEF Finish
    <3>2. \/ ~running' /\ pc' = [pc EXCEPT ![t] = "done"] /\ (shutdown \/ q = <<>>)
          \/ running' /\ pc' = [pc EXCEPT ![t] = "check"]
      BY <2>1, <2>5 DEF Finish
    <3> QED  BY <2>1, <2>2, <3>1, <3>2 DEF LockFree
  <2>6. CASE Leave(t)
    <3>1. shutdown /\ main' # "stopReset" /\ ~running' /\ pc' = [pc EXCEPT ![t] = "done"]
      BY <2>1, <2>2, <2>6 DEF Leave
    <3> QED  BY <2>1, <2>2, <3>1
  <2> QED  BY <2>4, <2>5, <2>6
<1>14. CASE UNCHANGED vars
  BY <1>14 DEF vars
<1> QED
  BY <1>1, <1>2, <1>3, <1>4, <1>5, <1>6, <1>7, <1>8, <1>9, <1>10, <1>11,
     <1>12, <1>13, <1>14
     DEF Next, MainChoice, MainProgress, Queue, QueueSteps, WaitSteps, StopSteps,
         ProcessOver

\* Between queue() and the worker's last critical section there is work
\* exactly when a thread runs, as long as no instruction throws.
THEOREM AttendedCorrect ==
    ASSUME Throwing = {} PROVE Spec => []Attended
<1>1. Init => Attended
  BY DEF Init, Attended, HandleRetained
<1>2. Safe /\ Safe' /\ Attended /\ [Next]_vars => Attended'
  BY AttendedStep
<1> QED  BY <1>1, <1>2, SafeInvariant, PTL DEF Spec

\* Work in the deque has a worker that is going to fetch it, whenever main is
\* out of queue() and endThreads() and no instruction throws.
THEOREM NoStrandedWorkCorrect ==
    ASSUME Throwing = {} PROVE Spec => []NoStrandedWork
<1>1. Safe /\ Attended => NoStrandedWork
  BY DEF Safe, TypeInv, TypeOK, Coherent, Attended, NoStrandedWork, Live, Stopping
<1> QED  BY <1>1, SafeInvariant, AttendedCorrect, PTL

\* A thread that has returned can still be joined, if no instruction throws.
THEOREM HandleRetainedCorrect ==
    ASSUME Throwing = {} PROVE Spec => []HandleRetained
<1>1. Attended => HandleRetained
  BY DEF Attended
<1> QED  BY <1>1, AttendedCorrect, PTL

-----------------------------------------------------------------------------
(* A result is that of the instruction main waits for.                     *)

\* No worker is between taking an instruction and posting for it.
Free == \A t \in Thread : pc[t] \notin {"execute", "finish"}

\* The instruction main waits for is in one place: queued, in a worker's
\* hand, published, or published and posted.
Answering ==
    \/ q = <<arg.instr>> /\ results = <<>> /\ tokens = 0 /\ Free
    \/ /\ q = <<>> /\ results = <<>> /\ tokens = 0
       /\ \E t \in Thread : pc[t] = "execute" /\ cur[t] = arg.instr
    \/ /\ q = <<>> /\ results = <<arg.instr>> /\ tokens = 0
       /\ \E t \in Thread : pc[t] = "finish"
    \/ q = <<>> /\ results = <<arg.instr>> /\ tokens = 1 /\ Free

\* Main queues nothing else until it has the answer.
Stage ==
    /\ main \in {"idle", "join", "push", "edit"} \cup Stopping =>
          q = <<>> /\ results = <<>> /\ tokens = 0 /\ Free
    /\ main = "ensure" => q = <<arg.instr>> /\ results = <<>> /\ tokens = 0 /\ Free
    /\ main = "await" => Answering
    /\ main = "take" => q = <<>> /\ results = <<arg.instr>> /\ tokens = 0 /\ Free

\* A token that a worker posts as it throws announces no result; but then the
\* engine quits, and main never gets to take one.  A queue without the
\* semaphores posts no other.
Own ==
    /\ main \in {"await", "take"} => kind.waits = "result"
    /\ main = "drain" => kind.waits = "drain"
    /\ main = "take" => exit = "no"
    /\ kind.waits = "result" /\ exit = "no" =>
          IF UsesSemaphores THEN Stage ELSE tokens = 0 /\ main # "take"

\* Where main may be, whatever the worker does.
Places ==
    /\ main \in {"await", "take"} => kind.waits = "result"
    /\ main = "drain" => kind.waits = "drain"

LEMMA PlacesStep == Places /\ [Next]_vars => Places'
<1> SUFFICES ASSUME Places, [Next]_vars PROVE Places'
  OBVIOUS
<1>0. kind' = kind
  BY KindStays
<1> USE <1>0 DEF Places
<1>1. ASSUME NEW i \in Instr, NEW p \in BOOLEAN, QueueEnter(i, p) PROVE Places'
  <2>1. main' \in {"join", "push"}
    BY <1>1, Zenon DEF QueueEnter
  <2> QED  BY <2>1
<1>2. CASE QueueSteps
  <2>1. main' \in {"push", "ensure"} \/ main' = AfterQueue
    BY <1>2, Zenon DEF QueueSteps, QueueJoin, Push, EnsureRunning
  <2> QED  BY <2>1 DEF AfterQueue
<1>3. CASE AwaitResult \/ TakeResult \/ DrainDone
  <2>1. \/ main = "await" /\ main' \in {"take", "stopPost"}
        \/ main' \in {"idle", "stopPost"}
    BY <1>3, Zenon DEF AwaitResult, TakeResult, DrainDone, ContinueAt
  <2> QED  BY <2>1
<1>4. CASE StopSteps \/ StopBegin
  <2>1. main' \in {"stopPost", "stopRead", "stopJoin", "stopReset", "stopClear", "ended", "idle"}
    BY <1>4, Zenon DEF StopSteps, StopBegin, StopPost, StopRead, StopJoin, StopReset, StopEnd
  <2> QED  BY <2>1
<1>5. CASE StartDrain
  BY <1>5 DEF StartDrain
<1>6. CASE DrainPoll \/ DrainResults \/ ProcessOver \/ UNCHANGED vars
  <2>1. main' = main
    BY <1>6 DEF DrainPoll, DrainResults, ProcessOver, vars, mainVars
  <2> QED  BY <2>1
<1>7. CASE SpawnFails \/ EditBegin \/ EditSteps
  <2>1. main' \in {"failed", "edit", "idle"}
    BY <1>7, Zenon DEF SpawnFails, EditBegin, EditSteps, EraseCancelled, Promote
  <2> QED  BY <2>1
<1>8. ASSUME NEW t \in Thread, Worker(t) PROVE Places'
  <2>1. main' = main
    BY <1>8 DEF Worker, Check, SemWait, Recheck, Fetch, Execute, Throw, Finish, Leave, mainVars
  <2> QED  BY <2>1
<1> QED
  BY <1>1, <1>2, <1>3, <1>4, <1>5, <1>6, <1>7, <1>8
     DEF Next, MainChoice, MainProgress, Queue, WaitSteps

\* An exit code is never taken back.
LEMMA ExitStays == [Next]_vars /\ exit' = "no" => exit = "no"
<1> SUFFICES ASSUME [Next]_vars, exit # "no" PROVE exit' # "no"
  OBVIOUS
<1>1. CASE MainChoice
  BY <1>1, Zenon DEF MainChoice, Queue, QueueEnter, StartDrain, EditBegin,
                     DrainResults, StopBegin, flags
<1>2. CASE QueueSteps
  BY <1>2, Zenon DEF QueueSteps, QueueJoin, Push, EnsureRunning, flags
<1>3. CASE WaitSteps
  <2>1. exit' \in {exit, "begun"}
    BY <1>3, Zenon DEF WaitSteps, AwaitResult, TakeResult, DrainDone, ContinueAt, flags
  <2> QED  BY <2>1
<1>4. CASE StopSteps
  BY <1>4, Zenon DEF StopSteps, StopPost, StopRead, StopJoin, StopReset, StopEnd, flags
<1>5. CASE DrainPoll \/ SpawnFails \/ EditSteps \/ ProcessOver \/ UNCHANGED vars
  BY <1>5, Zenon DEF DrainPoll, SpawnFails, EditSteps, EraseCancelled, Promote,
                     ProcessOver, vars, flags
<1>6. ASSUME NEW t \in Thread, Worker(t) PROVE exit' # "no"
  BY <1>6 DEF Worker, Check, SemWait, Recheck, Fetch, Execute, Throw, Finish, Leave, flags
<1> QED
  BY <1>1, <1>2, <1>3, <1>4, <1>5, <1>6 DEF Next, MainProgress

\* A worker takes the answer one place on.
LEMMA WorkerStage ==
    ASSUME TypeOK, Coherent, UsesSemaphores, kind.waits = "result",
           exit = "no", exit' = "no", Stage, NEW t \in Thread, Worker(t)
    PROVE  Stage'
<1>1. /\ pc[t] \in Live /\ pc \in [Thread -> Live \cup {"none", "done"}]
      /\ cur \in [Thread -> Instr \cup {NoInstr}]
      /\ kind.hasQueue /\ main' = main /\ arg' = arg
  BY DEF TypeOK, UsesSemaphores, mainVars,
         Worker, Check, SemWait, Recheck, Fetch, Execute, Throw, Finish, Leave
<1>2. \A u \in Thread : u # t => pc[u] \notin {"execute", "finish"}
  BY <1>1 DEF Coherent, OneWorker, Live
<1>3. \A u \in Thread : u # t => pc'[u] = pc[u] /\ cur'[u] = cur[u]
  BY <1>1 DEF Worker, Check, SemWait, Recheck, Fetch, Execute, Throw, Finish, Leave
<1>a. ASSUME pc[t] \notin {"execute", "finish"}, pc'[t] \notin {"execute", "finish"},
             UNCHANGED <<q, results, tokens>>
      PROVE  Stage'
  <2>1. Free /\ Free'
    BY <1>2, <1>3, <1>a DEF Free
  <2>2. Answering => Answering'
    BY <1>1, <1>a, <2>1 DEF Answering, Free
  <2> QED  BY <1>1, <1>a, <2>1, <2>2 DEF Stage
<1>4. CASE Check(t) \/ SemWait(t) \/ Recheck(t) \/ Leave(t)
  <2>1. pc[t] \notin {"execute", "finish"} /\ pc'[t] \notin {"execute", "finish"}
    BY <1>1, <1>4 DEF Check, SemWait, Recheck, Leave
  <2>2. UNCHANGED <<q, results, tokens>>
    BY <1>4 DEF Check, SemWait, Recheck, Leave, queueVars
  <2> QED  BY <1>a, <2>1, <2>2
<1>5. CASE Fetch(t)
  <2>1. pc[t] = "fetch" /\ main \notin {"push", "ensure"} /\ UNCHANGED <<results, tokens>>
    BY <1>5, Zenon DEF Fetch, LockFree
  <2>2. CASE q = <<>>
    <3>1. q' = q /\ pc' = [pc EXCEPT ![t] = "check"]
      BY <1>5, <2>2, Zenon DEF Fetch
    <3> QED  BY <1>1, <1>a, <2>1, <3>1
  <2>3. CASE q # <<>>
    <3>1. /\ pc' = [pc EXCEPT ![t] = "execute"] /\ cur' = [cur EXCEPT ![t] = Head(q)]
          /\ q' = Tail(q)
      BY <1>1, <1>5, <2>3, Zenon DEF Fetch
    <3>2. CASE main = "await"
      <4>1. q = <<arg.instr>> /\ results = <<>> /\ tokens = 0
        BY <2>3, <3>2 DEF Stage, Answering
      <4>2. q' = <<>> /\ Head(q) = arg.instr
        BY <3>1, <4>1
      <4>3. pc'[t] = "execute" /\ cur'[t] = arg.instr
        BY <1>1, <3>1, <4>2
      <4>4. Answering'
        BY <1>1, <2>1, <4>1, <4>2, <4>3 DEF Answering
      <4> QED  BY <1>1, <3>2, <4>4 DEF Stage, Stopping
    <3>3. CASE main # "await"
      BY <1>1, <2>1, <2>3, <3>3 DEF Stage
    <3> QED  BY <3>2, <3>3
  <2> QED  BY <2>2, <2>3
<1>6. CASE Execute(t)
  <2>1. /\ pc[t] = "execute" /\ pc' = [pc EXCEPT ![t] = "finish"]
        /\ results' = Append(results, cur[t]) /\ UNCHANGED <<q, tokens>>
    BY <1>6, Zenon DEF Execute
  <2>2. CASE main = "await"
    <3>1. q = <<>> /\ results = <<>> /\ tokens = 0 /\ cur[t] = arg.instr
      BY <1>2, <2>1, <2>2 DEF Stage, Answering, Free
    <3>2. results' = <<arg.instr>>
      BY <2>1, <3>1
    <3>3. Answering'
      BY <1>1, <2>1, <3>1, <3>2 DEF Answering
    <3> QED  BY <1>1, <2>2, <3>3 DEF Stage, Stopping
  <2>3. CASE main # "await"
    BY <1>1, <2>1, <2>3 DEF Stage, Free
  <2> QED  BY <2>2, <2>3
<1>7. ~Throw(t)
  BY DEF Throw
<1>8. CASE Finish(t)
  <2>1. /\ pc[t] = "finish" /\ pc'[t] \in {"check", "done"}
        /\ tokens' = tokens + 1 /\ UNCHANGED <<q, results>>
    BY <1>1, <1>8 DEF Finish
  <2>2. CASE main = "await"
    <3>1. q = <<>> /\ results = <<arg.instr>> /\ tokens = 0
      BY <1>2, <2>1, <2>2 DEF Stage, Answering, Free
    <3>2. Free'
      BY <1>2, <1>3, <2>1 DEF Free
    <3>3. Answering'
      BY <1>1, <2>1, <3>1, <3>2 DEF Answering
    <3> QED  BY <1>1, <2>2, <3>3 DEF Stage, Stopping
  <2>3. CASE main # "await"
    BY <1>1, <2>1, <2>3 DEF Stage, Free
  <2> QED  BY <2>2, <2>3
<1> QED  BY <1>4, <1>5, <1>6, <1>7, <1>8 DEF Worker

\* The answer of an instruction, for a queue whose worker posts it.
LEMMA StageStep ==
    ASSUME Safe, Own, [Next]_vars, UsesSemaphores, kind.waits = "result",
           exit = "no", exit' = "no", Stage
    PROVE  Stage'
<1>0. /\ TypeOK /\ Hands /\ Coherent
      /\ ~kind.quitOnEmpty /\ kind.hasQueue
  BY DEF Safe, TypeInv, UsesSemaphores
<1>a. main # "drain" /\ kind.waits # "drain" /\ kind.waits # "never"
  BY DEF Own
<1> USE DEF queueVars, threadVars, mainVars, flags
<1>1. ASSUME NEW i \in Instr, NEW p \in BOOLEAN, QueueEnter(i, p) PROVE Stage'
  <2>1. main = "idle" /\ main' \in {"join", "push"} /\ UNCHANGED <<q, results, tokens, pc>>
    BY <1>1, Zenon DEF QueueEnter
  <2> QED  BY <2>1 DEF Stage, Free, Stopping
<1>2. CASE QueueJoin
  <2>1. /\ main = "join" /\ main' = "push" /\ UNCHANGED <<q, results, tokens>>
        /\ pc' = [pc EXCEPT ![joining] = "none"]
    BY <1>2, Zenon DEF QueueJoin
  <2>2. Free'
    BY <1>0, <2>1 DEF Stage, Free, TypeOK
  <2> QED  BY <2>1, <2>2 DEF Stage, Stopping
<1>3. CASE Push
  <2>1. /\ main = "push" /\ main' = "ensure" /\ UNCHANGED <<results, tokens, pc, arg>>
        /\ q' = IF arg.priority THEN <<arg.instr>> \o q ELSE Append(q, arg.instr)
    BY <1>3, Zenon DEF Push
  <2>2. q = <<>> /\ arg.instr \in Instr
    BY <1>0, <2>1 DEF Stage, Hands
  <2>3. <<arg.instr>> \o <<>> = <<arg.instr>> /\ Append(<<>>, arg.instr) = <<arg.instr>>
    BY <2>2
  <2>4. q' = <<arg.instr>>
    BY <2>1, <2>2, <2>3
  <2> QED  BY <2>1, <2>4 DEF Stage, Free, Stopping
<1>4. CASE EnsureRunning
  <2>1. /\ main = "ensure" /\ main' = "await" /\ UNCHANGED <<q, results, tokens, arg>>
        /\ pc' = pc \/ \E t \in Thread : pc' = [pc EXCEPT ![t] = "check"]
    BY <1>4 DEF EnsureRunning, AfterQueue
  <2>2. Free'
    BY <1>0, <2>1 DEF Stage, Free, TypeOK
  <2> QED  BY <2>1, <2>2 DEF Stage, Answering, Stopping
<1>5. CASE AwaitResult
  <2>1. /\ main = "await" /\ tokens > 0 /\ tokens' = tokens - 1 /\ main' = "take"
        /\ UNCHANGED <<q, results, pc, arg>>
    BY <1>5 DEF AwaitResult, ContinueAt
  <2>2. q = <<>> /\ results = <<arg.instr>> /\ tokens = 1 /\ Free
    BY <2>1 DEF Stage, Answering
  <2> QED  BY <2>1, <2>2 DEF Stage, Free, Stopping
<1>6. CASE TakeResult
  <2>1. /\ main = "take" /\ main' = "idle" /\ UNCHANGED <<q, tokens, pc>>
        /\ results' = IF results = <<>> THEN <<>> ELSE Tail(results)
    BY <1>6 DEF TakeResult
  <2>2. results = <<arg.instr>>
    BY <2>1 DEF Stage
  <2>3. results' = <<>>
    BY <2>1, <2>2
  <2> QED  BY <2>1, <2>3 DEF Stage, Free, Stopping
<1>7. CASE StopBegin \/ StopPost \/ StopRead \/ StopEnd
  <2>1. main \in {"idle"} \cup Stopping /\ main' \in {"idle", "ended"} \cup Stopping
    BY <1>7 DEF StopBegin, StopPost, StopRead, StopEnd, Stopping
  <2>2. UNCHANGED <<q, results, tokens, pc>>
    BY <1>7, Zenon DEF StopBegin, StopPost, StopRead, StopEnd
  <2> QED  BY <2>1, <2>2 DEF Stage, Free, Stopping
<1>8. CASE StopJoin
  <2>1. /\ main = "stopJoin" /\ main' = "stopReset" /\ UNCHANGED <<q, results, tokens>>
        /\ pc' = pc \/ pc' = [pc EXCEPT ![joining] = "none"]
    BY <1>8, Zenon DEF StopJoin
  <2>2. Free'
    BY <1>0, <2>1 DEF Stage, Free, TypeOK, Stopping
  <2> QED  BY <2>1, <2>2 DEF Stage, Stopping
<1>9. CASE StopReset
  <2>1. /\ main = "stopReset" /\ main' = "stopClear" /\ UNCHANGED <<results, pc>>
        /\ q' = <<>> /\ tokens' = 0
    BY <1>9, Zenon DEF StopReset
  <2> QED  BY <2>1 DEF Stage, Free, Stopping
<1>10. CASE EditBegin \/ EditSteps \/ DrainResults
  <2>1. /\ main \in {"idle", "edit"} /\ main' \in {"idle", "edit"}
        /\ tokens' \in {tokens, 0} /\ UNCHANGED <<results, pc>>
    BY <1>10, Zenon DEF EditBegin, EditSteps, EraseCancelled, Promote, DrainResults
  <2>2. q' = <<>>
    <3>1. q = <<>>
      BY <2>1 DEF Stage
    <3>2. q' = q \/ EditSteps
      BY <1>10, Zenon DEF EditBegin, DrainResults
    <3> QED  BY <1>0, <3>1, <3>2, EditFacts DEF TypeOK
  <2> QED  BY <2>1, <2>2 DEF Stage, Free, Stopping
<1>11. CASE DrainPoll \/ DrainDone \/ StartDrain
  BY <1>a, <1>11 DEF DrainPoll, DrainDone, StartDrain
<1>12. CASE SpawnFails \/ ProcessOver
  <2>1. main' \in {"failed", "ended"}
    BY <1>12 DEF SpawnFails, ProcessOver, vars
  <2> QED  BY <2>1 DEF Stage, Stopping
<1>13. CASE UNCHANGED vars
  BY <1>13 DEF vars, Stage, Answering, Free
<1>14. ASSUME NEW t \in Thread, Worker(t) PROVE Stage'
  BY <1>14, WorkerStage DEF Safe, TypeInv
<1> QED
  BY <1>1, <1>2, <1>3, <1>4, <1>5, <1>6, <1>7, <1>8, <1>9, <1>10, <1>11, <1>12,
     <1>13, <1>14
     DEF Next, MainChoice, MainProgress, Queue, QueueSteps, WaitSteps, StopSteps

\* Without the semaphores there is no token, and main waits for ever.
LEMMA SilentStep ==
    ASSUME [Next]_vars, ~UsesSemaphores, exit' = "no", tokens = 0, main # "take"
    PROVE  tokens' = 0 /\ main' # "take"
<1>0. exit = "no"
  BY ExitStays
<1> USE <1>0 DEF queueVars, mainVars, flags
<1>1. ASSUME NEW i \in Instr, NEW p \in BOOLEAN, QueueEnter(i, p)
      PROVE  tokens' = 0 /\ main' # "take"
  <2>1. tokens' = tokens /\ main' \in {"join", "push"}
    BY <1>1, Zenon DEF QueueEnter
  <2> QED  BY <2>1
<1>2. CASE QueueSteps
  BY <1>2 DEF QueueSteps, QueueJoin, Push, EnsureRunning, AfterQueue
<1>3. CASE WaitSteps
  BY <1>3 DEF WaitSteps, AwaitResult, TakeResult, DrainDone, ContinueAt
<1>4. CASE StopSteps \/ StopBegin
  BY <1>4 DEF StopSteps, StopBegin, StopPost, StopRead, StopJoin, StopReset, StopEnd
<1>5. CASE StartDrain \/ DrainPoll \/ EditBegin \/ EditSteps \/ DrainResults
           \/ SpawnFails
  BY <1>5 DEF StartDrain, DrainPoll, EditBegin, EditSteps, EraseCancelled, Promote,
              DrainResults, SpawnFails
<1>6. CASE ProcessOver \/ UNCHANGED vars
  BY <1>6 DEF ProcessOver, vars
<1>7. ASSUME NEW t \in Thread, Worker(t) PROVE tokens' = 0 /\ main' # "take"
  <2>1. ~Throw(t)
    BY DEF Throw
  <2>2. tokens' = tokens /\ main' = main
    BY <1>7, <2>1, Zenon DEF Worker, Check, SemWait, Recheck, Fetch, Execute, Finish, Leave
  <2> QED  BY <2>2
<1> QED
  BY <1>1, <1>2, <1>3, <1>4, <1>5, <1>6, <1>7 DEF Next, MainChoice, MainProgress, Queue

\* Main takes a result only while nobody has asked to quit.
LEMMA TakeStep ==
    ASSUME Own, [Next]_vars, main' = "take"
    PROVE  exit' = "no"
<1> USE DEF queueVars, mainVars, flags
<1>1. CASE main # "take"
  <2>1. AwaitResult
    <3>1. ASSUME NEW i \in Instr, NEW p \in BOOLEAN, QueueEnter(i, p) PROVE FALSE
      <4>1. main' \in {"join", "push"}
        BY <3>1, Zenon DEF QueueEnter
      <4> QED  BY <4>1
    <3>2. ~QueueSteps
      BY DEF QueueSteps, QueueJoin, Push, EnsureRunning, AfterQueue
    <3>3. ~TakeResult /\ ~DrainDone
      BY DEF TakeResult, DrainDone, ContinueAt
    <3>4. ~StopSteps /\ ~StopBegin
      BY DEF StopSteps, StopBegin, StopPost, StopRead, StopJoin, StopReset, StopEnd
    <3>5. ~(StartDrain \/ DrainPoll \/ EditBegin \/ EditSteps \/ DrainResults \/ SpawnFails)
      BY <1>1 DEF StartDrain, DrainPoll, EditBegin, EditSteps, EraseCancelled,
                  Promote, DrainResults, SpawnFails
    <3>6. ~(ProcessOver \/ UNCHANGED vars)
      BY <1>1 DEF ProcessOver, vars
    <3>7. \A t \in Thread : ~Worker(t)
      BY <1>1 DEF Worker, Check, SemWait, Recheck, Fetch, Execute, Throw, Finish, Leave
    <3> QED
      BY <3>1, <3>2, <3>3, <3>4, <3>5, <3>6, <3>7
         DEF Next, MainChoice, MainProgress, Queue, WaitSteps
  <2> QED  BY <2>1 DEF AwaitResult, ContinueAt
<1>2. CASE main = "take"
  <2>1. exit = "no" /\ Free
    BY <1>2 DEF Own, Stage
  <2>2. CASE MainChoice
    BY <1>2, <2>2 DEF MainChoice, Queue, QueueEnter, StartDrain, EditBegin,
                      DrainResults, StopBegin
  <2>3. CASE QueueSteps \/ StopSteps
    BY <1>2, <2>3 DEF QueueSteps, QueueJoin, Push, EnsureRunning,
                      StopSteps, StopPost, StopRead, StopJoin, StopReset, StopEnd
  <2>4. CASE WaitSteps
    BY <1>2, <2>4 DEF WaitSteps, AwaitResult, TakeResult, DrainDone
  <2>5. CASE DrainPoll \/ SpawnFails \/ EditSteps
    BY <1>2, <2>5 DEF DrainPoll, SpawnFails, EditSteps, EraseCancelled, Promote
  <2>6. CASE ProcessOver \/ UNCHANGED vars
    BY <2>1, <2>6 DEF ProcessOver, vars
  <2>7. ASSUME NEW t \in Thread, Worker(t) PROVE exit' = "no"
    <3>1. ~Throw(t)
      BY <2>1 DEF Throw, Free
    <3>2. exit' = exit
      BY <2>7, <3>1, Zenon DEF Worker, Check, SemWait, Recheck, Fetch, Execute, Finish, Leave
    <3> QED  BY <2>1, <3>2
  <2> QED
    BY <2>2, <2>3, <2>4, <2>5, <2>6, <2>7 DEF Next, MainProgress
<1> QED  BY <1>1, <1>2

LEMMA OwnStep == Safe /\ Safe' /\ Own /\ [Next]_vars => Own'
<1> SUFFICES ASSUME Safe, Safe', Own, [Next]_vars PROVE Own'
  OBVIOUS
<1>1. Places' /\ kind' = kind
  BY PlacesStep, KindStays DEF Own, Places
<1>2. CASE kind.waits = "result" /\ exit' = "no"
  <2>1. exit = "no"
    BY <1>2, ExitStays
  <2>2. CASE UsesSemaphores
    <3>1. Stage'
      BY <1>2, <2>1, <2>2, StageStep DEF Own
    <3> QED  BY <1>1, <1>2, <2>2, <3>1 DEF Own, Places, UsesSemaphores
  <2>3. CASE ~UsesSemaphores
    <3>1. tokens' = 0 /\ main' # "take"
      BY <1>2, <2>1, <2>3, SilentStep DEF Own
    <3> QED  BY <1>1, <1>2, <2>3, <3>1 DEF Own, Places, UsesSemaphores
  <2> QED  BY <2>2, <2>3
<1>3. CASE ~(kind.waits = "result" /\ exit' = "no")
  <2>1. main' = "take" => exit' = "no"
    BY TakeStep
  <2> QED  BY <1>1, <1>3, <2>1 DEF Own, Places
<1> QED  BY <1>2, <1>3

\* The result that playSoundThreaded takes is there, and is that of the sound
\* it queued, although it takes whatever is at the front: also if instructions
\* throw, the engine quits, or the queue has been stopped and started before.
THEOREM ResultIsOwnCorrect == Spec => []ResultIsOwn
<1>1. Init => Own
  BY DEF Init, Own, Stage, Free, Stopping
<1>2. Own => ResultIsOwn
  <2> SUFFICES ASSUME Own, main = "take" PROVE results # <<>> /\ Head(results) = arg.instr
    BY DEF ResultIsOwn
  <2>1. results = <<arg.instr>>
    BY DEF Own, Stage
  <2> QED  BY <2>1
<1> QED  BY <1>1, <1>2, SafeInvariant, OwnStep, PTL DEF Spec
=============================================================================
