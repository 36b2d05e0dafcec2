------------------------ MODULE AsyncQueueRefinement ------------------------
(***************************************************************************)
(* AsyncQueue implements WorkQueue, safety part: every step accepts,       *)
(* takes, carries out or withdraws instructions as the abstract queue or   *)
(* its client does, or changes neither the deque nor what is in hand.      *)
(***************************************************************************)
EXTENDS AsyncQueueProofs

\* The empty sequence is a subsequence of every sequence.
LEMMA EmptySubsequence ==
    ASSUME NEW S, NEW s \in Seq(S) PROVE <<>> \in Subsequences(s)
<1> DEFINE f == [k \in 1..0 |-> 1]
<1>1. Len(s) \in Nat /\ 0 \in 0..Len(s)
  OBVIOUS
<1>2. f \in Picks(0, Len(s))
  BY DEF Picks
<1>3. <<>> = [k \in 1..0 |-> s[f[k]]]
  OBVIOUS
<1> QED  BY <1>1, <1>2, <1>3 DEF Subsequences

\* A thread has an instruction in hand exactly while it executes it, and what
\* queue() is about to push is neither queued nor in hand.
Held ==
    /\ \A t \in Thread : cur[t] # NoInstr <=> pc[t] \in {"execute", "finish"}
    /\ main \in {"join", "push"} => ~Queued(arg.instr) /\ ~InHand(arg.instr)

LEMMA HeldStep == Safe /\ Safe' /\ Held /\ [Next]_vars => Held'
<1> SUFFICES ASSUME TypeOK, Hands, Coherent, TypeOK', Held, [Next]_vars
             PROVE  Held'
  BY DEF Safe, TypeInv
<1> USE ConstantsAssumption
        DEF TypeOK, Hands, Held, Queued, InHand, queueVars, threadVars,
            mainVars, flags
<1>1. ASSUME NEW i \in Instr, NEW p \in BOOLEAN, QueueEnter(i, p) PROVE Held'
  <2>1. arg'.instr = i /\ UNCHANGED <<q, cur, pc>> /\ ~Queued(i) /\ ~InHand(i)
    BY <1>1 DEF QueueEnter
  <2> QED  BY <2>1
<1>2. CASE QueueJoin
  BY <1>2 DEF QueueJoin
<1>3. CASE Push \/ TakeResult \/ StartDrain \/ DrainPoll \/ DrainResults
           \/ EditBegin \/ EditSteps \/ StopBegin \/ StopPost \/ StopRead
           \/ StopReset \/ StopEnd \/ SpawnFails
  BY <1>3 DEF Push, TakeResult, StartDrain, DrainPoll, DrainResults, EditBegin,
              EditSteps, EraseCancelled, Promote, StopBegin, StopPost, StopRead,
              StopReset, StopEnd, SpawnFails
<1>4. CASE AwaitResult \/ DrainDone
  <2>1. main' \in {"take", "idle", "stopPost"} /\ UNCHANGED <<pc, cur>>
    BY <1>4, Zenon DEF AwaitResult, DrainDone, ContinueAt
  <2> QED  BY <2>1
<1>5. CASE EnsureRunning
  BY <1>5 DEF EnsureRunning, Unused, AfterQueue
<1>6. CASE StopJoin
  BY <1>6 DEF StopJoin
<1>7. ASSUME NEW t \in Thread, Check(t) \/ SemWait(t) \/ Recheck(t) \/ Leave(t)
      PROVE  Held'
  BY ZenonT(30), <1>7 DEF Check, SemWait, Recheck, Leave
<1>8. ASSUME NEW t \in Thread, Fetch(t) PROVE Held'
  <2>1. CASE q = <<>>
    BY <1>8, <2>1 DEF Fetch
  <2>2. CASE q # <<>>
    <3>1. main \notin {"push", "ensure"} /\ UNCHANGED <<main, arg>>
      BY <1>8 DEF Fetch, LockFree
    <3>2. pc' = [pc EXCEPT ![t] = "execute"] /\ cur' = [cur EXCEPT ![t] = Head(q)]
      BY <1>8, <2>2, Zenon DEF Fetch
    <3>3. q' = q \/ q' = Tail(q)
      BY <1>8, <2>2, Zenon DEF Fetch
    <3>4. q \in Seq(Instr) /\ q # <<>>
      BY <2>2
    <3>5. Head(q) \in Instr /\ Queued(Head(q))
      BY <3>4
    <3>6. ASSUME NEW i, Queued(i)' PROVE Queued(i)
      <4>1. PICK n \in 1..Len(q') : q'[n] = i
        BY <3>6
      <4>2. CASE q' = q
        BY <4>1, <4>2
      <4>3. CASE q' = Tail(q)
        <5>1. n + 1 \in 1..Len(q) /\ q[n + 1] = i
          BY <3>4, <4>1, <4>3
        <5> QED  BY <5>1
      <4> QED  BY <3>3, <4>2, <4>3
    <3>7. main' \in {"join", "push"} => ~Queued(arg.instr)' /\ ~InHand(arg.instr)'
      BY ZenonT(30), <3>1, <3>2, <3>5, <3>6
    <3>8. \A u \in Thread : cur'[u] # NoInstr <=> pc'[u] \in {"execute", "finish"}
      BY <3>2, <3>5
    <3> QED  BY <3>7, <3>8
  <2> QED  BY <2>1, <2>2
<1>9. ASSUME NEW t \in Thread, Execute(t) \/ Throw(t) PROVE Held'
  BY <1>9 DEF Execute, Throw
<1>10. ASSUME NEW t \in Thread, Finish(t) PROVE Held'
  <2>1. cur' = [cur EXCEPT ![t] = NoInstr] /\ UNCHANGED <<main, arg, q>>
    BY <1>10 DEF Finish
  <2>2. \E p \in {"done", "check"} : pc' = [pc EXCEPT ![t] = p]
    BY <1>10 DEF Finish
  <2> QED  BY <2>1, <2>2
<1>11. CASE UNCHANGED vars
  BY <1>11 DEF vars
<1> QED
  BY <1>1, <1>2, <1>3, <1>4, <1>5, <1>6, <1>7, <1>8, <1>9, <1>10, <1>11
     DEF Next, MainChoice, MainProgress, Queue, QueueSteps, WaitSteps, StopSteps,
         Worker, ProcessOver

\* Only a queue with priorities is pushed to the front.
Privileged == arg.priority => kind.prioritised

LEMMA PrivilegedStep == Privileged /\ [Next]_vars => Privileged'
<1> SUFFICES ASSUME Privileged, [Next]_vars PROVE Privileged'
  OBVIOUS
<1>1. kind' = kind
  BY KindStays
<1>2. CASE Queue
  <2>1. PICK i \in Instr, p \in BOOLEAN : (p => kind.prioritised) /\ QueueEnter(i, p)
    BY <1>2 DEF Queue
  <2>2. arg' = [instr |-> i, priority |-> p]
    BY <2>1, Zenon DEF QueueEnter
  <2>3. arg'.priority = p
    BY <2>2, Zenon
  <2> QED  BY <1>1, <2>1, <2>3, Zenon DEF Privileged
<1>3. CASE ~Queue
  <2>1. arg' = arg
    BY <1>3 DEF Next, MainChoice, MainProgress, QueueSteps, WaitSteps, StopSteps,
         EditSteps, EraseCancelled, Promote, Worker, ProcessOver, vars, mainVars,
         StartDrain, EditBegin, DrainResults, StopBegin, QueueJoin, Push,
         EnsureRunning, SpawnFails, AwaitResult, TakeResult, DrainPoll, DrainDone,
         StopPost, StopRead, StopJoin, StopReset, StopEnd, Check, SemWait, Recheck,
         Fetch, Execute, Throw, Finish, Leave
  <2> QED  BY <1>1, <2>1, Zenon DEF Privileged
<1> QED  BY <1>2, <1>3

-----------------------------------------------------------------------------
(* The step simulation.                                                    *)

\* A call of main's is the abstract client's only while it edits or ends.
Client(place) ==
    IF place = "edit" THEN "editing"
    ELSE IF place \in Stopping \ {"stopClear"} THEN "ending"
    ELSE "open"

\* A step that keeps the deque, every hand and the client's call maps to a
\* stutter.
LEMMA StutterStep ==
    UNCHANGED <<kind, q, cur>> /\ Client(main') = Client(main)
        => UNCHANGED Abstract!vars
BY DEF Abstract!vars, Client

LEMMA StepSimulation ==
    Safe /\ Held /\ Privileged /\ [Next]_vars => [Abstract!Next]_(Abstract!vars)
<1> SUFFICES ASSUME TypeOK, Hands, Coherent, Held, Privileged, [Next]_vars
             PROVE  Abstract!Next \/ UNCHANGED Abstract!vars
  BY DEF Safe, TypeInv
<1> USE DEF queueVars, threadVars, mainVars, flags
<1>0. UNCHANGED kind
  BY KindStays
<1>a. ASSUME UNCHANGED <<q, cur>> /\ Client(main') = Client(main)
      PROVE  UNCHANGED Abstract!vars
  BY <1>0, <1>a, StutterStep
\* An idle client begins to end the queue.
<1>b. ASSUME UNCHANGED <<q, cur>>, Client(main) = "open", main' = "stopPost"
      PROVE  Abstract!Next
  <2>1. Client(main') = "ending"
    BY <1>b DEF Client, Stopping
  <2>2. Abstract!BeginEnd
    BY <1>0, <1>b, <2>1 DEF Abstract!BeginEnd, Client
  <2> QED  BY <2>2 DEF Abstract!Next
<1>1. CASE Push
  <2>1. arg.instr \in Instr /\ UNCHANGED cur /\ main = "push" /\ main' = "ensure"
    BY <1>1 DEF Push, Hands
  <2>2. Client(main) = "open" /\ Client(main') = "open"
    BY <2>1 DEF Client, Stopping
  <2>3. q' = IF arg.priority THEN <<arg.instr>> \o q ELSE Append(q, arg.instr)
    BY <1>1, Zenon DEF Push
  <2>4. CASE kind.hasQueue
    <3>1. ~Queued(arg.instr) /\ ~InHand(arg.instr) /\ (arg.priority => kind.prioritised)
      BY <2>1, Zenon DEF Held, Privileged
    <3>2. ~Abstract!Pending(arg.instr)
      BY <2>4, <3>1 DEF Queued, Abstract!Pending
    <3>3. arg.instr \notin {cur[t] : t \in Thread} \ {NoInstr}
      BY <3>1 DEF InHand
    <3>4. Abstract!Submit(arg.instr)
      BY <1>0, <2>1, <2>2, <2>3, <2>4, <3>1, <3>2, <3>3 DEF Abstract!Submit, Client
    <3> QED  BY <2>1, <3>4 DEF Abstract!Next
  <2>5. CASE ~kind.hasQueue
    BY <1>0, <2>2, <2>5 DEF Abstract!vars, Client
  <2> QED  BY <2>4, <2>5
<1>2. CASE EditBegin
  <2>1. Client(main) = "open" /\ Client(main') = "editing"
    BY <1>2 DEF EditBegin, Client, Stopping
  <2>2. Abstract!BeginEdit
    BY <1>0, <1>2, <2>1 DEF EditBegin, Abstract!BeginEdit, Client
  <2> QED  BY <2>2 DEF Abstract!Next
<1>3. CASE EditSteps
  <2>1. Client(main) = "editing" /\ Client(main') = "open" /\ UNCHANGED cur
    BY <1>3 DEF EditSteps, EraseCancelled, Promote, Client, Stopping
  <2>2. CASE ~kind.hasQueue
    <3>a. <<>> \in Seq(Instr)
      OBVIOUS
    <3>1. <<>> \in Subsequences(<<>>)
      BY <3>a, EmptySubsequence, Zenon
    <3>2. <<>> \in Abstract!Subsequences(<<>>)
      BY <3>1 DEF Subsequences, Picks, Abstract!Subsequences, Abstract!Picks
    <3>3. Abstract!Withdraw
      BY <1>0, <2>1, <2>2, <3>2 DEF Abstract!Withdraw, Client
    <3> QED  BY <3>3 DEF Abstract!Next
  <2>3. CASE kind.hasQueue /\ EraseCancelled
    <3>1. q' \in Abstract!Subsequences(q)
      BY <2>3 DEF EraseCancelled, Subsequences, Picks,
                  Abstract!Subsequences, Abstract!Picks
    <3>2. Abstract!Withdraw
      BY <1>0, <2>1, <2>3, <3>1 DEF Abstract!Withdraw, Client
    <3> QED  BY <3>2 DEF Abstract!Next
  <2>4. CASE kind.hasQueue /\ Promote
    <3>1. \E n \in 1..Len(q) : q' = Abstract!ToFront(q, n)
      BY <2>4 DEF Promote, ToFront, Abstract!ToFront
    <3>2. Abstract!Promote
      BY <1>0, <2>1, <2>4, <3>1 DEF Abstract!Promote, Client
    <3> QED  BY <3>2 DEF Abstract!Next
  <2> QED  BY <1>3, <2>2, <2>3, <2>4 DEF EditSteps
<1>4. CASE StopReset
  <2>1. Client(main) = "ending" /\ Client(main') = "open" /\ q' = <<>> /\ UNCHANGED cur
    BY <1>4 DEF StopReset, Client, Stopping
  <2>2. \A t \in Thread : cur[t] = NoInstr
    BY <1>4 DEF StopReset, Coherent, OneWorker, Held, Live
  <2>3. {cur[t] : t \in Thread} \ {NoInstr} = {}
    BY <2>2
  <2>4. Abstract!End
    BY <1>0, <2>1, <2>3 DEF Abstract!End, Client
  <2> QED  BY <2>4 DEF Abstract!Next
<1>5. ASSUME NEW t \in Thread, Fetch(t) PROVE Abstract!Next \/ UNCHANGED Abstract!vars
  <2>1. CASE q = <<>>
    BY <1>5, <1>a, <2>1 DEF Fetch
  <2>2. CASE ~kind.hasQueue
    BY <1>0, <1>5, <2>2 DEF Fetch, Abstract!vars
  <2>3. CASE q # <<>> /\ kind.hasQueue
    <3>1. q' = Tail(q) /\ cur' = [cur EXCEPT ![t] = Head(q)] /\ UNCHANGED main
      BY <1>5, <2>3, Zenon DEF Fetch
    <3>2. Head(q) \in Instr /\ Head(q) # NoInstr
      BY <2>3, ConstantsAssumption DEF TypeOK
    <3>3. \A u \in Thread : cur[u] = NoInstr
      BY <1>5 DEF Fetch, Held, Coherent, OneWorker, Live
    <3>4. {cur[u] : u \in Thread} \ {NoInstr} = {}
      BY <3>3
    <3>5. {cur'[u] : u \in Thread} \ {NoInstr} = {Head(q)}
      BY <3>1, <3>2, <3>3 DEF TypeOK
    <3>6. Abstract!Take
      BY <1>0, <2>3, <3>1, <3>4, <3>5 DEF Abstract!Take
    <3> QED  BY <3>6 DEF Abstract!Next
  <2> QED  BY <2>1, <2>2, <2>3
<1>6. ASSUME NEW t \in Thread, Throw(t) \/ Finish(t)
      PROVE  Abstract!Next \/ UNCHANGED Abstract!vars
  <2>1. /\ q' = q /\ cur' = [cur EXCEPT ![t] = NoInstr] /\ UNCHANGED main
        /\ pc[t] \in {"execute", "finish"}
    BY <1>6, Zenon DEF Throw, Finish
  <2>2. CASE ~kind.hasQueue
    BY <1>0, <2>1, <2>2 DEF Abstract!vars
  <2>3. CASE kind.hasQueue
    <3>1. \A u \in Thread : u # t => cur[u] = NoInstr
      BY <2>1 DEF Held, Coherent, OneWorker, Live
    <3>2. cur[t] # NoInstr
      BY <2>1 DEF Held
    <3>3. {cur[u] : u \in Thread} \ {NoInstr} # {}
      BY <3>2
    <3>4. {cur'[u] : u \in Thread} \ {NoInstr} = {}
      BY <2>1, <3>1 DEF TypeOK
    <3>5. Abstract!Complete
      BY <1>0, <2>1, <2>3, <3>3, <3>4 DEF Abstract!Complete
    <3> QED  BY <3>5 DEF Abstract!Next
  <2> QED  BY <2>2, <2>3
<1>7. ASSUME NEW t \in Thread,
             Check(t) \/ SemWait(t) \/ Recheck(t) \/ Execute(t) \/ Leave(t)
      PROVE  UNCHANGED Abstract!vars
  BY <1>7, <1>a DEF Check, SemWait, Recheck, Execute, Leave
<1>8. CASE AwaitResult \/ DrainDone
  <2>1. UNCHANGED <<q, cur>> /\ main \in {"await", "drain"}
    BY <1>8, Zenon DEF AwaitResult, DrainDone
  <2>2. main' \in {"take", "idle"} \/ main' = "stopPost"
    BY <1>8, Zenon DEF AwaitResult, DrainDone, ContinueAt
  <2>3. Client(main) = "open" /\ (main' \in {"take", "idle"} => Client(main') = "open")
    BY <2>1 DEF Client, Stopping
  <2> QED  BY <1>a, <1>b, <2>1, <2>2, <2>3
<1>9. CASE StopBegin
  <2>1. UNCHANGED <<q, cur>> /\ main = "idle" /\ main' = "stopPost"
    BY <1>9, Zenon DEF StopBegin
  <2> QED  BY <1>b, <2>1 DEF Client, Stopping
<1>10. CASE StopPost \/ StopRead \/ StopJoin
  BY <1>10, <1>a DEF StopPost, StopRead, StopJoin, Client, Stopping
<1>11. CASE \/ Queue \/ StartDrain \/ DrainResults \/ QueueJoin \/ TakeResult
            \/ StopEnd \/ DrainPoll \/ SpawnFails
  <2>1. UNCHANGED <<q, cur>>
    BY <1>11 DEF Queue, QueueEnter, StartDrain, DrainResults, QueueJoin,
                 TakeResult, StopEnd, DrainPoll, SpawnFails
  <2>2. /\ main \in {"idle", "join", "take", "stopClear", "drain", "ensure"}
        /\ main' \in {"join", "push", "drain", "idle", "ended", "failed"}
    BY <1>11 DEF Queue, QueueEnter, StartDrain, DrainResults, QueueJoin,
                 TakeResult, StopEnd, DrainPoll, SpawnFails
  <2> QED  BY <1>a, <2>1, <2>2 DEF Client, Stopping
<1>12. CASE EnsureRunning
  <2>1. UNCHANGED <<q, cur>> /\ main = "ensure" /\ main' = AfterQueue
    BY <1>12, Zenon DEF EnsureRunning
  <2> QED  BY <1>a, <2>1 DEF AfterQueue, Client, Stopping
<1>13. CASE ProcessOver \/ UNCHANGED vars
  BY <1>a, <1>13 DEF ProcessOver, vars
<1> QED
  BY <1>1, <1>2, <1>3, <1>4, <1>5, <1>6, <1>7, <1>8, <1>9, <1>10, <1>11, <1>12,
     <1>13
     DEF Next, MainChoice, MainProgress, QueueSteps, WaitSteps, StopSteps, Worker

\* The asynchronous queue, with its thread, lock and semaphores, is a work
\* queue: it takes instructions in order, one at a time, each at most once, and
\* the worker carries out whatever it takes off the deque, even when
\* instructions throw or a thread cannot start.  Nothing else takes work off
\* but main: an edit while it holds the lock, and endThreads() with the worker
\* joined.  (That what is queued is taken at all, the fairness of
\* Abstract!Spec, is checked by TLC.)
THEOREM ImplementsWorkQueueSafely ==
    Spec => Abstract!Init /\ [][Abstract!Next]_(Abstract!vars)
<1>1. Init => Held /\ Privileged
  BY DEF Init, Held, Privileged
<1>2. Init => Abstract!Init
  <2> SUFFICES ASSUME Init PROVE Abstract!Init
    OBVIOUS
  <2>1. {cur[t] : t \in Thread} \ {NoInstr} = {}
    BY DEF Init
  <2>2. kind.prioritised \in BOOLEAN
    BY ConstantsAssumption DEF Init, QueueKind
  <2> QED  BY <2>1, <2>2 DEF Init, Stopping, Abstract!Init
<1> QED
  BY <1>1, <1>2, SafeInvariant, HeldStep, PrivilegedStep, StepSimulation, PTL
     DEF Spec
=============================================================================
