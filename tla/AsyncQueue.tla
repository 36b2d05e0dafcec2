----------------------------- MODULE AsyncQueue -----------------------------
(***************************************************************************)
(* One AsyncInstructionQueue of Engine/Components/Async.cpp: the deque of  *)
(* instructions, its two semaphores, the worker thread running asyncLoop,  *)
(* and the main thread that queues instructions, waits for results and     *)
(* ends the thread.  The engine has ten such queues; they share nothing    *)
(* but threadShutdownRequested, so one is modelled, and the variable       *)
(* `kind`, fixed by Init, says which sort of queue it is.                  *)
(*                                                                         *)
(* Main is the only producer.  A critical section of the queue's spin lock *)
(* is one step, except where the others can tell: queue()'s is split       *)
(* (QueueEnter, Push, EnsureRunning) because a worker leaving asyncLoop by *)
(* `break` writes `running` without the lock, and those that edit the      *)
(* deque are a place of main's (EditBegin, EraseCancelled, Promote), so    *)
(* that work may only be withdrawn there.                                  *)
(***************************************************************************)
EXTENDS Naturals, Sequences, Subsequence

CONSTANTS
    Instr,         \* instruction objects; one is queued again once destroyed
    Thread,        \* SDL thread identities
    NoInstr,       \* "no instruction in hand"
    NoThread,      \* the null SDL_Thread pointer
    Kinds,         \* the sorts of queue considered, a set of QueueKind
    Throwing,      \* instructions whose execute() may throw ThreadTerminate
    SpawnMayFail,  \* SDL_CreateThread may return null
    MaxSem         \* bound on the semaphore counts main lets accumulate

\* quitOnEmpty: the worker returns when the deque is empty (the cache queues).
\* hasQueue: FALSE for the event queue, which re-executes its front.
\* waits: how main waits for the work: for each result, until the queue has
\* drained, or not at all.  prioritised: main may push to the front and may
\* erase cancelled jobs or bring one to the front (image assets).
QueueKind == [quitOnEmpty : BOOLEAN, hasQueue : BOOLEAN,
              waits : {"result", "drain", "never"}, prioritised : BOOLEAN]

ASSUME ConstantsAssumption ==
    /\ NoInstr \notin Instr
    /\ NoThread \notin Thread
    /\ Kinds \subseteq QueueKind
    /\ Throwing \subseteq Instr
    /\ SpawnMayFail \in BOOLEAN
    /\ MaxSem \in Nat \ {0}

VARIABLES
    kind,       \* the sort of queue, constant
    q,          \* the deque of instructions
    items,      \* count of the semaphore instructionsWaiting
    tokens,     \* count of the semaphore resultsWaiting
    results,    \* the deque `results`, as the instructions that produced them
    thread,     \* the retained SDL_Thread handle
    running,    \* the flag `running`
    shutdown,   \* threadShutdownRequested
    exit,       \* "no", exitCode "requested" by a worker, or quitting "begun"
    pc,         \* where each thread is in asyncLoop
    cur,        \* the instruction a thread has in hand
    main,       \* where the main thread is
    arg,        \* the instruction main queued last, and its priority
    joining     \* the handle main is joining

queueVars == <<q, items, tokens, results>>
threadVars == <<thread, running, pc, cur>>
mainVars == <<main, arg, joining>>
flags == <<shutdown, exit>>
vars == <<kind, queueVars, threadVars, flags, mainVars>>

\* A live thread has still to write `running = FALSE`.
Live == {"check", "wait", "recheck", "fetch", "execute", "finish", "leave"}
\* Places of endThreads, in order.
Stopping == {"stopPost", "stopRead", "stopJoin", "stopReset", "stopClear"}
MainPlaces == {"idle", "join", "push", "ensure", "edit", "await", "take",
               "drain", "failed", "ended"} \cup Stopping

UsesSemaphores == ~kind.quitOnEmpty /\ kind.hasQueue
\* Main keeps the spin lock across the two steps that end queue(), and while it
\* edits the deque.
LockFree == main \notin {"push", "ensure", "edit"}
InHand(i) == \E t \in Thread : cur[t] = i
Queued(i) == \E n \in 1..Len(q) : q[n] = i

TypeOK ==
    /\ kind \in Kinds
    /\ q \in Seq(Instr)
    /\ items \in Nat
    /\ tokens \in Nat
    /\ results \in Seq(Instr)
    /\ thread \in Thread \cup {NoThread}
    /\ running \in BOOLEAN
    /\ shutdown \in BOOLEAN
    /\ exit \in {"no", "requested", "begun"}
    /\ pc \in [Thread -> Live \cup {"none", "done"}]
    /\ cur \in [Thread -> Instr \cup {NoInstr}]
    /\ main \in MainPlaces
    /\ arg \in [instr : Instr \cup {NoInstr}, priority : BOOLEAN]
    /\ joining \in Thread \cup {NoThread}

Init ==
    /\ kind \in Kinds
    /\ q = <<>> /\ items = 0 /\ tokens = 0 /\ results = <<>>
    /\ thread = NoThread
    /\ running = FALSE
    /\ shutdown = FALSE
    /\ exit = "no"
    /\ pc = [t \in Thread |-> "none"]
    /\ cur = [t \in Thread |-> NoInstr]
    /\ main = "idle"
    /\ arg = [instr |-> NoInstr, priority |-> FALSE]
    /\ joining = NoThread

-----------------------------------------------------------------------------
(* Faulty variants of the operations below; each breaks a property.        *)

\* queue() without SDL_SemPost.
PushWithoutPost ==
    /\ main = "push"
    /\ q' = IF arg.priority THEN <<arg.instr>> \o q ELSE Append(q, arg.instr)
    /\ main' = "ensure"
    /\ UNCHANGED <<kind, items, tokens, results, threadVars, flags, arg, joining>>

\* playSoundThreaded taking a timeout for an answer.
AwaitOrTimeOut ==
    /\ main = "await"
    /\ tokens' = IF tokens > 0 THEN tokens - 1 ELSE 0
    /\ main' = "take"
    /\ UNCHANGED <<kind, q, items, results, threadVars, flags, arg, joining>>

\* defaultThreadEnd without the post that wakes the worker.
StopWithoutWake ==
    /\ main = "stopPost"
    /\ main' = "stopRead"
    /\ UNCHANGED <<kind, queueVars, threadVars, flags, arg, joining>>

\* defaultThreadEnd resetting the queue without SDL_WaitThread.
StopWithoutJoin ==
    /\ main = "stopJoin"
    /\ main' = "stopReset"
    /\ UNCHANGED <<kind, queueVars, threadVars, flags, arg, joining>>

\* asyncLoop polling the semaphore instead of waiting for it.
SemPoll(t) ==
    /\ pc[t] = "wait"
    /\ items' = items - 1
    /\ pc' = [pc EXCEPT ![t] = "recheck"]
    /\ UNCHANGED <<kind, q, tokens, results, thread, running, cur, flags, mainVars>>

\* asyncLoop passing over what newer work has made stale: it pops the front of
\* a longer deque and goes round the loop without executing it.
FetchLatest(t) ==
    /\ pc[t] = "fetch"
    /\ LockFree
    /\ IF Len(q) # 1
         THEN /\ pc' = [pc EXCEPT ![t] = "check"]
              /\ q' = IF q = <<>> THEN q ELSE Tail(q)
              /\ UNCHANGED cur
         ELSE /\ pc' = [pc EXCEPT ![t] = "execute"]
              /\ cur' = [cur EXCEPT ![t] = Head(q)]
              /\ q' = IF kind.hasQueue THEN Tail(q) ELSE q
    /\ UNCHANGED <<kind, items, tokens, results, thread, running, flags, mainVars>>

\* asyncLoop deciding to return under the lock, clearing `running` after it.
FinishThenPublish(t) ==
    /\ pc[t] = "finish"
    /\ LockFree
    /\ tokens' = IF UsesSemaphores THEN tokens + 1 ELSE tokens
    /\ cur' = [cur EXCEPT ![t] = NoInstr]
    /\ pc' = [pc EXCEPT ![t] = IF shutdown \/ (q = <<>> /\ kind.quitOnEmpty)
                                 THEN "leave" ELSE "check"]
    /\ UNCHANGED <<kind, q, items, results, thread, running, flags, mainVars>>

-----------------------------------------------------------------------------
(* The main thread: AsyncController::queue.                                *)

\* Take the lock; a finished thread is detached from the queue and joined
\* with the lock released.  The event queue is started once per thread.
QueueEnter(i, priority) ==
    /\ main = "idle"
    /\ ~Queued(i) /\ ~InHand(i) /\ (kind.hasQueue \/ q = <<>>)
    /\ items < MaxSem /\ tokens < MaxSem
    /\ arg' = [instr |-> i, priority |-> priority]
    /\ IF thread # NoThread /\ ~running
         THEN /\ joining' = thread
              /\ thread' = NoThread
              /\ main' = "join"
         ELSE /\ main' = "push"
              /\ UNCHANGED <<joining, thread>>
    /\ UNCHANGED <<kind, queueVars, running, pc, cur, flags>>

\* SDL_WaitThread on the finished thread, then the lock again.
QueueJoin ==
    /\ main = "join"
    /\ pc[joining] = "done"
    /\ pc' = [pc EXCEPT ![joining] = "none"]
    /\ joining' = NoThread
    /\ main' = "push"
    /\ UNCHANGED <<kind, queueVars, thread, running, cur, flags, arg>>

\* Under the lock: push, and one semaphore unit for the worker.
Push ==
    /\ main = "push"
    /\ q' = IF arg.priority THEN <<arg.instr>> \o q ELSE Append(q, arg.instr)
    /\ items' = IF kind.quitOnEmpty THEN items ELSE items + 1
    /\ main' = "ensure"
    /\ UNCHANGED <<kind, tokens, results, threadVars, flags, arg, joining>>

\* Where main goes once queue() has returned.
AfterQueue == IF kind.waits = "result" THEN "await" ELSE "idle"

\* An identity SDL may give a new thread: never used, joined, or lost.
Unused(t) ==
    pc[t] = "none" \/ (pc[t] = "done" /\ t \notin {thread, joining})

\* Still under the lock: the worker is running, or a thread is created.
EnsureRunning ==
    /\ main = "ensure"
    /\ \/ /\ running
          /\ main' = AfterQueue
          /\ UNCHANGED threadVars
       \/ /\ ~running
          /\ \E t \in Thread :
                /\ Unused(t)
                /\ thread' = t
                /\ pc' = [pc EXCEPT ![t] = "check"]
          /\ running' = TRUE
          /\ main' = AfterQueue
          /\ UNCHANGED cur
    /\ UNCHANGED <<kind, queueVars, flags, arg, joining>>

\* SDL_CreateThread returned null: queue() throws and nobody catches it.
SpawnFails ==
    /\ SpawnMayFail
    /\ main = "ensure" /\ ~running
    /\ thread' = NoThread
    /\ main' = "failed"
    /\ UNCHANGED <<kind, queueVars, running, pc, cur, flags, arg, joining>>

-----------------------------------------------------------------------------
(* The main thread's ways of waiting.                                      *)

\* preventExit(FALSE) at the end of a wait: quit if a worker asked for it.
\* Quitting deinitialises the controllers, so it starts endThreads().
ContinueAt(place) ==
    IF exit = "no"
      THEN main' = place /\ UNCHANGED flags
      ELSE main' = "stopPost" /\ shutdown' = TRUE /\ exit' = "begun"

\* playSoundThreaded: wait for a unit of resultsWaiting ...
AwaitResult ==
    /\ main = "await"
    /\ tokens > 0
    /\ tokens' = tokens - 1
    /\ ContinueAt("take")
    /\ UNCHANGED <<kind, q, items, results, threadVars, arg, joining>>

\* ... and take the front of `results`, which must be there.
TakeResult ==
    /\ main = "take"
    /\ results' = IF results = <<>> THEN <<>> ELSE Tail(results)
    /\ main' = "idle"
    /\ UNCHANGED <<kind, q, items, tokens, threadVars, flags, arg, joining>>

\* cache_wait_img, cache_wait_snd: poll until the queue is drained.
StartDrain ==
    /\ kind.waits = "drain"
    /\ main = "idle"
    /\ tokens' = 0
    /\ main' = "drain"
    /\ UNCHANGED <<kind, q, items, results, threadVars, flags, arg, joining>>

\* Each turn of the loop waits at most a millisecond for a result.
DrainPoll ==
    /\ main = "drain"
    /\ q # <<>> \/ running
    /\ tokens' = IF tokens > 0 THEN tokens - 1 ELSE 0
    /\ UNCHANGED <<kind, q, items, results, threadVars, flags, mainVars>>

DrainDone ==
    /\ main = "drain"
    /\ q = <<>> /\ ~running
    /\ tokens' = 0
    /\ ContinueAt("idle")
    /\ UNCHANGED <<kind, q, items, results, threadVars, arg, joining>>

\* Main takes the lock to edit the deque ...
EditBegin ==
    /\ kind.prioritised
    /\ main = "idle"
    /\ main' = "edit"
    /\ UNCHANGED <<kind, queueVars, threadVars, flags, arg, joining>>

\* ... to erase the instructions of cancelled jobs (prepareImage,
\* cancelPrefetch, clearImageAssets); no semaphore unit is taken back ...
EraseCancelled ==
    /\ main = "edit"
    /\ q' \in Subsequences(q)
    /\ main' = "idle"
    /\ UNCHANGED <<kind, items, tokens, results, threadVars, flags, arg, joining>>

\* ... or to bring that of a claimed job to the front (requestImageAsset).
Promote ==
    /\ main = "edit"
    /\ \E n \in 1..Len(q) : q' = ToFront(q, n)
    /\ main' = "idle"
    /\ UNCHANGED <<kind, items, tokens, results, threadVars, flags, arg, joining>>

\* serviceImageAssets drains the results nobody waits for, once per frame.
DrainResults ==
    /\ kind.prioritised
    /\ main = "idle"
    /\ tokens > 0
    /\ tokens' = 0
    /\ UNCHANGED <<kind, q, items, results, threadVars, flags, mainVars>>

-----------------------------------------------------------------------------
(* The main thread: endThreads and defaultThreadEnd.                       *)

\* A reset of the game, or quitting (at main's own wish, or when the event
\* loop finds the exitCode a worker has left).
StopBegin ==
    /\ main = "idle"
    /\ shutdown' = TRUE
    /\ exit' \in {exit, "begun"}
    /\ main' = "stopPost"
    /\ UNCHANGED <<kind, queueVars, threadVars, arg, joining>>

\* The worker may be suspended on the semaphore; wake it.
StopPost ==
    /\ main = "stopPost"
    /\ items' = IF kind.quitOnEmpty THEN items ELSE items + 1
    /\ main' = "stopRead"
    /\ UNCHANGED <<kind, q, tokens, results, threadVars, flags, arg, joining>>

StopRead ==
    /\ main = "stopRead"
    /\ joining' = thread
    /\ main' = "stopJoin"
    /\ UNCHANGED <<kind, queueVars, threadVars, flags, arg>>

StopJoin ==
    /\ main = "stopJoin"
    /\ \/ joining = NoThread /\ UNCHANGED pc
       \/ /\ joining # NoThread
          /\ pc[joining] = "done"
          /\ pc' = [pc EXCEPT ![joining] = "none"]
    /\ main' = "stopReset"
    /\ UNCHANGED <<kind, queueVars, thread, running, cur, flags, arg, joining>>

StopReset ==
    /\ main = "stopReset"
    /\ thread' = IF thread = joining THEN NoThread ELSE thread
    /\ joining' = NoThread
    /\ running' = FALSE
    /\ q' = <<>> /\ items' = 0 /\ tokens' = 0
    /\ main' = "stopClear"
    /\ UNCHANGED <<kind, results, pc, cur, flags, arg>>

StopEnd ==
    /\ main = "stopClear"
    /\ shutdown' = FALSE
    /\ main' = IF exit = "begun" THEN "ended" ELSE "idle"
    /\ UNCHANGED <<kind, queueVars, threadVars, exit, arg, joining>>

-----------------------------------------------------------------------------
(* The worker: AsyncController::asyncLoop.                                 *)

\* Top of the loop: threadShutdownRequested, then the semaphore or the lock.
Check(t) ==
    /\ pc[t] = "check"
    /\ pc' = [pc EXCEPT ![t] = IF shutdown THEN "leave"
                               ELSE IF UsesSemaphores THEN "wait" ELSE "recheck"]
    /\ UNCHANGED <<kind, queueVars, thread, running, cur, flags, mainVars>>

SemWait(t) ==
    /\ pc[t] = "wait"
    /\ items > 0
    /\ items' = items - 1
    /\ pc' = [pc EXCEPT ![t] = "recheck"]
    /\ UNCHANGED <<kind, q, tokens, results, thread, running, cur, flags, mainVars>>

Recheck(t) ==
    /\ pc[t] = "recheck"
    /\ pc' = [pc EXCEPT ![t] = IF shutdown THEN "leave" ELSE "fetch"]
    /\ UNCHANGED <<kind, queueVars, thread, running, cur, flags, mainVars>>

\* Under the lock: an instruction, or around the loop again.
Fetch(t) ==
    /\ pc[t] = "fetch"
    /\ LockFree
    /\ IF q = <<>>
         THEN /\ pc' = [pc EXCEPT ![t] = "check"]
              /\ UNCHANGED <<q, cur>>
         ELSE /\ pc' = [pc EXCEPT ![t] = "execute"]
              /\ cur' = [cur EXCEPT ![t] = Head(q)]
              /\ q' = IF kind.hasQueue THEN Tail(q) ELSE q
    /\ UNCHANGED <<kind, items, tokens, results, thread, running, flags, mainVars>>

\* execute() returns; playing a sound publishes its result first.
Execute(t) ==
    /\ pc[t] = "execute"
    /\ results' = IF kind.waits = "result" THEN Append(results, cur[t]) ELSE results
    /\ pc' = [pc EXCEPT ![t] = "finish"]
    /\ UNCHANGED <<kind, q, items, tokens, thread, running, cur, flags, mainVars>>

\* execute() throws ThreadTerminate: requestQuit on a worker thread has left an
\* exitCode for main.
Throw(t) ==
    /\ pc[t] = "execute"
    /\ cur[t] \in Throwing
    /\ exit' = IF exit = "no" THEN "requested" ELSE exit
    /\ tokens' = tokens + 1
    /\ pc' = [pc EXCEPT ![t] = "leave"]
    /\ cur' = [cur EXCEPT ![t] = NoInstr]
    /\ UNCHANGED <<kind, q, items, results, thread, running, shutdown, mainVars>>

\* Under the lock: post the result and decide whether to return.
Finish(t) ==
    /\ pc[t] = "finish"
    /\ LockFree
    /\ tokens' = IF UsesSemaphores THEN tokens + 1 ELSE tokens
    /\ cur' = [cur EXCEPT ![t] = NoInstr]
    /\ IF shutdown \/ (q = <<>> /\ kind.quitOnEmpty)
         THEN /\ running' = FALSE
              /\ pc' = [pc EXCEPT ![t] = "done"]
         ELSE /\ pc' = [pc EXCEPT ![t] = "check"]
              /\ UNCHANGED running
    /\ UNCHANGED <<kind, q, items, results, thread, flags, mainVars>>

\* After `break`: `running` is cleared without the lock.
Leave(t) ==
    /\ pc[t] = "leave"
    /\ running' = FALSE
    /\ pc' = [pc EXCEPT ![t] = "done"]
    /\ UNCHANGED <<kind, queueVars, thread, cur, flags, mainVars>>

-----------------------------------------------------------------------------

Queue ==
    \E i \in Instr, p \in BOOLEAN : (p => kind.prioritised) /\ QueueEnter(i, p)

QueueSteps == QueueJoin \/ Push \/ EnsureRunning
WaitSteps == AwaitResult \/ TakeResult \/ DrainDone
StopSteps == StopPost \/ StopRead \/ StopJoin \/ StopReset \/ StopEnd
EditSteps == EraseCancelled \/ Promote
MainProgress == QueueSteps \/ WaitSteps \/ StopSteps \/ EditSteps

MainChoice == Queue \/ StartDrain \/ EditBegin \/ DrainResults \/ StopBegin

Worker(t) ==
    \/ Check(t) \/ SemWait(t) \/ Recheck(t) \/ Fetch(t)
    \/ Execute(t) \/ Throw(t) \/ Finish(t) \/ Leave(t)

\* queue() has thrown, or the engine has quit.
ProcessOver == main \in {"failed", "ended"} /\ UNCHANGED vars

Next ==
    \/ MainChoice \/ MainProgress \/ DrainPoll \/ SpawnFails \/ ProcessOver
    \/ \E t \in Thread : Worker(t)

Spec == Init /\ [][Next]_vars

\* Main finishes the calls it has begun, but need not begin one.  Threads are
\* scheduled, instructions return, and a thread spinning on the queue's lock
\* gets it: main holds it for a few instructions at a time.
Fairness ==
    /\ WF_vars(MainProgress)
    /\ \A t \in Thread :
          /\ WF_vars(Worker(t))
          /\ SF_vars(Fetch(t))
          /\ SF_vars(Finish(t))

FairSpec == Spec /\ Fairness

-----------------------------------------------------------------------------
(* Properties.                                                             *)

\* For the queues whose worker pops what it executes, this is a work queue: it
\* takes instructions in order, one at a time, and forgets none.  Nothing
\* leaves the deque but by the worker that carries it out, by main's edits
\* under the lock, and by endThreads() once the worker has been joined.
Abstract == INSTANCE WorkQueue WITH
    pending <- IF kind.hasQueue THEN q ELSE <<>>,
    active  <- IF kind.hasQueue THEN {cur[t] : t \in Thread} \ {NoInstr} ELSE {},
    client  <- IF main = "edit" THEN "editing"
               ELSE IF main \in Stopping \ {"stopClear"} THEN "ending"
               ELSE "open",
    prioritised <- kind.prioritised
ImplementsWorkQueue == Abstract!Spec

\* At most one thread is inside asyncLoop, it is the one whose handle the
\* queue retains, and the flag says so: instructions of a queue never run
\* concurrently with each other, whatever queue() and endThreads() interleave.
OneWorker ==
    \A t \in Thread : pc[t] \in Live => thread = t /\ running

\* What OneWorker rests on.  `running` is set exactly while the retained handle
\* is that of a live thread; the handle main joins is `thread` itself in
\* endThreads() and a handle already detached in queue(); and the shutdown flag
\* is up only inside endThreads(), past which nothing is left.
Coherent ==
    /\ OneWorker
    /\ running => thread # NoThread /\ pc[thread] \in Live
    /\ shutdown => main \in Stopping
    /\ main \notin {"join", "stopJoin", "stopReset"} => joining = NoThread
    /\ main = "join" => thread = NoThread
    /\ main \in {"stopJoin", "stopReset"} => joining = thread
    /\ main \in {"join", "stopReset", "stopClear"} => ~running
    /\ main = "stopClear" =>
          q = <<>> /\ items = 0 /\ tokens = 0 /\ thread = NoThread

\* An instruction in the deque has a worker that is going to fetch it, once
\* main is out of queue() and endThreads(): the point of publishing
\* `running = false` under the lock.
NoStrandedWork ==
    main \in {"idle", "await", "drain"} /\ q # <<>> =>
        \E t \in Thread : pc[t] \in Live \ {"leave"}

\* queue() never returns having appended to a thread that is about to exit.
AppendReachesWorker ==
    [][main = "ensure" /\ main' \in {"idle", "await"} =>
          \E t \in Thread : pc'[t] \in Live \ {"leave"}]_vars

\* Every queued instruction is covered by a semaphore unit that has not been
\* spent, or that the worker has just taken and will fetch with: a worker
\* never goes to sleep on a deque with work in it.
UnitsCoverQueue ==
    UsesSemaphores /\ main \notin Stopping =>
        Len(q) <= items + (IF \E t \in Thread : pc[t] \in {"recheck", "fetch"}
                             THEN 1 ELSE 0)

\* The result playSoundThreaded pops is that of the sound it queued.
ResultIsOwn ==
    main = "take" => results # <<>> /\ Head(results) = arg.instr

\* endThreads() leaves a queue that can be started afresh: no thread in the
\* loop or waiting to be joined, no work, no semaphore unit.
StopLeavesNothing ==
    main = "stopClear" =>
        /\ q = <<>> /\ items = 0 /\ tokens = 0
        /\ thread = NoThread /\ ~running
        /\ \A t \in Thread : pc[t] \notin Live

\* A thread that has returned is always still reachable by a handle, so it
\* will be joined ("Retain the SDL thread handle until its resources have
\* been joined").
HandleRetained ==
    \A t \in Thread : pc[t] = "done" => t \in {thread, joining}

\* What NoStrandedWork and HandleRetained rest on when no instruction throws: a
\* worker leaves only on shutdown, so between queue() and the worker's last
\* critical section there is work exactly when a thread runs.
Attended ==
    /\ \A t \in Thread : pc[t] = "leave" => shutdown
    /\ main \notin {"ensure", "failed"} \cup Stopping /\ q # <<>> => running
    /\ main \in {"push", "ensure"} /\ ~running => thread = NoThread
    /\ main = "stopReset" /\ joining # NoThread => pc[joining] = "none"
    /\ HandleRetained

\* Every call main makes returns: queue() joins only threads that exit,
\* endThreads() is answered by the worker wherever it was, and the waits of
\* playSoundThreaded and cache_wait end.
CallsReturn == main # "idle" ~> main \in {"idle", "ended"}

\* cache_wait_img and cache_wait_snd return once the work is drained.
DrainReturns == main = "drain" ~> main # "drain"
=============================================================================
