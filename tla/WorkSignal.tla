----------------------------- MODULE WorkSignal -----------------------------
(***************************************************************************)
(* mainThreadWork, Support/WorkScheduler.cpp: a generation counter under a *)
(* mutex, raised by any thread with news for the main thread, and the wait *)
(* of the main thread, as waitForAsync uses it: take a snapshot of the     *)
(* generation, look whether the work is done, and sleep unless the         *)
(* generation has moved since the snapshot.                                *)
(*                                                                         *)
(* Main sleeps on a condition variable, or on Windows on an event it has   *)
(* reset.  A critical section of the mutex is one step.                    *)
(***************************************************************************)
EXTENDS Naturals

CONSTANTS
    Producer,   \* threads that complete work and notify
    MaxGen      \* no work is begun once the generation has reached this bound

ASSUME ConstantsAssumption == MaxGen \in Nat

VARIABLES
    windows,    \* the platform, constant
    generation, \* the counter
    event,      \* wakeEvent is set (Windows)
    woken,      \* the condition variable's waiter has been woken (elsewhere)
    work,       \* each producer's work
    notifying,  \* where each producer is in notify()
    main,       \* where main is in waitForAsync
    observed,   \* the generation main has seen
    awaited     \* the producer whose work main waits for

signalVars == <<generation, event, woken>>
producerVars == <<work, notifying>>
mainVars == <<main, observed, awaited>>
vars == <<windows, signalVars, producerVars, mainVars>>

TypeOK ==
    /\ windows \in BOOLEAN
    /\ generation \in Nat
    /\ event \in BOOLEAN
    /\ woken \in BOOLEAN
    /\ work \in [Producer -> {"none", "busy", "done"}]
    /\ notifying \in [Producer -> {"no", "raise", "wake"}]
    /\ main \in {"idle", "snapshot", "test", "wait", "asleep", "service"}
    /\ observed \in Nat
    /\ awaited \in Producer

Init ==
    /\ windows \in BOOLEAN
    /\ generation = 0
    /\ event = FALSE
    /\ woken = FALSE
    /\ work = [p \in Producer |-> "none"]
    /\ notifying = [p \in Producer |-> "no"]
    /\ main = "idle"
    /\ observed = 0
    /\ awaited \in Producer

-----------------------------------------------------------------------------
(* Faulty variants of the operations below; each breaks a property.        *)

\* waitUntil sleeping without a look at the generation.
WaitWithoutLook ==
    /\ main = "wait"
    /\ main' = "asleep" /\ event' = FALSE /\ woken' = FALSE
    /\ UNCHANGED <<windows, generation, producerVars, observed, awaited>>

\* notify() waking nobody.
WakeNobody(p) ==
    /\ notifying[p] = "wake"
    /\ notifying' = [notifying EXCEPT ![p] = "no"]
    /\ UNCHANGED <<windows, signalVars, work, mainVars>>

-----------------------------------------------------------------------------
(* The producers.                                                          *)

\* A thread nobody waits for has something to do (an SDL event, say).
Start(p) ==
    /\ generation < MaxGen
    /\ work[p] = "none" /\ notifying[p] = "no"
    /\ work' = [work EXCEPT ![p] = "busy"]
    /\ UNCHANGED <<windows, signalVars, notifying, mainVars>>

Complete(p) ==
    /\ work[p] = "busy"
    /\ work' = [work EXCEPT ![p] = "done"]
    /\ notifying' = [notifying EXCEPT ![p] = "raise"]
    /\ UNCHANGED <<windows, signalVars, mainVars>>

\* notify(), under the mutex ...
Raise(p) ==
    /\ notifying[p] = "raise"
    /\ generation' = generation + 1
    /\ event' = windows
    /\ notifying' = [notifying EXCEPT ![p] = "wake"]
    /\ UNCHANGED <<windows, woken, work, mainVars>>

\* ... and notify_one() after it.
Wake(p) ==
    /\ notifying[p] = "wake"
    /\ woken' = (woken \/ (main = "asleep" /\ ~windows))
    /\ notifying' = [notifying EXCEPT ![p] = "no"]
    /\ UNCHANGED <<windows, generation, event, work, mainVars>>

-----------------------------------------------------------------------------
(* The main thread: waitForAsync and waitUntil.                            *)

Await(p) ==
    /\ main = "idle"
    /\ generation < MaxGen
    /\ work[p] = "none" /\ notifying[p] = "no"
    /\ work' = [work EXCEPT ![p] = "busy"]
    /\ awaited' = p
    /\ main' = "snapshot"
    /\ UNCHANGED <<windows, signalVars, notifying, observed>>

Snapshot ==
    /\ main = "snapshot"
    /\ observed' = generation
    /\ main' = "test"
    /\ UNCHANGED <<windows, signalVars, producerVars, awaited>>

\* The work is done; or a frame is due; or there is time to sleep.
Test ==
    /\ main = "test"
    /\ IF work[awaited] = "done"
         THEN /\ work' = [work EXCEPT ![awaited] = "none"]
              /\ main' = "idle"
         ELSE /\ main' \in {"service", "wait"}
              /\ UNCHANGED work
    /\ UNCHANGED <<windows, signalVars, notifying, observed, awaited>>

\* waitUntil, under the mutex: nothing to wait for, or to sleep.
Wait ==
    /\ main = "wait"
    /\ IF generation # observed
         THEN main' = "snapshot" /\ UNCHANGED <<event, woken>>
         ELSE main' = "asleep" /\ event' = FALSE /\ woken' = FALSE
    /\ UNCHANGED <<windows, generation, producerVars, observed, awaited>>

\* The event returns main at once; the condition variable's waiter looks at the
\* generation again before it returns.
Awake ==
    /\ main = "asleep"
    /\ \/ windows /\ event /\ main' = "snapshot"
       \/ ~windows /\ woken /\ generation # observed /\ main' = "snapshot"
       \/ ~windows /\ woken /\ generation = observed /\ UNCHANGED main
    /\ woken' = FALSE
    /\ UNCHANGED <<windows, generation, event, producerVars, observed, awaited>>

\* The deadline passes.
TimeOut ==
    /\ main = "asleep"
    /\ main' = "snapshot"
    /\ woken' = FALSE
    /\ UNCHANGED <<windows, generation, event, producerVars, observed, awaited>>

\* A frame of animation and input.
Service ==
    /\ main = "service"
    /\ main' = "snapshot"
    /\ UNCHANGED <<windows, signalVars, producerVars, observed, awaited>>

\* Nothing to wait for; the consumer of other work has taken it.
Collect(p) ==
    /\ main = "idle" /\ work[p] = "done" /\ notifying[p] = "no"
    /\ work' = [work EXCEPT ![p] = "none"]
    /\ UNCHANGED <<windows, signalVars, notifying, mainVars>>

Rest == main = "idle" /\ UNCHANGED vars

Main == Snapshot \/ Test \/ Wait \/ Awake \/ Service
Produce(p) == Complete(p) \/ Raise(p) \/ Wake(p)

Next ==
    \/ Main \/ TimeOut \/ Rest
    \/ \E p \in Producer : Produce(p) \/ Start(p) \/ Await(p) \/ Collect(p)

Spec == Init /\ [][Next]_vars

\* Threads are scheduled.  Nothing is asked of the deadline: the wait must end
\* without its help.
FairSpec == Spec /\ WF_vars(Main) /\ \A p \in Producer : WF_vars(Produce(p))

-----------------------------------------------------------------------------
(* Properties.                                                             *)

\* "A completion between that check and this wait then cannot be lost": main
\* does not sleep on finished work, unless a notify() is still under way.
NoLostWakeup ==
    main = "asleep" /\ work[awaited] = "done" =>
        \/ notifying[awaited] = "raise"
        \/ windows /\ event
        \/ ~windows /\ (woken \/ notifying[awaited] = "wake")

\* waitForAsync returns once the work is done, without waiting for a deadline.
WaitReturns == main # "idle" ~> main = "idle"
=============================================================================
