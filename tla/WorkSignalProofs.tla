--------------------------- MODULE WorkSignalProofs ---------------------------
(***************************************************************************)
(* No wakeup is lost, for any number of producers and however often they   *)
(* notify.  The argument: once main has seen the work unfinished, the      *)
(* completion has yet to raise the generation or has raised it past the    *)
(* snapshot; and main sleeps on a generation past its snapshot only if the *)
(* raise has already set what will wake it.                                *)
(***************************************************************************)
EXTENDS WorkSignal, TLAPS

Done == work[awaited] = "done"

Remembered ==
    /\ observed <= generation
    /\ main \in {"wait", "asleep"} /\ Done /\ notifying[awaited] # "raise" =>
          observed < generation
    /\ main = "asleep" /\ windows /\ observed < generation => event
    /\ main = "asleep" /\ ~windows /\ Done /\ notifying[awaited] = "no" => woken

Inv == TypeOK /\ Remembered

LEMMA InvInit == Init => Inv
<1> SUFFICES ASSUME Init PROVE Inv
  OBVIOUS
<1>1. windows \in BOOLEAN /\ event \in BOOLEAN /\ woken \in BOOLEAN
  BY Zenon DEF Init
<1> QED  BY <1>1 DEF Init, Inv, TypeOK, Remembered, Done

\* The platform and the two wake flags stay Booleans.
LEMMA FlagsStep ==
    TypeOK /\ [Next]_vars =>
        windows' \in BOOLEAN /\ event' \in BOOLEAN /\ woken' \in BOOLEAN
BY Zenon DEF TypeOK, vars, signalVars, producerVars, mainVars, Next, Main, Produce,
   Snapshot, Test, Wait, Awake, Service, TimeOut, Rest, Complete, Raise, Wake,
   Start, Await, Collect

LEMMA InvStep == Inv /\ [Next]_vars => Inv'
<1> SUFFICES ASSUME TypeOK, Remembered, [Next]_vars PROVE Inv'
  BY DEF Inv
<1>0. windows' \in BOOLEAN /\ event' \in BOOLEAN /\ woken' \in BOOLEAN
  BY FlagsStep
<1> USE <1>0 DEF Inv, TypeOK, Remembered, Done, signalVars, producerVars, mainVars
<1>1. CASE Snapshot \/ Service \/ Rest
  BY <1>1 DEF Snapshot, Service, Rest, vars
<1>2. CASE Test
  BY <1>2 DEF Test
<1>3. CASE Wait
  BY <1>3 DEF Wait
<1>4. CASE Awake
  BY <1>4 DEF Awake
<1>5. CASE TimeOut
  BY <1>5 DEF TimeOut
<1>6. ASSUME NEW p \in Producer, Complete(p) PROVE Inv'
  BY <1>6 DEF Complete
<1>7. ASSUME NEW p \in Producer, Raise(p) PROVE Inv'
  BY <1>7 DEF Raise
<1>8. ASSUME NEW p \in Producer, Wake(p) PROVE Inv'
  BY <1>8 DEF Wake
<1>9. ASSUME NEW p \in Producer, Start(p) \/ Await(p) \/ Collect(p) PROVE Inv'
  BY <1>9 DEF Start, Await, Collect
<1>10. CASE UNCHANGED vars
  BY <1>10 DEF vars
<1> QED
  BY <1>1, <1>2, <1>3, <1>4, <1>5, <1>6, <1>7, <1>8, <1>9, <1>10
     DEF Next, Main, Produce

\* "A completion between that check and this wait then cannot be lost."
THEOREM NoLostWakeupCorrect == Spec => []NoLostWakeup
<1>1. Inv => NoLostWakeup
  BY DEF Inv, TypeOK, Remembered, Done, NoLostWakeup
<1> QED  BY <1>1, InvInit, InvStep, PTL DEF Spec
=============================================================================
