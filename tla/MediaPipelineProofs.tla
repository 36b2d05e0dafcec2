------------------------- MODULE MediaPipelineProofs -------------------------
(***************************************************************************)
(* For any films, queue lengths and codec delay: no thread uses a decoder  *)
(* that was destroyed.  Destruction waits for the worker count, so that    *)
(* count must cover every decoding thread; and the demultiplexer stops     *)
(* looking at decoders before loading returns, so that it has either all   *)
(* its timecodes by then or has left.                                      *)
(***************************************************************************)
EXTENDS MediaPipeline, FiniteSetTheorems, TLAPS

Types ==
    /\ main \in {"offline", "timing", "playing", "resetting"} \cup Callers
    /\ alive \subseteq Stream
    /\ dec \in [Stream -> Running \cup {"none", "queued", "done"}]
    /\ count \in Int /\ counter \in Int

\* The worker count covers the threads that use decoders; where loading and
\* finishing change all of it, it is exact.
Covered ==
    /\ Cardinality(Unfinished) <= count
    /\ Unfinished \subseteq alive
    /\ Unfinished # {} => dmx # "none"
    /\ main \in {"offline", "timing"} => Unfinished = {}
    /\ main = "timing" => count = Cardinality(alive) /\ dmx # "none"

\* Whether the demultiplexer still gathers timecodes.
Gathered == counter = VideoPackets \/ dmx \in {"none", "idle", "done"}
Timing ==
    /\ main = "timing" => "v" \in alive
    /\ main = "offline" => dmx = "none"
    /\ main \notin {"offline", "timing"} => Gathered
    /\ lock = "open" => counter = VideoPackets \/ dmx = "done"

\* The sound is connected only while the layer plays.
Connected == bridge # "none" => "a" \in alive /\ main \in {"playing", "resetting"}

Inv == Types /\ Covered /\ Timing /\ Connected

LEMMA ConstantFacts == VideoPackets \in Nat \ {0}
BY ConstantsAssumption DEF VideoPackets, Stream

LEMMA StreamFinite == IsFiniteSet(Stream)
<1>1. IsFiniteSet({"v"})
  BY FS_Singleton
<1>2. IsFiniteSet({"v"} \cup {"a"})
  BY <1>1, FS_AddElement
<1>3. Stream = {"v"} \cup {"a"}
  BY DEF Stream
<1> QED
  BY <1>2, <1>3

LEMMA UnfinishedFinite ==
    ASSUME NEW S \in SUBSET Stream
    PROVE  IsFiniteSet(S) /\ Cardinality(S) \in Nat /\ (Cardinality(S) = 0 <=> S = {})
BY StreamFinite, FS_Subset, FS_CardinalityType, FS_EmptySet

LEMMA InvImplies == Inv => NothingFreedInUse
BY ConstantFacts DEF Inv, Types, Covered, Timing, Gathered, Connected, NothingFreedInUse

LEMMA InvInit == Init => Inv
<1> SUFFICES ASSUME Init PROVE Inv
  OBVIOUS
<1>1. Unfinished = {}
  BY DEF Init, Unfinished, Running, Working
<1>2. Types
  BY DEF Init, Types, Callers
<1> QED
  BY <1>1, <1>2, FS_EmptySet DEF Init, Inv, Covered, Timing, Connected

LEMMA SameThreads == dec' = dec => Unfinished' = Unfinished
BY DEF Unfinished

\* The layer, between loading and finishing.
LEMMA LayerKeeps ==
    ASSUME Inv, UNCHANGED <<alive, dec, count, counter, dmx, lock>>,
           main \notin {"offline", "timing"},
           main' \in {"playing", "resetting"} \cup Callers,
           bridge' # "none" => bridge # "none" /\ main' \in {"playing", "resetting"}
    PROVE  Inv'
<1>1. Unfinished' = Unfinished
  BY SameThreads
<1> QED
  BY <1>1 DEF Inv, Types, Covered, Timing, Gathered, Connected, Callers

LEMMA LoadKeeps == ASSUME Inv, NEW f \in Films, Load(f) PROVE Inv'
<1>1. Unfinished' = {} /\ Unfinished = {}
  BY SameThreads DEF Load, Inv, Covered, decVars
<1>2. Streams(f) \subseteq Stream /\ "v" \in Streams(f)
  BY DEF Streams, Stream
<1>3. Cardinality(Streams(f)) \in Nat
  BY <1>2, UnfinishedFinite
<1>4. /\ main = "offline" /\ alive' = Streams(f) /\ count' = Cardinality(Streams(f))
      /\ \/ main' = "timing" /\ lock' = "closed" /\ dmx' = "check"
         \/ main' = "playing" /\ lock' = "none" /\ dmx' = "idle"
      /\ UNCHANGED <<dec, counter, bridge>>
  BY DEF Load, decVars
<1>5. bridge = "none"
  BY <1>4 DEF Inv, Connected
<1>6. Covered'
  BY <1>1, <1>3, <1>4, FS_EmptySet DEF Covered
<1>7. Types'
  BY <1>2, <1>3, <1>4 DEF Inv, Types
<1> QED
  BY <1>2, <1>4, <1>5, <1>6, <1>7 DEF Inv, Timing, Gathered, Connected

LEMMA LoadFailsKeeps == ASSUME Inv, NEW f \in Films, LoadFails(f) PROVE Inv'
<1>1. /\ main = "offline" /\ alive' = Streams(f)
      /\ UNCHANGED <<main, dec, dmx, count, counter, lock, bridge>>
  BY DEF LoadFails, demuxVars, decVars
<1>2. Unfinished' = {} /\ Unfinished = {} /\ bridge = "none"
  BY <1>1, SameThreads DEF Inv, Covered, Connected
<1>3. Streams(f) \subseteq Stream
  BY DEF Streams, Stream
<1>4. Covered'
  BY <1>1, <1>2 DEF Inv, Covered
<1> QED
  BY <1>1, <1>2, <1>3, <1>4 DEF Inv, Types, Timing, Gathered, Connected

LEMMA PresentKeeps == ASSUME Inv, Present PROVE Inv'
<1>1. /\ main = "timing" /\ lock = "open" /\ main' = "playing" /\ lock' = "none"
      /\ \/ /\ dec' = [s \in Stream |-> IF s \in alive THEN "queued" ELSE "none"]
            /\ bridge' = IF "a" \in alive THEN "made" ELSE "none"
         \/ "a" \in alive /\ bridge' = "mute" /\ UNCHANGED dec
      /\ UNCHANGED <<alive, count, dmx, counter>>
  BY DEF Present, Timed, demuxVars
<1>2. Gathered
  BY <1>1 DEF Inv, Timing, Gathered
<1>3. /\ alive \subseteq Stream /\ count = Cardinality(alive) /\ dmx # "none"
      /\ Unfinished = {} /\ bridge = "none"
  BY <1>1 DEF Inv, Types, Covered, Connected
<1>4. Unfinished' = alive \/ Unfinished' = {}
  <2>1. CASE dec' = [s \in Stream |-> IF s \in alive THEN "queued" ELSE "none"]
    BY <1>3, <2>1 DEF Unfinished, Running, Working
  <2>2. CASE dec' = dec
    BY <1>3, <2>2, SameThreads
  <2> QED
    BY <1>1, <2>1, <2>2
<1>5. Cardinality(Unfinished') <= count'
  BY <1>1, <1>3, <1>4, UnfinishedFinite, FS_EmptySet
<1>6. Covered'
  BY <1>1, <1>3, <1>4, <1>5 DEF Covered
<1>7. Types'
  BY <1>1 DEF Inv, Types
<1> QED
  BY <1>1, <1>2, <1>3, <1>6, <1>7 DEF Inv, Timing, Gathered, Connected

\* No decoder is destroyed before the count is down to zero, and so none
\* before its thread has left.
LEMMA CountedOut ==
    ASSUME Inv, count = 0, dec' = DecodersGone
    PROVE  Unfinished' = {} /\ dec' \in [Stream -> {"none"}]
<1>1. Unfinished = {}
  BY UnfinishedFinite DEF Inv, Covered, Unfinished
<1> QED
  BY <1>1 DEF DecodersGone, Unfinished, Running, Working

LEMMA FinishKeeps == ASSUME Inv, Finish PROVE Inv'
<1>1. CASE FinishSignal
  BY <1>1, LayerKeeps DEF FinishSignal, demuxVars, decVars, Callers, Inv, Connected
<1>2. CASE FinishLater
  BY <1>2, LayerKeeps DEF FinishLater, ctrlVars, demuxVars, decVars, Callers, Inv, Connected
<1>3. CASE FinishDecoders
  <2>1. Unfinished' = {} /\ dec' \in [Stream -> {"none"}]
    BY <1>3, CountedOut DEF FinishDecoders
  <2>2. /\ main \in Callers /\ main' \in {"playing"} \cup Callers /\ alive' = {}
        /\ UNCHANGED <<bridge, count, lock, dmx, counter>> /\ count = 0
    BY <1>3 DEF FinishDecoders, Callers
  <2>3. bridge = "none" /\ Gathered
    BY <2>2 DEF Inv, Connected, Timing, Callers
  <2>4. Covered'
    BY <2>1, <2>2, FS_EmptySet DEF Covered, Callers
  <2>5. Types'
    BY <2>1, <2>2 DEF Inv, Types
  <2> QED
    BY <2>2, <2>3, <2>4, <2>5 DEF Inv, Timing, Gathered, Connected, Callers
<1>4. CASE FinishAll
  <2>1. Unfinished' = {} /\ dec' \in [Stream -> {"none"}]
    BY <1>4, CountedOut DEF FinishAll, Blank
  <2>2. /\ main \in Callers /\ main' = "offline" /\ alive' = {} /\ count' = 0
        /\ lock' = "none" /\ dmx' = "none" /\ counter' = 0 /\ bridge' = bridge
    BY <1>4 DEF FinishAll, Blank
  <2>3. bridge = "none"
    BY <2>2 DEF Inv, Connected, Callers
  <2>4. Covered'
    BY <2>1, <2>2, FS_EmptySet DEF Covered
  <2>5. Types'
    BY <2>1, <2>2 DEF Types
  <2> QED
    BY <2>2, <2>3, <2>4, <2>5 DEF Inv, Timing, Connected
<1> QED
  BY <1>1, <1>2, <1>3, <1>4 DEF Finish

LEMMA ThreadsEndedKeeps == ASSUME Inv, ThreadsEnded PROVE Inv'
<1>1. /\ main = "resetting" /\ main' = "playing"
      /\ dec' = [s \in Stream |-> IF dec[s] = "queued" THEN "none" ELSE dec[s]]
      /\ UNCHANGED <<bridge, alive, count, lock, dmx, counter>>
  BY DEF ThreadsEnded, demuxVars
<1>2. Unfinished' \subseteq Unfinished
  BY <1>1 DEF Unfinished, Running, Working
<1>3. Unfinished \subseteq Stream
  BY DEF Unfinished
<1>4. Cardinality(Unfinished') <= Cardinality(Unfinished)
  BY <1>2, <1>3, UnfinishedFinite, FS_Subset
<1>5. Cardinality(Unfinished) \in Nat /\ Cardinality(Unfinished') \in Nat
  BY <1>2, <1>3, UnfinishedFinite
<1>6. Covered'
  BY <1>1, <1>2, <1>4, <1>5 DEF Inv, Types, Covered
<1>7. Types'
  BY <1>1 DEF Inv, Types
<1> QED
  BY <1>1, <1>6, <1>7 DEF Inv, Timing, Gathered, Connected

\* The demultiplexer changes what it has gathered and where it is.
LEMMA DemuxFrame ==
    ASSUME Inv, UNCHANGED <<main, alive, count, dec, bridge>>,
           dmx # "none", dmx' # "none", counter' \in Int, Timing'
    PROVE  Inv'
<1>1. Unfinished' = Unfinished
  BY SameThreads
<1> QED
  BY <1>1 DEF Inv, Types, Covered, Connected

\* It goes on, with or without all its timecodes.
LEMMA DemuxGoesOn ==
    ASSUME Inv, UNCHANGED <<main, alive, count, dec, bridge, counter, lock>>,
           dmx \notin {"none", "idle", "done"}, dmx' \notin {"none", "idle", "done"}
    PROVE  Inv'
<1>1. Timing'
  BY DEF Inv, Timing, Gathered
<1>2. counter' \in Int
  BY DEF Inv, Types
<1> QED
  BY <1>1, <1>2, DemuxFrame

LEMMA DemuxKeeps == ASSUME Inv, Demux PROVE Inv'
<1>1. CASE DemuxEnd
  <2>1. /\ dmx \in {"over", "check"} /\ dmx' = "done"
        /\ UNCHANGED <<main, alive, count, dec, bridge, counter>>
    BY <1>1 DEF DemuxEnd, layerVars, decVars
  <2>2. Timing'
    BY <2>1 DEF Inv, Timing, Gathered
  <2> QED
    BY <2>1, <2>2, DemuxFrame DEF Inv, Types
<1>2. CASE DemuxRead
  BY <1>2, DemuxGoesOn DEF DemuxRead, layerVars, ctrlVars, decVars
<1>3. CASE DemuxTimecodes
  <2>1. /\ dmx = "timecodes" /\ dmx' \in {"put", "space"}
        /\ UNCHANGED <<main, alive, count, dec, bridge>>
    BY <1>3 DEF DemuxTimecodes, layerVars, decVars
  <2>2. /\ counter' \in Int
        /\ counter = VideoPackets => counter' = VideoPackets
        /\ lock' = "open" => lock = "open" \/ counter' = VideoPackets
    BY <1>3, ConstantFacts DEF DemuxTimecodes, Timecodes, Posted, Inv, Types
  <2>3. Timing'
    BY <2>1, <2>2 DEF Inv, Timing, Gathered
  <2> QED
    BY <2>1, <2>2, <2>3, DemuxFrame
<1>4. CASE DemuxSpace
  BY <1>4, DemuxGoesOn DEF DemuxSpace, layerVars, ctrlVars, decVars
<1>5. CASE DemuxGiveUp
  BY <1>5, DemuxGoesOn DEF DemuxGiveUp, layerVars, ctrlVars, decVars
<1>6. CASE DemuxPut
  BY <1>6, DemuxGoesOn DEF DemuxPut, layerVars, ctrlVars, decVars
<1> QED
  BY <1>1, <1>2, <1>3, <1>4, <1>5, <1>6 DEF Demux

\* A decoding thread goes on.
LEMMA DecoderGoesOn ==
    ASSUME Inv, NEW s \in Stream, NEW state \in Running,
           dec[s] \in Running \cup {"queued"}, dec' = [dec EXCEPT ![s] = state],
           UNCHANGED <<main, alive, count, dmx, counter, lock, bridge>>
    PROVE  Inv'
<1>1. Unfinished' = Unfinished
  BY DEF Unfinished, Running, Working, Inv, Types
<1>2. Types'
  BY DEF Inv, Types, Running, Working
<1> QED
  BY <1>1, <1>2 DEF Inv, Covered, Timing, Gathered, Connected

\* A decoding thread is counted out.
LEMMA CountOutKeeps == ASSUME Inv, NEW s \in Stream, CountOut(s) PROVE Inv'
<1>0. /\ dec[s] = "leaving" /\ dec' = [dec EXCEPT ![s] = "done"] /\ count' = count - 1
      /\ UNCHANGED <<main, alive, dmx, counter, lock, bridge>>
  BY DEF CountOut, layerVars, demuxVars
<1>1. Unfinished' = Unfinished \ {s} /\ s \in Unfinished
  BY <1>0 DEF Unfinished, Running, Working, Inv, Types
<1>2. IsFiniteSet(Unfinished) /\ Cardinality(Unfinished) \in Nat
  BY UnfinishedFinite DEF Unfinished
<1>3. Cardinality(Unfinished') = Cardinality(Unfinished) - 1
  BY <1>1, <1>2, FS_RemoveElement
<1>4. Types'
  BY <1>0 DEF Inv, Types
<1>5. main \notin {"offline", "timing"}
  BY <1>1 DEF Inv, Covered
<1>6. Covered'
  BY <1>0, <1>1, <1>2, <1>3, <1>5 DEF Inv, Types, Covered
<1> QED
  BY <1>0, <1>4, <1>5, <1>6 DEF Inv, Timing, Gathered, Connected

LEMMA EmitsType ==
    \A state \in {"emit", "flush"} : \A frames : Emits(state, frames) \in Running
BY DEF Emits, Running, Working

LEMMA DecoderKeeps == ASSUME Inv, NEW s \in Stream, Decoder(s) PROVE Inv'
<1> USE DEF layerVars, ctrlVars, demuxVars
<1>1. CASE DecoderStart(s)
  BY <1>1, DecoderGoesOn DEF DecoderStart, Running, Working
<1>2. CASE DecoderLeave(s)
  BY <1>2, DecoderGoesOn DEF DecoderLeave, Leave, Running, Working
<1>3. CASE Decode(s)
  <2> DEFINE p == Head(pq[s])
             state == Emits(IF p = 0 THEN "flush" ELSE "emit", Fed(codec[s], p))
  <2>1. dec[s] = "wait" /\ dec' = [dec EXCEPT ![s] = state]
    BY <1>3 DEF Decode
  <2>2. state \in Running
    BY EmitsType
  <2> QED
    BY <1>3, <2>1, <2>2, DecoderGoesOn DEF Decode, Running, Working
<1>4. CASE Enqueue(s)
  <2>1. Emits(dec[s], Tail(codec[s])) \in Running
    BY <1>4, EmitsType DEF Enqueue
  <2> QED
    BY <1>4, <2>1, DecoderGoesOn DEF Enqueue, Running, Working
<1>5. CASE EnqueueNull(s)
  BY <1>5, DecoderGoesOn DEF EnqueueNull, Leave, Running, Working
<1>6. CASE Abandon(s)
  BY <1>6, DecoderGoesOn DEF Abandon, Leave, Running, Working
<1>7. CASE CountOut(s)
  BY <1>7, CountOutKeeps
<1> QED
  BY <1>1, <1>2, <1>3, <1>4, <1>5, <1>6, <1>7 DEF Decoder

LEMMA NextKeeps == ASSUME Inv, Next PROVE Inv'
<1> USE DEF ctrlVars, demuxVars, decVars, Callers
<1>1. ASSUME NEW f \in Films, Load(f) PROVE Inv'
  BY <1>1, LoadKeeps
<1>13. ASSUME NEW f \in Films, LoadFails(f) PROVE Inv'
  BY <1>13, LoadFailsKeeps
<1>2. CASE Present
  BY <1>2, PresentKeeps
<1>3. CASE Updates
  BY <1>3, LayerKeeps DEF Updates, Update
<1>4. CASE StartPlayback
  BY <1>4, LayerKeeps DEF StartPlayback
<1>5. CASE FillBuffers
  <2>1. main \in {"playing", "resetting"}
    BY <1>5 DEF FillBuffers, Inv, Connected
  <2> QED
    BY <1>5, <2>1, LayerKeeps DEF FillBuffers
<1>6. ASSUME NEW caller \in Callers, Call(caller) PROVE Inv'
  BY <1>6, LayerKeeps DEF Call
<1>7. CASE RequestStop
  BY <1>7, LayerKeeps DEF RequestStop
<1>8. CASE Finish
  BY <1>8, FinishKeeps
<1>9. CASE EndThreads
  BY <1>9, LayerKeeps DEF EndThreads
<1>10. CASE ThreadsEnded
  BY <1>10, ThreadsEndedKeeps
<1>11. CASE Demux
  BY <1>11, DemuxKeeps
<1>12. ASSUME NEW s \in Stream, Decoder(s) PROVE Inv'
  BY <1>12, DecoderKeeps
<1> QED
  BY <1>1, <1>2, <1>3, <1>4, <1>5, <1>6, <1>7, <1>8, <1>9, <1>10, <1>11, <1>12,
     <1>13 DEF Next

LEMMA StepKeeps == Inv /\ [Next]_vars => Inv'
<1>1. ASSUME Inv, UNCHANGED vars PROVE Inv'
  <2>1. Unfinished' = Unfinished
    BY <1>1, SameThreads DEF vars, decVars
  <2> QED
    BY <1>1, <2>1 DEF vars, layerVars, ctrlVars, demuxVars, decVars, Inv, Types, Covered, Timing,
                      Gathered, Connected
<1> QED
  BY <1>1, NextKeeps

\* finish() and resetDecoders() destroy decoders, from wherever stopping,
\* failing or a reset left the threads: none of them is using one then, nor
\* does the demultiplexer or the mixer ever use one afterwards.
THEOREM NothingFreedInUseCorrect == Spec => []NothingFreedInUse
BY InvInit, InvImplies, StepKeeps, PTL DEF Spec
=============================================================================
