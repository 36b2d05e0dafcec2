---------------------------- MODULE MediaPipeline ----------------------------
(***************************************************************************)
(* Video playback: MediaLayer (Engine/Layers/Media.cpp) on the main thread *)
(* drives MediaProcController (Engine/Media).  A demultiplexing thread     *)
(* reads packets into one bounded queue per stream, one decoding thread    *)
(* per stream turns them into frames in a bounded queue of its own, the    *)
(* main thread shows video frames and the mixer's callback plays the audio *)
(* ones.  Stopping has to take all of that apart from the main thread.     *)
(*                                                                         *)
(* A semaphore of free places is a counter; one of available data is the   *)
(* length of its queue.  A section under a lock is one step.               *)
(***************************************************************************)
EXTENDS Integers, Sequences, FiniteSets

CONSTANTS
    Films,        \* what can be played: [packets, audio, loop]
    PacketCap,    \* stream -> VideoPacketBufferSize, AudioPacketBufferSize
    FrameCap,     \* stream -> initial value of frameQueueSem
    CodecDelay,   \* frames a codec keeps back until it is flushed
    MaxLate       \* bound: frames the clock is ahead in one update

Stream == {"v", "a"}

ASSUME ConstantsAssumption ==
    /\ \A f \in Films : /\ f.packets \in Seq(Stream \cup {"x"})
                        /\ f.audio \in BOOLEAN /\ f.loop \in BOOLEAN
    /\ PacketCap \in [Stream -> Nat \ {0}]
    /\ FrameCap \in [Stream -> Nat \ {0}]
    /\ CodecDelay \in Nat
    /\ MaxLate \in Nat \ {0}

VARIABLES
    film,       \* the file that is open
    main,       \* where the main thread is
    delayed,    \* finish() has signalled the decoders and slept
    wantStop,   \* request_video_shutdown, set by video and stopvideo
    eof,        \* VS_END_OF_FILE
    shown,      \* the video frame on screen, 0 if none
    bridge,     \* audioBridge: absent, not prepared, made, started, or called back
    alive,      \* streams whose decoder object exists
    finishing,  \* the decoders' shouldFinish
    count,      \* decoderWorkerCount
    lock,       \* initVideoTimecodesLock: absent, 0 or posted
    shutdown,   \* async.threadShutdownRequested
    dmx,        \* where the demultiplexing thread is
    packet,     \* the packet it holds, <<stream, number>>
    pos,        \* packets read since the start of the file
    counter,    \* video timecodes gathered
    demuxStop,  \* demux->shouldFinish
    pq,         \* stream -> packetQueue; 0 is the null packet
    spaces,     \* stream -> packetQueueSemSpaces
    dec,        \* stream -> where its decoding thread is
    codec,      \* stream -> frames inside the codec
    fq,         \* stream -> loadFramesQueue results; 0 is the null frame
    fspace      \* stream -> frameQueueSem

layerVars == <<film, main, delayed, wantStop, eof, shown, bridge>>
ctrlVars == <<alive, finishing, count, lock, shutdown>>
demuxVars == <<dmx, packet, pos, counter, demuxStop>>
decVars == <<dec, codec>>
vars == <<layerVars, ctrlVars, demuxVars, pq, spaces, decVars, fq, fspace>>

VideoPackets == PacketCap["v"]
Streams(f) == IF f.audio THEN Stream ELSE {"v"}
EndOfFile == <<"eof", 0>>
NoPacket == <<"none", 0>>

\* Loops that call stopPlayback: refresh() at the end of the film, the
\* event loop for a script's request, and the layer's destructor.
Callers == {"ending", "polling", "deleting"}
Working == {"wait", "emit", "flush", "null"}
\* A decoding thread, decodeFrame returned or not, until it is counted out.
Running == Working \cup {"leaving"}
Unfinished == {s \in Stream : dec[s] \in Running \cup {"queued"}}
\* Where the decoding threads are once the decoders are destroyed: whoever
\* was still at work would go on with what is freed.
DecodersGone == [s \in Stream |-> IF s \in Unfinished THEN dec[s] ELSE "none"]
DemuxGone == {"none", "done"}
FrameCount(q) == Cardinality({i \in DOMAIN q : q[i] # 0})
Least(a, b) == IF a < b THEN a ELSE b

TypeOK ==
    /\ film \in Films
    /\ main \in {"offline", "timing", "playing", "resetting"} \cup Callers
    /\ delayed \in BOOLEAN /\ wantStop \in BOOLEAN /\ eof \in BOOLEAN
    /\ shown \in Nat
    /\ bridge \in {"none", "mute", "made", "started", "heard"}
    /\ alive \subseteq Stream
    /\ finishing \in BOOLEAN /\ shutdown \in BOOLEAN /\ demuxStop \in BOOLEAN
    /\ count \in 0..2
    /\ lock \in {"none", "closed", "open"}
    /\ dmx \in {"none", "idle", "check", "timecodes", "space", "put", "over", "done"}
    /\ packet \in {NoPacket, EndOfFile} \cup ((Stream \cup {"x"}) \X Nat)
    /\ pos \in Nat
    /\ counter \in 0..VideoPackets
    /\ pq \in [Stream -> Seq(Nat)]
    /\ spaces \in [Stream -> Nat]
    /\ dec \in [Stream -> Running \cup {"none", "queued", "done"}]
    /\ codec \in [Stream -> Seq(Nat)]
    /\ fq \in [Stream -> Seq(Nat)]
    /\ fspace \in [Stream -> Nat]

\* No presentation: what resetState leaves.
Blank ==
    /\ alive' = {} /\ finishing' = FALSE /\ count' = 0 /\ lock' = "none"
    /\ dmx' = "none" /\ packet' = NoPacket /\ pos' = 0 /\ counter' = 0
    /\ demuxStop' = FALSE
    /\ pq' = [s \in Stream |-> <<>>] /\ spaces' = PacketCap
    /\ dec' = DecodersGone /\ codec' = [s \in Stream |-> <<>>]
    /\ fq' = [s \in Stream |-> <<>>] /\ fspace' = FrameCap

Init ==
    /\ film \in Films
    /\ main = "offline" /\ delayed = FALSE /\ wantStop = FALSE
    /\ eof = FALSE /\ shown = 0 /\ bridge = "none"
    /\ alive = {} /\ finishing = FALSE /\ count = 0 /\ lock = "none" /\ shutdown = FALSE
    /\ dmx = "none" /\ packet = NoPacket /\ pos = 0 /\ counter = 0 /\ demuxStop = FALSE
    /\ pq = [s \in Stream |-> <<>>] /\ spaces = PacketCap
    /\ dec = [s \in Stream |-> "none"] /\ codec = [s \in Stream |-> <<>>]
    /\ fq = [s \in Stream |-> <<>>] /\ fspace = FrameCap

-----------------------------------------------------------------------------
(* Main thread: the video command.                                         *)

\* loadVideo fails when the sound cannot be converted: the command gives up,
\* the decoders stay until the next film takes their place.
LoadFails(f) ==
    /\ main = "offline" /\ f.audio
    /\ film' = f
    /\ eof' = FALSE
    /\ alive' = Streams(f)
    /\ UNCHANGED <<main, delayed, wantStop, shown, bridge, finishing, count, lock, shutdown,
                   demuxVars, pq, spaces, decVars, fq, fspace>>

\* loadVideo and loadPresentation up to initTiming.  The worker count is set
\* here; without a scaler nothing is started, but the layer is playing.
Load(f) ==
    /\ main = "offline"
    /\ film' = f
    /\ eof' = FALSE /\ shown' = 0
    /\ alive' = Streams(f) /\ count' = Cardinality(Streams(f))
    /\ \/ main' = "timing" /\ lock' = "closed" /\ dmx' = "check"
       \/ main' = "playing" /\ lock' = "none" /\ dmx' = "idle"
    /\ UNCHANGED <<delayed, wantStop, bridge, finishing, shutdown, packet, pos, counter,
                   demuxStop, pq, spaces, decVars, fq, fspace>>

\* FAULTY: initTiming does not wait.
TimedAtOnce == TRUE

\* initTiming waits for the timecodes, then the semaphore is destroyed.
Timed == lock = "open"

\* The rest of loadPresentation, and startProcessing unless the audio bridge
\* could not be prepared: then it stays, never to be heard, the command gives
\* up and no decoder is queued.
Present ==
    /\ main = "timing" /\ Timed
    /\ main' = "playing" /\ lock' = "none"
    /\ \/ /\ dec' = [s \in Stream |-> IF s \in alive THEN "queued" ELSE "none"]
          /\ bridge' = IF "a" \in alive THEN "made" ELSE "none"
       \/ "a" \in alive /\ bridge' = "mute" /\ UNCHANGED dec
    /\ UNCHANGED <<film, delayed, wantStop, eof, shown, alive, finishing, count, shutdown,
                   demuxVars, pq, spaces, codec, fq, fspace>>

-----------------------------------------------------------------------------
(* Main thread: frames.                                                    *)

\* advanceVideoFrames: up to n frames are taken, never past the last one.
\* Sound that is not heard yet holds the picture back.
Update(n) ==
    /\ main = "playing" /\ ~eof
    /\ bridge \in {"none", "heard"}
    /\ fq["v"] # <<>>
    /\ LET taken == Least(n, FrameCount(fq["v"]))
       IN  IF taken = 0
           THEN eof' = TRUE /\ UNCHANGED <<shown, fq, fspace>>
           ELSE /\ shown' = fq["v"][taken]
                /\ fq' = [fq EXCEPT !["v"] = SubSeq(@, taken + 1, Len(@))]
                /\ fspace' = [fspace EXCEPT !["v"] = @ + taken]
                /\ UNCHANGED eof
    /\ UNCHANGED <<film, main, delayed, wantStop, bridge, ctrlVars, demuxVars, pq, spaces, decVars>>

\* refresh starts the sound once it has drawn ...
StartPlayback ==
    /\ main = "playing" /\ bridge = "made"
    /\ bridge' = "started"
    /\ UNCHANGED <<film, main, delayed, wantStop, eof, shown, ctrlVars, demuxVars, pq, spaces,
                   decVars, fq, fspace>>

\* ... and the mixer then asks for it: a frame, or silence when there is none.
FillBuffers ==
    /\ bridge \in {"started", "heard"}
    /\ bridge' = "heard"
    /\ IF FrameCount(fq["a"]) = 0
       THEN UNCHANGED <<fq, fspace>>
       ELSE /\ fq' = [fq EXCEPT !["a"] = Tail(@)]
            /\ fspace' = [fspace EXCEPT !["a"] = @ + 1]
    /\ UNCHANGED <<film, main, delayed, wantStop, eof, shown, ctrlVars, demuxVars, pq, spaces, decVars>>

-----------------------------------------------------------------------------
(* Main thread: stopping.                                                  *)

\* stopPlayback is called again and again: by refresh() after the end of the
\* film, by the event loop while a script waits, by the destructor.
Call(caller) ==
    /\ main = "playing"
    /\ CASE caller = "ending" -> eof
         [] caller = "polling" -> wantStop
         [] OTHER -> TRUE
    /\ main' = caller
    /\ bridge' = "none"
    /\ UNCHANGED <<film, delayed, wantStop, eof, shown, ctrlVars, demuxVars, pq, spaces,
                   decVars, fq, fspace>>

\* stopvideo, or video while something is playing.
RequestStop ==
    /\ main = "playing" /\ ~wantStop
    /\ wantStop' = TRUE
    /\ UNCHANGED <<film, main, delayed, eof, shown, bridge, ctrlVars, demuxVars, pq, spaces,
                   decVars, fq, fspace>>

\* finish() has decoders to wait for: it signals them and sleeps ...
FinishSignal ==
    /\ main \in Callers /\ ~delayed /\ count > 0
    /\ finishing' = TRUE /\ delayed' = TRUE
    /\ UNCHANGED <<film, main, wantStop, eof, shown, bridge, alive, count, lock, shutdown,
                   demuxVars, pq, spaces, decVars, fq, fspace>>

\* ... and returns false if they are still there.
FinishLater ==
    /\ main \in Callers /\ delayed /\ count > 0
    /\ delayed' = FALSE
    /\ main' = IF main = "polling" THEN "playing" ELSE main
    /\ UNCHANGED <<film, wantStop, eof, shown, bridge, ctrlVars, demuxVars, pq, spaces,
                   decVars, fq, fspace>>

\* No decoder is left: the demultiplexer is signalled and the decoders are
\* destroyed; the last result of the video queue stays.
FinishDecoders ==
    /\ main \in Callers /\ count = 0 /\ dmx \notin DemuxGone
    /\ demuxStop' = TRUE
    /\ alive' = {}
    /\ dec' = DecodersGone /\ codec' = [s \in Stream |-> <<>>]
    /\ fq' = [s \in Stream |-> IF s = "v" /\ fq[s] # <<>> THEN <<fq[s][Len(fq[s])]>> ELSE <<>>]
    /\ delayed' = FALSE
    /\ main' = IF main = "polling" THEN "playing" ELSE main
    /\ UNCHANGED <<film, wantStop, eof, shown, bridge, finishing, count, lock, shutdown,
                   dmx, packet, pos, counter, pq, spaces, fspace>>

\* The demultiplexer is through as well: resetState, and true is returned.
FinishAll ==
    /\ main \in Callers /\ count = 0 /\ dmx \in DemuxGone
    /\ Blank
    /\ main' = "offline" /\ delayed' = FALSE /\ wantStop' = FALSE
    /\ UNCHANGED <<film, eof, shown, bridge, shutdown>>

\* resetSub: endThreads asks every thread to go, joins them all, and drops
\* the instructions nobody has taken.  The layer and its decoders stay.
EndThreads ==
    /\ main = "playing"
    /\ main' = "resetting" /\ shutdown' = TRUE
    /\ UNCHANGED <<film, delayed, wantStop, eof, shown, bridge, alive, finishing, count, lock,
                   demuxVars, pq, spaces, decVars, fq, fspace>>

ThreadsEnded ==
    /\ main = "resetting"
    /\ \A s \in Stream : dec[s] \notin Running
    /\ dmx \in DemuxGone \cup {"idle"}
    /\ main' = "playing" /\ shutdown' = FALSE
    /\ dec' = [s \in Stream |-> IF dec[s] = "queued" THEN "none" ELSE dec[s]]
    /\ UNCHANGED <<film, delayed, wantStop, eof, shown, bridge, alive, finishing, count, lock,
                   demuxVars, pq, spaces, codec, fq, fspace>>

-----------------------------------------------------------------------------
(* The demultiplexing thread, after faulty variants of its steps.          *)

\* FAULTY: the last look at a full array of timecodes is one too many.
TimecodesPast ==
    LET found == IF packet[1] = "v" THEN counter + 1
                 ELSE IF packet[1] = "a" /\ spaces["a"] = 0 THEN VideoPackets
                 ELSE counter
    IN  IF counter <= VideoPackets
        THEN /\ counter' = found
             /\ lock' = IF found = VideoPackets /\ lock = "closed" THEN "open" ELSE lock
        ELSE UNCHANGED <<counter, lock>>

\* FAULTY: leaving does not let go whoever waits for timecodes.
DemuxEndSilent ==
    /\ \/ dmx = "over"
       \/ dmx = "check" /\ (demuxStop \/ shutdown)
    /\ dmx' = "done"
    /\ UNCHANGED <<layerVars, ctrlVars, packet, pos, counter, demuxStop,
                   pq, spaces, decVars, fq, fspace>>

\* FAULTY: when the wait for a free place times out the packet is put anyway.
DemuxSpaceTimeout ==
    /\ dmx = "space"
    /\ spaces' = [spaces EXCEPT ![packet[1]] = IF @ > 0 THEN @ - 1 ELSE @]
    /\ dmx' = "put"
    /\ UNCHANGED <<layerVars, ctrlVars, packet, pos, counter, demuxStop, pq, decVars, fq, fspace>>

Told == demuxStop \/ shutdown
Posted == IF lock = "closed" THEN "open" ELSE lock

\* demultiplexStreams leaves: whoever waits for timecodes is let go.
DemuxEnd ==
    /\ \/ dmx = "over"
       \/ dmx = "check" /\ Told
    /\ lock' = Posted
    /\ dmx' = "done"
    /\ UNCHANGED <<layerVars, alive, finishing, count, shutdown, packet, pos, counter, demuxStop,
                   pq, spaces, decVars, fq, fspace>>

\* av_read_frame.  Packets of no stream of ours have stream "x".
DemuxRead ==
    /\ dmx = "check" /\ ~Told
    /\ IF pos < Len(film.packets)
       THEN packet' = <<film.packets[pos + 1], pos + 1>> /\ pos' = pos + 1 /\ dmx' = "timecodes"
       ELSE packet' = EndOfFile /\ dmx' = "put" /\ UNCHANGED pos
    /\ UNCHANGED <<layerVars, ctrlVars, counter, demuxStop, pq, spaces, decVars, fq, fspace>>

\* getVideoTimecodes: the first video packets give them, but a full audio
\* queue cuts the gathering short, since no decoder is running yet.
Timecodes ==
    LET found == IF packet[1] = "v" THEN counter + 1
                 ELSE IF packet[1] = "a" /\ spaces["a"] = 0 THEN VideoPackets
                 ELSE counter
    IN  IF counter < VideoPackets
        THEN counter' = found /\ lock' = IF found = VideoPackets THEN Posted ELSE lock
        ELSE UNCHANGED <<counter, lock>>

DemuxTimecodes ==
    /\ dmx = "timecodes"
    /\ Timecodes
    /\ dmx' = IF packet[1] = "x" THEN "put" ELSE "space"
    /\ UNCHANGED <<layerVars, alive, finishing, count, shutdown, packet, pos, demuxStop,
                   pq, spaces, decVars, fq, fspace>>

\* pushPacket first takes a free place of the queue ...
DemuxSpace ==
    /\ dmx = "space" /\ spaces[packet[1]] > 0
    /\ spaces' = [spaces EXCEPT ![packet[1]] = @ - 1]
    /\ dmx' = "put"
    /\ UNCHANGED <<layerVars, ctrlVars, packet, pos, counter, demuxStop, pq, decVars, fq, fspace>>

\* ... or gives up with the packet.
DemuxGiveUp ==
    /\ \/ dmx = "space" /\ spaces[packet[1]] = 0
       \/ dmx = "put"
    /\ Told
    /\ dmx' = "check"
    /\ UNCHANGED <<layerVars, ctrlVars, packet, pos, counter, demuxStop, pq, spaces, decVars, fq, fspace>>

\* The null packets of the end of the file take no free place.  A film that
\* loops ends as well when it cannot be wound back.
DemuxPut ==
    /\ dmx = "put" /\ ~Told
    /\ IF packet = EndOfFile
       THEN \/ film.loop /\ pos' = 0 /\ dmx' = "check" /\ UNCHANGED pq
            \/ /\ pq' = [s \in Stream |-> IF s \in alive THEN Append(pq[s], 0) ELSE pq[s]]
               /\ dmx' = "over" /\ UNCHANGED pos
       ELSE /\ pq' = IF packet[1] = "x" THEN pq
                     ELSE [pq EXCEPT ![packet[1]] = Append(@, packet[2])]
            /\ dmx' = "check" /\ UNCHANGED pos
    /\ UNCHANGED <<layerVars, ctrlVars, packet, counter, demuxStop, spaces, decVars, fq, fspace>>

-----------------------------------------------------------------------------
(* A decoding thread, after faulty variants of its steps.                  *)

\* FAULTY: shouldFinish is not looked at.
OrderedByShutdown == shutdown

\* FAULTY: the worker is not counted out.
CountOutNobody(s) ==
    /\ dec[s] = "leaving"
    /\ dec' = [dec EXCEPT ![s] = "done"]
    /\ UNCHANGED <<layerVars, ctrlVars, demuxVars, pq, spaces, codec, fq, fspace>>

\* FAULTY: the null packet is not sent to the codec.
EmitsUnflushed(state, frames) ==
    CASE state = "emit" -> IF Len(frames) > CodecDelay THEN "emit" ELSE "wait"
      [] state = "flush" -> "null"

\* FAULTY: the latest frame comes out of the codec first.
FedReversed(frames, p) == IF p = 0 THEN frames ELSE <<p>> \o frames

Ordered == finishing \/ shutdown

DecoderStart(s) ==
    /\ dec[s] = "queued" /\ ~shutdown
    /\ dec' = [dec EXCEPT ![s] = "wait"]
    /\ UNCHANGED <<layerVars, ctrlVars, demuxVars, pq, spaces, codec, fq, fspace>>

\* decodeFrame returns ...
Leave(s) == dec' = [dec EXCEPT ![s] = "leaving"]

\* ... and decodeFrames counts the worker out.
CountOut(s) ==
    /\ dec[s] = "leaving"
    /\ dec' = [dec EXCEPT ![s] = "done"]
    /\ count' = count - 1
    /\ UNCHANGED <<layerVars, alive, finishing, lock, shutdown, demuxVars, pq, spaces, codec, fq, fspace>>

\* The null frame is the last result, or, told to finish, there is one frame
\* to show and one more.
MustReturn(s) ==
    \/ fq[s] # <<>> /\ fq[s][Len(fq[s])] = 0
    \/ s = "v" /\ finishing /\ Len(fq[s]) > 1

DecoderLeave(s) ==
    /\ dec[s] = "wait"
    /\ \/ Ordered /\ (pq[s] = <<>> \/ s # "v" \/ shutdown)
       \/ pq[s] # <<>> /\ MustReturn(s)
    /\ Leave(s)
    /\ UNCHANGED <<layerVars, ctrlVars, demuxVars, pq, spaces, codec, fq, fspace>>

\* The frames the codec gives out after a packet, or after the null packet.
Emits(state, frames) ==
    CASE state = "emit" -> IF Len(frames) > CodecDelay THEN "emit" ELSE "wait"
      [] state = "flush" -> IF frames # <<>> THEN "flush" ELSE "null"

\* What the codec holds after packet p; the null packet adds nothing.
Fed(frames, p) == IF p = 0 THEN frames ELSE Append(frames, p)

\* obtainPacket gives a free place back for every packet, the null one too.
Decode(s) ==
    /\ dec[s] = "wait" /\ pq[s] # <<>>
    /\ ~shutdown /\ ~(finishing /\ s # "v") /\ ~MustReturn(s)
    /\ LET p == Head(pq[s])
           frames == Fed(codec[s], p)
       IN  /\ codec' = [codec EXCEPT ![s] = frames]
           /\ dec' = [dec EXCEPT ![s] = Emits(IF p = 0 THEN "flush" ELSE "emit", frames)]
    /\ pq' = [pq EXCEPT ![s] = Tail(@)]
    /\ spaces' = [spaces EXCEPT ![s] = @ + 1]
    /\ UNCHANGED <<layerVars, ctrlVars, demuxVars, fq, fspace>>

\* enqueueFrame for a frame of the codec.
Enqueue(s) ==
    /\ dec[s] \in {"emit", "flush"} /\ fspace[s] > 0
    /\ fspace' = [fspace EXCEPT ![s] = @ - 1]
    /\ fq' = [fq EXCEPT ![s] = Append(@, Head(codec[s]))]
    /\ codec' = [codec EXCEPT ![s] = Tail(@)]
    /\ dec' = [dec EXCEPT ![s] = Emits(dec[s], Tail(codec[s]))]
    /\ UNCHANGED <<layerVars, ctrlVars, demuxVars, pq, spaces>>

\* enqueueFrame for the null frame, after which the decoder returns.
EnqueueNull(s) ==
    /\ dec[s] = "null" /\ fspace[s] > 0
    /\ fspace' = [fspace EXCEPT ![s] = @ - 1]
    /\ fq' = [fq EXCEPT ![s] = Append(@, 0)]
    /\ Leave(s)
    /\ UNCHANGED <<layerVars, ctrlVars, demuxVars, pq, spaces, codec>>

\* No room for the frame, and the decoder is told to go.
Abandon(s) ==
    /\ dec[s] \in {"emit", "flush", "null"} /\ fspace[s] = 0 /\ Ordered
    /\ Leave(s)
    /\ UNCHANGED <<layerVars, ctrlVars, demuxVars, pq, spaces, codec, fq, fspace>>

-----------------------------------------------------------------------------
Finish == FinishSignal \/ FinishLater \/ FinishDecoders \/ FinishAll
Demux == DemuxEnd \/ DemuxRead \/ DemuxTimecodes \/ DemuxSpace \/ DemuxGiveUp \/ DemuxPut
Decoder(s) == \/ DecoderStart(s) \/ DecoderLeave(s) \/ Decode(s) \/ Enqueue(s)
              \/ EnqueueNull(s) \/ Abandon(s) \/ CountOut(s)
Updates == \E n \in 1..MaxLate : Update(n)

Next ==
    \/ \E f \in Films : Load(f) \/ LoadFails(f)
    \/ Present \/ Updates \/ StartPlayback \/ FillBuffers
    \/ \E caller \in Callers : Call(caller)
    \/ RequestStop \/ Finish \/ EndThreads \/ ThreadsEnded
    \/ Demux
    \/ \E s \in Stream : Decoder(s)

Spec == Init /\ [][Next]_vars

\* The threads are scheduled, the event loop updates, draws and polls every
\* frame, and the mixer calls back while its channel plays.  Nothing obliges
\* a script to play, to stop or to reset.
Fairness ==
    /\ WF_vars(Present) /\ WF_vars(Updates) /\ WF_vars(StartPlayback) /\ WF_vars(FillBuffers)
    /\ WF_vars(Call("ending")) /\ WF_vars(Call("polling"))
    /\ WF_vars(Finish) /\ WF_vars(ThreadsEnded)
    /\ WF_vars(Demux)
    /\ \A s \in Stream : WF_vars(Decoder(s))

FairSpec == Spec /\ Fairness

-----------------------------------------------------------------------------
(* Properties                                                              *)

\* The demultiplexer looks at the decoders' stream numbers while it gathers
\* timecodes, a decoder, queued or at work, at its codec and the packets, and
\* the mixer's callback at the sound queue of a decoder: none of them may have
\* been destroyed.
NothingFreedInUse ==
    /\ dmx = "timecodes" /\ counter < VideoPackets => "v" \in alive
    /\ \A s \in Unfinished : s \in alive /\ dmx # "none"
    /\ bridge # "none" => "a" \in alive

\* The pools of frames and packets are sized for queues of these lengths; the
\* null packet is the one entry that takes no place.
QueuesBounded ==
    \A s \in Stream : /\ FrameCount(pq[s]) <= PacketCap[s]
                      /\ Len(fq[s]) <= FrameCap[s]

\* A film that ran to its end has its last picture on screen, however many
\* late frames were dropped and however many the codec had kept back.  Once
\* finish() has thinned the queue out it promises no more.
LastFrameShown ==
    eof /\ main # "offline" /\ ~demuxStop /\ ~film.loop =>
        shown = LET numbers == {i \in DOMAIN film.packets : film.packets[i] = "v"}
                IN  IF numbers = {} THEN 0 ELSE CHOOSE i \in numbers : \A j \in numbers : j <= i

\* A picture is never followed by an earlier one, except by a film that
\* loops or by a new film.
FramesInOrder ==
    [][main = "playing" /\ ~film.loop /\ film' = film => shown <= shown']_vars

\* decoderWorkerCount "equals number of unfinished workers (i.e. 0 when all
\* are done)" says Controller.hpp, whenever the layer is playing.
WorkersCounted == main = "playing" => count = Cardinality(Unfinished)

\* Waiting for the timecodes of any film ends, although no decoder runs yet
\* and the packet queues are bounded.
LoadReturns == main = "timing" ~> main # "timing"

\* A film that does not loop, once its decoders are queued, plays to its end
\* and is taken apart, unless the script resets first.
PlaybackEnds ==
    ~film.loop /\ dec["v"] = "queued" ~> main \in {"offline", "resetting"}

\* Stopping ends from wherever decoders, demultiplexer and queues are, as
\* long as the workers that are counted are really there; a reset meanwhile
\* may drop one that is counted.  Not so for a script that waits for a looping
\* film while frames are shown as fast as they are decoded: the video decoder
\* goes when it sees two of them.
StopReturns ==
    (/\ main \in Callers
     /\ count = Cardinality(Unfinished)
     /\ film.loop => main # "polling") ~> main \in {"offline", "resetting"}
=============================================================================
