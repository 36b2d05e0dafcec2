-------------------------- MODULE MediaQueueProofs --------------------------
(***************************************************************************)
(* For any films, queue lengths and codec delay: the variables keep their  *)
(* types, and no queue outgrows its bound.  A free place is either counted *)
(* by the semaphore, or held by the demultiplexer between taking it and    *)
(* putting the packet, or filled; only the null packet, the last one, is   *)
(* put without taking one.                                                 *)
(*                                                                         *)
(* The second part follows the pictures of a film through packet queue,    *)
(* codec and frame queue: none overtakes another, and none is lost before  *)
(* the null frame unless the threads are told to go.                       *)
(***************************************************************************)
EXTENDS MediaPipelineProofs

LayerTypes ==
    /\ film \in Films
    /\ main \in {"offline", "timing", "playing", "resetting"} \cup Callers
    /\ delayed \in BOOLEAN /\ wantStop \in BOOLEAN /\ eof \in BOOLEAN
    /\ shown \in Nat
    /\ bridge \in {"none", "mute", "made", "started", "heard"}

ControlTypes ==
    /\ alive \subseteq Stream
    /\ finishing \in BOOLEAN /\ shutdown \in BOOLEAN
    /\ count \in 0..2
    /\ lock \in {"none", "closed", "open"}

DemuxTypes ==
    /\ dmx \in {"none", "idle", "check", "timecodes", "space", "put", "over", "done"}
    /\ packet \in {NoPacket, EndOfFile} \cup ((Stream \cup {"x"}) \X Nat)
    /\ pos \in Nat
    /\ counter \in 0..VideoPackets
    /\ demuxStop \in BOOLEAN

\* A decoder that has a frame to give out has one in its codec.
Codecs ==
    /\ dec \in [Stream -> Running \cup {"none", "queued", "done"}]
    /\ codec \in [Stream -> Seq(Nat)]
    /\ \A s \in Stream : dec[s] \in {"emit", "flush"} => codec[s] # <<>>

\* The place the demultiplexer has taken and not filled yet.
Held(s) == IF dmx = "put" /\ packet[1] = s THEN 1 ELSE 0

Fits(s) ==
    /\ dmx \notin {"over", "done"} => Len(pq[s]) + spaces[s] + Held(s) <= PacketCap[s]
    /\ \/ Len(pq[s]) <= PacketCap[s]
       \/ Len(pq[s]) = PacketCap[s] + 1 /\ pq[s][Len(pq[s])] = 0

Packets ==
    /\ pq \in [Stream -> Seq(Nat)]
    /\ spaces \in [Stream -> Nat]
    /\ \A s \in Stream : Fits(s)

Frames ==
    /\ fq \in [Stream -> Seq(Nat)]
    /\ fspace \in [Stream -> Nat]
    /\ \A s \in Stream : Len(fq[s]) + fspace[s] <= FrameCap[s]

QInv == LayerTypes /\ ControlTypes /\ DemuxTypes /\ Codecs /\ Packets /\ Frames

LEMMA CapFacts ==
    /\ \A s \in Stream : PacketCap[s] \in Nat \ {0} /\ FrameCap[s] \in Nat \ {0}
    /\ PacketCap \in [Stream -> Nat] /\ FrameCap \in [Stream -> Nat]
    /\ CodecDelay \in Nat /\ MaxLate \in Nat
BY ConstantsAssumption

LEMMA FilmFacts ==
    \A f \in Films : f.packets \in Seq(Stream \cup {"x"})
BY ConstantsAssumption

LEMMA StreamsCounted ==
    ASSUME NEW S \in SUBSET Stream PROVE Cardinality(S) \in 0..2
<1>1. Cardinality({"v"}) = 1 /\ IsFiniteSet({"v"})
  BY FS_Singleton
<1>2. Cardinality({"v"} \cup {"a"}) <= 2
  BY <1>1, FS_AddElement
<1>3. Stream = {"v"} \cup {"a"}
  BY DEF Stream
<1>4. Cardinality(S) <= Cardinality(Stream) /\ Cardinality(S) \in Nat /\ Cardinality(Stream) \in Nat
  BY StreamFinite, FS_Subset, UnfinishedFinite
<1> QED
  BY <1>2, <1>3, <1>4

\* No more entries are frames than there are entries; and one fewer when the
\* last is null.
LEMMA FramesCounted ==
    ASSUME NEW r \in Seq(Nat)
    PROVE  /\ FrameCount(r) \in Nat /\ FrameCount(r) <= Len(r)
           /\ r # <<>> /\ r[Len(r)] = 0 => FrameCount(r) <= Len(r) - 1
<1> DEFINE N == {i \in DOMAIN r : r[i] # 0}
<1>1. Len(r) \in Nat /\ DOMAIN r = 1..Len(r)
  OBVIOUS
<1>0. \A n \in Nat : IsFiniteSet(1..n) /\ Cardinality(1..n) = n
  <2> TAKE n \in Nat
  <2>1. Cardinality(1..n) = IF 1 > n THEN 0 ELSE n - 1 + 1
    BY FS_Interval
  <2> QED
    BY <2>1, FS_Interval
<1>2. IsFiniteSet(1..Len(r)) /\ Cardinality(1..Len(r)) = Len(r)
  BY <1>0, <1>1
<1>3. IsFiniteSet(N) /\ Cardinality(N) <= Len(r)
  BY <1>1, <1>2, FS_Subset
<1>4. Cardinality(N) \in Nat
  BY <1>3, FS_CardinalityType
<1>5. ASSUME r # <<>>, r[Len(r)] = 0 PROVE Cardinality(N) <= Len(r) - 1
  <2>1. N \in SUBSET (1..(Len(r) - 1))
    BY <1>1, <1>5
  <2>2. IsFiniteSet(1..(Len(r) - 1)) /\ Cardinality(1..(Len(r) - 1)) = Len(r) - 1
    <3>1. Len(r) - 1 \in Nat
      BY <1>1, <1>5
    <3> QED
      BY <1>0, <3>1
  <2> QED
    BY <2>1, <2>2, FS_Subset
<1> QED
  BY <1>3, <1>4, <1>5 DEF FrameCount

LEMMA QInvImplies == QInv => TypeOK /\ QueuesBounded
<1> SUFFICES ASSUME QInv, NEW s \in Stream
             PROVE  FrameCount(pq[s]) <= PacketCap[s] /\ Len(fq[s]) <= FrameCap[s]
  BY DEF QueuesBounded, QInv, LayerTypes, ControlTypes, DemuxTypes, Codecs, Packets, Frames, TypeOK
<1>1. pq[s] \in Seq(Nat) /\ fq[s] \in Seq(Nat) /\ fspace[s] \in Nat
  BY DEF QInv, Packets, Frames
<1>2. /\ Fits(s) /\ Len(fq[s]) + fspace[s] <= FrameCap[s]
      /\ PacketCap[s] \in Nat /\ FrameCap[s] \in Nat
  BY CapFacts DEF QInv, Packets, Frames
<1>3. FrameCount(pq[s]) <= PacketCap[s]
  <2>1. FrameCount(pq[s]) \in Nat /\ FrameCount(pq[s]) <= Len(pq[s]) /\ Len(pq[s]) \in Nat
    BY <1>1, FramesCounted
  <2>2. CASE Len(pq[s]) <= PacketCap[s]
    BY <1>2, <2>1, <2>2
  <2>3. CASE Len(pq[s]) = PacketCap[s] + 1 /\ pq[s][Len(pq[s])] = 0
    <3>1. pq[s] # <<>>
      BY <1>1, <1>2, <2>3
    <3>2. FrameCount(pq[s]) <= Len(pq[s]) - 1
      BY <1>1, <2>3, <3>1, FramesCounted
    <3> QED
      BY <1>2, <2>1, <2>3, <3>2
  <2> QED
    BY <1>2, <2>2, <2>3 DEF Fits
<1>4. Len(fq[s]) <= FrameCap[s]
  BY <1>1, <1>2
<1> QED
  BY <1>3, <1>4

LEMMA QInvInit == Init => QInv
<1> SUFFICES ASSUME Init PROVE QInv
  OBVIOUS
<1>0. /\ delayed \in BOOLEAN /\ wantStop \in BOOLEAN /\ eof \in BOOLEAN
      /\ finishing \in BOOLEAN /\ shutdown \in BOOLEAN /\ demuxStop \in BOOLEAN
  BY DEF Init
<1>1. LayerTypes /\ ControlTypes
  <2>1. /\ film \in Films /\ main = "offline" /\ shown = 0 /\ bridge = "none"
        /\ alive = {} /\ count = 0 /\ lock = "none"
    BY DEF Init
  <2> QED
    BY <1>0, <2>1 DEF LayerTypes, ControlTypes
<1>2. DemuxTypes
  <2>1. dmx = "none" /\ packet = NoPacket /\ pos = 0 /\ counter = 0
    BY DEF Init
  <2> QED
    BY <1>0, <2>1, ConstantFacts DEF DemuxTypes
<1>3. Codecs
  BY DEF Init, Codecs
<1>4. Packets
  BY CapFacts DEF Init, Packets, Fits, Held
<1>5. Frames
  BY CapFacts DEF Init, Frames
<1> QED
  BY <1>1, <1>2, <1>3, <1>4, <1>5 DEF QInv

\* What a step leaves alone keeps its part of the invariant.
LEMMA Untouched ==
    ASSUME QInv
    PROVE  /\ UNCHANGED layerVars => LayerTypes'
           /\ UNCHANGED ctrlVars => ControlTypes'
           /\ UNCHANGED demuxVars => DemuxTypes'
           /\ UNCHANGED decVars => Codecs'
           /\ UNCHANGED <<dmx, packet, pq, spaces>> => Packets'
           /\ UNCHANGED <<fq, fspace>> => Frames'
<1>1. UNCHANGED layerVars => LayerTypes'
  BY DEF QInv, layerVars, LayerTypes
<1>2. UNCHANGED ctrlVars => ControlTypes'
  BY DEF QInv, ctrlVars, ControlTypes
<1>3. UNCHANGED demuxVars => DemuxTypes'
  BY DEF QInv, demuxVars, DemuxTypes
<1>4. UNCHANGED decVars => Codecs'
  BY DEF QInv, decVars, Codecs
<1>5. UNCHANGED <<dmx, packet, pq, spaces>> => Packets'
  BY DEF QInv, Packets, Fits, Held
<1>6. UNCHANGED <<fq, fspace>> => Frames'
  BY DEF QInv, Frames
<1> QED
  BY <1>1, <1>2, <1>3, <1>4, <1>5, <1>6

\* The demultiplexer goes on with a packet it has not yet taken a place for.
LEMMA NoPlaceTaken ==
    ASSUME QInv, UNCHANGED <<pq, spaces>>, dmx \notin {"over", "done"} \/ dmx' \in {"over", "done"},
           \A s \in Stream : Held(s)' = 0
    PROVE  Packets'
<1> SUFFICES ASSUME NEW s \in Stream PROVE Fits(s)'
  BY DEF QInv, Packets
<1>1. Fits(s) /\ pq[s] \in Seq(Nat) /\ spaces[s] \in Nat /\ PacketCap[s] \in Nat
  BY CapFacts DEF QInv, Packets
<1>2. Held(s) \in {0, 1} /\ Held(s)' = 0
  BY DEF Held
<1> QED
  BY <1>1, <1>2 DEF Fits

LEMMA LoadTypes == ASSUME Inv, QInv, NEW f \in Films, Load(f) PROVE QInv'
<1>1. /\ main = "offline" /\ film' = f /\ eof' = FALSE /\ shown' = 0 /\ main' \in {"timing", "playing"}
      /\ UNCHANGED <<delayed, wantStop, bridge>>
  BY DEF Load
<1>2. /\ alive' = Streams(f) /\ count' = Cardinality(Streams(f)) /\ lock' \in {"closed", "none"}
      /\ UNCHANGED <<finishing, shutdown>>
  BY DEF Load
<1>3. dmx' \in {"check", "idle"} /\ UNCHANGED <<packet, pos, counter, demuxStop, pq, spaces, decVars, fq, fspace>>
  BY DEF Load
<1>4. dmx = "none"
  BY <1>1 DEF Inv, Timing
<1>5. Streams(f) \in SUBSET Stream
  BY DEF Streams, Stream
<1>6. LayerTypes'
  BY <1>1 DEF QInv, LayerTypes
<1>7. ControlTypes'
  BY <1>2, <1>5, StreamsCounted DEF QInv, ControlTypes
<1>8. DemuxTypes'
  BY <1>3 DEF QInv, DemuxTypes
<1>9. Packets'
  BY <1>3, <1>4, NoPlaceTaken DEF Held
<1> QED
  BY <1>3, <1>6, <1>7, <1>8, <1>9, Untouched DEF QInv

LEMMA LoadFailsTypes == ASSUME QInv, NEW f \in Films, LoadFails(f) PROVE QInv'
<1>1. /\ film' = f /\ eof' = FALSE /\ alive' = Streams(f)
      /\ UNCHANGED <<main, delayed, wantStop, shown, bridge, finishing, count, lock, shutdown,
                     demuxVars, pq, spaces, decVars, fq, fspace>>
  BY DEF LoadFails
<1>2. LayerTypes'
  BY <1>1 DEF QInv, LayerTypes
<1>3. ControlTypes'
  BY <1>1 DEF QInv, ControlTypes, Streams, Stream
<1> QED
  BY <1>1, <1>2, <1>3, Untouched DEF QInv, demuxVars

LEMMA PresentTypes == ASSUME QInv, Present PROVE QInv'
<1>1. /\ main' = "playing" /\ lock' = "none"
      /\ UNCHANGED <<film, delayed, wantStop, eof, shown, alive, finishing, count, shutdown,
                     demuxVars, pq, spaces, codec, fq, fspace>>
  BY DEF Present
<1>2. bridge' \in {"made", "none", "mute"}
  BY DEF Present
<1>3. dec' = [s \in Stream |-> IF s \in alive THEN "queued" ELSE "none"] \/ dec' = dec
  BY DEF Present
<1>4. LayerTypes'
  BY <1>1, <1>2 DEF QInv, LayerTypes
<1>5. ControlTypes'
  BY <1>1 DEF QInv, ControlTypes
<1>6. Codecs'
  <2>1. CASE dec' = dec
    BY <1>1, <2>1, Untouched DEF decVars
  <2>2. CASE dec' = [s \in Stream |-> IF s \in alive THEN "queued" ELSE "none"]
    BY <1>1, <2>2 DEF QInv, Codecs
  <2> QED
    BY <1>3, <2>1, <2>2
<1> QED
  BY <1>1, <1>4, <1>5, <1>6, Untouched DEF QInv, demuxVars

\* The film, the frame on screen and the queues of frames apart, the main
\* thread keeps where it is, its requests and the sound.
LEMMA LayerMoves ==
    ASSUME QInv, UNCHANGED <<film, shown>>,
           main' \in {"offline", "playing", "resetting", main} \cup Callers,
           delayed' \in {TRUE, FALSE, delayed}, wantStop' \in {TRUE, FALSE, wantStop},
           eof' \in {TRUE, FALSE, eof},
           bridge' \in {"none", "started", "heard", bridge}
    PROVE  LayerTypes'
<1>1. delayed' \in BOOLEAN /\ wantStop' \in BOOLEAN /\ eof' \in BOOLEAN
  BY DEF QInv, LayerTypes
<1>2. /\ film' \in Films /\ shown' \in Nat
      /\ main' \in {"offline", "timing", "playing", "resetting"} \cup Callers
      /\ bridge' \in {"none", "mute", "made", "started", "heard"}
  BY DEF QInv, LayerTypes
<1> QED
  BY <1>1, <1>2 DEF LayerTypes

\* Frames are taken out at the front, and as many places given back.
LEMMA FramesTaken ==
    ASSUME QInv, NEW s \in Stream, NEW n \in Nat, n <= Len(fq[s]),
           fq' = [fq EXCEPT ![s] = SubSeq(@, n + 1, Len(@))],
           fspace' = [fspace EXCEPT ![s] = @ + n]
    PROVE  Frames'
<1>1. fq \in [Stream -> Seq(Nat)] /\ fspace \in [Stream -> Nat]
  BY DEF QInv, Frames
<1>2. fq[s] \in Seq(Nat) /\ fspace[s] \in Nat /\ FrameCap[s] \in Nat
  BY <1>1, CapFacts
<1>3. SubSeq(fq[s], n + 1, Len(fq[s])) \in Seq(Nat)
  BY SMTT(30), <1>2
<1>4. Len(SubSeq(fq[s], n + 1, Len(fq[s]))) = Len(fq[s]) - n
  BY <1>2
<1>5. fq' \in [Stream -> Seq(Nat)] /\ fspace' \in [Stream -> Nat]
  BY <1>1, <1>2, <1>3
<1>6. fq'[s] = SubSeq(fq[s], n + 1, Len(fq[s])) /\ fspace'[s] = fspace[s] + n
  BY <1>1
<1>7. \A t \in Stream \ {s} : fq'[t] = fq[t] /\ fspace'[t] = fspace[t]
  BY <1>1
<1>8. \A t \in Stream : Len(fq[t]) + fspace[t] <= FrameCap[t]
  BY DEF QInv, Frames
<1>9. Len(fq'[s]) + fspace'[s] <= FrameCap[s]
  BY <1>2, <1>4, <1>6, <1>8
<1> QED
  BY <1>5, <1>7, <1>8, <1>9 DEF Frames

LEMMA UpdateTypes == ASSUME QInv, NEW n \in 1..MaxLate, Update(n) PROVE QInv'
<1> DEFINE taken == Least(n, FrameCount(fq["v"]))
<1>1. "v" \in Stream /\ fq["v"] \in Seq(Nat)
  BY DEF QInv, Frames, Stream
<1>2. taken \in Nat /\ taken <= Len(fq["v"])
  BY <1>1, FramesCounted, CapFacts DEF Least
<1>3. /\ UNCHANGED <<film, main, delayed, wantStop, bridge, ctrlVars, demuxVars, pq, spaces, decVars>>
      /\ \/ eof' = TRUE /\ UNCHANGED <<shown, fq, fspace>>
         \/ /\ taken # 0
            /\ shown' = fq["v"][taken]
            /\ fq' = [fq EXCEPT !["v"] = SubSeq(@, taken + 1, Len(@))]
            /\ fspace' = [fspace EXCEPT !["v"] = @ + taken]
            /\ UNCHANGED eof
  BY DEF Update
<1>4. Frames'
  BY <1>1, <1>2, <1>3, FramesTaken, Untouched
<1>5. LayerTypes'
  <2>1. CASE taken # 0 /\ shown' = fq["v"][taken] /\ UNCHANGED eof
    <3>1. shown' \in Nat
      BY <1>1, <1>2, <2>1
    <3> QED
      BY <1>3, <2>1, <3>1 DEF QInv, LayerTypes
  <2>2. CASE eof' = TRUE /\ UNCHANGED shown
    BY <1>3, <2>2, LayerMoves
  <2> QED
    BY <1>3, <2>1, <2>2
<1> QED
  BY <1>3, <1>4, <1>5, Untouched DEF QInv, demuxVars

LEMMA FillTypes == ASSUME QInv, FillBuffers PROVE QInv'
<1>1. "a" \in Stream /\ fq["a"] \in Seq(Nat)
  BY DEF QInv, Frames, Stream
<1>2. /\ UNCHANGED <<film, main, delayed, wantStop, eof, shown, ctrlVars, demuxVars, pq, spaces, decVars>>
      /\ bridge' = "heard"
      /\ \/ UNCHANGED <<fq, fspace>>
         \/ /\ FrameCount(fq["a"]) # 0
            /\ fq' = [fq EXCEPT !["a"] = Tail(@)]
            /\ fspace' = [fspace EXCEPT !["a"] = @ + 1]
  BY DEF FillBuffers
<1>3. Frames'
  <2>1. CASE UNCHANGED <<fq, fspace>>
    BY <2>1, Untouched
  <2>2. CASE /\ FrameCount(fq["a"]) # 0
             /\ fq' = [fq EXCEPT !["a"] = Tail(@)]
             /\ fspace' = [fspace EXCEPT !["a"] = @ + 1]
    <3>1. 1 <= Len(fq["a"])
      BY <1>1, <2>2, FramesCounted
    <3>2. Tail(fq["a"]) = SubSeq(fq["a"], 1 + 1, Len(fq["a"]))
      BY <1>1, <3>1
    <3>3. fq' = [fq EXCEPT !["a"] = SubSeq(@, 1 + 1, Len(@))]
      BY <2>2, <3>2
    <3> QED
      BY <1>1, <2>2, <3>1, <3>3, FramesTaken
  <2> QED
    BY <1>2, <2>1, <2>2
<1>4. LayerTypes'
  BY <1>2, LayerMoves
<1> QED
  BY <1>2, <1>3, <1>4, Untouched DEF QInv, demuxVars

\* A step of the layer alone.
LEMMA LayerStep ==
    ASSUME QInv, LayerTypes', ControlTypes', UNCHANGED <<demuxVars, pq, spaces, decVars, fq, fspace>>
    PROVE  QInv'
BY Untouched DEF QInv, demuxVars

LEMMA FinishDecodersTypes == ASSUME Inv, QInv, FinishDecoders PROVE QInv'
<1>1. /\ demuxStop' = TRUE /\ alive' = {} /\ dec' = DecodersGone
      /\ codec' = [s \in Stream |-> <<>>] /\ delayed' = FALSE
      /\ UNCHANGED <<film, wantStop, eof, shown, bridge, finishing, count, lock, shutdown,
                     dmx, packet, pos, counter, pq, spaces, fspace>>
      /\ main' \in {"playing", main} /\ count = 0
  BY DEF FinishDecoders
<1>2. fq' = [s \in Stream |-> IF s = "v" /\ fq[s] # <<>> THEN <<fq[s][Len(fq[s])]>> ELSE <<>>]
  BY DEF FinishDecoders
<1>3. LayerTypes'
  BY <1>1, LayerMoves
<1>4. ControlTypes'
  BY <1>1 DEF QInv, ControlTypes
<1>5. DemuxTypes'
  BY <1>1 DEF QInv, DemuxTypes
<1>6. Packets'
  BY <1>1, Untouched
<1>7. Frames'
  <2>1. fq \in [Stream -> Seq(Nat)] /\ fspace \in [Stream -> Nat]
    BY DEF QInv, Frames
  <2> SUFFICES ASSUME NEW s \in Stream
               PROVE  fq'[s] \in Seq(Nat) /\ Len(fq'[s]) <= Len(fq[s])
    <3>1. \A s \in Stream : Len(fq[s]) + fspace[s] <= FrameCap[s] /\ Len(fq[s]) \in Nat
      BY <2>1 DEF QInv, Frames
    <3>2. \A s \in Stream : fq'[s] \in Seq(Nat) /\ Len(fq'[s]) \in Nat /\ Len(fq'[s]) <= Len(fq[s])
      OBVIOUS
    <3>3. fq' \in [Stream -> Seq(Nat)] /\ fspace' = fspace
      BY <1>1, <1>2, <3>2
    <3> QED
      BY <2>1, <3>1, <3>2, <3>3, CapFacts DEF Frames
  <2>2. CASE s = "v" /\ fq[s] # <<>>
    <3>1. fq'[s] = <<fq[s][Len(fq[s])]>> /\ fq[s] \in Seq(Nat)
      BY <1>2, <2>1, <2>2
    <3> QED
      BY <2>2, <3>1
  <2>3. CASE ~(s = "v" /\ fq[s] # <<>>)
    BY <1>2, <2>1, <2>3
  <2> QED
    BY <2>2, <2>3
<1>8. Codecs'
  <2>1. dec' \in [Stream -> {"none"}]
    BY <1>1, CountedOut
  <2>2. \A s \in Stream : dec'[s] = "none"
    BY <2>1
  <2>3. dec' \in [Stream -> Running \cup {"none", "queued", "done"}]
    BY <2>1
  <2> QED
    BY <1>1, <2>2, <2>3 DEF Codecs
<1> QED
  BY <1>3, <1>4, <1>5, <1>6, <1>7, <1>8 DEF QInv

LEMMA FinishAllTypes == ASSUME Inv, QInv, FinishAll PROVE QInv'
<1>1. /\ main' = "offline" /\ delayed' = FALSE /\ wantStop' = FALSE
      /\ UNCHANGED <<film, eof, shown, bridge, shutdown>>
      /\ count = 0
  BY DEF FinishAll
<1>2. /\ alive' = {} /\ finishing' = FALSE /\ count' = 0 /\ lock' = "none"
      /\ dmx' = "none" /\ packet' = NoPacket /\ pos' = 0 /\ counter' = 0
      /\ demuxStop' = FALSE
      /\ pq' = [s \in Stream |-> <<>>] /\ spaces' = PacketCap
      /\ dec' = DecodersGone /\ codec' = [s \in Stream |-> <<>>]
      /\ fq' = [s \in Stream |-> <<>>] /\ fspace' = FrameCap
  BY DEF FinishAll, Blank
<1>0. finishing' \in BOOLEAN /\ demuxStop' \in BOOLEAN /\ shutdown' \in BOOLEAN
  BY <1>1, <1>2 DEF QInv, ControlTypes
<1>3. LayerTypes'
  BY <1>1, LayerMoves
<1>4. ControlTypes'
  BY <1>0, <1>2 DEF ControlTypes
<1>5. DemuxTypes'
  BY <1>0, <1>2, ConstantFacts DEF DemuxTypes
<1>6. Packets'
  BY <1>2, CapFacts DEF Packets, Fits, Held
<1>7. Frames'
  BY <1>2, CapFacts DEF Frames
<1>8. Codecs'
  <2>1. dec' \in [Stream -> {"none"}]
    BY <1>1, <1>2, CountedOut
  <2>2. \A s \in Stream : dec'[s] = "none"
    BY <2>1
  <2>3. dec' \in [Stream -> Running \cup {"none", "queued", "done"}]
    BY <2>1
  <2> QED
    BY <1>2, <2>2, <2>3 DEF Codecs
<1> QED
  BY <1>3, <1>4, <1>5, <1>6, <1>7, <1>8 DEF QInv

LEMMA FinishTypes == ASSUME Inv, QInv, Finish PROVE QInv'
<1>1. CASE FinishSignal
  <2>1. /\ finishing' = TRUE /\ delayed' = TRUE
        /\ UNCHANGED <<film, main, wantStop, eof, shown, bridge, alive, count, lock, shutdown,
                       demuxVars, pq, spaces, decVars, fq, fspace>>
    BY <1>1 DEF FinishSignal
  <2>2. LayerTypes'
    BY <2>1, LayerMoves
  <2>3. ControlTypes'
    BY <2>1 DEF QInv, ControlTypes
  <2> QED
    BY <2>1, <2>2, <2>3, LayerStep
<1>2. CASE FinishLater
  <2>1. /\ delayed' = FALSE /\ main' \in {"playing", main}
        /\ UNCHANGED <<film, wantStop, eof, shown, bridge, ctrlVars, demuxVars, pq, spaces,
                       decVars, fq, fspace>>
    BY <1>2 DEF FinishLater
  <2>2. LayerTypes'
    BY <2>1, LayerMoves
  <2> QED
    BY <2>1, <2>2, Untouched, LayerStep
<1> QED
  BY <1>1, <1>2, FinishDecodersTypes, FinishAllTypes DEF Finish

\* The other steps of the main thread.
LEMMA MainTypes ==
    ASSUME QInv,
           StartPlayback \/ (\E caller \in Callers : Call(caller)) \/ RequestStop \/ EndThreads
    PROVE  QInv'
<1>1. CASE StartPlayback
  <2>1. /\ bridge' = "started"
        /\ UNCHANGED <<film, main, delayed, wantStop, eof, shown, ctrlVars, demuxVars, pq, spaces,
                       decVars, fq, fspace>>
    BY <1>1 DEF StartPlayback
  <2> QED
    BY <2>1, LayerMoves, Untouched, LayerStep
<1>2. ASSUME NEW caller \in Callers, Call(caller) PROVE QInv'
  <2>1. /\ bridge' = "none" /\ main' = caller
        /\ UNCHANGED <<film, delayed, wantStop, eof, shown, ctrlVars, demuxVars, pq, spaces,
                       decVars, fq, fspace>>
    BY <1>2 DEF Call
  <2> QED
    BY <2>1, LayerMoves, Untouched, LayerStep
<1>3. CASE RequestStop
  <2>1. /\ wantStop' = TRUE
        /\ UNCHANGED <<film, main, delayed, eof, shown, bridge, ctrlVars, demuxVars, pq, spaces,
                       decVars, fq, fspace>>
    BY <1>3 DEF RequestStop
  <2> QED
    BY <2>1, LayerMoves, Untouched, LayerStep
<1>4. CASE EndThreads
  <2>1. /\ main' = "resetting" /\ shutdown' = TRUE
        /\ UNCHANGED <<film, delayed, wantStop, eof, shown, bridge, alive, finishing, count, lock,
                       demuxVars, pq, spaces, decVars, fq, fspace>>
    BY <1>4 DEF EndThreads
  <2>2. ControlTypes'
    BY <2>1 DEF QInv, ControlTypes
  <2> QED
    BY <2>1, <2>2, LayerMoves, LayerStep
<1> QED
  BY <1>1, <1>2, <1>3, <1>4

LEMMA ThreadsEndedTypes == ASSUME QInv, ThreadsEnded PROVE QInv'
<1>1. /\ main' = "playing" /\ shutdown' = FALSE
      /\ dec' = [s \in Stream |-> IF dec[s] = "queued" THEN "none" ELSE dec[s]]
      /\ UNCHANGED <<film, delayed, wantStop, eof, shown, bridge, alive, finishing, count, lock,
                     demuxVars, pq, spaces, codec, fq, fspace>>
  BY DEF ThreadsEnded
<1>2. LayerTypes'
  BY <1>1, LayerMoves
<1>3. ControlTypes'
  BY <1>1 DEF QInv, ControlTypes
<1>4. Codecs'
  BY <1>1 DEF QInv, Codecs
<1> QED
  BY <1>1, <1>2, <1>3, <1>4, Untouched DEF QInv, demuxVars

\* A step of the demultiplexer alone.
LEMMA DemuxStep ==
    ASSUME QInv, UNCHANGED <<layerVars, alive, finishing, count, shutdown, decVars, fq, fspace>>,
           lock' \in {"open", lock}, DemuxTypes', Packets'
    PROVE  QInv'
<1>1. ControlTypes'
  BY DEF QInv, ControlTypes
<1> QED
  BY <1>1, Untouched DEF QInv

LEMMA DemuxReadTypes == ASSUME QInv, DemuxRead PROVE QInv'
<1>1. /\ dmx = "check"
      /\ UNCHANGED <<layerVars, ctrlVars, counter, demuxStop, pq, spaces, decVars, fq, fspace>>
  BY DEF DemuxRead
<1>2. \/ /\ pos < Len(film.packets) /\ dmx' = "timecodes"
         /\ packet' = <<film.packets[pos + 1], pos + 1>> /\ pos' = pos + 1
      \/ packet' = EndOfFile /\ dmx' = "put" /\ UNCHANGED pos
  BY DEF DemuxRead
<1>3. DemuxTypes'
  <2>1. CASE /\ pos < Len(film.packets) /\ dmx' = "timecodes"
             /\ packet' = <<film.packets[pos + 1], pos + 1>> /\ pos' = pos + 1
    <3>1. film.packets \in Seq(Stream \cup {"x"}) /\ pos \in Nat
      BY FilmFacts DEF QInv, LayerTypes, DemuxTypes
    <3>2. film.packets[pos + 1] \in Stream \cup {"x"} /\ pos + 1 \in Nat
      BY <2>1, <3>1
    <3>3. packet' \in (Stream \cup {"x"}) \X Nat
      BY <2>1, <3>2
    <3> QED
      BY <1>1, <2>1, <3>2, <3>3 DEF QInv, DemuxTypes
  <2>2. CASE packet' = EndOfFile /\ dmx' = "put" /\ UNCHANGED pos
    BY <1>1, <2>2 DEF QInv, DemuxTypes
  <2> QED
    BY <1>2, <2>1, <2>2
<1>4. \A s \in Stream : Held(s)' = 0
  BY <1>2 DEF Held, EndOfFile, Stream
<1>5. Packets'
  BY <1>1, <1>4, NoPlaceTaken
<1> QED
  BY <1>1, <1>3, <1>5, DemuxStep DEF ctrlVars

LEMMA DemuxSpaceTypes == ASSUME QInv, DemuxSpace PROVE QInv'
<1>1. /\ dmx = "space" /\ spaces[packet[1]] > 0 /\ dmx' = "put"
      /\ spaces' = [spaces EXCEPT ![packet[1]] = @ - 1]
      /\ UNCHANGED <<layerVars, ctrlVars, packet, pos, counter, demuxStop, pq, decVars, fq, fspace>>
  BY DEF DemuxSpace
<1>2. DemuxTypes'
  BY <1>1 DEF QInv, DemuxTypes
<1>3. spaces \in [Stream -> Nat] /\ pq \in [Stream -> Seq(Nat)]
  BY DEF QInv, Packets
<1>4. ASSUME NEW s \in Stream PROVE spaces'[s] \in Nat /\ spaces'[s] + Held(s)' = spaces[s]
  <2>1. CASE packet[1] = s
    BY <1>1, <1>3, <2>1 DEF Held
  <2>2. CASE packet[1] # s
    BY <1>1, <1>3, <2>2 DEF Held
  <2> QED
    BY <2>1, <2>2
<1>5. ASSUME NEW s \in Stream PROVE Fits(s)'
  <2>1. Fits(s) /\ pq[s] \in Seq(Nat) /\ spaces[s] \in Nat /\ PacketCap[s] \in Nat
    BY <1>3, CapFacts DEF QInv, Packets
  <2>2. Held(s) = 0 /\ Held(s)' \in {0, 1} /\ pq' = pq
    BY <1>1 DEF Held
  <2> QED
    BY <1>1, <1>4, <2>1, <2>2 DEF Fits
<1>6. spaces' \in [Stream -> Nat]
  BY <1>1, <1>3, <1>4
<1>7. Packets'
  BY <1>1, <1>3, <1>5, <1>6 DEF Packets
<1> QED
  BY <1>1, <1>2, <1>7, DemuxStep DEF ctrlVars

\* The null packets go where there may be no place left, but nothing follows.
LEMMA NullPackets ==
    ASSUME QInv, dmx = "put", dmx' = "over", UNCHANGED spaces,
           pq' = [s \in Stream |-> IF s \in alive THEN Append(pq[s], 0) ELSE pq[s]]
    PROVE  Packets'
<1>1. spaces \in [Stream -> Nat] /\ pq \in [Stream -> Seq(Nat)]
  BY DEF QInv, Packets
<1>2. ASSUME NEW s \in Stream PROVE pq'[s] \in Seq(Nat) /\ Fits(s)'
  <2>1. Fits(s) /\ pq[s] \in Seq(Nat) /\ spaces[s] \in Nat /\ PacketCap[s] \in Nat
    BY <1>1, CapFacts DEF QInv, Packets
  <2>2. Held(s) \in {0, 1}
    BY DEF Held
  <2>3. Len(pq[s]) <= PacketCap[s]
    BY <2>1, <2>2 DEF Fits
  <2>4. CASE s \in alive
    <3>1. pq'[s] = Append(pq[s], 0)
      BY <2>4
    <3>2. /\ pq'[s] \in Seq(Nat) /\ Len(pq'[s]) = Len(pq[s]) + 1
          /\ pq'[s][Len(pq'[s])] = 0
      BY <2>1, <3>1
    <3> QED
      BY <2>1, <2>3, <3>2 DEF Fits
  <2>5. CASE s \notin alive
    <3>1. pq'[s] = pq[s]
      BY <2>5
    <3> QED
      BY <2>1, <2>3, <3>1 DEF Fits
  <2> QED
    BY <2>4, <2>5
<1>3. pq' \in [Stream -> Seq(Nat)]
  BY <1>2
<1> QED
  BY <1>1, <1>2, <1>3 DEF Packets

\* A packet goes to the place that was taken for it.
LEMMA PacketPut ==
    ASSUME QInv, dmx = "put", dmx' = "check", UNCHANGED <<spaces, packet>>, packet # EndOfFile,
           pq' = IF packet[1] = "x" THEN pq ELSE [pq EXCEPT ![packet[1]] = Append(@, packet[2])]
    PROVE  Packets'
<1>1. spaces \in [Stream -> Nat] /\ pq \in [Stream -> Seq(Nat)]
  BY DEF QInv, Packets
<1>2. ASSUME NEW s \in Stream PROVE pq'[s] \in Seq(Nat) /\ Fits(s)'
  <2>1. Fits(s) /\ pq[s] \in Seq(Nat) /\ spaces[s] \in Nat /\ PacketCap[s] \in Nat
    BY <1>1, CapFacts DEF QInv, Packets
  <2>2. CASE packet[1] = s
    <3>1. packet[2] \in Nat
      BY <2>2 DEF QInv, DemuxTypes, NoPacket, EndOfFile, Stream
    <3>2. pq'[s] = Append(pq[s], packet[2])
      BY <1>1, <2>2 DEF Stream
    <3>3. pq'[s] \in Seq(Nat) /\ Len(pq'[s]) = Len(pq[s]) + 1
      BY <2>1, <3>1, <3>2
    <3>4. Held(s) = 1 /\ Held(s)' = 0
      BY <2>2 DEF Held
    <3> QED
      BY <2>1, <3>3, <3>4 DEF Fits
  <2>3. CASE packet[1] # s
    <3>1. pq'[s] = pq[s]
      BY <1>1, <2>3
    <3>2. Held(s) = 0 /\ Held(s)' = 0
      BY <2>3 DEF Held
    <3> QED
      BY <2>1, <3>1, <3>2 DEF Fits
  <2> QED
    BY <2>2, <2>3
<1>3. pq' \in [Stream -> Seq(Nat)]
  BY <1>1, <1>2
<1> QED
  BY <1>1, <1>2, <1>3 DEF Packets

LEMMA DemuxPutTypes == ASSUME QInv, DemuxPut PROVE QInv'
<1>1. /\ dmx = "put"
      /\ UNCHANGED <<layerVars, ctrlVars, packet, counter, demuxStop, spaces, decVars, fq, fspace>>
      /\ pos' \in {0, pos} /\ dmx' \in {"check", "over"}
  BY DEF DemuxPut
<1>2. \/ dmx' = "check" /\ packet = EndOfFile /\ UNCHANGED pq
      \/ dmx' = "over" /\ pq' = [s \in Stream |-> IF s \in alive THEN Append(pq[s], 0) ELSE pq[s]]
      \/ /\ dmx' = "check" /\ packet # EndOfFile
         /\ pq' = IF packet[1] = "x" THEN pq ELSE [pq EXCEPT ![packet[1]] = Append(@, packet[2])]
  BY DEF DemuxPut
<1>3. DemuxTypes'
  BY <1>1 DEF QInv, DemuxTypes
<1>4. Packets'
  <2>1. CASE dmx' = "check" /\ packet = EndOfFile /\ UNCHANGED pq
    BY <1>1, <2>1, NoPlaceTaken DEF Held
  <2> QED
    BY <1>1, <1>2, <2>1, NullPackets, PacketPut
<1> QED
  BY <1>1, <1>3, <1>4, DemuxStep DEF ctrlVars

LEMMA DemuxTypesKept == ASSUME QInv, Demux PROVE QInv'
<1>1. CASE DemuxEnd
  <2>1. /\ dmx' = "done" /\ lock' \in {"open", lock}
        /\ UNCHANGED <<layerVars, alive, finishing, count, shutdown, packet, pos, counter, demuxStop,
                       pq, spaces, decVars, fq, fspace>>
    BY <1>1 DEF DemuxEnd, Posted
  <2>2. DemuxTypes'
    BY <2>1 DEF QInv, DemuxTypes
  <2>3. Packets'
    BY <2>1, NoPlaceTaken DEF Held
  <2> QED
    BY <2>1, <2>2, <2>3, DemuxStep
<1>2. CASE DemuxTimecodes
  <2>1. /\ dmx = "timecodes" /\ dmx' \in {"put", "space"}
        /\ dmx' = "put" => packet[1] = "x"
        /\ UNCHANGED <<layerVars, alive, finishing, count, shutdown, packet, pos, demuxStop,
                       pq, spaces, decVars, fq, fspace>>
    BY <1>2 DEF DemuxTimecodes
  <2>2. lock' \in {"open", lock}
    BY <1>2 DEF DemuxTimecodes, Timecodes, Posted
  <2>3. counter' \in 0..VideoPackets
    BY <1>2, ConstantFacts DEF DemuxTimecodes, Timecodes, QInv, DemuxTypes
  <2>4. DemuxTypes'
    BY <2>1, <2>3 DEF QInv, DemuxTypes
  <2>5. Packets'
    BY <2>1, NoPlaceTaken DEF Held, Stream
  <2> QED
    BY <2>1, <2>2, <2>4, <2>5, DemuxStep
<1>3. CASE DemuxGiveUp
  <2>1. /\ dmx \in {"space", "put"} /\ dmx' = "check"
        /\ UNCHANGED <<layerVars, ctrlVars, packet, pos, counter, demuxStop, pq, spaces, decVars, fq, fspace>>
    BY <1>3 DEF DemuxGiveUp
  <2>2. DemuxTypes'
    BY <2>1 DEF QInv, DemuxTypes
  <2>3. Packets'
    BY <2>1, NoPlaceTaken DEF Held
  <2> QED
    BY <2>1, <2>2, <2>3, DemuxStep DEF ctrlVars
<1> QED
  BY <1>1, <1>2, <1>3, DemuxReadTypes, DemuxSpaceTypes, DemuxPutTypes DEF Demux

\* A decoder that is on its way with what is in its codec.
LEMMA CodecsKept ==
    ASSUME QInv, NEW s \in Stream, NEW state \in Running \cup {"done"}, NEW frames \in Seq(Nat),
           state \in {"emit", "flush"} => frames # <<>>,
           dec' = [dec EXCEPT ![s] = state], codec' = [codec EXCEPT ![s] = frames]
    PROVE  Codecs'
BY DEF QInv, Codecs

\* What the codec gives out is there.
LEMMA EmitsFacts ==
    ASSUME NEW state \in {"emit", "flush"}, NEW frames \in Seq(Nat)
    PROVE  /\ Emits(state, frames) \in Running
           /\ Emits(state, frames) \in {"emit", "flush"} => frames # <<>>
<1>1. Len(frames) > CodecDelay => frames # <<>>
  BY CapFacts
<1> QED
  BY <1>1 DEF Emits, Running, Working

\* A frame is put, for a place taken.
LEMMA FramePut ==
    ASSUME QInv, NEW s \in Stream, NEW frame \in Nat, fspace[s] > 0,
           fspace' = [fspace EXCEPT ![s] = @ - 1], fq' = [fq EXCEPT ![s] = Append(@, frame)]
    PROVE  Frames'
<1>1. fq \in [Stream -> Seq(Nat)] /\ fspace \in [Stream -> Nat]
  BY DEF QInv, Frames
<1>2. fq[s] \in Seq(Nat) /\ fspace[s] \in Nat /\ FrameCap[s] \in Nat
  BY <1>1, CapFacts
<1>3. Append(fq[s], frame) \in Seq(Nat) /\ Len(Append(fq[s], frame)) = Len(fq[s]) + 1
  BY <1>2
<1>4. fq'[s] = Append(fq[s], frame) /\ fspace'[s] = fspace[s] - 1
  BY <1>1
<1>5. fq' \in [Stream -> Seq(Nat)] /\ fspace' \in [Stream -> Nat]
  BY <1>1, <1>2, <1>3
<1>6. \A t \in Stream \ {s} : fq'[t] = fq[t] /\ fspace'[t] = fspace[t]
  BY <1>1
<1>7. \A t \in Stream : Len(fq[t]) + fspace[t] <= FrameCap[t]
  BY DEF QInv, Frames
<1>8. Len(fq'[s]) + fspace'[s] <= FrameCap[s]
  BY <1>2, <1>3, <1>4, <1>7
<1> QED
  BY <1>5, <1>6, <1>7, <1>8 DEF Frames

\* A packet is taken, the null packet too, and a place given back.
LEMMA PacketTaken ==
    ASSUME QInv, NEW s \in Stream, pq[s] # <<>>, UNCHANGED <<dmx, packet>>,
           pq' = [pq EXCEPT ![s] = Tail(@)], spaces' = [spaces EXCEPT ![s] = @ + 1]
    PROVE  Packets'
<1>1. spaces \in [Stream -> Nat] /\ pq \in [Stream -> Seq(Nat)]
  BY DEF QInv, Packets
<1>2. pq[s] \in Seq(Nat) /\ spaces[s] \in Nat /\ PacketCap[s] \in Nat /\ Fits(s)
  BY <1>1, CapFacts DEF QInv, Packets
<1>3. Tail(pq[s]) \in Seq(Nat) /\ Len(Tail(pq[s])) = Len(pq[s]) - 1
  BY <1>2
<1>4. pq'[s] = Tail(pq[s]) /\ spaces'[s] = spaces[s] + 1
  BY <1>1
<1>5. pq' \in [Stream -> Seq(Nat)] /\ spaces' \in [Stream -> Nat]
  BY <1>1, <1>2, <1>3
<1>6. \A t \in Stream : Held(t) \in {0, 1} /\ Held(t)' = Held(t)
  BY DEF Held
<1>7. Fits(s)'
  <2>1. Len(pq[s]) \in Nat /\ Len(pq[s]) <= PacketCap[s] + 1
    BY <1>2 DEF Fits
  <2>2. Len(pq'[s]) = Len(pq[s]) - 1
    BY <1>3, <1>4
  <2>3. PacketCap[s] \in Nat /\ spaces[s] \in Nat /\ spaces'[s] = spaces[s] + 1
    BY <1>2, <1>4
  <2>4. Len(pq'[s]) <= PacketCap[s]
    BY <2>1, <2>2, <2>3
  <2>5. dmx \notin {"over", "done"} => Len(pq[s]) + spaces[s] + Held(s) <= PacketCap[s]
    BY <1>2 DEF Fits
  <2>6. dmx' \notin {"over", "done"} => Len(pq'[s]) + spaces'[s] + Held(s)' <= PacketCap[s]
    BY <1>6, <2>1, <2>2, <2>3, <2>5
  <2> QED
    BY <2>4, <2>6 DEF Fits
<1>8. ASSUME NEW t \in Stream, t # s PROVE Fits(t)'
  <2>1. pq'[t] = pq[t] /\ spaces'[t] = spaces[t] /\ Fits(t)
    BY <1>1, <1>8 DEF QInv, Packets
  <2> QED
    BY <1>6, <2>1 DEF Fits
<1> QED
  BY <1>5, <1>7, <1>8 DEF Packets

\* A decoding thread that is counted out was counted.
LEMMA CountedOutTypes ==
    ASSUME QInv, Inv', NEW s \in Stream, CountOut(s)
    PROVE  ControlTypes'
<1>1. count \in 0..2 /\ count' = count - 1 /\ UNCHANGED <<alive, finishing, lock, shutdown>>
  BY DEF CountOut, QInv, ControlTypes
<1>2. Cardinality(Unfinished') <= count' /\ Cardinality(Unfinished') \in Nat
  <2>1. Unfinished' \in SUBSET Stream
    BY DEF Unfinished
  <2> QED
    BY <2>1, UnfinishedFinite DEF Inv, Covered
<1>3. count' \in 0..2
  BY <1>1, <1>2
<1> QED
  BY <1>1, <1>3 DEF QInv, ControlTypes

\* Leaving, the thread's codec stays as it is.
LEMMA LeaveTypes ==
    ASSUME QInv, NEW s \in Stream, Leave(s), UNCHANGED codec
    PROVE  Codecs'
<1>1. codec[s] \in Seq(Nat) /\ codec' = [codec EXCEPT ![s] = codec[s]]
  BY DEF QInv, Codecs
<1> QED
  BY <1>1, CodecsKept DEF Leave, Running

LEMMA DecoderTypes == ASSUME QInv, Inv', NEW s \in Stream, Decoder(s) PROVE QInv'
<1>0. codec[s] \in Seq(Nat) /\ pq[s] \in Seq(Nat)
  BY DEF QInv, Codecs, Packets
<1>1. CASE DecoderStart(s)
  <2>1. /\ dec' = [dec EXCEPT ![s] = "wait"]
        /\ UNCHANGED <<layerVars, ctrlVars, demuxVars, pq, spaces, codec, fq, fspace>>
    BY <1>1 DEF DecoderStart
  <2>2. codec' = [codec EXCEPT ![s] = codec[s]]
    BY <2>1 DEF QInv, Codecs
  <2>3. Codecs'
    BY <1>0, <2>1, <2>2, CodecsKept DEF Running, Working
  <2> QED
    BY <2>1, <2>3, Untouched DEF QInv, demuxVars
<1>2. CASE DecoderLeave(s)
  <2>1. /\ Leave(s)
        /\ UNCHANGED <<layerVars, ctrlVars, demuxVars, pq, spaces, codec, fq, fspace>>
    BY <1>2 DEF DecoderLeave
  <2> QED
    BY <2>1, LeaveTypes, Untouched DEF QInv, demuxVars
<1>3. CASE Decode(s)
  <2> DEFINE p == Head(pq[s])
             kind == IF p = 0 THEN "flush" ELSE "emit"
             frames == Fed(codec[s], p)
  <2>1. /\ pq[s] # <<>>
        /\ codec' = [codec EXCEPT ![s] = frames]
        /\ dec' = [dec EXCEPT ![s] = Emits(kind, frames)]
        /\ pq' = [pq EXCEPT ![s] = Tail(@)]
        /\ spaces' = [spaces EXCEPT ![s] = @ + 1]
        /\ UNCHANGED <<layerVars, ctrlVars, demuxVars, fq, fspace>>
    BY <1>3 DEF Decode
  <2>2. p \in Nat
    BY <1>0, <2>1
  <2>3. frames \in Seq(Nat)
    BY <1>0, <2>2 DEF Fed
  <2>4. kind \in {"emit", "flush"}
    OBVIOUS
  <2> HIDE DEF frames, kind
  <2>5. /\ Emits(kind, frames) \in Running
        /\ Emits(kind, frames) \in {"emit", "flush"} => frames # <<>>
    BY <2>3, <2>4, EmitsFacts
  <2>6. Codecs'
    BY <2>1, <2>3, <2>5, CodecsKept
  <2>7. Packets'
    BY <2>1, PacketTaken DEF demuxVars
  <2> QED
    BY <2>1, <2>6, <2>7, Untouched DEF QInv
<1>4. CASE Enqueue(s)
  <2>1. /\ dec[s] \in {"emit", "flush"} /\ fspace[s] > 0
        /\ fspace' = [fspace EXCEPT ![s] = @ - 1]
        /\ fq' = [fq EXCEPT ![s] = Append(@, Head(codec[s]))]
        /\ codec' = [codec EXCEPT ![s] = Tail(@)]
        /\ dec' = [dec EXCEPT ![s] = Emits(dec[s], Tail(codec[s]))]
        /\ UNCHANGED <<layerVars, ctrlVars, demuxVars, pq, spaces>>
    BY <1>4 DEF Enqueue
  <2>2. codec[s] # <<>>
    BY <2>1 DEF QInv, Codecs
  <2>3. Head(codec[s]) \in Nat /\ Tail(codec[s]) \in Seq(Nat)
    BY <1>0, <2>2
  <2>4. /\ Emits(dec[s], Tail(codec[s])) \in Running
        /\ Emits(dec[s], Tail(codec[s])) \in {"emit", "flush"} => Tail(codec[s]) # <<>>
    BY <2>1, <2>3, EmitsFacts
  <2>5. codec' = [codec EXCEPT ![s] = Tail(codec[s])]
    BY <2>1
  <2>6. Codecs'
    BY <2>1, <2>3, <2>4, <2>5, CodecsKept
  <2>7. Frames'
    BY <2>1, <2>3, FramePut
  <2> QED
    BY <2>1, <2>6, <2>7, Untouched DEF QInv, demuxVars
<1>5. CASE EnqueueNull(s)
  <2>1. /\ fspace[s] > 0 /\ Leave(s)
        /\ fspace' = [fspace EXCEPT ![s] = @ - 1] /\ fq' = [fq EXCEPT ![s] = Append(@, 0)]
        /\ UNCHANGED <<layerVars, ctrlVars, demuxVars, pq, spaces, codec>>
    BY <1>5 DEF EnqueueNull
  <2>2. Frames'
    BY <2>1, FramePut
  <2> QED
    BY <2>1, <2>2, LeaveTypes, Untouched DEF QInv, demuxVars
<1>6. CASE Abandon(s)
  <2>1. /\ Leave(s)
        /\ UNCHANGED <<layerVars, ctrlVars, demuxVars, pq, spaces, codec, fq, fspace>>
    BY <1>6 DEF Abandon
  <2> QED
    BY <2>1, LeaveTypes, Untouched DEF QInv, demuxVars
<1>7. CASE CountOut(s)
  <2>1. /\ dec' = [dec EXCEPT ![s] = "done"]
        /\ UNCHANGED <<layerVars, demuxVars, pq, spaces, codec, fq, fspace>>
    BY <1>7 DEF CountOut
  <2>2. codec' = [codec EXCEPT ![s] = codec[s]]
    BY <2>1 DEF QInv, Codecs
  <2>3. Codecs'
    BY <1>0, <2>1, <2>2, CodecsKept
  <2> QED
    BY <1>7, <2>1, <2>3, CountedOutTypes, Untouched DEF QInv, demuxVars
<1> QED
  BY <1>1, <1>2, <1>3, <1>4, <1>5, <1>6, <1>7 DEF Decoder

LEMMA QInvNext == Inv /\ QInv /\ [Next]_vars => QInv'
<1> SUFFICES ASSUME Inv, QInv, [Next]_vars PROVE QInv'
  OBVIOUS
<1>0. Inv'
  BY StepKeeps
<1>1. ASSUME NEW f \in Films, Load(f) PROVE QInv'
  BY <1>1, LoadTypes
<1>2. CASE Present
  BY <1>2, PresentTypes
<1>3. CASE Updates
  BY <1>3, UpdateTypes DEF Updates
<1>4. CASE FillBuffers
  BY <1>4, FillTypes
<1>5. CASE StartPlayback \/ (\E caller \in Callers : Call(caller)) \/ RequestStop \/ EndThreads
  BY <1>5, MainTypes
<1>6. CASE Finish
  BY <1>6, FinishTypes
<1>7. CASE ThreadsEnded
  BY <1>7, ThreadsEndedTypes
<1>8. CASE Demux
  BY <1>8, DemuxTypesKept
<1>9. ASSUME NEW s \in Stream, Decoder(s) PROVE QInv'
  BY <1>0, <1>9, DecoderTypes
<1>10. CASE UNCHANGED vars
  BY <1>10, Untouched DEF vars, demuxVars, QInv
<1>11. ASSUME NEW f \in Films, LoadFails(f) PROVE QInv'
  BY <1>11, LoadFailsTypes
<1> QED
  BY <1>1, <1>2, <1>3, <1>4, <1>5, <1>6, <1>7, <1>8, <1>9, <1>10, <1>11 DEF Next

LEMMA QInvCorrect == Spec => []QInv
BY InvInit, StepKeeps, QInvInit, QInvNext, PTL DEF Spec

\* The state of the layer, the controller and its threads keeps its types:
\* the worker count stays between none and one per stream, the semaphores of
\* free places are never negative.
THEOREM TypeCorrect == Spec => []TypeOK
BY QInvCorrect, QInvImplies, PTL

\* Whatever the film and the moment at which it is stopped or reset, the
\* queues of packets and of frames hold no more than the pools are sized for,
\* though the null packet is put without a place and gives one back.
THEOREM QueuesBoundedCorrect == Spec => []QueuesBounded
BY QInvCorrect, QInvImplies, PTL
-----------------------------------------------------------------------------
(* The pictures of a film that does not loop, on their way to the screen.  *)
(* What is further along the pipeline is earlier in the film, and nothing  *)
(* is lost on the way unless the threads are told to go; so where the null *)
(* packet or the null frame has come, every picture has come before.       *)

\* Numbers in a queue rise, and 0, the null packet or frame, is its end.
Rising(q) == \A i, j \in DOMAIN q : i < j => q[i] # 0 /\ (q[j] = 0 \/ q[i] < q[j])
Entries(q) == {q[i] : i \in DOMAIN q}
Numbers(q) == Entries(q) \ {0}
Before(A, B) == \A a \in A, b \in B : a < b

\* The pictures, and where those are that were read and are not shown yet.
Pictures == {i \in DOMAIN film.packets : film.packets[i] = "v"}
InHand == dmx \in {"timecodes", "space", "put"}
Hand == {i \in {packet[2]} : InHand /\ packet[1] = "v"}
Queued == Numbers(pq["v"])
Coded == Numbers(codec["v"])
Decoded == Numbers(fq["v"])
Underway == Decoded \cup Coded \cup Queued \cup Hand

Rise == Rising(fq["v"]) /\ Rising(codec["v"]) /\ Rising(pq["v"])

Line ==
    /\ Before({shown}, Underway)
    /\ Before(Decoded, Coded \cup Queued \cup Hand)
    /\ Before(Coded, Queued \cup Hand)
    /\ Before(Queued, Hand)
    /\ Underway \subseteq {i \in Pictures : i <= pos}
    /\ main # "offline" => shown \in {0} \cup {i \in Pictures : i <= pos}

\* All pictures up to the last are on screen, overtaken, or among `kept`.
Kept(last, kept) == \A i \in Pictures : i <= last => i <= shown \/ i \in kept
AllKept(kept) == \A i \in Pictures : i <= shown \/ i \in kept

Complete ==
    /\ dmx = "check" \/ InHand => shutdown \/ Kept(pos, Underway)
    /\ 0 \in Entries(pq["v"]) => AllKept(Decoded \cup Coded \cup Queued)
    /\ dec["v"] = "flush" => AllKept(Decoded \cup Coded)
    /\ dec["v"] = "null" => AllKept(Decoded)
    /\ 0 \in Entries(fq["v"]) => AllKept(Decoded)
    /\ eof /\ main # "offline" => AllKept({})

\* Where the null packet and the null frame may be, and what is empty until
\* decoders run.
Ends ==
    /\ InHand => IF packet = EndOfFile THEN pos >= Len(film.packets) ELSE packet[2] = pos /\ pos > 0
    /\ 0 \in Entries(pq["v"]) => dmx \in {"over", "done"}
    /\ 0 \notin Entries(codec["v"])
    /\ 0 \in Entries(fq["v"]) => dec["v"] \notin Working \cup {"queued"}
    /\ main \in {"offline", "timing"} => fq["v"] = <<>> /\ codec["v"] = <<>> /\ ~demuxStop
    /\ main = "timing" => shown = 0 /\ ~eof
    /\ main = "offline" => pq["v"] = <<>> /\ pos = 0

FInv == Ends /\ (~film.loop => Rise /\ Line /\ (~demuxStop => Complete))

LEMMA EntriesAppended ==
    ASSUME NEW q \in Seq(Nat), NEW x \in Nat
    PROVE  /\ Entries(Append(q, x)) = Entries(q) \cup {x}
           /\ Rising(q) /\ 0 \notin Entries(q) /\ (x = 0 \/ Before(Numbers(q), {x}))
                => Rising(Append(q, x))
<1> DEFINE r == Append(q, x)
<1>1. /\ Len(q) \in Nat /\ DOMAIN q = 1..Len(q) /\ DOMAIN r = 1..(Len(q) + 1)
      /\ \A i \in 1..Len(q) : r[i] = q[i]
      /\ r[Len(q) + 1] = x
  OBVIOUS
<1> HIDE DEF r
<1>2. Entries(r) = Entries(q) \cup {x}
  <2>1. ASSUME NEW y \in Entries(r) PROVE y \in Entries(q) \cup {x}
    <3>1. PICK i \in DOMAIN r : y = r[i]
      BY <2>1 DEF Entries
    <3>2. i \in 1..Len(q) \/ i = Len(q) + 1
      BY <1>1
    <3> QED
      BY <1>1, <3>1, <3>2 DEF Entries
  <2>2. ASSUME NEW i \in DOMAIN q PROVE q[i] \in Entries(r)
    <3>1. i \in DOMAIN r /\ r[i] = q[i]
      BY <1>1
    <3> QED
      BY <3>1 DEF Entries
  <2>3. x \in Entries(r)
    <3>1. Len(q) + 1 \in DOMAIN r
      BY <1>1
    <3> QED
      BY <1>1, <3>1 DEF Entries
  <2> QED
    BY <2>1, <2>2, <2>3 DEF Entries
<1>3. ASSUME Rising(q), 0 \notin Entries(q), x = 0 \/ Before(Numbers(q), {x})
      PROVE  Rising(r)
  <2> SUFFICES ASSUME NEW i \in DOMAIN r, NEW j \in DOMAIN r, i < j
               PROVE  r[i] # 0 /\ (r[j] = 0 \/ r[i] < r[j])
    BY DEF Rising
  <2>1. i \in DOMAIN q /\ r[i] = q[i] /\ q[i] # 0 /\ q[i] \in Numbers(q)
    BY <1>1, <1>3 DEF Entries, Numbers
  <2>2. CASE j \in 1..Len(q)
    BY <1>1, <1>3, <2>1, <2>2 DEF Rising
  <2>3. CASE j = Len(q) + 1
    BY <1>1, <1>3, <2>1, <2>3 DEF Before
  <2> QED
    BY <1>1, <2>2, <2>3
<1> QED
  BY <1>2, <1>3 DEF r

\* r is what is left of q behind its first n entries.
Behind(q, n, r) ==
    /\ q \in Seq(Nat) /\ Rising(q) /\ n \in 1..Len(q)
    /\ r \in Seq(Nat) /\ Len(r) = Len(q) - n
    /\ \A i \in 1..Len(r) : r[i] = q[i + n]

\* Its entries are those of q except the first n, and come after them.
Rest(q, n, r) ==
    /\ Rising(r) /\ Entries(r) \subseteq Entries(q)
    /\ q[n] = 0 => r = <<>>
    /\ q[n] # 0 => /\ \A i \in 1..n : q[i] # 0 /\ q[i] <= q[n]
                   /\ Before({q[n]}, Numbers(r))
    /\ \A x \in Entries(q) : x \in Entries(r) \/ \E i \in 1..n : x = q[i]

LEMMA EntriesLeft == \A q, n, r : Behind(q, n, r) => Rest(q, n, r)
<1> SUFFICES ASSUME NEW q, NEW n, NEW r, Behind(q, n, r) PROVE Rest(q, n, r)
  OBVIOUS
<1>a. /\ q \in Seq(Nat) /\ Rising(q) /\ n \in 1..Len(q)
      /\ r \in Seq(Nat) /\ Len(r) = Len(q) - n
      /\ \A i \in 1..Len(r) : r[i] = q[i + n]
  BY DEF Behind
<1>1. /\ Len(q) \in Nat /\ DOMAIN q = 1..Len(q) /\ DOMAIN r = 1..Len(r) /\ Len(r) \in Nat
      /\ \A i \in 1..Len(q) : q[i] \in Nat
  BY <1>a
<1>0. n \in Nat /\ 1 <= n /\ n <= Len(q)
  BY <1>a, <1>1
<1>r. \A i, j \in DOMAIN q : i < j => q[i] # 0 /\ (q[j] = 0 \/ q[i] < q[j])
  BY <1>a DEF Rising
<1>2. ASSUME NEW i \in DOMAIN r
      PROVE  i \in Nat /\ i + n \in DOMAIN q /\ n < i + n /\ r[i] = q[i + n]
  <2>1. i \in 1..Len(r)
    BY <1>a, <1>1
  <2>2. i \in Nat /\ 1 <= i /\ i <= Len(q) - n
    BY <1>0, <1>a, <1>1, <2>1
  <2>3. i + n \in 1..Len(q) /\ n < i + n
    BY <1>0, <1>1, <2>2
  <2> QED
    BY <1>a, <1>1, <2>1, <2>2, <2>3
<1>3. Rising(r)
  <2> SUFFICES ASSUME NEW i \in DOMAIN r, NEW j \in DOMAIN r, i < j
               PROVE  r[i] # 0 /\ (r[j] = 0 \/ r[i] < r[j])
    BY DEF Rising
  <2>1. i + n \in DOMAIN q /\ j + n \in DOMAIN q /\ i + n < j + n
    BY <1>0, <1>2
  <2>2. q[i + n] # 0 /\ (q[j + n] = 0 \/ q[i + n] < q[j + n])
    BY <1>r, <2>1
  <2> QED
    BY <1>2, <2>2
<1>4. Entries(r) \subseteq Entries(q)
  BY <1>2 DEF Entries
<1>5. ASSUME q[n] = 0 PROVE r = <<>>
  <2>1. n \in DOMAIN q /\ n < n + 1
    BY <1>0, <1>a, <1>1
  <2>2. n + 1 \notin DOMAIN q
    BY <1>r, <1>5, <2>1
  <2>3. Len(r) = 0
    BY <1>0, <1>a, <1>1, <2>2
  <2> QED
    BY <2>3
<1>6. ASSUME q[n] # 0, NEW i \in 1..n PROVE q[i] # 0 /\ q[i] <= q[n]
  <2>1. i \in DOMAIN q /\ n \in DOMAIN q /\ q[n] \in Nat /\ (i < n \/ i = n)
    BY <1>0, <1>a, <1>1
  <2>2. i < n => q[i] # 0 /\ q[i] < q[n]
    BY <1>r, <1>6, <2>1
  <2>3. q[i] \in Nat
    BY <1>a, <1>1, <2>1
  <2> QED
    BY <1>6, <2>1, <2>2, <2>3
<1>7. ASSUME q[n] # 0 PROVE Before({q[n]}, Numbers(r))
  BY <1>a, <1>1, <1>2, <1>7 DEF Before, Numbers, Entries, Rising
<1>8. ASSUME NEW x \in Entries(q) PROVE x \in Entries(r) \/ \E i \in 1..n : x = q[i]
  <2>1. PICK k \in DOMAIN q : x = q[k]
    BY DEF Entries
  <2>2. CASE k <= n
    BY <1>a, <1>1, <2>1, <2>2
  <2>3. CASE k > n
    <3>1. k - n \in DOMAIN r /\ r[k - n] = q[k]
      <4>1. k \in Nat /\ k <= Len(q) /\ Len(q) \in Nat /\ n \in Nat /\ Len(r) = Len(q) - n
        BY <1>0, <1>a, <1>1
      <4>2. k - n \in 1..Len(r) /\ (k - n) + n = k
        BY <2>3, <4>1
      <4> QED
        BY <1>a, <1>1, <4>2
    <3> QED
      BY <2>1, <3>1 DEF Entries
  <2> QED
    BY <1>a, <1>1, <2>2, <2>3
<1> QED
  BY <1>3, <1>4, <1>5, <1>6, <1>7, <1>8 DEF Rest

\* The first entry is taken.
LEMMA FirstTaken ==
    ASSUME NEW q \in Seq(Nat), Rising(q), q # <<>>
    PROVE  /\ Tail(q) \in Seq(Nat) /\ Head(q) \in Nat
           /\ Rising(Tail(q)) /\ Entries(q) = {Head(q)} \cup Entries(Tail(q))
           /\ Head(q) = 0 => Tail(q) = <<>>
           /\ Head(q) # 0 => Before({Head(q)}, Numbers(Tail(q)))
<1> DEFINE r == Tail(q)
<1>1. /\ Head(q) = q[1] /\ q[1] \in Nat /\ Len(q) \in Nat /\ 1 \in 1..Len(q) /\ r \in Seq(Nat)
      /\ Len(r) = Len(q) - 1 /\ \A i \in 1..Len(r) : r[i] = q[i + 1]
      /\ DOMAIN q = 1..Len(q)
  OBVIOUS
<1> HIDE DEF r
<1>b. Behind(q, 1, r)
  BY <1>1 DEF Behind
<1>c. Rest(q, 1, r)
  BY <1>b, EntriesLeft
<1>2. /\ Rising(r) /\ Entries(r) \subseteq Entries(q)
      /\ q[1] = 0 => r = <<>>
      /\ q[1] # 0 => Before({q[1]}, Numbers(r))
      /\ \A x \in Entries(q) : x \in Entries(r) \/ \E i \in 1..1 : x = q[i]
  BY <1>c DEF Rest
<1>3. q[1] \in Entries(q)
  BY <1>1 DEF Entries
<1>4. Entries(q) = {q[1]} \cup Entries(r)
  BY <1>2, <1>3
<1> QED
  BY <1>1, <1>2, <1>4 DEF r

LEMMA PictureFacts ==
    \A f \in Films : /\ DOMAIN f.packets = 1..Len(f.packets) /\ Len(f.packets) \in Nat
                     /\ {i \in DOMAIN f.packets : f.packets[i] = "v"} \subseteq Nat \ {0}
<1> TAKE f \in Films
<1>1. f.packets \in Seq(Stream \cup {"x"})
  BY FilmFacts
<1>2. DOMAIN f.packets = 1..Len(f.packets) /\ Len(f.packets) \in Nat
  BY <1>1
<1> QED
  BY <1>2

LEMMA QueueTypes ==
    ASSUME QInv
    PROVE  /\ "v" \in Stream /\ film \in Films /\ shown \in Nat /\ pos \in Nat
           /\ fq["v"] \in Seq(Nat) /\ codec["v"] \in Seq(Nat) /\ pq["v"] \in Seq(Nat)
           /\ dec["v"] \in Running \cup {"none", "queued", "done"}
           /\ Decoded \subseteq Nat /\ Coded \subseteq Nat /\ Queued \subseteq Nat
<1>1. /\ "v" \in Stream /\ film \in Films /\ shown \in Nat /\ pos \in Nat
      /\ fq["v"] \in Seq(Nat) /\ codec["v"] \in Seq(Nat) /\ pq["v"] \in Seq(Nat)
      /\ dec["v"] \in Running \cup {"none", "queued", "done"}
  BY DEF QInv, LayerTypes, DemuxTypes, Codecs, Packets, Frames, Stream
<1>2. \A q \in Seq(Nat) : Entries(q) \subseteq Nat
  BY DEF Entries
<1> QED
  BY <1>1, <1>2 DEF Decoded, Coded, Queued, Numbers

LEMMA NothingThere ==
    Rising(<<>>) /\ Entries(<<>>) = {} /\ Numbers(<<>>) = {}
BY DEF Rising, Entries, Numbers

\* The decoders' threads are gone or not there while nothing is loaded.
LEMMA ThreadsOnlyLoaded ==
    ASSUME Inv, NEW s \in Stream, dec[s] \in Running \cup {"queued"}
    PROVE  main \notin {"offline", "timing"}
<1>1. Unfinished # {}
  BY DEF Unfinished
<1> QED
  BY <1>1 DEF Inv, Covered

\* Steps that leave the pictures where they are.
LEMMA FlowStays ==
    ASSUME QInv, FInv, main # "offline", main' \notin {"offline", "timing"},
           UNCHANGED <<film, shown, eof, demuxStop, dmx, packet, pos>>,
           fq'["v"] = fq["v"], codec'["v"] = codec["v"], pq'["v"] = pq["v"],
           dec'["v"] \in {"flush", "null"} => dec'["v"] = dec["v"],
           dec'["v"] \in Working \cup {"queued"} =>
               dec["v"] \in Working \cup {"queued"} \/ fq["v"] = <<>>,
           shutdown => shutdown' \/ dmx \in DemuxGone \cup {"idle"}
    PROVE  FInv'
<1>1. UNCHANGED <<Pictures, InHand, Hand, Queued, Coded, Decoded, Underway>>
  BY DEF Pictures, InHand, Hand, Queued, Coded, Decoded, Underway, Numbers, Entries
<1>2. Ends'
  BY <1>1, NothingThere DEF FInv, Ends
<1>3. Rise => Rise'
  BY DEF Rise
<1>4. Line => Line'
  BY <1>1 DEF Line, Before
<1>5. Complete => Complete'
  BY <1>1 DEF Complete, Kept, AllKept, InHand, DemuxGone
<1> QED
  BY <1>2, <1>3, <1>4, <1>5 DEF FInv

LEMMA LoadFlows == ASSUME Inv, QInv, FInv, NEW f \in Films, Load(f) PROVE FInv'
<1>1. /\ main = "offline" /\ film' = f /\ eof' = FALSE /\ shown' = 0
      /\ main' \in {"timing", "playing"} /\ dmx' \in {"check", "idle"}
      /\ UNCHANGED <<packet, pos, demuxStop, pq, dec, codec, fq>>
  BY DEF Load, decVars
<1>2. fq["v"] = <<>> /\ codec["v"] = <<>> /\ pq["v"] = <<>> /\ ~demuxStop /\ pos = 0
  BY <1>1 DEF FInv, Ends
<1>3. fq'["v"] = <<>> /\ codec'["v"] = <<>> /\ pq'["v"] = <<>> /\ ~demuxStop' /\ pos' = 0
  BY <1>1, <1>2
<1>4. Decoded' = {} /\ Coded' = {} /\ Queued' = {} /\ Hand' = {} /\ Underway' = {} /\ ~InHand'
  BY <1>1, <1>3, NothingThere DEF Decoded, Coded, Queued, Hand, InHand, Underway
<1>5. dec'["v"] \notin Running \cup {"queued"}
  BY <1>1, ThreadsOnlyLoaded DEF Stream
<1>6. Ends'
  BY <1>1, <1>3, <1>4, NothingThere DEF Ends
<1>7. Rise'
  BY <1>3, NothingThere DEF Rise
<1>8. Line'
  BY <1>1, <1>4 DEF Line, Before
<1>9. Complete'
  <2>1. Kept(pos, Underway)'
    BY <1>1, <1>3, PictureFacts DEF Kept, Pictures
  <2> QED
    BY <1>1, <1>3, <1>5, <2>1, NothingThere DEF Complete, Running, Working
<1> QED
  BY <1>6, <1>7, <1>8, <1>9 DEF FInv

LEMMA LoadFailsFlows == ASSUME Inv, QInv, FInv, NEW f \in Films, LoadFails(f) PROVE FInv'
<1>1. /\ main = "offline" /\ main' = "offline" /\ film' = f /\ eof' = FALSE
      /\ UNCHANGED <<shown, dmx, packet, pos, demuxStop, pq, dec, codec, fq>>
  BY DEF LoadFails, demuxVars, decVars
<1>2. /\ fq'["v"] = <<>> /\ codec'["v"] = <<>> /\ pq'["v"] = <<>> /\ ~demuxStop' /\ pos' = 0
      /\ dmx' = "none" /\ dec'["v"] \notin Running \cup {"queued"}
  BY <1>1, ThreadsOnlyLoaded DEF FInv, Ends, Inv, Timing, Stream
<1>3. Decoded' = {} /\ Coded' = {} /\ Queued' = {} /\ Hand' = {} /\ Underway' = {} /\ ~InHand'
  BY <1>2, NothingThere DEF Decoded, Coded, Queued, Hand, InHand, Underway
<1>4. Ends'
  BY <1>1, <1>2, <1>3, NothingThere DEF Ends
<1>5. Rise'
  BY <1>2, NothingThere DEF Rise
<1>6. Line'
  BY <1>1, <1>3 DEF Line, Before
<1>7. Complete'
  BY <1>1, <1>2, <1>3, NothingThere DEF Complete, Running, Working
<1> QED
  BY <1>4, <1>5, <1>6, <1>7 DEF FInv

LEMMA PresentFlows == ASSUME Inv, QInv, FInv, Present PROVE FInv'
<1>1. /\ main = "timing" /\ main' = "playing"
      /\ UNCHANGED <<film, shown, eof, demuxStop, dmx, packet, pos, fq, codec, pq, shutdown>>
      /\ \/ dec' = [s \in Stream |-> IF s \in alive THEN "queued" ELSE "none"]
         \/ UNCHANGED dec
  BY DEF Present, demuxVars
<1>2. fq["v"] = <<>>
  BY <1>1 DEF FInv, Ends
<1>3. dec'["v"] \in {"queued", "none", dec["v"]}
  BY <1>1 DEF Stream
<1> QED
  BY <1>1, <1>2, <1>3, FlowStays

\* A queue without frames holds nothing but null frames.
LEMMA NoFrames ==
    ASSUME NEW r \in Seq(Nat), r # <<>>, FrameCount(r) = 0
    PROVE  Entries(r) = {0}
<1> DEFINE N == {i \in DOMAIN r : r[i] # 0}
<1>1. Len(r) \in Nat /\ DOMAIN r = 1..Len(r) /\ 1 \in DOMAIN r
  OBVIOUS
<1>2. IsFiniteSet(N)
  <2>1. IsFiniteSet(1..Len(r))
    BY <1>1, FS_Interval
  <2> QED
    BY <1>1, <2>1, FS_Subset
<1>3. Cardinality(N) = 0
  BY DEF FrameCount
<1> HIDE DEF N
<1>4. N = {}
  BY <1>2, <1>3, FS_EmptySet
<1> QED
  BY <1>1, <1>4 DEF N, Entries

\* What SubSeq leaves behind the first n entries.
LEMMA SomeLeft ==
    \A q \in Seq(Nat) : \A n \in 1..Len(q) :
        LET r == SubSeq(q, n + 1, Len(q))
        IN  /\ r \in Seq(Nat) /\ Len(r) = Len(q) - n
            /\ \A i \in 1..Len(r) : r[i] = q[i + n]
            /\ \A i \in DOMAIN r : i + n \in DOMAIN q /\ r[i] = q[i + n]
<1> TAKE q \in Seq(Nat)
<1> TAKE n \in 1..Len(q)
<1>1. PICK k \in Nat : k = Len(q)
  OBVIOUS
<1>2. /\ n \in Nat /\ n <= k /\ DOMAIN q = 1..k
      /\ \A i \in (n + 1)..k : q[i] \in Nat
  BY <1>1
<1>3. PICK r : r = SubSeq(q, n + 1, k)
  OBVIOUS
<1>4. r \in Seq(Nat) /\ Len(r) = k - n
  BY <1>2, <1>3
<1>5. \A i \in 1..(k - n) : r[i] = q[i + n]
  BY <1>2, <1>3
<1>6. DOMAIN r = 1..(k - n)
  BY <1>4
<1>7. \A i \in 1..(k - n) : i + n \in 1..k
  BY <1>2
<1> QED
  BY <1>1, <1>2, <1>3, <1>4, <1>5, <1>6, <1>7

\* Only the picture on screen and the frames behind it: up to n are taken.
LEMMA UpdateFlows ==
    ASSUME QInv, FInv, NEW n \in 1..MaxLate, Update(n)
    PROVE  FInv' /\ (~film.loop => shown <= shown')
<1>0. /\ fq["v"] \in Seq(Nat) /\ shown \in Nat /\ film \in Films /\ Decoded \subseteq Nat
      /\ fq \in [Stream -> Seq(Nat)] /\ "v" \in Stream /\ n \in Nat \ {0}
  BY QueueTypes, CapFacts DEF QInv, Frames
<1>1. /\ main = "playing" /\ ~eof /\ fq["v"] # <<>>
      /\ UNCHANGED <<film, main, demuxStop, dmx, packet, pos, shutdown, pq, dec, codec>>
  BY DEF Update, ctrlVars, demuxVars, decVars
<1>2. PICK taken \in Nat : taken = Least(n, FrameCount(fq["v"]))
  BY <1>0, FramesCounted DEF Least
<1>3. /\ taken <= FrameCount(fq["v"]) /\ FrameCount(fq["v"]) \in Nat
      /\ FrameCount(fq["v"]) <= Len(fq["v"]) /\ Len(fq["v"]) \in Nat
      /\ fq["v"][Len(fq["v"])] = 0 => FrameCount(fq["v"]) <= Len(fq["v"]) - 1
  BY <1>0, <1>1, <1>2, FramesCounted DEF Least
<1>4. UNCHANGED <<Pictures, InHand, Hand, Queued, Coded>>
  BY <1>1 DEF Pictures, InHand, Hand, Queued, Coded
<1>5. CASE taken = 0
  <2>1. eof' = TRUE /\ UNCHANGED <<shown, fq>>
    BY <1>2, <1>5 DEF Update
  <2>2. FrameCount(fq["v"]) = 0
    BY <1>0, <1>2, <1>3, <1>5 DEF Least
  <2>3. Entries(fq["v"]) = {0}
    BY <1>0, <1>1, <2>2, NoFrames
  <2>4. Decoded = {} /\ UNCHANGED <<Decoded, Underway>>
    BY <1>4, <2>1, <2>3 DEF Decoded, Numbers, Underway
  <2>5. Ends'
    BY <1>1, <1>4, <2>1 DEF FInv, Ends
  <2>6. Rise => Rise'
    BY <1>1, <2>1 DEF Rise
  <2>7. Line => Line'
    BY <1>1, <1>4, <2>1, <2>4 DEF Line, Before
  <2>8. Complete => Complete'
    BY <1>1, <1>4, <2>1, <2>3, <2>4 DEF Complete, Kept, AllKept
  <2> QED
    BY <1>0, <1>1, <2>1, <2>5, <2>6, <2>7, <2>8 DEF FInv
<1>6. CASE taken # 0
  <2>1. /\ shown' = fq["v"][taken]
        /\ fq' = [fq EXCEPT !["v"] = SubSeq(fq["v"], taken + 1, Len(fq["v"]))]
        /\ UNCHANGED eof
    BY <1>2, <1>6 DEF Update
  <2>2. PICK rest : rest = SubSeq(fq["v"], taken + 1, Len(fq["v"]))
    OBVIOUS
  <2>3. fq'["v"] = rest
    BY <1>0, <2>1, <2>2
  <2>a. taken \in 1..Len(fq["v"])
    BY <1>2, <1>3, <1>6
  <2>4. /\ rest \in Seq(Nat) /\ Len(rest) = Len(fq["v"]) - taken /\ taken \in 1..Len(fq["v"])
        /\ \A i \in 1..Len(rest) : rest[i] = fq["v"][i + taken]
    BY <1>0, <2>a, <2>2, SomeLeft
  <2>5. \A i \in DOMAIN rest : i + taken \in DOMAIN fq["v"] /\ rest[i] = fq["v"][i + taken]
    BY <1>0, <2>2, <2>4, SomeLeft
  <2>6. Entries(rest) \subseteq Entries(fq["v"])
    BY <2>5 DEF Entries
  <2>7. Ends'
    BY <1>1, <1>4, <2>1, <2>3, <2>6 DEF FInv, Ends
  <2>8. ASSUME Rise, Line
        PROVE  Rise' /\ Line' /\ (Complete => Complete') /\ shown <= shown'
    <3>1. Behind(fq["v"], taken, rest)
      BY <1>0, <2>4, <2>8 DEF Behind, Rise
    <3>2. Rest(fq["v"], taken, rest)
      BY <3>1, EntriesLeft
    <3>3. shown' # 0
      <4>1. CASE fq["v"][taken] = 0
        <5>1. rest = <<>>
          BY <3>2, <4>1 DEF Rest
        <5>2. taken = Len(fq["v"])
          BY <1>2, <1>3, <2>4, <5>1
        <5> QED
          BY <1>2, <1>3, <4>1, <5>2
      <4> QED
        BY <2>1, <4>1
    <3>4. shown' \in Decoded
      BY <1>0, <2>1, <2>4, <3>3 DEF Decoded, Numbers, Entries
    <3>5. shown < shown' /\ shown' \in Nat
      BY <1>0, <2>8, <3>4 DEF Line, Before, Underway
    <3>6. Decoded' = Numbers(rest)
      BY <2>3 DEF Decoded, Numbers, Entries
    <3>7. Decoded' \subseteq Decoded /\ Before({shown'}, Decoded')
      BY <2>1, <2>6, <3>2, <3>3, <3>6 DEF Rest, Decoded, Numbers
    <3>8. \A x \in Decoded : x <= shown' \/ x \in Decoded'
      BY <2>1, <3>2, <3>3, <3>6 DEF Rest, Decoded, Numbers
    <3>9. Rise'
      BY <1>1, <2>3, <2>8, <3>2 DEF Rise, Rest, Rising, Entries
    <3>10. Line'
      BY <1>1, <1>4, <2>8, <3>4, <3>7 DEF Line, Before, Underway
    <3>11. \A i \in Pictures : i \in Nat /\ (i <= shown => i <= shown')
      BY <1>0, <3>5, PictureFacts DEF Pictures
    <3>12. Complete => Complete'
      BY <1>1, <1>4, <2>1, <2>3, <2>6, <3>8, <3>11 DEF Complete, Kept, AllKept, Underway
    <3> QED
      BY <1>0, <3>5, <3>9, <3>10, <3>12
  <2> QED
    BY <1>0, <1>1, <2>7, <2>8 DEF FInv
<1> QED
  BY <1>5, <1>6

\* finish() thins the decoded pictures out, and in the end empties it all.
LEMMA FinishFlows == ASSUME Inv, QInv, FInv, Finish PROVE FInv'
<1>0. /\ fq["v"] \in Seq(Nat) /\ fq \in [Stream -> Seq(Nat)] /\ "v" \in Stream
      /\ dec["v"] \in Running \cup {"none", "queued", "done"}
  BY QueueTypes DEF QInv, Frames
<1>1. CASE FinishSignal
  <2>1. /\ main \in Callers /\ main' = main
        /\ UNCHANGED <<film, shown, eof, demuxStop, dmx, packet, pos, shutdown, fq, codec, pq, dec>>
    BY <1>1 DEF FinishSignal, demuxVars, decVars
  <2> QED
    BY <2>1, FlowStays DEF Callers
<1>2. CASE FinishLater
  <2>1. /\ main \in Callers /\ main' \in {"playing", main}
        /\ UNCHANGED <<film, shown, eof, demuxStop, dmx, packet, pos, shutdown, fq, codec, pq, dec>>
    BY <1>2 DEF FinishLater, ctrlVars, demuxVars, decVars
  <2> QED
    BY <2>1, FlowStays DEF Callers
<1>3. CASE FinishDecoders
  <2>1. /\ main \in Callers /\ main' \in {"playing", main} /\ demuxStop' = TRUE /\ count = 0
        /\ dec' = DecodersGone /\ codec' = [s \in Stream |-> <<>>]
        /\ fq' = [s \in Stream |->
                     IF s = "v" /\ fq[s] # <<>> THEN <<fq[s][Len(fq[s])]>> ELSE <<>>]
        /\ UNCHANGED <<film, shown, eof, dmx, packet, pos, pq>>
    BY <1>3 DEF FinishDecoders
  <2>2. dec'["v"] = "none"
    BY <1>0, <2>1, CountedOut
  <2>3. codec'["v"] = <<>> /\ pq'["v"] = pq["v"]
    BY <1>0, <2>1
  <2>4. Entries(fq'["v"]) \subseteq Entries(fq["v"]) /\ Rising(fq'["v"])
    <3>1. CASE fq["v"] = <<>>
      <4>1. fq'["v"] = <<>>
        BY <1>0, <2>1, <3>1
      <4> QED
        BY <4>1, NothingThere
    <3>2. CASE fq["v"] # <<>>
      <4>1. fq'["v"] = <<fq["v"][Len(fq["v"])]>>
        BY <1>0, <2>1, <3>2
      <4>2. Len(fq["v"]) \in DOMAIN fq["v"]
        BY <1>0, <3>2
      <4>3. DOMAIN fq'["v"] = {1} /\ fq'["v"][1] = fq["v"][Len(fq["v"])]
        BY <4>1
      <4> QED
        BY <4>2, <4>3 DEF Entries, Rising
    <3> QED
      BY <3>1, <3>2
  <2>5. /\ Decoded' \subseteq Decoded /\ Coded' = {}
        /\ UNCHANGED <<Pictures, InHand, Hand, Queued>>
    BY <2>1, <2>3, <2>4, NothingThere DEF Decoded, Coded, Queued, Pictures, InHand, Hand, Numbers
  <2>6. Ends'
    BY <2>1, <2>2, <2>3, <2>4, <2>5, NothingThere DEF FInv, Ends, Callers, Running, Working
  <2>7. Rise => Rise'
    BY <2>3, <2>4, NothingThere DEF Rise
  <2>8. Line => Line'
    BY <2>1, <2>5 DEF Line, Before, Underway, Callers
  <2> QED
    BY <2>1, <2>6, <2>7, <2>8 DEF FInv
<1>4. CASE FinishAll
  <2>1. /\ main' = "offline" /\ dmx' = "none" /\ pos' = 0 /\ demuxStop' = FALSE /\ count = 0
        /\ dec' = DecodersGone /\ codec' = [s \in Stream |-> <<>>]
        /\ fq' = [s \in Stream |-> <<>>] /\ pq' = [s \in Stream |-> <<>>]
    BY <1>4 DEF FinishAll, Blank
  <2>2. dec'["v"] = "none" /\ codec'["v"] = <<>> /\ fq'["v"] = <<>> /\ pq'["v"] = <<>>
    BY <1>0, <2>1, CountedOut
  <2>3. Underway' = {} /\ Decoded' = {} /\ Coded' = {} /\ Queued' = {} /\ Hand' = {} /\ ~InHand'
    BY <2>1, <2>2, NothingThere DEF Decoded, Coded, Queued, Hand, InHand, Underway
  <2>4. Ends'
    BY <2>1, <2>2, <2>3, NothingThere DEF Ends
  <2>5. Rise'
    BY <2>2, NothingThere DEF Rise
  <2>6. Line'
    BY <2>1, <2>3 DEF Line, Before
  <2>7. Complete'
    BY <2>1, <2>2, <2>3, NothingThere DEF Complete
  <2> QED
    BY <2>4, <2>5, <2>6, <2>7 DEF FInv
<1> QED
  BY <1>1, <1>2, <1>3, <1>4 DEF Finish

\* The layer, the mixer's callback and a reset: no picture moves.
LEMMA LayerFlows ==
    ASSUME Inv, QInv, FInv,
           \/ StartPlayback \/ FillBuffers \/ (\E caller \in Callers : Call(caller))
           \/ RequestStop \/ EndThreads \/ ThreadsEnded
    PROVE  FInv'
<1>0. /\ fq \in [Stream -> Seq(Nat)] /\ "v" \in Stream /\ "a" \in Stream
      /\ dec \in [Stream -> Running \cup {"none", "queued", "done"}]
  BY DEF QInv, Frames, Codecs, Stream
<1>1. CASE StartPlayback \/ (\E caller \in Callers : Call(caller)) \/ RequestStop
  <2>1. /\ main = "playing" /\ main' \in {"playing"} \cup Callers
        /\ UNCHANGED <<film, shown, eof, demuxStop, dmx, packet, pos, shutdown, fq, codec, pq, dec>>
    BY <1>1 DEF StartPlayback, Call, RequestStop, ctrlVars, demuxVars, decVars
  <2> QED
    BY <2>1, FlowStays DEF Callers
<1>2. CASE FillBuffers
  <2>1. main \in {"playing", "resetting"}
    BY <1>2 DEF FillBuffers, Inv, Connected
  <2>2. /\ fq' = [fq EXCEPT !["a"] = Tail(@)] \/ fq' = fq
        /\ UNCHANGED <<main, film, shown, eof, demuxStop, dmx, packet, pos, shutdown, codec, pq, dec>>
    BY <1>2 DEF FillBuffers, ctrlVars, demuxVars, decVars
  <2>3. fq'["v"] = fq["v"]
    BY <1>0, <2>2
  <2> QED
    BY <2>1, <2>2, <2>3, FlowStays
<1>3. CASE EndThreads
  <2>1. /\ main = "playing" /\ main' = "resetting" /\ shutdown' = TRUE
        /\ UNCHANGED <<film, shown, eof, demuxStop, dmx, packet, pos, fq, codec, pq, dec>>
    BY <1>3 DEF EndThreads, demuxVars, decVars
  <2> QED
    BY <2>1, FlowStays
<1>4. CASE ThreadsEnded
  <2>1. /\ main = "resetting" /\ main' = "playing" /\ dmx \in DemuxGone \cup {"idle"}
        /\ dec' = [s \in Stream |-> IF dec[s] = "queued" THEN "none" ELSE dec[s]]
        /\ UNCHANGED <<film, shown, eof, demuxStop, dmx, packet, pos, fq, codec, pq>>
    BY <1>4 DEF ThreadsEnded, demuxVars
  <2>2. dec'["v"] = dec["v"] \/ dec'["v"] = "none"
    BY <1>0, <2>1
  <2> QED
    BY <2>1, <2>2, FlowStays DEF Running, Working
<1> QED
  BY <1>1, <1>2, <1>3, <1>4

\* The demultiplexer reads a packet.
LEMMA ReadFlows == ASSUME Inv, QInv, FInv, DemuxRead PROVE FInv'
<1>0. /\ pos \in Nat /\ film \in Films /\ Decoded \subseteq Nat /\ Coded \subseteq Nat /\ Queued \subseteq Nat
      /\ Pictures \subseteq Nat /\ Len(film.packets) \in Nat
      /\ DOMAIN film.packets = 1..Len(film.packets)
  BY QueueTypes, PictureFacts DEF Pictures
<1>1. /\ dmx = "check" /\ ~Told /\ main # "offline"
      /\ UNCHANGED <<main, film, shown, eof, demuxStop, shutdown, fq, codec, pq, dec>>
  BY DEF DemuxRead, layerVars, ctrlVars, decVars, Inv, Timing
<1>2. Hand = {} /\ ~InHand
  BY <1>1 DEF Hand, InHand
<1>3. UNCHANGED <<Pictures, Decoded, Coded, Queued>>
  BY <1>1 DEF Pictures, Decoded, Coded, Queued
<1>4. Rise => Rise'
  BY <1>1 DEF Rise
<1>5. CASE pos < Len(film.packets)
  <2>1. /\ packet' = <<film.packets[pos + 1], pos + 1>> /\ pos' = pos + 1 /\ dmx' = "timecodes"
    BY <1>1, <1>5 DEF DemuxRead
  <2>2. packet'[2] = pos + 1 /\ packet'[1] = film.packets[pos + 1] /\ pos + 1 \in DOMAIN film.packets
    BY <1>0, <1>5, <2>1
  <2>3. Hand' = {i \in {pos + 1} : i \in Pictures} /\ InHand'
    BY <2>1, <2>2 DEF Hand, InHand, Pictures
  <2>4. packet' # EndOfFile
    <3>1. film.packets[pos + 1] \in Stream \cup {"x"}
      BY <1>0, <2>2, FilmFacts
    <3> QED
      BY <2>1, <3>1 DEF EndOfFile, Stream
  <2>a. InHand' /\ packet' # EndOfFile /\ packet'[2] = pos' /\ pos' > 0
    BY <1>0, <2>1, <2>2, <2>3, <2>4
  <2>b. 0 \notin Entries(pq["v"])
    BY <1>1 DEF FInv, Ends
  <2>5. Ends'
    BY <1>1, <2>a, <2>b DEF FInv, Ends
  <2>6. Line => Line'
    <3> SUFFICES ASSUME Line PROVE Line'
      OBVIOUS
    <3>0. \A i \in Pictures : i <= pos => i < pos + 1 /\ i <= pos'
      BY <1>0, <2>1
    <3>a. \A i \in Decoded \cup Coded \cup Queued : i \in Pictures /\ i <= pos
      BY DEF Line, Underway
    <3>1. \A i \in Decoded \cup Coded \cup Queued : i \in Pictures /\ i <= pos' /\ i < pos + 1
      BY <3>0, <3>a
    <3>b. shown = 0 \/ (shown \in Pictures /\ shown <= pos)
      BY <1>1 DEF Line
    <3>c. 0 < pos + 1
      BY <1>0
    <3>3. shown < pos + 1 /\ shown \in {0} \cup {i \in Pictures : i <= pos'}
      BY <3>0, <3>b, <3>c
    <3>4. Underway' = Decoded \cup Coded \cup Queued \cup Hand'
      BY <1>3 DEF Underway
    <3>5. Underway' \subseteq {i \in Pictures : i <= pos'}
      <4>1. \A i \in Hand' : i \in Pictures /\ i = pos'
        BY <2>1, <2>3
      <4>2. pos' <= pos'
        BY <1>0, <2>1
      <4> QED
        BY <3>1, <3>4, <4>1, <4>2
    <3> QED
      BY <1>1, <1>2, <1>3, <2>3, <3>1, <3>3, <3>4, <3>5 DEF Line, Before, Underway
  <2>7. Complete => Complete'
    <3> SUFFICES ASSUME Complete PROVE Complete'
      OBVIOUS
    <3>1. shutdown \/ Kept(pos, Underway)
      BY <1>1 DEF Complete
    <3>2. \A i \in Pictures : i <= pos' => i <= pos \/ i \in Hand'
      BY <1>0, <2>1, <2>3
    <3>3. shutdown' \/ Kept(pos, Underway)'
      BY <1>1, <1>2, <1>3, <3>1, <3>2 DEF Kept, Underway
    <3> QED
      BY <1>1, <1>3, <3>3 DEF Complete, AllKept
  <2> QED
    BY <1>1, <1>4, <2>5, <2>6, <2>7 DEF FInv
<1>6. CASE pos >= Len(film.packets)
  <2>1. packet' = EndOfFile /\ dmx' = "put" /\ UNCHANGED pos
    BY <1>0, <1>1, <1>6 DEF DemuxRead
  <2>2. Hand' = {} /\ InHand'
    BY <2>1 DEF Hand, InHand, EndOfFile
  <2>3. UNCHANGED <<Hand, Underway>>
    BY <1>2, <1>3, <2>2 DEF Underway
  <2>4. Ends'
    BY <1>1, <1>6, <2>1 DEF FInv, Ends, InHand
  <2>5. Line => Line'
    BY <1>1, <1>3, <2>1, <2>3 DEF Line, Before
  <2>6. Complete => Complete'
    BY <1>1, <1>3, <2>1, <2>3 DEF Complete, Kept, AllKept
  <2> QED
    BY <1>1, <1>4, <2>4, <2>5, <2>6 DEF FInv
<1> QED
  BY <1>0, <1>5, <1>6

\* The demultiplexer goes on with the packet in its hand, or without it.
LEMMA HandFlows ==
    ASSUME Inv, QInv, FInv, DemuxTimecodes \/ DemuxSpace \/ DemuxGiveUp \/ DemuxEnd
    PROVE  FInv'
<1>1. /\ main # "offline"
      /\ UNCHANGED <<main, film, shown, eof, demuxStop, shutdown, packet, pos, fq, codec, pq, dec>>
  BY DEF DemuxTimecodes, DemuxSpace, DemuxGiveUp, DemuxEnd, layerVars, ctrlVars, decVars, Inv, Timing
<1>2. /\ (InHand /\ dmx' \in {"space", "put"}) \/ dmx' \in {"check", "done"}
      /\ dmx' = "check" => Told
      /\ dmx = "over" => dmx' = "done"
      /\ dmx \notin {"none", "idle", "done"}
  BY DEF DemuxTimecodes, DemuxSpace, DemuxGiveUp, DemuxEnd, InHand
<1>3. UNCHANGED <<Pictures, Decoded, Coded, Queued>>
  BY <1>1 DEF Pictures, Decoded, Coded, Queued
<1>c. (Hand' = Hand /\ InHand' /\ InHand) \/ (Hand' = {} /\ ~InHand')
  <2>1. CASE InHand /\ dmx' \in {"space", "put"}
    BY <1>1, <2>1 DEF Hand, InHand
  <2>2. CASE dmx' \in {"check", "done"}
    BY <2>2 DEF Hand, InHand
  <2> QED
    BY <1>2, <2>1, <2>2
<1>4. /\ (Hand' = Hand /\ InHand' /\ InHand) \/ (Hand' = {} /\ ~InHand')
      /\ Underway' \subseteq Underway
  BY <1>3, <1>c DEF Underway
<1>5. Ends'
  BY <1>1, <1>2, <1>4 DEF FInv, Ends
<1>6. Rise => Rise'
  BY <1>1 DEF Rise
<1>7. Line => Line'
  BY <1>1, <1>3, <1>4 DEF Line, Before
<1>8. Complete /\ ~demuxStop => Complete'
  <2> SUFFICES ASSUME Complete, ~demuxStop PROVE Complete'
    OBVIOUS
  <2>1. dmx' = "check" => shutdown
    BY <1>2 DEF Told
  <2>2. InHand' => Hand' = Hand /\ InHand /\ Underway' = Underway
    BY <1>3, <1>4 DEF Underway
  <2> QED
    BY <1>1, <1>3, <2>1, <2>2 DEF Complete, Kept, AllKept
<1> QED
  BY <1>1, <1>5, <1>6, <1>7, <1>8 DEF FInv

\* The demultiplexer puts a packet, or the null packets once all are put.
LEMMA PutFlows == ASSUME Inv, QInv, FInv, DemuxPut PROVE FInv'
<1>0. /\ pos \in Nat /\ film \in Films /\ Pictures \subseteq Nat \ {0} /\ Len(film.packets) \in Nat
      /\ DOMAIN film.packets = 1..Len(film.packets) /\ pq["v"] \in Seq(Nat) /\ "v" \in Stream
      /\ pq \in [Stream -> Seq(Nat)]
  BY QueueTypes, PictureFacts DEF Pictures, QInv, Packets
<1>1. /\ dmx = "put" /\ InHand /\ ~Told /\ main # "offline"
      /\ UNCHANGED <<main, film, shown, eof, demuxStop, shutdown, packet, fq, codec, dec>>
      /\ dmx' \in {"check", "over"}
  BY DEF DemuxPut, InHand, layerVars, ctrlVars, decVars, Inv, Timing
<1>2. ~InHand' /\ Hand' = {} /\ UNCHANGED <<Pictures, Decoded, Coded>>
  BY <1>1 DEF InHand, Hand, Pictures, Decoded, Coded
<1>3. 0 \notin Entries(pq["v"])
  BY <1>1 DEF FInv, Ends
<1>4. CASE packet = EndOfFile /\ dmx' = "check"
  <2>1. film.loop /\ pos' = 0 /\ UNCHANGED pq
    BY <1>4 DEF DemuxPut
  <2>2. Ends'
    BY <1>1, <1>2, <1>3, <2>1 DEF FInv, Ends
  <2> QED
    BY <1>1, <2>1, <2>2 DEF FInv
<1>5. CASE packet = EndOfFile /\ dmx' # "check"
  <2>1. /\ pq' = [s \in Stream |-> IF s \in alive THEN Append(pq[s], 0) ELSE pq[s]]
        /\ dmx' = "over" /\ UNCHANGED pos
    BY <1>5 DEF DemuxPut
  <2>2. pq'["v"] = pq["v"] \/ pq'["v"] = Append(pq["v"], 0)
    BY <1>0, <2>1
  <2>3. Hand = {} /\ pos >= Len(film.packets)
    BY <1>1, <1>5 DEF Hand, EndOfFile, FInv, Ends
  <2>4. /\ Entries(pq'["v"]) \subseteq Entries(pq["v"]) \cup {0}
        /\ Entries(pq["v"]) \subseteq Entries(pq'["v"])
        /\ Rising(pq["v"]) => Rising(pq'["v"])
    <3>1. CASE pq'["v"] = pq["v"]
      BY <3>1
    <3>2. CASE pq'["v"] = Append(pq["v"], 0)
      <4>1. Entries(Append(pq["v"], 0)) = Entries(pq["v"]) \cup {0}
        BY <1>0, EntriesAppended
      <4>2. Rising(pq["v"]) => Rising(Append(pq["v"], 0))
        BY <1>0, <1>3, EntriesAppended
      <4> QED
        BY <3>2, <4>1, <4>2
    <3> QED
      BY <2>2, <3>1, <3>2
  <2>5. UNCHANGED <<Queued, Hand, Underway>>
    BY <1>2, <2>3, <2>4 DEF Queued, Numbers, Underway
  <2>6. Ends'
    BY <1>1, <1>2, <2>1 DEF FInv, Ends
  <2>7. Rise => Rise'
    BY <1>1, <2>4 DEF Rise
  <2>8. Line => Line'
    BY <1>1, <1>2, <2>1, <2>5 DEF Line, Before
  <2>9. Complete /\ ~demuxStop => Complete'
    <3> SUFFICES ASSUME Complete, ~demuxStop PROVE Complete'
      OBVIOUS
    <3>1. shutdown \/ Kept(pos, Underway)
      BY <1>1 DEF Complete
    <3>2. ~shutdown
      BY <1>1 DEF Told
    <3>3. \A i \in Pictures : i <= pos
      BY <1>0, <2>3 DEF Pictures
    <3>4. AllKept(Decoded \cup Coded \cup Queued)
      BY <2>3, <3>1, <3>2, <3>3 DEF Kept, AllKept, Underway
    <3> QED
      BY <1>1, <1>2, <2>1, <2>5, <3>4 DEF Complete, AllKept
  <2> QED
    BY <1>1, <2>6, <2>7, <2>8, <2>9 DEF FInv
<1>6. CASE packet # EndOfFile
  <2>1. /\ pq' = IF packet[1] = "x" THEN pq ELSE [pq EXCEPT ![packet[1]] = Append(@, packet[2])]
        /\ dmx' = "check" /\ UNCHANGED pos
    BY <1>6 DEF DemuxPut
  <2>2. packet[2] = pos
    BY <1>1, <1>6 DEF FInv, Ends
  <2>3. CASE packet[1] # "v"
    <3>1. pq'["v"] = pq["v"] /\ Hand = {}
      BY <1>0, <2>1, <2>3 DEF Hand
    <3>2. UNCHANGED <<Queued, Hand, Underway>>
      BY <1>2, <3>1 DEF Queued, Numbers, Entries, Underway
    <3>3. Ends'
      BY <1>1, <1>2, <1>3, <2>1, <3>1 DEF FInv, Ends
    <3>4. Rise => Rise'
      BY <1>1, <3>1 DEF Rise
    <3>5. Line => Line'
      BY <1>1, <1>2, <2>1, <3>2 DEF Line, Before
    <3>6. Complete => Complete'
      BY <1>1, <1>2, <1>3, <2>1, <3>1, <3>2 DEF Complete, Kept, AllKept
    <3> QED
      BY <1>1, <3>3, <3>4, <3>5, <3>6 DEF FInv
  <2>4. CASE packet[1] = "v"
    <3>1. pq'["v"] = Append(pq["v"], pos) /\ Hand = {pos}
      BY <1>0, <1>1, <2>1, <2>2, <2>4 DEF Hand
    <3>2. Entries(pq'["v"]) = Entries(pq["v"]) \cup {pos}
      BY <1>0, <3>1, EntriesAppended
    <3>0. Ends'
      BY <1>0, <1>1, <1>2, <1>3, <1>6, <2>1, <3>2 DEF FInv, Ends
    <3> SUFFICES ASSUME ~film.loop PROVE FInv'
      BY <1>1, <3>0 DEF FInv
    <3>3. Rise /\ Line
      BY DEF FInv
    <3>4. pos \in Pictures
      BY <3>1, <3>3 DEF Line, Underway
    <3>5. Queued' = Queued \cup {pos}
      BY <1>0, <3>2, <3>4 DEF Queued, Numbers
    <3>6. Underway' = Underway
      BY <1>2, <3>1, <3>5 DEF Underway
    <3>8. Rise'
      <4>1. Before(Numbers(pq["v"]), {pos})
        BY <3>1, <3>3 DEF Line, Queued
      <4> QED
        BY <1>0, <1>1, <1>3, <3>1, <3>3, <4>1, EntriesAppended DEF Rise
    <3>9. Line'
      BY <1>1, <1>2, <2>1, <3>1, <3>3, <3>5, <3>6 DEF Line, Before
    <3>10. Complete => Complete'
      BY <1>0, <1>1, <1>2, <1>3, <2>1, <3>2, <3>4, <3>5, <3>6 DEF Complete, Kept, AllKept
    <3> QED
      BY <1>1, <3>0, <3>3, <3>8, <3>9, <3>10 DEF FInv
  <2> QED
    BY <2>3, <2>4
<1> QED
  BY <1>4, <1>5, <1>6

\* A decoding thread moves on without moving a picture, or it is the sound's.
LEMMA OtherFlows ==
    ASSUME Inv, QInv, FInv, NEW s \in Stream,
           \/ s = "a" /\ Decoder(s)
           \/ DecoderStart(s) \/ DecoderLeave(s) \/ Abandon(s) \/ CountOut(s)
    PROVE  FInv'
<1>0. /\ fq \in [Stream -> Seq(Nat)] /\ codec \in [Stream -> Seq(Nat)] /\ pq \in [Stream -> Seq(Nat)]
      /\ dec \in [Stream -> Running \cup {"none", "queued", "done"}] /\ "v" \in Stream
  BY DEF QInv, Frames, Codecs, Packets, Stream
<1>1. UNCHANGED <<main, film, shown, eof, demuxStop, dmx, packet, pos, shutdown>>
  BY DEF Decoder, DecoderStart, DecoderLeave, Decode, Enqueue, EnqueueNull, Abandon, CountOut,
         layerVars, ctrlVars, demuxVars
<1>2. dec[s] \in Running \cup {"queued"}
  BY DEF Decoder, DecoderStart, DecoderLeave, Decode, Enqueue, EnqueueNull, Abandon, CountOut, Running, Working
<1>3. main \notin {"offline", "timing"}
  BY <1>2, ThreadsOnlyLoaded
<1>4. CASE s = "a" /\ Decoder(s)
  <2>1. dec'["v"] = dec["v"]
    BY <1>0, <1>4 DEF Decoder, DecoderStart, DecoderLeave, Decode, Enqueue, EnqueueNull, Abandon, CountOut, Leave
  <2>2. fq'["v"] = fq["v"] /\ codec'["v"] = codec["v"] /\ pq'["v"] = pq["v"]
    BY <1>0, <1>4 DEF Decoder, DecoderStart, DecoderLeave, Decode, Enqueue, EnqueueNull, Abandon, CountOut
  <2> QED
    BY <1>1, <1>3, <2>1, <2>2, FlowStays
<1>5. CASE DecoderStart(s) \/ DecoderLeave(s) \/ Abandon(s) \/ CountOut(s)
  <2>1. UNCHANGED <<fq, codec, pq>>
    BY <1>5 DEF DecoderStart, DecoderLeave, Abandon, CountOut
  <2>2. \E state \in {"wait", "leaving", "done"} : dec' = [dec EXCEPT ![s] = state]
    BY <1>5 DEF DecoderStart, DecoderLeave, Abandon, CountOut, Leave
  <2>3. dec'["v"] = dec["v"] \/ (s = "v" /\ dec'["v"] \in {"wait", "leaving", "done"}
                                      /\ (dec'["v"] = "wait" => dec["v"] = "queued"))
    BY <1>0, <1>5, <2>2 DEF DecoderStart, DecoderLeave, Abandon, CountOut, Leave
  <2> QED
    BY <1>1, <1>3, <2>1, <2>3, FlowStays DEF Working
<1> QED
  BY <1>4, <1>5

\* What the codec gives out next, while it has frames and when it has none.
LEMMA EmitsNext ==
    ASSUME NEW state \in {"emit", "flush"}, NEW frames \in Seq(Nat)
    PROVE  /\ Emits(state, frames) = "flush" => state = "flush"
           /\ Emits(state, frames) = "null" => state = "flush" /\ frames = <<>>
BY DEF Emits

\* The first entry of a queue, and the others.
LEMMA FirstAndRest ==
    ASSUME NEW q \in Seq(Nat), q # <<>>
    PROVE  Entries(q) = {Head(q)} \cup Entries(Tail(q))
<1>1. Len(q) \in Nat \ {0} /\ DOMAIN q = 1..Len(q) /\ Head(q) = q[1]
  OBVIOUS
<1>2. PICK r : r = Tail(q)
  OBVIOUS
<1>3. DOMAIN r = 1..(Len(q) - 1) /\ \A i \in 1..(Len(q) - 1) : r[i] = q[i + 1]
  BY <1>2
<1>4. \A i \in DOMAIN r : i + 1 \in DOMAIN q /\ r[i] = q[i + 1]
  BY <1>1, <1>3
<1>5. ASSUME NEW i \in DOMAIN q, i # 1 PROVE i - 1 \in DOMAIN r /\ q[i] = r[i - 1]
  <2>1. i - 1 \in 1..(Len(q) - 1) /\ (i - 1) + 1 = i
    BY <1>1, <1>5
  <2> QED
    BY <1>3, <2>1
<1>6. 1 \in DOMAIN q
  BY <1>1
<1>7. Entries(q) = {q[1]} \cup Entries(r)
  BY <1>4, <1>5, <1>6 DEF Entries
<1> QED
  BY <1>1, <1>2, <1>7

\* A packet goes into the codec; the null packet is the last one.
LEMMA DecodeFlows == ASSUME Inv, QInv, FInv, Decode("v") PROVE FInv'
<1>0. /\ codec \in [Stream -> Seq(Nat)] /\ pq \in [Stream -> Seq(Nat)] /\ "v" \in Stream
      /\ dec \in [Stream -> Running \cup {"none", "queued", "done"}]
      /\ codec["v"] \in Seq(Nat) /\ pq["v"] \in Seq(Nat)
  BY QueueTypes DEF QInv, Codecs, Packets
<1>1. PICK p, frames, state : /\ p = Head(pq["v"]) /\ frames = Fed(codec["v"], p)
                              /\ state = Emits(IF p = 0 THEN "flush" ELSE "emit", frames)
  OBVIOUS
<1>2. /\ dec["v"] = "wait" /\ pq["v"] # <<>>
      /\ codec' = [codec EXCEPT !["v"] = frames] /\ dec' = [dec EXCEPT !["v"] = state]
      /\ pq' = [pq EXCEPT !["v"] = Tail(pq["v"])]
      /\ UNCHANGED <<main, film, shown, eof, demuxStop, dmx, packet, pos, shutdown, fq>>
  BY <1>1 DEF Decode, layerVars, ctrlVars, demuxVars
<1>3. codec'["v"] = frames /\ dec'["v"] = state /\ pq'["v"] = Tail(pq["v"])
  BY <1>0, <1>2
<1>4. main \notin {"offline", "timing"} /\ 0 \notin Entries(fq["v"])
  BY <1>0, <1>2, ThreadsOnlyLoaded DEF FInv, Ends, Running, Working
<1>5. UNCHANGED <<Pictures, InHand, Hand, Decoded>>
  BY <1>2 DEF Pictures, InHand, Hand, Decoded
<1>6. p \in Nat /\ frames \in Seq(Nat) /\ Tail(pq["v"]) \in Seq(Nat)
  BY <1>0, <1>1, <1>2 DEF Fed
<1>7. \A x \in Entries(Tail(pq["v"])) : x \in Entries(pq["v"])
  <2>1. \A i \in DOMAIN Tail(pq["v"]) :
           i + 1 \in DOMAIN pq["v"] /\ Tail(pq["v"])[i] = pq["v"][i + 1]
    BY <1>0, <1>2
  <2> QED
    BY <2>1 DEF Entries
<1>a. 0 \notin Entries(codec'["v"])
  <2>1. 0 \notin Entries(codec["v"])
    BY DEF FInv, Ends
  <2>2. CASE p = 0
    BY <1>1, <1>3, <2>1, <2>2 DEF Fed
  <2>3. CASE p # 0
    <3>1. Entries(Append(codec["v"], p)) = Entries(codec["v"]) \cup {p}
      BY <1>0, <1>6, EntriesAppended
    <3> QED
      BY <1>1, <1>3, <2>1, <2>3, <3>1 DEF Fed
  <2> QED
    BY <2>2, <2>3
<1>8. Ends'
  BY <1>2, <1>3, <1>4, <1>5, <1>7, <1>a DEF FInv, Ends
<1>9. ASSUME Rise, Line PROVE Rise' /\ Line' /\ (Complete => Complete')
  <2>1. /\ Rising(Tail(pq["v"])) /\ Entries(pq["v"]) = {p} \cup Entries(Tail(pq["v"]))
        /\ p = 0 => Tail(pq["v"]) = <<>>
        /\ p # 0 => Before({p}, Numbers(Tail(pq["v"])))
    BY <1>0, <1>1, <1>2, <1>9, FirstTaken DEF Rise
  <2>2. Queued' = Numbers(Tail(pq["v"])) /\ Entries(pq'["v"]) = Entries(Tail(pq["v"]))
    BY <1>3 DEF Queued, Numbers, Entries
  <2>3. CASE p = 0
    <3>1. frames = codec["v"] /\ Tail(pq["v"]) = <<>>
      BY <1>1, <2>1, <2>3 DEF Fed
    <3>2. Entries(pq'["v"]) = {} /\ Queued' = {} /\ Queued = {}
      BY <2>1, <2>2, <2>3, <3>1, NothingThere DEF Queued, Numbers
    <3>3. Coded' = Coded /\ Underway' = Underway
      BY <1>3, <1>5, <3>1, <3>2 DEF Coded, Numbers, Entries, Underway
    <3>4. Rise'
      BY <1>2, <1>3, <1>9, <2>1, <3>1 DEF Rise
    <3>5. Line'
      BY <1>2, <1>5, <1>9, <3>2, <3>3 DEF Line, Before
    <3>6. Complete => Complete'
      <4> SUFFICES ASSUME Complete PROVE Complete'
        OBVIOUS
      <4>1. AllKept(Decoded \cup Coded)
        BY <2>1, <2>3, <3>2 DEF Complete, AllKept
      <4>2. state = Emits("flush", frames)
        BY <1>1, <2>3
      <4>3. state \in Running /\ (state = "null" => frames = <<>>)
        BY <1>6, <4>2, EmitsType, EmitsNext
      <4>4. state = "null" => Coded = {}
        BY <3>1, <4>3, NothingThere DEF Coded
      <4> QED
        BY <1>2, <1>3, <1>4, <1>5, <3>2, <3>3, <4>1, <4>4 DEF Complete, Kept, AllKept
    <3> QED
      BY <3>4, <3>5, <3>6
  <2>4. CASE p # 0
    <3>1. frames = Append(codec["v"], p) /\ p \in Queued
      BY <1>1, <2>1, <2>4 DEF Fed, Queued, Numbers
    <3>2. Before(Numbers(codec["v"]), {p}) /\ 0 \notin Entries(codec["v"])
      BY <1>9, <3>1 DEF Line, Before, Coded, FInv, Ends
    <3>3. Entries(Append(codec["v"], p)) = Entries(codec["v"]) \cup {p}
      BY <1>0, <1>6, EntriesAppended
    <3>4. Rising(Append(codec["v"], p))
      BY <1>0, <1>6, <1>9, <3>2, EntriesAppended DEF Rise
    <3>5. Entries(codec'["v"]) = Entries(codec["v"]) \cup {p} /\ Rising(codec'["v"])
      BY <1>3, <3>1, <3>3, <3>4
    <3>6. Coded' = Coded \cup {p} /\ 0 \notin Entries(codec'["v"])
      BY <2>4, <3>2, <3>5 DEF Coded, Numbers
    <3>7. Queued = Queued' \cup {p}
      BY <2>1, <2>2, <2>4 DEF Queued, Numbers
    <3>8. Underway' = Underway
      BY <1>5, <3>6, <3>7 DEF Underway
    <3>9. Before({p}, Queued')
      BY <2>1, <2>2, <2>4
    <3>10. Rise'
      BY <1>2, <1>3, <1>9, <2>1, <3>5, <3>6 DEF Rise
    <3>11. Line'
      BY <1>2, <1>5, <1>9, <3>6, <3>7, <3>8, <3>9 DEF Line, Before
    <3>12. Complete => Complete'
      <4>1. state \notin {"flush", "null"}
        BY <1>1, <1>6, <2>4, EmitsNext
      <4>2. Decoded' \cup Coded' \cup Queued' = Decoded \cup Coded \cup Queued
        BY <1>5, <3>6, <3>7
      <4>3. Entries(pq'["v"]) \subseteq Entries(pq["v"])
        BY <2>1, <2>2
      <4> QED
        BY <1>2, <1>3, <1>4, <1>5, <3>8, <4>1, <4>2, <4>3 DEF Complete, Kept, AllKept
    <3> QED
      BY <3>10, <3>11, <3>12
  <2> QED
    BY <2>3, <2>4
<1> QED
  BY <1>2, <1>8, <1>9 DEF FInv

\* A picture comes out of the codec.
LEMMA EnqueueFlows == ASSUME Inv, QInv, FInv, Enqueue("v") PROVE FInv'
<1>0. /\ codec \in [Stream -> Seq(Nat)] /\ fq \in [Stream -> Seq(Nat)] /\ "v" \in Stream
      /\ dec \in [Stream -> Running \cup {"none", "queued", "done"}]
      /\ codec["v"] \in Seq(Nat) /\ fq["v"] \in Seq(Nat)
  BY QueueTypes DEF QInv, Codecs, Frames
<1>1. PICK x, frames, state : /\ x = Head(codec["v"]) /\ frames = Tail(codec["v"])
                              /\ state = Emits(dec["v"], frames)
  OBVIOUS
<1>2. /\ dec["v"] \in {"emit", "flush"} /\ codec["v"] # <<>>
      /\ codec' = [codec EXCEPT !["v"] = frames] /\ dec' = [dec EXCEPT !["v"] = state]
      /\ fq' = [fq EXCEPT !["v"] = Append(fq["v"], x)]
      /\ UNCHANGED <<main, film, shown, eof, demuxStop, dmx, packet, pos, shutdown, pq>>
  BY <1>0, <1>1 DEF Enqueue, layerVars, ctrlVars, demuxVars, QInv, Codecs
<1>3. codec'["v"] = frames /\ dec'["v"] = state /\ fq'["v"] = Append(fq["v"], x)
  BY <1>0, <1>2
<1>4. main \notin {"offline", "timing"} /\ 0 \notin Entries(fq["v"])
  BY <1>0, <1>2, ThreadsOnlyLoaded DEF FInv, Ends, Running, Working
<1>5. UNCHANGED <<Pictures, InHand, Hand, Queued>>
  BY <1>2 DEF Pictures, InHand, Hand, Queued
<1>6. x \in Nat /\ frames \in Seq(Nat)
  BY <1>0, <1>1, <1>2
<1>7. Entries(fq'["v"]) = Entries(fq["v"]) \cup {x}
  BY <1>0, <1>3, <1>6, EntriesAppended
<1>8. /\ Rising(codec["v"]) => Rising(frames) /\ Before({x}, Numbers(frames))
      /\ x # 0 /\ Entries(frames) \subseteq Entries(codec["v"])
      /\ Coded = {x} \cup Numbers(frames)
  <2>1. x \in Entries(codec["v"]) /\ Entries(codec["v"]) = {x} \cup Entries(frames)
    BY <1>0, <1>1, <1>2, FirstAndRest
  <2>2. x # 0
    BY <2>1 DEF FInv, Ends
  <2>3. Rising(codec["v"]) => Rising(frames) /\ Before({x}, Numbers(frames))
    BY <1>0, <1>1, <1>2, <2>2, FirstTaken
  <2> QED
    BY <2>1, <2>2, <2>3 DEF Coded, Numbers
<1>9. /\ 0 \notin Entries(fq'["v"]) /\ 0 \notin Entries(codec'["v"])
      /\ Coded' = Numbers(frames) /\ Decoded' = Decoded \cup {x}
  <2>1. 0 \notin Entries(codec["v"])
    BY DEF FInv, Ends
  <2> QED
    BY <1>3, <1>4, <1>7, <1>8, <2>1 DEF Coded, Decoded, Numbers, Entries
<1>10. Ends'
  BY <1>2, <1>4, <1>5, <1>9 DEF FInv, Ends
<1>11. ASSUME Rise, Line PROVE Rise' /\ Line' /\ (Complete => Complete')
  <2>1. Before(Numbers(fq["v"]), {x}) /\ Rising(fq["v"]) /\ Rising(frames)
    BY <1>8, <1>11 DEF Rise, Line, Before, Decoded
  <2>2. Rising(Append(fq["v"], x))
    BY <1>0, <1>4, <1>6, <2>1, EntriesAppended
  <2>3. Rise'
    BY <1>2, <1>3, <1>11, <2>1, <2>2 DEF Rise
  <2>4. Underway' = Underway /\ Decoded' \cup Coded' = Decoded \cup Coded
    BY <1>5, <1>8, <1>9 DEF Underway
  <2>5. Before({x}, Coded')
    BY <1>8, <1>9, <1>11 DEF Rise
  <2>6. Line'
    BY <1>2, <1>5, <1>8, <1>9, <1>11, <2>4, <2>5 DEF Line, Before
  <2>7. Complete => Complete'
    <3> SUFFICES ASSUME Complete PROVE Complete'
      OBVIOUS
    <3>1. /\ state = "flush" => dec["v"] = "flush"
          /\ state = "null" => dec["v"] = "flush" /\ frames = <<>>
      BY <1>1, <1>2, <1>6, EmitsNext
    <3>2. state = "null" => Coded' = {}
      BY <1>9, <3>1, NothingThere
    <3>3. dec["v"] = "flush" => AllKept(Decoded \cup Coded)
      BY DEF Complete
    <3>4. Decoded' \cup Coded' \cup Queued' = Decoded \cup Coded \cup Queued
      BY <1>5, <2>4
    <3> QED
      BY <1>2, <1>3, <1>5, <1>9, <2>4, <3>1, <3>2, <3>3, <3>4 DEF Complete, Kept, AllKept
  <2> QED
    BY <2>3, <2>6, <2>7
<1> QED
  BY <1>2, <1>10, <1>11 DEF FInv

\* The null frame comes out once the codec is empty.
LEMMA NullFlows == ASSUME Inv, QInv, FInv, EnqueueNull("v") PROVE FInv'
<1>0. /\ fq \in [Stream -> Seq(Nat)] /\ "v" \in Stream /\ fq["v"] \in Seq(Nat)
      /\ dec \in [Stream -> Running \cup {"none", "queued", "done"}]
  BY QueueTypes DEF QInv, Codecs, Frames
<1>1. /\ dec["v"] = "null" /\ dec' = [dec EXCEPT !["v"] = "leaving"]
      /\ fq' = [fq EXCEPT !["v"] = Append(fq["v"], 0)]
      /\ UNCHANGED <<main, film, shown, eof, demuxStop, dmx, packet, pos, shutdown, pq, codec>>
  BY <1>0 DEF EnqueueNull, Leave, layerVars, ctrlVars, demuxVars
<1>2. fq'["v"] = Append(fq["v"], 0) /\ dec'["v"] = "leaving"
  BY <1>0, <1>1
<1>3. main \notin {"offline", "timing"} /\ 0 \notin Entries(fq["v"])
  BY <1>0, <1>1, ThreadsOnlyLoaded DEF FInv, Ends, Running, Working
<1>4. /\ Entries(fq'["v"]) = Entries(fq["v"]) \cup {0}
      /\ Rising(fq["v"]) => Rising(fq'["v"])
  <2>1. Entries(Append(fq["v"], 0)) = Entries(fq["v"]) \cup {0}
    BY <1>0, EntriesAppended
  <2>2. Rising(fq["v"]) => Rising(Append(fq["v"], 0))
    BY <1>0, <1>3, EntriesAppended
  <2> QED
    BY <1>2, <2>1, <2>2
<1>5. UNCHANGED <<Pictures, InHand, Hand, Queued, Coded, Decoded, Underway>>
  BY <1>1, <1>4 DEF Pictures, InHand, Hand, Queued, Coded, Decoded, Underway, Numbers
<1>6. Ends'
  BY <1>1, <1>2, <1>3, <1>5 DEF FInv, Ends, Running, Working
<1>7. Rise => Rise'
  BY <1>1, <1>4 DEF Rise
<1>8. Line => Line'
  BY <1>1, <1>5 DEF Line, Before
<1>9. Complete => Complete'
  BY <1>1, <1>2, <1>5 DEF Complete, Kept, AllKept
<1> QED
  BY <1>1, <1>6, <1>7, <1>8, <1>9 DEF FInv

LEMMA FlowInit == Init => FInv
<1> SUFFICES ASSUME Init PROVE FInv
  OBVIOUS
<1>1. /\ main = "offline" /\ dmx = "none" /\ pos = 0 /\ ~demuxStop /\ ~eof /\ shown = 0
      /\ pq["v"] = <<>> /\ codec["v"] = <<>> /\ fq["v"] = <<>> /\ dec["v"] = "none"
  BY DEF Init, Stream
<1>2. Underway = {} /\ Decoded = {} /\ Coded = {} /\ Queued = {} /\ Hand = {} /\ ~InHand
  BY <1>1, NothingThere DEF Decoded, Coded, Queued, Hand, InHand, Underway
<1> QED
  BY <1>1, <1>2, NothingThere DEF FInv, Ends, Rise, Line, Before, Complete

LEMMA FlowNext == Inv /\ QInv /\ FInv /\ [Next]_vars => FInv'
<1> SUFFICES ASSUME Inv, QInv, FInv, [Next]_vars PROVE FInv'
  OBVIOUS
<1>1. ASSUME NEW f \in Films, Load(f) PROVE FInv'
  BY <1>1, LoadFlows
<1>2. CASE Present
  BY <1>2, PresentFlows
<1>3. CASE Updates
  BY <1>3, UpdateFlows DEF Updates
<1>4. CASE \/ StartPlayback \/ FillBuffers \/ (\E caller \in Callers : Call(caller))
           \/ RequestStop \/ EndThreads \/ ThreadsEnded
  BY <1>4, LayerFlows
<1>5. CASE Finish
  BY <1>5, FinishFlows
<1>6. CASE Demux
  BY <1>6, ReadFlows, HandFlows, PutFlows DEF Demux
<1>7. ASSUME NEW s \in Stream, Decoder(s) PROVE FInv'
  <2>1. CASE s = "a"
    BY <1>7, <2>1, OtherFlows
  <2>2. CASE s = "v"
    <3>1. \/ DecoderStart("v") \/ DecoderLeave("v") \/ Abandon("v") \/ CountOut("v")
          \/ Decode("v") \/ Enqueue("v") \/ EnqueueNull("v")
      BY <1>7, <2>2 DEF Decoder
    <3>2. CASE DecoderStart("v") \/ DecoderLeave("v") \/ Abandon("v") \/ CountOut("v")
      BY <2>2, <3>2, OtherFlows
    <3> QED
      BY <3>1, <3>2, DecodeFlows, EnqueueFlows, NullFlows
  <2> QED
    BY <2>1, <2>2 DEF Stream
<1>8. CASE UNCHANGED vars
  <2>1. UNCHANGED <<main, film, shown, eof, demuxStop, dmx, packet, pos, shutdown, pq, codec, fq, dec>>
    BY <1>8 DEF vars, layerVars, ctrlVars, demuxVars, decVars
  <2> QED
    BY <2>1 DEF FInv, Ends, Rise, Line, Before, Complete, Kept, AllKept, Underway, Pictures, InHand,
                Hand, Queued, Coded, Decoded, Numbers, Entries, Rising
<1>9. ASSUME NEW f \in Films, LoadFails(f) PROVE FInv'
  BY <1>9, LoadFailsFlows
<1> QED
  BY <1>1, <1>2, <1>3, <1>4, <1>5, <1>6, <1>7, <1>8, <1>9 DEF Next

LEMMA FInvCorrect == Spec => []FInv
BY QInvCorrect, InvInit, StepKeeps, QInvInit, QInvNext, FlowInit, FlowNext, PTL DEF Spec

\* A film that ran to its end has its last picture on screen, wherever the
\* queues were full, frames late and the codec behind.
THEOREM LastFrameShownCorrect == Spec => []LastFrameShown
<1>1. QInv /\ FInv => LastFrameShown
  <2> SUFFICES ASSUME QInv, FInv, eof, main # "offline", ~demuxStop, ~film.loop
               PROVE  shown = LET numbers == {i \in DOMAIN film.packets : film.packets[i] = "v"}
                              IN  IF numbers = {} THEN 0
                                  ELSE CHOOSE i \in numbers : \A j \in numbers : j <= i
    BY DEF LastFrameShown
  <2>1. shown \in {0} \cup Pictures /\ \A i \in Pictures : i <= shown
    BY DEF FInv, Line, Complete, AllKept
  <2>2. Pictures \subseteq Nat \ {0}
    BY QueueTypes, PictureFacts DEF Pictures
  <2>3. CASE Pictures = {}
    BY <2>1, <2>3 DEF Pictures
  <2>4. CASE Pictures # {}
    <3>1. shown \in Pictures
      <4>1. PICK i \in Pictures : i \in Nat \ {0}
        BY <2>2, <2>4
      <4>2. shown # 0
        BY <2>1, <4>1
      <4> QED
        BY <2>1, <4>2
    <3>2. \A k \in Pictures : (\A j \in Pictures : j <= k) => k = shown
      BY <2>1, <2>2, <3>1
    <3>3. shown = CHOOSE i \in Pictures : \A j \in Pictures : j <= i
      BY <2>1, <3>1, <3>2
    <3> QED
      BY <2>4, <3>3 DEF Pictures
  <2> QED
    BY <2>3, <2>4
<1> QED
  BY <1>1, QInvCorrect, FInvCorrect, PTL

\* No picture of a film that does not loop is followed by an earlier one.
THEOREM FramesInOrderCorrect == Spec => FramesInOrder
<1>1. QInv /\ FInv /\ [Next]_vars =>
          [main = "playing" /\ ~film.loop /\ film' = film => shown <= shown']_vars
  <2> SUFFICES ASSUME QInv, FInv, [Next]_vars, main = "playing", ~film.loop
               PROVE  shown <= shown'
    OBVIOUS
  <2>1. shown \in Nat
    BY QueueTypes
  <2>2. CASE Updates
    BY <2>2, UpdateFlows DEF Updates
  <2>3. CASE ~Updates
    <3>1. shown' = shown
      BY <2>3 DEF Next, vars, Load, LoadFails, Present, StartPlayback, FillBuffers, Call, RequestStop, Finish,
                  FinishSignal, FinishLater, FinishDecoders, FinishAll, EndThreads, ThreadsEnded,
                  Demux, DemuxEnd, DemuxRead, DemuxTimecodes, DemuxSpace, DemuxGiveUp, DemuxPut,
                  Decoder, DecoderStart, DecoderLeave, Decode, Enqueue, EnqueueNull, Abandon,
                  CountOut, layerVars
    <3> QED
      BY <2>1, <3>1
  <2> QED
    BY <2>2, <2>3
<1> QED
  BY <1>1, QInvCorrect, FInvCorrect, PTL DEF Spec, FramesInOrder
=============================================================================
