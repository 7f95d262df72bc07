------------------------- MODULE ReadPositionProofs -------------------------
(***************************************************************************)
(* Proofs about ReadPosition, for every preroll, read offset, history and  *)
(* source.                                                                 *)
(***************************************************************************)
EXTENDS ReadPosition, TLAPS

\* What TypeOK and the properties rest on: pictures count frames, and no sound
\* goes to the card before the preroll's frames.
Counted ==
  /\ slots > 0 => picture
  /\ shownIn > 0 => shown \in Nat
  /\ phase = "preroll" => slots <= Preroll
  /\ phase = "playing" => slots > 0
  /\ phase = "preroll" /\ slots < Preroll => blocks = 0

Positions == TypeOK /\ Counted /\ ReadsOn

\* What a read returns has the type of a read ...
ReadType == [skip : Int, grain : Nat \cup {None}, stalled : BOOLEAN, behind : BOOLEAN]

\* ... goes on at or after g, shows g or a later grain that it then leaves
\* behind, and skips to the source at most.
GoodRead(g, r) ==
  /\ r \in ReadType
  /\ r.skip >= -1
  /\ r.grain # None => g <= r.grain /\ r.grain <= g + r.skip
  /\ phase = "playing" /\ r.skip > 0 => g + r.skip <= head - offset

-----------------------------------------------------------------------------
(* The read offset and the reads *)

\* capReadOffset keeps the offset between zero and what was asked for, and
\* leaves preroll and offset inside the history when that has room for them.
LEMMA OffsetBounds ==
  /\ CappedOffset \in 0..Requested
  /\ Grains >= Preroll + 3 => Preroll + CappedOffset <= Grains - 3
BY PositionAssumption DEF CappedOffset, AtLeastZero, Least

\* resumeAt goes to the newest grain that the offset allows, or stays.
LEMMA ResumeIsGood ==
  ASSUME TypeOK, NEW g \in Nat, NEW st \in BOOLEAN
  PROVE  GoodRead(g, ResumeAt(g, st))
<1>1. offset \in Nat /\ head \in Nat /\ behind \in BOOLEAN
  BY PositionAssumption DEF TypeOK
<1>2. CASE head - offset > g /\ Readable(head - offset)
  <2>1. ResumeAt(g, st) = Read(head - offset - g, head - offset, st, behind)
    BY <1>2 DEF ResumeAt
  <2>2. head - offset \in Nat /\ head - offset - g \in Nat
    BY <1>1, <1>2
  <2>. QED  BY <2>1, <2>2, <1>1, <1>2, PositionAssumption DEF GoodRead, ReadType, Read
<1>3. CASE ~(head - offset > g /\ Readable(head - offset))
  <2>1. ResumeAt(g, st) = Read(0, None, st, behind)
    BY <1>3 DEF ResumeAt
  <2>. QED  BY <2>1, <1>1, PositionAssumption DEF GoodRead, ReadType, Read
<1>. QED  BY <1>2, <1>3

\* catchUp skips to the grain before the newest one that the offset allows,
\* or not at all.
LEMMA CatchUpIsGood ==
  ASSUME TypeOK, NEW g \in Nat, NEW now \in BOOLEAN, NEW st \in BOOLEAN,
         NEW grain \in {g, None}, NEW r \in CatchUp(g, now, grain, st)
  PROVE  GoodRead(g, r)
<1>1. offset \in Nat /\ head \in Nat /\ behind \in BOOLEAN /\ CatchUpGrains \in Nat
  BY PositionAssumption DEF TypeOK
<1>2. CASE \E b \in BOOLEAN : r = Read(0, grain, st, b)
  BY <1>1, <1>2, PositionAssumption DEF GoodRead, ReadType, Read
<1>3. CASE /\ ~(head <= g + offset + CatchUpGrains)
           /\ r = Read(head - g - offset - 1, grain, st, FALSE)
  <2>1. head - g - offset - 1 \in Nat
    BY <1>1, <1>3
  <2>2. r \in ReadType /\ r.skip = head - g - offset - 1 /\ r.grain = grain
    BY <2>1, <1>3, PositionAssumption DEF ReadType, Read
  <2>. QED  BY <2>1, <2>2, <1>1, PositionAssumption DEF GoodRead
<1>4. \/ r = Read(0, grain, st, behind) \/ r = Read(0, grain, st, FALSE)
      \/ r = Read(0, grain, st, TRUE)
      \/ /\ ~(head <= g + offset + CatchUpGrains)
         /\ r = Read(head - g - offset - 1, grain, st, FALSE)
  BY Zenon DEF CatchUp
<1>. QED  BY <1>1, <1>2, <1>3, <1>4, Zenon

\* Every read that scheduleGrain can make is a good one.
LEMMA ReadsAreGood ==
  ASSUME TypeOK, NEW g \in Nat, NEW r \in Reads(g)
  PROVE  GoodRead(g, r)
<1>1. offset \in Nat /\ head \in Nat /\ behind \in BOOLEAN /\ stalled \in BOOLEAN
  BY PositionAssumption DEF TypeOK
<1>2. GoodRead(g, ResumeAt(g, FALSE))
  BY ResumeIsGood
<1>3. ASSUME NEW st \in BOOLEAN, NEW b \in BOOLEAN
      PROVE  GoodRead(g, Read(0, None, st, b)) /\ GoodRead(g, Read(-1, None, st, b))
  BY <1>1, PositionAssumption DEF GoodRead, ReadType, Read
<1>4. CASE r \in LateReads(g)
  <2>1. r = ResumeAt(g, FALSE) \/ r \in CatchUp(g, TRUE, None, stalled)
    BY <1>4, Zenon DEF LateReads
  <2>. QED  BY <2>1, <1>1, <1>2, CatchUpIsGood
<1>5. CASE r \in EarlyReads(g)
  <2>1. \/ r = ResumeAt(g, FALSE)
        \/ r = Read(0, None, TRUE, behind) \/ r = Read(0, None, FALSE, behind)
        \/ r = Read(-1, None, FALSE, behind)
    BY <1>5, Zenon DEF EarlyReads
  <2>. QED  BY <2>1, <1>1, <1>2, <1>3
<1>6. CASE r \in InvalidReads(g)
  <2>1. r = ResumeAt(g, FALSE) \/ r \in CatchUp(g, FALSE, None, FALSE)
    BY <1>6, Zenon DEF InvalidReads
  <2>. QED  BY <2>1, <1>2, CatchUpIsGood
<1>7. CASE r \in CatchUp(g, FALSE, g, FALSE)
  BY <1>7, CatchUpIsGood
<1>8. CASE r = Read(0, None, stalled, behind)
  BY <1>1, <1>3, <1>8
<1>9. \/ r = Read(0, None, stalled, behind)
      \/ r \in LateReads(g) \/ r \in EarlyReads(g) \/ r \in InvalidReads(g)
      \/ r \in CatchUp(g, FALSE, g, FALSE)
  BY Zenon DEF Reads
<1>. QED  BY <1>4, <1>5, <1>6, <1>7, <1>8, <1>9

\* The position after a read is not before the grain that was read.
LEMMA PositionAfterRead ==
  ASSUME TypeOK, NEW g \in Nat, NEW r \in Reads(g)
  PROVE  /\ Moved(g, r) \in Nat /\ Moved(g, r) >= g
         /\ r.grain \in Nat \cup {None}
         /\ r.grain # None => g <= r.grain /\ r.grain < Moved(g, r)
         /\ r.stalled \in BOOLEAN /\ r.behind \in BOOLEAN
         /\ phase = "playing" /\ Moved(g, r) > g + 1 => Moved(g, r) <= head + 1 - offset
<1>1. GoodRead(g, r)
  BY ReadsAreGood
<1>2. offset \in Nat /\ head \in Nat
  BY PositionAssumption DEF TypeOK
<1>3. r.skip \in Int /\ r.grain \in Nat \cup {None} /\ r.stalled \in BOOLEAN /\ r.behind \in BOOLEAN
  BY <1>1 DEF GoodRead, ReadType
<1>. QED  BY <1>1, <1>2, <1>3, PositionAssumption DEF GoodRead, Moved

-----------------------------------------------------------------------------
(* The frames *)

\* A frame that goes to the card, or does not, keeps the types and the counts
\* and shows nothing older than the grain that was read.
LEMMA FrameKeepsTypes ==
  ASSUME TypeOK, Counted, NEW r \in Reads(next),
         Scheduled(next, r) \/ NotScheduled(next, r)
  PROVE  /\ slots' \in Nat /\ shown' \in Nat \cup {None} /\ shownIn' \in Nat
         /\ picture' \in BOOLEAN /\ stalled' \in BOOLEAN /\ behind' \in BOOLEAN
         /\ stallHead' \in Nat /\ lost' \in Nat
         /\ slots' > 0 => picture'
         /\ shownIn' > 0 => shown' \in Nat
         /\ shown' = shown \/ (shown' = r.grain /\ r.grain \in Nat)
         /\ shownIn' = shownIn \/ (shown' = r.grain /\ r.grain \in Nat)
<1>1. r.grain \in Nat \cup {None} /\ r.stalled \in BOOLEAN /\ r.behind \in BOOLEAN
  BY PositionAfterRead DEF TypeOK
<1>2. CASE Scheduled(next, r)
  BY <1>1, <1>2 DEF Scheduled, TypeOK, Counted
<1>3. CASE NotScheduled(next, r)
  BY <1>1, <1>3 DEF NotScheduled, TypeOK, Counted
<1>. QED  BY <1>2, <1>3

\* The initial state.
LEMMA InitPositions == Init => Positions
<1>. SUFFICES ASSUME Init PROVE Positions
  OBVIOUS
<1>1. content \in [0..MaxHead -> {"gap", "ok", "invalid"}]
  BY DEF Init
<1>2. TypeOK
  <2>1. head \in Nat /\ offset \in 0..Requested
    BY PositionAssumption DEF Init
  <2>2. picture \in BOOLEAN /\ stalled \in BOOLEAN /\ behind \in BOOLEAN
    BY Zenon DEF Init
  <2>. QED  BY <1>1, <2>1, <2>2 DEF Init, TypeOK
<1>3. Counted /\ ReadsOn
  BY PositionAssumption DEF Init, Counted, ReadsOn
<1>. QED  BY <1>2, <1>3 DEF Positions

\* Every step.
LEMMA StepPositions == Positions /\ [Next]_vars => Positions'
<1>. SUFFICES ASSUME Positions, [Next]_vars PROVE Positions'
  OBVIOUS
<1>. USE PositionAssumption
<1>1. TypeOK /\ Counted /\ ReadsOn
  BY DEF Positions
<1>2. ASSUME NEW g \in 1..MaxHead, NEW k \in Kinds, Write(g, k) PROVE Positions'
  <2>1. content' \in [0..MaxHead -> {"gap", "ok", "invalid"}]
    BY <1>1, <1>2 DEF Write, TypeOK
  <2>. QED  BY <1>1, <1>2, <2>1 DEF Write, Positions, TypeOK, Counted, ReadsOn
<1>3. ASSUME NEW now \in {head, head + 1}, BringUp(now) PROVE Positions'
  <2>1. offset' \in 0..Requested
    BY <1>3, OffsetBounds DEF BringUp
  <2>2. next' \in Nat /\ audio' \in Int
    BY <1>1, <1>3, OffsetBounds DEF BringUp, StartOf, AtLeastZero, TypeOK
  <2>3. TypeOK'
    BY <1>1, <1>3, <2>1, <2>2 DEF BringUp, flow, TypeOK
  <2>4. Counted' /\ ReadsOn'
    BY <1>3 DEF BringUp, Counted, ReadsOn
  <2>. QED  BY <2>3, <2>4 DEF Positions
<1>4. CASE PrerollShown
  <2>1. PICK r \in Reads(next) :
          /\ Scheduled(next, r)
          /\ next' = Moved(next, r)
          /\ audio' = IF slots = 0 THEN AudioStart(next') ELSE AudioMoved(next', next + 1)
    BY <1>4 DEF PrerollShown
  <2>2. next' \in Nat /\ next' >= next /\ (r.grain # None => r.grain < next')
    BY <1>1, <2>1, PositionAfterRead DEF TypeOK
  <2>3. audio' \in Int
    BY <1>1, <2>1, <2>2 DEF AudioStart, AudioMoved, TypeOK
  <2>4. TypeOK'
    BY <1>1, <1>4, <2>1, <2>2, <2>3, FrameKeepsTypes DEF PrerollShown, flow, TypeOK
  <2>5. Counted'
    <3>1. slots' = slots + 1
      BY <2>1 DEF Scheduled
    <3>. QED  BY <1>1, <1>4, <2>1, <3>1, FrameKeepsTypes DEF PrerollShown, Counted, TypeOK
  <2>6. ReadsOn'
    BY <1>1, <1>4, <2>1, <2>2, FrameKeepsTypes DEF PrerollShown, ReadsOn, TypeOK
  <2>. QED  BY <2>4, <2>5, <2>6 DEF Positions
<1>5. CASE PrerollMissed
  <2>1. PICK r \in Reads(next) :
          /\ NotScheduled(next, r)
          /\ audio' = AudioMoved(Moved(next, r), next + 1)
          /\ next' = IF next >= head THEN next ELSE Moved(next, r)
    BY <1>5 DEF PrerollMissed
  <2>2. Moved(next, r) \in Nat /\ next' \in Nat /\ next' >= next
    BY <1>1, <2>1, PositionAfterRead DEF TypeOK
  <2>3. audio' \in Int
    BY <1>1, <2>1, <2>2 DEF AudioMoved, TypeOK
  <2>4. TypeOK'
    BY <1>1, <1>5, <2>1, <2>2, <2>3, FrameKeepsTypes DEF PrerollMissed, flow, TypeOK
  <2>5. slots' = slots /\ shown' = shown
    BY <2>1 DEF NotScheduled
  <2>6. Counted'
    BY <1>1, <1>5, <2>1, <2>5, FrameKeepsTypes DEF PrerollMissed, Counted
  <2>7. ReadsOn'
    BY <1>1, <1>5, <2>2, <2>5 DEF PrerollMissed, ReadsOn, TypeOK
  <2>. QED  BY <2>4, <2>6, <2>7 DEF Positions
<1>6. CASE StartPlayback
  BY <1>1, <1>6 DEF StartPlayback, flow, audioSide, Positions, TypeOK, Counted, ReadsOn
<1>7. CASE TearDown
  BY <1>1, <1>7 DEF TearDown, flow, audioSide, Positions, TypeOK, Counted, ReadsOn
<1>8. CASE FrameCompleted
  <2>1. PICK r \in Reads(next) :
          /\ Scheduled(next, r) \/ NotScheduled(next, r)
          /\ next' = Moved(next, r)
          /\ audio' = AudioMoved(next', next + 1)
    BY <1>8 DEF FrameCompleted
  <2>2. next' \in Nat /\ next' >= next /\ (r.grain # None => r.grain < next')
    BY <1>1, <2>1, PositionAfterRead DEF TypeOK
  <2>3. audio' \in Int
    BY <1>1, <2>1, <2>2 DEF AudioMoved, TypeOK
  <2>4. TypeOK'
    BY <1>1, <1>8, <2>1, <2>2, <2>3, FrameKeepsTypes DEF FrameCompleted, flow, TypeOK
  <2>5. Counted'
    <3>1. slots' > 0
      BY <1>1, <1>8, <2>1 DEF FrameCompleted, Scheduled, NotScheduled, Counted, TypeOK
    <3>. QED  BY <1>1, <1>8, <2>1, <3>1, FrameKeepsTypes DEF FrameCompleted, Counted
  <2>6. ReadsOn'
    BY <1>1, <1>8, <2>1, <2>2, FrameKeepsTypes DEF FrameCompleted, ReadsOn, TypeOK
  <2>. QED  BY <2>4, <2>5, <2>6 DEF Positions
<1>9. CASE RenderAudio
  BY <1>1, <1>9 DEF RenderAudio, flow, Positions, TypeOK, Counted, ReadsOn
<1>10. CASE AudioReset
  BY <1>1, <1>10 DEF AudioReset, AtLeastZero, flow, Positions, TypeOK, Counted, ReadsOn
<1>11. CASE UNCHANGED vars
  BY <1>1, <1>11 DEF vars, flow, Positions, TypeOK, Counted, ReadsOn
<1>. QED  BY <1>2, <1>3, <1>4, <1>5, <1>6, <1>7, <1>8, <1>9, <1>10, <1>11 DEF Next

-----------------------------------------------------------------------------
(* The theorems *)

(***************************************************************************)
(* The positions keep their types: in particular the read position, which  *)
(* is an unsigned number in output_channel.cpp, never passes below zero.   *)
(***************************************************************************)
THEOREM PositionTypes == Spec => []TypeOK
<1>1. Positions => TypeOK
  BY DEF Positions
<1>. QED  BY <1>1, InitPositions, StepPositions, PTL DEF Spec

\* The invariant that the theorems below are proved from.
THEOREM PositionInvariant == Spec => []Positions
BY InitPositions, StepPositions, PTL DEF Spec

(***************************************************************************)
(* The pictures come in the order of the source: no step shows a grain     *)
(* that is not newer than the last one (scheduleGrain, resumeAt, catchUp). *)
(***************************************************************************)
THEOREM PicturesComeInOrder == Spec => PicturesInOrder
<1>1. ASSUME Positions, [Next]_vars
      PROVE  [shownIn' # shownIn /\ shownIn > 0 /\ phase # "down" => shown' > shown]_vars
  <2>. SUFFICES ASSUME shownIn' # shownIn, shownIn > 0, phase # "down" PROVE shown' > shown
    OBVIOUS
  <2>. USE PositionAssumption
  <2>1. TypeOK /\ Counted /\ ReadsOn
    BY <1>1 DEF Positions
  <2>2. PrerollShown \/ PrerollMissed \/ FrameCompleted
    BY <1>1 DEF Next, vars, Write, BringUp, StartPlayback, TearDown, RenderAudio, AudioReset
  <2>3. PICK r \in Reads(next) : Scheduled(next, r) \/ NotScheduled(next, r)
    BY <2>2 DEF PrerollShown, PrerollMissed, FrameCompleted
  <2>4. shown' = r.grain /\ r.grain \in Nat
    BY <2>1, <2>3, FrameKeepsTypes
  <2>5. r.grain >= next
    BY <2>1, <2>3, <2>4, PositionAfterRead DEF TypeOK
  <2>6. shown \in Nat /\ shown < next
    BY <2>1 DEF Counted, ReadsOn
  <2>. QED  BY <2>1, <2>4, <2>5, <2>6 DEF TypeOK
<1>. QED  BY <1>1, PositionInvariant, PTL DEF Spec, PicturesInOrder

(***************************************************************************)
(* A skip never passes the source (catchUp, resumeAt): the position is at  *)
(* most one grain after the newest one that the read offset allows.        *)
(***************************************************************************)
THEOREM SkipsEndAtSource == Spec => SkipsToSource
<1>1. ASSUME Positions, [Next]_vars
      PROVE  [phase = "playing" /\ next' > next + 1 => next' <= head + 1 - offset]_vars
  <2>. SUFFICES ASSUME phase = "playing", next' > next + 1 PROVE next' <= head + 1 - offset
    OBVIOUS
  <2>. USE PositionAssumption
  <2>1. TypeOK
    BY <1>1 DEF Positions
  <2>2. next' # next
    BY <2>1 DEF TypeOK
  <2>3. FrameCompleted
    BY <1>1, <2>2 DEF Next, vars, Write, BringUp, PrerollShown, PrerollMissed, StartPlayback,
                      TearDown, RenderAudio, AudioReset
  <2>4. PICK r \in Reads(next) : next' = Moved(next, r)
    BY <2>3 DEF FrameCompleted
  <2>. QED  BY <2>1, <2>4, PositionAfterRead DEF TypeOK
<1>. QED  BY <1>1, PositionInvariant, PTL DEF Spec, SkipsToSource

(***************************************************************************)
(* The preroll starts inside the history (bringUp, capReadOffset),         *)
(* whatever the preroll and the offset that was asked for.                 *)
(***************************************************************************)
THEOREM PrerollStartsInHistory == Spec => StartsInHistory
<1>1. ASSUME Positions, [Next]_vars
      PROVE  [phase = "down" /\ phase' = "preroll" /\ Grains >= Preroll + 3 /\ next' > 0 =>
                next' > head - (Grains - 2)]_vars
  <2>. SUFFICES ASSUME phase = "down", phase' = "preroll", Grains >= Preroll + 3, next' > 0
                PROVE  next' > head - (Grains - 2)
    OBVIOUS
  <2>1. PICK now \in {head, head + 1} : BringUp(now)
    BY <1>1 DEF Next, vars, Write, PrerollShown, PrerollMissed, StartPlayback, TearDown,
                FrameCompleted, RenderAudio, AudioReset
  <2>2. head \in Nat
    BY <1>1 DEF Positions, TypeOK
  <2>3. next' = StartOf(now) /\ CappedOffset \in Nat /\ Preroll + CappedOffset <= Grains - 3
    BY <2>1, OffsetBounds, PositionAssumption DEF BringUp
  <2>. QED  BY <2>1, <2>2, <2>3, PositionAssumption DEF StartOf, AtLeastZero
<1>. QED  BY <1>1, PositionInvariant, PTL DEF Spec, StartsInHistory

\* A frame that goes to the card takes picture and sound on together ...
LEMMA ScheduledKeepsSkew ==
  ASSUME TypeOK, NEW r \in Reads(next), Scheduled(next, r), next' = Moved(next, r),
         audio' = AudioMoved(next', next + 1), blocks' = blocks
  PROVE  Skew' = Skew
<1>1. next' \in Nat
  BY PositionAfterRead DEF TypeOK
<1>2. slots' = slots + 1
  BY DEF Scheduled
<1>. QED  BY <1>1, <1>2 DEF Skew, AudioMoved, TypeOK

\* ... and one that does not, once there is a picture, is counted as lost.
LEMMA NotScheduledIsLost ==
  ASSUME TypeOK, Counted, slots > 0, NEW r, NotScheduled(next, r)
  PROVE  lost' = lost + 1
BY DEF NotScheduled, Counted, TypeOK

(***************************************************************************)
(* Lip sync holds for every preroll, offset and source: from the first     *)
(* frame on, only a refused frame or a reset of the audio changes the      *)
(* distance of picture and sound (scheduleGrain, onRenderAudio).           *)
(***************************************************************************)
THEOREM LipSyncHolds == Spec => LipSync
<1>1. ASSUME Positions, [Next]_vars
      PROVE  [Skew' # Skew /\ slots > 0 /\ phase # "down" => lost' # lost \/ resets' # resets]_vars
  <2>. SUFFICES ASSUME slots > 0, phase # "down", lost' = lost, resets' = resets
                PROVE  Skew' = Skew
    OBVIOUS
  <2>. USE PositionAssumption
  <2>1. TypeOK /\ Counted
    BY <1>1 DEF Positions
  <2>2. lost' # lost + 1 /\ resets' # resets + 1
    BY <2>1 DEF TypeOK
  <2>3. CASE PrerollShown
    <3>1. PICK r \in Reads(next) :
            /\ Scheduled(next, r)
            /\ next' = Moved(next, r)
            /\ audio' = AudioMoved(next', next + 1)
      BY <2>1, <2>3 DEF PrerollShown, TypeOK
    <3>. QED  BY <2>1, <2>3, <3>1, ScheduledKeepsSkew DEF PrerollShown
  <2>4. CASE PrerollMissed
    BY <2>1, <2>2, <2>4, NotScheduledIsLost DEF PrerollMissed
  <2>5. CASE FrameCompleted
    <3>1. PICK r \in Reads(next) :
            /\ Scheduled(next, r) \/ NotScheduled(next, r)
            /\ next' = Moved(next, r)
            /\ audio' = AudioMoved(next', next + 1)
      BY <2>5 DEF FrameCompleted
    <3>2. Scheduled(next, r)
      BY <2>1, <2>2, <3>1, NotScheduledIsLost
    <3>. QED  BY <2>1, <2>5, <3>1, <3>2, ScheduledKeepsSkew DEF FrameCompleted
  <2>6. CASE RenderAudio
    BY <2>1, <2>6 DEF RenderAudio, Skew, TypeOK
  <2>7. CASE AudioReset
    BY <2>2, <2>7 DEF AudioReset
  <2>8. CASE UNCHANGED <<next, audio, slots, blocks>>
    BY <2>8 DEF Skew
  <2>. QED  BY <1>1, <2>3, <2>4, <2>5, <2>6, <2>7, <2>8
            DEF Next, vars, Write, BringUp, StartPlayback, TearDown, audioSide
<1>. QED  BY <1>1, PositionInvariant, PTL DEF Spec, LipSync

(***************************************************************************)
(* Picture and sound start together: the first block of samples is that of *)
(* the first grain shown (bringUp, beginAudioPreroll).                     *)
(***************************************************************************)
THEOREM StartsInSync == Spec => []SyncedFromStart
<1>1. Init => SyncedFromStart
  BY DEF Init, SyncedFromStart
<1>2. ASSUME Positions, SyncedFromStart, [Next]_vars PROVE SyncedFromStart'
  <2>. SUFFICES ASSUME phase' # "down", slots' > 0, lost' = 0, resets' = 0 PROVE Skew' = 0
    BY DEF SyncedFromStart
  <2>. USE PositionAssumption
  <2>1. TypeOK /\ Counted
    BY <1>2 DEF Positions
  <2>2. lost' # lost + 1 /\ resets' # resets + 1
    BY <2>1 DEF TypeOK
  <2>3. CASE PrerollShown /\ slots = 0
    <3>1. PICK r \in Reads(next) :
            Scheduled(next, r) /\ next' = Moved(next, r) /\ audio' = AudioStart(next')
      BY <2>3 DEF PrerollShown
    <3>2. next' \in Nat
      BY <2>1, <3>1, PositionAfterRead DEF TypeOK
    <3>3. slots' = 1 /\ blocks' = 0
      BY <2>1, <2>3, <3>1 DEF PrerollShown, Scheduled, Counted
    <3>. QED  BY <3>1, <3>2, <3>3 DEF Skew, AudioStart
  <2>4. CASE PrerollShown /\ slots # 0
    <3>1. PICK r \in Reads(next) :
            /\ Scheduled(next, r)
            /\ next' = Moved(next, r)
            /\ audio' = AudioMoved(next', next + 1)
      BY <2>4 DEF PrerollShown
    <3>2. Skew' = Skew
      BY <2>1, <2>4, <3>1, ScheduledKeepsSkew DEF PrerollShown
    <3>3. slots > 0 /\ lost = 0 /\ resets = 0 /\ phase # "down"
      BY <2>1, <2>4, <3>1 DEF PrerollShown, Scheduled, TypeOK
    <3>. QED  BY <1>2, <3>2, <3>3 DEF SyncedFromStart
  <2>5. CASE PrerollMissed
    <3>1. PICK r \in Reads(next) : NotScheduled(next, r)
      BY <2>5 DEF PrerollMissed
    <3>2. slots > 0
      BY <3>1 DEF NotScheduled
    <3>3. lost' = lost + 1
      BY <2>1, <3>1, <3>2, NotScheduledIsLost
    <3>. QED  BY <2>2, <3>3
  <2>6. CASE FrameCompleted
    <3>1. PICK r \in Reads(next) :
            /\ Scheduled(next, r) \/ NotScheduled(next, r)
            /\ next' = Moved(next, r)
            /\ audio' = AudioMoved(next', next + 1)
      BY <2>6 DEF FrameCompleted
    <3>2. CASE Scheduled(next, r)
      <4>1. Skew' = Skew
        BY <2>1, <2>6, <3>1, <3>2, ScheduledKeepsSkew DEF FrameCompleted
      <4>2. lost = 0 /\ resets = 0 /\ phase = "playing" /\ slots > 0
        BY <2>1, <2>6, <3>2 DEF FrameCompleted, Scheduled, Counted
      <4>. QED  BY <1>2, <4>1, <4>2 DEF SyncedFromStart
    <3>3. CASE NotScheduled(next, r)
      <4>1. slots > 0
        BY <3>3 DEF NotScheduled
      <4>. QED  BY <2>1, <2>2, <3>3, <4>1, NotScheduledIsLost
    <3>. QED  BY <3>1, <3>2, <3>3
  <2>7. CASE RenderAudio
    <3>1. Skew' = Skew
      BY <2>1, <2>7 DEF RenderAudio, Skew, TypeOK
    <3>. QED  BY <1>2, <2>7, <3>1 DEF RenderAudio, SyncedFromStart
  <2>8. CASE AudioReset
    BY <2>1, <2>8 DEF AudioReset, TypeOK
  <2>9. CASE \E now \in {head, head + 1} : BringUp(now)
    BY <2>9 DEF BringUp
  <2>10. CASE UNCHANGED <<next, audio, slots, blocks, lost, resets>> /\ phase # "down"
    BY <1>2, <2>10 DEF Skew, SyncedFromStart
  <2>. QED  BY <1>2, <2>3, <2>4, <2>5, <2>6, <2>7, <2>8, <2>9, <2>10
            DEF Next, vars, Write, StartPlayback, TearDown, audioSide
<1>. QED  BY <1>1, <1>2, PositionInvariant, PTL DEF Spec
=============================================================================
