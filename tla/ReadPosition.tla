---------------------------- MODULE ReadPosition ----------------------------
(***************************************************************************)
(* Which grain and which block of samples an output channel plays:         *)
(* _nextGrainIndex and _audioEndFrame of channel/output_channel.cpp, from  *)
(* the bring-up over the preroll to playback, with the slips behind a late *)
(* source and the skips to one that is ahead.  The history of the flow is  *)
(* MXL's ring: the newest Grains - 2 grains can be read.                   *)
(*                                                                         *)
(* OutputChannel has the control of this code with the data left out; here *)
(* it is the other way round: one reader, one callback at a time, and the  *)
(* indices.                                                                *)
(***************************************************************************)
EXTENDS Integers

CONSTANTS
  Preroll,       \* CHx_OUTPUT_PREROLL_GRAINS
  Requested,     \* CHx_READ_OFFSET_GRAINS
  Grains,        \* the flow's grainCount
  Blocks,        \* how many frames of samples the audio flow keeps
  CatchUpGrains, \* kCatchUpGrains
  FirstHead,     \* the newest grain when the model starts
  Kinds,         \* what a source writes: "ok", "invalid" grains
  MaxHead,       \* bound: the newest grain
  MaxFrames,     \* bound: frames and blocks given to the card
  MaxFaults,     \* bound: frames that the card refuses, resets of the audio
  None

ASSUME PositionAssumption ==
  /\ Preroll \in Nat \ {0} /\ Requested \in Nat /\ Grains \in Nat /\ Blocks \in Nat
  /\ CatchUpGrains \in Nat /\ FirstHead \in Nat \ {0} /\ MaxHead \in Nat
  /\ MaxFrames \in Nat /\ MaxFaults \in Nat
  /\ Kinds \subseteq {"ok", "invalid"}
  /\ None \notin Int

VARIABLES
  head, content, \* the flow: its newest grain, and what each one is
  phase,         \* "down", "preroll" or "playing"
  offset,        \* _readOffset
  next, audio,   \* _nextGrainIndex, _audioEndFrame
  slots, blocks, \* the frames and the blocks of samples that the card got
  picture,       \* _lastFrame is set
  stalled, stallHead,   \* _videoStalled, _videoStallHead
  behind,        \* _behindSinceNs is set
  shown,         \* history: the last grain that the card got ...
  shownIn,       \* ... and the frame that it got it in
  lost, resets   \* history: frames refused, audio positions reset

flow == <<head, content>>
audioSide == <<audio, blocks>>
vars == <<flow, phase, offset, next, audio, slots, blocks, picture, stalled, stallHead,
          behind, shown, shownIn, lost, resets>>

TypeOK ==
  /\ head \in Nat
  /\ content \in [0..MaxHead -> {"gap", "ok", "invalid"}]
  /\ phase \in {"down", "preroll", "playing"}
  /\ offset \in 0..Requested
  /\ next \in Nat /\ audio \in Int /\ slots \in Nat /\ blocks \in Nat
  /\ picture \in BOOLEAN /\ stalled \in BOOLEAN /\ behind \in BOOLEAN
  /\ stallHead \in Nat
  /\ shown \in Nat \cup {None} /\ shownIn \in Nat
  /\ lost \in Nat /\ resets \in Nat

-----------------------------------------------------------------------------
(* Reading the flow *)

AtLeastZero(n) == IF n < 0 THEN 0 ELSE n
Least(a, b) == IF a < b THEN a ELSE b

\* capReadOffset: preroll and offset stay inside what the flows keep.
CappedOffset ==
  AtLeastZero(Least(Requested, Least(Grains - 3 - Preroll, Blocks - 1 - Preroll)))

\* What a read without waiting returns.  A grain older than the newest one that
\* was never written is "early", too.
Status(g) ==
  IF g <= head - (Grains - 2) THEN "late"
  ELSE IF g <= head /\ content[g] # "gap" THEN "ok"
  ELSE "early"

Readable(g) == Status(g) = "ok" /\ content[g] = "ok"

\* A result of scheduleGrain's read: how far the position moves beyond the
\* next grain (-1: not even there), the grain to show, and the flags.
Read(skip, grain, st, bh) == [skip |-> skip, grain |-> grain, stalled |-> st, behind |-> bh]

\* Mutant: the position is left on the grain that is shown.
ResumeAtNewest(g, st) ==
  IF head - offset > g /\ Readable(head - offset)
  THEN Read(head - offset - g - 1, head - offset, st, behind)
  ELSE Read(0, None, st, behind)

\* resumeAt: straight to the newest grain that the offset allows, if it is there.
ResumeAt(g, st) ==
  IF head - offset > g /\ Readable(head - offset)
  THEN Read(head - offset - g, head - offset, st, behind)
  ELSE Read(0, None, st, behind)

\* Mutant: the read offset is not left.
CatchUpToHead(g, now, grain, st) ==
  IF phase # "playing" THEN {Read(0, grain, st, behind)}
  ELSE IF head <= g + offset + CatchUpGrains THEN {Read(0, grain, st, FALSE)}
  ELSE (IF now THEN {} ELSE {Read(0, grain, st, TRUE)}) \cup
       (IF now \/ behind THEN {Read(head - g + 1, grain, st, FALSE)} ELSE {})

\* catchUp: far behind for a sustained time, or out of the history, skip.
CatchUp(g, now, grain, st) ==
  IF phase # "playing" THEN {Read(0, grain, st, behind)}
  ELSE IF head <= g + offset + CatchUpGrains THEN {Read(0, grain, st, FALSE)}
  ELSE (IF now THEN {} ELSE {Read(0, grain, st, TRUE)}) \cup
       (IF now \/ behind THEN {Read(head - g - offset - 1, grain, st, FALSE)} ELSE {})

\* A gap that the source marked invalid after it jumped ahead is passed over.
InvalidReads(g) ==
  IF stalled \/ head > g + offset + 1 THEN {ResumeAt(g, FALSE)}
  ELSE CatchUp(g, FALSE, None, FALSE)

\* Not there: a stall that goes on or ends, a gap, a source that has stopped
\* or one that is late and read again.  Which of these two is a matter of time.
EarlyReads(g) ==
  IF stalled
  THEN IF head = stallHead THEN {Read(0, None, TRUE, behind)} ELSE {ResumeAt(g, FALSE)}
  ELSE IF g < head THEN {Read(0, None, FALSE, behind)}
  ELSE {Read(0, None, TRUE, behind), Read(-1, None, FALSE, behind)}

\* Out of the history: to the source, with its newest grain when it is there.
LateReads(g) ==
  IF ResumeAt(g, FALSE).grain # None THEN {ResumeAt(g, FALSE)}
  ELSE CatchUp(g, TRUE, None, stalled)

\* The read in scheduleGrain(g).  While a re-created flow is re-opened there is
\* nothing to read.
Reads(g) ==
  {Read(0, None, stalled, behind)} \cup
  IF Status(g) = "late" THEN LateReads(g)
  ELSE IF Status(g) = "early" THEN EarlyReads(g)
  ELSE IF content[g] = "invalid" THEN InvalidReads(g)
  ELSE CatchUp(g, FALSE, g, FALSE)

\* The read position after the read of g, which had moved it to g + 1.
Moved(g, r) == IF r.skip < 0 THEN g ELSE g + 1 + r.skip

-----------------------------------------------------------------------------
Init ==
  /\ head = FirstHead
  /\ content = [g \in 0..MaxHead |-> IF g = FirstHead THEN "ok" ELSE "gap"]
  /\ phase = "down" /\ offset = 0
  /\ next = 0 /\ audio = 0 /\ slots = 0 /\ blocks = 0
  /\ picture = FALSE /\ stalled = FALSE /\ stallHead = 0 /\ behind = FALSE
  /\ shown = None /\ shownIn = 0 /\ lost = 0 /\ resets = 0

\* The source writes a grain, the next one or one further ahead.
Write(g, kind) ==
  /\ g > head /\ g <= MaxHead
  /\ head' = g /\ content' = [content EXCEPT ![g] = kind]
  /\ UNCHANGED <<phase, offset, next, audio, slots, blocks, picture, stalled, stallHead,
                 behind, shown, shownIn, lost, resets>>

\* Where the preroll starts: preroll and offset behind, or at the first grain.
StartOf(now) == AtLeastZero(now - (Preroll + CappedOffset))

(***************************************************************************)
(* bringUp: the start is preroll and offset behind the current time (now,  *)
(* not before the newest grain) and leaves the preroll's grains written.   *)
(***************************************************************************)
BringUp(now) ==
  /\ phase = "down" /\ now \in {head, head + 1}
  /\ offset' = CappedOffset
  /\ next' = StartOf(now)
  /\ audio' = next'
  /\ phase' = "preroll"
  /\ slots' = 0 /\ blocks' = 0 /\ picture' = FALSE /\ shown' = None /\ shownIn' = 0
  /\ stalled' = FALSE /\ stallHead' = 0 /\ behind' = FALSE
  /\ UNCHANGED <<flow, lost, resets>>

\* Mutant: the audio position stays where it is.
AudioStays(to, from) == audio

\* The audio position moves with the video's.
AudioMoved(to, from) == audio + (to - from)

\* The frame of scheduleGrain(g) with read r goes to the card.
Scheduled(g, r) ==
  /\ picture \/ r.grain # None
  /\ slots < MaxFrames
  /\ slots' = slots + 1
  /\ shown' = IF r.grain # None THEN r.grain ELSE shown
  /\ shownIn' = IF r.grain # None THEN slots + 1 ELSE shownIn
  /\ picture' = TRUE
  /\ stalled' = r.stalled /\ behind' = r.behind
  /\ stallHead' = IF r.stalled /\ ~stalled THEN head ELSE stallHead
  /\ UNCHANGED lost

\* There is no picture to show, or the card refuses it.
NotScheduled(g, r) ==
  /\ picture \/ r.grain # None => lost < MaxFaults
  /\ lost' = IF picture \/ r.grain # None THEN lost + 1 ELSE lost
  /\ picture' = (picture \/ r.grain # None)
  /\ stalled' = r.stalled /\ behind' = r.behind
  /\ stallHead' = IF r.stalled /\ ~stalled THEN head ELSE stallHead
  /\ UNCHANGED <<slots, shown, shownIn>>

\* Mutant: audio starts with the frame after it.
AudioStartsLate(to) == to

\* Audio starts with the grain of the first frame shown.
AudioStart(to) == to - 1

\* A pass of the preroll loop.
PrerollShown ==
  /\ phase = "preroll" /\ slots < Preroll
  /\ \E r \in Reads(next) :
       /\ Scheduled(next, r)
       /\ next' = Moved(next, r)
       /\ audio' = IF slots = 0 THEN AudioStart(next') ELSE AudioMoved(next', next + 1)
  /\ UNCHANGED <<flow, phase, offset, blocks, resets>>

\* A grain that is not written yet is read again, any other is passed over.
PrerollMissed ==
  /\ phase = "preroll" /\ slots < Preroll
  /\ \E r \in Reads(next) :
       /\ NotScheduled(next, r)
       /\ audio' = AudioMoved(Moved(next, r), next + 1)
       /\ next' = IF next >= head THEN next ELSE Moved(next, r)
  /\ UNCHANGED <<flow, phase, offset, blocks, resets>>

StartPlayback ==
  /\ phase = "preroll" /\ slots = Preroll
  /\ phase' = "playing"
  /\ UNCHANGED <<flow, offset, next, audioSide, slots, picture, stalled, stallHead, behind,
                 shown, shownIn, lost, resets>>

\* tearDownStreaming, for a reset or a preroll that takes too long.
TearDown ==
  /\ phase # "down" /\ phase' = "down"
  /\ UNCHANGED <<flow, offset, next, audioSide, slots, picture, stalled, stallHead, behind,
                 shown, shownIn, lost, resets>>

\* onFrameCompleted.
FrameCompleted ==
  /\ phase = "playing"
  /\ \E r \in Reads(next) :
       /\ Scheduled(next, r) \/ NotScheduled(next, r)
       /\ next' = Moved(next, r)
       /\ audio' = AudioMoved(next', next + 1)
  /\ UNCHANGED <<flow, phase, offset, blocks, resets>>

\* onRenderAudio, in the audio preroll and later: a block is played, or a live
\* source is not there yet and the block is read again next time ...
RenderAudio ==
  /\ phase = "playing" \/ (phase = "preroll" /\ slots = Preroll)
  /\ blocks < MaxFrames
  /\ audio' = audio + 1 /\ blocks' = blocks + 1
  /\ UNCHANGED <<flow, phase, offset, next, slots, picture, stalled, stallHead, behind,
                 shown, shownIn, lost, resets>>

\* ... or it fell out of the history: back to the video's position.
AudioReset ==
  /\ phase = "playing" /\ resets < MaxFaults /\ blocks < MaxFrames
  /\ resets' = resets + 1
  /\ audio' = AtLeastZero(next - (Preroll - 1))
  /\ blocks' \in {blocks, blocks + 1}
  /\ UNCHANGED <<flow, phase, offset, next, slots, picture, stalled, stallHead, behind,
                 shown, shownIn, lost>>

Next ==
  \/ \E g \in 1..MaxHead, k \in Kinds : Write(g, k)
  \/ \E now \in {head, head + 1} : BringUp(now)
  \/ PrerollShown \/ PrerollMissed \/ StartPlayback \/ TearDown
  \/ FrameCompleted \/ RenderAudio \/ AudioReset

Spec == Init /\ [][Next]_vars
-----------------------------------------------------------------------------
(* Properties *)

\* How far the picture is ahead of the sound, in frames: grain next would be
\* shown in frame slots, block audio + 1 is played in frame blocks.
Skew == (next - slots) - (audio - blocks)

(***************************************************************************)
(* Lip sync: from the first frame shown, picture and sound keep their      *)
(* distance through every slip, skip, repeat and re-opened flow.  Only a   *)
(* frame that the card refuses and a sound that fell out of the history    *)
(* change it (the comment in scheduleGrain: "so lip sync holds").          *)
(***************************************************************************)
LipSync ==
  [][ Skew' # Skew /\ slots > 0 /\ phase # "down" => lost' # lost \/ resets' # resets ]_vars

\* It starts at zero, and a refused frame advances the picture by one.
SyncedFromStart ==
  phase # "down" /\ slots > 0 /\ lost = 0 /\ resets = 0 => Skew = 0

(***************************************************************************)
(* A picture is never followed by an older one, and no grain is shown      *)
(* twice as a new one, whatever the source skips, marks invalid or leaves  *)
(* out, and however often the position slips and skips.                    *)
(***************************************************************************)
PicturesInOrder ==
  [][ shownIn' # shownIn /\ shownIn > 0 /\ phase # "down" => shown' > shown ]_vars

\* The position never goes back behind a grain that was shown.
ReadsOn == phase # "down" /\ shown # None => shown < next

(***************************************************************************)
(* A skip ends at the source: never beyond the grain after the newest one  *)
(* that the read offset allows, and only when that one is ahead.           *)
(***************************************************************************)
SkipsToSource ==
  [][ phase = "playing" /\ next' > next + 1 => next' <= head + 1 - offset ]_vars

(***************************************************************************)
(* The bring-up reads no grain that has left the history, as long as the   *)
(* history has room for the preroll at all (capReadOffset).                *)
(***************************************************************************)
StartsInHistory ==
  [][ phase = "down" /\ phase' = "preroll" /\ Grains >= Preroll + 3 /\ next' > 0 =>
        next' > head - (Grains - 2) ]_vars
=============================================================================
