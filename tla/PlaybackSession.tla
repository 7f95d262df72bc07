-------------------------- MODULE PlaybackSession --------------------------
(***************************************************************************)
(* The playback of an output channel on the card: SdkPlaybackSession of    *)
(* decklink/sdk/sdkbackend.cpp with its frames, and the supervisor and the *)
(* callbacks of channel/output_channel.cpp that use it.                    *)
(*                                                                         *)
(* Three threads meet here: the supervisor brings the session up and tears *)
(* it down, the card's video thread completes frames one after the other,  *)
(* its audio thread asks for samples.  What a frame shows is left to       *)
(* ReadPosition and OutputChannel.                                         *)
(***************************************************************************)
EXTENDS Naturals, Sequences, FiniteSets, SequencesExt

CONSTANTS
  Frames,      \* IDeckLinkMutableVideoFrame objects
  Preroll,     \* CHx_OUTPUT_PREROLL_GRAINS
  MaxIds,      \* bound: frames scheduled in a session
  MaxSessions, \* bound: bring-ups
  None

ASSUME SessionAssumption ==
  /\ Preroll \in Nat \ {0} /\ MaxIds \in Nat /\ MaxSessions \in Nat
  /\ None \notin Frames

VARIABLES
  drains,      \* whether clearing a callback waits for a running one
  sup,         \* the supervisor in bringUp and tearDownStreaming
  sessions,    \* how many bring-ups there were
  session,     \* the session object: "none", "up" or "off" (disabled)
  owned,       \* _playback of the channel is set
  playing,     \* _playing
  reset,       \* _resetRequested
  lock,        \* the holder of _callbackMutex, or "free"
  queue,       \* the frames that the card holds, in the order of display
  runs,        \* the card plays, or flushes after the stop
  registered,  \* the session is the card's callback
  pool, scheduled, inFlight, nextId,   \* _framePool, _scheduled, _inFlight, _nextFrameId
  work,        \* scheduleFrame: the step it is in, its frame and its id
  cb,          \* ScheduledFrameCompleted: the step, the frame and the id
  audio,       \* RenderAudioSamples: the step
  reported,    \* history: the last id reported in this session
  early,       \* history: frames completed before _playing was set
  refused      \* history: frames that could not be scheduled during playback

card == <<queue, runs, registered>>
lists == <<pool, scheduled, inFlight, nextId>>
channel == <<owned, playing, reset>>
history == <<reported, early, refused>>
vars == <<drains, sup, sessions, session, owned, playing, reset, lock, queue, runs, registered,
          pool, scheduled, inFlight, nextId, work, cb, audio, reported, early, refused>>

Idle == [pc |-> "idle", frame |-> None, id |-> 0]
CallSteps == {"idle", "entered", "reports", "schedules", "stale"}

TypeOK ==
  /\ drains \in BOOLEAN /\ sessions \in 0..MaxSessions
  /\ sup \in {"idle", "preroll", "started", "playing", "stopping", "stopped", "unset",
              "disabled", "taken"}
  /\ session \in {"none", "up", "off"}
  /\ owned \in BOOLEAN /\ playing \in BOOLEAN /\ reset \in BOOLEAN
  /\ lock \in {"free", "cb", "audio", "sup"}
  /\ queue \in Seq(Frames) /\ runs \in BOOLEAN /\ registered \in BOOLEAN
  /\ pool \subseteq Frames /\ scheduled \subseteq Frames
  /\ inFlight \in [Frames -> 0..MaxIds] /\ nextId \in 1..(MaxIds + 1)
  /\ work \in [pc : {"idle", "copies", "submits", "keeps"}, frame : Frames \cup {None}, id : 0..MaxIds]
  /\ cb \in [pc : CallSteps, frame : Frames \cup {None}, id : 0..MaxIds]
  /\ audio \in CallSteps
  /\ reported \in 0..MaxIds /\ early \in Nat /\ refused \in Nat

Init ==
  /\ drains \in BOOLEAN
  /\ sup = "idle" /\ sessions = 0 /\ session = "none"
  /\ owned = FALSE /\ playing = FALSE /\ reset = FALSE /\ lock = "free"
  /\ queue = <<>> /\ runs = FALSE /\ registered = FALSE
  /\ pool = {} /\ scheduled = {} /\ inFlight = [f \in Frames |-> 0] /\ nextId = 1
  /\ work = Idle /\ cb = Idle /\ audio = "idle"
  /\ reported = 0 /\ early = 0 /\ refused = 0

\* The frames that somebody has a reference to.
Live == pool \cup scheduled \cup ToSet(queue) \cup ({work.frame, cb.frame} \ {None})

-----------------------------------------------------------------------------
(***************************************************************************)
(* scheduleFrame, on the supervisor's thread in the preroll and on the     *)
(* card's video thread during playback.                                    *)
(***************************************************************************)
MaySchedule ==
  \/ sup = "preroll" /\ Len(queue) < Preroll
  \/ cb.pc = "schedules"

\* What its caller does with the result: the preroll loop tries again, the
\* callback counts the frame as not scheduled, and returns.
Scheduled(ok) ==
  /\ work' = Idle
  /\ IF cb.pc = "schedules"
     THEN cb' = Idle /\ lock' = "free" /\ refused' = IF ok THEN refused ELSE refused + 1
     ELSE UNCHANGED <<cb, lock, refused>>

\* acquireFrame: one from the pool, or a new one.
AcquireFrame ==
  /\ MaySchedule /\ work.pc = "idle"
  /\ \/ \E f \in pool : pool' = pool \ {f} /\ work' = [pc |-> "copies", frame |-> f, id |-> 0]
     \/ /\ pool = {} /\ UNCHANGED pool
        /\ \E f \in Frames \ Live : work' = [pc |-> "copies", frame |-> f, id |-> 0]
  /\ UNCHANGED <<drains, sup, sessions, session, channel, lock, card, scheduled, inFlight, nextId,
                 cb, audio, history>>

\* CreateVideoFrame or GetBytes fails; the frame goes.
AcquireFails ==
  /\ MaySchedule
  /\ \/ work.pc = "idle" /\ pool = {}
     \/ work.pc = "copies"
  /\ Scheduled(FALSE)
  /\ UNCHANGED <<drains, sup, sessions, session, channel, card, lists, audio, reported, early>>

\* Mutant: every frame gets the first id.
RegisterFirst ==
  /\ work.pc = "copies" /\ nextId <= MaxIds
  /\ inFlight' = [inFlight EXCEPT ![work.frame] = 1] /\ nextId' = nextId + 1
  /\ work' = [work EXCEPT !.pc = "submits", !.id = 1]
  /\ UNCHANGED <<drains, sup, sessions, session, channel, lock, card, pool, scheduled, cb, audio,
                 history>>

\* The picture is copied, and the frame gets its id.
Register ==
  /\ work.pc = "copies" /\ nextId <= MaxIds
  /\ inFlight' = [inFlight EXCEPT ![work.frame] = nextId] /\ nextId' = nextId + 1
  /\ work' = [work EXCEPT !.pc = "submits", !.id = nextId]
  /\ UNCHANGED <<drains, sup, sessions, session, channel, lock, card, pool, scheduled, cb, audio,
                 history>>

\* ScheduleVideoFrame.
Submit ==
  /\ work.pc = "submits" /\ session = "up"
  /\ queue' = Append(queue, work.frame)
  /\ work' = [work EXCEPT !.pc = "keeps"]
  /\ UNCHANGED <<drains, sup, sessions, session, channel, lock, runs, registered, lists, cb, audio,
                 history>>

\* The card refuses the frame: always after DisableVideoOutput.
SubmitFails ==
  /\ work.pc = "submits"
  /\ inFlight' = [inFlight EXCEPT ![work.frame] = 0]
  /\ pool' = pool \cup {work.frame}
  /\ Scheduled(FALSE)
  /\ UNCHANGED <<drains, sup, sessions, session, channel, card, scheduled, nextId, audio, reported,
                 early>>

Keep ==
  /\ work.pc = "keeps"
  /\ scheduled' = scheduled \cup {work.frame}
  /\ Scheduled(TRUE)
  /\ UNCHANGED <<drains, sup, sessions, session, channel, card, pool, inFlight, nextId, audio,
                 reported, early>>

-----------------------------------------------------------------------------
(* The card's video thread *)

\* external: the card shows or drops its next frame, or flushes it after the
\* stop, and calls the session if that is registered.
CardCompletes ==
  /\ runs /\ queue # <<>> /\ cb.pc = "idle"
  /\ queue' = Tail(queue)
  /\ cb' = IF registered THEN [pc |-> "entered", frame |-> Head(queue), id |-> 0] ELSE cb
  /\ UNCHANGED <<drains, sup, sessions, session, channel, lock, runs, registered, lists, work,
                 audio, history>>

\* Mutant: a frame that completes is not given back.
CompletionForgets ==
  /\ cb.pc = "entered"
  /\ cb' = [pc |-> "reports", frame |-> None, id |-> inFlight[cb.frame]]
  /\ inFlight' = [inFlight EXCEPT ![cb.frame] = 0]
  /\ reported' = IF session = "up" THEN inFlight[cb.frame] ELSE reported
  /\ UNCHANGED <<drains, sup, sessions, session, channel, lock, card, pool, scheduled, nextId,
                 work, audio, early, refused>>

\* ScheduledFrameCompleted: find the frame's id and give it back to the pool.
ScheduledFrameCompleted ==
  /\ cb.pc = "entered"
  /\ cb' = [pc |-> "reports", frame |-> None, id |-> inFlight[cb.frame]]
  /\ inFlight' = [inFlight EXCEPT ![cb.frame] = 0]
  /\ pool' = IF cb.frame \in scheduled THEN pool \cup {cb.frame} ELSE pool
  /\ scheduled' = scheduled \ {cb.frame}
  /\ reported' = IF session = "up" THEN inFlight[cb.frame] ELSE reported
  /\ UNCHANGED <<drains, sup, sessions, session, channel, lock, card, nextId, work, audio, early,
                 refused>>

\* Mutant: a frame that was late is not replaced.
FrameCompletedLate ==
  /\ cb.pc = "reports" /\ lock = "free"
  /\ \/ cb' = [cb EXCEPT !.pc = "schedules"] /\ playing /\ lock' = "cb" /\ UNCHANGED <<reset, early>>
     \/ cb' = Idle /\ UNCHANGED <<lock, reset, early>>
  /\ UNCHANGED <<drains, sup, sessions, session, owned, playing, card, lists, work, audio, reported,
                 refused>>

\* onFrameCompleted: nothing unless playback is up, a reset after too many late
\* frames, otherwise the next frame.
FrameCompleted ==
  /\ cb.pc = "reports" /\ lock = "free"
  /\ \/ /\ ~playing
        /\ cb' = Idle /\ UNCHANGED <<lock, reset>>
        /\ early' = IF sup = "started" THEN early + 1 ELSE early
     \/ /\ playing
        /\ cb' = Idle /\ reset' = TRUE /\ UNCHANGED <<lock, early>>
     \/ /\ playing
        /\ cb' = [cb EXCEPT !.pc = "schedules"] /\ lock' = "cb" /\ UNCHANGED <<reset, early>>
  /\ UNCHANGED <<drains, sup, sessions, session, owned, playing, card, lists, work, audio, reported,
                 refused>>

-----------------------------------------------------------------------------
(* The card's audio thread *)

\* external: the card asks for samples, in the audio preroll or later.
CardWantsSamples ==
  /\ registered /\ audio = "idle"
  /\ runs \/ (sup = "preroll" /\ Len(queue) = Preroll)
  /\ audio' = "entered"
  /\ UNCHANGED <<drains, sup, sessions, session, channel, lock, card, lists, work, cb, history>>

\* onRenderAudio: nothing without a session, otherwise scheduleAudio under the lock.
RenderAudio ==
  /\ audio = "entered" /\ lock = "free"
  /\ IF owned THEN audio' = "schedules" /\ lock' = "audio"
     ELSE audio' = "idle" /\ UNCHANGED lock
  /\ UNCHANGED <<drains, sup, sessions, session, channel, card, lists, work, cb, history>>

ScheduleAudio ==
  /\ audio = "schedules"
  /\ audio' = "idle" /\ lock' = "free"
  /\ UNCHANGED <<drains, sup, sessions, session, channel, card, lists, work, cb, history>>

-----------------------------------------------------------------------------
(* The supervisor *)

\* openPlayback and enable.
Enable ==
  /\ sup = "idle" /\ sessions < MaxSessions
  /\ sup' = "preroll" /\ sessions' = sessions + 1
  /\ session' = "up" /\ owned' = TRUE /\ reset' = FALSE
  /\ registered' = TRUE /\ queue' = <<>> /\ runs' = FALSE
  /\ nextId' = 1 /\ reported' = 0 /\ early' = 0 /\ refused' = 0
  /\ UNCHANGED <<drains, playing, lock, pool, scheduled, inFlight, work, cb, audio>>

\* EnableVideoOutput or EnableAudioOutput fails before anything is registered.
EnableFails ==
  /\ sup = "idle" /\ sessions < MaxSessions
  /\ sup' = "stopping" /\ sessions' = sessions + 1
  /\ session' = "up" /\ owned' = TRUE /\ reset' = FALSE
  /\ queue' = <<>> /\ runs' = FALSE
  /\ nextId' = 1 /\ reported' = 0 /\ early' = 0 /\ refused' = 0
  /\ UNCHANGED <<drains, playing, lock, registered, pool, scheduled, inFlight, work, cb, audio>>

\* The preroll is complete and startPlayback succeeds ...
StartPlayback ==
  /\ sup = "preroll" /\ Len(queue) = Preroll /\ work.pc = "idle"
  /\ sup' = "started" /\ runs' = TRUE
  /\ UNCHANGED <<drains, sessions, session, channel, lock, queue, registered, lists, work, cb,
                 audio, history>>

\* ... or the deadline passes, the channel stops or startPlayback fails.
BringUpFails ==
  /\ sup = "preroll" /\ work.pc = "idle"
  /\ sup' = "stopping"
  /\ UNCHANGED <<drains, sessions, session, channel, lock, card, lists, work, cb, audio, history>>

SetPlaying ==
  /\ sup = "started"
  /\ sup' = "playing" /\ playing' = TRUE
  /\ UNCHANGED <<drains, sessions, session, owned, reset, lock, card, lists, work, cb, audio, history>>

\* Mutant: the tear-down holds the callbacks off from the start.
TearDownLocked ==
  /\ sup = "playing" /\ lock = "free" /\ lock' = "sup"
  /\ sup' = "stopping" /\ playing' = FALSE
  /\ UNCHANGED <<drains, sessions, session, owned, reset, card, lists, work, cb, audio, history>>

\* tearDownStreaming, for a reset, a re-route or the stop of the channel ...
TearDown ==
  /\ sup = "playing"
  /\ sup' = "stopping" /\ playing' = FALSE
  /\ UNCHANGED <<drains, sessions, session, owned, reset, lock, card, lists, work, cb, audio, history>>

\* ... StopScheduledPlayback: the card gives back what it holds, flushed ...
StopPlayback ==
  /\ sup = "stopping"
  /\ sup' = "stopped" /\ runs' = TRUE
  /\ UNCHANGED <<drains, sessions, session, channel, lock, queue, registered, lists, work, cb,
                 audio, history>>

\* ... disable: the callbacks are cleared, with or without waiting for those
\* that are running ...
Unset ==
  /\ sup = "stopped"
  /\ drains => cb.pc = "idle" /\ audio = "idle"
  /\ sup' = "unset" /\ registered' = FALSE
  /\ UNCHANGED <<drains, sessions, session, channel, lock, queue, runs, lists, work, cb, audio, history>>

\* ... then the output is off and the lists are empty.
Disable ==
  /\ sup = "unset"
  /\ sup' = "disabled" /\ session' = "off" /\ queue' = <<>> /\ runs' = FALSE
  /\ pool' = {} /\ scheduled' = {} /\ inFlight' = [f \in Frames |-> 0]
  /\ UNCHANGED <<drains, sessions, channel, lock, registered, nextId, work, cb, audio, history>>

\* Mutant: the session is taken while a callback uses it.
TakeSessionAtOnce ==
  /\ sup = "disabled"
  /\ sup' = "taken" /\ owned' = FALSE
  /\ UNCHANGED <<drains, sessions, session, playing, reset, lock, card, lists, work, cb, audio, history>>

\* Wait for a callback that holds the lock, and take the session from it.
TakeSession ==
  /\ sup = "disabled" /\ lock = "free"
  /\ sup' = "taken" /\ owned' = FALSE
  /\ UNCHANGED <<drains, sessions, session, playing, reset, lock, card, lists, work, cb, audio, history>>

\* playback.reset(): the destructor disables once more.  A callback that is in
\* the session but not yet in the channel is left with a freed object.
FreeSession ==
  /\ sup = "taken"
  /\ sup' = "idle" /\ session' = "none"
  /\ queue' = <<>> /\ runs' = FALSE /\ registered' = FALSE
  /\ pool' = {} /\ scheduled' = {} /\ inFlight' = [f \in Frames |-> 0]
  /\ cb' = IF cb.pc = "idle" THEN cb ELSE [Idle EXCEPT !.pc = "stale"]
  /\ audio' = IF audio = "idle" THEN audio ELSE "stale"
  /\ UNCHANGED <<drains, sessions, channel, lock, nextId, work, history>>

\* What such a callback does is undefined; the model does not follow it.
StaleCallEnds ==
  /\ cb.pc = "stale" \/ audio = "stale"
  /\ cb' = IF cb.pc = "stale" THEN Idle ELSE cb
  /\ audio' = IF audio = "stale" THEN "idle" ELSE audio
  /\ UNCHANGED <<drains, sup, sessions, session, channel, lock, card, lists, work, history>>

-----------------------------------------------------------------------------
Schedule == AcquireFrame \/ AcquireFails \/ Register \/ Submit \/ SubmitFails \/ Keep
VideoCall == ScheduledFrameCompleted \/ FrameCompleted \/ StaleCallEnds
AudioCall == RenderAudio \/ ScheduleAudio
TearingDown == StopPlayback \/ Unset \/ Disable \/ TakeSession \/ FreeSession

Next ==
  \/ Schedule \/ VideoCall \/ AudioCall \/ TearingDown
  \/ CardCompletes \/ CardWantsSamples
  \/ Enable \/ EnableFails \/ StartPlayback \/ BringUpFails \/ SetPlaying \/ TearDown

Spec == Init /\ [][Next]_vars

\* Threads go on: a callback that runs, and the supervisor in the tear-down,
\* which takes the lock again and again as callbacks release it.
FairSpec ==
  /\ Spec
  /\ WF_vars(Schedule) /\ SF_vars(VideoCall) /\ SF_vars(AudioCall) /\ SF_vars(TearingDown)

-----------------------------------------------------------------------------
(* Properties *)

(***************************************************************************)
(* A frame that the card holds, or that is being filled, is not in the     *)
(* pool, so that no picture is overwritten on air; and a frame is filled   *)
(* by one call only.                                                       *)
(***************************************************************************)
PoolIsFree ==
  /\ pool \cap ToSet(queue) = {}
  /\ work.frame \notin pool
  /\ work.pc \in {"copies", "submits"} => work.frame \notin ToSet(queue)

(***************************************************************************)
(* The session never needs more frames than the preroll: every frame comes *)
(* back before its successor is scheduled, in particular none completes    *)
(* between ScheduleVideoFrame and its entry in _scheduled.                 *)
(***************************************************************************)
FramesBounded == Cardinality(Live) <= Preroll

\* Every frame is accounted for: none is overwritten on air and none is lost.
FramesAccounted == PoolIsFree /\ FramesBounded

(***************************************************************************)
(* While the session is up, every completion is reported with the id that  *)
(* scheduleFrame returned for the frame, in the order of the schedule and  *)
(* once ("a frame id used in onFrameCompleted", device.hpp).               *)
(***************************************************************************)
ReportsInOrder ==
  [][ cb.pc = "entered" /\ cb'.pc = "reports" /\ session = "up" => cb'.id > reported ]_vars

(***************************************************************************)
(* Playback keeps the preroll's frames in flight: each completion is       *)
(* replaced by one frame, unless it came before _playing was set, the card *)
(* refused its successor or a reset is due.                                *)
(***************************************************************************)
PipelineKept ==
  sup = "playing" /\ ~reset /\ early = 0 /\ refused = 0 =>
    Len(queue) + (IF cb.pc \in {"idle", "stale"} \/ work.pc = "keeps" THEN 0 ELSE 1) = Preroll

(***************************************************************************)
(* What tearDownStreaming promises: a callback in the channel has the      *)
(* session until it ends, even when clearing a callback does not wait ...  *)
(***************************************************************************)
ChannelHasSession ==
  cb.pc = "schedules" \/ audio = "schedules" => owned /\ session # "none"

\* ... and no callback is left with a freed session when clearing does wait.
CallsOutlived == drains => cb.pc # "stale" /\ audio # "stale"

\* Both together: the tear-down frees the session behind nobody's back.
TearDownIsSafe == ChannelHasSession /\ CallsOutlived

(***************************************************************************)
(* The tear-down ends, whatever callbacks are running or waiting for       *)
(* _callbackMutex ("Freed outside the lock").                              *)
(***************************************************************************)
TearDownEnds == sup = "stopping" ~> sup = "idle"
=============================================================================
