----------------------------- MODULE InputChannel -----------------------------
(***************************************************************************)
(* One input channel (src/channel/input_channel.cpp): frames captured by a *)
(* DeckLink card are written to MXL flows.  Three threads share its state: *)
(*                                                                         *)
(*   - the supervisor (supervisorLoop): brings the capture up, exchanges   *)
(*     the flows after a format change, restarts the streams after a long  *)
(*     loss of signal;                                                     *)
(*   - the card's callback thread: handleFrame and handleFormatChange, one *)
(*     at a time;                                                          *)
(*   - the process' housekeeping thread (housekeeping).                    *)
(*                                                                         *)
(* The environment is the signal on the connector, the card and the MXL    *)
(* library, whose calls may fail, the passing of time, and the owner of    *)
(* the channel, which stops it and may create it anew.                     *)
(*                                                                         *)
(* The writers of a channel (video, audio, ancillary) are created and      *)
(* released together and appear as one; at least one leg is enabled.       *)
(* Grain and sample indices, and what is in a frame besides its format,    *)
(* are abstracted.                                                         *)
(***************************************************************************)
EXTENDS Naturals, FiniteSets

CONSTANTS
  Modes,               \* video modes the signal may have
  StartMode,           \* the configured mode, or autoStartMode
  NoMode,              \* no mode: no signal, nothing pending
  FormatDetection,     \* _cfg.isAutoMode() of each life
  MaxSignals,          \* bound: changes of the signal
  MaxFails,            \* bound: calls that fail
  MaxLives,            \* bound: times the owner creates the channel
  SwapFails,           \* may a call made by performFormatChange fail?
  TimesOut,            \* may a loss of signal last SIGNAL_LOSS_TIMEOUT_S?
  Housekeeping         \* does the housekeeping thread run?

ASSUME ConstantsOK ==
  /\ StartMode \in Modes /\ NoMode \notin Modes
  /\ MaxSignals \in Nat /\ MaxFails \in Nat /\ MaxLives \in Nat
  /\ FormatDetection \in [1..MaxLives -> BOOLEAN]
  /\ {SwapFails, TimesOut, Housekeeping} \subseteq BOOLEAN

VARIABLES
  \* The signal on the connector (NoMode: none), its changes and the calls
  \* that failed so far.
  sig, changes, fails,
  \* The capture session: does it exist, does it call, the mode the card
  \* captures, and the mode it last told the channel or was told.
  capture, streams, cardMode, reported,
  \* Lifetime: the owner's and the supervisor's flags, lives so far.
  running, streamingUp, lives,
  \* The supervisor: program counter and the format change it carries out.
  sup, change,
  \* The flows: _currentMode, the writers, _writersValid, the holder of
  \* _writerMutex, _formatChangeCounter, _pendingFormatChange.
  mode, writers, valid, lock, counter, pending,
  \* Published: state, signalLocked, activeVideoFlowId.
  state, locked, active,
  \* _signalLossSinceTai: 0 = signal, 1 = set, 2 = set for the timeout.
  lossSince,
  \* The callback and the mode of the frame or change it handles; and the
  \* housekeeping thread.
  cb, frame, hk,
  \* History: every flow created, with its mode; and whether the last writers
  \* were made valid while a format change reported before them was still to be
  \* carried out, or a frame that had passed the test still to be written.
  made, overtaken

envVars    == <<sig, changes, fails>>
cardVars   == <<capture, streams, cardMode, reported>>
lifeVars   == <<running, streamingUp, lives>>
supVars    == <<sup, change>>
madeVars   == <<made, overtaken>>
flowVars   == <<mode, writers, valid, lock, counter, pending, madeVars>>
statusVars == <<state, locked, active, lossSince>>
cbVars     == <<cb, frame>>
vars == <<envVars, cardVars, lifeVars, supVars, flowVars, statusVars, cbVars, hk>>

-----------------------------------------------------------------------------
(* Flow ids and writers.                                                   *)

\* The id configured for the flow.
ConfiguredId == [name |-> NoMode, n |-> 0]

\* util::deriveUuid of the signature "<mode>#<counter>".
DerivedId(m, n) == [name |-> m, n |-> n]

NoWriters == [mode |-> NoMode, id |-> ConfiguredId]

\* createWriters succeeds: all writers are there and frames may use them.
WritersCreated(m, id) ==
  /\ writers' = [mode |-> m, id |-> id]
  /\ valid' = TRUE
  /\ lock' = "free"
  /\ made' = made \cup {[mode |-> m, id |-> id]}
  /\ overtaken' = (pending # NoMode \/ cb # "idle")

\* createWriters throws at one of them: those before it are left behind.
WritersPartlyCreated(m, id) ==
  /\ fails < MaxFails
  /\ fails' = fails + 1
  /\ writers' = [mode |-> m, id |-> id]
  /\ lock' = "free"
  /\ made' = made \cup {[mode |-> m, id |-> id]}
  /\ UNCHANGED <<valid, overtaken>>

\* Mutant of WritersDestroyed: forgets them.
WritersKept == UNCHANGED <<writers, valid>>

\* destroyWriters, where no callback can be running.
WritersDestroyed == writers' = NoWriters /\ valid' = FALSE

-----------------------------------------------------------------------------
(* The environment.                                                        *)

SignalChanges ==
  /\ changes < MaxSignals
  /\ changes' = changes + 1
  /\ sig' \in (Modes \cup {NoMode}) \ {sig}
  /\ UNCHANGED <<fails, cardVars, lifeVars, supVars, flowVars, statusVars, cbVars, hk>>

\* The timeout passes.  A card that captures a signal delivers a frame long
\* before that.
TimeoutPasses ==
  /\ TimesOut /\ lossSince = 1
  /\ ~(streams /\ sig = cardMode)
  /\ lossSince' = 2
  /\ UNCHANGED <<envVars, cardVars, lifeVars, supVars, flowVars, state, locked, active,
                 cbVars, hk>>

\* stop and housekeeping are called under the channel manager's mutex.
Stop ==
  /\ running /\ hk = "idle"
  /\ running' = FALSE
  /\ UNCHANGED <<envVars, cardVars, streamingUp, lives, supVars, flowVars, statusVars,
                 cbVars, hk>>

\* The owner creates the channel anew: a new object with the same flow ids and
\* start mode, which may follow the signal or not.
Recreate ==
  /\ sup = "stopped" /\ lives < MaxLives
  /\ lives' = lives + 1 /\ running' = TRUE /\ streamingUp' = FALSE
  /\ sup' = "loop" /\ change' = NoMode
  /\ mode' = NoMode /\ writers' = NoWriters /\ valid' = FALSE /\ lock' = "free"
  /\ counter' = 0 /\ pending' = NoMode /\ overtaken' = FALSE
  /\ state' = "init" /\ locked' = FALSE /\ active' = ConfiguredId /\ lossSince' = 0
  /\ UNCHANGED <<envVars, cardVars, cbVars, hk, made>>

-----------------------------------------------------------------------------
(* The callback thread: handleFrame.                                       *)

\* Mutant of FrameNoSource: every frame starts the time of the loss anew.
FrameNoSourceRestarts ==
  /\ cb = "idle" /\ streams /\ sig # cardMode
  /\ lossSince' = 1 /\ state' = "degraded" /\ locked' = FALSE
  /\ UNCHANGED <<envVars, cardVars, lifeVars, supVars, flowVars, active, cbVars, hk>>

\* A frame without input source: standby.  The card flags every frame that
\* comes without a signal, and may flag those of a signal in another mode.
FrameNoSource ==
  /\ cb = "idle" /\ streams /\ sig # cardMode
  /\ IF lossSince = 0 THEN lossSince' = 1 /\ state' = "degraded"
                      ELSE UNCHANGED <<lossSince, state>>
  /\ locked' = FALSE
  /\ UNCHANGED <<envVars, cardVars, lifeVars, supVars, flowVars, active, cbVars, hk>>

\* Mutant of FrameArrives: the state is not taken back.
FrameArrivesSilent ==
  /\ cb = "idle" /\ streams /\ sig # NoMode
  /\ lossSince' = 0
  /\ locked' = TRUE
  /\ IF valid THEN cb' = "gate" /\ frame' = cardMode ELSE UNCHANGED cbVars
  /\ UNCHANGED <<envVars, cardVars, lifeVars, supVars, flowVars, state, active, hk>>

\* A frame with a source, up to the test of _writersValid.
FrameArrives ==
  /\ cb = "idle" /\ streams /\ sig # NoMode
  /\ lossSince' = 0
  /\ locked' = TRUE
  /\ state' = IF state = "degraded" THEN "healthy" ELSE state
  /\ IF valid THEN cb' = "gate" /\ frame' = cardMode ELSE UNCHANGED cbVars
  /\ UNCHANGED <<envVars, cardVars, lifeVars, supVars, flowVars, active, hk>>

\* try_lock: the frame is skipped when the supervisor holds the mutex.
FrameLocks ==
  /\ cb = "gate"
  /\ IF lock = "free" THEN lock' = "frame" /\ cb' = "writing"
                      ELSE cb' = "idle" /\ UNCHANGED lock
  /\ UNCHANGED <<envVars, cardVars, lifeVars, supVars, mode, writers, valid, counter,
                 pending, madeVars, statusVars, frame, hk>>

\* The frame is in its grain, its audio and ancillary data are written.
FrameWritten ==
  /\ cb = "writing"
  /\ cb' = "idle" /\ lock' = "free"
  /\ UNCHANGED <<envVars, cardVars, lifeVars, supVars, mode, writers, valid, counter,
                 pending, madeVars, statusVars, frame, hk>>

(* The callback thread: handleFormatChange.                                *)

\* The supervisor is carrying out a format change.
SwapPcs == {"change", "switch", "release", "grace", "swapCreate", "publish", "swapTear"}

\* The card detects another mode than it last reported or was set to.
ModeDetected ==
  /\ FormatDetection[lives] /\ cb = "idle" /\ streams
  /\ sig \notin {NoMode, reported}
  /\ reported' = sig /\ frame' = sig /\ cb' = "change"

\* Mutant of FormatChange: frames go on until the writers are released.
FormatChangeOpenGate ==
  /\ ModeDetected
  /\ UNCHANGED <<envVars, capture, streams, cardMode, lifeVars, supVars, flowVars,
                 statusVars, hk>>

\* Frames are stopped first ...
FormatChange ==
  /\ ModeDetected
  /\ valid' = FALSE
  /\ UNCHANGED <<envVars, capture, streams, cardMode, lifeVars, supVars, mode, writers,
                 lock, counter, pending, madeVars, statusVars, hk>>

\* ... then the change is handed to the supervisor, replacing an earlier one.
FormatChangePosted ==
  /\ cb = "change"
  /\ cb' = "idle" /\ pending' = frame
  /\ UNCHANGED <<envVars, cardVars, lifeVars, supVars, mode, writers, valid, lock, counter,
                 madeVars, statusVars, frame, hk>>

-----------------------------------------------------------------------------
(* The housekeeping thread.                                                *)

HousekeepingStart ==
  /\ Housekeeping /\ hk = "idle" /\ running
  /\ streamingUp /\ capture
  /\ hk' = "using"
  /\ UNCHANGED <<envVars, cardVars, lifeVars, supVars, flowVars, statusVars, cbVars>>

HousekeepingEnd ==
  /\ hk = "using"
  /\ hk' = "idle"
  /\ UNCHANGED <<envVars, cardVars, lifeVars, supVars, flowVars, statusVars, cbVars>>

-----------------------------------------------------------------------------
(* The supervisor: bringUp.                                                *)

Go(pc) == sup' = pc /\ UNCHANGED change

\* bringUp returned false: Failed, and a delay before the next attempt.
Failed == Go("backoff") /\ state' = "failed"

\* A call of the card fails.
CallFails == fails < MaxFails /\ fails' = fails + 1

BringUp ==
  /\ sup = "loop" /\ running /\ ~streamingUp /\ lock = "free"
  /\ mode' = StartMode
  /\ state' = "init"
  /\ lock' = "supervisor"
  /\ Go("bringCreate")
  /\ UNCHANGED <<envVars, cardVars, lifeVars, writers, valid, counter, pending, madeVars,
                 locked, active, lossSince, cbVars, hk>>

\* The card does not support a configured mode.
BringUpRefused ==
  /\ sup = "loop" /\ running /\ ~streamingUp
  /\ ~FormatDetection[lives] /\ CallFails
  /\ mode' = StartMode
  /\ Failed
  /\ UNCHANGED <<sig, changes, cardVars, lifeVars, writers, valid, lock, counter, pending,
                 madeVars, locked, active, lossSince, cbVars, hk>>

BringUpCreate ==
  /\ sup = "bringCreate"
  /\ \/ WritersCreated(StartMode, ConfiguredId) /\ Go("open") /\ UNCHANGED fails
     \/ WritersPartlyCreated(StartMode, ConfiguredId) /\ Go("threw")
  /\ UNCHANGED <<sig, changes, cardVars, lifeVars, mode, counter, pending, statusVars,
                 cbVars, hk>>

\* The handler of exceptions.
BringUpThrew ==
  /\ sup = "threw"
  /\ capture' = FALSE
  /\ WritersDestroyed
  /\ Failed
  /\ UNCHANGED <<envVars, streams, cardMode, reported, lifeVars, mode, lock, counter,
                 pending, madeVars, locked, active, lossSince, cbVars, hk>>

OpenCapture ==
  /\ sup = "open"
  /\ \/ /\ capture' = TRUE /\ Go("enable")
        /\ UNCHANGED <<fails, writers, valid, state>>
     \/ /\ CallFails /\ WritersDestroyed /\ Failed
        /\ UNCHANGED capture
  /\ UNCHANGED <<sig, changes, streams, cardMode, reported, lifeVars, mode, lock, counter,
                 pending, madeVars, locked, active, lossSince, cbVars, hk>>

EnableCapture ==
  /\ sup = "enable"
  /\ \/ /\ cardMode' = mode /\ reported' = mode /\ Go("start")
        /\ UNCHANGED <<fails, capture, writers, valid, state>>
     \/ /\ CallFails /\ capture' = FALSE /\ WritersDestroyed /\ Failed
        /\ UNCHANGED <<cardMode, reported>>
  /\ UNCHANGED <<sig, changes, streams, lifeVars, mode, lock, counter, pending, madeVars,
                 locked, active, lossSince, cbVars, hk>>

StartCapture ==
  /\ sup = "start"
  /\ \/ /\ streams' = TRUE /\ Go("up")
        /\ UNCHANGED <<fails, capture, writers, valid, state>>
     \/ /\ CallFails /\ capture' = FALSE /\ WritersDestroyed /\ Failed
        /\ UNCHANGED streams
  /\ UNCHANGED <<sig, changes, cardMode, reported, lifeVars, mode, lock, counter, pending,
                 madeVars, locked, active, lossSince, cbVars, hk>>

\* Frames and format changes may have come since the streams were started.
BringUpDone ==
  /\ sup = "up"
  /\ streamingUp' = TRUE
  /\ state' = "healthy"
  /\ Go("pending")
  /\ UNCHANGED <<envVars, cardVars, running, lives, flowVars, locked, active, lossSince,
                 cbVars, hk>>

BackoffOver ==
  /\ sup = "backoff"
  /\ Go("loop")
  /\ UNCHANGED <<envVars, cardVars, lifeVars, flowVars, statusVars, cbVars, hk>>

-----------------------------------------------------------------------------
(* The supervisor: performFormatChange.                                    *)

\* tearDownStreaming, up to the return of StopStreams.
TearDown(pc) ==
  /\ streamingUp' = FALSE
  /\ streams' = FALSE
  /\ Go(pc)

CheckPending ==
  /\ sup = "pending"
  /\ IF pending = NoMode
       THEN Go("loss") /\ UNCHANGED <<pending, state>>
       ELSE /\ change' = pending /\ pending' = NoMode
            /\ state' = "degraded"
            /\ sup' = "change"
  /\ UNCHANGED <<envVars, cardVars, lifeVars, mode, writers, valid, lock, counter, madeVars,
                 locked, active, lossSince, cbVars, hk>>

\* The card is set to the new mode.
ChangeMode ==
  /\ sup = "change"
  /\ \/ /\ cardMode' = change /\ reported' = change
        /\ Go("switch")
        /\ UNCHANGED <<fails, streams, streamingUp>>
     \/ /\ SwapFails /\ CallFails
        /\ TearDown("swapTear")
        /\ UNCHANGED <<cardMode, reported>>
  /\ UNCHANGED <<sig, changes, capture, running, lives, flowVars, statusVars, cbVars, hk>>

\* The channel follows, and destroyWriters first stops frames ...
SwitchMode ==
  /\ sup = "switch"
  /\ mode' = change
  /\ valid' = FALSE
  /\ Go("release")
  /\ UNCHANGED <<envVars, cardVars, lifeVars, writers, lock, counter, pending, madeVars,
                 statusVars, cbVars, hk>>

\* Mutant of ReleaseWriters: _writerMutex is not taken.
ReleaseWritersUnlocked ==
  /\ sup = "release"
  /\ writers' = NoWriters
  /\ Go("grace")
  /\ UNCHANGED <<envVars, cardVars, lifeVars, mode, valid, lock, counter, pending, madeVars,
                 statusVars, cbVars, hk>>

\* ... and then waits for one that is being written.
ReleaseWriters ==
  /\ sup = "release" /\ lock = "free"
  /\ writers' = NoWriters
  /\ Go("grace")
  /\ UNCHANGED <<envVars, cardVars, lifeVars, mode, valid, lock, counter, pending, madeVars,
                 statusVars, cbVars, hk>>

\* The grace period is over, whether or not the channel is being stopped.
GraceOver ==
  /\ sup = "grace" /\ lock = "free"
  /\ counter' = counter + 1
  /\ lock' = "supervisor"
  /\ Go("swapCreate")
  /\ UNCHANGED <<envVars, cardVars, lifeVars, mode, writers, valid, pending, madeVars,
                 statusVars, cbVars, hk>>

SwapCreate ==
  /\ sup = "swapCreate"
  /\ \/ /\ WritersCreated(change, DerivedId(change, counter))
        /\ Go("publish")
        /\ UNCHANGED <<fails, streams, streamingUp>>
     \/ /\ SwapFails
        /\ WritersPartlyCreated(change, DerivedId(change, counter))
        /\ TearDown("swapTear")
  /\ UNCHANGED <<sig, changes, capture, cardMode, reported, running, lives, mode, counter,
                 pending, statusVars, cbVars, hk>>

\* The status and the NMOS node (_runtimeFlows) get the new id.
PublishFlow ==
  /\ sup = "publish"
  /\ active' = DerivedId(change, counter)
  /\ state' = "healthy"
  /\ Go("loss")
  /\ UNCHANGED <<envVars, cardVars, lifeVars, flowVars, locked, lossSince, cbVars, hk>>

\* The rest of tearDownStreaming: the callback has returned.  The pass of the
\* loop goes on after a failed change; stop ends with it.
TornDown ==
  /\ sup \in {"swapTear", "stopTear"} /\ cb = "idle" /\ lock = "free"
  /\ capture' = FALSE
  /\ WritersDestroyed
  /\ Go(IF sup = "swapTear" THEN "loss" ELSE "stopped")
  /\ UNCHANGED <<envVars, streams, cardMode, reported, lifeVars, mode, lock, counter,
                 pending, madeVars, statusVars, cbVars, hk>>

-----------------------------------------------------------------------------
(* The supervisor: its loop and the restart of the streams.                *)

LoopUp ==
  /\ sup = "loop" /\ running /\ streamingUp
  /\ Go("pending")
  /\ UNCHANGED <<envVars, cardVars, lifeVars, flowVars, statusVars, cbVars, hk>>

\* Mutant of LoopEnds: stop is noticed only between two attempts.
LoopEndsDown ==
  /\ sup = "loop" /\ ~running /\ ~streamingUp
  /\ TearDown("stopTear")
  /\ UNCHANGED <<envVars, capture, cardMode, reported, running, lives, flowVars,
                 statusVars, cbVars, hk>>

\* The loop ends, the owner joins the thread and tears down.
LoopEnds ==
  /\ sup = "loop" /\ ~running
  /\ TearDown("stopTear")
  /\ UNCHANGED <<envVars, capture, cardMode, reported, running, lives, flowVars,
                 statusVars, cbVars, hk>>

CheckLoss ==
  /\ sup = "loss"
  /\ Go(IF lossSince = 2 THEN "reset" ELSE "loop")
  /\ UNCHANGED <<envVars, cardVars, lifeVars, flowVars, statusVars, cbVars, hk>>

\* resetStreams is called through _capture, which is not tested: without a
\* session the process ends here.
ResetStreams ==
  /\ sup = "reset"
  /\ Go(IF capture THEN "store" ELSE "crashed")
  /\ UNCHANGED <<envVars, cardVars, lifeVars, flowVars, statusVars, cbVars, hk>>

\* The time of the loss starts anew, whatever frames came since.
RestartLoss ==
  /\ sup = "store"
  /\ lossSince' = 1
  /\ Go("loop")
  /\ UNCHANGED <<envVars, cardVars, lifeVars, flowVars, state, locked, active, cbVars, hk>>

-----------------------------------------------------------------------------
Init ==
  /\ sig \in Modes \cup {NoMode} /\ changes = 0 /\ fails = 0
  /\ capture = FALSE /\ streams = FALSE /\ cardMode = StartMode /\ reported = StartMode
  /\ running = TRUE /\ streamingUp = FALSE /\ lives = 1
  /\ sup = "loop" /\ change = NoMode
  /\ mode = NoMode /\ writers = NoWriters /\ valid = FALSE /\ lock = "free"
  /\ counter = 0 /\ pending = NoMode /\ made = {} /\ overtaken = FALSE
  /\ state = "init" /\ locked = FALSE /\ active = ConfiguredId /\ lossSince = 0
  /\ cb = "idle" /\ frame = NoMode /\ hk = "idle"

Environment == SignalChanges \/ TimeoutPasses \/ Stop \/ Recreate

Frames == FrameNoSource \/ FrameArrives

CallbackRuns == FrameLocks \/ FrameWritten \/ FormatChangePosted

Callbacks ==
  Frames \/ FormatChange \/ CallbackRuns \/ HousekeepingStart \/ HousekeepingEnd

BringingUp ==
  \/ BringUp \/ BringUpRefused \/ BringUpCreate \/ BringUpThrew
  \/ OpenCapture \/ EnableCapture \/ StartCapture \/ BringUpDone \/ BackoffOver

Swapping ==
  \/ CheckPending \/ ChangeMode \/ SwitchMode \/ ReleaseWriters
  \/ GraceOver \/ SwapCreate \/ PublishFlow

Looping ==
  TornDown \/ LoopUp \/ LoopEnds \/ CheckLoss \/ ResetStreams \/ RestartLoss

Supervisor == BringingUp \/ Swapping \/ Looping

\* The channel has been stopped for good, or the process has ended.
Ended == sup \in {"stopped", "crashed"} /\ UNCHANGED vars

Next == Environment \/ Callbacks \/ Supervisor \/ Ended

Spec == Init /\ [][Next]_vars

(***************************************************************************)
(* Fairness.  The supervisor and a callback that has started run on by     *)
(* themselves.  A card whose streams run delivers a frame per frame        *)
(* period, and reports a mode it detected between two of them: that may be *)
(* interrupted by every frame and is strongly fair.  Time passes.  Nothing *)
(* is assumed of the signal and the owner.                                 *)
(***************************************************************************)
Fairness ==
  /\ WF_vars(Supervisor)
  /\ WF_vars(CallbackRuns)
  /\ WF_vars(Frames)
  /\ SF_vars(FormatChange)
  /\ WF_vars(TimeoutPasses)

FairSpec == Spec /\ Fairness

-----------------------------------------------------------------------------
(* Properties.                                                             *)

SupPcs == {"loop", "bringCreate", "threw", "open", "enable", "start", "up", "backoff",
           "pending", "loss", "reset", "store", "stopTear", "stopped", "crashed"}
          \cup SwapPcs
FlowIds == [name : Modes \cup {NoMode}, n : Nat]
WriterSets == [mode : Modes \cup {NoMode}, id : FlowIds]

\* The type of every variable.
FlagTypes ==
  /\ capture \in BOOLEAN /\ streams \in BOOLEAN /\ running \in BOOLEAN
  /\ streamingUp \in BOOLEAN /\ valid \in BOOLEAN /\ locked \in BOOLEAN
  /\ overtaken \in BOOLEAN

CountTypes ==
  /\ changes \in 0..MaxSignals /\ fails \in 0..MaxFails /\ lives \in Nat
  /\ counter \in Nat /\ lossSince \in 0..2

ModeTypes ==
  /\ sig \in Modes \cup {NoMode} /\ cardMode \in Modes /\ reported \in Modes
  /\ change \in Modes \cup {NoMode} /\ mode \in Modes \cup {NoMode}
  /\ pending \in Modes \cup {NoMode} /\ frame \in Modes \cup {NoMode}

FlowTypes ==
  writers \in WriterSets /\ made \subseteq WriterSets /\ active \in FlowIds

PcTypes ==
  /\ sup \in SupPcs
  /\ lock \in {"free", "frame", "supervisor"}
  /\ state \in {"init", "healthy", "degraded", "failed"}
  /\ cb \in {"idle", "gate", "writing", "change"}
  /\ hk \in {"idle", "using"}

TypeOK == FlagTypes /\ CountTypes /\ ModeTypes /\ FlowTypes /\ PcTypes

\* A channel that is down (waiting for its next attempt, between a failed
\* format change and the next bring-up, or stopped) holds no capture session
\* and no flow, and no callback of an earlier session is running: every error
\* path of bringUp and tearDownStreaming gives back what the steps before it
\* took.
DownHoldsNothing ==
  \/ sup \in {"backoff", "stopped"}
  \/ sup \in {"loop", "loss"} /\ ~streamingUp
  => /\ ~capture /\ ~streams /\ ~valid
     /\ writers = NoWriters
     /\ cb = "idle" /\ lock = "free"

\* While handleFrame writes, the writers it uses were made for the mode that
\* the channel takes the frame for (_currentMode decides on fields, rate and
\* ancillary lines) and for the format the frame has, whatever changes, failed
\* exchanges and bring-ups went before.  Excepted are writers that were made
\* valid although a further change had been reported: createWriters opens the
\* gate that the later change has closed.
FrameFitsWriters ==
  cb = "writing" /\ writers # NoWriters /\ ~overtaken
    => writers.mode = mode /\ writers.mode = frame

\* Writers that a frame is being written to are not exchanged under it.
WritersStay ==
  [][cb = "writing" /\ cb' = "writing" => writers' = writers]_vars

\* A flow id stands for one mode in all lives of the channel: MXL flows cannot
\* change their rate or resolution (performFormatChange's signature).
FlowKeepsMode ==
  \A a, b \in made : a.id = b.id => a.mode = b.mode

\* stop comes to an end, grace period, delays and format changes included,
\* unless the process ends first.
StopCompletes == ~running ~> (running \/ sup \in {"stopped", "crashed"})

\* When the signal stays in one mode and the process lives on, a channel that
\* follows the signal ends up writing flows of that mode, in state Healthy,
\* whatever changes, short and lasting losses and failures came before.  (Where
\* a failed exchange and a lasting loss meet, the process may end: the streams of
\* a session that is gone are restarted, input_channel.cpp:186.)
SettlesOnSignal ==
  \A m \in Modes :
    <>[](sig = m /\ running /\ FormatDetection[lives] /\ sup # "crashed")
      => <>[](/\ valid /\ writers.mode = m /\ mode = m
              /\ state = "healthy" /\ locked /\ lossSince = 0)

\* While the signal stays away and the process lives on, the streams are
\* restarted again and again.
LossIsReset ==
  <>[](sig = NoMode /\ running /\ sup # "crashed") => []<>(sup = "reset")

=============================================================================
