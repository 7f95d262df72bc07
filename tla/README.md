# mxl-decklink in TLA+

mxl-decklink bridges Blackmagic DeckLink SDI cards and MXL shared-memory flows.
An *input* channel captures SDI and writes MXL flows; an *output* channel reads
MXL flows and plays them on SDI.  This directory models the bridge's own logic,
model-checks it on small instances and proves the properties that matter most
for every size.

Source paths below are relative to `src/src/`, the program's source directory.

## 1. Inventory

| component | state | operations | hard behaviour |
|---|---|---|---|
| **Output channel** `channel/output_channel.*` | readers per slot with `flowInvalid`/`stalled`, sync group, playback session, last picture, read positions, requests, published state | supervisor loop, `bringUp`, `tearDownStreaming`, `reopenInvalidReaders`, `superviseStalls`, `onFrameCompleted`, `onRenderAudio`, `housekeeping`, `stop` | four threads; flows vanish, come back, stop and resume; the card completes late; failures in every step |
| **Re-open schedule** `channel/reopen_schedule.hpp` | pending event, next open, failures | `flowInvalid`, `due`, `openFailed`, `clear` | retries against new events |
| **Input channel** `channel/input_channel.*` | capture session, writers, pending format change, signal-loss time, audio index | supervisor, `handleFrame`, `handleFormatChange`, `performFormatChange`, signal-loss reset | format change during the grace period, loss during a change |
| **Channel manager** `channel/channel_manager.*` | channels and their configuration | `startAll`, `stopAll`, `applyChannels`, `housekeeping` | all-or-nothing validation; two clients doing read-modify-write |
| **MXL bridge** `mxlbridge/*` | readers, writers, sync group, domains | open, read, write, wait | one cached reader per flow and instance; raw handles in the group |
| **DeckLink backends** `decklink/*` | frame pool, scheduled frames, callbacks | enable, schedule, start, stop | completions from SDK threads |
| **NMOS** `nmos/*` | node resources, job queue, stored routes | activation, worker, save and restore | durable saves; restart; queue at shutdown |
| **Configuration** `config/*` | layers of values, overlay file | load, update, import, export | replaced by rename; check and update apart |
| **Operations** `ops/*` | metrics, HTTP server, health | requests, housekeeping thread | runs beside every channel |
| **Process** `main.cpp` | start-up stage, exit code | card retry, staged shutdown | order of shutdown |
| **Utilities, web UI** `util/*`, `web/` | – | conversions, pages | – |

How they interact.  The supervisor thread of a channel owns the session and
the readers.  The card's two callbacks use them under `_callbackMutex`; they
never open or free a reader, they mark it, take it out of the sync group and
ask the supervisor.  An input channel's callback writes frames under
`_writerMutex`, which it only tries, and hands format changes to the supervisor.
The manager's lock covers `stop` and `housekeeping`.
NMOS and the web API change channels only through the manager: the web thread
applies the list the store holds, the NMOS worker the list it read from the
manager and changed.  Main starts everything in order, and stops it in another.

`PROJECT.json` lists every component and, under `hazards`, what is hard to test
in this code, with the property that covers each.

## 2. Modules

| module | content | composed with |
|---|---|---|
| `OutputChannel` | an output's threads, readers, sync group, requests, published state | external: MXL flows, the card |
| `ReadPosition` | which grain and which samples an output plays | the data that `OutputChannel` leaves out |
| `PlaybackSession` | the SDK session's frames, the callbacks and the teardown | the card's side of `OutputChannel` |
| `InputChannel` | an input's supervisor, callback, writers, format changes, signal loss | external: the capture session |
| `RouteStore` | abstract: the saved NMOS activations are one map, replaced whole | |
| `RouteState` | the file of the saved activations, system call by system call, with power loss | implements `RouteStore` |
| `ControlPlane` | channel manager, store, web API, NMOS worker, saved routes, main | composes five components; uses the routes as `RouteStore`'s map |
| `Lifecycle` | the process from start to exit code, its threads and what they use | main's side of all of them |
| `*Proofs` | the theorems of the module they are named after; `OutputReaderProofs` continues `OutputChannelProofs` | |
| `MC*` | the instances | |

All modules of the plan are written, and every safety property that a passing run
checks is proved (section 10).  Left to do: a model of the input's audio index,
and the store's file at the grain of `RouteState`.

A run is named after its `.cfg`.  `PROJECT.json` gives for every property a
mutant, a plausible mistake in the code that violates it; the runs that end in a
violation state what a comment or the specification says and the code does not do
(`findings` quotes the line).

## 3. Output channel: `OutputChannel`

### 3.1 State

Slot 0 is the video reader, slots 1..NAudio are the audio slots with a flow.
A reader handle is named by the *data file* it is open on.  `current[f]` is the
file a flow has now, so a slot is `Stale` when its handle is another one: that
is when MXL answers `MXL_ERR_FLOW_INVALID`.  MXL keeps one reader per flow and
instance and hands it out again while somebody holds it; `Opened` says so.

| variables | code |
|---|---|
| `handle`, `invalid`, `stalled`, `group` | `_videoReader`, `_audioFlows[].reader`, `flowInvalid`, `stalled`, `_sync` |
| `cfgFmt` | `_videoConfig`, `AudioFlowReader::config` |
| `sup`, `ret`, `want`, `got`, `old`, `err`, `tries` | supervisor's program counter and locals |
| `reopenRequested`, `resetRequested` | the atomics |
| `reopenClock`, `retryWait` | `ReopenSchedule`: pending (for a second: 2), next open not due |
| `stallClock`, `lateClock` | `_stallSinceNs`, `_lateSinceNs`: 0 off, 1 on, 2 on for a second |
| `state`, `reopenDegraded`, `stallDegraded`, `lateDegraded` | published state and its conditions |
| `session`, `inCard`, `lateCount` | `_playback` and its phase, frames the card holds, `_recentLateOrDropped` |
| `lastFrame`, `epoch` | the bring-up (modulo 2) that read `_lastFrame`; the current bring-up |
| `vcb`, `acb`, `hk` | where the completion, audio and housekeeping threads are |
| `reopens` | `flow_reopens_total`, per flow |
| `split` | history: flows that one re-open found for one slot and missed for another |

Times are abstracted to "less than a second" and "a second or more", because the
code compares with exactly that; what a read returns is any outcome the flow's
state allows, so grain indices are not part of this module.

### 3.2 Actions

One action per step another thread can see in between.  `FrameCompleted`,
`VideoWait` and `VideoRead` are the completion callback, `AudioStart` and
`AudioRead` (one slot each) the audio callback; a callback holds the mutex from
its first to its last action.  The supervisor's actions are the loop (`Sup*`),
`bringUp` (`BringUp*`, `Preroll*`, `StartPlayback`), the re-open (`Reopen*`,
split where the mutex is released) and the teardown (`TearDown*`, split where a
callback or housekeeping can get in).  `CreateFlow`, `RemoveFlow`, `WriteAgain`,
`SecondPasses`, `RetryDue` and `Stop` are the environment.  The steps of
`probeStreamTime` and the log lines change nothing that is modelled.

A preroll read that shows nothing is repeated at most `MaxTries` times before
the deadline: the number of repetitions is bounded by time in the code.

### Properties and runs

| run | instance | shows |
|---|---|---|
| `OutputReaders` | video + 2 audio slots on one flow, two formats, flows vanish, 3 files, failing sync group | `NoDanglingReader`, `GroupIsWaitable`, `FaultsArePursued` |
| `OutputShared` | the same slots, one format, flows vanish, 3 files, preroll 2, refused frames | `SharedReaderActsAsOne`, `LiveSourceIsAwaited`, `EventPerRecreation`, `NoOldPicture` |
| `OutputLiveness` | video, flows vanish, conditions that last, housekeeping | `StateReflectsConditions`, `StopCompletes`, `InvalidIsReopened`, `ResetHappens`, `DegradedEnds` |
| `HousekeepingRace` | video, one file | a violation of `SessionOutlivesItsUse`, see 3.3 |

Bounds.  Two audio slots on one flow are the smallest instance in which slots
share a reader.  `MaxFiles` is the number of data files ever created: 3 with two
flows lets one flow go, come back and go again, so its re-open fails and is retried
at every point.
The order of the threads' steps is not bounded.  A preroll of 2 is the smallest
in which the pipeline can be short without being empty.  `LateThreshold` is 25 in
the code; below it a late frame changes nothing but the count, which only this
callback reads, so with 1 a reset can still be asked for at any frame or not.
`reopens` saturates above what `EventPerRecreation` compares it with.

`FaultsArePursued` joins what the callbacks leave to the supervisor: a stalled
reader has a running clock, an invalid one a request, a pending event or a retry.
`SharedReaderActsAsOne` says that slots of one flow lose and stall their common
reader together, `EventPerRecreation` that a flow is not counted more often than its
data files were removed, whatever the number of retries.  Both except the flows in
`split`, for which the code does not keep them (3.3).

### Fairness

The supervisor and a callback that has started go on by themselves (weak
fairness).  The three supervisor steps that take `_callbackMutex` are strongly
fair: every callback gives the mutex back and they come once per frame period,
not back to back.  A retry delay ends.  Nothing is assumed of the writers, the
owner or the card: `InvalidIsReopened` says in its own premise that the flow is
there and stays.

### 3.3 What the code does not keep

`HousekeepingRace`: housekeeping uses `_playback` without a lock while the teardown
moves and frees it.

Further observations, without a run:

* A flow comes back between the opens of two slots that read it, so
  that the re-open installs one and retries the other (`output_channel.cpp:1438`,
  `1475`).  When the flow goes again before the retry, the retry gets the first
  slot's stale reader back, and from then on the slots hand it to and fro: each time
  one slot's reader is counted as another re-creation, against SPECIFICATION.md:84,
  and a stalled handle may return to the sync group.  The properties of shared
  readers except these flows (`split`).
* A late completion after the supervisor took the reset request, and before
  `_playing` is cleared, leaves a request that resets the next session
  (`output_channel.cpp:1061`, `265`).  `ResetHappens` says only that none is lost.
* `LiveSourceIsAwaited` is checked without a failing `addReader`: the code only
  logs it and the reader stays out of the group until the next session (`1562`).

## 4. Read positions: `ReadPosition`

The grain index `_nextGrainIndex` and the end of the samples `_audioEndFrame`, from
`bringUp` (`BringUp`, `CappedOffset` for `capReadOffset`) over the preroll
(`PrerollShown`, `PrerollMissed`) to playback (`FrameCompleted`, `RenderAudio`,
`AudioReset`).  `Reads` is the decision of `scheduleGrain` on what a read returns:
show, repeat, slip behind a late source, `CatchUp` and `ResumeAt` a source that is
ahead.  `Write` lets the source write a grain, mark it invalid, or leave some out.

A frame of samples is one unit (the code keeps `_audioEndFrame` in frames); how
many samples a frame has is left out.  The history is MXL's ring, of which the
newest `Grains - 2` grains can be read.  Whether a source is late or has stopped, and how
long it has been ahead, is a matter of time and left open.  The code's unsigned
subtractions are integers here, and that no position goes below zero is part of
what is proved (`TypeOK`); `audio` alone may start below zero and is cut off there
as in the code.

| run | instance | shows |
|---|---|---|
| `ReadPosition` | preroll 2, offset 2, 4 readable grains, source up to grain 7, 4 frames, one fault | `SyncedFromStart`, `LipSync`, `PicturesInOrder`, `SkipsToSource` |

The source starts at grain 2, so the first start is cut off at grain zero; seven
grains let the position fall out of the history and catch up; four frames are the
preroll and two more, one to slip and one to skip.  No deadlock check: the bounded
source and the bounded number of frames end the behaviour.

Observations: a frame the card refuses leaves the picture a frame ahead of the
sound for good (`SyncedFromStart` counts it in `lost`); the audio's reset when its
samples have left the history assumes that the card holds preroll - 1 frames more
than blocks (`1228-1234`), so it may leave a constant skew.

## 5. Playback session: `PlaybackSession`

| variables | code |
|---|---|
| `pool`, `scheduled`, `inFlight`, `nextId` | `_framePool`, `_scheduled`, `_inFlight`, `_nextFrameId` of `SdkPlaybackSession` |
| `queue`, `runs`, `registered` | the card: frames in display order, playing or flushing, the callback set (external) |
| `work`, `cb`, `audio` | where `scheduleFrame`, `ScheduledFrameCompleted`, `RenderAudioSamples` are |
| `sup`, `session`, `owned`, `playing`, `reset`, `lock` | the channel: supervisor's place, the object, `_playback`, `_playing`, `_resetRequested`, `_callbackMutex` |
| `drains` | whether clearing a callback at the card waits for a running one: the SDK does not say, so both |
| `reported`, `early`, `refused` | history |

`scheduleFrame` is cut between taking a frame, filling it, registering it,
submitting it and keeping it, where the card may complete a frame.  The teardown is
cut at every call (`TearDown`, `StopPlayback`, `Unset`, `Disable`, `TakeSession`,
`FreeSession`).

| run | instance | shows |
|---|---|---|
| `PlaybackSession` | 3 frames, preroll 2, 5 ids, 2 sessions | `FramesAccounted`, `PipelineKept`, `TearDownIsSafe`, `ReportsInOrder`, `TearDownEnds` |

One frame more than the preroll makes a frame too many visible; five ids are two
rounds of the preroll and one more; a second session follows the first with its
leftovers.  Fairness: a call of `scheduleFrame` goes on (weak); callbacks and the
teardown need the mutex, which is released again and again (strong).

Observations.  Frames that complete between `startPlayback` and `_playing = true`
(`708`) are not replaced; the pipeline is shorter from then on, and empty, though
Healthy, if all of them do.  `PipelineKept` excepts them (`early`).  The comment at
`740` covers a callback that already holds `_callbackMutex`; one that is in the
session but not yet in the channel is left with a freed object unless clearing the
callback waits (`CallsOutlived`).  After `disable()` a running `scheduleFrame` may
put a frame back into the cleared lists; the destructor's second `disable` clears
them.

## 6. Input channel: `InputChannel`

### State and actions

| variables | code |
|---|---|
| `sig`, `changes`, `fails` | the signal on the connector (`NoMode`: none); bounds |
| `capture`, `streams` | `_capture` exists; the card calls back |
| `cardMode`, `reported` | the mode the card captures; the mode it last reported or was set to |
| `running`, `streamingUp`, `lives` | the atomics; how often the owner has created the channel |
| `sup`, `change` | the supervisor's place; `fc` of `performFormatChange` |
| `mode`, `writers`, `valid`, `lock` | `_currentMode`; the writers (mode and id they were made for); `_writersValid`; holder of `_writerMutex` |
| `counter`, `pending` | `_formatChangeCounter`, `_pendingFormatChange` |
| `state`, `locked`, `active` | published state, `signalLocked`, `activeVideoFlowId` (and what NMOS was told) |
| `lossSince` | `_signalLossSinceTai`: 0 unset, 1 set, 2 set for the timeout |
| `cb`, `frame`, `hk` | where the callback and housekeeping are; the mode of what the callback handles |
| `made` | history: flows created and their mode |
| `overtaken` | history: the writers were made valid over a change already reported, or a frame already past the gate |

`FrameNoSource`, `FrameArrives`, `FrameLocks`, `FrameWritten` are `handleFrame`,
cut at the test of `_writersValid`, the `try_lock` and the end of the write;
`FormatChange` and `FormatChangePosted` are the two stores of
`handleFormatChange`.  The supervisor's actions are the steps of `bringUp` (one
per call that may fail, each with its own clean-up), of `performFormatChange`
(cut at every store another thread reads) and of the loop.  The card delivers
frames in the mode it captures; it flags all frames without a signal, and may or
may not flag those of a signal in another mode.  `StopStreams` returns when no
callback is running; `PauseStreams` and `resetStreams` are not assumed to wait.
The legs of a channel are one `writers`; grain indices, the audio index and the
hardware clock are abstracted.

### Properties and runs

| run | instance | shows |
|---|---|---|
| `InputChannel` | a life that follows the signal and one in a fixed mode, overlapping changes, 2 signal changes, losses that last, 2 failing calls anywhere, housekeeping | `DownHoldsNothing`, `FrameFitsWriters`, `WritersStay`, `SettlesOnSignal`, `StopCompletes`, `LossIsReset` |

Two modes are enough: a change needs another mode, an overlapping one may go
back.  The signal starts in the configured mode, in the other, or is missing; two
changes then let a loss be followed by a return, or one change overlap with another.
Two failing calls let an exchange fail and the bring-up after it.  Two lives let the counter of derived ids start again; a
life may follow the signal (`FormatDetection`) or not, and keeps the configured ids
and start mode.

Fairness.  Supervisor and callback run on (weak).  A card whose streams run
delivers frames (weak), and reports a mode it detected although frames come all
the time (strong).  The timeout passes, but not while a card that captures a
signal withholds its frames: a frame period is milliseconds, the timeout seconds.

### What the code does not keep

Observations, without a run of their own; the properties except them and nothing
else:

* A failed exchange of flows takes the capture session down, and the same pass of
  the loop calls `resetStreams` on it (`input_channel.cpp:186`) when a signal loss
  has lasted.  The model ends there (`sup = "crashed"`); `SettlesOnSignal`,
  `LossIsReset` and `StopCompletes` are about processes that live on.
* A change reported during another one closes the gate for frames (the comment at
  `629` says grains stop at once), and the other one's `createWriters` opens it; the
  mode of card and channel then changes under a frame being written (`678`, `400`,
  `631`).  `FrameFitsWriters` excepts exactly the writers made valid that way
  (`overtaken`), and `SettlesOnSignal` shows that the channel ends up in the right
  mode.
* After a failed change the configured flow is written while status and NMOS name
  the derived one (`221`, `688`; SPECIFICATION.md:194).  No property speaks of the
  published id: in a life without a failed change it is assigned with the writers.
* After a failed change housekeeping may use a freed capture session, as for the
  output (`731`).
* `Healthy` is set at the end of a bring-up and of a format change without a look
  at the signal, and a loss is published only when it begins (`286`, `717`, `431`);
  SPECIFICATION.md:184 and 418 describe the state as following the signal.
* Line 187 stores the time of a loss that a frame has ended meanwhile; the next
  loss is then not published.

## 7. Saved routes: `RouteState` implements `RouteStore`

`RouteStore` is what the NMOS node needs: a map of activations that is replaced as
a whole, survives the process, and after a power loss is a value it once had.
`RouteState` is `route_state.cpp`: `Load`, `SetAside` (a broken file is renamed),
`Save`, and of `writeLocked` one action per system call (`OpenTmp`, `WriteTmp`,
`FsyncTmp`, `Rename`, `SyncDirectory`, `SaveFails` at each).  The file system
(external) has for data and directory what processes see and what is on the disk;
`WriteBack` and `CommitDirectory` move either at any time, `Kill` and `PowerLoss`
come at any step.

The refinement mapping reads both sides as a load would:
`file <- Parse(dir, data)`, `durable <- Parse(diskDir, diskData)`.

| run | instance | shows |
|---|---|---|
| `RouteState` | 2 legs, 2 routes, 3 inodes, symmetry | `SavedRouteSurvives`, `BrokenFileIsKept`, `StoreSpec` |

Three inodes: the file, a temporary one, and the one the disk still has; with two
legs a save of one can lose the other.  Nothing else is bounded.  Symmetry is
sound: no definition names a leg, a route or an inode, and no property is a
liveness property.

## 8. Control plane: `ControlPlane`

| variables | code |
|---|---|
| `layer`, `EnvFlow` | the file layer of `ConfigStore`, the environment over it |
| `entries`, `run`, `started`, `mutex` | `ChannelManager`: configurations, channel objects, `_started`, the mutex while `applyChannels` holds it |
| `web`, `flag`, `global` | the web thread in `apiConfigPut`/import, `_restartRequired`, the configuration the process runs with |
| `jobs`, `worker`, `legs` | the activation queue, the NMOS worker, the channels that have legs |
| `routes` | `RouteState`, as the map of `RouteStore` |
| `main`, `lives` | main between start and exit; restarts |

`Put`, `Import`, `PutRefused`, `PutApplies`, `PutAnswered` are the requests;
`RemoveEntry` and `ChangeEntry` are the steps of `applyChannels`, entry by entry;
`Enqueue` to `WorkerPersists` are the worker: read, apply, save the route, read
again, write the configuration.  `NodeStarts` restores routes and parks outputs
without a flow.  `Crash` comes at any time.

| run | instance | shows |
|---|---|---|
| `ControlPlane` | an input and two outputs, two sub-devices and one off the card, one flow set by the environment, one request, one activation, two lives | `RunsAsConfigured`, `SubDevicesAreOwned`, `RestartIsAnnounced`, `RestartResumes`, `ShutdownEnds` |
| `OthersUntouched` | the same, one life | a violation |

Bounds.  A request and an activation in any interleaving are the races there are
between the two clients; a second life sees what they left.  The edits move a
channel to a sub-device or a flow that another channel has, off the card, or switch
it off.  Fairness: every thread goes on (weak), a lock is held for a bounded time.
No deadlock check: after the last life nothing happens.

`OthersUntouched` quotes SPECIFICATION.md:452: a change stops and starts only the
channel it names.  The list a PUT applies is the store's, which lacks what only the
manager has (a parked output, the domain an activation named).

Observations: a PUT that the card refuses (`webapi.cpp:477-482`) is in the file
already, and its restart is not announced (`RestartIsAnnounced` excepts it; compare
SPECIFICATION.md:446); the next start then fails at the card and ends with 75.  The
worker's read-modify-write (`node.cpp:720-737`) may undo a PUT.  `applyChannels`
works entry by entry, so two channels that exchange sub-devices share one in
between: `SubDevicesAreOwned` is about the time outside of it.  Activations do not
check that a flow is used once.  Activations still queued at a shutdown are
dropped.  An activation is applied before it is written (SPECIFICATION.md:454 has
it the other way round).  The wake-up in `Node::stop` (`node.cpp:1163`) is given
without the mutex and may be missed: `ShutdownEnds` excepts this worker, and
`Lifecycle` shows that the watchdog ends the process.

## 9. Process: `Lifecycle`

`main` walks through the start (`ReadConfig`, `AdoptDomain`, `WriteDomainDef`,
`CreateInstance`, `OpenCard` with its retries, `ApplyProfile`, `MakeManager`,
`StartNode`, `NodeReady`, `StartAll`, `StartWeb`, `CheckPorts`); every step may fail and return
through the destructors (`Unwinding`).  The loop ends on a signal or a profile
change, and the `stages` of the shutdown follow, under a watchdog.  `hk`, `web`,
`worker`, `input` are the threads, reduced to the objects (`obj`) they use;
`activations` are the driver's profile callbacks, `self` the flag by which the
program tells its own change; `dir` is `domain_def.json`, which outlives the
process.

| run | instance | shows |
|---|---|---|
| `Lifecycle` | five settings, one retry, one profile change, two lives | `UsesAreAlive`, `ExitCodeTells`, `DomainKeepsItsId`, `ShutdownEnds` |
| `NodeRace` | the same, one life | a violation of `GateFindsTheNode`, see below |

The settings switch NMOS, registration, channels, profile, clean-up and scan root
off or on in turn; one of them has a card with two profile managers.  Two lives let
the second find what the first left.  Fairness (weak): main, the watchdog and the
threads go on; a peer that blocks the web thread need not let go.  No deadlock
check: after the last life nothing happens.

A request may be one for `/readyz`, which asks the node whether it is registered:
`ReadyGate` is its look at main's pointer, `GateLeft` the return from the node.  A
profile change, ours or another program's, calls back through one manager or more,
up to the `managers` of the setting, since the SDK does not say through how many.

What the code does not keep:

* `NodeRace` (`GateFindsTheNode`): the readiness gate (`main.cpp:259-268`) uses the
  node in the web thread while the staged shutdown frees it (`384-388`), before it
  stops the web server (`390`).  `UsesAreAlive` says that this window, while main
  waits for the web thread, is the only one of the staged shutdown.
* The profile callback is registered with every sub-device's manager
  (`sdkbackend.cpp:1059-1066`) and takes only the first call after `SetActive` for
  its own (`1077`); on a card that calls back through several managers a second one
  counts as another program's change and ends the process with 2, against
  SPECIFICATION.md:200.  No run of its own: `ExitCodeTells` says that a configured
  profile on such a card is the only way to a 2 without another program.

Observations.  On an early return after `startAll` (`main.cpp:324-339`) the node is
destroyed before the channels, and an input's handler uses it
(`nmos/node.cpp:1126`): the other window of `UsesAreAlive`.  On an early return there
is no watchdog, so the missed wake-up hangs.  A shutdown for a profile change that
the watchdog overtakes ends with 143 and not with 2: SPECIFICATION.md:208 and the
table at README.md:167 say so of the watchdog, SPECIFICATION.md:200 makes no
exception for it; `ExitCodeTells` allows this 143 and no other without a signal.

## 10. Proofs

`OutputChannelProofs` proves for every number of slots and flows, every
assignment of flows to slots, every set of formats, preroll, threshold and
bound allowed by `ConstantsOK`:

* `TypeCorrect`: `TypeOK`;
* `PipelineIsBounded`: the card holds at most the preroll;
* `GroupWaits`: while callbacks can use the group it holds only readers that
  are open, valid and not stalled;
* `GroupHoldsNoFreedReader`: no reader is released while it is in the group;
* `ReopenTakesOverStall`: no reader is invalid and stalled.

`ConstantsOK` assumes that the video's flow is no audio flow (they differ in
format) and that the constants have their types.  The invariant is
`Inv == TypeOK /\ SessionInv /\ PipelineInv /\ ReaderInv` together with
`ReopenTakesOver`:

* `GroupIsWaitable` alone is not inductive: a re-open adds what it opened to the
  group, so `ReaderInv` says that `got` has entries only for invalid slots; a
  teardown empties the slots before the group, so it says that meanwhile the
  group is within `old`; a bring-up fills the slots before the group, so the
  group is empty while the channel is down.
* The video's stall flag is not cleared when its reader is installed:
  `ReopenTakesOver`, inductive by itself, says it need not be.
* `SessionInv` ties the session's phase and the callbacks to the supervisor's
  place: callbacks run only in a session that can call, hence not while the
  group is being taken apart.
* `PipelineInv` counts frames: during the preroll fewer than `Preroll`,
  afterwards a callback replaces the frame it took.

There is one lemma per part of `Next` and in it one step per action.  `TypeOK`
is a conjunction of parts that hold Booleans or numbers, each a step of its own.

`OutputReaderProofs` goes on from `Base == Inv /\ ReopenTakesOver`; each theorem
has an invariant of its own, inductive relative to `Base`:

* `StateIsTrue` (`StateReflectsConditions`), by `StatusInv`: a channel that is
  coming up knows of no condition yet and is never parked;
* `PicturesAreNew` (`NoOldPicture`), by `PictureInv`: the picture of the session
  before is dropped before the first preroll frame, and by then no callback of
  that session is left to bring it back;
* `FaultsAreNotForgotten` (`FaultsArePursued`), by `StallInv` and `PursuitInv`:
  while the supervisor re-opens, an invalid reader is in `want`, in `got` or
  asked for again, and the event stays pending;
* `LiveSourcesAwaited` (`LiveSourceIsAwaited`), inductive relative to the others;
* `SharedReadersActAsOne`, by `SharedInv`, for the slots of a flow that is not in
  `split` (`Mates`): open ones share handle and flags (`TwinInv`); they have a reader
  together or none, unless a re-open ended in a reset, and an empty one is being
  re-opened (`OpenInv`); a flow being re-opened has no reader left in any of them
  (`HandsInv`);
* `RecreationsCountedOnce` (`EventPerRecreation`), by `CountInv`: the re-opens of a flow are covered by its data files before the
  current one and before any open one; an invalid reader leaves room for one more.

Their common lemma is that every wait and read is a `ReaderStep`: it changes no
reader, marks all slots of some stale flows invalid, or stalls or resumes a set
of slots that holds with a slot every other one of its handle.  `FileInv` says
that readers are open on existing files of their flow.

`InputChannelProofs` proves for every set of modes and every number of signal
changes, failures and lives allowed by the module's `ConstantsOK`:

* `InputTypeCorrect`: `TypeOK`;
* `DownIsClean`: a channel that is down holds nothing (`DownHoldsNothing`);
* `FlowsKeepTheirMode`: no flow id stands for two modes;
* `WritersStayWhileWritten`: writers are not exchanged under a frame, also when
  format changes overlap;
* `FramesFit`: frames fit their writers unless a change overtook these
  (`FrameFitsWriters`).

The invariant is `Inv == TypeOK /\ SessionInv /\ LockInv /\ ModeInv`: the place of
the supervisor tells whether callbacks can run, who holds the mutex and what has
been created (`DownHoldsNothing` says it only of some places).  `MadeInv` adds
that ids are either the configured one, always in the start mode, or carry their
mode and a counter above 0.  `FitInv` holds the argument for frames: the callback
thread itself closes the gate when it reports a change, so no later frame is past
it until new writers are there; if these were not made over a further report, card,
channel and writers have one mode then, and an earlier frame has ended.

`RouteStateProofs`, for any sets of legs, routes and inodes: `RouteTypes`,
`SavedRoutesSurvive`, `BrokenFilesAreKept`, and `ImplementsStore`, the refinement.  `FsInv` says where
the names can point while a save is under way (`OneName`: no inode has two names;
`Settled`: what the file's name stands for is on the disk and not being written;
`Progress`: what each step of the save has put into the temporary file).  `Inv` adds `Remembered`,
that memory holds every route saved, because a save writes all of it.
`BrokenInv`: as long as every broken file could be renamed there is at most one,
it is whole on the disk and both directories name it, as the file or set aside;
`FileWhole` is what keeps a torn file of ours from becoming a broken one.

`ReadPositionProofs`, for any preroll, offset, history and source: `PositionTypes`,
`LipSyncHolds`, `StartsInSync`, `PicturesComeInOrder`, `SkipsEndAtSource`,
`PrerollStartsInHistory`.  `Positions` is `TypeOK`, `ReadsOn` (the position is
behind no grain shown) and `Counted` (how many frames and blocks there can be in
each phase); lemmas say what each operator of a read may return.

`ControlPlaneProofs`, for any channels, sub-devices, flows, edits, requests and
lives, from `ControlAssumption` and `StartFileAssumption` (the first start is given
a file it accepts): `ControlTypes`, `ChannelsRunAsConfigured`, `FileStaysLoadable`,
`ChannelsOwnSubDevices`, `RestartsAreAnnounced`, `RestartsResume`.  `RunInv`: entry and object change together also inside
`applyChannels`, and nothing is started while the node restores.  `SubInv`: whoever
is in `applyChannels` has a list whose sub-devices are owned.  The web's passed both
validations; the worker's has the sub-devices of the entries it read, since
activating, restoring and parking do not touch them.  `AnnounceInv`: a request being
applied is about the file as it is, and stands for the announcement until it is
answered.  `KeptInv`, with the threads' places (`ThreadInv`) and the validity of
saved routes (`RouteInv`): while the web API has not changed the file, the entries
are the file's channels and each `Agrees` with the file and its saved route; the
one being activated agrees with the activation that is about to be saved.

`PlaybackSessionProofs`, for any frames, preroll and number of sessions:
`SessionTypes`, `TearDownSafe`, `NoFrameOverwritten`, `CompletionsInOrder`,
`EveryFrameAccounted`, `PipelineStaysFull`.
`PlaceInv` ties callbacks, mutex, session and registration to the supervisor's
place; `FrameInv` says that a frame is in one place; `OrderInv` that ids grow along
the card's queue, between the last reported and the next one.  `ListInv` says what
the session's lists hold at each place, so a frame is only created while fewer than
the preroll are in use (`CountInv`); `PipeInv` counts from the start of the playback,
before `_playing` is set, since a completion may come that early.

`LifecycleProofs`, for any configurations, profile managers, retries, profile changes
and lives: `LifecycleTypes`, `ThreadsUseLiveObjects` (`UsesAreAlive`), `DomainIdIsKept`
(`DomainKeepsItsId`) and `ExitCodesTell`.
`Inv == TypeOK /\ StageInv /\ StartInv /\ UseInv /\ EndInv`: the stages that are left
are the last ones of their order, that of the shutdown or that of an early return
(`StageInv`); main's place tells which objects exist (`StartInv`); a live thread has
what it uses, and the stage that ends it is ahead of those that destroy it
(`UseInv`); what is still alive has the stage that destroys it ahead (`EndInv`).  The
node's users are the exception: `UseInv` keeps the node for them as long as the stage
that frees it is ahead, so a gate or a handler without it pins down how many stages
are left, and with that the one main is at (`GateWithoutNode`, `HandlerWithoutNode`).
`ProfileInv` adds that, unless another program changed the profile or a configured
one makes several managers call, the one callback under way is that of our own
change.

Some definitions are stated by theorems and no longer by a run of their own, since
the proof covers every instance: `TypeOK` of each module, `PipelineBounded`,
`ReopenTakesOver`, `FlowKeepsMode`, `StartsInHistory`, `FileIsLoadable`,
`PoolIsFree` (part of `FramesAccounted`).

No theorem assumes the value of a constant.  Where the code does not keep a property
everywhere, the property itself names the case: `split` (section 3.3), `overtaken`
(section 6), the two windows of the node and the cards with several managers
(section 9), and `~AddReaderFails` in `LiveSourceIsAwaited`.

Only model-checked: liveness, because fairness is outside the prover.  These are
`StopCompletes`, `InvalidIsReopened`, `ResetHappens`, `DegradedEnds`,
`SettlesOnSignal`, `LossIsReset`, `TearDownEnds` and both `ShutdownEnds`.

## 11. Not modelled

* Pixel, PCM and ancillary conversions, time and text helpers: pure functions.
* JSON and transport-file text of the NMOS resources, the registration with a
  registry (the NMOS library), metrics, health and status reports: they only read.
* Parsing of configuration keys and of HTTP requests; the web UI.
* The mock backend's signal generator, card enumeration, the hardware clock.
* The scan for other domains beyond what it finds (`Domains`), flow definitions.
* The input's audio index and its resynchronisation.
* The configuration file's replacement is one step: the store writes without a
  sync (`store.cpp:282-323`), so after a power loss the file may be empty, unlike
  the saved routes.  Import takes its keys and its update under separate locks.
* An unreadable `connections.json` is treated as a first start; the model has
  broken contents, not unreadable files.
* Sending has no timeout in the single-threaded server (`httpserver.cpp:261-269`):
  `Lifecycle` has the blocked thread, not the requests that wait behind it.
