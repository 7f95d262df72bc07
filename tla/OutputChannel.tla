---------------------------- MODULE OutputChannel ----------------------------
(***************************************************************************)
(* One output channel (src/channel/output_channel.cpp): MXL flows are read *)
(* and scheduled on a DeckLink card.  Four threads share its state:        *)
(*                                                                         *)
(*   - the supervisor (supervisorLoop): brings the session up, re-opens    *)
(*     the readers of re-created flows, keeps the published state, resets; *)
(*   - the card's completion callback (onFrameCompleted): replaces every   *)
(*     frame shown by the next one;                                        *)
(*   - the card's audio callback (onRenderAudio);                          *)
(*   - the process' housekeeping thread (housekeeping).                    *)
(*                                                                         *)
(* The environment is the writers of the flows, which create, remove and   *)
(* re-create data files and stop and resume writing, the card, the passing *)
(* of time, and the owner of the channel, which stops it.                  *)
(*                                                                         *)
(* Slot 0 is the video reader, slots 1..NAudio are the audio slots with a  *)
(* flow (a slot with the nil UUID has no reader and takes part in          *)
(* nothing).  A reader handle is named by the data file it is open on: MXL *)
(* keeps one reader per flow id and instance and hands that one out again  *)
(* while any holder keeps it.  Grain indices, and with them which grain is *)
(* read, are abstracted: a read may have any outcome its flow allows.      *)
(***************************************************************************)
EXTENDS Integers, FiniteSets

CONSTANTS
  NAudio,          \* audio slots with a flow
  NFlows,          \* flows the channel reads
  FlowOf,          \* the flow each slot reads
  Formats,         \* formats a flow may have
  MaxFiles,        \* bound: data files the writers ever create
  ClockLimit,      \* bound: 2, or 1 when no condition lasts for a second
  Preroll,         \* CHx_OUTPUT_PREROLL_GRAINS
  LateThreshold,   \* kLateThreshold: late or dropped frames that ask for a reset
  MaxTries,        \* bound: preroll reads that show nothing before the deadline
  Housekeeping,    \* does the housekeeping thread run?
  FlowsVanish,     \* may a flow be missing, or is it re-created in one go?
  AddReaderFails,  \* may adding a reader to the sync group fail?
  ScheduleFails    \* may the card refuse a frame?

Video == 0
AudioSlots == 1..NAudio
Slots == 0..NAudio
Flows == 1..NFlows
FileIds == 1..MaxFiles
None == 0        \* no reader; no data file; no picture to repeat

ASSUME ConstantsOK ==
  /\ NAudio \in Nat /\ NFlows \in Nat
  /\ FlowOf \in [Slots -> Flows]
  /\ \A s \in AudioSlots : FlowOf[s] # FlowOf[Video]
  /\ MaxFiles \in Nat /\ NFlows <= MaxFiles
  /\ ClockLimit \in 1..2
  /\ Formats # {}
  /\ Preroll \in Nat \ {0}
  /\ LateThreshold \in Nat \ {0}
  /\ MaxTries \in Nat \ {0}
  /\ Housekeeping \in BOOLEAN
  /\ FlowsVanish \in BOOLEAN /\ AddReaderFails \in BOOLEAN
  /\ ScheduleFails \in BOOLEAN

VARIABLES
  \* The flows: data files created so far, what each is, and the one each
  \* flow has now.  idle: files of stalled readers not written since then.
  files, file, current, idle,
  \* The readers (under _callbackMutex while playback runs).
  handle, invalid, stalled, group, cfgFmt,
  \* The supervisor: program counter, what follows a teardown, slots still to
  \* open, readers opened and not installed, readers waiting for release.
  sup, ret, want, got, old, err, tries,
  \* Requests to the supervisor.
  reopenRequested, resetRequested,
  \* Clocks, 0 = off, 1 = running, 2 = running for a second or more; and
  \* whether the next open of ReopenSchedule is not due yet.
  reopenClock, retryWait, stallClock, lateClock,
  \* The published state and the conditions it is made of.
  state, reopenDegraded, stallDegraded, lateDegraded,
  \* Lifetime flags.
  mxlActive, running, streamingUp, playing,
  \* The card session, its frames, and the picture that would be repeated
  \* (the number, modulo 2, of the bring-up that read it).
  session, inCard, lateCount, lastFrame, epoch,
  \* Callbacks in progress, housekeeping in progress, re-open counter.
  vcb, acb, hk, reopens,
  \* History: flows of which a re-open has opened some slots and missed others,
  \* as their writer came back in between.
  split

flowVars    == <<files, file, current>>
readerVars  == <<handle, invalid, stalled, group, cfgFmt>>
supVars     == <<ret, want, got, old, err, tries>>
reopenVars  == <<reopenClock, retryWait>>
statusVars  == <<state, reopenDegraded, stallDegraded, lateDegraded>>
lifeVars    == <<mxlActive, running, streamingUp, playing>>
cardVars    == <<session, inCard, lateCount, lastFrame, epoch>>
threadVars  == <<vcb, acb, hk>>
countVars   == <<reopens, split>>
vars == <<flowVars, idle, readerVars, sup, supVars, reopenRequested,
          resetRequested, reopenVars, stallClock, lateClock, statusVars,
          lifeVars, cardVars, threadVars, countVars>>

-----------------------------------------------------------------------------
(* Definitions used by several steps.                                      *)

\* A slot that is read: open, and its flow not known to be re-created.
Readable(s) == handle[s] # None /\ ~invalid[s]

\* The reader is open on a data file that is no longer the flow's.
Stale(s) == handle[s] # current[FlowOf[s]]

\* Slots that wait in the sync group: read, and their source not stopped.
Waitable(s) == Readable(s) /\ ~stalled[s]

\* Mutant of FlowMates: only the slot that saw the error goes.
OnlyTheseSlots(S) == S

\* Open slots reading one of the flows of S (markAudioFlowInvalid: slots of
\* one flow share one MXL reader, so all of them go).
FlowMates(S) == {t \in Slots : Readable(t) /\ \E s \in S : FlowOf[t] = FlowOf[s]}

\* Open slots sharing a handle with S (setAudioStalled).  Mutant of it as for
\* FlowMates: OnlyTheseSlots.
HandleMates(S) == {t \in Slots : Readable(t) /\ \E s \in S : handle[t] = handle[s]}

\* _callbackMutex is free.
CallbackMutexFree == vcb = "idle" /\ acb = None

\* A clock that runs exactly while `on` holds (updateStallClock).
Clock(clock, on) == IF ~on THEN 0 ELSE IF clock = 0 THEN 1 ELSE clock

\* updateRunningState.
RunningState(r, s, l) == IF r \/ s \/ l THEN "Degraded" ELSE "Healthy"

\* Everybody who keeps a reader of flow f on this channel's instance.
Holders == {handle[s] : s \in Slots} \cup {got[s] : s \in Slots} \cup old
HeldOf(f) == {h \in Holders : h # None /\ file[h].flow = f}

\* What opening flow f yields: the reader the instance still holds, a reader
\* of the current data file, or None (the open throws, the flow is missing).
Opened(f) == IF HeldOf(f) # {} THEN CHOOSE h \in HeldOf(f) : TRUE ELSE current[f]

\* flow_reopens_total, per flow, saturating above what the bounds justify.
CountUp(n) == IF n <= MaxFiles THEN n + 1 ELSE n

\* The slot of S the code handles first: video, then the audio slots in order.
IsFirst(s, S) == \A t \in S : s <= t

\* What is left of ReopenSchedule and of its condition after a pass: a retry
\* while a flow is missing (openFailed), else the event is over (clear).
\* Mutants: no retry after a failure; the condition is never taken back.
NoRetry(failed) == 0
EventGoesOn(failed) == IF failed THEN reopenClock ELSE 0
NotTakenBack(failed) == reopenDegraded \/ (failed /\ reopenClock = 2)
StaysDegraded(failed) == failed /\ (reopenDegraded \/ reopenClock = 2)

NoReaders == [s \in Slots |-> None]
NoFlags   == [s \in Slots |-> FALSE]

-----------------------------------------------------------------------------
(* Parts of the handlers.                                                  *)

\* removeReader for the readers of S.  Mutant: they stay in the group.
KeepInGroup(S) == group
LeaveGroup(S) == group \ {handle[s] : s \in S}

\* markVideoFlowInvalid, markAudioFlowInvalid: the readers of S leave the
\* group and are not read again until the supervisor re-opened them.
MarkInvalid(S) ==
  /\ invalid' = [s \in Slots |-> invalid[s] \/ s \in S]
  /\ stalled' = [s \in Slots |-> stalled[s] /\ s \notin S]
  /\ group' = LeaveGroup(S)
  /\ stallClock' = Clock(stallClock, \E s \in Slots : stalled'[s])
  /\ reopenRequested' = (reopenRequested \/ S # {})
  /\ idle' = idle \ {handle[s] : s \in S}
  /\ UNCHANGED <<handle, cfgFmt>>

\* setVideoStalled(true), setAudioStalled(slot, true).
SetStalled(S) ==
  /\ stalled' = [s \in Slots |-> stalled[s] \/ s \in S]
  /\ group' = LeaveGroup(S)
  /\ idle' = idle \cup {handle[s] : s \in S}
  /\ stallClock' = Clock(stallClock, \E s \in Slots : stalled'[s])
  /\ UNCHANGED <<handle, invalid, cfgFmt, reopenRequested>>

\* setVideoStalled(false), setAudioStalled(slot, false): a failing addReader
\* is logged and the reader stays out of the group.
ClearStalled(S) ==
  IF \A s \in S : ~stalled[s]
  THEN UNCHANGED <<readerVars, idle, stallClock, reopenRequested>>
  ELSE /\ stalled' = [s \in Slots |-> stalled[s] /\ s \notin S]
       /\ \/ group' = group \cup {handle[s] : s \in S}
          \/ AddReaderFails /\ group' = group
       /\ stallClock' = Clock(stallClock, \E s \in Slots : stalled'[s])
       /\ UNCHANGED <<handle, invalid, cfgFmt, idle, reopenRequested>>

NoReaderChange == UNCHANGED <<readerVars, idle, stallClock, reopenRequested>>

\* scheduleGrain, the wait on the sync group: it has the data, or another
\* error; a reader of the group is stale (findInvalidReaders); or it timed out
\* and audio flows that wrote nothing are stalled (markStalledAudio).
SyncWait ==
  \/ NoReaderChange
  \/ /\ Readable(Video)
     /\ \E s \in Slots : Readable(s) /\ handle[s] \in group /\ Stale(s)
     /\ MarkInvalid(FlowMates({s \in Slots : Readable(s) /\ Stale(s)}))
  \/ /\ Readable(Video)
     /\ \E S \in SUBSET {s \in AudioSlots : Waitable(s)} :
          S # {} /\ SetStalled(HandleMates(S))

\* scheduleGrain, the read; `fresh`: a picture was read (of this grain, or of
\* the source's newest one, resumeAt).  Without a reader nothing is read.
ReadGrain(fresh) ==
  \/ \* Repeat: no reader, a gap, another read error, or still stalled.
     /\ ~fresh
     /\ NoReaderChange /\ UNCHANGED lateClock
  \/ \* MXL_ERR_FLOW_INVALID.
     /\ Readable(Video) /\ Stale(Video) /\ ~fresh
     /\ MarkInvalid({Video}) /\ UNCHANGED lateClock
  \/ \* The grain, or one its writer marked invalid.
     /\ Readable(Video)
     /\ ClearStalled({Video}) /\ lateClock' = 0
  \/ \* The source writes again, this grain is not there.
     /\ Readable(Video) /\ stalled[Video] /\ handle[Video] \notin idle /\ ~fresh
     /\ ClearStalled({Video}) /\ UNCHANGED lateClock
  \/ \* Nothing written for two frame periods.
     /\ Waitable(Video) /\ ~fresh
     /\ SetStalled({Video}) /\ UNCHANGED lateClock
  \/ \* Written too late for the card: a late repeat, the read slips.
     /\ Waitable(Video) /\ ~fresh
     /\ NoReaderChange
     /\ lateClock' = IF playing THEN Clock(lateClock, TRUE) ELSE lateClock

\* scheduleGrain, the frame: the picture read, or the last one repeated.
\* `ok`: a frame went to the card.
ScheduleFrame(fresh, ok) ==
  /\ lastFrame' = IF fresh THEN epoch ELSE lastFrame
  /\ ok => lastFrame' # None
  /\ ~ok => lastFrame' = None \/ ScheduleFails
  /\ inCard' = IF ok /\ session # "stopped" THEN inCard + 1 ELSE inCard
  /\ UNCHANGED <<session, lateCount, epoch>>

-----------------------------------------------------------------------------
(* The environment.                                                        *)

\* A writer creates the flow f, or re-creates it in one go.
CreateFlow(f, x) ==
  /\ files < MaxFiles
  /\ files' = files + 1
  /\ file' = [file EXCEPT ![files + 1] = [flow |-> f, fmt |-> x]]
  /\ current' = [current EXCEPT ![f] = files + 1]
  /\ UNCHANGED <<idle, readerVars, sup, supVars, reopenRequested,
                 resetRequested, reopenVars, stallClock, lateClock,
                 statusVars, lifeVars, cardVars, threadVars, countVars>>

\* A writer removes the flow f.
RemoveFlow(f) ==
  /\ FlowsVanish /\ current[f] # None
  /\ current' = [current EXCEPT ![f] = None]
  /\ UNCHANGED <<files, file, idle, readerVars, sup, supVars, reopenRequested,
                 resetRequested, reopenVars, stallClock, lateClock,
                 statusVars, lifeVars, cardVars, threadVars, countVars>>

\* A writer that had stopped writes again: the head index moves.
WriteAgain(f) ==
  /\ current[f] \in idle
  /\ idle' = idle \ {current[f]}
  /\ UNCHANGED <<flowVars, readerVars, sup, supVars, reopenRequested,
                 resetRequested, reopenVars, stallClock, lateClock,
                 statusVars, lifeVars, cardVars, threadVars, countVars>>

\* A second passes on a running clock.
SecondPasses ==
  /\ ClockLimit = 2
  /\ \/ /\ reopenClock = 1 /\ reopenClock' = 2
        /\ UNCHANGED <<stallClock, lateClock>>
     \/ /\ stallClock = 1 /\ stallClock' = 2
        /\ UNCHANGED <<reopenClock, lateClock>>
     \/ /\ lateClock = 1 /\ lateClock' = 2
        /\ UNCHANGED <<reopenClock, stallClock>>
  /\ UNCHANGED <<flowVars, idle, readerVars, sup, supVars, reopenRequested,
                 resetRequested, retryWait, statusVars, lifeVars, cardVars,
                 threadVars, countVars>>

\* The retry delay of ReopenSchedule is over: the next open is due.
RetryDue ==
  /\ retryWait
  /\ retryWait' = FALSE
  /\ UNCHANGED <<flowVars, idle, readerVars, sup, supVars, reopenRequested,
                 resetRequested, reopenClock, stallClock, lateClock,
                 statusVars, lifeVars, cardVars, threadVars, countVars>>

\* stop(): the owner holds the channel manager's lock, which housekeeping
\* takes too; it then joins the supervisor, see SupExit.
Stop ==
  /\ running /\ hk = "idle"
  /\ running' = FALSE
  /\ UNCHANGED <<flowVars, idle, readerVars, sup, supVars, reopenRequested,
                 resetRequested, reopenVars, stallClock, lateClock,
                 statusVars, mxlActive, streamingUp, playing, cardVars,
                 threadVars, countVars>>

-----------------------------------------------------------------------------
(* The card's callbacks.  Each holds _callbackMutex for its whole run.      *)

\* onFrameCompleted, up to the read.  `late`: displayed late or dropped;
\* `window`: the 10 s window of the late counter is over.
FrameCompleted(late, window) ==
  /\ session = "playing" /\ inCard > 0 /\ CallbackMutexFree
  /\ inCard' = inCard - 1
  /\ IF ~playing
     THEN \* Not playing (yet, or any more): the frame is not replaced.
          UNCHANGED <<lateCount, resetRequested, vcb>>
     ELSE LET count == IF ~late THEN lateCount
                       ELSE IF window THEN 1
                       ELSE IF lateCount < LateThreshold THEN lateCount + 1
                       ELSE LateThreshold
              reset == late /\ count >= LateThreshold
          IN /\ lateCount' = count
             /\ resetRequested' = (resetRequested \/ reset)
             /\ vcb' = IF reset THEN "idle" ELSE "wait"
  /\ UNCHANGED <<flowVars, idle, readerVars, sup, supVars, reopenRequested,
                 reopenVars, stallClock, lateClock, statusVars, lifeVars,
                 session, lastFrame, epoch, acb, hk, countVars>>

\* scheduleGrain in the completion callback, the wait on the sync group.
VideoWait ==
  /\ vcb = "wait"
  /\ SyncWait
  /\ vcb' = "read"
  /\ UNCHANGED <<flowVars, sup, supVars, resetRequested, reopenVars,
                 lateClock, statusVars, lifeVars, cardVars, acb, hk, countVars>>

\* scheduleGrain in the completion callback, the read and the frame.  A frame
\* that could not be scheduled is only counted.
VideoRead ==
  /\ vcb = "read"
  /\ \E fresh, ok \in BOOLEAN : ReadGrain(fresh) /\ ScheduleFrame(fresh, ok)
  /\ vcb' = "idle"
  /\ UNCHANGED <<flowVars, sup, supVars, resetRequested, reopenVars,
                 statusVars, lifeVars, acb, hk, countVars>>

\* onRenderAudio starts.  It does not look at _playing, and the SDK may call
\* it until the session is disabled; without slots it returns at once.
AudioStart ==
  /\ session \in {"rolling", "playing", "stopped"}
  /\ NAudio > 0 /\ CallbackMutexFree
  /\ acb' = 1
  /\ UNCHANGED <<flowVars, idle, readerVars, sup, supVars, reopenRequested,
                 resetRequested, reopenVars, stallClock, lateClock,
                 statusVars, lifeVars, cardVars, vcb, hk, countVars>>

\* onRenderAudio reads the next slot.
AudioRead ==
  /\ acb \in AudioSlots
  /\ \/ /\ stalled[acb] /\ Readable(acb) => handle[acb] \in idle
        /\ NoReaderChange
     \/ /\ Readable(acb) /\ Stale(acb)
        /\ MarkInvalid(FlowMates({acb}))
     \/ /\ Readable(acb) /\ stalled[acb] /\ handle[acb] \notin idle
        /\ ClearStalled(HandleMates({acb}))
     \/ /\ Waitable(acb)
        /\ SetStalled(HandleMates({acb}))
  /\ acb' = IF acb = NAudio THEN None ELSE acb + 1
  /\ UNCHANGED <<flowVars, sup, supVars, resetRequested, reopenVars,
                 lateClock, statusVars, lifeVars, cardVars, vcb, hk, countVars>>

\* housekeeping reads _streamingUp and _playback without a lock ...
HousekeepingStart ==
  /\ Housekeeping
  /\ hk = "idle" /\ running /\ streamingUp /\ session \notin {"none", "moved"}
  /\ hk' = "using"
  /\ UNCHANGED <<flowVars, idle, readerVars, sup, supVars, reopenRequested,
                 resetRequested, reopenVars, stallClock, lateClock,
                 statusVars, lifeVars, cardVars, vcb, acb, countVars>>

\* ... and calls the session it found.
HousekeepingEnd ==
  /\ hk = "using"
  /\ hk' = "idle"
  /\ UNCHANGED <<flowVars, idle, readerVars, sup, supVars, reopenRequested,
                 resetRequested, reopenVars, stallClock, lateClock,
                 statusVars, lifeVars, cardVars, vcb, acb, countVars>>

-----------------------------------------------------------------------------
(* The supervisor: the loop.                                               *)

\* What no step of the supervisor changes.
EnvUnchanged == UNCHANGED <<flowVars, mxlActive, running, threadVars>>

\* Mutant of SupExit: a parked supervisor does not look at _running.
SupExitNotParked ==
  /\ sup = "top" /\ ~running
  /\ sup' = "tdStop" /\ ret' = "stopped"
  /\ EnvUnchanged
  /\ UNCHANGED <<idle, readerVars, want, got, old, err, tries, reopenRequested,
                 resetRequested, reopenVars, stallClock, lateClock, statusVars,
                 streamingUp, playing, cardVars, countVars>>

\* The loop ends: stop() has joined the thread and tears down.
SupExit ==
  /\ sup \in {"top", "parked"} /\ ~running
  /\ sup' = "tdStop" /\ ret' = "stopped"
  /\ EnvUnchanged
  /\ UNCHANGED <<idle, readerVars, want, got, old, err, tries, reopenRequested,
                 resetRequested, reopenVars, stallClock, lateClock, statusVars,
                 streamingUp, playing, cardVars, countVars>>

\* The receiver is not active: the sub-device stays idle until stop().
SupPark ==
  /\ sup = "top" /\ running /\ ~mxlActive
  /\ sup' = "parked" /\ state' = "Init"
  /\ EnvUnchanged
  /\ UNCHANGED <<idle, readerVars, supVars, reopenRequested, resetRequested,
                 reopenVars, stallClock, lateClock, reopenDegraded,
                 stallDegraded, lateDegraded, streamingUp, playing, cardVars,
                 countVars>>

\* The channel is up: on to the requests.
SupLoop ==
  /\ sup = "top" /\ running /\ mxlActive /\ streamingUp
  /\ sup' = "poll"
  /\ EnvUnchanged
  /\ UNCHANGED <<idle, readerVars, supVars, reopenRequested, resetRequested,
                 reopenVars, stallClock, lateClock, statusVars, streamingUp,
                 playing, cardVars, countVars>>

\* Mutant of SupPoll: the request is taken and nothing is done.
SupPollNoReset ==
  /\ sup = "poll"
  /\ resetRequested' = FALSE /\ sup' = "reopen"
  /\ EnvUnchanged
  /\ UNCHANGED <<idle, readerVars, supVars, reopenRequested, reopenVars,
                 stallClock, lateClock, statusVars, streamingUp, playing,
                 cardVars, countVars>>

\* A reset was asked for: tear down; the loop brings the channel up again.
\* Else on to reopenInvalidReaders.
SupPoll ==
  /\ sup = "poll"
  /\ resetRequested' = FALSE
  /\ IF resetRequested THEN sup' = "tdStop" /\ ret' = "top"
                       ELSE sup' = "reopen" /\ UNCHANGED ret
  /\ EnvUnchanged
  /\ UNCHANGED <<idle, readerVars, want, got, old, err, tries, reopenRequested,
                 reopenVars, stallClock, lateClock, statusVars, streamingUp,
                 playing, cardVars, countVars>>

\* Mutant of SupStalls: the state is not published.
SupStallsSilent ==
  /\ sup = "stalls"
  /\ stallDegraded' = (stallClock = 2) /\ lateDegraded' = (lateClock = 2)
  /\ sup' = "wait"
  /\ EnvUnchanged
  /\ UNCHANGED <<idle, readerVars, supVars, reopenRequested, resetRequested,
                 reopenVars, stallClock, lateClock, state, reopenDegraded,
                 streamingUp, playing, cardVars, countVars>>

\* superviseStalls: stalls and late runs of a second and more degrade.
SupStalls ==
  /\ sup = "stalls"
  /\ stallDegraded' = (stallClock = 2)
  /\ lateDegraded' = (lateClock = 2)
  /\ state' = IF stallDegraded' = stallDegraded /\ lateDegraded' = lateDegraded
              THEN state
              ELSE RunningState(reopenDegraded, stallDegraded', lateDegraded')
  /\ sup' = "wait"
  /\ EnvUnchanged
  /\ UNCHANGED <<idle, readerVars, supVars, reopenRequested, resetRequested,
                 reopenVars, stallClock, lateClock, reopenDegraded,
                 streamingUp, playing, cardVars, countVars>>

\* waitForWork (woken by a request or after 100 ms), and the backoff between
\* two bring-ups: both end by themselves.
SupWait ==
  /\ sup \in {"wait", "backoff"}
  /\ sup' = "top"
  /\ EnvUnchanged
  /\ UNCHANGED <<idle, readerVars, supVars, reopenRequested, resetRequested,
                 reopenVars, stallClock, lateClock, statusVars, streamingUp,
                 playing, cardVars, countVars>>

-----------------------------------------------------------------------------
(* The supervisor: bringUp.                                                *)

\* A new session starts without a picture to repeat.  Mutant: it keeps one.
PictureKept == lastFrame' = lastFrame /\ epoch' = 3 - epoch
PictureCleared == lastFrame' = None /\ epoch' = 3 - epoch

\* The card holds the preroll.
PrerollComplete(n) == n = Preroll

\* The state a session starts with.
BringUp ==
  /\ sup = "top" /\ running /\ mxlActive /\ ~streamingUp
  /\ state' = "Init"
  /\ invalid' = [invalid EXCEPT ![Video] = FALSE]
  /\ stalled' = [stalled EXCEPT ![Video] = FALSE]
  /\ reopenRequested' = FALSE
  /\ reopenClock' = 0 /\ retryWait' = FALSE
  /\ stallClock' = 0 /\ lateClock' = 0
  /\ reopenDegraded' = FALSE /\ stallDegraded' = FALSE /\ lateDegraded' = FALSE
  /\ PictureCleared
  /\ want' = Slots
  /\ sup' = "open"
  /\ EnvUnchanged
  /\ UNCHANGED <<idle, handle, group, cfgFmt, ret, got, old, err, tries,
                 resetRequested, streamingUp, playing, session, inCard,
                 lateCount, countVars>>

\* The card does not support the mode, or no flow is assigned.
BringUpRefused ==
  /\ sup = "open" /\ want = Slots
  /\ sup' = "backoff" /\ state' = "Failed" /\ want' = {}
  /\ EnvUnchanged
  /\ UNCHANGED <<idle, readerVars, ret, got, old, err, tries, reopenRequested,
                 resetRequested, reopenVars, stallClock, lateClock,
                 reopenDegraded, stallDegraded, lateDegraded, streamingUp,
                 playing, cardVars, countVars>>

\* Opens the next reader; a missing flow fails the bring-up.
BringUpOpen ==
  /\ sup = "open"
  /\ \E s \in want :
       LET h == Opened(FlowOf[s])
       IN /\ IsFirst(s, want)
          /\ IF h # None
             THEN /\ handle' = [handle EXCEPT ![s] = h]
                  /\ cfgFmt' = [cfgFmt EXCEPT ![s] = file[h].fmt]
                  /\ want' = want \ {s}
                  /\ UNCHANGED <<sup, ret>>
             ELSE /\ sup' = "tdStop" /\ ret' = "failed" /\ want' = {}
                  /\ UNCHANGED <<handle, cfgFmt>>
  /\ EnvUnchanged
  /\ UNCHANGED <<idle, invalid, stalled, group, got, old, err, tries,
                 reopenRequested, resetRequested, reopenVars, stallClock,
                 lateClock, statusVars, streamingUp, playing, cardVars,
                 countVars>>

\* The sync group takes every reader, the session is opened and enabled.
BringUpEnable ==
  /\ sup = "open" /\ want = {}
  /\ group' = {handle[s] : s \in Slots}
  /\ session' = "enabled" /\ inCard' = 0 /\ lateCount' = 0
  /\ sup' = "preWait"
  /\ EnvUnchanged
  /\ UNCHANGED <<idle, handle, invalid, stalled, cfgFmt, supVars,
                 reopenRequested, resetRequested, reopenVars, stallClock,
                 lateClock, statusVars, streamingUp, playing, lastFrame, epoch,
                 countVars>>

\* addReader, openPlayback or enable fails.
BringUpEnableFails ==
  /\ sup = "open" /\ want = {}
  /\ \/ \E n \in 0..(NAudio + 1) :
          group' = {handle[t] : t \in {u \in Slots : u < n}} /\ session' = "none"
     \/ group' = {handle[t] : t \in Slots} /\ session' = "enabled"
  /\ inCard' = 0
  /\ sup' = "tdStop" /\ ret' = "failed"
  /\ EnvUnchanged
  /\ UNCHANGED <<idle, handle, invalid, stalled, cfgFmt, want, got, old, err,
                 tries, reopenRequested, resetRequested, reopenVars,
                 stallClock, lateClock, statusVars, streamingUp, playing,
                 lateCount, lastFrame, epoch, countVars>>

\* Not one grain came from the source: the bring-up fails.
NoFirstGrain ==
  /\ sup = "preWait" /\ inCard = 0 /\ tries = 0
  /\ sup' = "tdStop" /\ ret' = "failed"
  /\ EnvUnchanged
  /\ UNCHANGED <<idle, readerVars, want, got, old, err, tries, reopenRequested,
                 resetRequested, reopenVars, stallClock, lateClock, statusVars,
                 streamingUp, playing, cardVars, countVars>>

\* scheduleGrain in the preroll: the wait.
PrerollWait ==
  /\ sup = "preWait"
  /\ SyncWait
  /\ sup' = "preRead"
  /\ EnvUnchanged
  /\ UNCHANGED <<supVars, resetRequested, reopenVars, lateClock, statusVars,
                 streamingUp, playing, cardVars, countVars>>

\* scheduleGrain in the preroll: the read and the frame.  A read that shows
\* nothing is repeated until the deadline, then the bring-up fails.
PrerollRead ==
  /\ sup = "preRead"
  /\ \E fresh, ok \in BOOLEAN :
       /\ ReadGrain(fresh) /\ ScheduleFrame(fresh, ok)
       /\ \/ /\ ok
             /\ sup' = IF PrerollComplete(inCard') THEN "start" ELSE "preWait"
             /\ tries' = IF PrerollComplete(inCard') THEN 0 ELSE tries
             /\ UNCHANGED ret
          \/ /\ ~ok /\ tries < MaxTries
             /\ tries' = tries + 1 /\ sup' = "preWait" /\ UNCHANGED ret
          \/ /\ ~ok
             /\ tries' = 0 /\ sup' = "tdStop" /\ ret' = "failed"
  /\ EnvUnchanged
  /\ UNCHANGED <<want, got, old, err, resetRequested, reopenVars, statusVars,
                 streamingUp, playing, countVars>>

\* The audio preroll: from here on the card pulls audio.
AudioPreroll ==
  /\ sup = "start" /\ session = "enabled"
  /\ session' = "rolling"
  /\ EnvUnchanged
  /\ UNCHANGED <<idle, readerVars, sup, supVars, reopenRequested,
                 resetRequested, reopenVars, stallClock, lateClock, statusVars,
                 streamingUp, playing, inCard, lateCount, lastFrame, epoch,
                 countVars>>

\* startPlayback: from here on frames complete; or it fails.
StartPlayback ==
  /\ sup = "start" /\ session = "rolling"
  /\ \/ session' = "playing" /\ sup' = "go" /\ UNCHANGED ret
     \/ UNCHANGED session /\ sup' = "tdStop" /\ ret' = "failed"
  /\ EnvUnchanged
  /\ UNCHANGED <<idle, readerVars, want, got, old, err, tries, reopenRequested,
                 resetRequested, reopenVars, stallClock, lateClock, statusVars,
                 streamingUp, playing, inCard, lateCount, lastFrame, epoch,
                 countVars>>

\* The channel is up.
BringUpDone ==
  /\ sup = "go"
  /\ playing' = TRUE /\ streamingUp' = TRUE /\ state' = "Healthy"
  /\ sup' = "poll"
  /\ EnvUnchanged
  /\ UNCHANGED <<idle, readerVars, supVars, reopenRequested, resetRequested,
                 reopenVars, stallClock, lateClock, reopenDegraded,
                 stallDegraded, lateDegraded, cardVars, countVars>>

-----------------------------------------------------------------------------
(* The supervisor: reopenInvalidReaders.  The clock of ReopenSchedule runs *)
(* while an event is pending.                                              *)

\* Takes the request; returns when nothing is pending or the next open is not
\* due yet.
ReopenCheck ==
  /\ sup = "reopen"
  /\ reopenRequested' = FALSE
  /\ reopenClock' = Clock(reopenClock, reopenClock # 0 \/ reopenRequested)
  /\ retryWait' = (retryWait /\ ~reopenRequested)
  /\ LET due == reopenClock' # 0 /\ ~retryWait'
     IN /\ sup' = IF due THEN "roTake" ELSE "stalls"
        /\ reopenDegraded' = (reopenDegraded \/ (~due /\ reopenClock' = 2))
        /\ state' = IF reopenDegraded' = reopenDegraded THEN state ELSE "Degraded"
  /\ EnvUnchanged
  /\ UNCHANGED <<idle, readerVars, supVars, resetRequested, stallClock,
                 lateClock, stallDegraded, lateDegraded, streamingUp, playing,
                 cardVars, countVars>>

\* Under the lock: the invalid readers come out.  A reader still held is a new
\* event, counted once per flow.
ReopenTake ==
  /\ sup = "roTake" /\ CallbackMutexFree
  /\ want' = {s \in Slots : invalid[s]}
  /\ old' = {handle[s] : s \in want'} \ {None}
  /\ handle' = [s \in Slots |-> IF s \in want' THEN None ELSE handle[s]]
  /\ reopens' = [f \in Flows |->
       IF \E s \in want' : FlowOf[s] = f /\ handle[s] # None
       THEN CountUp(reopens[f]) ELSE reopens[f]]
  /\ err' = FALSE
  /\ sup' = "roRelease"
  /\ EnvUnchanged
  /\ UNCHANGED <<idle, invalid, stalled, group, cfgFmt, ret, got, tries,
                 reopenRequested, resetRequested, reopenVars, stallClock,
                 lateClock, statusVars, streamingUp, playing, cardVars, split>>

\* The old readers are released before the new ones are opened.
ReopenRelease ==
  /\ sup = "roRelease"
  /\ old' = {}
  /\ sup' = "roOpen"
  /\ EnvUnchanged
  /\ UNCHANGED <<idle, readerVars, ret, want, got, err, tries,
                 reopenRequested, resetRequested, reopenVars, stallClock,
                 lateClock, statusVars, streamingUp, playing, cardVars,
                 countVars>>

\* Opens the next reader; a missing flow is an error to retry.
ReopenOpen ==
  /\ sup = "roOpen"
  /\ \E s \in want :
       LET h == Opened(FlowOf[s])
       IN /\ IsFirst(s, want)
          /\ got' = [got EXCEPT ![s] = h]
          /\ err' = (err \/ h = None)
          /\ want' = want \ {s}
  /\ EnvUnchanged
  /\ UNCHANGED <<idle, readerVars, sup, ret, old, tries, reopenRequested,
                 resetRequested, reopenVars, stallClock, lateClock, statusVars,
                 streamingUp, playing, cardVars, countVars>>

FormatChanged == \E s \in Slots : got[s] # None /\ file[got[s]].fmt # cfgFmt[s]

\* Another format under the same id: the channel restarts.
ReopenFormatChanged ==
  /\ sup = "roOpen" /\ want = {} /\ FormatChanged
  /\ got' = NoReaders
  /\ reopenClock' = 0 /\ retryWait' = FALSE
  /\ resetRequested' = TRUE
  /\ err' = FALSE
  /\ sup' = "stalls"
  /\ EnvUnchanged
  /\ UNCHANGED <<idle, readerVars, ret, want, old, tries,
                 reopenRequested, stallClock, lateClock, statusVars,
                 streamingUp, playing, cardVars, countVars>>

\* Flows opened for one slot and missing for another.
SplitFlows == {FlowOf[s] : s \in {u \in Slots :
  got[u] # None /\ \E t \in Slots :
    FlowOf[t] = FlowOf[u] /\ got[t] = None /\ handle[t] = None}}

\* Under the lock: the new readers go in.  Then a retry is scheduled when a
\* flow was missing, else the event is over.
ReopenInstall ==
  /\ sup = "roOpen" /\ want = {} /\ ~FormatChanged /\ CallbackMutexFree
  /\ handle' = [s \in Slots |-> IF got[s] # None THEN got[s] ELSE handle[s]]
  /\ invalid' = [s \in Slots |-> invalid[s] /\ got[s] = None]
  /\ stalled' = [s \in Slots |-> stalled[s] /\ (s = Video \/ got[s] = None)]
  /\ group' = group \cup ({got[s] : s \in Slots} \ {None})
  /\ split' = split \cup SplitFlows
  /\ got' = NoReaders
  /\ reopenClock' = EventGoesOn(err)
  /\ retryWait' = err
  /\ reopenDegraded' = StaysDegraded(err)
  /\ state' = IF reopenDegraded' = reopenDegraded THEN state
              ELSE RunningState(reopenDegraded', stallDegraded, lateDegraded)
  /\ err' = FALSE
  /\ sup' = "stalls"
  /\ EnvUnchanged
  /\ UNCHANGED <<idle, cfgFmt, ret, want, old, tries, reopenRequested,
                 resetRequested, stallClock, lateClock, stallDegraded,
                 lateDegraded, streamingUp, playing, cardVars, reopens>>

\* addReader throws for slot s: the readers before it are in, s is installed
\* and not in the group, the rest are dropped; the channel restarts.
ReopenInstallFails(s) ==
  /\ sup = "roOpen" /\ want = {} /\ ~FormatChanged /\ CallbackMutexFree
  /\ AddReaderFails /\ got[s] # None
  /\ handle' = [t \in Slots |-> IF t <= s /\ got[t] # None THEN got[t] ELSE handle[t]]
  /\ invalid' = [t \in Slots |-> invalid[t] /\ (t > s \/ got[t] = None)]
  /\ stalled' = [t \in Slots |-> stalled[t] /\ (t = Video \/ t > s \/ got[t] = None)]
  /\ group' = group \cup ({got[t] : t \in {u \in Slots : u < s}} \ {None})
  /\ got' = NoReaders
  /\ reopenClock' = 0 /\ retryWait' = FALSE
  /\ resetRequested' = TRUE
  /\ err' = FALSE
  /\ sup' = "stalls"
  /\ EnvUnchanged
  /\ UNCHANGED <<idle, cfgFmt, ret, want, old, tries, reopenRequested,
                 stallClock, lateClock, statusVars, streamingUp, playing,
                 cardVars, countVars>>

-----------------------------------------------------------------------------
(* The supervisor: tearDownStreaming.                                      *)

\* Flags down, playback stopped and disabled (the card answers with
\* onPlaybackStopped, which clears _playing too).
TearDownStop ==
  /\ sup = "tdStop"
  /\ streamingUp' = FALSE /\ playing' = FALSE
  /\ session' = IF session = "none" THEN "none" ELSE "stopped"
  /\ inCard' = 0
  /\ sup' = "tdTake"
  /\ EnvUnchanged
  /\ UNCHANGED <<idle, readerVars, supVars, reopenRequested, resetRequested,
                 reopenVars, stallClock, lateClock, statusVars, lateCount,
                 lastFrame, epoch, countVars>>

\* Under the lock: everything the callbacks use is taken from them.
TearDownTake ==
  /\ sup = "tdTake" /\ CallbackMutexFree
  /\ old' = {handle[s] : s \in Slots} \ {None}
  /\ handle' = NoReaders
  /\ invalid' = NoFlags
  /\ stalled' = [s \in Slots |-> s = Video /\ stalled[s]]
  /\ session' = IF session = "none" THEN "none" ELSE "moved"
  /\ idle' = {}
  /\ sup' = "tdGroup"
  /\ EnvUnchanged
  /\ UNCHANGED <<group, cfgFmt, ret, want, got, err, tries,
                 reopenRequested, resetRequested, reopenVars, stallClock,
                 lateClock, statusVars, streamingUp, playing, inCard,
                 lateCount, lastFrame, epoch, countVars>>

\* Mutant of TearDownGroup: the readers go before the group.
TearDownReadersFirst ==
  /\ sup = "tdGroup"
  /\ old' = {}
  /\ sup' = "tdSession"
  /\ EnvUnchanged
  /\ UNCHANGED <<idle, readerVars, ret, want, got, err, tries,
                 reopenRequested, resetRequested, reopenVars, stallClock,
                 lateClock, statusVars, streamingUp, playing, cardVars,
                 countVars>>

\* Outside the lock: the group goes before the readers it holds ...
TearDownGroup ==
  /\ sup = "tdGroup"
  /\ group' = {}
  /\ sup' = "tdSession"
  /\ EnvUnchanged
  /\ UNCHANGED <<idle, handle, invalid, stalled, cfgFmt, supVars,
                 reopenRequested, resetRequested, reopenVars, stallClock,
                 lateClock, statusVars, streamingUp, playing, cardVars,
                 countVars>>

\* ... then the session ...
TearDownSession ==
  /\ sup = "tdSession"
  /\ session' = "none"
  /\ sup' = "tdReaders"
  /\ EnvUnchanged
  /\ UNCHANGED <<idle, readerVars, supVars, reopenRequested, resetRequested,
                 reopenVars, stallClock, lateClock, statusVars, streamingUp,
                 playing, inCard, lateCount, lastFrame, epoch, countVars>>

\* ... and the readers.  A failed bring-up publishes Failed and backs off.
TearDownReaders ==
  /\ sup = "tdReaders"
  /\ old' = {}
  /\ sup' = IF ret = "failed" THEN "backoff" ELSE ret
  /\ state' = IF ret = "failed" THEN "Failed" ELSE state
  /\ ret' = "top"
  /\ EnvUnchanged
  /\ UNCHANGED <<idle, readerVars, want, got, err, tries,
                 reopenRequested, resetRequested, reopenVars, stallClock,
                 lateClock, reopenDegraded, stallDegraded, lateDegraded,
                 streamingUp, playing, cardVars, countVars>>

-----------------------------------------------------------------------------
Init ==
  /\ files = NFlows
  /\ file = [i \in FileIds |-> [flow |-> IF i \in Flows THEN i ELSE FlowOf[Video],
                               fmt |-> CHOOSE x \in Formats : TRUE]]
  /\ current = [f \in Flows |-> f]
  /\ idle = {}
  /\ handle = NoReaders /\ invalid = NoFlags /\ stalled = NoFlags
  /\ group = {} /\ cfgFmt = [s \in Slots |-> CHOOSE x \in Formats : TRUE]
  /\ sup = "top" /\ ret = "top" /\ want = {} /\ got = NoReaders
  /\ old = {} /\ err = FALSE /\ tries = 0
  /\ reopenRequested = FALSE /\ resetRequested = FALSE
  /\ reopenClock = 0 /\ retryWait = FALSE /\ stallClock = 0 /\ lateClock = 0
  /\ state = "Init"
  /\ reopenDegraded = FALSE /\ stallDegraded = FALSE /\ lateDegraded = FALSE
  /\ mxlActive \in BOOLEAN
  /\ running = TRUE /\ streamingUp = FALSE /\ playing = FALSE
  /\ session = "none" /\ inCard = 0 /\ lateCount = 0
  /\ lastFrame = None /\ epoch = 1
  /\ vcb = "idle" /\ acb = None /\ hk = "idle"
  /\ reopens = [f \in Flows |-> 0] /\ split = {}

Environment ==
  \/ \E f \in Flows, x \in Formats : CreateFlow(f, x)
  \/ \E f \in Flows : RemoveFlow(f) \/ WriteAgain(f)
  \/ SecondPasses \/ RetryDue
  \/ Stop

Callbacks ==
  \/ \E late, window \in BOOLEAN : FrameCompleted(late, window)
  \/ VideoWait \/ VideoRead
  \/ AudioStart \/ AudioRead
  \/ HousekeepingStart \/ HousekeepingEnd

Loop == SupExit \/ SupPark \/ SupLoop \/ SupPoll \/ SupStalls \/ SupWait

BringingUp ==
  \/ BringUp \/ BringUpRefused \/ BringUpOpen
  \/ BringUpEnable \/ BringUpEnableFails
  \/ NoFirstGrain \/ PrerollWait \/ PrerollRead
  \/ AudioPreroll \/ StartPlayback \/ BringUpDone

Reopening ==
  \/ ReopenCheck \/ ReopenTake \/ ReopenRelease \/ ReopenOpen
  \/ ReopenFormatChanged \/ ReopenInstall
  \/ \E s \in Slots : ReopenInstallFails(s)

TearingDown ==
  \/ TearDownStop \/ TearDownTake \/ TearDownGroup
  \/ TearDownSession \/ TearDownReaders

\* The channel object has been stopped; its owner destroys it.
Stopped == sup = "stopped" /\ UNCHANGED vars

Supervisor == Loop \/ BringingUp \/ Reopening \/ TearingDown

Next == Environment \/ Callbacks \/ Supervisor \/ Stopped

Spec == Init /\ [][Next]_vars

(***************************************************************************)
(* Fairness.  The supervisor thread and a callback that has started run on *)
(* by themselves.  A step that takes _callbackMutex is strongly fair: each *)
(* callback gives the mutex back, and callbacks come once per frame period *)
(* and not back to back.  A retry delay is over some time.  Nothing is     *)
(* assumed of the writers, of the owner, or of the card completing frames. *)
(***************************************************************************)
UnlockedStep ==
  \/ Loop \/ BringingUp
  \/ ReopenCheck \/ ReopenRelease \/ ReopenOpen \/ ReopenFormatChanged
  \/ TearDownStop \/ TearDownGroup \/ TearDownSession \/ TearDownReaders

LockedStep == ReopenTake \/ ReopenInstall \/ TearDownTake

Fairness ==
  /\ WF_vars(UnlockedStep)
  /\ SF_vars(LockedStep)
  /\ WF_vars(VideoWait) /\ WF_vars(VideoRead) /\ WF_vars(AudioRead)
  /\ WF_vars(RetryDue)

FairSpec == Spec /\ Fairness

-----------------------------------------------------------------------------
(* Properties.                                                             *)

TearDownPcs == {"tdStop", "tdTake", "tdGroup", "tdSession", "tdReaders"}
SupPcs == {"top", "parked", "poll", "reopen", "roTake", "roRelease", "roOpen",
           "stalls", "wait", "backoff", "open", "preWait", "preRead", "start",
           "go", "stopped"} \cup TearDownPcs

\* Every variable has its type, part by part: the flags, the flows, the
\* readers, the supervisor, the clocks, the card and its callbacks.
FlagTypes ==
  /\ reopenRequested \in BOOLEAN /\ resetRequested \in BOOLEAN
  /\ err \in BOOLEAN /\ retryWait \in BOOLEAN
  /\ reopenDegraded \in BOOLEAN /\ stallDegraded \in BOOLEAN
  /\ lateDegraded \in BOOLEAN
  /\ mxlActive \in BOOLEAN /\ running \in BOOLEAN
  /\ streamingUp \in BOOLEAN /\ playing \in BOOLEAN

FlowTypes ==
  /\ files \in 0..MaxFiles
  /\ file \in [FileIds -> [flow : Flows, fmt : Formats]]
  /\ current \in [Flows -> 0..MaxFiles]

ReaderTypes ==
  /\ idle \in SUBSET FileIds
  /\ handle \in [Slots -> 0..MaxFiles]
  /\ invalid \in [Slots -> BOOLEAN] /\ stalled \in [Slots -> BOOLEAN]
  /\ group \in SUBSET FileIds
  /\ cfgFmt \in [Slots -> Formats]
  /\ stallClock \in 0..2

SupTypes ==
  /\ sup \in SupPcs /\ ret \in {"top", "failed", "stopped"}
  /\ want \in SUBSET Slots
  /\ got \in [Slots -> 0..MaxFiles] /\ old \in SUBSET FileIds
  /\ tries \in 0..MaxTries
  /\ reopens \in [Flows -> 0..MaxFiles + 1] /\ split \in SUBSET Flows

CardTypes ==
  /\ state \in {"Init", "Healthy", "Degraded", "Failed"}
  /\ reopenClock \in 0..2 /\ lateClock \in 0..2
  /\ session \in {"none", "enabled", "rolling", "playing", "stopped", "moved"}
  /\ inCard \in 0..Preroll /\ lateCount \in 0..LateThreshold
  /\ lastFrame \in 0..2 /\ epoch \in 1..2
  /\ vcb \in {"idle", "wait", "read"} /\ acb \in 0..NAudio
  /\ hk \in {"idle", "using"}

\* Every variable has its type; the card never holds more than the preroll.
TypeOK == FlagTypes /\ FlowTypes /\ ReaderTypes /\ SupTypes /\ CardTypes

\* The sync group never holds a reader that has been released: every handle in
\* it is kept by a slot, by the supervisor's re-open or by the teardown.  MXL
\* does not take a released reader out of the group (flowsync.hpp), so the next
\* wait would use freed memory.
NoDanglingReader == group \subseteq Holders

\* While the callbacks can use the group it holds only readers that a slot
\* reads and whose source is not known to have stopped: a wait blocks on
\* nothing that cannot deliver.
GroupIsWaitable ==
  sup \notin {"tdGroup", "tdSession", "tdReaders"} =>
    group \subseteq {handle[s] : s \in {t \in Slots : Waitable(t)}}

\* Conversely no live source is forgotten: a reader that is open, valid and not
\* stalled is waited for, so its audio or video is never read ahead of time.
LiveSourceIsAwaited ==
  session \in {"enabled", "rolling", "playing", "stopped"} /\ ~AddReaderFails =>
    \A s \in Slots : Waitable(s) => handle[s] \in group

\* The stall clock runs exactly while some reader is stalled, whatever re-opens,
\* stalls and resumptions of slots that share a flow went before.
StallClockRuns ==
  session \in {"enabled", "rolling", "playing", "stopped"} =>
    (stallClock # 0 <=> \E s \in Slots : stalled[s])

\* The re-open takes over from a stall: a reader marked invalid is not stalled
\* too, so when it comes back, and is added to the group, it is waited for
\* (the video's stall flag is not cleared again when its reader is installed).
ReopenTakesOver == \A s \in Slots : ~(invalid[s] /\ stalled[s])

\* A channel that is up publishes Degraded exactly while the supervisor knows
\* of a missing flow, a stall or a late source.
StateReflectsConditions ==
  streamingUp =>
    state = RunningState(reopenDegraded, stallDegraded, lateDegraded)

\* A reader found invalid is given up by every slot at once, so that releasing
\* it really frees it: the instance would hand a kept one out again and the
\* re-open would get the stale reader back (markAudioFlowInvalid).
StaleReaderGoesWhole ==
  \A s, t \in Slots :
    invalid[s] /\ handle[s] # None /\ Readable(t) /\ FlowOf[s] \notin split
      => handle[t] # handle[s]

\* Slots that read the same flow share one MXL reader
\* and one group entry: they stall and resume together.
SlotsStallTogether ==
  \A s, t \in AudioSlots :
    Readable(s) /\ Readable(t) /\ handle[s] = handle[t] /\ FlowOf[s] \notin split
      => stalled[s] = stalled[t]

\* Slots that share a reader act as one, whichever of them finds it stale or
\* silent first, whatever re-opens and resumptions overtake each other and
\* however often an open fails before the flow is back.  Excepted are flows
\* whose writer came back between the opens of two slots (reopenInvalidReaders
\* keeps the reader of the one).  The slot that waits is then given the reader
\* the other one holds, stale or not, and that reader is counted again.
SharedReaderActsAsOne == StaleReaderGoesWhole /\ SlotsStallTogether

\* The data files of flow f that were removed or replaced.
Gone(f) == {i \in 1..files : file[i].flow = f /\ i # current[f]}

\* flow_reopens_total counts a re-created flow once: never more often than data
\* files of that flow have been removed or replaced, however many slots read it
\* and however many opens fail on the way.  Flows excepted as above.
EventPerRecreation ==
  \A f \in Flows \ split : reopens[f] <= Cardinality(Gone(f))

\* No re-open gets lost: while the channel is up, a reader marked invalid has a
\* request, a pending event or a reset on its way, or is being dealt with.
InvalidIsPursued ==
  (\E s \in Slots : invalid[s]) /\ streamingUp =>
    \/ reopenRequested \/ resetRequested \/ reopenClock # 0
    \/ sup \in TearDownPcs

\* Neither kind of fault is forgotten: an invalid reader is on its way to a
\* re-open, and the clock of a stall runs as long as there is one.
FaultsArePursued == InvalidIsPursued /\ StallClockRuns

\* A new session never repeats a picture of the previous one: every frame at
\* the card comes from this bring-up (a late callback of the old session must
\* not leave its picture behind).
NoOldPicture == inCard > 0 => lastFrame = epoch

\* The card never holds more than the preroll, counting the frame a callback is
\* about to replace.
PipelineBounded == inCard + (IF vcb = "idle" THEN 0 ELSE 1) <= Preroll

\* stop() comes to an end: the supervisor is joined and the session torn down.
StopCompletes == ~running ~> sup = "stopped"

\* A reader marked invalid is read again, or the channel has been torn down, as
\* long as its flow is there and stays.
InvalidIsReopened ==
  \A s \in Slots :
    (<>[](current[FlowOf[s]] # None))
      => (invalid[s] ~> ~invalid[s])

\* A reset that was asked for takes the session down.
ResetHappens == (resetRequested /\ streamingUp) ~> ~streamingUp

\* Degraded is taken back: once all readers are back, live and in time for good,
\* the channel does not stay Degraded.
DegradedEnds ==
  <>[](reopenClock = 0 /\ ~reopenRequested /\ stallClock = 0 /\ lateClock = 0)
    => []<>(state # "Degraded" \/ ~streamingUp)

-----------------------------------------------------------------------------
(* What comments and the specification say that the code does not do.      *)

\* output_channel.cpp:286 the supervisor thread owns _playback: nobody else
\* uses a session it has taken away.
SessionOutlivesItsUse == hk = "using" => session \notin {"moved", "none"}

=============================================================================
