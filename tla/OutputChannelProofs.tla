------------------------ MODULE OutputChannelProofs ------------------------
(***************************************************************************)
(* Proofs about OutputChannel for every number of slots, flows and data    *)
(* files, every preroll and every sharing of flows between audio slots:    *)
(* type correctness, the bounded pipeline and the two facts about the sync *)
(* group.  One inductive invariant, Inv, carries them all.                 *)
(***************************************************************************)
EXTENDS OutputChannel, TLAPS

\* The supervisor's steps between two bring-ups.
LoopPcs == {"poll", "reopen", "roTake", "roRelease", "roOpen", "stalls", "wait"}

\* Where the supervisor is tells what the card session is: callbacks run only
\* between the preroll and the step of the teardown that takes the lock.
SessionInv ==
  /\ sup \in LoopPcs => streamingUp /\ session = "playing"
  /\ sup \in {"top", "parked"} =>
       session = IF streamingUp THEN "playing" ELSE "none"
  /\ sup \in {"open", "backoff", "stopped", "tdReaders"} =>
       ~streamingUp /\ session = "none"
  /\ sup \in {"preWait", "preRead"} => ~streamingUp /\ session = "enabled"
  /\ sup = "start" => ~streamingUp /\ session \in {"enabled", "rolling"}
  /\ sup = "go" => ~streamingUp /\ session = "playing"
  /\ sup = "tdTake" => ~streamingUp /\ session \in {"none", "stopped"}
  /\ sup \in {"tdGroup", "tdSession"} =>
       ~streamingUp /\ session \in {"none", "moved"}
  /\ vcb # "idle" => session \in {"playing", "stopped"}
  /\ acb # None => session \in {"rolling", "playing", "stopped"}

\* The preroll stops in time, and a callback replaces at most what it took.
PipelineInv ==
  /\ PipelineBounded
  /\ sup \in {"preWait", "preRead"} => inCard < Preroll

\* The channel is down: nothing in the group and no flag left from the audio
\* slots of an earlier session.
Down ==
  \/ sup \in {"open", "backoff", "stopped", "tdSession", "tdReaders"}
  \/ sup \in {"top", "parked"} /\ ~streamingUp

\* The readers: what the group may hold, and what the supervisor's working
\* sets say about the slots while it re-opens or brings up.
ReaderInv ==
  /\ GroupIsWaitable
  /\ sup = "tdGroup" => group \subseteq old
  /\ Down => group = {}
  /\ Down \/ sup = "tdGroup" =>
       \A s \in AudioSlots : ~invalid[s] /\ ~stalled[s]
  /\ sup = "open" =>
       /\ ~invalid[Video] /\ ~stalled[Video]
       /\ \A s \in Slots : s \notin want => handle[s] # None
  /\ sup \in {"roRelease", "roOpen"} => \A s \in want : invalid[s]
  /\ sup # "roOpen" => \A s \in Slots : got[s] = None
  /\ \A s \in Slots : got[s] # None => invalid[s]

Inv == TypeOK /\ SessionInv /\ PipelineInv /\ ReaderInv

-----------------------------------------------------------------------------
(* What the callbacks do to the readers.                                   *)

\* GroupIsWaitable, wherever the supervisor is.
GroupWaitable == group \subseteq {handle[s] : s \in {t \in Slots : Waitable(t)}}

\* What every reader change in a callback leaves true.
ReadersKept ==
  /\ ReaderTypes' /\ reopenRequested' \in BOOLEAN
  /\ handle' = handle
  /\ \A s \in Slots : invalid[s] => invalid'[s]
  /\ GroupWaitable'

\* Marking open readers invalid takes them out of the group.
LEMMA MarkInvalidKeeps ==
  ASSUME ReaderTypes, reopenRequested \in BOOLEAN, GroupWaitable, NEW S \in SUBSET Slots, MarkInvalid(S)
  PROVE  ReadersKept
<1>1. ReaderTypes'
  BY DEF ReaderTypes, MarkInvalid, LeaveGroup, Clock
<1>2. GroupWaitable'
  BY DEF ReaderTypes, GroupWaitable, MarkInvalid, LeaveGroup, Waitable, Readable
<1> QED
  BY <1>1, <1>2 DEF ReadersKept, ReaderTypes, MarkInvalid

\* Stalling open readers takes them out of the group.
LEMMA SetStalledKeeps ==
  ASSUME ReaderTypes, reopenRequested \in BOOLEAN, GroupWaitable, NEW S \in SUBSET Slots, SetStalled(S),
         \A s \in S : Readable(s)
  PROVE  ReadersKept
<1>0. \A s \in S : handle[s] \in FileIds
  BY ConstantsOK DEF ConstantsOK, ReaderTypes, Readable, None, FileIds
<1>1. ReaderTypes'
  BY <1>0 DEF ReaderTypes, SetStalled, LeaveGroup, Clock
<1>2. GroupWaitable'
  BY DEF ReaderTypes, GroupWaitable, SetStalled, LeaveGroup, Waitable, Readable
<1> QED
  BY <1>1, <1>2 DEF ReadersKept, ReaderTypes, SetStalled

\* A callback that changes no reader.
LEMMA NoReaderChangeKeeps ==
  ASSUME ReaderTypes, reopenRequested \in BOOLEAN, GroupWaitable, NoReaderChange
  PROVE  ReadersKept
BY DEF ReadersKept, ReaderTypes, GroupWaitable, NoReaderChange, readerVars,
       Waitable, Readable

\* Resumed readers go back only when they are open and valid.
LEMMA ClearStalledKeeps ==
  ASSUME ReaderTypes, reopenRequested \in BOOLEAN, GroupWaitable, NEW S \in SUBSET Slots, ClearStalled(S),
         \A s \in S : Readable(s)
  PROVE  ReadersKept
<1>1. CASE \A s \in S : ~stalled[s]
  BY <1>1, NoReaderChangeKeeps DEF ClearStalled, NoReaderChange
<1>2. CASE ~ \A s \in S : ~stalled[s]
  <2>0. /\ stalled' = [s \in Slots |-> stalled[s] /\ s \notin S]
        /\ group' \in {group, group \cup {handle[s] : s \in S}}
        /\ stallClock' = Clock(stallClock, \E s \in Slots : stalled'[s])
        /\ UNCHANGED <<handle, invalid, cfgFmt, idle, reopenRequested>>
    BY <1>2 DEF ClearStalled
  <2>1. \A s \in S : handle[s] \in FileIds
    BY ConstantsOK DEF ConstantsOK, ReaderTypes, Readable, None, FileIds
  <2>2. ReaderTypes'
    BY <2>0, <2>1 DEF ReaderTypes, Clock
  <2>3. GroupWaitable'
    BY <2>0 DEF ReaderTypes, GroupWaitable, Waitable, Readable
  <2> QED
    BY <2>0, <2>2, <2>3 DEF ReadersKept
<1> QED
  BY <1>1, <1>2

\* The wait on the sync group.
LEMMA SyncWaitKeeps ==
  ASSUME ReaderTypes, reopenRequested \in BOOLEAN, GroupWaitable, SyncWait
  PROVE  ReadersKept
<1>1. CASE NoReaderChange
  BY <1>1, NoReaderChangeKeeps
<1>2. CASE MarkInvalid(FlowMates({s \in Slots : Readable(s) /\ Stale(s)}))
  <2>1. FlowMates({s \in Slots : Readable(s) /\ Stale(s)}) \in SUBSET Slots
    BY DEF FlowMates
  <2> QED
    BY <1>2, <2>1, MarkInvalidKeeps
<1>3. ASSUME NEW S \in SUBSET {s \in AudioSlots : Waitable(s)},
             SetStalled(HandleMates(S))
      PROVE  ReadersKept
  <2>1. HandleMates(S) \in SUBSET Slots /\ \A s \in HandleMates(S) : Readable(s)
    BY DEF HandleMates
  <2> QED
    BY <1>3, <2>1, SetStalledKeeps
<1> QED
  BY <1>1, <1>2, <1>3 DEF SyncWait

\* The read of the grain.
LEMMA ReadGrainKeeps ==
  ASSUME ReaderTypes, reopenRequested \in BOOLEAN, GroupWaitable, lateClock \in 0..2,
         NEW fresh \in BOOLEAN, ReadGrain(fresh)
  PROVE  ReadersKept /\ lateClock' \in 0..2
<1> DEFINE V == {Video}
<1>0. V \in SUBSET Slots
  BY ConstantsOK DEF ConstantsOK, Slots, Video
<1>1. CASE NoReaderChange /\ UNCHANGED lateClock
  BY <1>1, NoReaderChangeKeeps
<1>2. CASE MarkInvalid(V) /\ UNCHANGED lateClock
  BY <1>0, <1>2, MarkInvalidKeeps
<1>3. CASE Readable(Video) /\ ClearStalled(V) /\ lateClock' \in {0, lateClock}
  BY <1>0, <1>3, ClearStalledKeeps
<1>4. CASE Readable(Video) /\ SetStalled(V) /\ UNCHANGED lateClock
  BY <1>0, <1>4, SetStalledKeeps
<1>5. CASE NoReaderChange
           /\ lateClock' = IF playing THEN Clock(lateClock, TRUE) ELSE lateClock
  BY <1>5, NoReaderChangeKeeps DEF Clock
<1> QED
  BY <1>1, <1>2, <1>3, <1>4, <1>5 DEF ReadGrain, Waitable

\* Opening a flow yields a data file or nothing.
LEMMA OpenedType ==
  ASSUME FlowTypes, ReaderTypes, SupTypes, NEW f \in Flows
  PROVE  Opened(f) \in 0..MaxFiles
<1>1. Holders \subseteq 0..MaxFiles
  <2>1. {handle[s] : s \in Slots} \subseteq 0..MaxFiles
    BY DEF ReaderTypes
  <2>2. {got[s] : s \in Slots} \subseteq 0..MaxFiles
    BY DEF SupTypes
  <2>3. old \subseteq 0..MaxFiles
    BY ConstantsOK DEF ConstantsOK, SupTypes, FileIds
  <2> QED
    BY <2>1, <2>2, <2>3 DEF Holders
<1> QED
  BY <1>1 DEF Opened, HeldOf, FlowTypes

-----------------------------------------------------------------------------
(* A reader is never both invalid and stalled: inductive by itself.        *)

\* The callbacks stall only readers that are read.
LEMMA CallbackStalls ==
  ASSUME ReaderTypes, ReopenTakesOver,
         \/ NoReaderChange
         \/ \E S \in SUBSET Slots :
              \/ MarkInvalid(S) \/ ClearStalled(S)
              \/ (\A s \in S : Readable(s)) /\ SetStalled(S)
  PROVE  ReopenTakesOver'
<1>1. CASE NoReaderChange
  BY <1>1 DEF NoReaderChange, readerVars, ReopenTakesOver
<1>2. ASSUME NEW S \in SUBSET Slots, MarkInvalid(S) PROVE ReopenTakesOver'
  BY <1>2 DEF MarkInvalid, ReopenTakesOver
<1>3. ASSUME NEW S \in SUBSET Slots, ClearStalled(S) PROVE ReopenTakesOver'
  BY <1>3 DEF ClearStalled, readerVars, ReopenTakesOver
<1>4. ASSUME NEW S \in SUBSET Slots, \A s \in S : Readable(s), SetStalled(S)
      PROVE  ReopenTakesOver'
  BY <1>4 DEF SetStalled, Readable, ReopenTakesOver
<1> QED
  BY <1>1, <1>2, <1>3, <1>4

\* The wait, the read and the audio callback are of that form.
LEMMA WaitStalls ==
  ASSUME ReaderTypes, ReopenTakesOver, SyncWait
  PROVE  ReopenTakesOver'
<1>1. ASSUME NEW S PROVE FlowMates(S) \in SUBSET Slots
  BY DEF FlowMates
<1>2. ASSUME NEW S
      PROVE  HandleMates(S) \in SUBSET Slots /\ \A s \in HandleMates(S) : Readable(s)
  BY DEF HandleMates
<1>3. CASE NoReaderChange
  BY <1>3, CallbackStalls
<1>4. CASE MarkInvalid(FlowMates({s \in Slots : Readable(s) /\ Stale(s)}))
  BY <1>1, <1>4, CallbackStalls
<1>5. ASSUME NEW S, SetStalled(HandleMates(S)) PROVE ReopenTakesOver'
  BY <1>2, <1>5, CallbackStalls
<1> QED
  BY <1>3, <1>4, <1>5 DEF SyncWait

\* As above, for the read of a grain.
LEMMA ReadStalls ==
  ASSUME ReaderTypes, ReopenTakesOver, NEW fresh, ReadGrain(fresh)
  PROVE  ReopenTakesOver'
<1> DEFINE V == {Video}
<1>0. V \in SUBSET Slots
  BY ConstantsOK DEF ConstantsOK, Slots, Video
<1>1. \/ NoReaderChange
      \/ MarkInvalid(V) \/ ClearStalled(V)
      \/ Readable(Video) /\ SetStalled(V)
  BY DEF ReadGrain, Waitable
<1>2. Readable(Video) => \A s \in V : Readable(s)
  OBVIOUS
<1> QED
  BY <1>0, <1>1, <1>2, CallbackStalls

\* As above, for one slot of the audio callback.
LEMMA AudioStalls ==
  ASSUME ReaderTypes, ReopenTakesOver, AudioRead
  PROVE  ReopenTakesOver'
<1>1. ASSUME NEW S PROVE FlowMates(S) \in SUBSET Slots
  BY DEF FlowMates
<1>2. ASSUME NEW S
      PROVE  HandleMates(S) \in SUBSET Slots /\ \A s \in HandleMates(S) : Readable(s)
  BY DEF HandleMates
<1>3. CASE NoReaderChange
  BY <1>3, CallbackStalls
<1>4. CASE MarkInvalid(FlowMates({acb}))
  BY <1>1, <1>4, CallbackStalls
<1>5. CASE ClearStalled(HandleMates({acb})) \/ SetStalled(HandleMates({acb}))
  BY <1>2, <1>5, CallbackStalls
<1> QED
  BY <1>3, <1>4, <1>5 DEF AudioRead

\* No step makes a reader invalid and stalled.
LEMMA TakesOverStep == ReaderTypes /\ ReopenTakesOver /\ [Next]_vars => ReopenTakesOver'
<1> SUFFICES ASSUME ReaderTypes, ReopenTakesOver, [Next]_vars PROVE ReopenTakesOver'
  OBVIOUS
<1> USE DEF ReopenTakesOver, ReaderTypes, readerVars
<1>1. CASE Environment
  BY <1>1 DEF Environment, CreateFlow, RemoveFlow, WriteAgain, SecondPasses,
         RetryDue, Stop
<1>2. CASE Callbacks
  <2>1. CASE VideoWait
    BY <2>1, WaitStalls DEF VideoWait
  <2>2. CASE VideoRead
    BY <2>2, ReadStalls DEF VideoRead
  <2>3. CASE AudioRead
    BY <2>3, AudioStalls
  <2> QED
    BY <1>2, <2>1, <2>2, <2>3 DEF Callbacks, FrameCompleted, AudioStart,
           HousekeepingStart, HousekeepingEnd
<1>3. CASE Loop
  BY <1>3 DEF Loop, SupExit, SupPark, SupLoop, SupPoll, SupStalls, SupWait
<1>4. CASE BringingUp
  <2>1. CASE BringUp
    BY <2>1 DEF BringUp
  <2>2. CASE PrerollWait
    BY <2>2, WaitStalls DEF PrerollWait
  <2>3. CASE PrerollRead
    BY <2>3, ReadStalls DEF PrerollRead
  <2> QED
    BY <1>4, <2>1, <2>2, <2>3 DEF BringingUp, BringUpRefused, BringUpOpen,
           BringUpEnable, BringUpEnableFails, NoFirstGrain, AudioPreroll,
           StartPlayback, BringUpDone
<1>5. CASE Reopening
  <2>1. CASE ReopenInstall
    BY <2>1 DEF ReopenInstall
  <2>2. ASSUME NEW s \in Slots, ReopenInstallFails(s) PROVE ReopenTakesOver'
    BY <2>2 DEF ReopenInstallFails
  <2> QED
    BY <1>5, <2>1, <2>2 DEF Reopening, ReopenCheck, ReopenTake, ReopenRelease,
           ReopenOpen, ReopenFormatChanged
<1>6. CASE TearingDown
  <2>1. CASE TearDownTake
    BY <2>1 DEF TearDownTake, NoFlags
  <2> QED
    BY <1>6, <2>1 DEF TearingDown, TearDownStop, TearDownGroup,
           TearDownSession, TearDownReaders
<1>7. CASE UNCHANGED vars
  BY <1>7 DEF vars
<1> QED
  BY <1>1, <1>2, <1>3, <1>4, <1>5, <1>6, <1>7 DEF Next, Supervisor, Stopped

-----------------------------------------------------------------------------
(* Inv is inductive: one lemma per part of the next-state relation, one    *)
(* step per action.                                                        *)

\* Writers, time and the owner touch no reader, group or session.
LEMMA EnvironmentStep == Inv /\ Environment => Inv'
<1> SUFFICES ASSUME Inv, Environment PROVE Inv'
  OBVIOUS
<1> USE ConstantsOK DEF ConstantsOK, flowVars, readerVars, supVars, reopenVars, countVars,
        statusVars, lifeVars, cardVars, threadVars, EnvUnchanged, None, Video
<1>1. ASSUME NEW f \in Flows, NEW x \in Formats, CreateFlow(f, x)
      PROVE  Inv'
  <2>1. FlagTypes'
    BY <1>1 DEF Inv, TypeOK, FlagTypes, CreateFlow
  <2>2. FlowTypes'
    BY <1>1 DEF Inv, TypeOK, FlowTypes, FileIds, CreateFlow
  <2>3. ReaderTypes'
    BY <1>1 DEF Inv, TypeOK, ReaderTypes, CreateFlow
  <2>4. SupTypes'
    BY <1>1 DEF Inv, TypeOK, SupTypes, SupPcs, TearDownPcs, CreateFlow
  <2>5. CardTypes'
    BY <1>1 DEF Inv, TypeOK, CardTypes, CreateFlow
  <2>6. SessionInv'
    BY <1>1 DEF Inv, TypeOK, SessionInv, CreateFlow
  <2>7. PipelineInv'
    BY <1>1 DEF Inv, TypeOK, PipelineInv, PipelineBounded, CreateFlow
  <2>8. ReaderInv'
    BY <1>1 DEF Inv, TypeOK, ReaderInv, GroupIsWaitable, Waitable, Readable, Down, CreateFlow
  <2> QED
    BY <2>1, <2>2, <2>3, <2>4, <2>5, <2>6, <2>7, <2>8 DEF Inv, TypeOK
<1>2. ASSUME NEW f \in Flows, RemoveFlow(f)
      PROVE  Inv'
  BY <1>2 DEF RemoveFlow, Inv, TypeOK, FlagTypes, FlowTypes, ReaderTypes,
         SupTypes, SupPcs, TearDownPcs, CardTypes, SessionInv, LoopPcs,
         PipelineInv, PipelineBounded, ReaderInv, GroupIsWaitable, Waitable,
         Readable, Down
<1>3. ASSUME NEW f \in Flows, WriteAgain(f)
      PROVE  Inv'
  BY <1>3 DEF WriteAgain, Inv, TypeOK, FlagTypes, FlowTypes, ReaderTypes,
         SupTypes, SupPcs, TearDownPcs, CardTypes, SessionInv, LoopPcs,
         PipelineInv, PipelineBounded, ReaderInv, GroupIsWaitable, Waitable,
         Readable, Down
<1>4. CASE SecondPasses
  BY <1>4 DEF SecondPasses, Inv, TypeOK, FlagTypes, FlowTypes, ReaderTypes,
         SupTypes, SupPcs, TearDownPcs, CardTypes, SessionInv, LoopPcs,
         PipelineInv, PipelineBounded, ReaderInv, GroupIsWaitable, Waitable,
         Readable, Down
<1>5. CASE RetryDue
  <2>1. FlagTypes'
    BY <1>5 DEF Inv, TypeOK, FlagTypes, RetryDue
  <2>2. FlowTypes'
    BY <1>5 DEF Inv, TypeOK, FlowTypes, RetryDue
  <2>3. ReaderTypes'
    BY <1>5 DEF Inv, TypeOK, ReaderTypes, RetryDue
  <2>4. SupTypes'
    BY <1>5 DEF Inv, TypeOK, SupTypes, SupPcs, TearDownPcs, RetryDue
  <2>5. CardTypes'
    BY <1>5 DEF Inv, TypeOK, CardTypes, RetryDue
  <2>6. SessionInv'
    BY <1>5 DEF Inv, TypeOK, FlagTypes, CardTypes, SessionInv, LoopPcs,
           RetryDue
  <2>7. PipelineInv'
    BY <1>5 DEF Inv, TypeOK, CardTypes, SessionInv, LoopPcs, PipelineInv,
           PipelineBounded, RetryDue
  <2>8. ReaderInv'
    BY <1>5 DEF Inv, TypeOK, ReaderTypes, SupTypes, CardTypes, SessionInv,
           LoopPcs, ReaderInv, GroupIsWaitable, Waitable, Readable, Down,
           RetryDue
  <2> QED
    BY <2>1, <2>2, <2>3, <2>4, <2>5, <2>6, <2>7, <2>8 DEF Inv, TypeOK
<1>6. CASE Stop
  <2>1. FlagTypes'
    BY <1>6 DEF Inv, TypeOK, FlagTypes, Stop
  <2>2. FlowTypes'
    BY <1>6 DEF Inv, TypeOK, FlowTypes, Stop
  <2>3. ReaderTypes'
    BY <1>6 DEF Inv, TypeOK, ReaderTypes, Stop
  <2>4. SupTypes'
    BY <1>6 DEF Inv, TypeOK, SupTypes, SupPcs, TearDownPcs, Stop
  <2>5. CardTypes'
    BY <1>6 DEF Inv, TypeOK, CardTypes, Stop
  <2>6. SessionInv'
    BY <1>6 DEF Inv, TypeOK, FlagTypes, CardTypes, SessionInv, LoopPcs, Stop
  <2>7. PipelineInv'
    BY <1>6 DEF Inv, TypeOK, CardTypes, SessionInv, LoopPcs, PipelineInv,
           PipelineBounded, Stop
  <2>8. ReaderInv'
    BY <1>6 DEF Inv, TypeOK, ReaderTypes, SupTypes, CardTypes, SessionInv,
           LoopPcs, ReaderInv, GroupIsWaitable, Waitable, Readable, Down, Stop
  <2> QED
    BY <2>1, <2>2, <2>3, <2>4, <2>5, <2>6, <2>7, <2>8 DEF Inv, TypeOK
<1> QED
  BY <1>1, <1>2, <1>3, <1>4, <1>5, <1>6 DEF Environment

\* The callbacks: they run only while the session can call, and change readers as the
\* lemmas above allow.
LEMMA CallbacksStep == Inv /\ Callbacks => Inv'
<1> SUFFICES ASSUME Inv, Callbacks PROVE Inv'
  OBVIOUS
<1> USE ConstantsOK DEF ConstantsOK, flowVars, readerVars, supVars, reopenVars, countVars,
        statusVars, lifeVars, cardVars, threadVars, EnvUnchanged, None, Video
<1>1. ASSUME NEW late \in BOOLEAN, NEW window \in BOOLEAN, FrameCompleted(late, window)
      PROVE  Inv'
  BY <1>1 DEF FrameCompleted, CallbackMutexFree, Inv, TypeOK, FlagTypes,
         FlowTypes, ReaderTypes, SupTypes, SupPcs, TearDownPcs, CardTypes,
         SessionInv, LoopPcs, PipelineInv, PipelineBounded, ReaderInv,
         GroupIsWaitable, Waitable, Readable, Down
<1>2. CASE VideoWait
  <2>a. GroupWaitable /\ ~Down /\ sup \notin {"open", "tdGroup"}
    BY <1>2 DEF VideoWait, Inv, TypeOK, CardTypes, SessionInv, Down, ReaderInv,
           GroupIsWaitable, GroupWaitable
  <2>b. ReadersKept
    BY <1>2, <2>a, SyncWaitKeeps DEF VideoWait, Inv, TypeOK, FlagTypes
  <2>1. FlagTypes'
    BY <1>2, <2>b DEF Inv, TypeOK, FlagTypes, ReadersKept, VideoWait
  <2>2. FlowTypes'
    BY <1>2 DEF Inv, TypeOK, FlowTypes, VideoWait
  <2>3. ReaderTypes'
    BY <2>b DEF ReadersKept
  <2>4. SupTypes'
    BY <1>2 DEF Inv, TypeOK, SupTypes, SupPcs, TearDownPcs, VideoWait
  <2>5. CardTypes'
    BY <1>2 DEF Inv, TypeOK, CardTypes, VideoWait
  <2>6. SessionInv'
    BY <1>2 DEF Inv, TypeOK, FlagTypes, CardTypes, SessionInv, LoopPcs,
           VideoWait
  <2>7. PipelineInv'
    BY <1>2 DEF Inv, TypeOK, CardTypes, SessionInv, LoopPcs, PipelineInv,
           PipelineBounded, VideoWait
  <2>8. ReaderInv'
    <3>1. GroupIsWaitable' /\ ~Down' /\ sup' \notin {"open", "tdGroup"}
      BY <1>2, <2>a, <2>b DEF VideoWait, ReadersKept, GroupWaitable,
             GroupIsWaitable, Down
    <3>2. UNCHANGED <<sup, want, got>> /\ \A s \in Slots : invalid[s] => invalid'[s]
      BY <1>2, <2>b DEF VideoWait, ReadersKept
    <3> QED
      BY <3>1, <3>2 DEF Inv, TypeOK, SupTypes, ReaderInv
  <2> QED
    BY <2>1, <2>2, <2>3, <2>4, <2>5, <2>6, <2>7, <2>8 DEF Inv, TypeOK
<1>3. CASE VideoRead
  <2>a. GroupWaitable /\ ~Down /\ sup \notin {"open", "tdGroup"}
    BY <1>3 DEF VideoRead, Inv, TypeOK, CardTypes, SessionInv, Down, ReaderInv,
           GroupIsWaitable, GroupWaitable
  <2>r. PICK fresh \in BOOLEAN, ok \in BOOLEAN :
          ReadGrain(fresh) /\ ScheduleFrame(fresh, ok)
    BY <1>3 DEF VideoRead
  <2>b. ReadersKept /\ lateClock' \in 0..2
    BY <2>a, <2>r, ReadGrainKeeps DEF Inv, TypeOK, FlagTypes, CardTypes
  <2>1. FlagTypes'
    BY <1>3, <2>b DEF Inv, TypeOK, FlagTypes, ReadersKept, VideoRead
  <2>2. FlowTypes'
    BY <1>3 DEF Inv, TypeOK, FlowTypes, VideoRead
  <2>3. ReaderTypes'
    BY <2>b DEF ReadersKept
  <2>4. SupTypes'
    BY <1>3 DEF Inv, TypeOK, SupTypes, SupPcs, TearDownPcs, VideoRead
  <2>5. CardTypes'
    BY <1>3, <2>b, <2>r DEF Inv, TypeOK, CardTypes, SessionInv, PipelineInv,
           PipelineBounded, VideoRead, ScheduleFrame
  <2>6. SessionInv'
    BY <1>3, <2>r DEF Inv, TypeOK, FlagTypes, CardTypes, SessionInv, LoopPcs,
           VideoRead, ScheduleFrame
  <2>7. PipelineInv'
    BY <1>3, <2>r DEF Inv, TypeOK, CardTypes, SessionInv, LoopPcs, PipelineInv,
           PipelineBounded, VideoRead, ScheduleFrame
  <2>8. ReaderInv'
    <3>1. GroupIsWaitable' /\ ~Down' /\ sup' \notin {"open", "tdGroup"}
      BY <1>3, <2>a, <2>b DEF VideoRead, ReadersKept, GroupWaitable,
             GroupIsWaitable, Down
    <3>2. UNCHANGED <<sup, want, got>> /\ \A s \in Slots : invalid[s] => invalid'[s]
      BY <1>3, <2>b DEF VideoRead, ReadersKept
    <3> QED
      BY <3>1, <3>2 DEF Inv, TypeOK, SupTypes, ReaderInv
  <2> QED
    BY <2>1, <2>2, <2>3, <2>4, <2>5, <2>6, <2>7, <2>8 DEF Inv, TypeOK
<1>4. CASE AudioStart
  BY <1>4 DEF AudioStart, CallbackMutexFree, Inv, TypeOK, FlagTypes,
         FlowTypes, ReaderTypes, SupTypes, SupPcs, TearDownPcs, CardTypes,
         SessionInv, LoopPcs, PipelineInv, PipelineBounded, ReaderInv,
         GroupIsWaitable, Waitable, Readable, Down
<1>5. CASE AudioRead
  <2>a. GroupWaitable /\ ~Down /\ sup \notin {"open", "tdGroup"}
    BY <1>5 DEF AudioRead, Inv, TypeOK, CardTypes, SessionInv, Down, ReaderInv,
           GroupIsWaitable, GroupWaitable
  <2>c. acb \in Slots /\ {acb} \in SUBSET Slots
    BY <1>5 DEF AudioRead, AudioSlots, Slots
  <2>d. /\ FlowMates({acb}) \in SUBSET Slots
        /\ HandleMates({acb}) \in SUBSET Slots
        /\ \A s \in HandleMates({acb}) : Readable(s)
    BY DEF FlowMates, HandleMates
  <2>b. ReadersKept
    BY <1>5, <2>a, <2>d, NoReaderChangeKeeps, MarkInvalidKeeps, ClearStalledKeeps,
       SetStalledKeeps DEF AudioRead, Inv, TypeOK, FlagTypes
  <2>1. FlagTypes'
    BY <1>5, <2>b DEF Inv, TypeOK, FlagTypes, ReadersKept, AudioRead
  <2>2. FlowTypes'
    BY <1>5 DEF Inv, TypeOK, FlowTypes, AudioRead
  <2>3. ReaderTypes'
    BY <2>b DEF ReadersKept
  <2>4. SupTypes'
    BY <1>5 DEF Inv, TypeOK, SupTypes, SupPcs, TearDownPcs, AudioRead
  <2>5. CardTypes'
    BY <1>5 DEF Inv, TypeOK, CardTypes, AudioRead, AudioSlots
  <2>6. SessionInv'
    BY <1>5 DEF Inv, TypeOK, FlagTypes, CardTypes, SessionInv, LoopPcs,
           AudioRead
  <2>7. PipelineInv'
    BY <1>5 DEF Inv, TypeOK, CardTypes, SessionInv, LoopPcs, PipelineInv,
           PipelineBounded, AudioRead
  <2>8. ReaderInv'
    <3>1. GroupIsWaitable' /\ ~Down' /\ sup' \notin {"open", "tdGroup"}
      BY <1>5, <2>a, <2>b DEF AudioRead, ReadersKept, GroupWaitable,
             GroupIsWaitable, Down
    <3>2. UNCHANGED <<sup, want, got>> /\ \A s \in Slots : invalid[s] => invalid'[s]
      BY <1>5, <2>b DEF AudioRead, ReadersKept
    <3> QED
      BY <3>1, <3>2 DEF Inv, TypeOK, SupTypes, ReaderInv
  <2> QED
    BY <2>1, <2>2, <2>3, <2>4, <2>5, <2>6, <2>7, <2>8 DEF Inv, TypeOK
<1>6. CASE HousekeepingStart
  BY <1>6 DEF HousekeepingStart, Inv, TypeOK, FlagTypes, FlowTypes,
         ReaderTypes, SupTypes, SupPcs, TearDownPcs, CardTypes, SessionInv,
         LoopPcs, PipelineInv, PipelineBounded, ReaderInv, GroupIsWaitable,
         Waitable, Readable, Down
<1>7. CASE HousekeepingEnd
  BY <1>7 DEF HousekeepingEnd, Inv, TypeOK, FlagTypes, FlowTypes, ReaderTypes,
         SupTypes, SupPcs, TearDownPcs, CardTypes, SessionInv, LoopPcs,
         PipelineInv, PipelineBounded, ReaderInv, GroupIsWaitable, Waitable,
         Readable, Down
<1> QED
  BY <1>1, <1>2, <1>3, <1>4, <1>5, <1>6, <1>7 DEF Callbacks

\* The loop of the supervisor.
LEMMA LoopStep == Inv /\ Loop => Inv'
<1> SUFFICES ASSUME Inv, Loop PROVE Inv'
  OBVIOUS
<1> USE ConstantsOK DEF ConstantsOK, flowVars, readerVars, supVars, reopenVars, countVars,
        statusVars, lifeVars, cardVars, threadVars, EnvUnchanged, None, Video
<1>1. CASE SupExit
  BY <1>1 DEF SupExit, Inv, TypeOK, FlagTypes, FlowTypes, ReaderTypes,
         SupTypes, SupPcs, TearDownPcs, CardTypes, SessionInv, LoopPcs,
         PipelineInv, PipelineBounded, ReaderInv, GroupIsWaitable, Waitable,
         Readable, Down
<1>2. CASE SupPark
  BY <1>2 DEF SupPark, Inv, TypeOK, FlagTypes, FlowTypes, ReaderTypes,
         SupTypes, SupPcs, TearDownPcs, CardTypes, SessionInv, LoopPcs,
         PipelineInv, PipelineBounded, ReaderInv, GroupIsWaitable, Waitable,
         Readable, Down
<1>3. CASE SupLoop
  BY <1>3 DEF SupLoop, Inv, TypeOK, FlagTypes, FlowTypes, ReaderTypes,
         SupTypes, SupPcs, TearDownPcs, CardTypes, SessionInv, LoopPcs,
         PipelineInv, PipelineBounded, ReaderInv, GroupIsWaitable, Waitable,
         Readable, Down
<1>4. CASE SupPoll
  <2>1. FlagTypes'
    BY <1>4 DEF Inv, TypeOK, FlagTypes, SupPoll
  <2>2. FlowTypes'
    BY <1>4 DEF Inv, TypeOK, FlowTypes, SupPoll
  <2>3. ReaderTypes'
    BY <1>4 DEF Inv, TypeOK, ReaderTypes, SupPoll
  <2>4. SupTypes'
    BY <1>4 DEF Inv, TypeOK, SupTypes, SupPcs, TearDownPcs, SupPoll
  <2>5. CardTypes'
    BY <1>4 DEF Inv, TypeOK, CardTypes, SupPoll
  <2>6. SessionInv'
    BY <1>4 DEF Inv, TypeOK, FlagTypes, CardTypes, SessionInv, LoopPcs,
           SupPoll
  <2>7. PipelineInv'
    BY <1>4 DEF Inv, TypeOK, CardTypes, SessionInv, LoopPcs, PipelineInv,
           PipelineBounded, SupPoll
  <2>8. ReaderInv'
    BY <1>4 DEF Inv, TypeOK, ReaderTypes, SupTypes, CardTypes, SessionInv,
           LoopPcs, ReaderInv, GroupIsWaitable, Waitable, Readable, Down,
           SupPoll
  <2> QED
    BY <2>1, <2>2, <2>3, <2>4, <2>5, <2>6, <2>7, <2>8 DEF Inv, TypeOK
<1>5. CASE SupStalls
  BY <1>5 DEF SupStalls, RunningState, Inv, TypeOK, FlagTypes, FlowTypes,
         ReaderTypes, SupTypes, SupPcs, TearDownPcs, CardTypes, SessionInv,
         LoopPcs, PipelineInv, PipelineBounded, ReaderInv, GroupIsWaitable,
         Waitable, Readable, Down
<1>6. CASE SupWait
  BY <1>6 DEF SupWait, Inv, TypeOK, FlagTypes, FlowTypes, ReaderTypes,
         SupTypes, SupPcs, TearDownPcs, CardTypes, SessionInv, LoopPcs,
         PipelineInv, PipelineBounded, ReaderInv, GroupIsWaitable, Waitable,
         Readable, Down
<1> QED
  BY <1>1, <1>2, <1>3, <1>4, <1>5, <1>6 DEF Loop

\* bringUp: nothing of the session before is left, every reader is open when the
\* group takes it, and the preroll ends at its size.
LEMMA BringingUpStep == Inv /\ BringingUp => Inv'
<1> SUFFICES ASSUME Inv, BringingUp PROVE Inv'
  OBVIOUS
<1> USE ConstantsOK DEF ConstantsOK, flowVars, readerVars, supVars, reopenVars, countVars,
        statusVars, lifeVars, cardVars, threadVars, EnvUnchanged, None, Video
<1>1. CASE BringUp
  <2>1. FlagTypes'
    BY <1>1 DEF Inv, TypeOK, FlagTypes, BringUp, PictureCleared
  <2>2. FlowTypes'
    BY <1>1 DEF Inv, TypeOK, FlowTypes, BringUp, PictureCleared
  <2>3. ReaderTypes'
    <3>1. invalid' \in [Slots -> BOOLEAN] /\ stalled' \in [Slots -> BOOLEAN]
      BY <1>1 DEF Inv, TypeOK, ReaderTypes, BringUp
    <3> QED
      BY <1>1, <3>1 DEF Inv, TypeOK, ReaderTypes, BringUp
  <2>4. SupTypes'
    BY <1>1 DEF Inv, TypeOK, SupTypes, SupPcs, TearDownPcs, BringUp,
           PictureCleared
  <2>5. CardTypes'
    BY <1>1 DEF Inv, TypeOK, CardTypes, BringUp, PictureCleared
  <2>6. SessionInv'
    BY <1>1 DEF Inv, TypeOK, FlagTypes, CardTypes, SessionInv, LoopPcs,
           BringUp, PictureCleared
  <2>7. PipelineInv'
    BY <1>1 DEF Inv, TypeOK, CardTypes, SessionInv, LoopPcs, PipelineInv,
           PipelineBounded, BringUp, PictureCleared
  <2>8. ReaderInv'
    <3>1. group = {} /\ \A s \in AudioSlots : ~invalid[s] /\ ~stalled[s]
      BY <1>1 DEF Inv, ReaderInv, Down, BringUp
    <3>2. 0 \in Slots /\ 0 \notin AudioSlots /\ AudioSlots \subseteq Slots
      BY DEF Slots, AudioSlots
    <3>3. /\ ~invalid'[0] /\ ~stalled'[0]
          /\ \A s \in AudioSlots : ~invalid'[s] /\ ~stalled'[s]
      BY <1>1, <3>1, <3>2 DEF Inv, TypeOK, ReaderTypes, BringUp
    <3>4. group' = {} /\ want' = Slots /\ sup' = "open" /\ UNCHANGED got
      BY <1>1, <3>1 DEF BringUp
    <3>5. \A s \in Slots : got[s] = 0
      BY <1>1 DEF Inv, ReaderInv, BringUp
    <3> QED
      BY <3>3, <3>4, <3>5 DEF ReaderInv, GroupIsWaitable
  <2> QED
    BY <2>1, <2>2, <2>3, <2>4, <2>5, <2>6, <2>7, <2>8 DEF Inv, TypeOK
<1>2. CASE BringUpRefused
  BY <1>2 DEF BringUpRefused, Inv, TypeOK, FlagTypes, FlowTypes, ReaderTypes,
         SupTypes, SupPcs, TearDownPcs, CardTypes, SessionInv, LoopPcs,
         PipelineInv, PipelineBounded, ReaderInv, GroupIsWaitable, Waitable,
         Readable, Down
<1>3. CASE BringUpOpen
  <2>a. \A s \in want : FlowOf[s] \in Flows /\ Opened(FlowOf[s]) \in 0..MaxFiles
    BY OpenedType DEF Inv, TypeOK, SupTypes
  <2>1. FlagTypes'
    BY <1>3 DEF Inv, TypeOK, FlagTypes, BringUpOpen
  <2>2. FlowTypes'
    BY <1>3 DEF Inv, TypeOK, FlowTypes, BringUpOpen
  <2>3. ReaderTypes'
    <3>1. PICK s \in want :
            \/ /\ Opened(FlowOf[s]) # 0
               /\ handle' = [handle EXCEPT ![s] = Opened(FlowOf[s])]
               /\ cfgFmt' = [cfgFmt EXCEPT ![s] = file[Opened(FlowOf[s])].fmt]
            \/ UNCHANGED <<handle, cfgFmt>>
      BY <1>3 DEF BringUpOpen
    <3>2. Opened(FlowOf[s]) # 0 => file[Opened(FlowOf[s])].fmt \in Formats
      BY <2>a DEF Inv, TypeOK, FlowTypes, FileIds
    <3>3. handle' \in [Slots -> 0..MaxFiles] /\ cfgFmt' \in [Slots -> Formats]
      BY <2>a, <3>1, <3>2 DEF Inv, TypeOK, ReaderTypes
    <3> QED
      BY <1>3, <3>3 DEF Inv, TypeOK, ReaderTypes, BringUpOpen
  <2>4. SupTypes'
    BY <1>3 DEF Inv, TypeOK, SupTypes, SupPcs, TearDownPcs, BringUpOpen
  <2>5. CardTypes'
    BY <1>3 DEF Inv, TypeOK, CardTypes, BringUpOpen
  <2>6. SessionInv'
    BY <1>3 DEF Inv, TypeOK, FlagTypes, CardTypes, SessionInv, LoopPcs,
           BringUpOpen
  <2>7. PipelineInv'
    BY <1>3 DEF Inv, TypeOK, CardTypes, SessionInv, LoopPcs, PipelineInv,
           PipelineBounded, BringUpOpen
  <2>8. ReaderInv'
    BY <1>3 DEF Inv, TypeOK, ReaderTypes, SupTypes, CardTypes, SessionInv,
           LoopPcs, ReaderInv, GroupIsWaitable, Waitable, Readable, Down,
           BringUpOpen
  <2> QED
    BY <2>1, <2>2, <2>3, <2>4, <2>5, <2>6, <2>7, <2>8 DEF Inv, TypeOK
<1>4. CASE BringUpEnable
  <2>a. \A s \in Slots : Waitable(s) /\ handle[s] \in FileIds
    <3>1. sup = "open" /\ want = {}
      BY <1>4 DEF BringUpEnable
    <3>2. handle \in [Slots -> 0..MaxFiles]
      BY DEF Inv, TypeOK, ReaderTypes
    <3>3. /\ ~invalid[Video] /\ ~stalled[Video]
          /\ \A s \in Slots : handle[s] # None
      BY <3>1 DEF Inv, ReaderInv
    <3>4. \A s \in AudioSlots : ~invalid[s] /\ ~stalled[s]
      BY <3>1 DEF Inv, ReaderInv, Down
    <3>5. \A s \in Slots : Waitable(s)
      BY <3>3, <3>4 DEF Slots, AudioSlots, Waitable, Readable
    <3>6. \A s \in Slots : handle[s] \in FileIds
      BY <3>2, <3>3 DEF FileIds, None
    <3> QED
      BY <3>5, <3>6
  <2>1. FlagTypes'
    BY <1>4 DEF Inv, TypeOK, FlagTypes, BringUpEnable
  <2>2. FlowTypes'
    BY <1>4 DEF Inv, TypeOK, FlowTypes, BringUpEnable
  <2>3. ReaderTypes'
    BY <1>4, <2>a DEF Inv, TypeOK, ReaderTypes, BringUpEnable
  <2>4. SupTypes'
    BY <1>4 DEF Inv, TypeOK, SupTypes, SupPcs, TearDownPcs, BringUpEnable
  <2>5. CardTypes'
    BY <1>4 DEF Inv, TypeOK, CardTypes, BringUpEnable
  <2>6. SessionInv'
    BY <1>4 DEF Inv, TypeOK, FlagTypes, CardTypes, SessionInv, LoopPcs,
           BringUpEnable
  <2>7. PipelineInv'
    BY <1>4 DEF Inv, TypeOK, CardTypes, SessionInv, LoopPcs, PipelineInv,
           PipelineBounded, BringUpEnable
  <2>8. ReaderInv'
    <3>1. GroupIsWaitable'
      BY <1>4, <2>a DEF GroupIsWaitable, Waitable, Readable, BringUpEnable
    <3> QED
      BY <1>4, <3>1 DEF Inv, ReaderInv, Down, BringUpEnable
  <2> QED
    BY <2>1, <2>2, <2>3, <2>4, <2>5, <2>6, <2>7, <2>8 DEF Inv, TypeOK
<1>5. CASE BringUpEnableFails
  <2>a. \A s \in Slots : Waitable(s) /\ handle[s] \in FileIds
    <3>1. sup = "open" /\ want = {}
      BY <1>5 DEF BringUpEnableFails
    <3>2. handle \in [Slots -> 0..MaxFiles]
      BY DEF Inv, TypeOK, ReaderTypes
    <3>3. /\ ~invalid[Video] /\ ~stalled[Video]
          /\ \A s \in Slots : handle[s] # None
      BY <3>1 DEF Inv, ReaderInv
    <3>4. \A s \in AudioSlots : ~invalid[s] /\ ~stalled[s]
      BY <3>1 DEF Inv, ReaderInv, Down
    <3>5. \A s \in Slots : Waitable(s)
      BY <3>3, <3>4 DEF Slots, AudioSlots, Waitable, Readable
    <3>6. \A s \in Slots : handle[s] \in FileIds
      BY <3>2, <3>3 DEF FileIds, None
    <3> QED
      BY <3>5, <3>6
  <2>1. FlagTypes'
    BY <1>5 DEF Inv, TypeOK, FlagTypes, BringUpEnableFails
  <2>2. FlowTypes'
    BY <1>5 DEF Inv, TypeOK, FlowTypes, BringUpEnableFails
  <2>3. ReaderTypes'
    BY <1>5, <2>a DEF Inv, TypeOK, ReaderTypes, BringUpEnableFails
  <2>4. SupTypes'
    BY <1>5 DEF Inv, TypeOK, SupTypes, SupPcs, TearDownPcs, BringUpEnableFails
  <2>5. CardTypes'
    BY <1>5 DEF Inv, TypeOK, CardTypes, BringUpEnableFails
  <2>6. SessionInv'
    BY <1>5 DEF Inv, TypeOK, FlagTypes, CardTypes, SessionInv, LoopPcs,
           BringUpEnableFails
  <2>7. PipelineInv'
    BY <1>5 DEF Inv, TypeOK, CardTypes, SessionInv, LoopPcs, PipelineInv,
           PipelineBounded, BringUpEnableFails
  <2>8. ReaderInv'
    <3>1. GroupIsWaitable'
      BY <1>5, <2>a DEF GroupIsWaitable, Waitable, Readable, BringUpEnableFails
    <3> QED
      BY <1>5, <3>1 DEF Inv, ReaderInv, Down, BringUpEnableFails
  <2> QED
    BY <2>1, <2>2, <2>3, <2>4, <2>5, <2>6, <2>7, <2>8 DEF Inv, TypeOK
<1>6. CASE NoFirstGrain
  BY <1>6 DEF NoFirstGrain, Inv, TypeOK, FlagTypes, FlowTypes, ReaderTypes,
         SupTypes, SupPcs, TearDownPcs, CardTypes, SessionInv, LoopPcs,
         PipelineInv, PipelineBounded, ReaderInv, GroupIsWaitable, Waitable,
         Readable, Down
<1>7. CASE PrerollWait
  <2>a. GroupWaitable /\ ~Down
    BY <1>7 DEF PrerollWait, Inv, Down, ReaderInv, GroupIsWaitable, GroupWaitable
  <2>b. ReadersKept
    BY <1>7, <2>a, SyncWaitKeeps DEF PrerollWait, Inv, TypeOK, FlagTypes
  <2>1. FlagTypes'
    BY <1>7, <2>b DEF Inv, TypeOK, FlagTypes, ReadersKept, PrerollWait
  <2>2. FlowTypes'
    BY <1>7 DEF Inv, TypeOK, FlowTypes, PrerollWait
  <2>3. ReaderTypes'
    BY <2>b DEF ReadersKept
  <2>4. SupTypes'
    BY <1>7 DEF Inv, TypeOK, SupTypes, SupPcs, TearDownPcs, PrerollWait
  <2>5. CardTypes'
    BY <1>7 DEF Inv, TypeOK, CardTypes, PrerollWait
  <2>6. SessionInv'
    BY <1>7 DEF Inv, TypeOK, FlagTypes, CardTypes, SessionInv, LoopPcs,
           PrerollWait
  <2>7. PipelineInv'
    BY <1>7 DEF Inv, TypeOK, CardTypes, SessionInv, LoopPcs, PipelineInv,
           PipelineBounded, PrerollWait
  <2>8. ReaderInv'
    <3>1. GroupIsWaitable' /\ ~Down' /\ sup' \in {"preWait", "preRead", "start", "tdStop"}
      BY <1>7, <2>b DEF PrerollWait, ReadersKept, GroupWaitable, GroupIsWaitable, Down
    <3>2. UNCHANGED got /\ \A s \in Slots : got[s] = 0
      BY <1>7 DEF PrerollWait, Inv, ReaderInv
    <3> QED
      BY <3>1, <3>2 DEF ReaderInv
  <2> QED
    BY <2>1, <2>2, <2>3, <2>4, <2>5, <2>6, <2>7, <2>8 DEF Inv, TypeOK
<1>8. CASE PrerollRead
  <2>a. GroupWaitable /\ ~Down
    BY <1>8 DEF PrerollRead, Inv, Down, ReaderInv, GroupIsWaitable, GroupWaitable
  <2>r. PICK fresh \in BOOLEAN, ok \in BOOLEAN :
          /\ ReadGrain(fresh) /\ ScheduleFrame(fresh, ok)
          /\ \/ /\ ok
                /\ sup' = IF PrerollComplete(inCard') THEN "start" ELSE "preWait"
                /\ tries' = IF PrerollComplete(inCard') THEN 0 ELSE tries
                /\ UNCHANGED ret
             \/ /\ ~ok /\ tries < MaxTries
                /\ tries' = tries + 1 /\ sup' = "preWait" /\ UNCHANGED ret
             \/ /\ ~ok
                /\ tries' = 0 /\ sup' = "tdStop" /\ ret' = "failed"
    BY <1>8 DEF PrerollRead
  <2>b. ReadersKept /\ lateClock' \in 0..2
    BY <2>a, <2>r, ReadGrainKeeps DEF Inv, TypeOK, FlagTypes, CardTypes
  <2>c. session = "enabled" /\ vcb = "idle" /\ inCard < Preroll
    BY <1>8 DEF Inv, SessionInv, PipelineInv, PrerollRead
  <2>d. inCard' = IF ok THEN inCard + 1 ELSE inCard
    BY <2>c, <2>r DEF ScheduleFrame
  <2>1. FlagTypes'
    BY <1>8, <2>b DEF Inv, TypeOK, FlagTypes, ReadersKept, PrerollRead
  <2>2. FlowTypes'
    BY <1>8 DEF Inv, TypeOK, FlowTypes, PrerollRead
  <2>3. ReaderTypes'
    BY <2>b DEF ReadersKept
  <2>4. SupTypes'
    BY <1>8, <2>r DEF Inv, TypeOK, SupTypes, SupPcs, TearDownPcs, PrerollRead
  <2>5. CardTypes'
    BY <1>8, <2>b, <2>c, <2>d, <2>r DEF Inv, TypeOK, CardTypes, PrerollRead,
           ScheduleFrame
  <2>6. SessionInv'
    BY <1>8, <2>c, <2>r DEF Inv, SessionInv, LoopPcs, PrerollRead, ScheduleFrame
  <2>7. PipelineInv'
    BY <1>8, <2>c, <2>d, <2>r DEF Inv, TypeOK, CardTypes, PipelineInv,
           PipelineBounded, PrerollComplete, PrerollRead
  <2>8. ReaderInv'
    <3>1. GroupIsWaitable' /\ ~Down' /\ sup' \in {"preWait", "preRead", "start", "tdStop"}
      BY <1>8, <2>b DEF PrerollRead, ReadersKept, GroupWaitable, GroupIsWaitable, Down
    <3>2. UNCHANGED got /\ \A s \in Slots : got[s] = 0
      BY <1>8 DEF PrerollRead, Inv, ReaderInv
    <3> QED
      BY <3>1, <3>2 DEF ReaderInv
  <2> QED
    BY <2>1, <2>2, <2>3, <2>4, <2>5, <2>6, <2>7, <2>8 DEF Inv, TypeOK
<1>9. CASE AudioPreroll
  BY <1>9 DEF AudioPreroll, Inv, TypeOK, FlagTypes, FlowTypes, ReaderTypes,
         SupTypes, SupPcs, TearDownPcs, CardTypes, SessionInv, LoopPcs,
         PipelineInv, PipelineBounded, ReaderInv, GroupIsWaitable, Waitable,
         Readable, Down
<1>10. CASE StartPlayback
  BY <1>10 DEF StartPlayback, Inv, TypeOK, FlagTypes, FlowTypes, ReaderTypes,
         SupTypes, SupPcs, TearDownPcs, CardTypes, SessionInv, LoopPcs,
         PipelineInv, PipelineBounded, ReaderInv, GroupIsWaitable, Waitable,
         Readable, Down
<1>11. CASE BringUpDone
  BY <1>11 DEF BringUpDone, Inv, TypeOK, FlagTypes, FlowTypes, ReaderTypes,
         SupTypes, SupPcs, TearDownPcs, CardTypes, SessionInv, LoopPcs,
         PipelineInv, PipelineBounded, ReaderInv, GroupIsWaitable, Waitable,
         Readable, Down
<1> QED
  BY <1>1, <1>2, <1>3, <1>4, <1>5, <1>6, <1>7, <1>8, <1>9, <1>10, <1>11 DEF BringingUp

\* reopenInvalidReaders: only readers of invalid slots come out, and what goes in is
\* open, valid and not stalled.
LEMMA ReopeningStep == Inv /\ ReopenTakesOver /\ Reopening => Inv'
<1> SUFFICES ASSUME Inv, ReopenTakesOver, Reopening PROVE Inv'
  OBVIOUS
<1> USE ConstantsOK DEF ConstantsOK, flowVars, readerVars, supVars, reopenVars, countVars,
        statusVars, lifeVars, cardVars, threadVars, EnvUnchanged, None, Video
<1>1. CASE ReopenCheck
  <2>1. FlagTypes'
    BY <1>1 DEF Inv, TypeOK, FlagTypes, ReopenCheck, Clock
  <2>2. FlowTypes'
    BY <1>1 DEF Inv, TypeOK, FlowTypes, ReopenCheck, Clock
  <2>3. ReaderTypes'
    BY <1>1 DEF Inv, TypeOK, ReaderTypes, ReopenCheck, Clock
  <2>4. SupTypes'
    BY <1>1 DEF Inv, TypeOK, SupTypes, SupPcs, TearDownPcs, ReopenCheck, Clock
  <2>5. CardTypes'
    BY <1>1 DEF Inv, TypeOK, CardTypes, ReopenCheck, Clock
  <2>6. SessionInv'
    BY <1>1 DEF Inv, TypeOK, FlagTypes, CardTypes, SessionInv, LoopPcs,
           ReopenCheck, Clock
  <2>7. PipelineInv'
    BY <1>1 DEF Inv, TypeOK, CardTypes, SessionInv, LoopPcs, PipelineInv,
           PipelineBounded, ReopenCheck, Clock
  <2>8. ReaderInv'
    BY <1>1 DEF Inv, TypeOK, ReaderTypes, SupTypes, CardTypes, SessionInv,
           LoopPcs, ReaderInv, GroupIsWaitable, Waitable, Readable, Down,
           ReopenCheck, Clock
  <2> QED
    BY <2>1, <2>2, <2>3, <2>4, <2>5, <2>6, <2>7, <2>8 DEF Inv, TypeOK
<1>2. CASE ReopenTake
  <2>1. FlagTypes'
    BY <1>2 DEF Inv, TypeOK, FlagTypes, ReopenTake
  <2>2. FlowTypes'
    BY <1>2 DEF Inv, TypeOK, FlowTypes, ReopenTake
  <2>3. ReaderTypes'
    BY <1>2 DEF Inv, TypeOK, ReaderTypes, ReopenTake
  <2>4. SupTypes'
    <3>1. old' \in SUBSET FileIds
      BY <1>2 DEF Inv, TypeOK, ReaderTypes, FileIds, ReopenTake
    <3>2. reopens' \in [Flows -> 0..MaxFiles + 1]
      <4>1. \A f \in Flows : CountUp(reopens[f]) \in 0..MaxFiles + 1
        BY DEF Inv, TypeOK, SupTypes, CountUp
      <4> QED
        BY <1>2, <4>1 DEF Inv, TypeOK, SupTypes, ReopenTake
    <3> QED
      BY <1>2, <3>1, <3>2 DEF Inv, TypeOK, SupTypes, SupPcs, ReopenTake
  <2>5. CardTypes'
    BY <1>2 DEF Inv, TypeOK, CardTypes, ReopenTake
  <2>6. SessionInv'
    BY <1>2 DEF Inv, TypeOK, FlagTypes, CardTypes, SessionInv, LoopPcs,
           ReopenTake
  <2>7. PipelineInv'
    BY <1>2 DEF Inv, TypeOK, CardTypes, SessionInv, LoopPcs, PipelineInv,
           PipelineBounded, ReopenTake
  <2>8. ReaderInv'
    BY <1>2 DEF Inv, TypeOK, ReaderTypes, SupTypes, CardTypes, SessionInv,
           LoopPcs, ReaderInv, GroupIsWaitable, Waitable, Readable, Down,
           ReopenTake
  <2> QED
    BY <2>1, <2>2, <2>3, <2>4, <2>5, <2>6, <2>7, <2>8 DEF Inv, TypeOK
<1>3. CASE ReopenRelease
  BY <1>3 DEF ReopenRelease, Inv, TypeOK, FlagTypes, FlowTypes, ReaderTypes,
         SupTypes, SupPcs, TearDownPcs, CardTypes, SessionInv, LoopPcs,
         PipelineInv, PipelineBounded, ReaderInv, GroupIsWaitable, Waitable,
         Readable, Down
<1>4. CASE ReopenOpen
  <2>a. \A s \in want : FlowOf[s] \in Flows /\ Opened(FlowOf[s]) \in 0..MaxFiles
    BY OpenedType DEF Inv, TypeOK, SupTypes
  <2>1. FlagTypes'
    BY <1>4 DEF Inv, TypeOK, FlagTypes, ReopenOpen
  <2>2. FlowTypes'
    BY <1>4 DEF Inv, TypeOK, FlowTypes, ReopenOpen
  <2>3. ReaderTypes'
    BY <1>4 DEF Inv, TypeOK, ReaderTypes, ReopenOpen
  <2>4. SupTypes'
    BY <1>4, <2>a DEF Inv, TypeOK, SupTypes, SupPcs, ReopenOpen
  <2>5. CardTypes'
    BY <1>4 DEF Inv, TypeOK, CardTypes, ReopenOpen
  <2>6. SessionInv'
    BY <1>4 DEF Inv, TypeOK, FlagTypes, CardTypes, SessionInv, LoopPcs,
           ReopenOpen
  <2>7. PipelineInv'
    BY <1>4 DEF Inv, TypeOK, CardTypes, SessionInv, LoopPcs, PipelineInv,
           PipelineBounded, ReopenOpen
  <2>8. ReaderInv'
    BY <1>4 DEF Inv, TypeOK, ReaderTypes, SupTypes, CardTypes, SessionInv,
           LoopPcs, ReaderInv, GroupIsWaitable, Waitable, Readable, Down,
           ReopenOpen
  <2> QED
    BY <2>1, <2>2, <2>3, <2>4, <2>5, <2>6, <2>7, <2>8 DEF Inv, TypeOK
<1>5. CASE ReopenFormatChanged
  <2>1. FlagTypes'
    BY <1>5 DEF Inv, TypeOK, FlagTypes, ReopenFormatChanged, NoReaders
  <2>2. FlowTypes'
    BY <1>5 DEF Inv, TypeOK, FlowTypes, ReopenFormatChanged, NoReaders
  <2>3. ReaderTypes'
    BY <1>5 DEF Inv, TypeOK, ReaderTypes, ReopenFormatChanged, NoReaders
  <2>4. SupTypes'
    BY <1>5 DEF Inv, TypeOK, SupTypes, SupPcs, TearDownPcs,
           ReopenFormatChanged, NoReaders
  <2>5. CardTypes'
    BY <1>5 DEF Inv, TypeOK, CardTypes, ReopenFormatChanged, NoReaders
  <2>6. SessionInv'
    BY <1>5 DEF Inv, TypeOK, FlagTypes, CardTypes, SessionInv, LoopPcs,
           ReopenFormatChanged, NoReaders
  <2>7. PipelineInv'
    BY <1>5 DEF Inv, TypeOK, CardTypes, SessionInv, LoopPcs, PipelineInv,
           PipelineBounded, ReopenFormatChanged, NoReaders
  <2>8. ReaderInv'
    BY <1>5 DEF Inv, TypeOK, ReaderTypes, SupTypes, CardTypes, SessionInv,
           LoopPcs, ReaderInv, GroupIsWaitable, Waitable, Readable, Down,
           ReopenFormatChanged, NoReaders
  <2> QED
    BY <2>1, <2>2, <2>3, <2>4, <2>5, <2>6, <2>7, <2>8 DEF Inv, TypeOK
<1>6. CASE ReopenInstall
  <2>a. \A t \in Slots : got[t] \in 0..MaxFiles /\ (got[t] # 0 => got[t] \in FileIds)
    BY DEF Inv, TypeOK, SupTypes, FileIds
  <2>b. \A t \in Slots : got[t] # 0 => ~Waitable(t) /\ ~stalled[t]
    BY DEF Inv, ReaderInv, ReopenTakesOver, Waitable, Readable
  <2>c. group \subseteq {handle[t] : t \in {u \in Slots : Waitable(u)}}
    BY <1>6 DEF Inv, ReaderInv, GroupIsWaitable, ReopenInstall
  <2>1. FlagTypes'
    BY <1>6 DEF Inv, TypeOK, FlagTypes, ReopenInstall, EventGoesOn,
           StaysDegraded, RunningState, NoReaders
  <2>2. FlowTypes'
    BY <1>6 DEF Inv, TypeOK, FlowTypes, ReopenInstall, EventGoesOn,
           StaysDegraded, RunningState, NoReaders
  <2>3. ReaderTypes'
    <3>1. invalid' \in [Slots -> BOOLEAN] /\ stalled' \in [Slots -> BOOLEAN]
      BY <1>6 DEF Inv, TypeOK, ReaderTypes, ReopenInstall
    <3>2. handle' \in [Slots -> 0..MaxFiles]
      BY <1>6, <2>a DEF Inv, TypeOK, ReaderTypes, ReopenInstall
    <3>3. group' \in SUBSET FileIds
      BY <1>6, <2>a DEF Inv, TypeOK, ReaderTypes, ReopenInstall
    <3> QED
      BY <1>6, <3>1, <3>2, <3>3 DEF Inv, TypeOK, ReaderTypes, ReopenInstall
  <2>4. SupTypes'
    <3>1. split' \in SUBSET Flows
      BY <1>6 DEF Inv, TypeOK, SupTypes, ReopenInstall, SplitFlows
    <3> QED
      BY <1>6, <3>1 DEF Inv, TypeOK, SupTypes, SupPcs, TearDownPcs, ReopenInstall,
             NoReaders
  <2>5. CardTypes'
    BY <1>6 DEF Inv, TypeOK, CardTypes, ReopenInstall, EventGoesOn,
           StaysDegraded, RunningState, NoReaders
  <2>6. SessionInv'
    BY <1>6 DEF Inv, TypeOK, FlagTypes, CardTypes, SessionInv, LoopPcs,
           ReopenInstall, EventGoesOn, StaysDegraded, RunningState, NoReaders
  <2>7. PipelineInv'
    BY <1>6 DEF Inv, TypeOK, CardTypes, SessionInv, LoopPcs, PipelineInv,
           PipelineBounded, ReopenInstall, EventGoesOn, StaysDegraded,
           RunningState, NoReaders
  <2>8. ReaderInv'
    <3>1. GroupIsWaitable'
      <4>1. ASSUME NEW t \in Slots, Waitable(t) PROVE Waitable(t)' /\ handle'[t] = handle[t]
        BY <1>6, <2>b, <4>1 DEF Waitable, Readable, ReopenInstall
      <4>2. ASSUME NEW t \in Slots, got[t] # 0 PROVE Waitable(t)' /\ handle'[t] = got[t]
        BY <1>6, <2>b, <4>2 DEF Waitable, Readable, ReopenInstall
      <4>3. group' = group \cup ({got[t] : t \in Slots} \ {0})
        BY <1>6 DEF ReopenInstall
      <4> QED
        BY <2>c, <4>1, <4>2, <4>3 DEF GroupIsWaitable
    <3> QED
      BY <1>6, <3>1 DEF Inv, ReaderInv, Down, ReopenInstall, NoReaders
  <2> QED
    BY <2>1, <2>2, <2>3, <2>4, <2>5, <2>6, <2>7, <2>8 DEF Inv, TypeOK
<1>7. ASSUME NEW s \in Slots, ReopenInstallFails(s)
      PROVE  Inv'
  <2>a. \A t \in Slots : got[t] \in 0..MaxFiles /\ (got[t] # 0 => got[t] \in FileIds)
    BY DEF Inv, TypeOK, SupTypes, FileIds
  <2>b. \A t \in Slots : got[t] # 0 => ~Waitable(t) /\ ~stalled[t]
    BY DEF Inv, ReaderInv, ReopenTakesOver, Waitable, Readable
  <2>c. group \subseteq {handle[t] : t \in {u \in Slots : Waitable(u)}}
    BY <1>7 DEF Inv, ReaderInv, GroupIsWaitable, ReopenInstallFails
  <2>1. FlagTypes'
    BY <1>7 DEF Inv, TypeOK, FlagTypes, ReopenInstallFails, NoReaders
  <2>2. FlowTypes'
    BY <1>7 DEF Inv, TypeOK, FlowTypes, ReopenInstallFails, NoReaders
  <2>3. ReaderTypes'
    <3>1. invalid' \in [Slots -> BOOLEAN] /\ stalled' \in [Slots -> BOOLEAN]
      BY <1>7 DEF Inv, TypeOK, ReaderTypes, ReopenInstallFails
    <3>2. handle' \in [Slots -> 0..MaxFiles]
      BY <1>7, <2>a DEF Inv, TypeOK, ReaderTypes, ReopenInstallFails
    <3>3. group' \in SUBSET FileIds
      BY <1>7, <2>a DEF Inv, TypeOK, ReaderTypes, ReopenInstallFails
    <3> QED
      BY <1>7, <3>1, <3>2, <3>3 DEF Inv, TypeOK, ReaderTypes, ReopenInstallFails
  <2>4. SupTypes'
    BY <1>7 DEF Inv, TypeOK, SupTypes, SupPcs, TearDownPcs,
           ReopenInstallFails, NoReaders
  <2>5. CardTypes'
    BY <1>7 DEF Inv, TypeOK, CardTypes, ReopenInstallFails, NoReaders
  <2>6. SessionInv'
    BY <1>7 DEF Inv, TypeOK, FlagTypes, CardTypes, SessionInv, LoopPcs,
           ReopenInstallFails, NoReaders
  <2>7. PipelineInv'
    BY <1>7 DEF Inv, TypeOK, CardTypes, SessionInv, LoopPcs, PipelineInv,
           PipelineBounded, ReopenInstallFails, NoReaders
  <2>8. ReaderInv'
    <3>1. GroupIsWaitable'
      <4>1. ASSUME NEW t \in Slots, Waitable(t) PROVE Waitable(t)' /\ handle'[t] = handle[t]
        BY <1>7, <2>b, <4>1 DEF Waitable, Readable, ReopenInstallFails
      <4>2. ASSUME NEW t \in Slots, t < s, got[t] # 0
            PROVE  Waitable(t)' /\ handle'[t] = got[t]
        <5>1. t <= s /\ ~(t > s)
          BY <4>2 DEF Slots
        <5>2. handle'[t] = got[t]
          BY <1>7, <4>2, <5>1 DEF ReopenInstallFails
        <5>3. ~invalid'[t] /\ ~stalled'[t]
          BY <1>7, <2>b, <4>2, <5>1 DEF ReopenInstallFails
        <5> QED
          BY <4>2, <5>2, <5>3 DEF Waitable, Readable
      <4>3. group' = group \cup ({got[t] : t \in {u \in Slots : u < s}} \ {0})
        BY <1>7 DEF ReopenInstallFails
      <4> QED
        BY <2>c, <4>1, <4>2, <4>3 DEF GroupIsWaitable
    <3> QED
      BY <1>7, <3>1 DEF Inv, ReaderInv, Down, ReopenInstallFails, NoReaders
  <2> QED
    BY <2>1, <2>2, <2>3, <2>4, <2>5, <2>6, <2>7, <2>8 DEF Inv, TypeOK
<1> QED
  BY <1>1, <1>2, <1>3, <1>4, <1>5, <1>6, <1>7 DEF Reopening

\* tearDownStreaming: what the group still holds is in `old` until the group is gone.
LEMMA TearingDownStep == Inv /\ TearingDown => Inv'
<1> SUFFICES ASSUME Inv, TearingDown PROVE Inv'
  OBVIOUS
<1> USE ConstantsOK DEF ConstantsOK, flowVars, readerVars, supVars, reopenVars, countVars,
        statusVars, lifeVars, cardVars, threadVars, EnvUnchanged, None, Video
<1>1. CASE TearDownStop
  <2>1. FlagTypes'
    BY <1>1 DEF Inv, TypeOK, FlagTypes, TearDownStop
  <2>2. FlowTypes'
    BY <1>1 DEF Inv, TypeOK, FlowTypes, TearDownStop
  <2>3. ReaderTypes'
    BY <1>1 DEF Inv, TypeOK, ReaderTypes, TearDownStop
  <2>4. SupTypes'
    BY <1>1 DEF Inv, TypeOK, SupTypes, SupPcs, TearDownPcs, TearDownStop
  <2>5. CardTypes'
    BY <1>1 DEF Inv, TypeOK, CardTypes, TearDownStop
  <2>6. SessionInv'
    BY <1>1 DEF Inv, TypeOK, FlagTypes, CardTypes, SessionInv, LoopPcs,
           TearDownStop
  <2>7. PipelineInv'
    BY <1>1 DEF Inv, TypeOK, CardTypes, SessionInv, LoopPcs, PipelineInv,
           PipelineBounded, TearDownStop
  <2>8. ReaderInv'
    BY <1>1 DEF Inv, TypeOK, ReaderTypes, SupTypes, CardTypes, SessionInv,
           LoopPcs, ReaderInv, GroupIsWaitable, Waitable, Readable, Down,
           TearDownStop
  <2> QED
    BY <2>1, <2>2, <2>3, <2>4, <2>5, <2>6, <2>7, <2>8 DEF Inv, TypeOK
<1>2. CASE TearDownTake
  <2>1. FlagTypes'
    BY <1>2 DEF Inv, TypeOK, FlagTypes, TearDownTake, NoReaders, NoFlags
  <2>2. FlowTypes'
    BY <1>2 DEF Inv, TypeOK, FlowTypes, TearDownTake, NoReaders, NoFlags
  <2>3. ReaderTypes'
    BY <1>2 DEF Inv, TypeOK, ReaderTypes, TearDownTake, NoReaders, NoFlags
  <2>4. SupTypes'
    <3>1. old' \in SUBSET FileIds
      BY <1>2 DEF Inv, TypeOK, ReaderTypes, FileIds, TearDownTake
    <3> QED
      BY <1>2, <3>1 DEF Inv, TypeOK, SupTypes, SupPcs, TearDownPcs, TearDownTake
  <2>5. CardTypes'
    BY <1>2 DEF Inv, TypeOK, CardTypes, TearDownTake, NoReaders, NoFlags
  <2>6. SessionInv'
    BY <1>2 DEF Inv, TypeOK, CardTypes, SessionInv, LoopPcs, CallbackMutexFree,
           TearDownTake
  <2>7. PipelineInv'
    BY <1>2 DEF Inv, TypeOK, CardTypes, SessionInv, LoopPcs, PipelineInv,
           PipelineBounded, TearDownTake, NoReaders, NoFlags
  <2>8. ReaderInv'
    <3>1. group \subseteq {handle[s] : s \in {t \in Slots : Waitable(t)}}
      BY <1>2 DEF Inv, ReaderInv, GroupIsWaitable, TearDownTake
    <3>2. group' \subseteq old'
      BY <1>2, <3>1 DEF Waitable, Readable, TearDownTake
    <3>3. \A s \in AudioSlots : ~invalid'[s] /\ ~stalled'[s]
      <4>1. \A s \in AudioSlots : s \in Slots /\ s # 0
        BY DEF AudioSlots, Slots
      <4> QED
        BY <1>2, <4>1 DEF TearDownTake, NoFlags
    <3>4. sup' = "tdGroup" /\ \A s \in Slots : got'[s] = 0
      BY <1>2 DEF Inv, ReaderInv, TearDownTake
    <3> QED
      BY <3>2, <3>3, <3>4 DEF ReaderInv, GroupIsWaitable, Down
  <2> QED
    BY <2>1, <2>2, <2>3, <2>4, <2>5, <2>6, <2>7, <2>8 DEF Inv, TypeOK
<1>3. CASE TearDownGroup
  BY <1>3 DEF TearDownGroup, Inv, TypeOK, FlagTypes, FlowTypes, ReaderTypes,
         SupTypes, SupPcs, TearDownPcs, CardTypes, SessionInv, LoopPcs,
         PipelineInv, PipelineBounded, ReaderInv, GroupIsWaitable, Waitable,
         Readable, Down
<1>4. CASE TearDownSession
  BY <1>4 DEF TearDownSession, Inv, TypeOK, FlagTypes, FlowTypes, ReaderTypes,
         SupTypes, SupPcs, TearDownPcs, CardTypes, SessionInv, LoopPcs,
         PipelineInv, PipelineBounded, ReaderInv, GroupIsWaitable, Waitable,
         Readable, Down
<1>5. CASE TearDownReaders
  BY <1>5 DEF TearDownReaders, Inv, TypeOK, FlagTypes, FlowTypes, ReaderTypes,
         SupTypes, SupPcs, TearDownPcs, CardTypes, SessionInv, LoopPcs,
         PipelineInv, PipelineBounded, ReaderInv, GroupIsWaitable, Waitable,
         Readable, Down
<1> QED
  BY <1>1, <1>2, <1>3, <1>4, <1>5 DEF TearingDown

-----------------------------------------------------------------------------
(* The theorems.                                                           *)

\* Inv holds initially.
LEMMA InitInv == Init => Inv
<1> SUFFICES ASSUME Init PROVE Inv
  OBVIOUS
<1> USE ConstantsOK DEF ConstantsOK, Init, None, Video, NoReaders, NoFlags
<1>1. FlagTypes
  BY DEF FlagTypes
<1>2. FlowTypes
  <2>1. 0 \in Slots /\ FlowOf[0] \in Flows
    BY DEF Slots
  <2>2. (CHOOSE x \in Formats : TRUE) \in Formats
    OBVIOUS
  <2>3. file \in [FileIds -> [flow : Flows, fmt : Formats]]
    BY <2>1, <2>2
  <2> QED
    BY <2>3 DEF FlowTypes, Flows
<1>3. ReaderTypes
  BY DEF ReaderTypes
<1>4. SupTypes
  BY DEF SupTypes, SupPcs
<1>5. CardTypes
  BY DEF CardTypes
<1>6. SessionInv /\ PipelineInv
  BY DEF SessionInv, LoopPcs, PipelineInv, PipelineBounded
<1>7. ReaderInv
  BY DEF ReaderInv, GroupIsWaitable, AudioSlots, Slots
<1> QED
  BY <1>1, <1>2, <1>3, <1>4, <1>5, <1>6, <1>7 DEF Inv, TypeOK

\* A step that changes nothing keeps Inv.
LEMMA StutterInv == Inv /\ UNCHANGED vars => Inv'
BY DEF vars, flowVars, readerVars, supVars, reopenVars, statusVars, lifeVars, countVars,
       cardVars, threadVars, Inv, TypeOK, FlagTypes, FlowTypes, ReaderTypes,
       SupTypes, CardTypes, SessionInv, PipelineInv, PipelineBounded,
       ReaderInv, GroupIsWaitable, Waitable, Readable, Down

\* The invariant of the whole channel, from which the others follow.
THEOREM Invariance == Spec => [](Inv /\ ReopenTakesOver)
<1>1. Init => Inv /\ ReopenTakesOver
  BY InitInv DEF Init, NoFlags, ReopenTakesOver
<1>2. Inv /\ ReopenTakesOver /\ [Next]_vars => Inv'
  BY EnvironmentStep, CallbacksStep, LoopStep, BringingUpStep, ReopeningStep,
     TearingDownStep, StutterInv DEF Next, Supervisor, Stopped
<1>3. Inv /\ ReopenTakesOver /\ [Next]_vars => ReopenTakesOver'
  BY TakesOverStep DEF Inv, TypeOK
<1> QED
  BY <1>1, <1>2, <1>3, PTL DEF Spec

\* A reader is never both invalid and stalled.
THEOREM ReopenTakesOverStall == Spec => []ReopenTakesOver
BY Invariance, PTL

\* Type correctness; in particular the card holds at most the preroll.
THEOREM TypeCorrect == Spec => []TypeOK
<1>1. Inv => TypeOK
  BY DEF Inv
<1> QED
  BY <1>1, Invariance, PTL

\* A completion never puts more frames on the card than the preroll
\* (onFrameCompleted replaces one frame by one).
THEOREM PipelineIsBounded == Spec => []PipelineBounded
<1>1. Inv => PipelineBounded
  BY DEF Inv, PipelineInv
<1> QED
  BY <1>1, Invariance, PTL

\* While callbacks can use it, the sync group holds only readers that can
\* deliver.
THEOREM GroupWaits == Spec => []GroupIsWaitable
<1>1. Inv => GroupIsWaitable
  BY DEF Inv, ReaderInv
<1> QED
  BY <1>1, Invariance, PTL

\* The sync group never holds a released reader: re-open and teardown take a
\* reader out of the group before they free it.
THEOREM GroupHoldsNoFreedReader == Spec => []NoDanglingReader
<1>1. Inv => NoDanglingReader
  <2> SUFFICES ASSUME Inv PROVE group \subseteq Holders
    BY DEF NoDanglingReader
  <2>1. CASE sup \in {"tdSession", "tdReaders"}
    BY <2>1 DEF Inv, ReaderInv, Down
  <2>2. CASE sup = "tdGroup"
    BY <2>2 DEF Inv, ReaderInv, Holders
  <2>3. CASE sup \notin {"tdGroup", "tdSession", "tdReaders"}
    BY <2>3 DEF Inv, ReaderInv, GroupIsWaitable, Holders
  <2> QED
    BY <2>1, <2>2, <2>3
<1> QED
  BY <1>1, Invariance, PTL
====
