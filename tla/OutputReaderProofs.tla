------------------------ MODULE OutputReaderProofs ------------------------
(***************************************************************************)
(* More proofs about OutputChannel, on top of the invariant Inv of         *)
(* OutputChannelProofs: the published state, the pictures at the card, the *)
(* pursuit of invalid and stalled readers, that no live source is          *)
(* forgotten, that slots sharing a reader act as one, and that a           *)
(* re-created flow is counted once.  Each has an invariant of its own,     *)
(* inductive relative to Inv and ReopenTakesOver.                          *)
(***************************************************************************)
EXTENDS OutputChannelProofs, FiniteSetTheorems

\* Inv and the fact that no reader is both invalid and stalled.
Base == Inv /\ ReopenTakesOver

-----------------------------------------------------------------------------
(* The published state.                                                    *)

\* The supervisor is bringing the channel up.
UpPcs == {"open", "preWait", "preRead", "start", "go"}

\* A channel that is coming up knows of no condition yet, and one that is up or
\* coming up has an active receiver, so it is never parked.
StatusInv ==
  /\ StateReflectsConditions
  /\ sup \in UpPcs => ~reopenDegraded /\ ~stallDegraded /\ ~lateDegraded
  /\ streamingUp \/ sup \in UpPcs => mxlActive

\* Every step publishes what it changes of the conditions.
LEMMA StatusStep == Base /\ StatusInv /\ [Next]_vars => StatusInv'
<1> SUFFICES ASSUME Base, StatusInv, [Next]_vars PROVE StatusInv'
  OBVIOUS
<1> USE DEF Base, StatusInv, StateReflectsConditions, UpPcs, RunningState, statusVars,
        lifeVars, EnvUnchanged, Inv, TypeOK, FlagTypes, SessionInv, LoopPcs
<1>1. CASE Environment
  <2>1. UNCHANGED <<sup, statusVars, mxlActive, streamingUp>>
    BY <1>1 DEF Environment, CreateFlow, RemoveFlow, WriteAgain, SecondPasses,
           RetryDue, Stop
  <2> QED
    BY <2>1
<1>2. CASE Callbacks
  BY <1>2 DEF Callbacks, FrameCompleted, VideoWait, VideoRead, AudioStart,
         AudioRead, HousekeepingStart, HousekeepingEnd
<1>3. CASE Loop
  BY <1>3 DEF Loop, SupExit, SupPark, SupLoop, SupPoll, SupStalls, SupWait
<1>4. CASE BringingUp
  BY <1>4 DEF BringingUp, BringUp, BringUpRefused, BringUpOpen, BringUpEnable,
         BringUpEnableFails, NoFirstGrain, PrerollWait, PrerollRead,
         AudioPreroll, StartPlayback, BringUpDone
<1>5. CASE Reopening
  BY <1>5 DEF Reopening, ReopenCheck, ReopenTake, ReopenRelease, ReopenOpen,
         ReopenFormatChanged, ReopenInstall, ReopenInstallFails
<1>6. CASE TearingDown
  BY <1>6 DEF TearingDown, TearDownStop, TearDownTake, TearDownGroup,
         TearDownSession, TearDownReaders, SupTypes
<1>7. CASE UNCHANGED vars
  BY <1>7 DEF vars
<1> QED
  BY <1>1, <1>2, <1>3, <1>4, <1>5, <1>6, <1>7 DEF Next, Supervisor, Stopped

-----------------------------------------------------------------------------
(* The pictures at the card.                                               *)

\* There is no picture, or it is of this bring-up; the card holds frames only
\* of a session that runs, and only once there is a picture.
PictureInv ==
  /\ lastFrame \in {None, epoch}
  /\ session \in {"none", "stopped", "moved"} => inCard = 0
  /\ inCard > 0 => lastFrame # None

\* A frame sent to the card is the picture just read or the last one.
LEMMA ScheduledPicture ==
  ASSUME CardTypes, PictureInv, NEW fresh \in BOOLEAN, NEW ok \in BOOLEAN,
         ScheduleFrame(fresh, ok), session \notin {"none", "moved"}
  PROVE  PictureInv'
BY DEF CardTypes, PictureInv, ScheduleFrame, None

\* Every session starts without a picture and with an empty card.
LEMMA PictureStep == Base /\ PictureInv /\ [Next]_vars => PictureInv'
<1> SUFFICES ASSUME Base, PictureInv, [Next]_vars PROVE PictureInv'
  OBVIOUS
<1> USE DEF Base, Inv, TypeOK, SessionInv, LoopPcs
<1>1. CASE Environment
  BY <1>1 DEF Environment, CreateFlow, RemoveFlow, WriteAgain, SecondPasses,
         RetryDue, Stop, PictureInv, cardVars
<1>2. CASE Callbacks
  <2>1. CASE VideoRead
    BY <2>1, ScheduledPicture DEF VideoRead
  <2>2. ASSUME NEW l \in BOOLEAN, NEW w \in BOOLEAN, FrameCompleted(l, w) PROVE PictureInv'
    BY <2>2 DEF FrameCompleted, CardTypes, PictureInv, None
  <2> QED
    BY <1>2, <2>1, <2>2 DEF Callbacks, VideoWait, AudioStart, AudioRead,
           HousekeepingStart, HousekeepingEnd, PictureInv, cardVars
<1>3. CASE Loop
  BY <1>3 DEF Loop, SupExit, SupPark, SupLoop, SupPoll, SupStalls, SupWait,
         PictureInv, cardVars
<1>4. CASE BringingUp
  <2>1. CASE PrerollRead
    BY <2>1, ScheduledPicture DEF PrerollRead
  <2>2. CASE BringUp
    BY <2>2 DEF BringUp, PictureCleared, PictureInv, None, CardTypes
  <2>3. CASE BringUpEnable \/ BringUpEnableFails
    BY <2>3 DEF BringUpEnable, BringUpEnableFails, PictureInv, None
  <2>4. CASE AudioPreroll \/ StartPlayback
    BY <2>4 DEF AudioPreroll, StartPlayback, PictureInv
  <2> QED
    BY <1>4, <2>1, <2>2, <2>3, <2>4 DEF BringingUp, BringUpRefused, BringUpOpen,
           NoFirstGrain, PrerollWait, BringUpDone, PictureInv, cardVars
<1>5. CASE Reopening
  BY <1>5 DEF Reopening, ReopenCheck, ReopenTake, ReopenRelease, ReopenOpen,
         ReopenFormatChanged, ReopenInstall, ReopenInstallFails, PictureInv,
         cardVars
<1>6. CASE TearingDown
  BY <1>6 DEF TearingDown, TearDownStop, TearDownTake, TearDownGroup,
         TearDownSession, TearDownReaders, PictureInv, None, cardVars
<1>7. CASE UNCHANGED vars
  BY <1>7 DEF vars, PictureInv, cardVars
<1> QED
  BY <1>1, <1>2, <1>3, <1>4, <1>5, <1>6, <1>7 DEF Next, Supervisor, Stopped

-----------------------------------------------------------------------------
(* Data files: whose they are.                                             *)

\* Every reader is open on a data file that exists, and of the flow its slot
\* reads.
FileInv ==
  /\ \A f \in Flows : /\ current[f] <= files
                      /\ current[f] # None => file[current[f]].flow = f
  /\ \A s \in Slots : /\ handle[s] <= files
                      /\ handle[s] # None => file[handle[s]].flow = FlowOf[s]
  /\ \A s \in Slots : /\ got[s] <= files
                      /\ got[s] # None => file[got[s]].flow = FlowOf[s]
  /\ \A h \in old : h <= files

\* Opening a flow yields a data file of that flow.
LEMMA OpenedFile ==
  ASSUME FlowTypes, ReaderTypes, SupTypes, FileInv, NEW f \in Flows
  PROVE  /\ Opened(f) \in 0..MaxFiles /\ Opened(f) <= files
         /\ Opened(f) # None => file[Opened(f)].flow = f
<1>1. Opened(f) \in 0..MaxFiles
  BY OpenedType
<1>2. CASE HeldOf(f) # {}
  <2>1. Opened(f) \in HeldOf(f)
    BY <1>2 DEF Opened
  <2>2. \A h \in Holders : h <= files
    BY DEF Holders, FileInv
  <2> QED
    BY <1>1, <2>1, <2>2 DEF HeldOf
<1>3. CASE HeldOf(f) = {}
  BY <1>1, <1>3 DEF Opened, FileInv
<1> QED
  BY <1>2, <1>3

\* The next-state relation, as far as files and holders go: a new file, one
\* flow removed, one reader opened, or readers moved between holders.
LEMMA FileStep == Base /\ FileInv /\ [Next]_vars => FileInv'
<1> SUFFICES ASSUME Base, FileInv, [Next]_vars PROVE FileInv'
  OBVIOUS
<1>0. FlowTypes /\ ReaderTypes /\ SupTypes /\ \A s \in Slots : FlowOf[s] \in Flows
  BY ConstantsOK DEF ConstantsOK, Base, Inv, TypeOK
<1>u. UNCHANGED <<flowVars, handle, got, old>> => FileInv'
  BY DEF FileInv, flowVars
<1>1. CASE Environment
  <2>1. ASSUME NEW f \in Flows, NEW x \in Formats, CreateFlow(f, x) PROVE FileInv'
    <3> DEFINE n == files + 1
    <3>1. n \in FileIds /\ files \in Nat /\ \A h : h \in Nat /\ h <= files => h # n /\ h <= files'
      BY <1>0, <2>1, ConstantsOK DEF CreateFlow, FlowTypes, FileIds, ConstantsOK
    <3>2. \A h \in FileIds : h <= files => file'[h] = file[h]
      BY <1>0, <2>1, <3>1 DEF CreateFlow, FlowTypes, FileIds
    <3>3. file'[n].flow = f
      BY <1>0, <2>1, <3>1 DEF CreateFlow, FlowTypes
    <3>4. /\ \A h \in 0..MaxFiles : h # 0 => h \in FileIds
          /\ UNCHANGED <<handle, got, old>>
      BY <2>1, ConstantsOK DEF CreateFlow, FileIds, ConstantsOK, readerVars, supVars
    <3>5. \A g \in Flows : current'[g] = IF g = f THEN n ELSE current[g]
      BY <1>0, <2>1 DEF CreateFlow, FlowTypes
    <3>6. n <= files' /\ n # 0
      BY <2>1, <3>1 DEF CreateFlow
    <3> HIDE DEF n
    <3>7. \A g \in Flows : /\ current'[g] <= files'
                           /\ current'[g] # 0 => file'[current'[g]].flow = g
      BY <1>0, <3>1, <3>2, <3>3, <3>4, <3>5, <3>6 DEF FileInv, FlowTypes, None
    <3>8. \A s \in Slots : /\ handle'[s] <= files'
                           /\ handle'[s] # 0 => file'[handle'[s]].flow = FlowOf[s]
      BY <1>0, <3>1, <3>2, <3>4 DEF FileInv, ReaderTypes, None
    <3>9. \A s \in Slots : /\ got'[s] <= files'
                           /\ got'[s] # 0 => file'[got'[s]].flow = FlowOf[s]
      BY <1>0, <3>1, <3>2, <3>4 DEF FileInv, SupTypes, None
    <3>10. \A h \in old' : h <= files'
      BY <1>0, <3>1, <3>4 DEF FileInv, SupTypes, FileIds
    <3> QED
      BY <3>7, <3>8, <3>9, <3>10 DEF FileInv, None
  <2>2. ASSUME NEW f \in Flows, RemoveFlow(f) PROVE FileInv'
    <3>1. \A g \in Flows : current'[g] \in {0, current[g]}
      BY <1>0, <2>2 DEF RemoveFlow, FlowTypes, None
    <3>2. 0 <= files
      BY <1>0 DEF FlowTypes
    <3> QED
      BY <2>2, <3>1, <3>2 DEF RemoveFlow, FileInv, readerVars, supVars, None
  <2> QED
    BY <1>1, <1>u, <2>1, <2>2 DEF Environment, WriteAgain, SecondPasses,
           RetryDue, Stop, readerVars, supVars
<1>2. CASE Callbacks
  <2>1. SyncWait => handle' = handle
    BY DEF SyncWait, NoReaderChange, MarkInvalid, SetStalled, readerVars
  <2>2. \A fresh : ReadGrain(fresh) => handle' = handle
    BY DEF ReadGrain, NoReaderChange, MarkInvalid, SetStalled, ClearStalled,
           readerVars
  <2>3. AudioRead => handle' = handle
    BY DEF AudioRead, NoReaderChange, MarkInvalid, SetStalled, ClearStalled,
           readerVars
  <2> QED
    BY <1>2, <1>u, <2>1, <2>2, <2>3 DEF Callbacks, FrameCompleted, VideoWait, VideoRead,
           AudioStart, AudioRead, HousekeepingStart, HousekeepingEnd, readerVars, supVars
<1>3. CASE Loop
  BY <1>3, <1>u DEF Loop, SupExit, SupPark, SupLoop, SupPoll, SupStalls, SupWait,
         readerVars, supVars, EnvUnchanged
<1>4. CASE BringingUp
  <2>1. SyncWait => handle' = handle
    BY DEF SyncWait, NoReaderChange, MarkInvalid, SetStalled, readerVars
  <2>2. \A fresh : ReadGrain(fresh) => handle' = handle
    BY DEF ReadGrain, NoReaderChange, MarkInvalid, SetStalled, ClearStalled,
           readerVars
  <2>3. CASE BringUpOpen
    <3>1. PICK s \in want : handle' \in {handle, [handle EXCEPT ![s] = Opened(FlowOf[s])]}
      BY <2>3 DEF BringUpOpen
    <3>2. s \in Slots /\ FlowOf[s] \in Flows
      BY <1>0 DEF SupTypes
    <3>3. /\ Opened(FlowOf[s]) <= files
          /\ Opened(FlowOf[s]) # None => file[Opened(FlowOf[s])].flow = FlowOf[s]
      BY <1>0, <3>2, OpenedFile
    <3>4. UNCHANGED <<files, file, current, got, old>>
      BY <2>3 DEF BringUpOpen, EnvUnchanged, flowVars
    <3> QED
      BY <1>0, <3>1, <3>2, <3>3, <3>4 DEF FileInv, ReaderTypes
  <2> QED
    BY <1>4, <1>u, <2>1, <2>2, <2>3 DEF BringingUp, BringUp, BringUpRefused,
           BringUpEnable, BringUpEnableFails, NoFirstGrain, PrerollWait,
           PrerollRead, AudioPreroll, StartPlayback, BringUpDone,
           readerVars, supVars, EnvUnchanged
<1>5. CASE Reopening
  <2>0. 0 <= files
    BY <1>0 DEF FlowTypes
  <2>1. CASE ReopenTake
    BY <1>0, <2>0, <2>1 DEF ReopenTake, FileInv, EnvUnchanged, flowVars, None
  <2>2. CASE ReopenRelease
    BY <2>2 DEF ReopenRelease, FileInv, EnvUnchanged, flowVars, readerVars
  <2>3. CASE ReopenOpen
    <3>1. PICK s \in want : got' = [got EXCEPT ![s] = Opened(FlowOf[s])]
      BY <2>3 DEF ReopenOpen
    <3>2. s \in Slots /\ FlowOf[s] \in Flows
      BY <1>0 DEF SupTypes
    <3>3. /\ Opened(FlowOf[s]) <= files
          /\ Opened(FlowOf[s]) # None => file[Opened(FlowOf[s])].flow = FlowOf[s]
      BY <1>0, <3>2, OpenedFile
    <3>4. UNCHANGED <<files, file, current, handle, old>>
      BY <2>3 DEF ReopenOpen, EnvUnchanged, flowVars, readerVars
    <3> QED
      BY <1>0, <3>1, <3>2, <3>3, <3>4 DEF FileInv, SupTypes
  <2>4. CASE ReopenFormatChanged
    BY <2>0, <2>4 DEF ReopenFormatChanged, FileInv, EnvUnchanged, flowVars,
           readerVars, NoReaders, None
  <2>5. CASE ReopenInstall
    BY <2>0, <2>5 DEF ReopenInstall, FileInv, EnvUnchanged, flowVars, NoReaders, None
  <2>6. ASSUME NEW s \in Slots, ReopenInstallFails(s) PROVE FileInv'
    BY <2>0, <2>6 DEF ReopenInstallFails, FileInv, EnvUnchanged, flowVars, NoReaders, None
  <2> QED
    BY <1>5, <1>u, <2>1, <2>2, <2>3, <2>4, <2>5, <2>6 DEF Reopening, ReopenCheck,
           readerVars, supVars, EnvUnchanged
<1>6. CASE TearingDown
  <2>0. 0 <= files
    BY <1>0 DEF FlowTypes
  <2>1. CASE TearDownTake
    BY <2>0, <2>1 DEF TearDownTake, FileInv, EnvUnchanged, flowVars, NoReaders, None
  <2>2. CASE TearDownReaders
    BY <2>2 DEF TearDownReaders, FileInv, EnvUnchanged, flowVars, readerVars
  <2> QED
    BY <1>6, <1>u, <2>1, <2>2 DEF TearingDown, TearDownStop, TearDownGroup,
           TearDownSession, readerVars, supVars, EnvUnchanged
<1>7. CASE UNCHANGED vars
  BY <1>7, <1>u DEF vars, readerVars, supVars
<1> QED
  BY <1>1, <1>2, <1>3, <1>4, <1>5, <1>6, <1>7 DEF Next, Supervisor, Stopped

-----------------------------------------------------------------------------
(* What the waits and reads do to the readers.                             *)

\* The steps of the callbacks and of the preroll that may change a reader.
Reads == VideoWait \/ VideoRead \/ AudioRead \/ PrerollWait \/ PrerollRead

\* S holds with a slot every open slot that shares its handle.
HandleClosed(S) ==
  \A t \in Slots : Readable(t) /\ (\E s \in S : handle[t] = handle[s]) => t \in S

\* They change no reader, give up all slots of stale flows, or stall or resume
\* all slots of some readers.
ReaderStep ==
  \/ NoReaderChange
  \/ \E T \in SUBSET Slots :
       /\ \A s \in T : Readable(s) /\ Stale(s)
       /\ MarkInvalid(FlowMates(T))
  \/ \E S \in SUBSET Slots :
       /\ \A s \in S : Readable(s)
       /\ HandleClosed(S)
       /\ SetStalled(S) \/ ClearStalled(S)

\* The video slot alone is closed in either way: no audio slot reads its flow.
LEMMA VideoAlone ==
  ASSUME FileInv, Readable(Video)
  PROVE  /\ {Video} \in SUBSET Slots /\ FlowMates({Video}) = {Video}
         /\ HandleClosed({Video})
<1>1. Video \in Slots /\ \A s \in Slots : s # Video => s \in AudioSlots
  BY ConstantsOK DEF ConstantsOK, Slots, AudioSlots, Video
<1>2. \A s \in Slots : FlowOf[s] = FlowOf[Video] => s = Video
  BY <1>1, ConstantsOK DEF ConstantsOK
<1> QED
  BY <1>1, <1>2 DEF FlowMates, HandleClosed, FileInv, Readable

\* As for the video slot.
LEMMA MatesClosed ==
  ASSUME NEW T \in SUBSET Slots
  PROVE  /\ HandleMates(T) \in SUBSET Slots
         /\ \A s \in HandleMates(T) : Readable(s)
         /\ HandleClosed(HandleMates(T))
BY DEF HandleMates, HandleClosed

\* Every read is such a step.
LEMMA ReadsShape ==
  ASSUME Base, FileInv, Reads
  PROVE  ReaderStep
<1>1. ASSUME SyncWait PROVE ReaderStep
  <2>1. CASE MarkInvalid(FlowMates({s \in Slots : Readable(s) /\ Stale(s)}))
    <3> DEFINE T == {s \in Slots : Readable(s) /\ Stale(s)}
    <3>1. T \in SUBSET Slots /\ \A s \in T : Readable(s) /\ Stale(s)
      OBVIOUS
    <3>2. MarkInvalid(FlowMates(T))
      BY <2>1
    <3> QED
      BY <3>1, <3>2 DEF ReaderStep
  <2>2. ASSUME NEW T \in SUBSET {s \in AudioSlots : Waitable(s)}, SetStalled(HandleMates(T))
        PROVE  ReaderStep
    <3>1. T \in SUBSET Slots
      BY DEF AudioSlots, Slots
    <3> QED
      BY <2>2, <3>1, MatesClosed DEF ReaderStep
  <2> QED
    BY <1>1, <2>1, <2>2 DEF SyncWait, ReaderStep
<1>2. ASSUME NEW fresh \in BOOLEAN, ReadGrain(fresh) PROVE ReaderStep
  <2> DEFINE V == {Video}
  <2>1. CASE NoReaderChange
    BY <2>1 DEF ReaderStep
  <2>2. CASE Readable(Video) /\ Stale(Video) /\ MarkInvalid(V)
    <3>1. V \in SUBSET Slots /\ FlowMates(V) = V
      BY <2>2, VideoAlone
    <3>2. \A s \in V : Readable(s) /\ Stale(s)
      BY <2>2
    <3>3. MarkInvalid(FlowMates(V))
      BY <2>2, <3>1
    <3> QED
      BY <3>1, <3>2, <3>3 DEF ReaderStep
  <2>3. CASE Readable(Video) /\ (SetStalled(V) \/ ClearStalled(V))
    <3>1. V \in SUBSET Slots /\ HandleClosed(V)
      BY <2>3, VideoAlone
    <3>2. \A s \in V : Readable(s)
      BY <2>3
    <3> QED
      BY <2>3, <3>1, <3>2 DEF ReaderStep
  <2> QED
    BY <1>2, <2>1, <2>2, <2>3 DEF ReadGrain, Waitable
<1>3. ASSUME AudioRead PROVE ReaderStep
  <2> DEFINE A == {acb}
  <2>1. A \in SUBSET Slots
    BY <1>3 DEF AudioRead, AudioSlots, Slots
  <2>2. CASE NoReaderChange
    BY <2>2 DEF ReaderStep
  <2>3. CASE Readable(acb) /\ Stale(acb) /\ MarkInvalid(FlowMates(A))
    <3>1. \A s \in A : Readable(s) /\ Stale(s)
      BY <2>3
    <3> QED
      BY <2>1, <2>3, <3>1 DEF ReaderStep
  <2>4. CASE SetStalled(HandleMates(A)) \/ ClearStalled(HandleMates(A))
    BY <2>1, <2>4, MatesClosed DEF ReaderStep
  <2> QED
    BY <1>3, <2>2, <2>3, <2>4 DEF AudioRead
<1> QED
  BY <1>1, <1>2, <1>3 DEF Reads, VideoWait, VideoRead, PrerollWait, PrerollRead

\* What they leave alone, and where they leave the supervisor.
LEMMA ReadsFrame ==
  ASSUME Base, Reads
  PROVE  /\ UNCHANGED <<flowVars, want, got, old, err, resetRequested,
                        reopenVars, statusVars, lifeVars, session, countVars>>
         /\ session \in {"enabled", "rolling", "playing", "stopped"}
         /\ \/ sup' = sup
            \/ /\ sup \in {"preWait", "preRead"}
               /\ sup' \in {"preWait", "preRead", "start", "tdStop"}
<1> USE DEF Base, Inv, TypeOK, SessionInv, supVars, cardVars, lifeVars, EnvUnchanged
<1>1. CASE VideoWait
  BY <1>1 DEF VideoWait
<1>2. CASE VideoRead
  BY <1>2 DEF VideoRead, ScheduleFrame
<1>3. CASE AudioRead
  <2>1. acb # None
    BY <1>3, ConstantsOK DEF AudioRead, AudioSlots, None, ConstantsOK
  <2> QED
    BY <1>3, <2>1 DEF AudioRead
<1>4. CASE PrerollWait
  BY <1>4 DEF PrerollWait
<1>5. CASE PrerollRead
  BY <1>5 DEF PrerollRead, ScheduleFrame
<1> QED
  BY <1>1, <1>2, <1>3, <1>4, <1>5 DEF Reads

-----------------------------------------------------------------------------
(* The stall clock.                                                        *)

\* The session that starts has no stalled reader and its clock is off; the
\* session is moved only in the teardown.
StallInv ==
  /\ StallClockRuns
  /\ sup = "open" => stallClock = 0
  /\ session = "moved" => sup \in {"tdGroup", "tdSession"}

\* The clock follows the stalls through every wait and read.
LEMMA ReaderStepClock ==
  ASSUME ReaderTypes, ReaderStep,
         stallClock # 0 <=> \E s \in Slots : stalled[s]
  PROVE  stallClock' # 0 <=> \E s \in Slots : stalled'[s]
<1>1. CASE NoReaderChange
  BY <1>1 DEF NoReaderChange, readerVars
<1>2. CASE stallClock' = Clock(stallClock, \E s \in Slots : stalled'[s])
  BY <1>2 DEF Clock
<1>3. ASSUME NEW S \in SUBSET Slots, ClearStalled(S)
      PROVE  NoReaderChange \/ stallClock' = Clock(stallClock, \E s \in Slots : stalled'[s])
  BY <1>3 DEF ClearStalled, NoReaderChange
<1> QED
  BY <1>1, <1>2, <1>3 DEF ReaderStep, MarkInvalid, SetStalled

\* Outside the reads, stalls end only where a session ends: a re-opened reader
\* was invalid and therefore not stalled.
LEMMA StallStep == Base /\ FileInv /\ StallInv /\ [Next]_vars => StallInv'
<1> SUFFICES ASSUME Base, FileInv, StallInv, [Next]_vars PROVE StallInv'
  OBVIOUS
<1>0. ReaderTypes
  BY DEF Base, Inv, TypeOK
<1>u. ASSUME UNCHANGED <<stalled, stallClock, session>>,
             sup' = "open" => sup = "open",
             sup \in {"tdGroup", "tdSession"} => sup' \in {"tdGroup", "tdSession"}
      PROVE  StallInv'
  BY <1>u DEF StallInv, StallClockRuns
<1>r. CASE Reads
  <2>1. ReaderStep
    BY <1>r, ReadsShape
  <2>2. (stallClock # 0 <=> \E s \in Slots : stalled[s])
        => (stallClock' # 0 <=> \E s \in Slots : stalled'[s])
    BY <1>0, <2>1, ReaderStepClock
  <2>3. /\ session' = session
        /\ session \in {"enabled", "rolling", "playing", "stopped"}
        /\ sup' = sup \/ sup' \in {"preWait", "preRead", "start", "tdStop"}
    BY <1>r, ReadsFrame
  <2>4. sup # "open"
    BY <2>3 DEF Base, Inv, SessionInv
  <2> QED
    BY <2>2, <2>3, <2>4 DEF StallInv, StallClockRuns
<1> USE DEF readerVars, cardVars
<1>1. CASE Environment
  <2>1. CASE SecondPasses
    BY <2>1 DEF SecondPasses, StallInv, StallClockRuns
  <2> QED
    BY <1>1, <1>u, <2>1 DEF Environment, CreateFlow, RemoveFlow, WriteAgain, RetryDue, Stop
<1>2. CASE Callbacks
  BY <1>2, <1>u, <1>r DEF Callbacks, Reads, FrameCompleted, AudioStart,
         HousekeepingStart, HousekeepingEnd
<1>3. CASE Loop
  BY <1>3, <1>u DEF Loop, SupExit, SupPark, SupLoop, SupPoll, SupStalls, SupWait
<1>4. CASE BringingUp
  <2>1. CASE BringUp
    <3>1. session = "none"
      BY <2>1 DEF BringUp, Base, Inv, SessionInv
    <3> QED
      BY <2>1, <3>1 DEF BringUp, StallInv, StallClockRuns
  <2>2. CASE BringUpEnable \/ BringUpEnableFails
    <3>1. \A s \in Slots : ~stalled[s]
      <4>1. \A s \in Slots : s = Video \/ s \in AudioSlots
        BY ConstantsOK DEF ConstantsOK, Slots, AudioSlots, Video
      <4> QED
        BY <2>2, <4>1 DEF BringUpEnable, BringUpEnableFails, Base, Inv, ReaderInv, Down
    <3> QED
      BY <2>2, <3>1 DEF BringUpEnable, BringUpEnableFails, StallInv, StallClockRuns
  <2>3. CASE AudioPreroll \/ StartPlayback
    BY <2>3 DEF AudioPreroll, StartPlayback, StallInv, StallClockRuns
  <2> QED
    BY <1>4, <1>u, <1>r, <2>1, <2>2, <2>3 DEF BringingUp, Reads, BringUpRefused,
           BringUpOpen, NoFirstGrain, BringUpDone
<1>5. CASE Reopening
  <2>1. CASE ReopenInstall
    <3>1. stalled' = stalled
      BY <1>0, <2>1 DEF ReopenInstall, ReaderTypes, Base, Inv, ReaderInv, ReopenTakesOver
    <3> QED
      BY <1>u, <2>1, <3>1 DEF ReopenInstall
  <2>2. ASSUME NEW s \in Slots, ReopenInstallFails(s) PROVE StallInv'
    <3>1. stalled' = stalled
      BY <1>0, <2>2 DEF ReopenInstallFails, ReaderTypes, Base, Inv, ReaderInv, ReopenTakesOver
    <3> QED
      BY <1>u, <2>2, <3>1 DEF ReopenInstallFails
  <2> QED
    BY <1>5, <1>u, <2>1, <2>2 DEF Reopening, ReopenCheck, ReopenTake, ReopenRelease,
           ReopenOpen, ReopenFormatChanged
<1>6. CASE TearingDown
  <2>1. CASE TearDownStop
    BY <2>1 DEF TearDownStop, Base, Inv, TypeOK, CardTypes, StallInv, StallClockRuns
  <2>2. CASE TearDownTake
    BY <2>2 DEF TearDownTake, StallInv, StallClockRuns
  <2>3. CASE TearDownSession
    BY <2>3 DEF TearDownSession, StallInv, StallClockRuns
  <2>4. CASE TearDownReaders
    BY <2>4 DEF TearDownReaders, Base, Inv, TypeOK, SupTypes, SessionInv, StallInv, StallClockRuns
  <2> QED
    BY <1>6, <1>u, <2>1, <2>2, <2>3, <2>4 DEF TearingDown, TearDownGroup
<1>7. CASE UNCHANGED vars
  BY <1>7, <1>u DEF vars
<1> QED
  BY <1>1, <1>2, <1>3, <1>4, <1>5, <1>6, <1>7 DEF Next, Supervisor, Stopped

-----------------------------------------------------------------------------
(* The pursuit of invalid readers.                                         *)

\* An invalid reader is pursued by a request, a pending event, a reset or a
\* teardown; while the supervisor re-opens, an invalid reader is in its hands
\* or asked for again.
PursuitInv ==
  /\ (\E s \in Slots : invalid[s]) =>
       sup \in TearDownPcs \/ reopenRequested \/ resetRequested \/ reopenClock # 0
  /\ Down \/ sup = "tdGroup" => \A s \in Slots : ~invalid[s]
  /\ sup \in {"roTake", "roRelease", "roOpen"} => reopenClock # 0
  /\ sup \in {"roRelease", "roOpen"} /\ ~err =>
       \A s \in Slots : invalid[s] => s \in want \/ got[s] # None \/ reopenRequested

\* A read that gives up a reader asks for its re-open.
LEMMA ReaderStepAsks ==
  ASSUME ReaderTypes, reopenRequested \in BOOLEAN, ReaderStep
  PROVE  /\ reopenRequested => reopenRequested'
         /\ \A s \in Slots : invalid'[s] => invalid[s] \/ reopenRequested'
BY DEF ReaderStep, NoReaderChange, MarkInvalid, SetStalled, ClearStalled,
       readerVars, ReaderTypes

\* No step lets go of an invalid reader.
LEMMA PursuitStep == Base /\ FileInv /\ PursuitInv /\ [Next]_vars => PursuitInv'
<1> SUFFICES ASSUME Base, FileInv, PursuitInv, [Next]_vars PROVE PursuitInv'
  OBVIOUS
<1>0. ReaderTypes /\ FlagTypes
  BY DEF Base, Inv, TypeOK
<1>u. ASSUME UNCHANGED <<invalid, reopenRequested, resetRequested, reopenClock, sup,
                         want, got, err, streamingUp>>
      PROVE  PursuitInv'
  BY <1>u DEF PursuitInv, Down
<1>r. CASE Reads
  <2>1. /\ reopenRequested => reopenRequested'
        /\ \A s \in Slots : invalid'[s] => invalid[s] \/ reopenRequested'
    BY <1>0, <1>r, ReadsShape, ReaderStepAsks DEF FlagTypes
  <2>2. /\ UNCHANGED <<want, got, err, resetRequested, reopenClock, streamingUp>>
        /\ session \in {"enabled", "rolling", "playing", "stopped"}
        /\ \/ sup' = sup
           \/ /\ sup \in {"preWait", "preRead"}
              /\ sup' \in {"preWait", "preRead", "start", "tdStop"}
    BY <1>r, ReadsFrame DEF reopenVars, lifeVars
  <2>3. ~Down /\ sup # "tdGroup"
    BY <2>2 DEF Base, Inv, SessionInv, Down
  <2> QED
    BY <2>1, <2>2, <2>3 DEF PursuitInv, Down, TearDownPcs
<1> USE DEF readerVars, supVars, reopenVars, lifeVars, Down, TearDownPcs
<1>1. CASE Environment
  <2>1. CASE SecondPasses
    BY <2>1 DEF SecondPasses, PursuitInv
  <2> QED
    BY <1>1, <1>u, <2>1 DEF Environment, CreateFlow, RemoveFlow, WriteAgain, RetryDue, Stop
<1>2. CASE Callbacks
  <2>1. ASSUME NEW l \in BOOLEAN, NEW w \in BOOLEAN, FrameCompleted(l, w) PROVE PursuitInv'
    BY <2>1 DEF FrameCompleted, PursuitInv
  <2> QED
    BY <1>2, <1>u, <1>r, <2>1 DEF Callbacks, Reads, AudioStart,
         HousekeepingStart, HousekeepingEnd
<1>3. CASE Loop
  BY <1>3 DEF Loop, SupExit, SupPark, SupLoop, SupPoll, SupStalls, SupWait, PursuitInv,
         Base, Inv, SessionInv, LoopPcs
<1>4. CASE BringingUp
  <2>1. CASE BringUp
    BY <1>0, <2>1 DEF BringUp, PursuitInv, ReaderTypes
  <2> QED
    BY <1>4, <1>r, <2>1 DEF BringingUp, Reads, BringUpRefused, BringUpOpen,
           BringUpEnable, BringUpEnableFails, NoFirstGrain, AudioPreroll,
           StartPlayback, BringUpDone, PursuitInv, Base, Inv, SessionInv
<1>5. CASE Reopening
  <2>1. CASE ReopenCheck
    BY <2>1 DEF ReopenCheck, Clock, PursuitInv
  <2>2. CASE ReopenTake
    BY <2>2 DEF ReopenTake, PursuitInv
  <2>3. CASE ReopenRelease
    BY <2>3 DEF ReopenRelease, PursuitInv
  <2>4. CASE ReopenOpen
    <3>1. PICK s \in want : /\ got' = [got EXCEPT ![s] = Opened(FlowOf[s])]
                            /\ err' = (err \/ Opened(FlowOf[s]) = None)
                            /\ want' = want \ {s}
      BY <2>4 DEF ReopenOpen
    <3>2. got \in [Slots -> 0..MaxFiles] /\ err \in BOOLEAN /\ s \in Slots
      BY DEF Base, Inv, TypeOK, SupTypes, FlagTypes
    <3>3. \A t \in Slots : ~err' => /\ ~err
                                    /\ t \in want => t \in want' \/ got'[t] # None
                                    /\ got[t] # None => t = s \/ got'[t] # None
      BY <3>1, <3>2
    <3> QED
      BY <2>4, <3>3, <3>1, <3>2 DEF ReopenOpen, PursuitInv
  <2>5. CASE ReopenFormatChanged
    BY <2>5 DEF ReopenFormatChanged, PursuitInv, Base, Inv, SessionInv, LoopPcs
  <2>6. CASE ReopenInstall
    BY <1>0, <2>6 DEF ReopenInstall, EventGoesOn, PursuitInv, Base, Inv, SessionInv,
           LoopPcs, ReaderTypes, FlagTypes
  <2>7. ASSUME NEW s \in Slots, ReopenInstallFails(s) PROVE PursuitInv'
    BY <2>7 DEF ReopenInstallFails, PursuitInv, Base, Inv, SessionInv, LoopPcs
  <2> QED
    BY <1>5, <2>1, <2>2, <2>3, <2>4, <2>5, <2>6, <2>7 DEF Reopening
<1>6. CASE TearingDown
  BY <1>6 DEF TearingDown, TearDownStop, TearDownTake, TearDownGroup,
         TearDownSession, TearDownReaders, NoFlags, PursuitInv, Base, Inv, TypeOK, SupTypes,
         SessionInv
<1>7. CASE UNCHANGED vars
  BY <1>7, <1>u DEF vars
<1> QED
  BY <1>1, <1>2, <1>3, <1>4, <1>5, <1>6, <1>7 DEF Next, Supervisor, Stopped

-----------------------------------------------------------------------------
(* No live source is forgotten.                                            *)

\* A read that takes a reader out of the group takes it from every slot.
LEMMA ReaderStepAwaits ==
  ASSUME ReaderTypes, FileInv, ReaderStep, ~AddReaderFails,
         \A s \in Slots : Waitable(s) => handle[s] \in group
  PROVE  \A s \in Slots : Waitable(s)' => handle'[s] \in group'
<1>1. CASE NoReaderChange
  BY <1>1 DEF NoReaderChange, readerVars, Waitable, Readable
<1>2. ASSUME NEW T \in SUBSET Slots, MarkInvalid(FlowMates(T))
      PROVE  \A s \in Slots : Waitable(s)' => handle'[s] \in group'
  <2> DEFINE S == FlowMates(T)
  <2>1. \A s \in Slots : Waitable(s)' => Waitable(s) /\ s \notin S /\ handle'[s] = handle[s]
    BY <1>2 DEF MarkInvalid, Waitable, Readable, ReaderTypes
  <2>2. \A s \in Slots : Readable(s) /\ s \notin S => \A t \in S : handle[t] # handle[s]
    BY DEF FlowMates, FileInv, Readable
  <2>3. group' = group \ {handle[s] : s \in S}
    BY <1>2 DEF MarkInvalid, LeaveGroup
  <2> QED
    BY <2>1, <2>2, <2>3 DEF Waitable
<1>3. ASSUME NEW S \in SUBSET Slots, HandleClosed(S), SetStalled(S)
      PROVE  \A s \in Slots : Waitable(s)' => handle'[s] \in group'
  <2>1. \A s \in Slots : Waitable(s)' => Waitable(s) /\ s \notin S /\ handle'[s] = handle[s]
    BY <1>3 DEF SetStalled, Waitable, Readable, ReaderTypes
  <2>2. group' = group \ {handle[s] : s \in S}
    BY <1>3 DEF SetStalled, LeaveGroup
  <2> QED
    BY <1>3, <2>1, <2>2 DEF Waitable, HandleClosed
<1>4. ASSUME NEW S \in SUBSET Slots, ClearStalled(S), ~NoReaderChange
      PROVE  \A s \in Slots : Waitable(s)' => handle'[s] \in group'
  <2>1. \A s \in Slots : Waitable(s)' => (Waitable(s) \/ s \in S) /\ handle'[s] = handle[s]
    BY <1>4 DEF ClearStalled, NoReaderChange, Waitable, Readable, ReaderTypes
  <2>2. group' = group \cup {handle[s] : s \in S}
    BY <1>4 DEF ClearStalled, NoReaderChange
  <2> QED
    BY <2>1, <2>2
<1> QED
  BY <1>1, <1>2, <1>3, <1>4 DEF ReaderStep

\* Every reader that is opened, re-opened or resumed joins the group.
LEMMA AwaitedStep ==
  Base /\ FileInv /\ StallInv /\ LiveSourceIsAwaited /\ [Next]_vars => LiveSourceIsAwaited'
<1> SUFFICES ASSUME Base, FileInv, StallInv, LiveSourceIsAwaited, [Next]_vars, ~AddReaderFails
             PROVE  LiveSourceIsAwaited'
  BY DEF LiveSourceIsAwaited
<1>0. ReaderTypes
  BY DEF Base, Inv, TypeOK
<1>u. ASSUME UNCHANGED <<handle, invalid, stalled, group, session>> PROVE LiveSourceIsAwaited'
  BY <1>u DEF LiveSourceIsAwaited, Waitable, Readable
<1>r. CASE Reads
  BY <1>0, <1>r, ReadsShape, ReadsFrame, ReaderStepAwaits DEF LiveSourceIsAwaited
<1> USE DEF readerVars, cardVars
<1>1. CASE Environment
  BY <1>1, <1>u DEF Environment, CreateFlow, RemoveFlow, WriteAgain, SecondPasses,
         RetryDue, Stop
<1>2. CASE Callbacks
  BY <1>2, <1>u, <1>r DEF Callbacks, Reads, FrameCompleted, AudioStart,
         HousekeepingStart, HousekeepingEnd
<1>3. CASE Loop
  BY <1>3, <1>u DEF Loop, SupExit, SupPark, SupLoop, SupPoll, SupStalls, SupWait
<1>4. CASE BringingUp
  <2>1. CASE BringUp \/ BringUpOpen
    BY <2>1 DEF BringUp, BringUpOpen, LiveSourceIsAwaited, Base, Inv, SessionInv
  <2>2. CASE BringUpEnable \/ BringUpEnableFails
    BY <2>2 DEF BringUpEnable, BringUpEnableFails, LiveSourceIsAwaited
  <2>3. CASE AudioPreroll \/ StartPlayback
    BY <2>3 DEF AudioPreroll, StartPlayback, LiveSourceIsAwaited, Waitable, Readable
  <2> QED
    BY <1>4, <1>u, <1>r, <2>1, <2>2, <2>3 DEF BringingUp, Reads, BringUpRefused,
           NoFirstGrain, BringUpDone
<1>5. CASE Reopening
  <2>1. CASE ReopenTake
    BY <2>1 DEF ReopenTake, LiveSourceIsAwaited, Waitable, Readable
  <2>2. CASE ReopenInstall
    <3>1. group' = group \cup ({got[s] : s \in Slots} \ {None})
      BY <2>2 DEF ReopenInstall
    <3>2. ASSUME NEW s \in Slots, got[s] = None, Waitable(s)'
          PROVE  Waitable(s) /\ handle'[s] = handle[s]
      BY <1>0, <2>2, <3>2 DEF ReopenInstall, Waitable, Readable, ReaderTypes
    <3>3. ASSUME NEW s \in Slots, got[s] # None PROVE handle'[s] = got[s]
      BY <2>2, <3>3 DEF ReopenInstall
    <3> QED
      BY <2>2, <3>1, <3>2, <3>3 DEF ReopenInstall, LiveSourceIsAwaited, cardVars
  <2>3. ASSUME NEW s \in Slots, ReopenInstallFails(s) PROVE FALSE
    BY <2>3 DEF ReopenInstallFails
  <2> QED
    BY <1>5, <1>u, <2>1, <2>2, <2>3 DEF Reopening, ReopenCheck, ReopenRelease,
           ReopenOpen, ReopenFormatChanged
<1>6. CASE TearingDown
  <2>1. CASE TearDownStop
    BY <2>1 DEF TearDownStop, Base, Inv, TypeOK, CardTypes, StallInv,
           LiveSourceIsAwaited, Waitable, Readable
  <2>2. CASE TearDownTake \/ TearDownGroup \/ TearDownSession \/ TearDownReaders
    BY <2>2 DEF TearDownTake, TearDownGroup, TearDownSession, TearDownReaders,
           LiveSourceIsAwaited, Base, Inv, SessionInv
  <2> QED
    BY <1>6, <2>1, <2>2 DEF TearingDown
<1>7. CASE UNCHANGED vars
  BY <1>7, <1>u DEF vars
<1> QED
  BY <1>1, <1>2, <1>3, <1>4, <1>5, <1>6, <1>7 DEF Next, Supervisor, Stopped

-----------------------------------------------------------------------------
(* Slots that share a reader.                                              *)

\* Slots of one flow, of which no re-open has opened one and missed the other.
Mates(s, t) == FlowOf[s] = FlowOf[t] /\ FlowOf[s] \notin split

\* The supervisor is past opening the readers of a session and not yet in its
\* teardown.
Serving ==
  \/ sup \in {"preWait", "preRead", "start", "go"} \cup LoopPcs
  \/ sup = "top" /\ streamingUp

\* Open mates share the handle and its flags.
TwinInv ==
  \A s, t \in Slots :
    Mates(s, t) /\ handle[s] # None /\ handle[t] # None =>
      handle[s] = handle[t] /\ invalid[s] = invalid[t] /\ stalled[s] = stalled[t]

\* Mates have a reader together or none, except when a re-open ended in a reset
\* that is about to be taken up; and a slot without a reader is a flow that is
\* being re-opened.
OpenInv ==
  Serving =>
    /\ \A s \in Slots : handle[s] = None => invalid[s]
    /\ \/ \A s, t \in Slots : Mates(s, t) => (handle[s] = None <=> handle[t] = None)
       \/ resetRequested /\ sup \in {"poll", "stalls", "wait", "top"}

\* A flow that is being re-opened has no reader left in any mate, and what has
\* been opened of it is one reader.
HandsInv ==
  /\ sup \in {"roRelease", "roOpen"} =>
       \A s, t \in Slots :
         Mates(s, t) /\ (s \in want \/ got[s] # None) => handle[t] = None
  /\ \A s, t \in Slots :
       Mates(s, t) /\ got[s] # None /\ got[t] # None => got[s] = got[t]
  /\ sup \notin {"roRelease", "tdGroup", "tdSession", "tdReaders"} => old = {}

SharedInv == TwinInv /\ OpenInv /\ HandsInv

\* Slots of one flow lose, stall and resume a common reader together.
LEMMA ReaderStepTwins ==
  ASSUME ReaderTypes, FileInv, TwinInv, ReaderStep, split' = split
  PROVE  TwinInv'
<1>0. \A s, t \in Slots : Mates(s, t)' <=> Mates(s, t)
  BY DEF Mates
<1>1. CASE NoReaderChange
  BY <1>0, <1>1 DEF NoReaderChange, readerVars, TwinInv
<1>2. ASSUME NEW T \in SUBSET Slots, MarkInvalid(FlowMates(T)) PROVE TwinInv'
  <2> DEFINE S == FlowMates(T)
  <2>1. \A s, t \in Slots :
          Mates(s, t) /\ handle[s] # None /\ handle[t] # None => (s \in S <=> t \in S)
    BY DEF FlowMates, Readable, TwinInv, Mates, ReaderTypes
  <2>2. /\ handle' = handle
        /\ invalid' = [s \in Slots |-> invalid[s] \/ s \in S]
        /\ stalled' = [s \in Slots |-> stalled[s] /\ s \notin S]
    BY <1>2 DEF MarkInvalid
  <2> HIDE DEF S
  <2> QED
    BY <1>0, <2>1, <2>2 DEF TwinInv
<1>3. ASSUME NEW S \in SUBSET Slots, \A s \in S : Readable(s), HandleClosed(S),
             SetStalled(S) \/ ClearStalled(S), ~NoReaderChange
      PROVE  TwinInv'
  <2>1. \A s, t \in Slots :
          Mates(s, t) /\ handle[s] # None /\ handle[t] # None => (s \in S <=> t \in S)
    BY <1>3 DEF HandleClosed, Readable, TwinInv, ReaderTypes
  <2>2. /\ handle' = handle /\ invalid' = invalid
        /\ \/ stalled' = [s \in Slots |-> stalled[s] \/ s \in S]
           \/ stalled' = [s \in Slots |-> stalled[s] /\ s \notin S]
    BY <1>3 DEF SetStalled, ClearStalled, NoReaderChange
  <2> QED
    BY <1>0, <2>1, <2>2 DEF TwinInv
<1> QED
  BY <1>1, <1>2, <1>3 DEF ReaderStep

\* What opening a flow yields: one of the current data file, if there is one and
\* nobody holds a reader, or the reader a slot has, or has just been given.
LEMMA OpenedShared ==
  ASSUME Base, FileInv, SharedInv, sup \in {"open", "roOpen"}, NEW f \in Flows
  PROVE  \/ Opened(f) = current[f] /\ HeldOf(f) = {}
         \/ /\ Opened(f) # None
            /\ \E t \in Slots : FlowOf[t] = f /\ Opened(f) \in {handle[t], got[t]}
<1>1. CASE HeldOf(f) = {}
  BY <1>1 DEF Opened
<1>2. CASE HeldOf(f) # {}
  <2>1. Opened(f) \in HeldOf(f)
    BY <1>2 DEF Opened
  <2>2. old = {}
    BY DEF SharedInv, HandsInv
  <2>3. PICK t \in Slots : Opened(f) \in {handle[t], got[t]}
    BY <2>1, <2>2 DEF HeldOf, Holders
  <2>4. Opened(f) # None /\ file[Opened(f)].flow = f
    BY <2>1 DEF HeldOf
  <2>5. FlowOf[t] = f
    BY <2>3, <2>4 DEF FileInv
  <2> QED
    BY <2>3, <2>4, <2>5
<1> QED
  BY <1>1, <1>2

\* A held reader is found again, so mates open the same one.
LEMMA OpenedSame ==
  ASSUME Base, FileInv, SharedInv, sup \in {"open", "roOpen"},
         NEW s \in Slots, NEW t \in Slots, Mates(s, t)
  PROVE  /\ handle[t] # None /\ sup = "open" => Opened(FlowOf[s]) = handle[t]
         /\ got[t] # None /\ s \in want => Opened(FlowOf[s]) = got[t]
<1>1. FlowOf[s] \in Flows /\ FlowOf[s] = FlowOf[t]
  BY ConstantsOK DEF ConstantsOK, Mates
<1>2. \A u \in Slots : FlowOf[u] = FlowOf[s] => Mates(u, t) /\ Mates(s, u)
  BY DEF Mates
<1>3. ASSUME handle[t] # None, sup = "open" PROVE Opened(FlowOf[s]) = handle[t]
  <2>1. handle[t] \in HeldOf(FlowOf[s])
    BY <1>1, <1>3 DEF HeldOf, Holders, FileInv
  <2>2. \A u \in Slots : got[u] = None
    BY <1>3 DEF Base, Inv, ReaderInv
  <2>3. PICK u \in Slots : FlowOf[u] = FlowOf[s] /\ Opened(FlowOf[s]) = handle[u] /\ handle[u] # None
    BY <1>1, <2>1, <2>2, OpenedShared
  <2> QED
    BY <1>2, <1>3, <2>3 DEF SharedInv, TwinInv
<1>4. ASSUME got[t] # None, s \in want PROVE Opened(FlowOf[s]) = got[t]
  <2>1. got[t] \in HeldOf(FlowOf[s])
    BY <1>1, <1>4 DEF HeldOf, Holders, FileInv
  <2>2. sup = "roOpen"
    BY <1>4 DEF Base, Inv, ReaderInv
  <2>3. \A u \in Slots : FlowOf[u] = FlowOf[s] => handle[u] = None
    BY <1>2, <1>4, <2>2 DEF SharedInv, HandsInv
  <2>4. PICK u \in Slots : FlowOf[u] = FlowOf[s] /\ Opened(FlowOf[s]) = got[u] /\ got[u] # None
    BY <1>1, <2>1, <2>3, OpenedShared
  <2> QED
    BY <1>2, <1>4, <2>4 DEF SharedInv, HandsInv
<1> QED
  BY <1>3, <1>4

\* The sharing survives every step.
LEMMA SharedStep == Base /\ FileInv /\ SharedInv /\ [Next]_vars => SharedInv'
<1> SUFFICES ASSUME Base, FileInv, SharedInv, [Next]_vars PROVE SharedInv'
  OBVIOUS
<1>0. ReaderTypes /\ SupTypes /\ FlowTypes /\ FlagTypes
      /\ \A s \in Slots : FlowOf[s] \in Flows
  BY ConstantsOK DEF ConstantsOK, Base, Inv, TypeOK
<1>m. split' = split => \A s, t \in Slots : Mates(s, t)' <=> Mates(s, t)
  BY DEF Mates
<1>u. ASSUME UNCHANGED <<handle, invalid, stalled, want, got, old, sup,
                         resetRequested, streamingUp, split>>
      PROVE  SharedInv'
  BY <1>u, <1>m DEF SharedInv, TwinInv, OpenInv, HandsInv, Serving
<1>t. UNCHANGED <<handle, invalid, stalled, split>> => TwinInv'
  BY <1>m DEF SharedInv, TwinInv
<1>r. CASE Reads
  <2>0. UNCHANGED <<want, got, old, resetRequested, streamingUp, split>>
    BY <1>r, ReadsFrame DEF lifeVars, countVars
  <2>1. TwinInv'
    BY <1>0, <1>r, <2>0, ReadsShape, ReaderStepTwins DEF SharedInv
  <2>2. handle' = handle /\ \A s \in Slots : invalid[s] => invalid'[s]
    BY <1>r, ReadsShape DEF ReaderStep, NoReaderChange, MarkInvalid, SetStalled,
           ClearStalled, readerVars
  <2>3. \/ sup' = sup
        \/ /\ sup \in {"preWait", "preRead"}
           /\ sup' \in {"preWait", "preRead", "start", "tdStop"}
    BY <1>r, ReadsFrame
  <2>4. OpenInv' /\ HandsInv'
    BY <1>m, <2>0, <2>2, <2>3 DEF SharedInv, OpenInv, HandsInv, Serving, LoopPcs
  <2> QED
    BY <2>1, <2>4 DEF SharedInv
<1> USE DEF readerVars, supVars, lifeVars, flowVars, countVars, EnvUnchanged
<1>1. CASE Environment
  BY <1>1, <1>u DEF Environment, CreateFlow, RemoveFlow, WriteAgain, SecondPasses,
       RetryDue, Stop
<1>2. CASE Callbacks
  <2>1. ASSUME NEW l \in BOOLEAN, NEW w \in BOOLEAN, FrameCompleted(l, w) PROVE SharedInv'
    <3>1. /\ UNCHANGED <<handle, invalid, stalled, want, got, old, sup, streamingUp, split>>
          /\ resetRequested => resetRequested'
      BY <2>1 DEF FrameCompleted
    <3> QED
      BY <1>m, <1>t, <3>1 DEF SharedInv, OpenInv, HandsInv, Serving
  <2> QED
    BY <1>2, <1>u, <1>r, <2>1 DEF Callbacks, Reads, AudioStart,
           HousekeepingStart, HousekeepingEnd
<1>3. CASE Loop
  <2>1. UNCHANGED <<handle, invalid, stalled, want, got, old, streamingUp, split>>
    BY <1>3 DEF Loop, SupExit, SupPark, SupLoop, SupPoll, SupStalls, SupWait
  <2>2. \/ sup \in {"top", "parked", "poll"} /\ sup' \in {"tdStop", "parked"}
        \/ sup = "top" /\ streamingUp /\ sup' = "poll" /\ resetRequested' = resetRequested
        \/ sup = "poll" /\ ~resetRequested /\ sup' = "reopen"
        \/ sup = "stalls" /\ sup' = "wait" /\ resetRequested' = resetRequested
        \/ sup = "wait" /\ sup' = "top" /\ resetRequested' = resetRequested
        \/ sup = "backoff" /\ sup' = "top" /\ ~streamingUp
    BY <1>3 DEF Loop, SupExit, SupPark, SupLoop, SupPoll, SupStalls, SupWait, Base,
           Inv, SessionInv
  <2>3. OpenInv'
    BY <1>m, <2>1, <2>2 DEF SharedInv, OpenInv, Serving, LoopPcs
  <2>4. HandsInv'
    BY <1>m, <2>1, <2>2 DEF SharedInv, HandsInv
  <2> QED
    BY <1>t, <2>1, <2>3, <2>4 DEF SharedInv
<1>4. CASE BringingUp
  <2>1. CASE BringUp
    <3>1. TwinInv'
      <4>1. Video \in Slots /\ \A s \in Slots : FlowOf[s] = FlowOf[Video] => s = Video
        BY ConstantsOK DEF ConstantsOK, Slots, AudioSlots, Video
      <4>2. handle' = handle /\ \A s \in Slots : s # Video => invalid'[s] = invalid[s] /\ stalled'[s] = stalled[s]
        BY <1>0, <2>1 DEF BringUp, ReaderTypes
      <4>3. \A s, t \in Slots : Mates(s, t)' => Mates(s, t) /\ (s = Video <=> t = Video)
        BY <1>m, <2>1, <4>1 DEF BringUp, Mates
      <4> QED
        BY <4>2, <4>3 DEF SharedInv, TwinInv
    <3> QED
      BY <1>m, <2>1, <3>1 DEF BringUp, SharedInv, OpenInv, HandsInv, Serving, LoopPcs
  <2>2. CASE BringUpOpen
    <3>1. PICK s \in want : handle' \in {handle, [handle EXCEPT ![s] = Opened(FlowOf[s])]}
      BY <2>2 DEF BringUpOpen
    <3>2. s \in Slots /\ sup = "open"
      BY <1>0, <2>2 DEF SupTypes, BringUpOpen
    <3>3. \A t \in Slots : ~invalid[t] /\ ~stalled[t]
      <4>1. \A t \in Slots : t = Video \/ t \in AudioSlots
        BY ConstantsOK DEF ConstantsOK, Slots, AudioSlots, Video
      <4> QED
        BY <3>2, <4>1 DEF Base, Inv, ReaderInv, Down
    <3>4. \A t \in Slots : Mates(s, t) /\ handle[t] # None => Opened(FlowOf[s]) = handle[t]
      BY <3>2, OpenedSame
    <3>5. UNCHANGED <<invalid, stalled, split, got, old, streamingUp>>
          /\ sup' \in {"open", "tdStop"}
      BY <2>2 DEF BringUpOpen
    <3>6. \A t \in Slots : handle'[t] = handle[t] \/ (t = s /\ handle'[t] = Opened(FlowOf[s]))
      BY <1>0, <3>1, <3>2 DEF ReaderTypes
    <3>7. \A t, u \in Slots : Mates(t, u)' => Mates(t, u) /\ Mates(u, t)
      BY <1>m, <3>5 DEF Mates
    <3>8. TwinInv'
      <4> SUFFICES ASSUME NEW t \in Slots, NEW u \in Slots, Mates(t, u), Mates(u, t),
                          handle'[t] # None, handle'[u] # None
                   PROVE  handle'[t] = handle'[u]
        BY <1>0, <3>3, <3>5, <3>7 DEF TwinInv, ReaderTypes
      <4>1. CASE handle'[t] = handle[t] /\ handle'[u] = handle[u]
        BY <4>1 DEF SharedInv, TwinInv
      <4>2. CASE t = s /\ u # s /\ handle'[t] = Opened(FlowOf[s])
        BY <3>4, <3>6, <4>2
      <4>3. CASE u = s /\ t # s /\ handle'[u] = Opened(FlowOf[s])
        BY <3>4, <3>6, <4>3
      <4> QED
        BY <3>6, <4>1, <4>2, <4>3
    <3>9. OpenInv'
      BY <3>5 DEF OpenInv, Serving, LoopPcs
    <3>10. HandsInv'
      BY <1>m, <3>2, <3>5 DEF SharedInv, HandsInv
    <3> QED
      BY <3>8, <3>9, <3>10 DEF SharedInv
  <2>3. CASE BringUpEnable \/ BringUpEnableFails
    <3>1. \A s \in Slots : handle[s] # None
      BY <2>3 DEF BringUpEnable, BringUpEnableFails, Base, Inv, ReaderInv
    <3>2. /\ UNCHANGED <<handle, invalid, stalled, want, got, old, split>>
          /\ sup = "open" /\ sup' \in {"preWait", "tdStop"}
      BY <2>3 DEF BringUpEnable, BringUpEnableFails
    <3> QED
      BY <1>m, <1>t, <3>1, <3>2 DEF SharedInv, OpenInv, HandsInv
  <2>4. CASE BringUpRefused \/ NoFirstGrain \/ AudioPreroll \/ StartPlayback \/ BringUpDone
    <3>1. /\ UNCHANGED <<handle, invalid, stalled, got, old, resetRequested, split>>
          /\ \/ sup' \in {"backoff", "tdStop"} /\ sup \in {"open", "preWait", "start"}
             \/ sup = "start" /\ sup' \in {"start", "go"} /\ want' = want
             \/ sup = "go" /\ sup' = "poll" /\ want' = want
      BY <2>4 DEF BringUpRefused, NoFirstGrain, AudioPreroll, StartPlayback, BringUpDone
    <3>2. OpenInv'
      BY <1>m, <3>1 DEF SharedInv, OpenInv, Serving, LoopPcs
    <3>3. HandsInv'
      BY <1>m, <3>1 DEF SharedInv, HandsInv
    <3> QED
      BY <1>t, <3>1, <3>2, <3>3 DEF SharedInv
  <2> QED
    BY <1>4, <1>r, <2>1, <2>2, <2>3, <2>4 DEF BringingUp, Reads
<1>5. CASE Reopening
  <2> USE DEF LoopPcs
  <2>1. CASE ReopenCheck
    <3>1. /\ UNCHANGED <<handle, invalid, stalled, want, got, old, split>>
          /\ sup = "reopen" /\ sup' \in {"roTake", "stalls"}
      BY <2>1 DEF ReopenCheck
    <3> QED
      BY <1>m, <1>t, <3>1 DEF SharedInv, OpenInv, HandsInv, Serving
  <2>2. CASE ReopenTake
    <3>0. sup = "roTake" /\ sup' = "roRelease" /\ UNCHANGED <<invalid, stalled, got, split>>
      BY <2>2 DEF ReopenTake
    <3>1. /\ \A s \in Slots : got[s] = None
          /\ \A s, t \in Slots : Mates(s, t) => (handle[s] = None <=> handle[t] = None)
          /\ \A s \in Slots : handle[s] = None => invalid[s]
      BY <3>0 DEF SharedInv, OpenInv, Serving, Base, Inv, ReaderInv
    <3>2. \A s \in Slots : /\ handle'[s] = IF invalid[s] THEN None ELSE handle[s]
                           /\ s \in want' <=> invalid[s]
      BY <2>2 DEF ReopenTake
    <3>3. \A s, t \in Slots : Mates(s, t)' <=> Mates(s, t)
      BY <1>m, <3>0
    <3>4. \A s, t \in Slots : Mates(s, t) => (invalid[s] <=> invalid[t])
      BY <3>1 DEF SharedInv, TwinInv
    <3>5. TwinInv'
      BY <3>0, <3>2, <3>3 DEF SharedInv, TwinInv
    <3>6. OpenInv'
      BY <3>0, <3>1, <3>2, <3>3, <3>4 DEF OpenInv
    <3>7. HandsInv'
      BY <3>0, <3>1, <3>2, <3>3, <3>4 DEF HandsInv
    <3> QED
      BY <3>5, <3>6, <3>7 DEF SharedInv
  <2>3. CASE ReopenRelease
    <3>1. /\ UNCHANGED <<handle, invalid, stalled, want, got, split>>
          /\ sup = "roRelease" /\ sup' = "roOpen" /\ old' = {}
      BY <2>3 DEF ReopenRelease
    <3> QED
      BY <1>m, <1>t, <3>1 DEF SharedInv, OpenInv, HandsInv, Serving
  <2>4. CASE ReopenOpen
    <3>1. PICK s \in want : /\ got' = [got EXCEPT ![s] = Opened(FlowOf[s])]
                            /\ want' = want \ {s}
      BY <2>4 DEF ReopenOpen
    <3>2. s \in Slots /\ sup = "roOpen"
      BY <1>0, <2>4 DEF SupTypes, ReopenOpen
    <3>4. \A t \in Slots : Mates(s, t) /\ got[t] # None => Opened(FlowOf[s]) = got[t]
      BY <3>2, OpenedSame
    <3>5. \A t \in Slots : got'[t] = IF t = s THEN Opened(FlowOf[s]) ELSE got[t]
      BY <1>0, <3>1, <3>2 DEF SupTypes
    <3>6. UNCHANGED <<handle, invalid, stalled, old, sup, split, streamingUp, resetRequested>>
      BY <2>4 DEF ReopenOpen
    <3>7. \A t, u \in Slots : Mates(t, u)' => Mates(t, u) /\ Mates(u, t)
      BY <1>m, <3>6 DEF Mates
    <3>8. OpenInv'
      BY <1>m, <3>6 DEF SharedInv, OpenInv, Serving
    <3>9. HandsInv'
      BY <3>1, <3>2, <3>4, <3>5, <3>6, <3>7 DEF SharedInv, HandsInv
    <3> QED
      BY <1>t, <3>6, <3>8, <3>9 DEF SharedInv
  <2>5. CASE ReopenFormatChanged
    <3>1. /\ UNCHANGED <<handle, invalid, stalled, want, old, split>>
          /\ sup = "roOpen" /\ sup' = "stalls" /\ \A s \in Slots : got'[s] = None
      BY <2>5 DEF ReopenFormatChanged, NoReaders
    <3> QED
      BY <1>m, <1>t, <3>1 DEF SharedInv, OpenInv, HandsInv, Serving
  <2>6. CASE ReopenInstall
    <3>0. /\ sup = "roOpen" /\ sup' = "stalls" /\ old' = old
          /\ \A s \in Slots : got'[s] = None
          /\ split' = split \cup SplitFlows
      BY <2>6 DEF ReopenInstall, NoReaders
    <3>1. \A s \in Slots : got[s] # None => ~stalled[s]
      BY DEF Base, Inv, ReaderInv, ReopenTakesOver
    <3>2. \A s \in Slots : /\ handle'[s] = IF got[s] # None THEN got[s] ELSE handle[s]
                           /\ invalid'[s] = (invalid[s] /\ got[s] = None)
                           /\ stalled'[s] = stalled[s]
      BY <1>0, <2>6, <3>1 DEF ReopenInstall, ReaderTypes
    <3>3. /\ \A s, t \in Slots : Mates(s, t) => (handle[s] = None <=> handle[t] = None)
          /\ \A s \in Slots : handle[s] = None => invalid[s]
      BY <3>0 DEF SharedInv, OpenInv, Serving
    \* Of the flows that were not split, all slots got a reader or none.
    <3>4. ASSUME NEW s \in Slots, NEW t \in Slots, Mates(s, t)'
          PROVE  Mates(s, t) /\ (got[s] # None <=> got[t] # None)
      <4>1. FlowOf[s] = FlowOf[t] /\ FlowOf[s] \notin split /\ FlowOf[s] \notin SplitFlows
        BY <3>0, <3>4 DEF Mates
      <4>2. Mates(s, t) /\ Mates(t, s)
        BY <4>1 DEF Mates
      <4>3. got[s] # None => handle[t] = None /\ handle[s] = None
        BY <3>0, <3>3, <4>2 DEF SharedInv, HandsInv
      <4>4. got[t] # None => handle[t] = None /\ handle[s] = None
        BY <3>0, <3>3, <4>2 DEF SharedInv, HandsInv
      <4> QED
        BY <4>1, <4>2, <4>3, <4>4 DEF SplitFlows
    <3>5. TwinInv'
      <4> SUFFICES ASSUME NEW s \in Slots, NEW t \in Slots, Mates(s, t)',
                          handle'[s] # None, handle'[t] # None
                   PROVE  /\ handle'[s] = handle'[t] /\ invalid'[s] = invalid'[t]
                          /\ stalled'[s] = stalled'[t]
        BY DEF TwinInv
      <4>1. Mates(s, t) /\ (got[s] # None <=> got[t] # None)
        BY <3>4
      <4>2. CASE got[s] # None
        <5>1. got[s] = got[t] /\ ~stalled[s] /\ ~stalled[t]
          BY <3>1, <4>1, <4>2 DEF SharedInv, HandsInv
        <5>2. stalled[s] = stalled[t]
          BY <1>0, <5>1 DEF ReaderTypes
        <5> QED
          BY <3>2, <4>1, <4>2, <5>1, <5>2
      <4>3. CASE got[s] = None
        BY <3>2, <4>1, <4>3 DEF SharedInv, TwinInv
      <4> QED
        BY <4>2, <4>3
    <3>6. OpenInv'
      BY <3>2, <3>3, <3>4 DEF OpenInv
    <3>7. HandsInv'
      BY <3>0 DEF SharedInv, HandsInv
    <3> QED
      BY <3>5, <3>6, <3>7 DEF SharedInv
  <2>7. ASSUME NEW u \in Slots, ReopenInstallFails(u) PROVE SharedInv'
    <3>0. /\ sup = "roOpen" /\ sup' = "stalls" /\ old' = old /\ resetRequested'
          /\ split' = split /\ \A s \in Slots : got'[s] = None
      BY <2>7 DEF ReopenInstallFails, NoReaders
    <3>1. \A s \in Slots : got[s] # None => ~stalled[s]
      BY DEF Base, Inv, ReaderInv, ReopenTakesOver
    <3>2. \A s \in Slots : /\ got[s] = None => handle'[s] = handle[s] /\ invalid'[s] = invalid[s]
                           /\ got[s] # None => \/ handle'[s] = got[s] /\ ~invalid'[s]
                                               \/ handle'[s] = handle[s] /\ invalid'[s] = invalid[s]
                           /\ stalled'[s] = stalled[s]
      BY <1>0, <2>7, <3>1 DEF ReopenInstallFails, ReaderTypes, Slots
    <3>3. \A s, t \in Slots : Mates(s, t) /\ got[s] # None => handle[t] = None
      BY <3>0 DEF SharedInv, HandsInv
    <3>4. TwinInv'
      <4>1. ASSUME NEW s \in Slots, NEW t \in Slots, Mates(s, t)',
                   handle'[s] # None, handle'[t] # None
            PROVE  /\ handle'[s] = handle'[t] /\ invalid'[s] = invalid'[t]
                   /\ stalled'[s] = stalled'[t]
        <5>1. Mates(s, t) /\ Mates(t, s) /\ Mates(s, s) /\ Mates(t, t)
          BY <3>0, <4>1 DEF Mates
        <5>2. invalid' \in [Slots -> BOOLEAN] /\ stalled \in [Slots -> BOOLEAN]
          BY <1>0, <2>7 DEF ReaderTypes, ReopenInstallFails
        <5>3. CASE got[s] = None /\ got[t] = None
          BY <3>2, <4>1, <5>1, <5>3 DEF SharedInv, TwinInv
        <5>4. CASE got[s] # None /\ got[t] # None
          <6>1. got[s] = got[t] /\ handle'[s] = got[s] /\ handle'[t] = got[t]
            BY <3>2, <3>3, <4>1, <5>1, <5>4 DEF SharedInv, HandsInv
          <6>2. ~invalid'[s] /\ ~invalid'[t]
            BY <3>2, <3>3, <4>1, <5>1, <5>4
          <6>3. ~stalled'[s] /\ ~stalled'[t]
            BY <3>1, <3>2, <5>4
          <6> QED
            BY <3>2, <5>2, <6>1, <6>2, <6>3
        <5>5. CASE got[s] # None /\ got[t] = None
          BY <3>2, <3>3, <4>1, <5>1, <5>5
        <5>6. CASE got[s] = None /\ got[t] # None
          BY <3>2, <3>3, <4>1, <5>1, <5>6
        <5> QED
          BY <5>3, <5>4, <5>5, <5>6
      <4> QED
        BY <4>1 DEF TwinInv
    <3>5. OpenInv'
      <4>1. \A s \in Slots : handle[s] = None => invalid[s]
        BY <3>0 DEF SharedInv, OpenInv, Serving
      <4> QED
        BY <3>0, <3>2, <4>1 DEF OpenInv
    <3>6. HandsInv'
      BY <3>0 DEF SharedInv, HandsInv
    <3> QED
      BY <3>4, <3>5, <3>6 DEF SharedInv
  <2> QED
    BY <1>5, <2>1, <2>2, <2>3, <2>4, <2>5, <2>6, <2>7 DEF Reopening
<1>6. CASE TearingDown
  <2>1. CASE TearDownTake
    <3>1. /\ sup = "tdTake" /\ sup' = "tdGroup" /\ UNCHANGED <<got, split>>
          /\ \A s \in Slots : handle'[s] = None
      BY <2>1 DEF TearDownTake, NoReaders
    <3> QED
      BY <1>m, <3>1 DEF SharedInv, TwinInv, OpenInv, HandsInv, Serving, LoopPcs
  <2>2. CASE TearDownStop \/ TearDownGroup \/ TearDownSession \/ TearDownReaders
    <3>1. /\ UNCHANGED <<handle, invalid, stalled, got, split>>
          /\ \/ sup = "tdStop" /\ sup' = "tdTake" /\ old' = old
             \/ sup = "tdGroup" /\ sup' = "tdSession" /\ old' = old
             \/ sup = "tdSession" /\ sup' = "tdReaders" /\ old' = old
             \/ sup = "tdReaders" /\ sup' \in {"top", "stopped", "backoff"} /\ old' = {}
                /\ ~streamingUp'
      BY <1>0, <2>2 DEF TearDownStop, TearDownGroup, TearDownSession, TearDownReaders,
             SupTypes, Base, Inv, SessionInv
    <3>2. OpenInv'
      BY <3>1 DEF OpenInv, Serving, LoopPcs
    <3>3. HandsInv'
      BY <1>m, <3>1 DEF SharedInv, HandsInv
    <3> QED
      BY <1>t, <3>1, <3>2, <3>3 DEF SharedInv
  <2> QED
    BY <1>6, <2>1, <2>2 DEF TearingDown
<1>7. CASE UNCHANGED vars
  BY <1>7, <1>u DEF vars
<1> QED
  BY <1>1, <1>2, <1>3, <1>4, <1>5, <1>6, <1>7 DEF Next, Supervisor, Stopped

-----------------------------------------------------------------------------
(* Every re-created flow is counted once.                                  *)

\* The data files of flow f before h, and: the re-opens counted for f are not
\* more than those.
Older(f, h) == {i \in 1..files : file[i].flow = f /\ i < h}
Counted(f, h) == f \notin split => reopens[f] <= Cardinality(Older(f, h))

\* The current file is the flow's latest; the re-opens of a flow are covered by
\* its files that are gone and by those before any that is open; an invalid
\* reader leaves room for one more.
CountInv ==
  /\ \A f \in Flows : current[f] # None =>
       \A i \in 1..files : file[i].flow = f => i <= current[f]
  /\ EventPerRecreation
  /\ \A s \in Slots : handle[s] # None => Counted(FlowOf[s], handle[s])
  /\ \A s \in Slots : got[s] # None => Counted(FlowOf[s], got[s])
  /\ \A s \in Slots : invalid[s] /\ handle[s] # None /\ FlowOf[s] \notin split
       => handle[s] # current[FlowOf[s]]

\* The current file is not among those that are gone, all earlier ones are; and
\* a file that is gone counts itself on top of those before it.
LEMMA GoneCovers ==
  ASSUME Base, CountInv, NEW f \in Flows
  PROVE  /\ IsFiniteSet(Gone(f)) /\ Cardinality(Gone(f)) \in Nat
         /\ \A h : IsFiniteSet(Older(f, h)) /\ Cardinality(Older(f, h)) \in Nat
         /\ current[f] # None => Cardinality(Gone(f)) <= Cardinality(Older(f, current[f]))
         /\ \A h \in 1..files : file[h].flow = f /\ h # current[f] =>
              Cardinality(Older(f, h)) + 1 <= Cardinality(Gone(f))
<1>0. files \in Nat /\ current[f] \in Nat
  BY ConstantsOK DEF ConstantsOK, Base, Inv, TypeOK, FlowTypes
<1>1. ASSUME NEW S \in SUBSET (1..files) PROVE IsFiniteSet(S) /\ Cardinality(S) \in Nat
  <2>1. IsFiniteSet(1..files)
    BY <1>0, FS_Interval
  <2> QED
    BY <2>1, FS_Subset, FS_CardinalityType
<1>2. Gone(f) \in SUBSET (1..files) /\ \A h : Older(f, h) \in SUBSET (1..files)
  BY DEF Gone, Older
<1>3. ASSUME current[f] # None
      PROVE  Cardinality(Gone(f)) <= Cardinality(Older(f, current[f]))
  <2>1. \A i \in Gone(f) : i \in 1..files /\ file[i].flow = f /\ i <= current[f] /\ i # current[f]
    BY <1>3 DEF Gone, CountInv
  <2>2. \A i \in 1..files : i <= current[f] /\ i # current[f] => i < current[f]
    BY <1>0
  <2>3. Gone(f) \in SUBSET Older(f, current[f])
    BY <2>1, <2>2 DEF Older
  <2> QED
    BY <1>1, <1>2, <2>3, FS_Subset
<1>4. ASSUME NEW h \in 1..files, file[h].flow = f, h # current[f]
      PROVE  Cardinality(Older(f, h)) + 1 <= Cardinality(Gone(f))
  <2>1. h \notin Older(f, h)
    BY <1>0 DEF Older
  <2>2. \A i \in Older(f, h) : i # current[f]
    <3> SUFFICES ASSUME NEW i \in Older(f, h), i = current[f] PROVE FALSE
      OBVIOUS
    <3>1. i \in 1..files /\ i < h
      BY DEF Older
    <3>2. h <= current[f]
      BY <1>0, <1>4, <3>1 DEF CountInv, None
    <3> QED
      BY <1>0, <3>1, <3>2
  <2>3. Older(f, h) \cup {h} \in SUBSET Gone(f)
    BY <1>4, <2>2 DEF Older, Gone
  <2>4. Cardinality(Older(f, h) \cup {h}) = Cardinality(Older(f, h)) + 1
    BY <1>1, <1>2, <2>1, FS_AddElement
  <2> QED
    BY <1>1, <1>2, <2>3, <2>4, FS_Subset
<1> QED
  BY <1>1, <1>2, <1>3, <1>4

\* A writer only adds to the files that are gone, and takes nothing from those
\* before an open one.
LEMMA WriterCounts ==
  ASSUME Base, FileInv, CountInv, files' \in Nat, files <= files',
         \A i \in 1..files : file'[i].flow = file[i].flow,
         \A g \in Flows : current'[g] = current[g] \/ current'[g] \notin 1..files,
         \A g \in Flows : current'[g] # None =>
           \A i \in 1..files' : file'[i].flow = g => i <= current'[g],
         UNCHANGED <<handle, got, invalid, countVars>>
  PROVE  CountInv'
<1>0. /\ FlowTypes /\ ReaderTypes /\ SupTypes /\ files \in Nat
      /\ \A s \in Slots : FlowOf[s] \in Flows
  BY ConstantsOK DEF ConstantsOK, Base, Inv, TypeOK, FlowTypes
<1>1. reopens' = reopens /\ split' = split
  BY DEF countVars
<1>2. 1..files \subseteq 1..files'
  BY <1>0
<1>3. EventPerRecreation'
  <2> SUFFICES ASSUME NEW g \in Flows, g \notin split
               PROVE  reopens[g] <= Cardinality(Gone(g)')
    BY <1>1 DEF EventPerRecreation
  <2>1. Gone(g) \in SUBSET Gone(g)'
    <3> SUFFICES ASSUME NEW i \in Gone(g) PROVE i \in Gone(g)'
      OBVIOUS
    <3>1. i \in 1..files /\ file[i].flow = g /\ i # current[g]
      BY DEF Gone
    <3>2. i \in 1..files' /\ file'[i].flow = g /\ i # current'[g]
      BY <1>2, <3>1
    <3> QED
      BY <3>2 DEF Gone
  <2>2. IsFiniteSet(Gone(g)') /\ Cardinality(Gone(g)') \in Nat
    <3>1. IsFiniteSet(1..files') /\ Gone(g)' \in SUBSET (1..files')
      BY FS_Interval DEF Gone
    <3> QED
      BY <3>1, FS_Subset, FS_CardinalityType
  <2>3. Cardinality(Gone(g)) <= Cardinality(Gone(g)')
    BY <2>1, <2>2, FS_Subset
  <2>4. reopens[g] <= Cardinality(Gone(g)) /\ reopens[g] \in Nat
    BY <1>0 DEF CountInv, EventPerRecreation, SupTypes
  <2>5. Cardinality(Gone(g)) \in Nat
    BY GoneCovers
  <2> QED
    BY <2>2, <2>3, <2>4, <2>5
<1>4. \A s \in Slots : handle[s] \in 0..files /\ got[s] \in 0..files
  BY <1>0 DEF ReaderTypes, SupTypes, FileInv
<1>5. ASSUME NEW g, NEW h \in 0..files
      PROVE  {i \in 1..files' : file'[i].flow = g /\ i < h} = Older(g, h)
  <2>1. \A i \in 1..files' : i < h => i \in 1..files
    BY <1>0
  <2> QED
    BY <1>2, <2>1 DEF Older
<1>6. \A s \in Slots : handle'[s] # None => Counted(FlowOf[s], handle[s])'
  <2> SUFFICES ASSUME NEW s \in Slots, handle[s] # None PROVE Counted(FlowOf[s], handle[s])'
    OBVIOUS
  <2>1. Older(FlowOf[s], handle[s])' = Older(FlowOf[s], handle[s])
    BY <1>4, <1>5 DEF Older
  <2> QED
    BY <1>1, <2>1 DEF Counted, CountInv
<1>7. \A s \in Slots : got'[s] # None => Counted(FlowOf[s], got[s])'
  <2> SUFFICES ASSUME NEW s \in Slots, got[s] # None PROVE Counted(FlowOf[s], got[s])'
    OBVIOUS
  <2>1. Older(FlowOf[s], got[s])' = Older(FlowOf[s], got[s])
    BY <1>4, <1>5 DEF Older
  <2> QED
    BY <1>1, <2>1 DEF Counted, CountInv
<1>8. \A s \in Slots : invalid'[s] /\ handle'[s] # None /\ FlowOf[s] \notin split'
        => handle'[s] # current'[FlowOf[s]]
  <2> SUFFICES ASSUME NEW s \in Slots, invalid[s], handle[s] # None, FlowOf[s] \notin split
               PROVE  handle[s] # current'[FlowOf[s]]
    BY <1>1
  <2>1. handle[s] # current[FlowOf[s]]
    BY DEF CountInv
  <2>2. handle[s] \in 1..files
    BY <1>0, <1>4 DEF None
  <2> QED
    BY <1>0, <2>1, <2>2
<1> QED
  BY <1>3, <1>6, <1>7, <1>8 DEF CountInv

\* A new data file is one of these steps ...
LEMMA CreatedCounts ==
  ASSUME Base, FileInv, CountInv, NEW f \in Flows, NEW x \in Formats, CreateFlow(f, x)
  PROVE  CountInv'
<1>0. FlowTypes /\ files \in Nat
  BY ConstantsOK DEF ConstantsOK, Base, Inv, TypeOK, FlowTypes
<1>n. PICK n \in Nat : n = files + 1
  BY <1>0
<1>1. n \in FileIds /\ files' = n
  BY <1>0, <1>n, ConstantsOK DEF CreateFlow, FlowTypes, FileIds, ConstantsOK
<1>2. \A i \in FileIds : i # n => file'[i] = file[i]
  BY <1>0, <1>n, <1>1 DEF CreateFlow, FlowTypes
<1>3. file'[n].flow = f
  BY <1>0, <1>n, <1>1 DEF CreateFlow, FlowTypes
<1>4. 1..files \subseteq FileIds
  <2>1. files \in 0..MaxFiles
    BY <1>0 DEF FlowTypes
  <2>2. \A i \in 1..files : i \in 1..MaxFiles
    BY <2>1, ConstantsOK DEF ConstantsOK
  <2> QED
    BY <2>2 DEF FileIds
<1>5. \A g \in Flows : current'[g] = IF g = f THEN n ELSE current[g]
  BY <1>0, <1>n DEF CreateFlow, FlowTypes
<1>6. UNCHANGED <<handle, got, invalid, countVars>>
  BY DEF CreateFlow, readerVars, supVars, countVars
<1>7. (\A i \in 1..files : i # n) /\ n \notin 1..files /\ files <= n
      /\ \A i \in 1..n : i <= n /\ (i = n \/ i \in 1..files)
  BY <1>0, <1>n
<1>8. \A i \in 1..files : file'[i] = file[i]
  BY <1>2, <1>4, <1>7
<1>9. \A g \in Flows : current'[g] # None =>
        \A i \in 1..files' : file'[i].flow = g => i <= current'[g]
  <2> SUFFICES ASSUME NEW g \in Flows, current'[g] # None,
                      NEW i \in 1..n, file'[i].flow = g
               PROVE  i <= current'[g]
    BY <1>1
  <2>1. CASE g = f
    BY <1>5, <1>7, <2>1
  <2>2. CASE g # f
    <3>1. i \in 1..files /\ current'[g] = current[g]
      BY <1>3, <1>5, <1>7, <2>2
    <3> QED
      BY <1>8, <3>1 DEF CountInv
  <2> QED
    BY <2>1, <2>2
<1> QED
  BY <1>1, <1>5, <1>6, <1>7, <1>8, <1>9, WriterCounts

\* ... and so is a flow that is removed.
LEMMA RemovedCounts ==
  ASSUME Base, FileInv, CountInv, NEW f \in Flows, RemoveFlow(f)
  PROVE  CountInv'
<1>0. FlowTypes /\ files \in Nat
  BY ConstantsOK DEF ConstantsOK, Base, Inv, TypeOK, FlowTypes
<1>1. \A g \in Flows : current'[g] = IF g = f THEN None ELSE current[g]
  BY <1>0 DEF RemoveFlow, FlowTypes
<1>2. None \notin 1..files /\ files <= files
  BY <1>0 DEF None
<1>3. UNCHANGED <<files, file, handle, got, invalid, countVars>>
  BY DEF RemoveFlow, readerVars, supVars, countVars
<1>4. \A g \in Flows : current'[g] # None =>
        \A i \in 1..files' : file'[i].flow = g => i <= current'[g]
  BY <1>1, <1>3 DEF CountInv
<1> QED
  BY <1>0, <1>1, <1>2, <1>3, <1>4, WriterCounts

\* Only a re-open counts, and it lets go of the reader it counted.
LEMMA TakenCounts ==
  ASSUME Base, FileInv, SharedInv, CountInv, ReopenTake
  PROVE  CountInv'
<1>0. /\ FlowTypes /\ ReaderTypes /\ SupTypes /\ files \in Nat
      /\ \A s \in Slots : FlowOf[s] \in Flows
  BY ConstantsOK DEF ConstantsOK, Base, Inv, TypeOK, FlowTypes
<1>1. /\ UNCHANGED <<files, file, current, got, invalid, split>>
      /\ \A s \in Slots : handle'[s] = IF invalid[s] THEN None ELSE handle[s]
      /\ \A f \in Flows : reopens'[f] =
           IF \E s \in Slots : invalid[s] /\ FlowOf[s] = f /\ handle[s] # None
           THEN CountUp(reopens[f]) ELSE reopens[f]
  BY DEF ReopenTake, EnvUnchanged, flowVars
<1>2. \A s \in Slots : got[s] = None
  BY DEF ReopenTake, Base, Inv, ReaderInv
<1>3. ASSUME NEW f \in Flows, f \notin split PROVE reopens'[f] <= Cardinality(Gone(f))
  <2>1. reopens[f] \in Nat /\ reopens[f] <= Cardinality(Gone(f))
    BY <1>0, <1>3 DEF SupTypes, CountInv, EventPerRecreation
  <2>2. CASE \E s \in Slots : invalid[s] /\ FlowOf[s] = f /\ handle[s] # None
    <3>1. PICK s \in Slots : invalid[s] /\ FlowOf[s] = f /\ handle[s] # None
      BY <2>2
    <3> DEFINE h == handle[s]
    <3>2. h # current[f] /\ reopens[f] <= Cardinality(Older(f, h))
      BY <1>3, <3>1 DEF CountInv, Counted
    <3>3. h \in 1..files /\ file[h].flow = f
      BY <1>0, <3>1 DEF ReaderTypes, FileInv, None
    <3> HIDE DEF h
    <3>4. /\ Cardinality(Older(f, h)) \in Nat /\ Cardinality(Gone(f)) \in Nat
          /\ Cardinality(Older(f, h)) + 1 <= Cardinality(Gone(f))
      BY <3>2, <3>3, GoneCovers
    <3>5. reopens'[f] <= reopens[f] + 1 /\ reopens'[f] \in Nat
      BY <1>0, <1>1, <2>1, <2>2, ConstantsOK DEF CountUp, ConstantsOK
    <3> QED
      BY <2>1, <3>2, <3>4, <3>5
  <2>3. CASE ~ \E s \in Slots : invalid[s] /\ FlowOf[s] = f /\ handle[s] # None
    BY <1>1, <2>1, <2>3
  <2> QED
    BY <2>2, <2>3
<1>4. EventPerRecreation'
  BY <1>1, <1>3 DEF EventPerRecreation, Gone
<1>5. ASSUME NEW s \in Slots, handle'[s] # None PROVE Counted(FlowOf[s], handle[s])'
  <2>1. ~invalid[s] /\ handle'[s] = handle[s] /\ handle[s] # None
    BY <1>1, <1>5
  <2>2. CASE FlowOf[s] \in split
    BY <1>1, <2>2 DEF Counted
  <2>3. CASE FlowOf[s] \notin split
    <3>1. \A t \in Slots : ~(invalid[t] /\ FlowOf[t] = FlowOf[s] /\ handle[t] # None)
      BY <2>1, <2>3 DEF SharedInv, TwinInv, Mates
    <3>2. reopens'[FlowOf[s]] = reopens[FlowOf[s]]
      BY <1>0, <1>1, <3>1
    <3>3. Counted(FlowOf[s], handle[s])
      BY <2>1 DEF CountInv
    <3>4. Older(FlowOf[s], handle[s])' = Older(FlowOf[s], handle[s])
      BY <1>1, <2>1 DEF Older
    <3> QED
      BY <1>1, <3>2, <3>3, <3>4 DEF Counted
  <2> QED
    BY <2>2, <2>3
<1> QED
  BY <1>0, <1>1, <1>2, <1>4, <1>5 DEF CountInv

\* The re-opens stay covered through every step.
LEMMA CountStep ==
  Base /\ FileInv /\ SharedInv /\ CountInv /\ [Next]_vars => CountInv'
<1> SUFFICES ASSUME Base, FileInv, SharedInv, CountInv, [Next]_vars
             PROVE  CountInv'
  OBVIOUS
<1>0. /\ FlowTypes /\ ReaderTypes /\ SupTypes /\ files \in Nat
      /\ \A s \in Slots : FlowOf[s] \in Flows
  BY ConstantsOK DEF ConstantsOK, Base, Inv, TypeOK, FlowTypes
\* A step that counts nothing: new handles are old ones, opened ones or none,
\* and a reader becomes invalid when it is not the current one.
<1>f. ASSUME UNCHANGED <<files, file, current, reopens>>, split \subseteq split',
             \A s \in Slots : handle'[s] # None =>
               \/ handle'[s] = handle[s]
               \/ Counted(FlowOf[s], handle'[s]) /\ ~invalid'[s],
             \A s \in Slots :
               invalid'[s] /\ handle'[s] = handle[s] /\ handle[s] # None /\ FlowOf[s] \notin split
                 => invalid[s] \/ handle[s] # current[FlowOf[s]],
             \A s \in Slots : got'[s] # None =>
               got'[s] = got[s] \/ Counted(FlowOf[s], got'[s])
      PROVE  CountInv'
  <2>1. \A f, h : Older(f, h)' = Older(f, h)
    BY <1>f DEF Older
  <2>3. EventPerRecreation'
    <3>1. \A f \in Flows : Gone(f)' = Gone(f)
      BY <1>f DEF Gone
    <3> QED
      BY <1>f, <3>1 DEF CountInv, EventPerRecreation
  <2>4. \A s \in Slots : handle'[s] # None => Counted(FlowOf[s], handle[s])'
    <3> SUFFICES ASSUME NEW s \in Slots, handle'[s] # None
                 PROVE  Counted(FlowOf[s], handle[s])'
      OBVIOUS
    <3>1. Counted(FlowOf[s], handle'[s])
      BY <1>f DEF CountInv
    <3>2. Older(FlowOf[s], handle[s])' = Older(FlowOf[s], handle'[s])
      BY <1>f DEF Older
    <3> QED
      BY <1>f, <3>1, <3>2 DEF Counted
  <2>5. \A s \in Slots : got'[s] # None => Counted(FlowOf[s], got[s])'
    <3> SUFFICES ASSUME NEW s \in Slots, got'[s] # None
                 PROVE  Counted(FlowOf[s], got[s])'
      OBVIOUS
    <3>1. Counted(FlowOf[s], got'[s])
      BY <1>f DEF CountInv
    <3>2. Older(FlowOf[s], got[s])' = Older(FlowOf[s], got'[s])
      BY <1>f DEF Older
    <3> QED
      BY <1>f, <3>1, <3>2 DEF Counted
  <2>6. \A s \in Slots : invalid'[s] /\ handle'[s] # None /\ FlowOf[s] \notin split'
          => handle'[s] # current'[FlowOf[s]]
    <3> SUFFICES ASSUME NEW s \in Slots, invalid'[s], handle'[s] # None, FlowOf[s] \notin split
                 PROVE  handle'[s] # current[FlowOf[s]]
      BY <1>f
    <3>1. handle'[s] = handle[s]
      BY <1>f
    <3> QED
      BY <1>f, <3>1 DEF CountInv
  <2> QED
    BY <1>f, <2>3, <2>4, <2>5, <2>6 DEF CountInv
<1>u. ASSUME UNCHANGED <<flowVars, countVars, handle, invalid, got>> PROVE CountInv'
  BY <1>u, <1>f DEF flowVars, countVars
<1>r. CASE Reads
  <2>1. ReaderStep
    BY <1>r, ReadsShape
  <2>2. UNCHANGED <<files, file, current, reopens, split, got>>
    BY <1>r, ReadsFrame DEF flowVars, countVars
  <2>3. CASE \E T \in SUBSET Slots : /\ \A s \in T : Readable(s) /\ Stale(s)
                                     /\ MarkInvalid(FlowMates(T))
    <3>1. PICK T \in SUBSET Slots : /\ \A s \in T : Readable(s) /\ Stale(s)
                                    /\ MarkInvalid(FlowMates(T))
      BY <2>3
    <3>2. handle' = handle /\ \A s \in Slots : invalid'[s] = (invalid[s] \/ s \in FlowMates(T))
      BY <3>1 DEF MarkInvalid
    <3>3. ASSUME NEW s \in Slots, s \in FlowMates(T), FlowOf[s] \notin split
          PROVE  handle[s] # current[FlowOf[s]]
      <4>1. PICK t \in T : FlowOf[t] = FlowOf[s] /\ handle[s] # None
        BY <3>3 DEF FlowMates, Readable
      <4>2. handle[t] # None /\ handle[t] # current[FlowOf[s]]
        BY <3>1, <4>1 DEF Readable, Stale
      <4> QED
        BY <3>3, <4>1, <4>2 DEF SharedInv, TwinInv, Mates
    <3> QED
      BY <1>f, <2>2, <3>2, <3>3
  <2>4. CASE handle' = handle /\ invalid' = invalid
    BY <1>f, <2>2, <2>4
  <2> QED
    BY <2>1, <2>3, <2>4 DEF ReaderStep, NoReaderChange, SetStalled, ClearStalled, readerVars
<1>o. ASSUME sup \in {"open", "roOpen"}, NEW s \in Slots, Opened(FlowOf[s]) # None
      PROVE  Counted(FlowOf[s], Opened(FlowOf[s]))
  <2>1. FlowOf[s] \in Flows
    BY <1>0
  <2>2. \/ Opened(FlowOf[s]) = current[FlowOf[s]]
        \/ \E t \in Slots : FlowOf[t] = FlowOf[s] /\ Opened(FlowOf[s]) \in {handle[t], got[t]}
    BY <1>o, <2>1, OpenedShared
  <2>3. CASE Opened(FlowOf[s]) = current[FlowOf[s]]
    <3> DEFINE f == FlowOf[s]
               c == current[f]
    <3>1. /\ Cardinality(Gone(f)) \in Nat /\ Cardinality(Older(f, c)) \in Nat
          /\ Cardinality(Gone(f)) <= Cardinality(Older(f, c))
      BY <1>o, <2>1, <2>3, GoneCovers
    <3>2. f \notin split => reopens[f] \in Nat /\ reopens[f] <= Cardinality(Gone(f))
      BY <1>0, <2>1 DEF CountInv, EventPerRecreation, SupTypes
    <3>3. Counted(f, c)
      BY <3>1, <3>2 DEF Counted
    <3> QED
      BY <2>3, <3>3
  <2> QED
    BY <1>o, <2>1, <2>2, <2>3 DEF CountInv
<1> USE DEF readerVars, supVars, flowVars, countVars, EnvUnchanged
<1>1. CASE Environment
  BY <1>1, <1>u, CreatedCounts, RemovedCounts DEF Environment, WriteAgain, SecondPasses,
         RetryDue, Stop
<1>2. CASE Callbacks
  BY <1>2, <1>u, <1>r DEF Callbacks, Reads, FrameCompleted, AudioStart,
         HousekeepingStart, HousekeepingEnd
<1>3. CASE Loop
  BY <1>3, <1>u DEF Loop, SupExit, SupPark, SupLoop, SupPoll, SupStalls, SupWait
<1>4. CASE BringingUp
  <2>1. CASE BringUp
    <3>1. \A s \in Slots : invalid'[s] => invalid[s]
      BY <1>0, <2>1 DEF BringUp, ReaderTypes
    <3> QED
      BY <1>f, <2>1, <3>1 DEF BringUp
  <2>2. CASE BringUpOpen
    <3>1. PICK s \in want : handle' \in {handle, [handle EXCEPT ![s] = Opened(FlowOf[s])]}
      BY <2>2 DEF BringUpOpen
    <3>2. s \in Slots /\ sup = "open"
      BY <1>0, <2>2 DEF SupTypes, BringUpOpen
    <3>3. ~invalid[s]
      <4>1. s = Video \/ s \in AudioSlots
        BY <3>2, ConstantsOK DEF ConstantsOK, Slots, AudioSlots, Video
      <4> QED
        BY <3>2, <4>1 DEF Base, Inv, ReaderInv, Down
    <3>4. Opened(FlowOf[s]) # None => Counted(FlowOf[s], Opened(FlowOf[s]))
      BY <1>o, <3>2
    <3>5. \A t \in Slots : handle'[t] = handle[t] \/ (t = s /\ handle'[t] = Opened(FlowOf[s]))
      BY <1>0, <3>1, <3>2 DEF ReaderTypes
    <3>6. UNCHANGED <<files, file, current, reopens, split, invalid, got>>
      BY <2>2 DEF BringUpOpen
    <3> QED
      BY <1>f, <3>3, <3>4, <3>5, <3>6
  <2> QED
    BY <1>4, <1>u, <1>r, <2>1, <2>2 DEF BringingUp, Reads, BringUpRefused,
           BringUpEnable, BringUpEnableFails, NoFirstGrain, AudioPreroll,
           StartPlayback, BringUpDone
<1>5. CASE Reopening
  <2>1. CASE ReopenOpen
    <3>1. PICK s \in want : got' = [got EXCEPT ![s] = Opened(FlowOf[s])]
      BY <2>1 DEF ReopenOpen
    <3>2. s \in Slots /\ sup = "roOpen"
      BY <1>0, <2>1 DEF SupTypes, ReopenOpen
    <3>3. Opened(FlowOf[s]) # None => Counted(FlowOf[s], Opened(FlowOf[s]))
      BY <1>o, <3>2
    <3>4. \A t \in Slots : got'[t] = got[t] \/ (t = s /\ got'[t] = Opened(FlowOf[s]))
      BY <1>0, <3>1, <3>2 DEF SupTypes
    <3>5. UNCHANGED <<files, file, current, reopens, split, handle, invalid>>
      BY <2>1 DEF ReopenOpen
    <3> QED
      BY <1>f, <3>3, <3>4, <3>5
  <2>2. CASE ReopenFormatChanged
    BY <1>f, <2>2 DEF ReopenFormatChanged, NoReaders
  <2>3. CASE ReopenInstall
    <3>1. \A s \in Slots : got[s] # None => Counted(FlowOf[s], got[s])
      BY DEF CountInv
    <3>2. \A s \in Slots : /\ handle'[s] = IF got[s] # None THEN got[s] ELSE handle[s]
                           /\ invalid'[s] = (invalid[s] /\ got[s] = None)
                           /\ got'[s] = None
      BY <2>3 DEF ReopenInstall, NoReaders
    <3>3. UNCHANGED <<files, file, current, reopens>> /\ split \subseteq split'
      BY <2>3 DEF ReopenInstall
    <3> QED
      BY <1>f, <3>1, <3>2, <3>3
  <2>4. ASSUME NEW u \in Slots, ReopenInstallFails(u) PROVE CountInv'
    <3>1. \A s \in Slots : got[s] # None => Counted(FlowOf[s], got[s])
      BY DEF CountInv
    <3>2. \A s \in Slots : /\ \/ handle'[s] = handle[s] /\ (invalid'[s] => invalid[s])
                              \/ got[s] # None /\ handle'[s] = got[s] /\ ~invalid'[s]
                           /\ got'[s] = None
      <4> SUFFICES ASSUME NEW s \in Slots
                   PROVE  /\ \/ handle'[s] = handle[s] /\ (invalid'[s] => invalid[s])
                             \/ got[s] # None /\ handle'[s] = got[s] /\ ~invalid'[s]
                          /\ got'[s] = None
        OBVIOUS
      <4>1. got'[s] = None /\ invalid'[s] = (invalid[s] /\ (s > u \/ got[s] = None))
        BY <2>4 DEF ReopenInstallFails, NoReaders
      <4>2. handle'[s] = IF s <= u /\ got[s] # None THEN got[s] ELSE handle[s]
        BY <2>4 DEF ReopenInstallFails
      <4>3. s <= u => ~(s > u)
        BY DEF Slots
      <4> QED
        BY <4>1, <4>2, <4>3
    <3>3. UNCHANGED <<files, file, current, reopens, split>>
      BY <2>4 DEF ReopenInstallFails
    <3> QED
      BY <1>f, <3>1, <3>2, <3>3
  <2> QED
    BY <1>5, <1>u, <2>1, <2>2, <2>3, <2>4, TakenCounts DEF Reopening, ReopenCheck,
           ReopenRelease
<1>6. CASE TearingDown
  <2>1. CASE TearDownTake
    BY <1>f, <2>1 DEF TearDownTake, NoReaders, NoFlags
  <2> QED
    BY <1>6, <1>u, <2>1 DEF TearingDown, TearDownStop, TearDownGroup,
           TearDownSession, TearDownReaders
<1>7. CASE UNCHANGED vars
  BY <1>7, <1>u DEF vars
<1> QED
  BY <1>1, <1>2, <1>3, <1>4, <1>5, <1>6, <1>7 DEF Next, Supervisor, Stopped

-----------------------------------------------------------------------------
(* The theorems.                                                           *)

\* They hold initially.
LEMMA InitReaders ==
  Init => StatusInv /\ PictureInv /\ FileInv /\ StallInv /\ PursuitInv /\ LiveSourceIsAwaited
<1> SUFFICES ASSUME Init
             PROVE  StatusInv /\ PictureInv /\ FileInv /\ StallInv /\ PursuitInv /\ LiveSourceIsAwaited
  OBVIOUS
<1> USE DEF Init, None, NoReaders, NoFlags
<1>1. StatusInv /\ PictureInv
  BY DEF StatusInv, StateReflectsConditions, UpPcs, PictureInv
<1>2. FileInv
  <2>1. \A f \in Flows : f <= NFlows /\ f \in FileIds /\ f # 0
    BY ConstantsOK DEF ConstantsOK, Flows, FileIds
  <2>2. \A f \in Flows : file[f].flow = f
    BY <2>1
  <2>3. 0 <= NFlows
    BY ConstantsOK DEF ConstantsOK
  <2> QED
    BY <2>1, <2>2, <2>3 DEF FileInv
<1>3. StallInv /\ PursuitInv /\ LiveSourceIsAwaited
  BY DEF StallInv, StallClockRuns, PursuitInv, LiveSourceIsAwaited
<1> QED
  BY <1>1, <1>2, <1>3

\* The invariants of this module hold together.
THEOREM ReadersInvariance ==
  Spec => [](Base /\ StatusInv /\ PictureInv /\ FileInv /\ StallInv /\ PursuitInv
             /\ LiveSourceIsAwaited)
<1>1. Spec => []Base
  BY Invariance, PTL DEF Base
<1>2. Base /\ StatusInv /\ [Next]_vars => StatusInv'
  BY StatusStep
<1>3. Base /\ PictureInv /\ [Next]_vars => PictureInv'
  BY PictureStep
<1>4. Base /\ FileInv /\ [Next]_vars => FileInv'
  BY FileStep
<1>5. Base /\ FileInv /\ StallInv /\ [Next]_vars => StallInv'
  BY StallStep
<1>6. Base /\ FileInv /\ PursuitInv /\ [Next]_vars => PursuitInv'
  BY PursuitStep
<1>7. Base /\ FileInv /\ StallInv /\ LiveSourceIsAwaited /\ [Next]_vars => LiveSourceIsAwaited'
  BY AwaitedStep
<1> QED
  BY <1>1, <1>2, <1>3, <1>4, <1>5, <1>6, <1>7, InitReaders, PTL DEF Spec

\* A channel that is up publishes Degraded exactly while it knows of a missing
\* flow, a stall or a late source (updateRunningState is called for each).
THEOREM StateIsTrue == Spec => []StateReflectsConditions
<1>1. StatusInv => StateReflectsConditions
  BY DEF StatusInv
<1> QED
  BY <1>1, ReadersInvariance, PTL

\* Every frame at the card is of this bring-up: bringUp drops the picture the
\* session before left, and no callback of that session can bring it back.
THEOREM PicturesAreNew == Spec => []NoOldPicture
<1>1. PictureInv => NoOldPicture
  BY DEF PictureInv, NoOldPicture
<1> QED
  BY <1>1, ReadersInvariance, PTL

\* An invalid reader is always on its way to a re-open or a reset, and the
\* stall clock runs exactly while a reader is stalled.
THEOREM FaultsAreNotForgotten == Spec => []FaultsArePursued
<1>1. StallInv /\ PursuitInv => FaultsArePursued
  BY DEF StallInv, PursuitInv, FaultsArePursued, InvalidIsPursued
<1> QED
  BY <1>1, ReadersInvariance, PTL

\* As long as adding a reader to the group never fails, every reader that is
\* open, valid and not stalled is in the group, so nothing is read ahead of it.
THEOREM LiveSourcesAwaited == Spec => []LiveSourceIsAwaited
BY ReadersInvariance, PTL

\* Initially every flow has its first file and no slot a reader.
LEMMA InitShared == Init => SharedInv /\ CountInv
<1> SUFFICES ASSUME Init PROVE SharedInv /\ CountInv
  OBVIOUS
<1> USE DEF Init, None, NoReaders, NoFlags
<1>0. /\ NFlows \in Nat /\ files = NFlows
      /\ \A f \in Flows : f \in Nat /\ f # 0 /\ f \in FileIds
  BY ConstantsOK DEF ConstantsOK, Flows, FileIds
<1>1. SharedInv
  BY DEF SharedInv, TwinInv, OpenInv, HandsInv, Serving, LoopPcs
<1>2. \A i \in 1..files : file[i].flow = i
  BY <1>0 DEF Flows
<1>3. EventPerRecreation
  <2> SUFFICES ASSUME NEW f \in Flows PROVE 0 <= Cardinality(Gone(f))
    BY DEF EventPerRecreation
  <2>1. IsFiniteSet(1..files) /\ Gone(f) \in SUBSET (1..files)
    BY <1>0, FS_Interval DEF Gone
  <2>2. Cardinality(Gone(f)) \in Nat
    BY <2>1, FS_Subset, FS_CardinalityType
  <2> QED
    BY <2>2
<1>4. \A f \in Flows : \A i \in 1..files : file[i].flow = f => i <= current[f]
  <2> SUFFICES ASSUME NEW f \in Flows, NEW i \in 1..files, file[i].flow = f PROVE i <= current[f]
    OBVIOUS
  <2>1. current[f] = f /\ i = f
    BY <1>2
  <2> QED
    BY <1>0, <2>1
<1> QED
  BY <1>1, <1>3, <1>4 DEF CountInv

\* Slots of one flow and the counter of its re-opens stay consistent.
LEMMA SharedInvariance == Spec => [](Base /\ FileInv /\ SharedInv /\ CountInv)
<1>1. Base /\ FileInv /\ SharedInv /\ [Next]_vars => SharedInv'
  BY SharedStep
<1>2. Base /\ FileInv /\ SharedInv /\ CountInv /\ [Next]_vars => CountInv'
  BY CountStep
<1> QED
  BY <1>1, <1>2, InitShared, ReadersInvariance, PTL DEF Spec

\* Slots that share a reader act as one, whichever opens fail and however often:
\* a stale reader is given up by all of them, and they stall and resume together.
\* Excepted are only flows of which one re-open found the reader for one slot and
\* missed it for another (reopenInvalidReaders).
THEOREM SharedReadersActAsOne == Spec => []SharedReaderActsAsOne
<1>1. FileInv /\ SharedInv => SharedReaderActsAsOne
  <2> SUFFICES ASSUME FileInv, SharedInv PROVE SharedReaderActsAsOne
    OBVIOUS
  <2>1. \A s, t \in Slots :
          handle[s] # None /\ handle[t] = handle[s] /\ FlowOf[s] \notin split =>
            invalid[s] = invalid[t] /\ stalled[s] = stalled[t]
    BY DEF FileInv, SharedInv, TwinInv, Mates
  <2>2. StaleReaderGoesWhole
    BY <2>1 DEF StaleReaderGoesWhole, Readable
  <2>3. SlotsStallTogether
    BY <2>1 DEF SlotsStallTogether, Readable, AudioSlots, Slots
  <2> QED
    BY <2>2, <2>3 DEF SharedReaderActsAsOne
<1> QED
  BY <1>1, SharedInvariance, PTL

\* A re-created flow is counted once, however many slots read it and however
\* many opens fail before it is back.  Flows excepted as above.
THEOREM RecreationsCountedOnce == Spec => []EventPerRecreation
<1>1. CountInv => EventPerRecreation
  BY DEF CountInv
<1> QED
  BY <1>1, SharedInvariance, PTL
====
