----------------------- MODULE PlaybackSessionProofs -----------------------
(***************************************************************************)
(* What PlaybackSession keeps for any number of frames and any preroll:    *)
(* its types, that the tear-down frees the session behind nobody's back,   *)
(* that a frame on air is never in the pool and no more frames are made    *)
(* than the preroll needs, that completions are reported in the order of   *)
(* the schedule, and that playback keeps the pipeline full.                *)
(***************************************************************************)
EXTENDS PlaybackSession, FiniteSetTheorems, TLAPS

-----------------------------------------------------------------------------
(* Sequences *)

\* Scheduling a frame adds it to those that the card holds.
LEMMA ToSetAppend ==
  ASSUME NEW S, NEW q \in Seq(S), NEW x \in S
  PROVE  /\ Append(q, x) \in Seq(S)
         /\ \A y : y \in ToSet(Append(q, x)) <=> y \in ToSet(q) \/ y = x
<1>1. /\ Append(q, x) \in Seq(S) /\ Len(Append(q, x)) = Len(q) + 1
      /\ \A i \in 1..Len(q) : Append(q, x)[i] = q[i]
      /\ Append(q, x)[Len(q) + 1] = x
  OBVIOUS
<1>2. ASSUME NEW y, y \in ToSet(q)
      PROVE  y \in ToSet(Append(q, x))
  <2>1. PICK i \in 1..Len(q) : y = q[i]
    BY <1>2 DEF ToSet
  <2>2. i \in 1..Len(Append(q, x)) /\ Append(q, x)[i] = y
    BY <1>1, <2>1
  <2> QED
    BY <1>1, <2>2 DEF ToSet
<1>3. x \in ToSet(Append(q, x))
  <2>1. Len(q) + 1 \in 1..Len(Append(q, x))
    BY <1>1
  <2> QED
    BY <1>1, <2>1 DEF ToSet
<1>4. ASSUME NEW y, y \in ToSet(Append(q, x)), y # x
      PROVE  y \in ToSet(q)
  <2>1. PICK i \in 1..Len(Append(q, x)) : y = Append(q, x)[i]
    BY <1>1, <1>4 DEF ToSet
  <2>2. i \in 1..Len(q)
    BY <1>1, <1>4, <2>1
  <2> QED
    BY <1>1, <2>1, <2>2 DEF ToSet
<1> QED
  BY <1>1, <1>2, <1>3, <1>4

\* Showing one takes the first of them.
LEMMA ToSetTail ==
  ASSUME NEW S, NEW q \in Seq(S), q # <<>>
  PROVE  /\ Tail(q) \in Seq(S) /\ Head(q) \in S /\ Head(q) \in ToSet(q)
         /\ \A y \in ToSet(Tail(q)) : y \in ToSet(q)
<1>1. /\ Tail(q) \in Seq(S) /\ Len(Tail(q)) = Len(q) - 1 /\ Len(q) > 0
      /\ \A i \in 1..(Len(q) - 1) : Tail(q)[i] = q[i + 1]
      /\ Head(q) = q[1] /\ Head(q) \in S
  OBVIOUS
<1>2. Head(q) \in ToSet(q)
  <2>1. 1 \in 1..Len(q)
    BY <1>1
  <2> QED
    BY <1>1, <2>1 DEF ToSet
<1>3. ASSUME NEW y \in ToSet(Tail(q))
      PROVE  y \in ToSet(q)
  <2>1. PICK i \in 1..Len(Tail(q)) : y = Tail(q)[i]
    BY <1>1, <1>3 DEF ToSet
  <2>2. i + 1 \in 1..Len(q) /\ y = q[i + 1]
    BY <1>1, <2>1
  <2> QED
    BY <2>2 DEF ToSet
<1> QED
  BY <1>1, <1>2, <1>3

\* An empty queue holds nothing.
LEMMA ToSetEmpty == ToSet(<<>>) = {}
  BY DEF ToSet

-----------------------------------------------------------------------------
(* Where the threads are *)

\* After the callbacks have been cleared, until the next bring-up.
CallsAreOver == {"unset", "disabled", "taken", "idle"}

(***************************************************************************)
(* The supervisor's place tells what the callbacks can be doing, who holds *)
(* the mutex, and what there is.                                           *)
(***************************************************************************)
PlaceInv ==
  /\ work.pc # "idle" <=> work.frame # None
  /\ cb.pc = "entered" <=> cb.frame # None
  /\ work.pc # "idle" =>
       cb.pc = "schedules" \/ (sup = "preroll" /\ cb.pc \in {"idle", "stale"})
  /\ sup \in {"idle", "preroll"} => cb.pc \in {"idle", "stale"} /\ ~runs
  /\ cb.pc = "schedules" <=> lock = "cb"
  /\ audio = "schedules" <=> lock = "audio"
  /\ lock # "sup"
  /\ owned <=> sup \notin {"idle", "taken"}
  /\ playing <=> sup = "playing"
  /\ cb.pc = "schedules" \/ audio = "schedules" => owned
  /\ session = "none" <=> sup = "idle"
  /\ session = "off" <=> sup \in {"disabled", "taken"}
  /\ sup \in CallsAreOver => ~registered /\ (drains => cb.pc = "idle" /\ audio = "idle")
  /\ drains => cb.pc # "stale" /\ audio # "stale"
  /\ session # "up" => queue = <<>>

\* The places are kept.
LEMMA NextPlaces == TypeOK /\ PlaceInv /\ [Next]_vars => PlaceInv'
<1> SUFFICES ASSUME TypeOK, PlaceInv, [Next]_vars PROVE PlaceInv'
  OBVIOUS
<1> USE SessionAssumption DEF TypeOK, PlaceInv, CallsAreOver, Idle, CallSteps, card, lists,
                              channel, history
<1>1. CASE AcquireFrame
  BY <1>1 DEF AcquireFrame, MaySchedule, Live
<1>2. CASE AcquireFails
  BY <1>2 DEF AcquireFails, MaySchedule, Scheduled
<1>3. CASE Register
  BY <1>3 DEF Register
<1>4. CASE Submit
  BY <1>4 DEF Submit
<1>5. CASE SubmitFails
  BY <1>5 DEF SubmitFails, Scheduled
<1>6. CASE Keep
  BY <1>6 DEF Keep, Scheduled
<1>7. CASE CardCompletes
  BY <1>7 DEF CardCompletes
<1>8. CASE ScheduledFrameCompleted
  BY <1>8 DEF ScheduledFrameCompleted
<1>9. CASE FrameCompleted
  BY <1>9 DEF FrameCompleted
<1>10. CASE StaleCallEnds
  BY <1>10 DEF StaleCallEnds
<1>11. CASE CardWantsSamples
  BY <1>11 DEF CardWantsSamples
<1>12. CASE RenderAudio
  BY <1>12 DEF RenderAudio
<1>13. CASE ScheduleAudio
  BY <1>13 DEF ScheduleAudio
<1>14. CASE Enable
  BY <1>14 DEF Enable
<1>15. CASE EnableFails
  BY <1>15 DEF EnableFails
<1>16. CASE StartPlayback
  BY <1>16 DEF StartPlayback
<1>17. CASE BringUpFails
  BY <1>17 DEF BringUpFails
<1>18. CASE SetPlaying
  BY <1>18 DEF SetPlaying
<1>19. CASE TearDown
  BY <1>19 DEF TearDown
<1>20. CASE StopPlayback
  BY <1>20 DEF StopPlayback
<1>21. CASE Unset
  BY <1>21 DEF Unset
<1>22. CASE Disable
  BY <1>22 DEF Disable
<1>23. CASE TakeSession
  BY <1>23 DEF TakeSession
<1>24. CASE FreeSession
  BY <1>24 DEF FreeSession
<1>25. CASE UNCHANGED vars
  BY <1>25 DEF vars
<1> QED
  BY <1>1, <1>2, <1>3, <1>4, <1>5, <1>6, <1>7, <1>8, <1>9, <1>10, <1>11, <1>12, <1>13,
     <1>14, <1>15, <1>16, <1>17, <1>18, <1>19, <1>20, <1>21, <1>22, <1>23, <1>24, <1>25
     DEF Next, Schedule, VideoCall, AudioCall, TearingDown

\* The types are kept.
LEMMA NextTypes == TypeOK /\ PlaceInv /\ [Next]_vars => TypeOK'
<1> SUFFICES ASSUME TypeOK, PlaceInv, [Next]_vars PROVE TypeOK'
  OBVIOUS
<1> USE SessionAssumption DEF TypeOK, PlaceInv, Idle, CallSteps, card, lists, channel, history
<1>1. CASE AcquireFrame
  BY <1>1 DEF AcquireFrame, MaySchedule, Live
<1>2. CASE AcquireFails
  BY <1>2 DEF AcquireFails, MaySchedule, Scheduled
<1>3. CASE Register
  <2>1. nextId \in 0..MaxIds /\ nextId' \in 1..(MaxIds + 1)
    BY <1>3 DEF Register
  <2>2. work' \in [pc : {"idle", "copies", "submits", "keeps"}, frame : Frames \cup {None},
                  id : 0..MaxIds]
    BY <1>3, <2>1 DEF Register
  <2>3. inFlight' \in [Frames -> 0..MaxIds]
    BY <1>3, <2>1 DEF Register
  <2> QED
    BY <1>3, <2>1, <2>2, <2>3 DEF Register
<1>4. CASE Submit
  <2>1. work.frame \in Frames
    BY <1>4 DEF Submit
  <2>2. queue' \in Seq(Frames)
    BY <1>4, <2>1, ToSetAppend DEF Submit
  <2>3. work' \in [pc : {"idle", "copies", "submits", "keeps"}, frame : Frames \cup {None},
                  id : 0..MaxIds]
    BY <1>4 DEF Submit
  <2> QED
    BY <1>4, <2>2, <2>3 DEF Submit
<1>5. CASE SubmitFails
  BY <1>5 DEF SubmitFails, Scheduled
<1>6. CASE Keep
  BY <1>6 DEF Keep, Scheduled
<1>7. CASE CardCompletes
  BY <1>7 DEF CardCompletes
<1>8. CASE ScheduledFrameCompleted
  BY <1>8 DEF ScheduledFrameCompleted
<1>9. CASE FrameCompleted
  <2>1. cb' = Idle \/ cb' = [cb EXCEPT !.pc = "schedules"]
    BY <1>9 DEF FrameCompleted
  <2>2. cb' \in [pc : CallSteps, frame : Frames \cup {None}, id : 0..MaxIds]
    <3>1. Idle \in [pc : CallSteps, frame : Frames \cup {None}, id : 0..MaxIds]
      OBVIOUS
    <3>2. [cb EXCEPT !.pc = "schedules"] \in
            [pc : CallSteps, frame : Frames \cup {None}, id : 0..MaxIds]
      OBVIOUS
    <3> QED
      BY <2>1, <3>1, <3>2
  <2>3. early' \in Nat
    BY <1>9 DEF FrameCompleted
  <2> QED
    BY <1>9, <2>2, <2>3 DEF FrameCompleted
<1>10. CASE StaleCallEnds
  BY <1>10 DEF StaleCallEnds
<1>11. CASE CardWantsSamples
  BY <1>11 DEF CardWantsSamples
<1>12. CASE RenderAudio
  BY <1>12 DEF RenderAudio
<1>13. CASE ScheduleAudio
  BY <1>13 DEF ScheduleAudio
<1>14. CASE Enable
  <2>1. queue' \in Seq(Frames) /\ sessions' \in 0..MaxSessions
    BY <1>14 DEF Enable
  <2>2. nextId' \in 1..(MaxIds + 1) /\ reported' \in 0..MaxIds /\ early' \in Nat /\ refused' \in Nat
    BY <1>14 DEF Enable
  <2> QED
    BY <1>14, <2>1, <2>2 DEF Enable
<1>15. CASE EnableFails
  <2>1. queue' \in Seq(Frames) /\ sessions' \in 0..MaxSessions
    BY <1>15 DEF EnableFails
  <2>2. nextId' \in 1..(MaxIds + 1) /\ reported' \in 0..MaxIds /\ early' \in Nat /\ refused' \in Nat
    BY <1>15 DEF EnableFails
  <2> QED
    BY <1>15, <2>1, <2>2 DEF EnableFails
<1>16. CASE StartPlayback
  BY <1>16 DEF StartPlayback
<1>17. CASE BringUpFails
  BY <1>17 DEF BringUpFails
<1>18. CASE SetPlaying
  BY <1>18 DEF SetPlaying
<1>19. CASE TearDown
  BY <1>19 DEF TearDown
<1>20. CASE StopPlayback
  BY <1>20 DEF StopPlayback
<1>21. CASE Unset
  BY <1>21 DEF Unset
<1>22. CASE Disable
  <2>1. queue' \in Seq(Frames) /\ inFlight' \in [Frames -> 0..MaxIds]
    BY <1>22 DEF Disable
  <2> QED
    BY <1>22, <2>1 DEF Disable
<1>23. CASE TakeSession
  BY <1>23 DEF TakeSession
<1>24. CASE FreeSession
  <2>1. cb' \in [pc : CallSteps, frame : Frames \cup {None}, id : 0..MaxIds]
    BY <1>24 DEF FreeSession
  <2>2. queue' \in Seq(Frames) /\ inFlight' \in [Frames -> 0..MaxIds]
    BY <1>24 DEF FreeSession
  <2> QED
    BY <1>24, <2>1, <2>2 DEF FreeSession
<1>25. CASE UNCHANGED vars
  BY <1>25 DEF vars
<1> QED
  BY <1>1, <1>2, <1>3, <1>4, <1>5, <1>6, <1>7, <1>8, <1>9, <1>10, <1>11, <1>12, <1>13,
     <1>14, <1>15, <1>16, <1>17, <1>18, <1>19, <1>20, <1>21, <1>22, <1>23, <1>24, <1>25
     DEF Next, Schedule, VideoCall, AudioCall, TearingDown

\* The initial state.
LEMMA InitPlaces == Init => TypeOK /\ PlaceInv
<1> SUFFICES ASSUME Init PROVE TypeOK /\ PlaceInv
  OBVIOUS
<1>1. PlaceInv
  BY DEF Init, PlaceInv, Idle, CallsAreOver
<1>2. /\ Idle \in [pc : {"idle", "copies", "submits", "keeps"}, frame : Frames \cup {None}, id : 0..MaxIds]
      /\ Idle \in [pc : CallSteps, frame : Frames \cup {None}, id : 0..MaxIds]
  BY SessionAssumption DEF Idle, CallSteps
<1>3. /\ queue \in Seq(Frames) /\ inFlight \in [Frames -> 0..MaxIds] /\ nextId \in 1..(MaxIds + 1)
      /\ sessions \in 0..MaxSessions /\ reported \in 0..MaxIds /\ early \in Nat /\ refused \in Nat
  BY SessionAssumption DEF Init
<1> QED
  BY <1>1, <1>2, <1>3 DEF Init, TypeOK, CallSteps

(***************************************************************************)
(* Every reachable state is well typed, for any frames and any preroll.    *)
(***************************************************************************)
THEOREM SessionTypes == Spec => [](TypeOK /\ PlaceInv)
<1>1. Init => TypeOK /\ PlaceInv
  BY InitPlaces
<1>2. TypeOK /\ PlaceInv /\ [Next]_vars => TypeOK' /\ PlaceInv'
  BY NextTypes, NextPlaces
<1> QED
  BY <1>1, <1>2, PTL DEF Spec

(***************************************************************************)
(* A callback in the channel keeps its session until it ends, and when     *)
(* clearing the callbacks waits for the running ones, none is left with a  *)
(* freed session (tearDownStreaming, SdkPlaybackSession::disable).         *)
(***************************************************************************)
THEOREM TearDownSafe == Spec => []TearDownIsSafe
<1>1. PlaceInv => TearDownIsSafe
  BY DEF PlaceInv, TearDownIsSafe, ChannelHasSession, CallsOutlived
<1> QED
  BY <1>1, SessionTypes, PTL

-----------------------------------------------------------------------------
(* Frames *)

(***************************************************************************)
(* A frame is in one place: in the pool, at the card, with scheduleFrame   *)
(* or with the completion that the card is reporting.                      *)
(***************************************************************************)
FrameInv ==
  /\ \A f \in pool : f \notin ToSet(queue)
  /\ work.pc # "idle" => work.frame \notin pool
  /\ work.pc \in {"copies", "submits"} => work.frame \notin ToSet(queue)
  /\ cb.pc = "entered" => cb.frame \notin pool /\ cb.frame \notin ToSet(queue)

(***************************************************************************)
(* The frames at the card have ids that grow along the queue, from above   *)
(* the last one reported to below the next one given out; in between are,  *)
(* at the front, the frame being reported and, at the end, the one being   *)
(* submitted.                                                              *)
(***************************************************************************)
OrderInv ==
  session = "up" =>
    /\ reported < nextId
    /\ \A i \in 1..Len(queue) : reported < inFlight[queue[i]] /\ inFlight[queue[i]] < nextId
    /\ \A i, j \in 1..Len(queue) : i < j => inFlight[queue[i]] < inFlight[queue[j]]
    /\ cb.pc = "entered" =>
         /\ reported < inFlight[cb.frame] /\ inFlight[cb.frame] < nextId
         /\ \A i \in 1..Len(queue) : inFlight[cb.frame] < inFlight[queue[i]]
    /\ work.pc = "submits" =>
         /\ reported < inFlight[work.frame] /\ inFlight[work.frame] < nextId
         /\ \A i \in 1..Len(queue) : inFlight[queue[i]] < inFlight[work.frame]

\* Frames stay in one place.
LEMMA NextFrames == TypeOK /\ PlaceInv /\ FrameInv /\ OrderInv /\ [Next]_vars => FrameInv'
<1> SUFFICES ASSUME TypeOK, PlaceInv, FrameInv, OrderInv, [Next]_vars PROVE FrameInv'
  OBVIOUS
<1> USE SessionAssumption DEF TypeOK, PlaceInv, FrameInv, Idle, CallSteps, card, lists,
                              channel, history
<1>1. CASE AcquireFrame
  BY <1>1 DEF AcquireFrame, MaySchedule, Live
<1>2. CASE AcquireFails
  BY <1>2 DEF AcquireFails, MaySchedule, Scheduled
<1>3. CASE Register
  BY <1>3 DEF Register
<1>4. CASE Submit
  <2>1. work.frame \in Frames
    BY <1>4 DEF Submit
  <2>2. \A y : y \in ToSet(queue') <=> y \in ToSet(queue) \/ y = work.frame
    BY <1>4, <2>1, ToSetAppend DEF Submit
  <2> QED
    BY <1>4, <2>1, <2>2 DEF Submit
<1>5. CASE SubmitFails
  BY <1>5 DEF SubmitFails, Scheduled
<1>6. CASE Keep
  BY <1>6 DEF Keep, Scheduled
<1>7. CASE CardCompletes
  <2>1. /\ Head(queue) \in Frames /\ Head(queue) \in ToSet(queue)
        /\ \A y \in ToSet(queue') : y \in ToSet(queue)
    BY <1>7, ToSetTail DEF CardCompletes
  <2>2. ASSUME Head(queue) \in ToSet(queue')
        PROVE  FALSE
    <3>1. /\ Len(queue) > 0 /\ Len(Tail(queue)) = Len(queue) - 1 /\ Head(queue) = queue[1]
          /\ \A i \in 1..(Len(queue) - 1) : Tail(queue)[i] = queue[i + 1]
          /\ Tail(queue) \in Seq(Frames)
      BY <1>7 DEF CardCompletes
    <3>2. PICK i \in 1..Len(Tail(queue)) : Head(queue) = Tail(queue)[i]
      BY <1>7, <2>2, <3>1 DEF CardCompletes, ToSet
    <3>3. 1 \in 1..Len(queue) /\ i + 1 \in 1..Len(queue) /\ 1 < i + 1 /\ queue[1] = queue[i + 1]
      BY <3>1, <3>2
    <3>4. queue[1] \in Frames /\ inFlight[queue[1]] \in Nat
      BY <3>1, <3>3
    <3>5. session = "up"
      BY <1>7 DEF CardCompletes
    <3> QED
      BY <3>3, <3>4, <3>5 DEF OrderInv
  <2>3. Head(queue) \notin pool
    BY <2>1
  <2> QED
    BY <1>7, <2>1, <2>2, <2>3 DEF CardCompletes
<1>8. CASE ScheduledFrameCompleted
  BY <1>8 DEF ScheduledFrameCompleted
<1>9. CASE FrameCompleted
  BY <1>9 DEF FrameCompleted
<1>10. CASE StaleCallEnds
  BY <1>10 DEF StaleCallEnds
<1>11. CASE CardWantsSamples
  BY <1>11 DEF CardWantsSamples
<1>12. CASE RenderAudio
  BY <1>12 DEF RenderAudio
<1>13. CASE ScheduleAudio
  BY <1>13 DEF ScheduleAudio
<1>14. CASE Enable
  BY <1>14, ToSetEmpty DEF Enable
<1>15. CASE EnableFails
  BY <1>15, ToSetEmpty DEF EnableFails
<1>16. CASE StartPlayback
  BY <1>16 DEF StartPlayback
<1>17. CASE BringUpFails
  BY <1>17 DEF BringUpFails
<1>18. CASE SetPlaying
  BY <1>18 DEF SetPlaying
<1>19. CASE TearDown
  BY <1>19 DEF TearDown
<1>20. CASE StopPlayback
  BY <1>20 DEF StopPlayback
<1>21. CASE Unset
  BY <1>21 DEF Unset
<1>22. CASE Disable
  BY <1>22, ToSetEmpty DEF Disable
<1>23. CASE TakeSession
  BY <1>23 DEF TakeSession
<1>24. CASE FreeSession
  BY <1>24, ToSetEmpty DEF FreeSession
<1>25. CASE UNCHANGED vars
  BY <1>25 DEF vars
<1> QED
  BY <1>1, <1>2, <1>3, <1>4, <1>5, <1>6, <1>7, <1>8, <1>9, <1>10, <1>11, <1>12, <1>13,
     <1>14, <1>15, <1>16, <1>17, <1>18, <1>19, <1>20, <1>21, <1>22, <1>23, <1>24, <1>25
     DEF Next, Schedule, VideoCall, AudioCall, TearingDown

\* Ids stay in order.
LEMMA NextOrder == TypeOK /\ PlaceInv /\ FrameInv /\ OrderInv /\ [Next]_vars => OrderInv'
<1> SUFFICES ASSUME TypeOK, PlaceInv, FrameInv, OrderInv, [Next]_vars PROVE OrderInv'
  OBVIOUS
<1> USE SessionAssumption DEF TypeOK, PlaceInv, OrderInv, Idle, CallSteps, card, lists,
                              channel, history
<1>1. CASE AcquireFrame
  BY <1>1 DEF AcquireFrame, MaySchedule, Live
<1>2. CASE AcquireFails
  BY <1>2 DEF AcquireFails, MaySchedule, Scheduled
<1>3. CASE Register
  <2>1. \A i \in 1..Len(queue) : queue[i] \in Frames /\ queue[i] \in ToSet(queue)
    BY DEF ToSet
  <2>2. work.frame \in Frames /\ work.frame \notin ToSet(queue)
    BY <1>3 DEF Register, FrameInv
  <2>3. /\ \A i \in 1..Len(queue) : inFlight'[queue[i]] = inFlight[queue[i]]
        /\ inFlight'[work.frame] = nextId
    BY <1>3, <2>1, <2>2 DEF Register
  <2>4. cb.pc # "entered" /\ nextId' = nextId + 1 /\ work'.frame = work.frame
    BY <1>3 DEF Register
  <2>5. \A i \in 1..Len(queue) : inFlight[queue[i]] \in Nat
    BY <2>1
  <2>6. UNCHANGED <<session, reported, queue, cb>> /\ nextId \in Nat /\ reported \in Nat
    BY <1>3 DEF Register
  <2> SUFFICES ASSUME session = "up"
               PROVE  OrderInv'
    BY <2>6
  <2>7. reported' < nextId' /\ reported < nextId
    BY <2>4, <2>6
  <2>8. \A i \in 1..Len(queue) :
          reported' < inFlight'[queue[i]] /\ inFlight'[queue[i]] < nextId'
    BY <2>3, <2>4, <2>5, <2>6
  <2>9. \A i, j \in 1..Len(queue) : i < j => inFlight'[queue[i]] < inFlight'[queue[j]]
    BY <2>3
  <2>10. inFlight'[work'.frame] = nextId
    BY <2>3, <2>4
  <2>11. reported' < nextId /\ nextId < nextId'
    BY <2>4, <2>6, <2>7
  <2>12. \A i \in 1..Len(queue) : inFlight'[queue[i]] < nextId
    BY <2>3
  <2> QED
    BY <2>4, <2>6, <2>7, <2>8, <2>9, <2>10, <2>11, <2>12
<1>4. CASE Submit
  <2>1. work.frame \in Frames /\ session = "up" /\ cb.pc # "entered"
    BY <1>4 DEF Submit
  <2>2. /\ Len(queue') = Len(queue) + 1 /\ queue'[Len(queue) + 1] = work.frame
        /\ \A i \in 1..Len(queue) : queue'[i] = queue[i]
    BY <1>4, <2>1 DEF Submit
  <2>3. \A i \in 1..Len(queue') : i \in 1..Len(queue) \/ i = Len(queue) + 1
    BY <2>2
  <2>4. UNCHANGED <<session, reported, nextId, inFlight, cb>> /\ work'.pc = "keeps"
    BY <1>4 DEF Submit
  <2>5. \A i \in 1..Len(queue') :
          reported < inFlight[queue'[i]] /\ inFlight[queue'[i]] < nextId
    BY <1>4, <2>1, <2>2, <2>3 DEF Submit
  <2>6. \A i, j \in 1..Len(queue') : i < j => inFlight[queue'[i]] < inFlight[queue'[j]]
    <3> SUFFICES ASSUME NEW i \in 1..Len(queue'), NEW j \in 1..Len(queue'), i < j
                 PROVE  inFlight[queue'[i]] < inFlight[queue'[j]]
      OBVIOUS
    <3>1. i \in 1..Len(queue) /\ queue'[i] = queue[i]
      BY <2>2, <2>3
    <3>2. CASE j \in 1..Len(queue)
      BY <2>1, <2>2, <3>1, <3>2
    <3>3. CASE j = Len(queue) + 1
      BY <1>4, <2>1, <2>2, <3>1, <3>3 DEF Submit
    <3> QED
      BY <2>3, <3>2, <3>3
  <2> QED
    BY <2>1, <2>4, <2>5, <2>6
<1>5. CASE SubmitFails
  <2>1. \A i \in 1..Len(queue) : queue[i] \in Frames /\ queue[i] \in ToSet(queue)
    BY DEF ToSet
  <2>2. work.frame \notin ToSet(queue)
    BY <1>5 DEF SubmitFails, FrameInv
  <2>3. \A i \in 1..Len(queue) : inFlight'[queue[i]] = inFlight[queue[i]]
    BY <1>5, <2>1, <2>2 DEF SubmitFails
  <2>4. cb'.pc # "entered" /\ work'.pc = "idle"
    BY <1>5 DEF SubmitFails, Scheduled
  <2> QED
    BY <1>5, <2>3, <2>4 DEF SubmitFails
<1>6. CASE Keep
  BY <1>6 DEF Keep, Scheduled
<1>7. CASE CardCompletes
  BY <1>7 DEF CardCompletes
<1>8. CASE ScheduledFrameCompleted
  BY <1>8 DEF ScheduledFrameCompleted
<1>9. CASE FrameCompleted
  BY <1>9 DEF FrameCompleted
<1>10. CASE StaleCallEnds
  BY <1>10 DEF StaleCallEnds
<1>11. CASE CardWantsSamples
  BY <1>11 DEF CardWantsSamples
<1>12. CASE RenderAudio
  BY <1>12 DEF RenderAudio
<1>13. CASE ScheduleAudio
  BY <1>13 DEF ScheduleAudio
<1>14. CASE Enable
  BY <1>14 DEF Enable
<1>15. CASE EnableFails
  BY <1>15 DEF EnableFails
<1>16. CASE StartPlayback
  BY <1>16 DEF StartPlayback
<1>17. CASE BringUpFails
  BY <1>17 DEF BringUpFails
<1>18. CASE SetPlaying
  BY <1>18 DEF SetPlaying
<1>19. CASE TearDown
  BY <1>19 DEF TearDown
<1>20. CASE StopPlayback
  BY <1>20 DEF StopPlayback
<1>21. CASE Unset
  BY <1>21 DEF Unset
<1>22. CASE Disable
  BY <1>22 DEF Disable
<1>23. CASE TakeSession
  BY <1>23 DEF TakeSession
<1>24. CASE FreeSession
  BY <1>24 DEF FreeSession
<1>25. CASE UNCHANGED vars
  BY <1>25 DEF vars
<1> QED
  BY <1>1, <1>2, <1>3, <1>4, <1>5, <1>6, <1>7, <1>8, <1>9, <1>10, <1>11, <1>12, <1>13,
     <1>14, <1>15, <1>16, <1>17, <1>18, <1>19, <1>20, <1>21, <1>22, <1>23, <1>24, <1>25
     DEF Next, Schedule, VideoCall, AudioCall, TearingDown

\* The whole invariant.
SessionInv == TypeOK /\ PlaceInv /\ FrameInv /\ OrderInv

\* It holds in every reachable state.
LEMMA SessionInvariant == Spec => []SessionInv
<1>1. Init => SessionInv
  <2>1. Init => FrameInv
    BY ToSetEmpty DEF Init, FrameInv, Idle
  <2>2. Init => OrderInv
    BY DEF Init, OrderInv
  <2> QED
    BY <2>1, <2>2, InitPlaces DEF SessionInv
<1>2. SessionInv /\ [Next]_vars => SessionInv'
  BY NextTypes, NextPlaces, NextFrames, NextOrder DEF SessionInv
<1> QED
  BY <1>1, <1>2, PTL DEF Spec

(***************************************************************************)
(* A frame that the card holds or that is being filled is not in the pool: *)
(* no picture is overwritten on air (acquireFrame).                        *)
(***************************************************************************)
THEOREM NoFrameOverwritten == Spec => []PoolIsFree
<1>1. SessionInv => PoolIsFree
  BY SessionAssumption DEF SessionInv, TypeOK, PlaceInv, FrameInv, PoolIsFree
<1> QED
  BY <1>1, SessionInvariant, PTL

(***************************************************************************)
(* While the session is up, completions are reported once and in the order *)
(* of the schedule (ScheduledFrameCompleted).                              *)
(***************************************************************************)
THEOREM CompletionsInOrder == Spec => ReportsInOrder
<1>1. SessionInv /\ [Next]_vars =>
        [cb.pc = "entered" /\ cb'.pc = "reports" /\ session = "up" => cb'.id > reported]_vars
  <2> SUFFICES ASSUME SessionInv, [Next]_vars, cb.pc = "entered", cb'.pc = "reports", session = "up"
               PROVE  cb'.id > reported
    OBVIOUS
  <2>1. reported < inFlight[cb.frame]
    BY DEF SessionInv, OrderInv
  <2>2. work.pc = "idle"
    BY DEF SessionInv, PlaceInv
  <2>3. ScheduledFrameCompleted => cb'.id = inFlight[cb.frame]
    BY DEF ScheduledFrameCompleted
  <2>4. cb' # cb
    OBVIOUS
  <2>5. Next => ScheduledFrameCompleted
    <3>1. sup # "preroll" /\ ~MaySchedule
      BY DEF SessionInv, PlaceInv, MaySchedule
    <3>2. ~Schedule
      BY <2>2, <3>1 DEF Schedule, AcquireFrame, AcquireFails, Register, Submit, SubmitFails, Keep
    <3>3. ~FrameCompleted /\ ~CardCompletes
      BY DEF FrameCompleted, CardCompletes
    <3>4. ~StaleCallEnds /\ ~FreeSession
      BY DEF StaleCallEnds, FreeSession, Idle
    <3>5. ~AudioCall /\ ~CardWantsSamples
      BY <2>4 DEF AudioCall, RenderAudio, ScheduleAudio, CardWantsSamples
    <3>6. ~(StopPlayback \/ Unset \/ Disable \/ TakeSession)
      BY <2>4 DEF StopPlayback, Unset, Disable, TakeSession
    <3>7. ~(Enable \/ EnableFails \/ StartPlayback \/ BringUpFails \/ SetPlaying \/ TearDown)
      BY <2>4 DEF Enable, EnableFails, StartPlayback, BringUpFails, SetPlaying, TearDown
    <3> QED
      BY <3>2, <3>3, <3>4, <3>5, <3>6, <3>7 DEF Next, VideoCall, TearingDown
  <2>6. reported \in Nat /\ inFlight[cb.frame] \in Nat
    BY SessionAssumption DEF SessionInv, TypeOK, PlaceInv
  <2> QED
    BY <2>1, <2>3, <2>4, <2>5, <2>6 DEF vars
<1> QED
  BY <1>1, SessionInvariant, PTL DEF Spec, ReportsInOrder

-----------------------------------------------------------------------------
(* How many frames there are *)

(***************************************************************************)
(* The lists of the session: _scheduled has what the card holds, but for   *)
(* the frame that scheduleFrame has just submitted; the frame of a         *)
(* completion is in the pool when its successor is scheduled; what is left *)
(* after DisableVideoOutput is with a call that is still running.          *)
(***************************************************************************)
ListInv ==
  /\ session = "up" => \A f \in ToSet(queue) : f \in scheduled \/ (work.pc = "keeps" /\ f = work.frame)
  /\ session = "up" /\ cb.pc = "entered" => cb.frame \in scheduled
  /\ session = "up" /\ cb.pc = "reports" => pool # {}
  /\ session = "up" /\ cb.pc = "schedules" /\ work.pc = "idle" => pool # {}
  /\ session = "off" /\ cb.pc = "schedules" => scheduled = {}
  /\ sup = "idle" => pool = {} /\ scheduled = {}
  /\ sup = "preroll" => \A f \in scheduled : f \in ToSet(queue)
  /\ sup = "preroll" /\ work.pc = "keeps" => work.frame \in ToSet(queue)

\* The lists are kept.
LEMMA NextLists == TypeOK /\ PlaceInv /\ FrameInv /\ ListInv /\ [Next]_vars => ListInv'
<1> SUFFICES ASSUME TypeOK, PlaceInv, FrameInv, ListInv, [Next]_vars PROVE ListInv'
  OBVIOUS
<1> USE SessionAssumption DEF TypeOK, PlaceInv, ListInv, Idle, CallSteps, card, lists,
                              channel, history
<1>1. CASE AcquireFrame
  BY <1>1 DEF AcquireFrame, MaySchedule, Live
<1>2. CASE AcquireFails
  BY <1>2 DEF AcquireFails, MaySchedule, Scheduled
<1>3. CASE Register
  BY <1>3 DEF Register
<1>4. CASE Submit
  <2>1. work.frame \in Frames
    BY <1>4 DEF Submit
  <2>2. \A y : y \in ToSet(queue') <=> y \in ToSet(queue) \/ y = work.frame
    BY <1>4, <2>1, ToSetAppend DEF Submit
  <2> QED
    BY <1>4, <2>1, <2>2 DEF Submit
<1>5. CASE SubmitFails
  BY <1>5 DEF SubmitFails, Scheduled
<1>6. CASE Keep
  BY <1>6 DEF Keep, Scheduled
<1>7. CASE CardCompletes
  <2>1. /\ Head(queue) \in ToSet(queue)
        /\ \A y \in ToSet(queue') : y \in ToSet(queue)
    BY <1>7, ToSetTail DEF CardCompletes
  <2>2. work.pc = "idle" /\ sup # "preroll" /\ session = "up"
    BY <1>7 DEF CardCompletes
  <2> QED
    BY <1>7, <2>1, <2>2 DEF CardCompletes
<1>8. CASE ScheduledFrameCompleted
  <2>1. sup # "preroll" /\ sup # "idle" /\ work.pc = "idle"
    BY <1>8 DEF ScheduledFrameCompleted
  <2>2. cb'.pc = "reports" /\ UNCHANGED <<session, sup, queue, work>>
    BY <1>8 DEF ScheduledFrameCompleted
  <2>3. session = "up" => pool' # {}
    BY <1>8 DEF ScheduledFrameCompleted
  <2>4. session = "up" => \A f \in ToSet(queue) : f \in scheduled'
    BY <1>8, <2>1 DEF ScheduledFrameCompleted, FrameInv
  <2> QED
    BY <2>1, <2>2, <2>3, <2>4
<1>9. CASE FrameCompleted
  BY <1>9 DEF FrameCompleted
<1>10. CASE StaleCallEnds
  BY <1>10 DEF StaleCallEnds
<1>11. CASE CardWantsSamples \/ RenderAudio \/ ScheduleAudio
  BY <1>11 DEF CardWantsSamples, RenderAudio, ScheduleAudio
<1>12. CASE Enable \/ EnableFails
  BY <1>12, ToSetEmpty DEF Enable, EnableFails
<1>13. CASE StartPlayback \/ BringUpFails \/ SetPlaying \/ TearDown
  BY <1>13 DEF StartPlayback, BringUpFails, SetPlaying, TearDown
<1>14. CASE StopPlayback \/ Unset \/ TakeSession
  BY <1>14 DEF StopPlayback, Unset, TakeSession
<1>15. CASE Disable
  BY <1>15 DEF Disable
<1>16. CASE FreeSession
  BY <1>16 DEF FreeSession
<1>17. CASE UNCHANGED vars
  BY <1>17 DEF vars
<1> QED
  BY <1>1, <1>2, <1>3, <1>4, <1>5, <1>6, <1>7, <1>8, <1>9, <1>10, <1>11, <1>12, <1>13,
     <1>14, <1>15, <1>16, <1>17
     DEF Next, Schedule, VideoCall, AudioCall, TearingDown

\* A queue has at most as many frames as its length.
LEMMA ToSetBound ==
  ASSUME NEW S, NEW q \in Seq(S)
  PROVE  IsFiniteSet(ToSet(q)) /\ Cardinality(ToSet(q)) <= Len(q)
<1>1. Len(q) \in Nat /\ q \in [1..Len(q) -> S]
  OBVIOUS
<1>2. IsFiniteSet(1..Len(q)) /\ Cardinality(1..Len(q)) = Len(q)
  BY <1>1, FS_Interval
<1>3. q \in Surjection(1..Len(q), ToSet(q))
  <2>1. \A i \in 1..Len(q) : q[i] \in ToSet(q)
    BY <1>1 DEF ToSet
  <2>2. q \in [1..Len(q) -> ToSet(q)]
    BY <1>1, <2>1
  <2>3. \A y \in ToSet(q) : \E i \in 1..Len(q) : q[i] = y
    BY <1>1 DEF ToSet
  <2> QED
    BY <2>2, <2>3 DEF Surjection
<1>4. IsFiniteSet(ToSet(q)) /\ Cardinality(ToSet(q)) <= Cardinality(1..Len(q))
  BY <1>2, <1>3, FS_Surjection
<1> QED
  BY <1>2, <1>4

\* A step makes no frame, but for acquireFrame with an empty pool.
NewFrame == work.pc = "idle" /\ pool = {} /\ AcquireFrame

\* Only acquireFrame with an empty pool brings a frame into use.
LEMMA OnlyNewFrames ==
  ASSUME TypeOK, PlaceInv, [Next]_vars, ~NewFrame
  PROVE  Live' \subseteq Live
<1> USE SessionAssumption DEF TypeOK, PlaceInv, Live, Idle, CallSteps, card, lists,
                              channel, history
<1>1. CASE AcquireFrame
  BY <1>1 DEF AcquireFrame, NewFrame
<1>2. CASE AcquireFails
  BY <1>2 DEF AcquireFails, Scheduled
<1>3. CASE Register
  BY <1>3 DEF Register
<1>4. CASE Submit
  <2>1. work.frame \in Frames /\ work.frame # None
    BY <1>4 DEF Submit
  <2>2. \A y : y \in ToSet(queue') <=> y \in ToSet(queue) \/ y = work.frame
    BY <1>4, <2>1, ToSetAppend DEF Submit
  <2> QED
    BY <1>4, <2>1, <2>2 DEF Submit
<1>5. CASE SubmitFails
  BY <1>5 DEF SubmitFails, Scheduled
<1>6. CASE Keep
  BY <1>6 DEF Keep, Scheduled
<1>7. CASE CardCompletes
  <2>1. /\ Head(queue) \in ToSet(queue)
        /\ \A y \in ToSet(queue') : y \in ToSet(queue)
    BY <1>7, ToSetTail DEF CardCompletes
  <2> QED
    BY <1>7, <2>1 DEF CardCompletes
<1>8. CASE ScheduledFrameCompleted
  BY <1>8 DEF ScheduledFrameCompleted
<1>9. CASE FrameCompleted
  BY <1>9 DEF FrameCompleted
<1>10. CASE StaleCallEnds
  BY <1>10 DEF StaleCallEnds
<1>11. CASE CardWantsSamples \/ RenderAudio \/ ScheduleAudio
  BY <1>11 DEF CardWantsSamples, RenderAudio, ScheduleAudio
<1>12. CASE Enable \/ EnableFails
  BY <1>12, ToSetEmpty DEF Enable, EnableFails
<1>13. CASE StartPlayback \/ BringUpFails \/ SetPlaying \/ TearDown
  BY <1>13 DEF StartPlayback, BringUpFails, SetPlaying, TearDown
<1>14. CASE StopPlayback \/ Unset \/ TakeSession
  BY <1>14 DEF StopPlayback, Unset, TakeSession
<1>15. CASE Disable
  BY <1>15, ToSetEmpty DEF Disable
<1>16. CASE FreeSession
  BY <1>16, ToSetEmpty DEF FreeSession
<1>17. CASE UNCHANGED vars
  BY <1>17 DEF vars
<1> QED
  BY <1>1, <1>2, <1>3, <1>4, <1>5, <1>6, <1>7, <1>8, <1>9, <1>10, <1>11, <1>12, <1>13,
     <1>14, <1>15, <1>16, <1>17
     DEF Next, Schedule, VideoCall, AudioCall, TearingDown

\* The frames in use are finitely many, and no more than the preroll.
CountInv == IsFiniteSet(Live) /\ Cardinality(Live) <= Preroll

\* acquireFrame makes one only while fewer than the preroll are in use: in the
\* preroll those at the card, and none once the output is off.
LEMMA NewFrameFits ==
  ASSUME TypeOK, PlaceInv, ListInv, NewFrame
  PROVE  CountInv'
<1> USE SessionAssumption
<1>1. PICK f \in Frames : work' = [pc |-> "copies", frame |-> f, id |-> 0]
  BY DEF NewFrame, AcquireFrame
<1>2. /\ UNCHANGED <<pool, scheduled, queue, cb>>
      /\ pool = {} /\ work.pc = "idle" /\ MaySchedule
  BY DEF NewFrame, AcquireFrame, card
<1>3. cb.frame = None
  BY <1>2 DEF MaySchedule, PlaceInv, TypeOK
<1>4. Live' = scheduled \cup ToSet(queue) \cup {f}
  BY <1>1, <1>2, <1>3 DEF Live
<1>5. CASE sup = "preroll" /\ Len(queue) < Preroll
  <2>1. Live' = ToSet(queue) \cup {f}
    BY <1>4, <1>5 DEF ListInv
  <2>2. queue \in Seq(Frames) /\ Len(queue) \in Nat
    BY DEF TypeOK
  <2>3. IsFiniteSet(ToSet(queue)) /\ Cardinality(ToSet(queue)) <= Len(queue)
    BY <2>2, ToSetBound
  <2>4. Cardinality(ToSet(queue)) \in Nat
    BY <2>3, FS_CardinalityType
  <2>5. /\ IsFiniteSet(ToSet(queue) \cup {f})
        /\ \/ Cardinality(ToSet(queue) \cup {f}) = Cardinality(ToSet(queue))
           \/ Cardinality(ToSet(queue) \cup {f}) = Cardinality(ToSet(queue)) + 1
    BY <2>3, FS_AddElement
  <2> HIDE DEF Live
  <2>6. Cardinality(Live') <= Preroll
    BY <1>5, <2>1, <2>2, <2>3, <2>4, <2>5
  <2> QED
    BY <2>1, <2>5, <2>6 DEF CountInv
<1>6. CASE cb.pc = "schedules" /\ sup # "preroll"
  <2>1. session = "off" /\ scheduled = {} /\ queue = <<>>
    BY <1>2, <1>6 DEF ListInv, PlaceInv, TypeOK
  <2>2. Live' = {f}
    BY <1>4, <2>1, ToSetEmpty
  <2>3. IsFiniteSet({f}) /\ Cardinality({f}) = 1
    BY FS_Singleton
  <2>4. IsFiniteSet(Live') /\ Cardinality(Live') = 1
    BY <2>2, <2>3
  <2> QED
    BY <2>4 DEF CountInv
<1>7. CASE cb.pc = "schedules" /\ sup = "preroll"
  BY <1>7 DEF PlaceInv
<1> QED
  BY <1>2, <1>5, <1>6, <1>7 DEF MaySchedule

\* The count is kept.
LEMMA NextCount == TypeOK /\ PlaceInv /\ ListInv /\ CountInv /\ [Next]_vars => CountInv'
<1> SUFFICES ASSUME TypeOK, PlaceInv, ListInv, CountInv, [Next]_vars PROVE CountInv'
  OBVIOUS
<1>1. CASE NewFrame
  BY <1>1, NewFrameFits
<1>2. CASE ~NewFrame
  <2>1. Live' \subseteq Live
    BY <1>2, OnlyNewFrames
  <2>2. IsFiniteSet(Live') /\ Cardinality(Live') <= Cardinality(Live)
    BY <2>1, FS_Subset DEF CountInv
  <2>3. Cardinality(Live') \in Nat /\ Cardinality(Live) \in Nat
    BY <2>2, FS_CardinalityType DEF CountInv
  <2> QED
    BY <2>2, <2>3, SessionAssumption DEF CountInv
<1> QED
  BY <1>1, <1>2

(***************************************************************************)
(* No picture is overwritten on air, and the session never needs more      *)
(* frames than the preroll (acquireFrame, ScheduledFrameCompleted): every  *)
(* frame comes back to the pool before its successor is scheduled.         *)
(***************************************************************************)
THEOREM EveryFrameAccounted == Spec => []FramesAccounted
<1> DEFINE I == SessionInv /\ ListInv /\ CountInv
<1>1. Init => ListInv /\ CountInv
  <2> SUFFICES ASSUME Init PROVE ListInv /\ CountInv
    OBVIOUS
  <2>1. Live = {}
    BY ToSetEmpty DEF Init, Live, Idle
  <2>2. CountInv
    BY <2>1, FS_EmptySet, SessionAssumption DEF CountInv
  <2>3. ListInv
    BY DEF Init, ListInv, Idle
  <2> QED
    BY <2>2, <2>3
<1>2. SessionInv /\ ListInv /\ CountInv /\ [Next]_vars => (ListInv /\ CountInv)'
  BY NextLists, NextCount DEF SessionInv
<1>3. SessionInv /\ CountInv => FramesAccounted
  BY SessionAssumption
     DEF SessionInv, TypeOK, PlaceInv, FrameInv, PoolIsFree, FramesAccounted, FramesBounded, CountInv
<1> QED
  BY <1>1, <1>2, <1>3, SessionInvariant, PTL DEF Spec

-----------------------------------------------------------------------------
(* The pipeline is kept *)

\* The frames that the card holds or that are on their way back to it.
Held == Len(queue)
OnTheWay == IF cb.pc \in {"idle", "stale"} \/ work.pc = "keeps" THEN 0 ELSE 1

(***************************************************************************)
(* From the start of the playback on, before _playing is set, a completion *)
(* is all that takes a frame from the pipeline.                            *)
(***************************************************************************)
PipeInv ==
  /\ sup \in {"preroll", "started", "playing"} => registered
  /\ sup \in {"started", "playing"} /\ ~reset /\ early = 0 /\ refused = 0 =>
       Held + OnTheWay = Preroll

\* The pipeline is kept.
LEMMA NextPipe == TypeOK /\ PlaceInv /\ PipeInv /\ [Next]_vars => PipeInv'
<1> SUFFICES ASSUME TypeOK, PlaceInv, PipeInv, [Next]_vars PROVE PipeInv'
  OBVIOUS
<1> USE SessionAssumption DEF TypeOK, PlaceInv, PipeInv, OnTheWay, Idle, CallSteps, card, lists,
                              channel, history
<1>0. Held \in Nat
  BY DEF Held
<1>1. CASE AcquireFrame
  BY <1>1 DEF AcquireFrame, Held
<1>2. CASE AcquireFails
  BY <1>2 DEF AcquireFails, MaySchedule, Scheduled, Held
<1>3. CASE Register
  BY <1>3 DEF Register, Held
<1>4. CASE Submit
  <2>1. Held' = Held + 1
    BY <1>4 DEF Submit, Held
  <2> QED
    BY <1>0, <1>4, <2>1 DEF Submit
<1>5. CASE SubmitFails
  BY <1>5 DEF SubmitFails, Scheduled, Held
<1>6. CASE Keep
  BY <1>6 DEF Keep, Scheduled, Held
<1>7. CASE CardCompletes
  <2>1. Held' = Held - 1 /\ Held > 0
    BY <1>7 DEF CardCompletes, Held
  <2> QED
    BY <1>0, <1>7, <2>1 DEF CardCompletes
<1>8. CASE ScheduledFrameCompleted
  BY <1>8 DEF ScheduledFrameCompleted, Held
<1>9. CASE FrameCompleted
  BY <1>9 DEF FrameCompleted, Held
<1>10. CASE StaleCallEnds
  BY <1>10 DEF StaleCallEnds, Held
<1>11. CASE CardWantsSamples \/ RenderAudio \/ ScheduleAudio
  BY <1>11 DEF CardWantsSamples, RenderAudio, ScheduleAudio, Held
<1>12. CASE Enable \/ EnableFails
  BY <1>12 DEF Enable, EnableFails
<1>13. CASE StartPlayback
  BY <1>13 DEF StartPlayback, Held
<1>14. CASE SetPlaying
  BY <1>14 DEF SetPlaying, Held
<1>15. CASE BringUpFails \/ TearDown
  BY <1>15 DEF BringUpFails, TearDown
<1>16. CASE TearingDown
  BY <1>16 DEF TearingDown, StopPlayback, Unset, Disable, TakeSession, FreeSession
<1>17. CASE UNCHANGED vars
  BY <1>17 DEF vars, Held
<1> QED
  BY <1>1, <1>2, <1>3, <1>4, <1>5, <1>6, <1>7, <1>8, <1>9, <1>10, <1>11, <1>12, <1>13,
     <1>14, <1>15, <1>16, <1>17
     DEF Next, Schedule, VideoCall, AudioCall

(***************************************************************************)
(* Playback keeps the preroll's frames in flight: each completion is       *)
(* replaced by one frame, unless it came before _playing was set, the card *)
(* refused its successor or a reset is due (onFrameCompleted).             *)
(***************************************************************************)
THEOREM PipelineStaysFull == Spec => []PipelineKept
<1>1. Init => PipeInv
  BY DEF Init, PipeInv
<1>2. PipeInv => PipelineKept
  BY DEF PipeInv, PipelineKept, Held, OnTheWay
<1> QED
  BY <1>1, <1>2, SessionTypes, NextPipe, PTL DEF Spec
=============================================================================
