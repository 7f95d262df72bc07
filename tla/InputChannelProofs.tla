------------------------- MODULE InputChannelProofs -------------------------
(***************************************************************************)
(* Proofs about InputChannel for every set of modes, every number of       *)
(* signal changes, failures and lives: type correctness, that a channel    *)
(* that is down holds nothing, that a flow id stands for one mode, that    *)
(* writers are not exchanged under a frame, and that a frame fits the      *)
(* writers it is written to.                                               *)
(***************************************************************************)
EXTENDS InputChannel, TLAPS

\* The supervisor is between two passes or in the second half of one.
PassPcs == {"loop", "loss", "reset", "store"}

\* The supervisor's steps while no stream runs: before they are started, and
\* after a teardown.
Down ==
  \/ sup \in {"bringCreate", "threw", "open", "enable", "start", "backoff",
             "stopped", "crashed"}
  \/ sup \in PassPcs /\ ~streamingUp

\* The same without the steps that have created something.
Empty ==
  \/ sup \in {"bringCreate", "backoff", "stopped", "crashed"}
  \/ sup \in PassPcs /\ ~streamingUp

\* Where the supervisor is tells who may run, who holds _writerMutex and what
\* the channel owns.
SessionInv ==
  /\ sup \in {"pending"} \cup (SwapPcs \ {"swapTear"}) => streamingUp
  /\ sup \in {"bringCreate", "threw", "open", "enable", "start", "up", "backoff",
             "swapTear", "stopTear", "stopped", "crashed"} => ~streamingUp
  /\ streamingUp => capture
  /\ Down => ~streams /\ cb = "idle"
  /\ sup \in {"swapTear", "stopTear"} => ~streams
  /\ Empty => ~capture /\ ~valid /\ writers = NoWriters
  /\ sup \in {"threw", "open"} => ~capture
  /\ sup \in {"enable", "start", "up"} => capture

LockInv ==
  /\ lock = "frame" <=> cb = "writing"
  /\ lock = "supervisor" <=> sup \in {"bringCreate", "swapCreate"}

ModeInv ==
  /\ sup \in SwapPcs => change \in Modes
  /\ sup \in {"bringCreate", "open", "enable", "start"} => mode = StartMode

\* Flows are created under the configured id in the mode of a bring-up, or
\* under an id derived from their mode and a counter that has been raised.
MadeInv ==
  /\ sup = "swapCreate" => counter > 0
  /\ \A w \in made :
       \/ w.id = ConfiguredId /\ w.mode = StartMode
       \/ w.id.name = w.mode /\ w.id.n > 0

Inv == TypeOK /\ SessionInv /\ LockInv /\ ModeInv

\* The card, the channel and the writers get one mode, and unless the writers
\* were made valid over a change that had already been reported, frames find
\* them invalid from a report until the change has been carried out: a frame that
\* is past that test is in the mode of the card, of the channel and of the
\* writers.
FitInv ==
  /\ sup = "switch" => cardMode = change
  /\ sup \in {"release", "grace", "swapCreate"} => cardMode = change /\ mode = change
  /\ ~overtaken =>
       /\ valid => writers.mode = mode
       /\ valid /\ sup \notin {"open", "enable"} => cardMode = mode
       /\ sup \in SwapPcs \ {"publish"} => ~valid
       /\ pending # NoMode \/ cb = "change" => ~valid
       /\ cb \in {"gate", "writing"} => valid /\ frame = cardMode

-----------------------------------------------------------------------------
(* Every step keeps the invariants.                                        *)

\* The types.
LEMMA TypeStep ==
  ASSUME TypeOK, ModeInv, [Next]_vars
  PROVE  TypeOK'
<1> USE ConstantsOK DEF ConstantsOK, madeVars
<1>1. ASSUME SignalChanges PROVE TypeOK'
  BY <1>1 DEF SignalChanges, cardVars, lifeVars, supVars, flowVars, statusVars,
      cbVars, TypeOK, FlagTypes, CountTypes, ModeTypes, FlowTypes, PcTypes
<1>2. ASSUME TimeoutPasses PROVE TypeOK'
  BY <1>2 DEF TimeoutPasses, envVars, cardVars, lifeVars, supVars, flowVars, cbVars,
      TypeOK, FlagTypes, CountTypes, ModeTypes, FlowTypes, PcTypes
<1>3. ASSUME Stop PROVE TypeOK'
  <2>1. FlagTypes'
    BY <1>3 DEF Stop, envVars, cardVars, supVars, flowVars, statusVars, cbVars,
        TypeOK, FlagTypes
  <2>2. CountTypes'
    BY <1>3 DEF Stop, envVars, cardVars, supVars, flowVars, statusVars, cbVars,
        TypeOK, CountTypes
  <2>3. ModeTypes' /\ FlowTypes'
    BY <1>3 DEF Stop, envVars, cardVars, supVars, flowVars, statusVars, cbVars,
        TypeOK, ModeTypes, FlowTypes, CountTypes
  <2>4. PcTypes'
    BY <1>3 DEF Stop, envVars, cardVars, supVars, flowVars, statusVars, cbVars,
        TypeOK, PcTypes
  <2> QED
    BY <2>1, <2>2, <2>3, <2>4 DEF TypeOK
<1>4. ASSUME Recreate PROVE TypeOK'
  <2>1. FlagTypes'
    BY <1>4 DEF Recreate, envVars, cardVars, cbVars, TypeOK, FlagTypes
  <2>2. CountTypes'
    BY <1>4 DEF Recreate, envVars, cardVars, cbVars, TypeOK, CountTypes
  <2>3. ModeTypes' /\ FlowTypes'
    BY <1>4 DEF Recreate, envVars, cardVars, cbVars, TypeOK, ModeTypes, FlowTypes,
        CountTypes, WriterSets, FlowIds, NoWriters, ConfiguredId, SwapPcs
  <2>4. PcTypes'
    BY <1>4 DEF Recreate, envVars, cardVars, cbVars, TypeOK, PcTypes, SupPcs,
        SwapPcs
  <2> QED
    BY <2>1, <2>2, <2>3, <2>4 DEF TypeOK
<1>5. ASSUME FrameNoSource PROVE TypeOK'
  <2>1. FlagTypes'
    BY <1>5 DEF FrameNoSource, envVars, cardVars, lifeVars, supVars, flowVars,
        cbVars, TypeOK, FlagTypes
  <2>2. CountTypes'
    BY <1>5 DEF FrameNoSource, envVars, cardVars, lifeVars, supVars, flowVars,
        cbVars, TypeOK, CountTypes
  <2>3. ModeTypes' /\ FlowTypes'
    BY <1>5 DEF FrameNoSource, envVars, cardVars, lifeVars, supVars, flowVars,
        cbVars, TypeOK, ModeTypes, FlowTypes, CountTypes
  <2>4. PcTypes'
    BY <1>5 DEF FrameNoSource, envVars, cardVars, lifeVars, supVars, flowVars,
        cbVars, TypeOK, PcTypes
  <2> QED
    BY <2>1, <2>2, <2>3, <2>4 DEF TypeOK
<1>6. ASSUME FrameArrives PROVE TypeOK'
  BY <1>6 DEF FrameArrives, envVars, cardVars, lifeVars, supVars, flowVars, cbVars,
      TypeOK, FlagTypes, CountTypes, ModeTypes, FlowTypes, PcTypes
<1>7. ASSUME FormatChange PROVE TypeOK'
  <2>1. FlagTypes'
    BY <1>7 DEF FormatChange, ModeDetected, envVars, lifeVars, supVars, statusVars,
        TypeOK, FlagTypes
  <2>2. CountTypes'
    BY <1>7 DEF FormatChange, ModeDetected, envVars, lifeVars, supVars, statusVars,
        TypeOK, CountTypes
  <2>3. ModeTypes' /\ FlowTypes'
    BY <1>7 DEF FormatChange, ModeDetected, envVars, lifeVars, supVars, statusVars,
        TypeOK, ModeTypes, FlowTypes, CountTypes, WriterSets, FlowIds
  <2>4. PcTypes'
    BY <1>7 DEF FormatChange, ModeDetected, envVars, lifeVars, supVars, statusVars,
        TypeOK, PcTypes
  <2> QED
    BY <2>1, <2>2, <2>3, <2>4 DEF TypeOK
<1>8. ASSUME FrameLocks PROVE TypeOK'
  BY <1>8 DEF FrameLocks, envVars, cardVars, lifeVars, supVars, statusVars, TypeOK,
      FlagTypes, CountTypes, ModeTypes, FlowTypes, PcTypes, WriterSets, FlowIds
<1>9. ASSUME FrameWritten PROVE TypeOK'
  BY <1>9 DEF FrameWritten, envVars, cardVars, lifeVars, supVars, statusVars,
      TypeOK, FlagTypes, CountTypes, ModeTypes, FlowTypes, PcTypes, WriterSets,
      FlowIds
<1>10. ASSUME FormatChangePosted PROVE TypeOK'
  BY <1>10 DEF FormatChangePosted, envVars, cardVars, lifeVars, supVars, statusVars,
      TypeOK, FlagTypes, CountTypes, ModeTypes, FlowTypes, PcTypes, WriterSets,
      FlowIds
<1>11. ASSUME HousekeepingStart PROVE TypeOK'
  BY <1>11 DEF HousekeepingStart, envVars, cardVars, lifeVars, supVars, flowVars,
      statusVars, cbVars, TypeOK, FlagTypes, CountTypes, ModeTypes, FlowTypes,
      PcTypes
<1>12. ASSUME HousekeepingEnd PROVE TypeOK'
  BY <1>12 DEF HousekeepingEnd, envVars, cardVars, lifeVars, supVars, flowVars,
      statusVars, cbVars, TypeOK, FlagTypes, CountTypes, ModeTypes, FlowTypes,
      PcTypes
<1>13. ASSUME BringUp PROVE TypeOK'
  BY <1>13 DEF BringUp, Go, envVars, cardVars, lifeVars, cbVars, TypeOK, FlagTypes,
      CountTypes, ModeTypes, FlowTypes, PcTypes, SupPcs, SwapPcs, WriterSets,
      FlowIds
<1>14. ASSUME BringUpRefused PROVE TypeOK'
  BY <1>14 DEF BringUpRefused, Failed, CallFails, Go, cardVars, lifeVars, cbVars,
      TypeOK, FlagTypes, CountTypes, ModeTypes, FlowTypes, PcTypes, SupPcs, SwapPcs,
      WriterSets, FlowIds
<1>15. ASSUME BringUpCreate PROVE TypeOK'
  <2>1. FlagTypes'
    BY <1>15 DEF BringUpCreate, WritersCreated, WritersPartlyCreated, Go, cardVars,
        lifeVars, statusVars, cbVars, TypeOK, FlagTypes
  <2>2. CountTypes'
    BY <1>15 DEF BringUpCreate, WritersCreated, WritersPartlyCreated, Go, cardVars,
        lifeVars, statusVars, cbVars, TypeOK, CountTypes
  <2>3. ModeTypes' /\ FlowTypes'
    BY <1>15 DEF BringUpCreate, WritersCreated, WritersPartlyCreated, Go, cardVars,
        lifeVars, statusVars, cbVars, TypeOK, ModeTypes, FlowTypes, CountTypes,
        WriterSets, FlowIds, NoWriters, ConfiguredId, SwapPcs
  <2>4. PcTypes'
    BY <1>15 DEF BringUpCreate, WritersCreated, WritersPartlyCreated, Go, cardVars,
        lifeVars, statusVars, cbVars, TypeOK, PcTypes, SupPcs, SwapPcs
  <2> QED
    BY <2>1, <2>2, <2>3, <2>4 DEF TypeOK
<1>16. ASSUME BringUpThrew PROVE TypeOK'
  <2>1. FlagTypes'
    BY <1>16 DEF BringUpThrew, WritersDestroyed, Failed, Go, envVars, lifeVars,
        cbVars, TypeOK, FlagTypes
  <2>2. CountTypes'
    BY <1>16 DEF BringUpThrew, WritersDestroyed, Failed, Go, envVars, lifeVars,
        cbVars, TypeOK, CountTypes
  <2>3. ModeTypes' /\ FlowTypes'
    BY <1>16 DEF BringUpThrew, WritersDestroyed, Failed, Go, envVars, lifeVars,
        cbVars, TypeOK, ModeTypes, FlowTypes, CountTypes, WriterSets, FlowIds,
        NoWriters, ConfiguredId, SwapPcs
  <2>4. PcTypes'
    BY <1>16 DEF BringUpThrew, WritersDestroyed, Failed, Go, envVars, lifeVars,
        cbVars, TypeOK, PcTypes, SupPcs, SwapPcs
  <2> QED
    BY <2>1, <2>2, <2>3, <2>4 DEF TypeOK
<1>17. ASSUME OpenCapture PROVE TypeOK'
  <2>1. FlagTypes'
    BY <1>17 DEF OpenCapture, WritersDestroyed, Failed, CallFails, Go, lifeVars,
        cbVars, TypeOK, FlagTypes
  <2>2. CountTypes'
    BY <1>17 DEF OpenCapture, WritersDestroyed, Failed, CallFails, Go, lifeVars,
        cbVars, TypeOK, CountTypes
  <2>3. ModeTypes' /\ FlowTypes'
    BY <1>17 DEF OpenCapture, WritersDestroyed, Failed, CallFails, Go, lifeVars,
        cbVars, TypeOK, ModeTypes, FlowTypes, CountTypes, WriterSets, FlowIds,
        NoWriters, ConfiguredId, SwapPcs
  <2>4. PcTypes'
    BY <1>17 DEF OpenCapture, WritersDestroyed, Failed, CallFails, Go, lifeVars,
        cbVars, TypeOK, PcTypes, SupPcs, SwapPcs
  <2> QED
    BY <2>1, <2>2, <2>3, <2>4 DEF TypeOK
<1>18. ASSUME EnableCapture PROVE TypeOK'
  <2>1. FlagTypes'
    BY <1>18 DEF EnableCapture, WritersDestroyed, Failed, CallFails, Go, lifeVars,
        cbVars, TypeOK, FlagTypes
  <2>2. CountTypes'
    BY <1>18 DEF EnableCapture, WritersDestroyed, Failed, CallFails, Go, lifeVars,
        cbVars, TypeOK, CountTypes
  <2>3. ModeTypes' /\ FlowTypes'
    BY <1>18 DEF EnableCapture, WritersDestroyed, Failed, CallFails, Go, lifeVars,
        cbVars, TypeOK, ModeTypes, FlowTypes, CountTypes, WriterSets, FlowIds,
        NoWriters, ConfiguredId, ModeInv, SwapPcs
  <2>4. PcTypes'
    BY <1>18 DEF EnableCapture, WritersDestroyed, Failed, CallFails, Go, lifeVars,
        cbVars, TypeOK, PcTypes, SupPcs, SwapPcs
  <2> QED
    BY <2>1, <2>2, <2>3, <2>4 DEF TypeOK
<1>19. ASSUME StartCapture PROVE TypeOK'
  <2>1. FlagTypes'
    BY <1>19 DEF StartCapture, WritersDestroyed, Failed, CallFails, Go, lifeVars,
        cbVars, TypeOK, FlagTypes
  <2>2. CountTypes'
    BY <1>19 DEF StartCapture, WritersDestroyed, Failed, CallFails, Go, lifeVars,
        cbVars, TypeOK, CountTypes
  <2>3. ModeTypes' /\ FlowTypes'
    BY <1>19 DEF StartCapture, WritersDestroyed, Failed, CallFails, Go, lifeVars,
        cbVars, TypeOK, ModeTypes, FlowTypes, CountTypes, WriterSets, FlowIds,
        NoWriters, ConfiguredId, SwapPcs
  <2>4. PcTypes'
    BY <1>19 DEF StartCapture, WritersDestroyed, Failed, CallFails, Go, lifeVars,
        cbVars, TypeOK, PcTypes, SupPcs, SwapPcs
  <2> QED
    BY <2>1, <2>2, <2>3, <2>4 DEF TypeOK
<1>20. ASSUME BringUpDone PROVE TypeOK'
  BY <1>20 DEF BringUpDone, Go, envVars, cardVars, flowVars, cbVars, TypeOK,
      FlagTypes, CountTypes, ModeTypes, FlowTypes, PcTypes, SupPcs, SwapPcs
<1>21. ASSUME BackoffOver PROVE TypeOK'
  BY <1>21 DEF BackoffOver, Go, envVars, cardVars, lifeVars, flowVars, statusVars,
      cbVars, TypeOK, FlagTypes, CountTypes, ModeTypes, FlowTypes, PcTypes, SupPcs,
      SwapPcs
<1>22. ASSUME CheckPending PROVE TypeOK'
  BY <1>22 DEF CheckPending, Go, envVars, cardVars, lifeVars, cbVars, TypeOK,
      FlagTypes, CountTypes, ModeTypes, FlowTypes, PcTypes, SupPcs, SwapPcs,
      WriterSets, FlowIds
<1>23. ASSUME ChangeMode PROVE TypeOK'
  <2>1. FlagTypes'
    BY <1>23 DEF ChangeMode, CallFails, TearDown, Go, flowVars, statusVars, cbVars,
        TypeOK, FlagTypes
  <2>2. CountTypes'
    BY <1>23 DEF ChangeMode, CallFails, TearDown, Go, flowVars, statusVars, cbVars,
        TypeOK, CountTypes
  <2>3. ModeTypes' /\ FlowTypes'
    BY <1>23 DEF ChangeMode, CallFails, TearDown, Go, flowVars, statusVars, cbVars,
        TypeOK, ModeTypes, FlowTypes, CountTypes, ModeInv, SwapPcs
  <2>4. PcTypes'
    BY <1>23 DEF ChangeMode, CallFails, TearDown, Go, flowVars, statusVars, cbVars,
        TypeOK, PcTypes, SupPcs, SwapPcs
  <2> QED
    BY <2>1, <2>2, <2>3, <2>4 DEF TypeOK
<1>24. ASSUME SwitchMode PROVE TypeOK'
  <2>1. FlagTypes'
    BY <1>24 DEF SwitchMode, Go, envVars, cardVars, lifeVars, statusVars, cbVars,
        TypeOK, FlagTypes
  <2>2. CountTypes'
    BY <1>24 DEF SwitchMode, Go, envVars, cardVars, lifeVars, statusVars, cbVars,
        TypeOK, CountTypes
  <2>3. ModeTypes' /\ FlowTypes'
    BY <1>24 DEF SwitchMode, Go, envVars, cardVars, lifeVars, statusVars, cbVars,
        TypeOK, ModeTypes, FlowTypes, CountTypes, WriterSets, FlowIds, ModeInv,
        SwapPcs
  <2>4. PcTypes'
    BY <1>24 DEF SwitchMode, Go, envVars, cardVars, lifeVars, statusVars, cbVars,
        TypeOK, PcTypes, SupPcs, SwapPcs
  <2> QED
    BY <2>1, <2>2, <2>3, <2>4 DEF TypeOK
<1>25. ASSUME ReleaseWriters PROVE TypeOK'
  BY <1>25 DEF ReleaseWriters, Go, envVars, cardVars, lifeVars, statusVars, cbVars,
      TypeOK, FlagTypes, CountTypes, ModeTypes, FlowTypes, PcTypes, SupPcs, SwapPcs,
      WriterSets, FlowIds, NoWriters, ConfiguredId
<1>26. ASSUME GraceOver PROVE TypeOK'
  BY <1>26 DEF GraceOver, Go, envVars, cardVars, lifeVars, statusVars, cbVars,
      TypeOK, FlagTypes, CountTypes, ModeTypes, FlowTypes, PcTypes, SupPcs, SwapPcs,
      WriterSets, FlowIds
<1>27. ASSUME SwapCreate PROVE TypeOK'
  <2>1. FlagTypes'
    BY <1>27 DEF SwapCreate, WritersCreated, WritersPartlyCreated, TearDown,
        DerivedId, Go, statusVars, cbVars, TypeOK, FlagTypes
  <2>2. CountTypes'
    BY <1>27 DEF SwapCreate, WritersCreated, WritersPartlyCreated, TearDown,
        DerivedId, Go, statusVars, cbVars, TypeOK, CountTypes
  <2>3. ModeTypes' /\ FlowTypes'
    BY <1>27 DEF SwapCreate, WritersCreated, WritersPartlyCreated, TearDown,
        DerivedId, Go, statusVars, cbVars, TypeOK, ModeTypes, FlowTypes, CountTypes,
        WriterSets, FlowIds, ModeInv, SwapPcs
  <2>4. PcTypes'
    BY <1>27 DEF SwapCreate, WritersCreated, WritersPartlyCreated, TearDown,
        DerivedId, Go, statusVars, cbVars, TypeOK, PcTypes, SupPcs, SwapPcs
  <2> QED
    BY <2>1, <2>2, <2>3, <2>4 DEF TypeOK
<1>28. ASSUME PublishFlow PROVE TypeOK'
  BY <1>28 DEF PublishFlow, DerivedId, Go, envVars, cardVars, lifeVars, flowVars,
      cbVars, TypeOK, FlagTypes, CountTypes, ModeTypes, FlowTypes, PcTypes, SupPcs,
      SwapPcs, WriterSets, FlowIds, NoWriters, ConfiguredId, ModeInv
<1>29. ASSUME TornDown PROVE TypeOK'
  <2>1. FlagTypes'
    BY <1>29 DEF TornDown, WritersDestroyed, Go, envVars, lifeVars, statusVars,
        cbVars, TypeOK, FlagTypes
  <2>2. CountTypes'
    BY <1>29 DEF TornDown, WritersDestroyed, Go, envVars, lifeVars, statusVars,
        cbVars, TypeOK, CountTypes
  <2>3. ModeTypes' /\ FlowTypes'
    BY <1>29 DEF TornDown, WritersDestroyed, Go, envVars, lifeVars, statusVars,
        cbVars, TypeOK, ModeTypes, FlowTypes, CountTypes, WriterSets, FlowIds,
        NoWriters, ConfiguredId, SwapPcs
  <2>4. PcTypes'
    BY <1>29 DEF TornDown, WritersDestroyed, Go, envVars, lifeVars, statusVars,
        cbVars, TypeOK, PcTypes, SupPcs, SwapPcs
  <2> QED
    BY <2>1, <2>2, <2>3, <2>4 DEF TypeOK
<1>30. ASSUME LoopUp PROVE TypeOK'
  BY <1>30 DEF LoopUp, Go, envVars, cardVars, lifeVars, flowVars, statusVars,
      cbVars, TypeOK, FlagTypes, CountTypes, ModeTypes, FlowTypes, PcTypes, SupPcs,
      SwapPcs
<1>31. ASSUME LoopEnds PROVE TypeOK'
  <2>1. FlagTypes'
    BY <1>31 DEF LoopEnds, TearDown, Go, envVars, flowVars, statusVars, cbVars,
        TypeOK, FlagTypes
  <2>2. CountTypes'
    BY <1>31 DEF LoopEnds, TearDown, Go, envVars, flowVars, statusVars, cbVars,
        TypeOK, CountTypes
  <2>3. ModeTypes' /\ FlowTypes'
    BY <1>31 DEF LoopEnds, TearDown, Go, envVars, flowVars, statusVars, cbVars,
        TypeOK, ModeTypes, FlowTypes, CountTypes, SwapPcs
  <2>4. PcTypes'
    BY <1>31 DEF LoopEnds, TearDown, Go, envVars, flowVars, statusVars, cbVars,
        TypeOK, PcTypes, SupPcs, SwapPcs
  <2> QED
    BY <2>1, <2>2, <2>3, <2>4 DEF TypeOK
<1>32. ASSUME CheckLoss PROVE TypeOK'
  BY <1>32 DEF CheckLoss, Go, envVars, cardVars, lifeVars, flowVars, statusVars,
      cbVars, TypeOK, FlagTypes, CountTypes, ModeTypes, FlowTypes, PcTypes, SupPcs,
      SwapPcs
<1>33. ASSUME ResetStreams PROVE TypeOK'
  BY <1>33 DEF ResetStreams, Go, envVars, cardVars, lifeVars, flowVars, statusVars,
      cbVars, TypeOK, FlagTypes, CountTypes, ModeTypes, FlowTypes, PcTypes, SupPcs,
      SwapPcs
<1>34. ASSUME RestartLoss PROVE TypeOK'
  BY <1>34 DEF RestartLoss, Go, envVars, cardVars, lifeVars, flowVars, cbVars,
      TypeOK, FlagTypes, CountTypes, ModeTypes, FlowTypes, PcTypes, SupPcs, SwapPcs
<1>35. ASSUME UNCHANGED vars PROVE TypeOK'
  BY <1>35 DEF vars, envVars, cardVars, lifeVars, supVars, flowVars, statusVars,
      cbVars, TypeOK, FlagTypes, CountTypes, ModeTypes, FlowTypes, PcTypes, SupPcs,
      SwapPcs, WriterSets, FlowIds, NoWriters, ConfiguredId
<1> QED
  BY <1>1, <1>2, <1>3, <1>4, <1>5, <1>6, <1>7, <1>8, <1>9, <1>10, <1>11, <1>12,
      <1>13, <1>14, <1>15, <1>16, <1>17, <1>18, <1>19, <1>20, <1>21, <1>22, <1>23,
      <1>24, <1>25, <1>26, <1>27, <1>28, <1>29, <1>30, <1>31, <1>32, <1>33, <1>34,
      <1>35 DEF Next, Environment, Callbacks, Frames, CallbackRuns, Supervisor,
      BringingUp, Swapping, Looping, Ended

\* Who runs, who holds the mutex and what is owned.
LEMMA SessionStep ==
  ASSUME TypeOK, SessionInv, LockInv, [Next]_vars
  PROVE  SessionInv' /\ LockInv'
<1> USE ConstantsOK DEF ConstantsOK, madeVars
<1>1. ASSUME SignalChanges PROVE SessionInv' /\ LockInv'
  BY <1>1 DEF SignalChanges, cardVars, lifeVars, supVars, flowVars, statusVars,
      cbVars, SessionInv, LockInv, Down, Empty, PassPcs, SwapPcs
<1>2. ASSUME TimeoutPasses PROVE SessionInv' /\ LockInv'
  BY <1>2 DEF TimeoutPasses, envVars, cardVars, lifeVars, supVars, flowVars, cbVars,
      SessionInv, LockInv, Down, Empty, PassPcs, SwapPcs
<1>3. ASSUME Stop PROVE SessionInv' /\ LockInv'
  BY <1>3 DEF Stop, envVars, cardVars, supVars, flowVars, statusVars, cbVars,
      SessionInv, LockInv, Down, Empty, PassPcs, SwapPcs
<1>4. ASSUME Recreate PROVE SessionInv' /\ LockInv'
  BY <1>4 DEF Recreate, envVars, cardVars, cbVars, SessionInv, LockInv, Down, Empty,
      PassPcs, SwapPcs, NoWriters
<1>5. ASSUME FrameNoSource PROVE SessionInv' /\ LockInv'
  BY <1>5 DEF FrameNoSource, envVars, cardVars, lifeVars, supVars, flowVars, cbVars,
      SessionInv, LockInv, Down, Empty, PassPcs, SwapPcs
<1>6. ASSUME FrameArrives PROVE SessionInv' /\ LockInv'
  BY <1>6 DEF FrameArrives, envVars, cardVars, lifeVars, supVars, flowVars, cbVars,
      SessionInv, LockInv, Down, Empty, PassPcs, SwapPcs
<1>7. ASSUME FormatChange PROVE SessionInv' /\ LockInv'
  BY <1>7 DEF FormatChange, ModeDetected, envVars, lifeVars, supVars, statusVars,
      SessionInv, LockInv, Down, Empty, PassPcs, SwapPcs
<1>8. ASSUME FrameLocks PROVE SessionInv' /\ LockInv'
  BY <1>8 DEF FrameLocks, envVars, cardVars, lifeVars, supVars, statusVars,
      SessionInv, LockInv, Down, Empty, PassPcs, SwapPcs
<1>9. ASSUME FrameWritten PROVE SessionInv' /\ LockInv'
  BY <1>9 DEF FrameWritten, envVars, cardVars, lifeVars, supVars, statusVars,
      SessionInv, LockInv, Down, Empty, PassPcs, SwapPcs
<1>10. ASSUME FormatChangePosted PROVE SessionInv' /\ LockInv'
  BY <1>10 DEF FormatChangePosted, envVars, cardVars, lifeVars, supVars, statusVars,
      SessionInv, LockInv, Down, Empty, PassPcs, SwapPcs
<1>11. ASSUME HousekeepingStart PROVE SessionInv' /\ LockInv'
  BY <1>11 DEF HousekeepingStart, envVars, cardVars, lifeVars, supVars, flowVars,
      statusVars, cbVars, SessionInv, LockInv, Down, Empty, PassPcs, SwapPcs
<1>12. ASSUME HousekeepingEnd PROVE SessionInv' /\ LockInv'
  BY <1>12 DEF HousekeepingEnd, envVars, cardVars, lifeVars, supVars, flowVars,
      statusVars, cbVars, SessionInv, LockInv, Down, Empty, PassPcs, SwapPcs
<1>13. ASSUME BringUp PROVE SessionInv' /\ LockInv'
  BY <1>13 DEF BringUp, Go, envVars, cardVars, lifeVars, cbVars, SessionInv,
      LockInv, Down, Empty, PassPcs, SwapPcs
<1>14. ASSUME BringUpRefused PROVE SessionInv' /\ LockInv'
  BY <1>14 DEF BringUpRefused, Failed, CallFails, Go, cardVars, lifeVars, cbVars,
      SessionInv, LockInv, Down, Empty, PassPcs, SwapPcs
<1>15. ASSUME BringUpCreate PROVE SessionInv' /\ LockInv'
  BY <1>15 DEF BringUpCreate, WritersCreated, WritersPartlyCreated, Go, cardVars,
      lifeVars, statusVars, cbVars, SessionInv, LockInv, Down, Empty, PassPcs,
      SwapPcs, NoWriters
<1>16. ASSUME BringUpThrew PROVE SessionInv' /\ LockInv'
  BY <1>16 DEF BringUpThrew, WritersDestroyed, Failed, Go, envVars, lifeVars,
      cbVars, SessionInv, LockInv, Down, Empty, PassPcs, SwapPcs, NoWriters
<1>17. ASSUME OpenCapture PROVE SessionInv' /\ LockInv'
  BY <1>17 DEF OpenCapture, WritersDestroyed, Failed, CallFails, Go, lifeVars,
      cbVars, SessionInv, LockInv, Down, Empty, PassPcs, SwapPcs, NoWriters
<1>18. ASSUME EnableCapture PROVE SessionInv' /\ LockInv'
  BY <1>18 DEF EnableCapture, WritersDestroyed, Failed, CallFails, Go, lifeVars,
      cbVars, SessionInv, LockInv, Down, Empty, PassPcs, SwapPcs, NoWriters
<1>19. ASSUME StartCapture PROVE SessionInv' /\ LockInv'
  <2>1. CASE sup' = "up"
    BY <1>19, <2>1 DEF StartCapture, WritersDestroyed, Failed, CallFails, Go,
        lifeVars, cbVars, SessionInv, LockInv, Down, Empty, PassPcs, SwapPcs,
        NoWriters
  <2>2. CASE sup' # "up"
    <3>1. /\ sup = "start" /\ sup' = "backoff" /\ ~capture' /\ ~valid'
          /\ writers' = NoWriters /\ UNCHANGED <<streams, streamingUp, cb, lock>>
      BY <1>19, <2>2 DEF StartCapture, WritersDestroyed, Failed, CallFails, Go,
          lifeVars, cbVars
    <3> QED
      BY <3>1 DEF TypeOK, FlagTypes, PcTypes, SupPcs, SessionInv, LockInv, Down,
          Empty, PassPcs, SwapPcs, NoWriters
  <2> QED
    BY <2>1, <2>2
<1>20. ASSUME BringUpDone PROVE SessionInv' /\ LockInv'
  BY <1>20 DEF BringUpDone, Go, envVars, cardVars, flowVars, cbVars, SessionInv,
      LockInv, Down, Empty, PassPcs, SwapPcs
<1>21. ASSUME BackoffOver PROVE SessionInv' /\ LockInv'
  BY <1>21 DEF BackoffOver, Go, envVars, cardVars, lifeVars, flowVars, statusVars,
      cbVars, SessionInv, LockInv, Down, Empty, PassPcs, SwapPcs
<1>22. ASSUME CheckPending PROVE SessionInv' /\ LockInv'
  BY <1>22 DEF CheckPending, Go, envVars, cardVars, lifeVars, cbVars, SessionInv,
      LockInv, Down, Empty, PassPcs, SwapPcs
<1>23. ASSUME ChangeMode PROVE SessionInv' /\ LockInv'
  BY <1>23 DEF ChangeMode, CallFails, TearDown, Go, flowVars, statusVars, cbVars,
      SessionInv, LockInv, Down, Empty, PassPcs, SwapPcs
<1>24. ASSUME SwitchMode PROVE SessionInv' /\ LockInv'
  BY <1>24 DEF SwitchMode, Go, envVars, cardVars, lifeVars, statusVars, cbVars,
      SessionInv, LockInv, Down, Empty, PassPcs, SwapPcs
<1>25. ASSUME ReleaseWriters PROVE SessionInv' /\ LockInv'
  BY <1>25 DEF ReleaseWriters, Go, envVars, cardVars, lifeVars, statusVars, cbVars,
      SessionInv, LockInv, Down, Empty, PassPcs, SwapPcs, NoWriters
<1>26. ASSUME GraceOver PROVE SessionInv' /\ LockInv'
  BY <1>26 DEF GraceOver, Go, envVars, cardVars, lifeVars, statusVars, cbVars,
      SessionInv, LockInv, Down, Empty, PassPcs, SwapPcs
<1>27. ASSUME SwapCreate PROVE SessionInv' /\ LockInv'
  BY <1>27 DEF SwapCreate, WritersCreated, WritersPartlyCreated, TearDown,
      DerivedId, Go, statusVars, cbVars, SessionInv, LockInv, Down, Empty, PassPcs,
      SwapPcs
<1>28. ASSUME PublishFlow PROVE SessionInv' /\ LockInv'
  BY <1>28 DEF PublishFlow, DerivedId, Go, envVars, cardVars, lifeVars, flowVars,
      cbVars, SessionInv, LockInv, Down, Empty, PassPcs, SwapPcs
<1>29. ASSUME TornDown PROVE SessionInv' /\ LockInv'
  BY <1>29 DEF TornDown, WritersDestroyed, Go, envVars, lifeVars, statusVars,
      cbVars, SessionInv, LockInv, Down, Empty, PassPcs, SwapPcs, NoWriters
<1>30. ASSUME LoopUp PROVE SessionInv' /\ LockInv'
  BY <1>30 DEF LoopUp, Go, envVars, cardVars, lifeVars, flowVars, statusVars,
      cbVars, SessionInv, LockInv, Down, Empty, PassPcs, SwapPcs
<1>31. ASSUME LoopEnds PROVE SessionInv' /\ LockInv'
  BY <1>31 DEF LoopEnds, TearDown, Go, envVars, flowVars, statusVars, cbVars,
      SessionInv, LockInv, Down, Empty, PassPcs, SwapPcs
<1>32. ASSUME CheckLoss PROVE SessionInv' /\ LockInv'
  BY <1>32 DEF CheckLoss, Go, envVars, cardVars, lifeVars, flowVars, statusVars,
      cbVars, SessionInv, LockInv, Down, Empty, PassPcs, SwapPcs
<1>33. ASSUME ResetStreams PROVE SessionInv' /\ LockInv'
  BY <1>33 DEF ResetStreams, Go, envVars, cardVars, lifeVars, flowVars, statusVars,
      cbVars, SessionInv, LockInv, Down, Empty, PassPcs, SwapPcs
<1>34. ASSUME RestartLoss PROVE SessionInv' /\ LockInv'
  BY <1>34 DEF RestartLoss, Go, envVars, cardVars, lifeVars, flowVars, cbVars,
      SessionInv, LockInv, Down, Empty, PassPcs, SwapPcs
<1>35. ASSUME UNCHANGED vars PROVE SessionInv' /\ LockInv'
  BY <1>35 DEF vars, envVars, cardVars, lifeVars, supVars, flowVars, statusVars,
      cbVars, SessionInv, LockInv, Down, Empty, PassPcs, SwapPcs, NoWriters
<1> QED
  BY <1>1, <1>2, <1>3, <1>4, <1>5, <1>6, <1>7, <1>8, <1>9, <1>10, <1>11, <1>12,
      <1>13, <1>14, <1>15, <1>16, <1>17, <1>18, <1>19, <1>20, <1>21, <1>22, <1>23,
      <1>24, <1>25, <1>26, <1>27, <1>28, <1>29, <1>30, <1>31, <1>32, <1>33, <1>34,
      <1>35 DEF Next, Environment, Callbacks, Frames, CallbackRuns, Supervisor,
      BringingUp, Swapping, Looping, Ended

\* The modes the supervisor works with.
LEMMA ModeStep ==
  ASSUME TypeOK, ModeInv, [Next]_vars
  PROVE  ModeInv'
<1> USE ConstantsOK DEF ConstantsOK, madeVars
<1>1. ASSUME SignalChanges PROVE ModeInv'
  BY <1>1 DEF SignalChanges, cardVars, lifeVars, supVars, flowVars, statusVars,
      cbVars, ModeInv, SwapPcs
<1>2. ASSUME TimeoutPasses PROVE ModeInv'
  BY <1>2 DEF TimeoutPasses, envVars, cardVars, lifeVars, supVars, flowVars, cbVars,
      ModeInv, SwapPcs
<1>3. ASSUME Stop PROVE ModeInv'
  BY <1>3 DEF Stop, envVars, cardVars, supVars, flowVars, statusVars, cbVars,
      ModeInv, SwapPcs
<1>4. ASSUME Recreate PROVE ModeInv'
  BY <1>4 DEF Recreate, envVars, cardVars, cbVars, ModeInv, SwapPcs
<1>5. ASSUME FrameNoSource PROVE ModeInv'
  BY <1>5 DEF FrameNoSource, envVars, cardVars, lifeVars, supVars, flowVars, cbVars,
      ModeInv, SwapPcs
<1>6. ASSUME FrameArrives PROVE ModeInv'
  BY <1>6 DEF FrameArrives, envVars, cardVars, lifeVars, supVars, flowVars, cbVars,
      ModeInv, SwapPcs
<1>7. ASSUME FormatChange PROVE ModeInv'
  BY <1>7 DEF FormatChange, ModeDetected, envVars, lifeVars, supVars, statusVars,
      ModeInv, SwapPcs
<1>8. ASSUME FrameLocks PROVE ModeInv'
  BY <1>8 DEF FrameLocks, envVars, cardVars, lifeVars, supVars, statusVars, ModeInv,
      SwapPcs
<1>9. ASSUME FrameWritten PROVE ModeInv'
  BY <1>9 DEF FrameWritten, envVars, cardVars, lifeVars, supVars, statusVars,
      ModeInv, SwapPcs
<1>10. ASSUME FormatChangePosted PROVE ModeInv'
  BY <1>10 DEF FormatChangePosted, envVars, cardVars, lifeVars, supVars, statusVars,
      ModeInv, SwapPcs
<1>11. ASSUME HousekeepingStart PROVE ModeInv'
  BY <1>11 DEF HousekeepingStart, envVars, cardVars, lifeVars, supVars, flowVars,
      statusVars, cbVars, ModeInv, SwapPcs
<1>12. ASSUME HousekeepingEnd PROVE ModeInv'
  BY <1>12 DEF HousekeepingEnd, envVars, cardVars, lifeVars, supVars, flowVars,
      statusVars, cbVars, ModeInv, SwapPcs
<1>13. ASSUME BringUp PROVE ModeInv'
  BY <1>13 DEF BringUp, Go, envVars, cardVars, lifeVars, cbVars, ModeInv, SwapPcs
<1>14. ASSUME BringUpRefused PROVE ModeInv'
  BY <1>14 DEF BringUpRefused, Failed, CallFails, Go, cardVars, lifeVars, cbVars,
      ModeInv, SwapPcs
<1>15. ASSUME BringUpCreate PROVE ModeInv'
  BY <1>15 DEF BringUpCreate, WritersCreated, WritersPartlyCreated, Go, cardVars,
      lifeVars, statusVars, cbVars, ModeInv, SwapPcs
<1>16. ASSUME BringUpThrew PROVE ModeInv'
  BY <1>16 DEF BringUpThrew, WritersDestroyed, Failed, Go, envVars, lifeVars,
      cbVars, ModeInv, SwapPcs
<1>17. ASSUME OpenCapture PROVE ModeInv'
  BY <1>17 DEF OpenCapture, WritersDestroyed, Failed, CallFails, Go, lifeVars,
      cbVars, ModeInv, SwapPcs
<1>18. ASSUME EnableCapture PROVE ModeInv'
  BY <1>18 DEF EnableCapture, WritersDestroyed, Failed, CallFails, Go, lifeVars,
      cbVars, ModeInv, SwapPcs
<1>19. ASSUME StartCapture PROVE ModeInv'
  BY <1>19 DEF StartCapture, WritersDestroyed, Failed, CallFails, Go, lifeVars,
      cbVars, ModeInv, SwapPcs
<1>20. ASSUME BringUpDone PROVE ModeInv'
  BY <1>20 DEF BringUpDone, Go, envVars, cardVars, flowVars, cbVars, ModeInv,
      SwapPcs
<1>21. ASSUME BackoffOver PROVE ModeInv'
  BY <1>21 DEF BackoffOver, Go, envVars, cardVars, lifeVars, flowVars, statusVars,
      cbVars, ModeInv, SwapPcs
<1>22. ASSUME CheckPending PROVE ModeInv'
  BY <1>22 DEF CheckPending, Go, envVars, cardVars, lifeVars, cbVars, TypeOK,
      ModeTypes, PcTypes, SupPcs, ModeInv, SwapPcs
<1>23. ASSUME ChangeMode PROVE ModeInv'
  BY <1>23 DEF ChangeMode, CallFails, TearDown, Go, flowVars, statusVars, cbVars,
      ModeInv, SwapPcs
<1>24. ASSUME SwitchMode PROVE ModeInv'
  BY <1>24 DEF SwitchMode, Go, envVars, cardVars, lifeVars, statusVars, cbVars,
      ModeInv, SwapPcs
<1>25. ASSUME ReleaseWriters PROVE ModeInv'
  BY <1>25 DEF ReleaseWriters, Go, envVars, cardVars, lifeVars, statusVars, cbVars,
      ModeInv, SwapPcs
<1>26. ASSUME GraceOver PROVE ModeInv'
  BY <1>26 DEF GraceOver, Go, envVars, cardVars, lifeVars, statusVars, cbVars,
      ModeInv, SwapPcs
<1>27. ASSUME SwapCreate PROVE ModeInv'
  BY <1>27 DEF SwapCreate, WritersCreated, WritersPartlyCreated, TearDown,
      DerivedId, Go, statusVars, cbVars, ModeInv, SwapPcs
<1>28. ASSUME PublishFlow PROVE ModeInv'
  BY <1>28 DEF PublishFlow, DerivedId, Go, envVars, cardVars, lifeVars, flowVars,
      cbVars, ModeInv, SwapPcs
<1>29. ASSUME TornDown PROVE ModeInv'
  BY <1>29 DEF TornDown, WritersDestroyed, Go, envVars, lifeVars, statusVars,
      cbVars, ModeInv, SwapPcs
<1>30. ASSUME LoopUp PROVE ModeInv'
  BY <1>30 DEF LoopUp, Go, envVars, cardVars, lifeVars, flowVars, statusVars,
      cbVars, ModeInv, SwapPcs
<1>31. ASSUME LoopEnds PROVE ModeInv'
  BY <1>31 DEF LoopEnds, TearDown, Go, envVars, flowVars, statusVars, cbVars,
      ModeInv, SwapPcs
<1>32. ASSUME CheckLoss PROVE ModeInv'
  BY <1>32 DEF CheckLoss, Go, envVars, cardVars, lifeVars, flowVars, statusVars,
      cbVars, ModeInv, SwapPcs
<1>33. ASSUME ResetStreams PROVE ModeInv'
  BY <1>33 DEF ResetStreams, Go, envVars, cardVars, lifeVars, flowVars, statusVars,
      cbVars, ModeInv, SwapPcs
<1>34. ASSUME RestartLoss PROVE ModeInv'
  BY <1>34 DEF RestartLoss, Go, envVars, cardVars, lifeVars, flowVars, cbVars,
      ModeInv, SwapPcs
<1>35. ASSUME UNCHANGED vars PROVE ModeInv'
  BY <1>35 DEF vars, envVars, cardVars, lifeVars, supVars, flowVars, statusVars,
      cbVars, ModeInv, SwapPcs
<1> QED
  BY <1>1, <1>2, <1>3, <1>4, <1>5, <1>6, <1>7, <1>8, <1>9, <1>10, <1>11, <1>12,
      <1>13, <1>14, <1>15, <1>16, <1>17, <1>18, <1>19, <1>20, <1>21, <1>22, <1>23,
      <1>24, <1>25, <1>26, <1>27, <1>28, <1>29, <1>30, <1>31, <1>32, <1>33, <1>34,
      <1>35 DEF Next, Environment, Callbacks, Frames, CallbackRuns, Supervisor,
      BringingUp, Swapping, Looping, Ended

\* The flows created.
LEMMA MadeStep ==
  ASSUME TypeOK, ModeInv, MadeInv, [Next]_vars
  PROVE  MadeInv'
<1> USE ConstantsOK DEF ConstantsOK, madeVars
<1>1. ASSUME SignalChanges PROVE MadeInv'
  BY <1>1 DEF SignalChanges, cardVars, lifeVars, supVars, flowVars, statusVars,
      cbVars, MadeInv
<1>2. ASSUME TimeoutPasses PROVE MadeInv'
  BY <1>2 DEF TimeoutPasses, envVars, cardVars, lifeVars, supVars, flowVars, cbVars,
      MadeInv
<1>3. ASSUME Stop PROVE MadeInv'
  BY <1>3 DEF Stop, envVars, cardVars, supVars, flowVars, statusVars, cbVars,
      MadeInv
<1>4. ASSUME Recreate PROVE MadeInv'
  BY <1>4 DEF Recreate, envVars, cardVars, cbVars, TypeOK, CountTypes, MadeInv,
      ConfiguredId
<1>5. ASSUME FrameNoSource PROVE MadeInv'
  BY <1>5 DEF FrameNoSource, envVars, cardVars, lifeVars, supVars, flowVars, cbVars,
      MadeInv
<1>6. ASSUME FrameArrives PROVE MadeInv'
  BY <1>6 DEF FrameArrives, envVars, cardVars, lifeVars, supVars, flowVars, cbVars,
      MadeInv
<1>7. ASSUME FormatChange PROVE MadeInv'
  BY <1>7 DEF FormatChange, ModeDetected, envVars, lifeVars, supVars, statusVars,
      MadeInv
<1>8. ASSUME FrameLocks PROVE MadeInv'
  BY <1>8 DEF FrameLocks, envVars, cardVars, lifeVars, supVars, statusVars, MadeInv
<1>9. ASSUME FrameWritten PROVE MadeInv'
  BY <1>9 DEF FrameWritten, envVars, cardVars, lifeVars, supVars, statusVars,
      MadeInv
<1>10. ASSUME FormatChangePosted PROVE MadeInv'
  BY <1>10 DEF FormatChangePosted, envVars, cardVars, lifeVars, supVars, statusVars,
      MadeInv
<1>11. ASSUME HousekeepingStart PROVE MadeInv'
  BY <1>11 DEF HousekeepingStart, envVars, cardVars, lifeVars, supVars, flowVars,
      statusVars, cbVars, MadeInv
<1>12. ASSUME HousekeepingEnd PROVE MadeInv'
  BY <1>12 DEF HousekeepingEnd, envVars, cardVars, lifeVars, supVars, flowVars,
      statusVars, cbVars, MadeInv
<1>13. ASSUME BringUp PROVE MadeInv'
  BY <1>13 DEF BringUp, Go, envVars, cardVars, lifeVars, cbVars, MadeInv
<1>14. ASSUME BringUpRefused PROVE MadeInv'
  BY <1>14 DEF BringUpRefused, Failed, CallFails, Go, cardVars, lifeVars, cbVars,
      MadeInv
<1>15. ASSUME BringUpCreate PROVE MadeInv'
  BY <1>15 DEF BringUpCreate, WritersCreated, WritersPartlyCreated, Go, cardVars,
      lifeVars, statusVars, cbVars, ModeInv, SwapPcs, MadeInv, ConfiguredId
<1>16. ASSUME BringUpThrew PROVE MadeInv'
  BY <1>16 DEF BringUpThrew, WritersDestroyed, Failed, Go, envVars, lifeVars,
      cbVars, MadeInv, ConfiguredId
<1>17. ASSUME OpenCapture PROVE MadeInv'
  BY <1>17 DEF OpenCapture, WritersDestroyed, Failed, CallFails, Go, lifeVars,
      cbVars, MadeInv, ConfiguredId
<1>18. ASSUME EnableCapture PROVE MadeInv'
  BY <1>18 DEF EnableCapture, WritersDestroyed, Failed, CallFails, Go, lifeVars,
      cbVars, MadeInv, ConfiguredId
<1>19. ASSUME StartCapture PROVE MadeInv'
  BY <1>19 DEF StartCapture, WritersDestroyed, Failed, CallFails, Go, lifeVars,
      cbVars, MadeInv, ConfiguredId
<1>20. ASSUME BringUpDone PROVE MadeInv'
  BY <1>20 DEF BringUpDone, Go, envVars, cardVars, flowVars, cbVars, MadeInv
<1>21. ASSUME BackoffOver PROVE MadeInv'
  BY <1>21 DEF BackoffOver, Go, envVars, cardVars, lifeVars, flowVars, statusVars,
      cbVars, MadeInv
<1>22. ASSUME CheckPending PROVE MadeInv'
  BY <1>22 DEF CheckPending, Go, envVars, cardVars, lifeVars, cbVars, MadeInv
<1>23. ASSUME ChangeMode PROVE MadeInv'
  BY <1>23 DEF ChangeMode, CallFails, TearDown, Go, flowVars, statusVars, cbVars,
      MadeInv
<1>24. ASSUME SwitchMode PROVE MadeInv'
  BY <1>24 DEF SwitchMode, Go, envVars, cardVars, lifeVars, statusVars, cbVars,
      MadeInv
<1>25. ASSUME ReleaseWriters PROVE MadeInv'
  BY <1>25 DEF ReleaseWriters, Go, envVars, cardVars, lifeVars, statusVars, cbVars,
      MadeInv, ConfiguredId
<1>26. ASSUME GraceOver PROVE MadeInv'
  BY <1>26 DEF GraceOver, Go, envVars, cardVars, lifeVars, statusVars, cbVars,
      TypeOK, CountTypes, MadeInv
<1>27. ASSUME SwapCreate PROVE MadeInv'
  BY <1>27 DEF SwapCreate, WritersCreated, WritersPartlyCreated, TearDown,
      DerivedId, Go, statusVars, cbVars, ModeInv, SwapPcs, MadeInv
<1>28. ASSUME PublishFlow PROVE MadeInv'
  BY <1>28 DEF PublishFlow, DerivedId, Go, envVars, cardVars, lifeVars, flowVars,
      cbVars, MadeInv
<1>29. ASSUME TornDown PROVE MadeInv'
  BY <1>29 DEF TornDown, WritersDestroyed, Go, envVars, lifeVars, statusVars,
      cbVars, MadeInv, ConfiguredId
<1>30. ASSUME LoopUp PROVE MadeInv'
  BY <1>30 DEF LoopUp, Go, envVars, cardVars, lifeVars, flowVars, statusVars,
      cbVars, MadeInv
<1>31. ASSUME LoopEnds PROVE MadeInv'
  BY <1>31 DEF LoopEnds, TearDown, Go, envVars, flowVars, statusVars, cbVars,
      MadeInv
<1>32. ASSUME CheckLoss PROVE MadeInv'
  BY <1>32 DEF CheckLoss, Go, envVars, cardVars, lifeVars, flowVars, statusVars,
      cbVars, MadeInv
<1>33. ASSUME ResetStreams PROVE MadeInv'
  BY <1>33 DEF ResetStreams, Go, envVars, cardVars, lifeVars, flowVars, statusVars,
      cbVars, MadeInv
<1>34. ASSUME RestartLoss PROVE MadeInv'
  BY <1>34 DEF RestartLoss, Go, envVars, cardVars, lifeVars, flowVars, cbVars,
      MadeInv
<1>35. ASSUME UNCHANGED vars PROVE MadeInv'
  BY <1>35 DEF vars, envVars, cardVars, lifeVars, supVars, flowVars, statusVars,
      cbVars, MadeInv
<1> QED
  BY <1>1, <1>2, <1>3, <1>4, <1>5, <1>6, <1>7, <1>8, <1>9, <1>10, <1>11, <1>12,
      <1>13, <1>14, <1>15, <1>16, <1>17, <1>18, <1>19, <1>20, <1>21, <1>22, <1>23,
      <1>24, <1>25, <1>26, <1>27, <1>28, <1>29, <1>30, <1>31, <1>32, <1>33, <1>34,
      <1>35 DEF Next, Environment, Callbacks, Frames, CallbackRuns, Supervisor,
      BringingUp, Swapping, Looping, Ended

\* Frames and writers.
LEMMA FitStep ==
  ASSUME Inv, FitInv, [Next]_vars
  PROVE  FitInv'
<1> USE ConstantsOK DEF ConstantsOK, madeVars
<1>1. ASSUME SignalChanges PROVE FitInv'
  BY <1>1 DEF SignalChanges, cardVars, lifeVars, supVars, flowVars, statusVars,
      cbVars, Inv, FitInv, Down, PassPcs, SwapPcs
<1>2. ASSUME TimeoutPasses PROVE FitInv'
  BY <1>2 DEF TimeoutPasses, envVars, cardVars, lifeVars, supVars, flowVars, cbVars,
      Inv, FitInv, Down, PassPcs, SwapPcs
<1>3. ASSUME Stop PROVE FitInv'
  BY <1>3 DEF Stop, envVars, cardVars, supVars, flowVars, statusVars, cbVars, Inv,
      FitInv, Down, PassPcs, SwapPcs
<1>4. ASSUME Recreate PROVE FitInv'
  BY <1>4 DEF Recreate, envVars, cardVars, cbVars, Inv, FitInv, SessionInv, Down,
      Empty, PassPcs, SwapPcs, NoWriters
<1>5. ASSUME FrameNoSource PROVE FitInv'
  BY <1>5 DEF FrameNoSource, envVars, cardVars, lifeVars, supVars, flowVars, cbVars,
      Inv, FitInv, Down, PassPcs, SwapPcs
<1>6. ASSUME FrameArrives PROVE FitInv'
  BY <1>6 DEF FrameArrives, envVars, cardVars, lifeVars, supVars, flowVars, cbVars,
      Inv, FitInv, Down, PassPcs, SwapPcs
<1>7. ASSUME FormatChange PROVE FitInv'
  BY <1>7 DEF FormatChange, ModeDetected, envVars, lifeVars, supVars, statusVars,
      Inv, FitInv, Down, PassPcs, SwapPcs
<1>8. ASSUME FrameLocks PROVE FitInv'
  BY <1>8 DEF FrameLocks, envVars, cardVars, lifeVars, supVars, statusVars, Inv,
      FitInv, Down, PassPcs, SwapPcs
<1>9. ASSUME FrameWritten PROVE FitInv'
  BY <1>9 DEF FrameWritten, envVars, cardVars, lifeVars, supVars, statusVars, Inv,
      FitInv, Down, PassPcs, SwapPcs
<1>10. ASSUME FormatChangePosted PROVE FitInv'
  BY <1>10 DEF FormatChangePosted, envVars, cardVars, lifeVars, supVars, statusVars,
      Inv, TypeOK, PcTypes, FlagTypes, ModeTypes, ModeInv, FitInv, SupPcs,
      SessionInv, LockInv, Down, Empty, PassPcs, SwapPcs, NoWriters
<1>11. ASSUME HousekeepingStart PROVE FitInv'
  BY <1>11 DEF HousekeepingStart, envVars, cardVars, lifeVars, supVars, flowVars,
      statusVars, cbVars, Inv, FitInv, Down, PassPcs, SwapPcs
<1>12. ASSUME HousekeepingEnd PROVE FitInv'
  BY <1>12 DEF HousekeepingEnd, envVars, cardVars, lifeVars, supVars, flowVars,
      statusVars, cbVars, Inv, FitInv, Down, PassPcs, SwapPcs
<1>13. ASSUME BringUp PROVE FitInv'
  BY <1>13 DEF BringUp, Go, envVars, cardVars, lifeVars, cbVars, Inv, FitInv,
      SessionInv, Down, Empty, PassPcs, SwapPcs
<1>14. ASSUME BringUpRefused PROVE FitInv'
  BY <1>14 DEF BringUpRefused, Failed, CallFails, Go, cardVars, lifeVars, cbVars,
      Inv, FitInv, SessionInv, Down, Empty, PassPcs, SwapPcs
<1>15. ASSUME BringUpCreate PROVE FitInv'
  <2>1. /\ sup = "bringCreate" /\ mode = StartMode /\ cb = "idle" /\ ~valid
        /\ UNCHANGED <<mode, cardMode, pending, cb, frame>>
    BY <1>15 DEF BringUpCreate, cardVars, cbVars, Inv, ModeInv, SessionInv, Down, Empty
  <2>2. CASE sup' = "open"
    <3>1. writers'.mode = StartMode /\ overtaken' = (pending # NoMode \/ cb # "idle")
      BY <1>15, <2>2 DEF BringUpCreate, WritersCreated, Go
    <3> QED
      BY <2>1, <2>2, <3>1 DEF FitInv, SwapPcs
  <2>3. CASE sup' # "open"
    BY <1>15, <2>1, <2>3 DEF BringUpCreate, WritersPartlyCreated, Go, FitInv, SwapPcs
  <2> QED
    BY <2>2, <2>3
<1>16. ASSUME BringUpThrew PROVE FitInv'
  BY <1>16 DEF BringUpThrew, WritersDestroyed, Failed, Go, envVars, lifeVars,
      cbVars, Inv, FitInv, SessionInv, Down, Empty, PassPcs, SwapPcs, NoWriters
<1>17. ASSUME OpenCapture PROVE FitInv'
  BY <1>17 DEF OpenCapture, WritersDestroyed, Failed, CallFails, Go, lifeVars,
      cbVars, Inv, FitInv, SessionInv, Down, Empty, PassPcs, SwapPcs, NoWriters
<1>18. ASSUME EnableCapture PROVE FitInv'
  <2>1. CASE sup' = "start"
    BY <1>18, <2>1 DEF EnableCapture, WritersDestroyed, Failed, CallFails, Go,
        lifeVars, cbVars, Inv, FitInv, SessionInv, Down, Empty, PassPcs, SwapPcs,
        NoWriters
  <2>2. CASE sup' # "start"
    BY <1>18, <2>2 DEF EnableCapture, WritersDestroyed, Failed, CallFails, Go,
        lifeVars, cbVars, Inv, FitInv, SessionInv, Down, Empty, PassPcs, SwapPcs,
        NoWriters
  <2> QED
    BY <2>1, <2>2
<1>19. ASSUME StartCapture PROVE FitInv'
  <2>1. CASE sup' = "up"
    BY <1>19, <2>1 DEF StartCapture, WritersDestroyed, Failed, CallFails, Go,
        lifeVars, cbVars, Inv, FitInv, SessionInv, Down, Empty, PassPcs, SwapPcs,
        NoWriters
  <2>2. CASE sup' # "up"
    BY <1>19, <2>2 DEF StartCapture, WritersDestroyed, Failed, CallFails, Go,
        lifeVars, cbVars, Inv, FitInv, SessionInv, Down, Empty, PassPcs, SwapPcs,
        NoWriters
  <2> QED
    BY <2>1, <2>2
<1>20. ASSUME BringUpDone PROVE FitInv'
  BY <1>20 DEF BringUpDone, Go, envVars, cardVars, flowVars, cbVars, Inv, FitInv,
      SessionInv, Down, Empty, PassPcs, SwapPcs
<1>21. ASSUME BackoffOver PROVE FitInv'
  BY <1>21 DEF BackoffOver, Go, envVars, cardVars, lifeVars, flowVars, statusVars,
      cbVars, Inv, FitInv, SessionInv, Down, Empty, PassPcs, SwapPcs
<1>22. ASSUME CheckPending PROVE FitInv'
  BY <1>22 DEF CheckPending, Go, envVars, cardVars, lifeVars, cbVars, Inv, FitInv,
      Down, PassPcs, SwapPcs
<1>23. ASSUME ChangeMode PROVE FitInv'
  BY <1>23 DEF ChangeMode, CallFails, TearDown, Go, flowVars, statusVars, cbVars,
      Inv, FitInv, Down, PassPcs, SwapPcs
<1>24. ASSUME SwitchMode PROVE FitInv'
  BY <1>24 DEF SwitchMode, Go, envVars, cardVars, lifeVars, statusVars, cbVars, Inv,
      FitInv, Down, PassPcs, SwapPcs
<1>25. ASSUME ReleaseWriters PROVE FitInv'
  BY <1>25 DEF ReleaseWriters, Go, envVars, cardVars, lifeVars, statusVars, cbVars,
      Inv, FitInv, Down, PassPcs, SwapPcs, NoWriters
<1>26. ASSUME GraceOver PROVE FitInv'
  BY <1>26 DEF GraceOver, Go, envVars, cardVars, lifeVars, statusVars, cbVars, Inv,
      FitInv, Down, PassPcs, SwapPcs
<1>27. ASSUME SwapCreate PROVE FitInv'
  <2>1. /\ sup = "swapCreate" /\ cardMode = change /\ mode = change
        /\ UNCHANGED <<mode, cardMode, pending, cb, frame>>
    BY <1>27 DEF SwapCreate, cbVars, FitInv
  <2>2. CASE sup' = "publish"
    <3>1. /\ writers'.mode = change /\ valid' = TRUE
          /\ overtaken' = (pending # NoMode \/ cb # "idle")
      BY <1>27, <2>2 DEF SwapCreate, WritersCreated, TearDown, Go
    <3> QED
      BY <2>1, <2>2, <3>1 DEF FitInv, SwapPcs
  <2>3. CASE sup' # "publish"
    <3>1. sup' = "swapTear" /\ UNCHANGED <<valid, overtaken>>
      BY <1>27, <2>3 DEF SwapCreate, WritersPartlyCreated, TearDown, Go
    <3>2. ~overtaken => ~valid
      BY <2>1 DEF FitInv, SwapPcs
    <3> QED
      BY <2>1, <3>1, <3>2 DEF FitInv, SwapPcs
  <2> QED
    BY <2>2, <2>3
<1>28. ASSUME PublishFlow PROVE FitInv'
  BY <1>28 DEF PublishFlow, DerivedId, Go, envVars, cardVars, lifeVars, flowVars,
      cbVars, Inv, FitInv, Down, PassPcs, SwapPcs
<1>29. ASSUME TornDown PROVE FitInv'
  BY <1>29 DEF TornDown, WritersDestroyed, Go, envVars, lifeVars, statusVars,
      cbVars, Inv, FitInv, SessionInv, Down, Empty, PassPcs, SwapPcs, NoWriters
<1>30. ASSUME LoopUp PROVE FitInv'
  BY <1>30 DEF LoopUp, Go, envVars, cardVars, lifeVars, flowVars, statusVars,
      cbVars, Inv, FitInv, Down, PassPcs, SwapPcs
<1>31. ASSUME LoopEnds PROVE FitInv'
  BY <1>31 DEF LoopEnds, TearDown, Go, envVars, flowVars, statusVars, cbVars, Inv,
      FitInv, Down, PassPcs, SwapPcs
<1>32. ASSUME CheckLoss PROVE FitInv'
  BY <1>32 DEF CheckLoss, Go, envVars, cardVars, lifeVars, flowVars, statusVars,
      cbVars, Inv, FitInv, Down, PassPcs, SwapPcs
<1>33. ASSUME ResetStreams PROVE FitInv'
  BY <1>33 DEF ResetStreams, Go, envVars, cardVars, lifeVars, flowVars, statusVars,
      cbVars, Inv, TypeOK, PcTypes, FlagTypes, ModeTypes, ModeInv, FitInv, SupPcs,
      SessionInv, LockInv, Down, Empty, PassPcs, SwapPcs, NoWriters
<1>34. ASSUME RestartLoss PROVE FitInv'
  BY <1>34 DEF RestartLoss, Go, envVars, cardVars, lifeVars, flowVars, cbVars, Inv,
      FitInv, Down, PassPcs, SwapPcs
<1>35. ASSUME UNCHANGED vars PROVE FitInv'
  BY <1>35 DEF vars, envVars, cardVars, lifeVars, supVars, flowVars, statusVars,
      cbVars, FitInv, Down, PassPcs, SwapPcs
<1> QED
  BY <1>1, <1>2, <1>3, <1>4, <1>5, <1>6, <1>7, <1>8, <1>9, <1>10, <1>11, <1>12,
      <1>13, <1>14, <1>15, <1>16, <1>17, <1>18, <1>19, <1>20, <1>21, <1>22, <1>23,
      <1>24, <1>25, <1>26, <1>27, <1>28, <1>29, <1>30, <1>31, <1>32, <1>33, <1>34,
      <1>35 DEF Next, Environment, Callbacks, Frames, CallbackRuns, Supervisor,
      BringingUp, Swapping, Looping, Ended

\* No step exchanges the writers under a frame.
LEMMA StayStep ==
  ASSUME Inv, cb = "writing", cb' = "writing", [Next]_vars
  PROVE  writers' = writers
<1> USE ConstantsOK DEF ConstantsOK, madeVars
<1>1. ASSUME SignalChanges PROVE writers' = writers
  BY <1>1 DEF SignalChanges, cardVars, lifeVars, supVars, flowVars, statusVars,
      cbVars, Inv, SessionInv, LockInv, Down, PassPcs
<1>2. ASSUME TimeoutPasses PROVE writers' = writers
  BY <1>2 DEF TimeoutPasses, envVars, cardVars, lifeVars, supVars, flowVars, cbVars,
      Inv, SessionInv, LockInv, Down, PassPcs
<1>3. ASSUME Stop PROVE writers' = writers
  BY <1>3 DEF Stop, envVars, cardVars, supVars, flowVars, statusVars, cbVars, Inv,
      SessionInv, LockInv, Down, PassPcs
<1>4. ASSUME Recreate PROVE writers' = writers
  BY <1>4 DEF Recreate, envVars, cardVars, cbVars, Inv, SessionInv, LockInv, Down,
      PassPcs
<1>5. ASSUME FrameNoSource PROVE writers' = writers
  BY <1>5 DEF FrameNoSource, envVars, cardVars, lifeVars, supVars, flowVars, cbVars,
      Inv, SessionInv, LockInv, Down, PassPcs
<1>6. ASSUME FrameArrives PROVE writers' = writers
  BY <1>6 DEF FrameArrives, envVars, cardVars, lifeVars, supVars, flowVars, cbVars,
      Inv, SessionInv, LockInv, Down, PassPcs
<1>7. ASSUME FormatChange PROVE writers' = writers
  BY <1>7 DEF FormatChange, ModeDetected, envVars, lifeVars, supVars, statusVars,
      Inv, SessionInv, LockInv, Down, PassPcs
<1>8. ASSUME FrameLocks PROVE writers' = writers
  BY <1>8 DEF FrameLocks, envVars, cardVars, lifeVars, supVars, statusVars, Inv,
      SessionInv, LockInv, Down, PassPcs
<1>9. ASSUME FrameWritten PROVE writers' = writers
  BY <1>9 DEF FrameWritten, envVars, cardVars, lifeVars, supVars, statusVars, Inv,
      SessionInv, LockInv, Down, PassPcs
<1>10. ASSUME FormatChangePosted PROVE writers' = writers
  BY <1>10 DEF FormatChangePosted, envVars, cardVars, lifeVars, supVars, statusVars,
      Inv, SessionInv, LockInv, Down, PassPcs
<1>11. ASSUME HousekeepingStart PROVE writers' = writers
  BY <1>11 DEF HousekeepingStart, envVars, cardVars, lifeVars, supVars, flowVars,
      statusVars, cbVars, Inv, SessionInv, LockInv, Down, PassPcs
<1>12. ASSUME HousekeepingEnd PROVE writers' = writers
  BY <1>12 DEF HousekeepingEnd, envVars, cardVars, lifeVars, supVars, flowVars,
      statusVars, cbVars, Inv, SessionInv, LockInv, Down, PassPcs
<1>13. ASSUME BringUp PROVE writers' = writers
  BY <1>13 DEF BringUp, Go, envVars, cardVars, lifeVars, cbVars, Inv, SessionInv,
      LockInv, Down, PassPcs
<1>14. ASSUME BringUpRefused PROVE writers' = writers
  BY <1>14 DEF BringUpRefused, Failed, CallFails, Go, cardVars, lifeVars, cbVars,
      Inv, SessionInv, LockInv, Down, PassPcs
<1>15. ASSUME BringUpCreate PROVE writers' = writers
  BY <1>15 DEF BringUpCreate, WritersCreated, WritersPartlyCreated, Go, cardVars,
      lifeVars, statusVars, cbVars, Inv, SessionInv, LockInv, Down, PassPcs
<1>16. ASSUME BringUpThrew PROVE writers' = writers
  BY <1>16 DEF BringUpThrew, WritersDestroyed, Failed, Go, envVars, lifeVars,
      cbVars, Inv, SessionInv, LockInv, Down, PassPcs
<1>17. ASSUME OpenCapture PROVE writers' = writers
  BY <1>17 DEF OpenCapture, WritersDestroyed, Failed, CallFails, Go, lifeVars,
      cbVars, Inv, SessionInv, LockInv, Down, PassPcs
<1>18. ASSUME EnableCapture PROVE writers' = writers
  BY <1>18 DEF EnableCapture, WritersDestroyed, Failed, CallFails, Go, lifeVars,
      cbVars, Inv, SessionInv, LockInv, Down, PassPcs
<1>19. ASSUME StartCapture PROVE writers' = writers
  BY <1>19 DEF StartCapture, WritersDestroyed, Failed, CallFails, Go, lifeVars,
      cbVars, Inv, SessionInv, LockInv, Down, PassPcs
<1>20. ASSUME BringUpDone PROVE writers' = writers
  BY <1>20 DEF BringUpDone, Go, envVars, cardVars, flowVars, cbVars, Inv,
      SessionInv, LockInv, Down, PassPcs
<1>21. ASSUME BackoffOver PROVE writers' = writers
  BY <1>21 DEF BackoffOver, Go, envVars, cardVars, lifeVars, flowVars, statusVars,
      cbVars, Inv, SessionInv, LockInv, Down, PassPcs
<1>22. ASSUME CheckPending PROVE writers' = writers
  BY <1>22 DEF CheckPending, Go, envVars, cardVars, lifeVars, cbVars, Inv,
      SessionInv, LockInv, Down, PassPcs
<1>23. ASSUME ChangeMode PROVE writers' = writers
  BY <1>23 DEF ChangeMode, CallFails, TearDown, Go, flowVars, statusVars, cbVars,
      Inv, SessionInv, LockInv, Down, PassPcs
<1>24. ASSUME SwitchMode PROVE writers' = writers
  BY <1>24 DEF SwitchMode, Go, envVars, cardVars, lifeVars, statusVars, cbVars, Inv,
      SessionInv, LockInv, Down, PassPcs
<1>25. ASSUME ReleaseWriters PROVE writers' = writers
  BY <1>25 DEF ReleaseWriters, Go, envVars, cardVars, lifeVars, statusVars, cbVars,
      Inv, SessionInv, LockInv, Down, PassPcs
<1>26. ASSUME GraceOver PROVE writers' = writers
  BY <1>26 DEF GraceOver, Go, envVars, cardVars, lifeVars, statusVars, cbVars, Inv,
      SessionInv, LockInv, Down, PassPcs
<1>27. ASSUME SwapCreate PROVE writers' = writers
  BY <1>27 DEF SwapCreate, WritersCreated, WritersPartlyCreated, TearDown,
      DerivedId, Go, statusVars, cbVars, Inv, SessionInv, LockInv, Down, PassPcs
<1>28. ASSUME PublishFlow PROVE writers' = writers
  BY <1>28 DEF PublishFlow, DerivedId, Go, envVars, cardVars, lifeVars, flowVars,
      cbVars, Inv, SessionInv, LockInv, Down, PassPcs
<1>29. ASSUME TornDown PROVE writers' = writers
  BY <1>29 DEF TornDown, WritersDestroyed, Go, envVars, lifeVars, statusVars,
      cbVars, Inv, SessionInv, LockInv, Down, PassPcs
<1>30. ASSUME LoopUp PROVE writers' = writers
  BY <1>30 DEF LoopUp, Go, envVars, cardVars, lifeVars, flowVars, statusVars,
      cbVars, Inv, SessionInv, LockInv, Down, PassPcs
<1>31. ASSUME LoopEnds PROVE writers' = writers
  BY <1>31 DEF LoopEnds, TearDown, Go, envVars, flowVars, statusVars, cbVars, Inv,
      SessionInv, LockInv, Down, PassPcs
<1>32. ASSUME CheckLoss PROVE writers' = writers
  BY <1>32 DEF CheckLoss, Go, envVars, cardVars, lifeVars, flowVars, statusVars,
      cbVars, Inv, SessionInv, LockInv, Down, PassPcs
<1>33. ASSUME ResetStreams PROVE writers' = writers
  BY <1>33 DEF ResetStreams, Go, envVars, cardVars, lifeVars, flowVars, statusVars,
      cbVars, Inv, SessionInv, LockInv, Down, PassPcs
<1>34. ASSUME RestartLoss PROVE writers' = writers
  BY <1>34 DEF RestartLoss, Go, envVars, cardVars, lifeVars, flowVars, cbVars, Inv,
      SessionInv, LockInv, Down, PassPcs
<1>35. ASSUME UNCHANGED vars PROVE writers' = writers
  BY <1>35 DEF vars, envVars, cardVars, lifeVars, supVars, flowVars, statusVars,
      cbVars
<1> QED
  BY <1>1, <1>2, <1>3, <1>4, <1>5, <1>6, <1>7, <1>8, <1>9, <1>10, <1>11, <1>12,
      <1>13, <1>14, <1>15, <1>16, <1>17, <1>18, <1>19, <1>20, <1>21, <1>22, <1>23,
      <1>24, <1>25, <1>26, <1>27, <1>28, <1>29, <1>30, <1>31, <1>32, <1>33, <1>34,
      <1>35 DEF Next, Environment, Callbacks, Frames, CallbackRuns, Supervisor,
      BringingUp, Swapping, Looping, Ended

-----------------------------------------------------------------------------
(* The theorems.                                                           *)

\* The inductive invariant holds initially.
LEMMA InitInv ==
  ASSUME Init
  PROVE  Inv /\ MadeInv /\ FitInv
<1> USE ConstantsOK DEF ConstantsOK, Init
<1>1. FlagTypes /\ PcTypes
  BY DEF FlagTypes, PcTypes, SupPcs
<1>2. CountTypes /\ ModeTypes
  BY DEF CountTypes, ModeTypes
<1>3. FlowTypes
  BY DEF FlowTypes, WriterSets, FlowIds, NoWriters, ConfiguredId
<1>4. SessionInv /\ LockInv /\ ModeInv
  BY DEF SessionInv, LockInv, ModeInv, Down, Empty, PassPcs, SwapPcs
<1>5. MadeInv
  BY DEF MadeInv
<1>6. FitInv
  BY DEF FitInv, Down, PassPcs, SwapPcs
<1> QED
  BY <1>1, <1>2, <1>3, <1>4, <1>5, <1>6 DEF Inv, TypeOK

\* The inductive invariant: where the supervisor is tells which threads may run
\* and what the channel owns.
THEOREM Invariance == Spec => []Inv
<1>1. Init => Inv
  BY InitInv
<1>2. Inv /\ [Next]_vars => Inv'
  BY TypeStep, SessionStep, ModeStep DEF Inv
<1> QED
  BY <1>1, <1>2, PTL DEF Spec

\* Every reachable state of an input channel is well typed.
THEOREM InputTypeCorrect == Spec => []TypeOK
<1>1. Inv => TypeOK
  BY DEF Inv
<1> QED
  BY <1>1, Invariance, PTL

\* Every error path of bringUp, performFormatChange and stop leaves no session,
\* no flow and no callback behind.
THEOREM DownIsClean == Spec => []DownHoldsNothing
<1>1. Inv => DownHoldsNothing
  BY DEF Inv, SessionInv, LockInv, Down, Empty, PassPcs, DownHoldsNothing, TypeOK, PcTypes
<1> QED
  BY <1>1, Invariance, PTL

\* The signature performFormatChange derives ids from never gives one id to flows
\* of two modes, also when a new channel object starts counting again.
THEOREM FlowsKeepTheirMode == Spec => []FlowKeepsMode
<1>1. Init => MadeInv
  BY InitInv
<1>2. Inv /\ MadeInv /\ [Next]_vars => MadeInv'
  BY MadeStep DEF Inv
<1>3. MadeInv => FlowKeepsMode
  BY DEF MadeInv, FlowKeepsMode, ConfiguredId
<1> QED
  BY <1>1, <1>2, <1>3, Invariance, PTL DEF Spec

\* destroyWriters and createWriters never exchange the writers handleFrame is
\* writing to.
THEOREM WritersStayWhileWritten == Spec => WritersStay
<1>1. Inv /\ [Next]_vars
        => [cb = "writing" /\ cb' = "writing" => writers' = writers]_vars
  BY StayStep
<1> QED
  BY <1>1, Invariance, PTL DEF Spec, WritersStay

\* Every frame handleFrame writes has the mode of the writers and of
\* _currentMode, through overlapping changes, failed exchanges and bring-ups,
\* unless its writers were made valid over a change already reported.
THEOREM FramesFit == Spec => []FrameFitsWriters
<1>1. Init => FitInv
  BY InitInv
<1>2. Inv /\ FitInv /\ [Next]_vars => FitInv'
  BY FitStep
<1>3. Inv /\ FitInv => FrameFitsWriters
  BY DEF Inv, SessionInv, Down, FitInv, FrameFitsWriters
<1> QED
  BY <1>1, <1>2, <1>3, Invariance, PTL DEF Spec

=============================================================================
