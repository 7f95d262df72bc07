-------------------------- MODULE LifecycleProofs --------------------------
(***************************************************************************)
(* What holds of Lifecycle for any settings, ids and numbers of retries,   *)
(* profile changes and lives: the types, that no thread uses what main has *)
(* destroyed, what an exit code tells, and that a domain keeps its id.     *)
(***************************************************************************)
EXTENDS Lifecycle, SequenceTheorems, TLAPS

\* The orders of ending are sequences of stages.
LEMMA Orders ==
  /\ Shutdown \in Seq(Stages) /\ Unwinding \in Seq(Stages)
  /\ <<"node", "notify", "join">> \o Unwinding \in Seq(Stages)
<1>1. Shutdown \in Seq(Stages) /\ Unwinding \in Seq(Stages)
  BY DEF Shutdown, Unwinding, Stages
<1>2. <<"node", "notify", "join">> \in Seq(Stages)
  BY DEF Stages
<1> QED
  BY <1>1, <1>2

\* Main goes on from one step of the start to the next.
LEMMA GoesTo ==
  ASSUME TypeOK,
         NEW pc \in {"domain", "adopt", "instance", "card", "gaveUp", "manager", "start", "running"},
         GoTo(pc)
  PROVE  TypeOK'
  BY DEF TypeOK, GoTo, driver, threads

\* Main returns early.
LEMMA GivesUp ==
  ASSUME TypeOK, NEW c \in {75, 143}, GiveUp(c)
  PROVE  TypeOK'
  BY Orders DEF TypeOK, GiveUp, Return, driver, threads

\* The process is gone.
LEMMA IsGone ==
  ASSUME TypeOK, NEW c \in {None, 2, 75, 78, 143, 137}, Gone(c)
  PROVE  TypeOK'
<1>1. stages' \in Seq(Stages) /\ tries' \in 0..(MaxRetries + 1)
  BY LifecycleAssumption DEF Gone
<1> QED
  BY <1>1 DEF TypeOK, Gone

\* The callbacks of a change, one manager or more, stay countable.
LEMMA MoreCallbacks ==
  ASSUME TypeOK, \E n \in 1..cfg.managers : activations' = activations + n
  PROVE  activations' \in Nat
<1>1. PICK n \in 1..cfg.managers : activations' = activations + n
  OBVIOUS
<1>2. cfg.managers \in Nat /\ activations \in Nat
  BY LifecycleAssumption DEF TypeOK, Setting
<1> QED
  BY <1>1, <1>2

\* The start keeps the types.
LEMMA StartTypes ==
  ASSUME TypeOK,
         \/ ReadConfig \/ AdoptDomain \/ WriteDomainDef \/ CreateInstance \/ OpenCard \/ NoCard
         \/ ApplyProfile \/ MakeManager \/ StartNode \/ NodeReady \/ StartAll \/ StartWeb
         \/ CheckPorts \/ LeaveLoop
  PROVE  TypeOK'
<1> USE LifecycleAssumption, Orders DEF TypeOK, driver, threads
<1>1. CASE ReadConfig
  BY <1>1, GoesTo, GivesUp, IsGone DEF ReadConfig
<1>2. CASE AdoptDomain
  <2>1. CASE GoTo("instance")
    BY <2>1, GoesTo
  <2>2. CASE Gone(78)
    BY <2>2, IsGone
  <2>3. CASE Gone(75)
    BY <2>3, IsGone
  <2>4. CASE main' = "adopt" /\ dir' = "torn"
                /\ UNCHANGED <<cfg, stages, code, obj, card, run, tries, signal, changed, driver,
                               threads, dog, lives>>
    BY <1>2, <2>4
  <2> QED
    BY <1>2, <2>1, <2>2, <2>3, <2>4 DEF AdoptDomain
<1>3. CASE WriteDomainDef
  <2>1. dir' \in Ids
    BY <1>3 DEF WriteDomainDef, Setting
  <2> QED
    BY <1>3, <2>1 DEF WriteDomainDef
<1>4. CASE CreateInstance
  <2>1. CASE Gone(75)
    BY <2>1, IsGone
  <2>2. CASE obj' = obj \cup {"domain"} /\ main' = "card"
                /\ UNCHANGED <<cfg, dir, stages, code, card, run, tries, signal, changed, driver,
                               threads, dog, lives>>
    BY <1>4, <2>2
  <2> QED
    BY <1>4, <2>1, <2>2 DEF CreateInstance
<1>5. CASE OpenCard
  <2>1. CASE GoTo("gaveUp")
    BY <2>1, GoesTo
  <2>2. CASE /\ ~signal /\ tries <= MaxRetries
                /\ \/ card' = "sdk" /\ main' = "profile" /\ UNCHANGED tries
                   \/ tries' = tries + 1 /\ UNCHANGED <<card, main>>
                /\ UNCHANGED <<cfg, dir, stages, code, obj, run, signal, changed, driver, threads,
                               dog, lives>>
    BY <1>5, <2>2
  <2> QED
    BY <1>5, <2>1, <2>2 DEF OpenCard
<1>6. CASE NoCard
  <2>1. CASE GiveUp(143)
    BY <2>1, GivesUp
  <2>2. CASE GiveUp(75)
    BY <2>2, GivesUp
  <2>3. CASE card' = "mock" /\ main' = "manager"
                /\ UNCHANGED <<cfg, dir, stages, code, obj, run, tries, signal, changed, driver,
                               threads, dog, lives>>
    BY <1>6, <2>3
  <2> QED
    BY <1>6, <2>1, <2>2, <2>3 DEF NoCard
<1>7. CASE ApplyProfile
  <2>1. CASE GoTo("manager")
    BY <2>1, GoesTo
  <2>2. CASE GiveUp(75)
    BY <2>2, GivesUp
  <2>3. CASE /\ self' = TRUE /\ \E n \in 1..cfg.managers : activations' = activations + n
                /\ main' = "manager"
                /\ UNCHANGED <<cfg, dir, stages, code, obj, card, run, tries, signal, changed,
                               changes, threads, dog, lives>>
    <3>1. activations' \in Nat
      BY <2>3, MoreCallbacks
    <3> QED
      BY <1>7, <2>3, <3>1
  <2> QED
    BY <1>7, <2>1, <2>2, <2>3 DEF ApplyProfile
<1>8. CASE MakeManager
  BY <1>8, GoesTo, GivesUp, IsGone DEF MakeManager
<1>9. CASE StartNode
  BY <1>9, GoesTo, GivesUp, IsGone DEF StartNode
<1>10. CASE NodeReady
  <2>1. CASE GoTo("start")
    BY <2>1, GoesTo
  <2>2. CASE /\ main' = "stopping" /\ code' = 75
                /\ stages' = <<"node", "notify", "join">> \o Unwinding
                /\ UNCHANGED <<cfg, dir, obj, card, run, tries, signal, changed, driver, threads,
                               dog, lives>>
    BY <1>10, <2>2
  <2> QED
    BY <1>10, <2>1, <2>2 DEF NodeReady
<1>11. CASE StartAll
  <2>1. run' \in BOOLEAN
    BY <1>11 DEF StartAll, Setting
  <2> QED
    BY <1>11, <2>1 DEF StartAll
<1>12. CASE StartWeb
  <2>1. CASE GiveUp(75)
    BY <2>1, GivesUp
  <2>2. CASE /\ web' = "idle" /\ main' = "ports"
                /\ UNCHANGED <<cfg, dir, stages, code, obj, card, run, tries, signal, changed,
                               driver, hk, worker, jobStop, input, dog, lives>>
    BY <1>12, <2>2
  <2> QED
    BY <1>12, <2>1, <2>2 DEF StartWeb
<1>13. CASE CheckPorts
  BY <1>13, GoesTo, GivesUp, IsGone DEF CheckPorts
<1>14. CASE LeaveLoop
  BY <1>14, GoesTo, GivesUp, IsGone DEF LeaveLoop, Shutdown
<1> QED
  BY <1>1, <1>2, <1>3, <1>4, <1>5, <1>6, <1>7, <1>8, <1>9, <1>10, <1>11, <1>12, <1>13, <1>14

\* What is left to do after a stage is a sequence of stages.
LEMMA Rest ==
  ASSUME TypeOK, stages # <<>>
  PROVE  Tail(stages) \in Seq(Stages)
  BY DEF TypeOK

\* So do the stages of the shutdown and of the unwinding.
LEMMA StageTypes ==
  ASSUME TypeOK,
         \/ StopChannels \/ StopJobs \/ NotifyWorker \/ JoinWorker \/ FreeNode \/ StopWeb
         \/ StopHousekeeping \/ DestroyInstance \/ CleanUp \/ ReleaseCard
  PROVE  TypeOK'
<1> USE DEF TypeOK, driver, threads
<1>1. CASE StopChannels
  <2>1. stages' \in Seq(Stages)
    BY <1>1, Rest DEF StopChannels, AtStage, Done
  <2>2. obj' \subseteq {"domain", "channels", "node"}
    BY <1>1 DEF StopChannels
  <2>3. /\ run' \in BOOLEAN
        /\ UNCHANGED <<cfg, dir, main, code, card, tries, signal, changed, driver, threads, dog,
                       lives>>
    BY <1>1 DEF StopChannels, Done
  <2> QED
    BY <2>1, <2>2, <2>3
<1>2. CASE StopJobs
  BY <1>2, Rest DEF StopJobs, AtStage, Done
<1>3. CASE NotifyWorker
  BY <1>3, Rest DEF NotifyWorker, AtStage, Done
<1>4. CASE JoinWorker
  BY <1>4, Rest DEF JoinWorker, AtStage, Done
<1>5. CASE FreeNode
  BY <1>5, Rest DEF FreeNode, AtStage, Done
<1>6. CASE StopWeb
  BY <1>6, Rest DEF StopWeb, AtStage, Done
<1>7. CASE StopHousekeeping
  BY <1>7, Rest DEF StopHousekeeping, AtStage, Done
<1>8. CASE DestroyInstance
  BY <1>8, Rest DEF DestroyInstance, AtStage, Done
<1>9. CASE CleanUp
  BY <1>9, Rest DEF CleanUp, AtStage, Done
<1>10. CASE ReleaseCard
  BY <1>10, Rest DEF ReleaseCard, AtStage, Done
<1> QED
  BY <1>1, <1>2, <1>3, <1>4, <1>5, <1>6, <1>7, <1>8, <1>9, <1>10

\* So do a new process, the other threads and the outside world.
LEMMA ThreadTypes ==
  ASSUME TypeOK,
         \/ Boot \/ HousekeepingLoop \/ Request \/ ReadyGate \/ GateLeft \/ Answered
         \/ PeerBlocks \/ WorkerLoop \/ JobArrives \/ HandlerCalled \/ HandlerDone \/ Signal
         \/ ProfileChanges \/ ProfileActivated
  PROVE  TypeOK'
<1> USE LifecycleAssumption DEF TypeOK, driver, threads
<1>1. CASE Boot
  BY <1>1 DEF Boot
<1>2. CASE HousekeepingLoop
  BY <1>2 DEF HousekeepingLoop
<1>3. CASE Request
  BY <1>3 DEF Request, WebStep
<1>4. CASE Answered
  BY <1>4 DEF Answered, WebStep
<1>5. CASE PeerBlocks
  BY <1>5 DEF PeerBlocks, WebStep
<1>6. CASE WorkerLoop
  <2>1. worker' \in {"off", "top", "checked", "asleep", "job", "ended"}
    BY <1>6 DEF WorkerLoop, WorkerStep
  <2>2. UNCHANGED <<cfg, dir, main, stages, code, obj, card, run, tries, signal, changed,
                    driver, hk, web, jobStop, input, dog, lives>>
    BY <1>6 DEF WorkerLoop, WorkerStep
  <2> QED
    BY <2>1, <2>2
<1>7. CASE JobArrives
  BY <1>7 DEF JobArrives, WorkerStep
<1>8. CASE HandlerCalled
  BY <1>8 DEF HandlerCalled, InputStep
<1>9. CASE HandlerDone
  BY <1>9 DEF HandlerDone, InputStep
<1>10. CASE Signal
  BY <1>10 DEF Signal
<1>11. CASE ProfileChanges
  <2>1. activations' \in Nat
    BY <1>11, MoreCallbacks DEF ProfileChanges
  <2> QED
    BY <1>11, <2>1 DEF ProfileChanges
<1>12. CASE ProfileActivated
  <2>1. changed' \in BOOLEAN
    BY <1>12 DEF ProfileActivated
  <2>2. activations' \in Nat
    BY <1>12 DEF ProfileActivated
  <2>3. /\ self' \in BOOLEAN
        /\ UNCHANGED <<cfg, dir, main, stages, code, obj, card, run, tries, signal, changes,
                       threads, dog, lives>>
    BY <1>12 DEF ProfileActivated
  <2> QED
    BY <2>1, <2>2, <2>3
<1>13. CASE ReadyGate
  BY <1>13 DEF ReadyGate, WebStep
<1>14. CASE GateLeft
  BY <1>14 DEF GateLeft, WebStep
<1> QED
  BY <1>1, <1>2, <1>3, <1>4, <1>5, <1>6, <1>7, <1>8, <1>9, <1>10, <1>11, <1>12, <1>13, <1>14

\* The types hold at first, and no step loses them.
LEMMA InitTypes ==
  ASSUME Init
  PROVE  TypeOK
<1>1. /\ stages \in Seq(Stages) /\ tries \in 0..(MaxRetries + 1) /\ activations \in Nat
      /\ changes \in 0..MaxChanges /\ lives \in 0..MaxLives
  BY LifecycleAssumption DEF Init
<1> QED
  BY <1>1 DEF Init, TypeOK

\* Every step keeps the types, however the process ends.
LEMMA NextTypes ==
  ASSUME TypeOK, [Next]_vars
  PROVE  TypeOK'
<1>1. ASSUME Ends \/ WatchdogFires \/ Killed
      PROVE  TypeOK'
  <2>1. code \in {None, 2, 75, 78, 143, 137}
    BY DEF TypeOK
  <2> QED
    BY <1>1, <2>1, IsGone DEF Ends, WatchdogFires, Killed
<1>2. CASE UNCHANGED vars
  BY <1>2 DEF TypeOK, vars, driver, threads
<1> QED
  BY <1>1, <1>2, StartTypes, StageTypes, ThreadTypes DEF Next, MainSteps

(***************************************************************************)
(* The process is in a well-typed state at every moment of every life: its *)
(* exit codes are those of SPECIFICATION 3.9 or a kill, the card is opened *)
(* at most one more time than there are retries.                           *)
(***************************************************************************)
THEOREM LifecycleTypes == Spec => []TypeOK
<1>1. Init => TypeOK
  BY InitTypes
<1>2. TypeOK /\ [Next]_vars => TypeOK'
  BY NextTypes
<1> QED
  BY <1>1, <1>2, PTL DEF Spec

-----------------------------------------------------------------------------
(***************************************************************************)
(* What is alive.  The stages of an ending are a fixed order, so how many  *)
(* of them are left tells which of them are still ahead: in the shutdown,  *)
(* which has a watchdog, and in the unwinding, which has none.             *)
(***************************************************************************)

\* The longest unwinding: a node that does not start stops itself first.
LongUnwinding ==
  <<"node", "notify", "join", "web", "hk", "node", "notify", "join", "freeNode",
    "channels", "card", "domain", "end">>

\* How many stages are left.
Left == Len(stages)

\* They are the last ones of their order.
StageInv ==
  main = "stopping" =>
    IF dog
    THEN /\ Left <= 11
         /\ \A i \in 1..Left : stages[i] = Shutdown[11 - Left + i]
    ELSE /\ Left <= 13
         /\ \A i \in 1..Left : stages[i] = LongUnwinding[13 - Left + i]

ChannelsAhead == Left >= IF dog THEN 11 ELSE 4
JoinAhead == Left >= IF dog THEN 8 ELSE 6
FreeNodeAhead == Left >= IF dog THEN 7 ELSE 5
WebAhead == Left >= IF dog THEN 6 ELSE 10
HkAhead == Left >= IF dog THEN 5 ELSE 9
DomainAhead == Left >= IF dog THEN 4 ELSE 2
CardAhead == Left >= IF dog THEN 2 ELSE 3

\* What the place of main in the start tells.
StartInv ==
  /\ main \in {"exited", "config", "domain", "adopt", "instance"} => obj = {} /\ card = "none"
  /\ main \in {"card", "gaveUp"} => obj = {"domain"} /\ card = "none"
  /\ main = "profile" => obj = {"domain"} /\ card = "sdk"
  /\ main = "manager" => obj = {"domain"} /\ card # "none"
  /\ main \in {"node", "ready", "start", "web", "ports", "running"} =>
       {"domain", "channels"} \subseteq obj /\ card # "none"
  /\ main = "ready" => "node" \in obj
  /\ main \in {"start", "web", "ports", "running"} /\ cfg.nmos => "node" \in obj
  /\ main \notin {"ports", "running", "stopping"} => web = "off"
  /\ main \notin {"ready", "start", "web", "ports", "running", "stopping"} => worker = "off"
  /\ run => main \in {"web", "ports", "running", "stopping"}
  /\ dog => main = "stopping"
  /\ main = "adopt" => dir = "torn"

\* A thread that is alive has what it uses, and the stage that ends it is ahead.
UseInv ==
  /\ hk # "off" => {"domain", "channels"} \subseteq obj /\ (main = "stopping" => HkAhead)
  /\ web # "off" => /\ {"domain", "channels"} \subseteq obj /\ card # "none"
                    /\ main = "stopping" => WebAhead
  /\ run => /\ {"domain", "channels"} \subseteq obj /\ card # "none"
            /\ main = "stopping" => ChannelsAhead
  /\ worker \notin {"off", "ended"} =>
       {"channels", "node"} \subseteq obj /\ (main = "stopping" => JoinAhead)
  /\ input = "handler" => run /\ cfg.nmos
  /\ web = "gate" => cfg.nmos /\ (dog \/ "node" \in obj)
  /\ dog /\ cfg.nmos /\ FreeNodeAhead => "node" \in obj
  /\ run /\ cfg.nmos /\ (main = "stopping" => FreeNodeAhead) => "node" \in obj

\* An object that is alive in the end has the stage that destroys it ahead, and
\* the exit code has its reason.
EndInv ==
  /\ main = "stopping" =>
       /\ "domain" \in obj => DomainAhead
       /\ "node" \in obj => FreeNodeAhead
       /\ card # "none" => CardAhead
       /\ code \in {2, 75, 143} /\ (code = 143 => signal) /\ (code = 2 => changed)
  /\ dog => (signal \/ changed) /\ code \in {2, 143}

Inv == TypeOK /\ StageInv /\ StartInv /\ UseInv /\ EndInv

\* The unwinding of a node that did not start is the long one.
LEMMA LongOrder ==
  LET c == <<"node", "notify", "join">> \o Unwinding
  IN  Len(c) = 13 /\ \A i \in 1..13 : c[i] = LongUnwinding[i]
<1> DEFINE p == <<"node", "notify", "join">>
           c == p \o Unwinding
<1>1. Len(p) = 3 /\ Len(Unwinding) = 10 /\ p \in Seq(Stages) /\ Unwinding \in Seq(Stages)
  BY DEF Unwinding, Stages
<1>2. \A i \in 1..3 : p[i] = LongUnwinding[i]
  BY DEF LongUnwinding
<1>3. \A i \in 4..13 : Unwinding[i - 3] = LongUnwinding[i]
  BY DEF Unwinding, LongUnwinding
<1> HIDE DEF p
<1>4. /\ Len(c) = Len(p) + Len(Unwinding)
      /\ \A i \in 1..Len(p) + Len(Unwinding) :
           c[i] = IF i <= Len(p) THEN p[i] ELSE Unwinding[i - Len(p)]
  BY <1>1, ConcatProperties, Zenon
<1> HIDE DEF c
<1>5. ASSUME NEW i \in 1..13 PROVE c[i] = LongUnwinding[i]
  <2>1. CASE i <= 3
    BY <1>1, <1>2, <1>4, <2>1
  <2>2. CASE i >= 4
    BY <1>1, <1>3, <1>4, <2>2
  <2> QED
    BY <2>1, <2>2
<1> QED
  BY <1>1, <1>4, <1>5 DEF p, c

\* An early return finds all stages of its order ahead.
LEMMA ShortOrder ==
  /\ Len(Unwinding) = 10 /\ \A i \in 1..10 : Unwinding[i] = LongUnwinding[3 + i]
  /\ Len(Shutdown) = 11
  BY DEF Unwinding, LongUnwinding, Shutdown

\* Where in its order a stage is.
LEMMA PlacesInShutdown ==
  \A k \in 1..11 :
    /\ Shutdown[k] = "channels" => k = 1
    /\ Shutdown[k] = "node" => k = 2
    /\ Shutdown[k] = "notify" => k = 3
    /\ Shutdown[k] = "join" => k = 4
    /\ Shutdown[k] = "freeNode" => k = 5
    /\ Shutdown[k] = "web" => k = 6
    /\ Shutdown[k] = "hk" => k = 7
    /\ Shutdown[k] = "domain" => k = 8
    /\ Shutdown[k] = "cleanup" => k = 9
    /\ Shutdown[k] = "card" => k = 10
    /\ Shutdown[k] = "end" => k = 11
  BY DEF Shutdown

\* Where each stage stands in the order of an early return.
LEMMA PlacesInUnwinding ==
  \A k \in 1..13 :
    /\ LongUnwinding[k] = "node" => k \in {1, 6}
    /\ LongUnwinding[k] = "notify" => k \in {2, 7}
    /\ LongUnwinding[k] = "join" => k \in {3, 8}
    /\ LongUnwinding[k] = "web" => k = 4
    /\ LongUnwinding[k] = "hk" => k = 5
    /\ LongUnwinding[k] = "freeNode" => k = 9
    /\ LongUnwinding[k] = "channels" => k = 10
    /\ LongUnwinding[k] = "card" => k = 11
    /\ LongUnwinding[k] = "domain" => k = 12
    /\ LongUnwinding[k] # "cleanup"
    /\ LongUnwinding[k] = "end" => k = 13
  BY DEF LongUnwinding

\* What Head and Tail are, in the words of the stages left.
LEMMA HeadAndTail ==
  ASSUME NEW q \in Seq(Stages), q # <<>>
  PROVE  /\ Len(q) \in Nat /\ Len(q) >= 1 /\ Head(q) = q[1]
         /\ Len(Tail(q)) = Len(q) - 1
         /\ \A i \in 1..Len(Tail(q)) : Tail(q)[i] = q[i + 1]
  OBVIOUS

\* The stage main is at tells how many are left.
LEMMA StagesLeft ==
  ASSUME Inv, NEW s, AtStage(s)
  PROVE  /\ Left \in Nat /\ Left >= 1
         /\ dog => Left <= 11 /\ s = Shutdown[12 - Left]
         /\ ~dog => Left <= 13 /\ s = LongUnwinding[14 - Left]
<1>1. stages \in Seq(Stages) /\ stages # <<>> /\ s = Head(stages) /\ StageInv
      /\ main = "stopping"
  BY DEF Inv, TypeOK, AtStage
<1>2. Left \in Nat /\ Left >= 1 /\ s = stages[1]
  BY <1>1, HeadAndTail DEF Left
<1>3. ASSUME dog PROVE Left <= 11 /\ s = Shutdown[12 - Left]
  <2>1. Left <= 11 /\ \A i \in 1..Left : stages[i] = Shutdown[11 - Left + i]
    BY <1>1, <1>3 DEF StageInv
  <2> QED
    BY <1>2, <2>1
<1>4. ASSUME ~dog PROVE Left <= 13 /\ s = LongUnwinding[14 - Left]
  <2>1. Left <= 13 /\ \A i \in 1..Left : stages[i] = LongUnwinding[13 - Left + i]
    BY <1>1, <1>4 DEF StageInv
  <2> QED
    BY <1>2, <2>1
<1> QED
  BY <1>2, <1>3, <1>4

\* At a stage, how many stages are left.
LEMMA StagesAhead ==
  ASSUME Inv, NEW s, AtStage(s)
  PROVE  /\ s = "channels" => Left = IF dog THEN 11 ELSE 4
         /\ s = "join" => Left \in IF dog THEN {8} ELSE {11, 6}
         /\ s = "freeNode" => Left = IF dog THEN 7 ELSE 5
         /\ s = "web" => Left = IF dog THEN 6 ELSE 10
         /\ s = "hk" => Left = IF dog THEN 5 ELSE 9
         /\ s = "domain" => Left = IF dog THEN 4 ELSE 2
         /\ s = "cleanup" => dog /\ Left = 3
         /\ s = "card" => Left = IF dog THEN 2 ELSE 3
         /\ s = "end" => Left = 1
         /\ s = "node" => Left \in IF dog THEN {10} ELSE {13, 8}
         /\ s = "notify" => Left \in IF dog THEN {9} ELSE {12, 7}
<1>1. Left \in Nat /\ Left >= 1
  BY StagesLeft
<1>2. CASE dog
  <2>1. Left <= 11 /\ s = Shutdown[12 - Left]
    BY <1>2, StagesLeft
  <2>2. 12 - Left \in 1..11
    BY <1>1, <2>1
  <2> QED
    BY <1>1, <1>2, <2>1, <2>2, PlacesInShutdown
<1>3. CASE ~dog
  <2>1. Left <= 13 /\ s = LongUnwinding[14 - Left]
    BY <1>3, StagesLeft
  <2>2. 14 - Left \in 1..13
    BY <1>1, <2>1
  <2> QED
    BY <1>1, <1>3, <2>1, <2>2, PlacesInUnwinding
<1> QED
  BY <1>2, <1>3

\* A stage that is done leaves the others as they were.
LEMMA StageDone ==
  ASSUME Inv, NEW s, AtStage(s), Done
  PROVE  StageInv' /\ Left' = Left - 1
<1>1. stages \in Seq(Stages) /\ stages # <<>> /\ stages' = Tail(stages) /\ StageInv
  BY DEF Inv, TypeOK, AtStage, Done
<1>2. main = "stopping" /\ main' = main /\ dog' = dog
  BY DEF AtStage, Done
<1>3. Left' = Left - 1 /\ \A i \in 1..Left' : stages'[i] = stages[i + 1]
  BY <1>1, HeadAndTail DEF Left
<1>4. Left \in Nat /\ Left >= 1
  BY StagesLeft
<1>5. CASE dog
  <2>1. Left <= 11 /\ \A i \in 1..Left : stages[i] = Shutdown[11 - Left + i]
    BY <1>1, <1>2, <1>5 DEF StageInv
  <2>2. Left' <= 11
    BY <1>3, <1>4, <2>1
  <2>3. ASSUME NEW i \in 1..Left' PROVE stages'[i] = Shutdown[11 - Left' + i]
    <3>1. i + 1 \in 1..Left /\ 11 - Left + (i + 1) = 11 - Left' + i
      BY <1>3, <1>4
    <3> QED
      BY <1>3, <2>1, <3>1
  <2> QED
    BY <1>2, <1>3, <1>5, <2>2, <2>3 DEF StageInv
<1>6. CASE ~dog
  <2>1. Left <= 13 /\ \A i \in 1..Left : stages[i] = LongUnwinding[13 - Left + i]
    BY <1>1, <1>2, <1>6 DEF StageInv
  <2>2. Left' <= 13
    BY <1>3, <1>4, <2>1
  <2>3. ASSUME NEW i \in 1..Left' PROVE stages'[i] = LongUnwinding[13 - Left' + i]
    <3>1. i + 1 \in 1..Left /\ 13 - Left + (i + 1) = 13 - Left' + i
      BY <1>3, <1>4
    <3> QED
      BY <1>3, <2>1, <3>1
  <2> QED
    BY <1>2, <1>3, <1>6, <2>2, <2>3 DEF StageInv
<1> QED
  BY <1>5, <1>6

\* The invariant but for the types, which are known by now.
Alive == StageInv /\ StartInv /\ UseInv /\ EndInv

\* A process that is gone uses nothing.
LEMMA GoneAlive ==
  ASSUME NEW c, Gone(c)
  PROVE  Alive'
  BY DEF Gone, Alive, StageInv, StartInv, UseInv, EndInv

\* An early return from a place of the start, with a reason for its code.
LEMMA GiveUpAlive ==
  ASSUME Inv, NEW c \in {75, 143}, c = 143 => signal, GiveUp(c),
         main \notin {"exited", "stopping"}
  PROVE  Alive'
<1>1. /\ main' = "stopping" /\ stages' = Unwinding /\ code' = c
      /\ UNCHANGED <<cfg, obj, card, run, signal, hk, web, worker, input, dog>>
  BY DEF GiveUp, Return, threads
<1>2. ~dog
  BY DEF Inv, StartInv
<1>3. Left' = 10 /\ \A i \in 1..10 : stages'[i] = LongUnwinding[3 + i]
  BY <1>1, ShortOrder DEF Left
<1>4. StageInv'
  <2>1. ASSUME NEW i \in 1..Left' PROVE stages'[i] = LongUnwinding[13 - Left' + i]
    BY <1>3
  <2> QED
    BY <1>1, <1>2, <1>3, <2>1 DEF StageInv
<1>5. StartInv'
  BY <1>1, <1>2 DEF Inv, StartInv
<1>6. UseInv'
  BY <1>1, <1>2, <1>3 DEF Inv, UseInv, HkAhead, WebAhead, ChannelsAhead, JoinAhead
<1>7. EndInv'
  BY <1>1, <1>2, <1>3 DEF Inv, EndInv, DomainAhead, FreeNodeAhead, CardAhead
<1> QED
  BY <1>4, <1>5, <1>6, <1>7 DEF Alive

\* Main goes on in the start.
LEMMA GoToAlive ==
  ASSUME Inv, NEW pc, GoTo(pc),
         <<main, pc>> \in {<<"config", "domain">>, <<"domain", "instance">>,
                          <<"card", "gaveUp">>, <<"profile", "manager">>,
                          <<"ready", "start">>, <<"ports", "running">>}
  PROVE  Alive'
<1>1. /\ main' = pc
      /\ UNCHANGED <<cfg, stages, code, obj, card, run, signal, changed, hk, web, worker, input, dog>>
  BY DEF GoTo, threads
<1>2. StageInv' /\ EndInv'
  BY <1>1 DEF Inv, StageInv, EndInv, StartInv
<1>3. StartInv'
  BY <1>1 DEF Inv, StartInv
<1>4. UseInv'
  BY <1>1 DEF Inv, UseInv, StartInv
<1> QED
  BY <1>2, <1>3, <1>4 DEF Alive

\* The start keeps the invariant.
LEMMA StartAlive ==
  ASSUME Inv,
         \/ ReadConfig \/ AdoptDomain \/ WriteDomainDef \/ CreateInstance \/ OpenCard \/ NoCard
         \/ ApplyProfile \/ MakeManager \/ StartNode \/ NodeReady \/ StartAll \/ StartWeb
         \/ CheckPorts \/ LeaveLoop
  PROVE  Alive'
<1> USE DEF driver, threads
<1>1. CASE ReadConfig
  BY <1>1, GoToAlive, GoneAlive DEF ReadConfig
<1>2. CASE AdoptDomain
  <2>1. ASSUME main = "domain", main' = "adopt", dir' = "torn",
                UNCHANGED <<cfg, stages, code, obj, card, run, signal, changed, threads, dog>>
        PROVE  Alive'
    <3>1. StageInv' /\ EndInv'
      BY <1>2, <2>1 DEF Inv, StageInv, StartInv, EndInv
    <3>2. StartInv'
      BY <1>2, <2>1 DEF Inv, StartInv
    <3>3. UseInv'
      BY <1>2, <2>1 DEF Inv, StartInv, UseInv
    <3> QED
      BY <3>1, <3>2, <3>3 DEF Alive
  <2> QED
    BY <1>2, <2>1, GoToAlive, GoneAlive DEF AdoptDomain
<1>3. CASE WriteDomainDef
  <2>1. StageInv' /\ EndInv'
    BY <1>3 DEF WriteDomainDef, Inv, StageInv, StartInv, EndInv
  <2>2. StartInv'
    BY <1>3 DEF WriteDomainDef, Inv, TypeOK, StartInv
  <2>3. UseInv'
    BY <1>3 DEF WriteDomainDef, Inv, TypeOK, StartInv, UseInv
  <2> QED
    BY <2>1, <2>2, <2>3 DEF Alive
<1>4. CASE CreateInstance
  <2>1. ASSUME main = "instance", main' = "card", obj' = obj \cup {"domain"},
                UNCHANGED <<cfg, stages, code, card, run, signal, changed, threads, dog>>
        PROVE  Alive'
    <3>1. StageInv' /\ EndInv'
      BY <1>4, <2>1 DEF Inv, StageInv, StartInv, EndInv
    <3>2. StartInv'
      BY <1>4, <2>1 DEF Inv, StartInv
    <3>3. UseInv'
      BY <1>4, <2>1 DEF Inv, StartInv, UseInv
    <3> QED
      BY <3>1, <3>2, <3>3 DEF Alive
  <2> QED
    BY <1>4, <2>1, GoneAlive DEF CreateInstance
<1>5. CASE OpenCard
  <2>1. ASSUME main = "card", \/ card' = "sdk" /\ main' = "profile"
                              \/ UNCHANGED <<card, main>>,
                UNCHANGED <<cfg, stages, code, obj, run, signal, changed, threads, dog>>
        PROVE  Alive'
    <3>1. StageInv' /\ EndInv'
      BY <1>5, <2>1 DEF Inv, StageInv, StartInv, EndInv
    <3>2. StartInv'
      BY <1>5, <2>1 DEF Inv, StartInv
    <3>3. UseInv'
      BY <1>5, <2>1 DEF Inv, StartInv, UseInv
    <3> QED
      BY <3>1, <3>2, <3>3 DEF Alive
  <2> QED
    BY <1>5, <2>1, GoToAlive DEF OpenCard
<1>6. CASE NoCard
  <2>1. ASSUME main = "gaveUp", card' = "mock", main' = "manager",
                UNCHANGED <<cfg, stages, code, obj, run, signal, changed, threads, dog>>
        PROVE  Alive'
    <3>1. StageInv' /\ EndInv'
      BY <1>6, <2>1 DEF Inv, StageInv, StartInv, EndInv
    <3>2. StartInv'
      BY <1>6, <2>1 DEF Inv, StartInv
    <3>3. UseInv'
      BY <1>6, <2>1 DEF Inv, StartInv, UseInv
    <3> QED
      BY <3>1, <3>2, <3>3 DEF Alive
  <2>2. ASSUME main = "gaveUp", signal, GiveUp(143)
        PROVE  Alive'
    BY <2>2, GiveUpAlive
  <2>3. ASSUME main = "gaveUp", GiveUp(75)
        PROVE  Alive'
    BY <2>3, GiveUpAlive
  <2> QED
    BY <1>6, <2>1, <2>2, <2>3 DEF NoCard
<1>7. CASE ApplyProfile
  <2>1. ASSUME main = "profile", main' = "manager",
                UNCHANGED <<cfg, stages, code, obj, card, run, signal, changed, threads, dog>>
        PROVE  Alive'
    <3>1. StageInv' /\ EndInv'
      BY <1>7, <2>1 DEF Inv, StageInv, StartInv, EndInv
    <3>2. StartInv'
      BY <1>7, <2>1 DEF Inv, StartInv
    <3>3. UseInv'
      BY <1>7, <2>1 DEF Inv, StartInv, UseInv
    <3> QED
      BY <3>1, <3>2, <3>3 DEF Alive
  <2>2. ASSUME main = "profile", GiveUp(75)
        PROVE  Alive'
    BY <2>2, GiveUpAlive
  <2> QED
    BY <1>7, <2>1, <2>2, GoToAlive DEF ApplyProfile
<1>8. CASE MakeManager
  <2>1. StageInv' /\ EndInv'
    BY <1>8 DEF MakeManager, Inv, StageInv, StartInv, EndInv
  <2>2. StartInv'
    BY <1>8 DEF MakeManager, Inv, TypeOK, StartInv
  <2>3. UseInv'
    BY <1>8 DEF MakeManager, Inv, TypeOK, StartInv, UseInv
  <2> QED
    BY <2>1, <2>2, <2>3 DEF Alive
<1>9. CASE StartNode
  <2>1. StageInv' /\ EndInv'
    BY <1>9 DEF StartNode, Inv, StageInv, StartInv, EndInv
  <2>2. StartInv'
    BY <1>9 DEF StartNode, Inv, TypeOK, StartInv
  <2>3. UseInv'
    BY <1>9 DEF StartNode, Inv, TypeOK, StartInv, UseInv
  <2> QED
    BY <2>1, <2>2, <2>3 DEF Alive
<1>10. CASE NodeReady
  <2>1. ASSUME main = "ready", main' = "stopping", code' = 75,
                stages' = <<"node", "notify", "join">> \o Unwinding,
                UNCHANGED <<cfg, obj, card, run, signal, changed, threads, dog>>
        PROVE  Alive'
    <3>1. ~dog /\ ~dog' /\ main' = "stopping"
      BY <2>1 DEF Inv, StartInv
    <3>2. Left' = 13 /\ \A i \in 1..13 : stages'[i] = LongUnwinding[i]
      BY <2>1, LongOrder DEF Left
    <3>3. ASSUME NEW i \in 1..Left' PROVE stages'[i] = LongUnwinding[13 - Left' + i]
      BY <3>2
    <3>4. StageInv'
      BY <3>1, <3>2, <3>3 DEF StageInv
    <3>5. StartInv'
      BY <2>1, <3>1 DEF Inv, StartInv
    <3>6. UseInv'
      BY <2>1, <3>1, <3>2 DEF Inv, UseInv, HkAhead, WebAhead, ChannelsAhead, JoinAhead
    <3>7. EndInv'
      BY <2>1, <3>1, <3>2 DEF Inv, EndInv, DomainAhead, FreeNodeAhead, CardAhead
    <3> QED
      BY <3>4, <3>5, <3>6, <3>7 DEF Alive
  <2> QED
    BY <1>10, <2>1, GoToAlive DEF NodeReady
<1>11. CASE StartAll
  <2>1. StageInv' /\ EndInv'
    BY <1>11 DEF StartAll, Inv, StageInv, StartInv, EndInv
  <2>2. StartInv'
    BY <1>11 DEF StartAll, Inv, TypeOK, StartInv
  <2>3. UseInv'
    BY <1>11 DEF StartAll, Inv, TypeOK, StartInv, UseInv
  <2> QED
    BY <2>1, <2>2, <2>3 DEF Alive
<1>12. CASE StartWeb
  <2>1. ASSUME main = "web", web' = "idle", main' = "ports",
                UNCHANGED <<cfg, stages, code, obj, card, run, signal, changed, hk, worker,
                            input, dog>>
        PROVE  Alive'
    <3>1. StageInv' /\ EndInv'
      BY <1>12, <2>1 DEF Inv, StageInv, StartInv, EndInv
    <3>2. StartInv'
      BY <1>12, <2>1 DEF Inv, StartInv
    <3>3. UseInv'
      BY <1>12, <2>1 DEF Inv, StartInv, UseInv
    <3> QED
      BY <3>1, <3>2, <3>3 DEF Alive
  <2>2. ASSUME main = "web", GiveUp(75)
        PROVE  Alive'
    BY <2>2, GiveUpAlive
  <2> QED
    BY <1>12, <2>1, <2>2 DEF StartWeb
<1>13. CASE CheckPorts
  <2>1. ASSUME main = "ports", GiveUp(75)
        PROVE  Alive'
    BY <2>1, GiveUpAlive
  <2> QED
    BY <1>13, <2>1, GoToAlive DEF CheckPorts
<1>14. CASE LeaveLoop
  <2>1. /\ main = "running" /\ main' = "stopping" /\ dog' = TRUE /\ stages' = Shutdown
        /\ signal \/ changed
        /\ code' = IF changed THEN 2 ELSE 143
        /\ UNCHANGED <<cfg, obj, card, run, signal, changed, hk, web, worker, input>>
    BY <1>14 DEF LeaveLoop
  <2>2. Left' = 11
    BY <2>1, ShortOrder DEF Left
  <2>3. ASSUME NEW i \in 1..Left' PROVE stages'[i] = Shutdown[11 - Left' + i]
    BY <2>1, <2>2
  <2>4. StageInv'
    BY <2>1, <2>2, <2>3 DEF StageInv
  <2>5. StartInv'
    BY <2>1 DEF Inv, StartInv
  <2>6. UseInv'
    BY <2>1, <2>2 DEF Inv, StartInv, UseInv, HkAhead, WebAhead, ChannelsAhead, JoinAhead
  <2>7. EndInv'
    <3>1. code' \in {2, 75, 143} /\ (code' = 143 => signal') /\ (code' = 2 => changed')
      BY <2>1
    <3> QED
      BY <2>1, <2>2, <3>1 DEF EndInv, DomainAhead, FreeNodeAhead, CardAhead
  <2> QED
    BY <2>4, <2>5, <2>6, <2>7 DEF Alive
<1> QED
  BY <1>1, <1>2, <1>3, <1>4, <1>5, <1>6, <1>7, <1>8, <1>9, <1>10, <1>11, <1>12, <1>13, <1>14

\* What a stage leaves alone, and how far it comes.
LEMMA StageFrame ==
  ASSUME Inv, NEW s, AtStage(s), Done
  PROVE  /\ StageInv' /\ Left' = Left - 1 /\ Left \in Nat /\ Left >= 1
         /\ main = "stopping" /\ main' = "stopping"
         /\ UNCHANGED <<cfg, code, signal, changed, dog>>
  BY StageDone, StagesLeft DEF AtStage, Done

\* The stages keep the invariant: each ends what nobody uses any more.
LEMMA StagesAlive ==
  ASSUME Inv,
         \/ StopChannels \/ StopJobs \/ NotifyWorker \/ JoinWorker \/ FreeNode \/ StopWeb
         \/ StopHousekeeping \/ DestroyInstance \/ CleanUp \/ ReleaseCard
  PROVE  Alive'
<1> USE DEF threads
<1>1. CASE StopChannels
  <2>1. AtStage("channels") /\ Done
    BY <1>1 DEF StopChannels
  <2>2. /\ StageInv' /\ Left' = Left - 1 /\ Left \in Nat /\ Left >= 1
        /\ main = "stopping" /\ main' = "stopping"
        /\ UNCHANGED <<cfg, code, signal, changed, dog>>
    BY <2>1, StageFrame
  <2>3. StartInv'
    BY <1>1, <2>2 DEF StopChannels, Inv, StartInv
  <2>4. UseInv'
    BY <1>1, <2>1, <2>2, StagesAhead
    DEF StopChannels, Inv, TypeOK, UseInv, HkAhead, WebAhead, ChannelsAhead, JoinAhead, FreeNodeAhead
  <2>5. EndInv'
    BY <1>1, <2>1, <2>2, StagesAhead
    DEF StopChannels, Inv, TypeOK, EndInv, DomainAhead, FreeNodeAhead, CardAhead
  <2> QED
    BY <2>2, <2>3, <2>4, <2>5 DEF Alive
<1>2. CASE StopJobs
  <2>1. AtStage("node") /\ Done
    BY <1>2 DEF StopJobs
  <2>2. /\ StageInv' /\ Left' = Left - 1 /\ Left \in Nat /\ Left >= 1
        /\ main = "stopping" /\ main' = "stopping"
        /\ UNCHANGED <<cfg, code, signal, changed, dog>>
    BY <2>1, StageFrame
  <2>3. StartInv'
    BY <1>2, <2>2 DEF StopJobs, Inv, StartInv
  <2>4. UseInv'
    BY <1>2, <2>1, <2>2, StagesAhead
    DEF StopJobs, Inv, TypeOK, UseInv, HkAhead, WebAhead, ChannelsAhead, JoinAhead, FreeNodeAhead
  <2>5. EndInv'
    BY <1>2, <2>1, <2>2, StagesAhead
    DEF StopJobs, Inv, TypeOK, EndInv, DomainAhead, FreeNodeAhead, CardAhead
  <2> QED
    BY <2>2, <2>3, <2>4, <2>5 DEF Alive
<1>3. CASE NotifyWorker
  <2>1. AtStage("notify") /\ Done
    BY <1>3 DEF NotifyWorker
  <2>2. /\ StageInv' /\ Left' = Left - 1 /\ Left \in Nat /\ Left >= 1
        /\ main = "stopping" /\ main' = "stopping"
        /\ UNCHANGED <<cfg, code, signal, changed, dog>>
    BY <2>1, StageFrame
  <2>3. StartInv'
    BY <1>3, <2>2 DEF NotifyWorker, Inv, StartInv
  <2>4. UseInv'
    BY <1>3, <2>1, <2>2, StagesAhead
    DEF NotifyWorker, Inv, TypeOK, UseInv, HkAhead, WebAhead, ChannelsAhead, JoinAhead, FreeNodeAhead
  <2>5. EndInv'
    BY <1>3, <2>1, <2>2, StagesAhead
    DEF NotifyWorker, Inv, TypeOK, EndInv, DomainAhead, FreeNodeAhead, CardAhead
  <2> QED
    BY <2>2, <2>3, <2>4, <2>5 DEF Alive
<1>4. CASE JoinWorker
  <2>1. AtStage("join") /\ Done
    BY <1>4 DEF JoinWorker
  <2>2. /\ StageInv' /\ Left' = Left - 1 /\ Left \in Nat /\ Left >= 1
        /\ main = "stopping" /\ main' = "stopping"
        /\ UNCHANGED <<cfg, code, signal, changed, dog>>
    BY <2>1, StageFrame
  <2>3. StartInv'
    BY <1>4, <2>2 DEF JoinWorker, Inv, StartInv
  <2>4. UseInv'
    BY <1>4, <2>1, <2>2, StagesAhead
    DEF JoinWorker, Inv, TypeOK, UseInv, HkAhead, WebAhead, ChannelsAhead, JoinAhead, FreeNodeAhead
  <2>5. EndInv'
    BY <1>4, <2>1, <2>2, StagesAhead
    DEF JoinWorker, Inv, TypeOK, EndInv, DomainAhead, FreeNodeAhead, CardAhead
  <2> QED
    BY <2>2, <2>3, <2>4, <2>5 DEF Alive
<1>5. CASE FreeNode
  <2>1. AtStage("freeNode") /\ Done
    BY <1>5 DEF FreeNode
  <2>2. /\ StageInv' /\ Left' = Left - 1 /\ Left \in Nat /\ Left >= 1
        /\ main = "stopping" /\ main' = "stopping"
        /\ UNCHANGED <<cfg, code, signal, changed, dog>>
    BY <2>1, StageFrame
  <2>3. StartInv'
    BY <1>5, <2>2 DEF FreeNode, Inv, StartInv
  <2>4. UseInv'
    BY <1>5, <2>1, <2>2, StagesAhead
    DEF FreeNode, Inv, TypeOK, UseInv, HkAhead, WebAhead, ChannelsAhead, JoinAhead, FreeNodeAhead
  <2>5. EndInv'
    BY <1>5, <2>1, <2>2, StagesAhead
    DEF FreeNode, Inv, TypeOK, EndInv, DomainAhead, FreeNodeAhead, CardAhead
  <2> QED
    BY <2>2, <2>3, <2>4, <2>5 DEF Alive
<1>6. CASE StopWeb
  <2>1. AtStage("web") /\ Done
    BY <1>6 DEF StopWeb
  <2>2. /\ StageInv' /\ Left' = Left - 1 /\ Left \in Nat /\ Left >= 1
        /\ main = "stopping" /\ main' = "stopping"
        /\ UNCHANGED <<cfg, code, signal, changed, dog>>
    BY <2>1, StageFrame
  <2>3. StartInv'
    BY <1>6, <2>2 DEF StopWeb, Inv, StartInv
  <2>4. UseInv'
    BY <1>6, <2>1, <2>2, StagesAhead
    DEF StopWeb, Inv, TypeOK, UseInv, HkAhead, WebAhead, ChannelsAhead, JoinAhead, FreeNodeAhead
  <2>5. EndInv'
    BY <1>6, <2>1, <2>2, StagesAhead
    DEF StopWeb, Inv, TypeOK, EndInv, DomainAhead, FreeNodeAhead, CardAhead
  <2> QED
    BY <2>2, <2>3, <2>4, <2>5 DEF Alive
<1>7. CASE StopHousekeeping
  <2>1. AtStage("hk") /\ Done
    BY <1>7 DEF StopHousekeeping
  <2>2. /\ StageInv' /\ Left' = Left - 1 /\ Left \in Nat /\ Left >= 1
        /\ main = "stopping" /\ main' = "stopping"
        /\ UNCHANGED <<cfg, code, signal, changed, dog>>
    BY <2>1, StageFrame
  <2>3. StartInv'
    BY <1>7, <2>2 DEF StopHousekeeping, Inv, StartInv
  <2>4. UseInv'
    BY <1>7, <2>1, <2>2, StagesAhead
    DEF StopHousekeeping, Inv, TypeOK, UseInv, HkAhead, WebAhead, ChannelsAhead, JoinAhead, FreeNodeAhead
  <2>5. EndInv'
    BY <1>7, <2>1, <2>2, StagesAhead
    DEF StopHousekeeping, Inv, TypeOK, EndInv, DomainAhead, FreeNodeAhead, CardAhead
  <2> QED
    BY <2>2, <2>3, <2>4, <2>5 DEF Alive
<1>8. CASE DestroyInstance
  <2>1. AtStage("domain") /\ Done
    BY <1>8 DEF DestroyInstance
  <2>2. /\ StageInv' /\ Left' = Left - 1 /\ Left \in Nat /\ Left >= 1
        /\ main = "stopping" /\ main' = "stopping"
        /\ UNCHANGED <<cfg, code, signal, changed, dog>>
    BY <2>1, StageFrame
  <2>3. StartInv'
    BY <1>8, <2>2 DEF DestroyInstance, Inv, StartInv
  <2>4. UseInv'
    BY <1>8, <2>1, <2>2, StagesAhead
    DEF DestroyInstance, Inv, TypeOK, UseInv, HkAhead, WebAhead, ChannelsAhead, JoinAhead, FreeNodeAhead
  <2>5. EndInv'
    BY <1>8, <2>1, <2>2, StagesAhead
    DEF DestroyInstance, Inv, TypeOK, EndInv, DomainAhead, FreeNodeAhead, CardAhead
  <2> QED
    BY <2>2, <2>3, <2>4, <2>5 DEF Alive
<1>9. CASE CleanUp
  <2>1. AtStage("cleanup") /\ Done
    BY <1>9 DEF CleanUp
  <2>2. /\ StageInv' /\ Left' = Left - 1 /\ Left \in Nat /\ Left >= 1
        /\ main = "stopping" /\ main' = "stopping"
        /\ UNCHANGED <<cfg, code, signal, changed, dog>>
    BY <2>1, StageFrame
  <2>3. StartInv'
    BY <1>9, <2>2 DEF CleanUp, Inv, StartInv
  <2>4. UseInv'
    BY <1>9, <2>1, <2>2, StagesAhead
    DEF CleanUp, Inv, TypeOK, UseInv, HkAhead, WebAhead, ChannelsAhead, JoinAhead, FreeNodeAhead
  <2>5. EndInv'
    BY <1>9, <2>1, <2>2, StagesAhead
    DEF CleanUp, Inv, TypeOK, EndInv, DomainAhead, FreeNodeAhead, CardAhead
  <2> QED
    BY <2>2, <2>3, <2>4, <2>5 DEF Alive
<1>10. CASE ReleaseCard
  <2>1. AtStage("card") /\ Done
    BY <1>10 DEF ReleaseCard
  <2>2. /\ StageInv' /\ Left' = Left - 1 /\ Left \in Nat /\ Left >= 1
        /\ main = "stopping" /\ main' = "stopping"
        /\ UNCHANGED <<cfg, code, signal, changed, dog>>
    BY <2>1, StageFrame
  <2>3. StartInv'
    BY <1>10, <2>2 DEF ReleaseCard, Inv, StartInv
  <2>4. UseInv'
    BY <1>10, <2>1, <2>2, StagesAhead
    DEF ReleaseCard, Inv, TypeOK, UseInv, HkAhead, WebAhead, ChannelsAhead, JoinAhead, FreeNodeAhead
  <2>5. EndInv'
    BY <1>10, <2>1, <2>2, StagesAhead
    DEF ReleaseCard, Inv, TypeOK, EndInv, DomainAhead, FreeNodeAhead, CardAhead
  <2> QED
    BY <2>2, <2>3, <2>4, <2>5 DEF Alive
<1> QED
  BY <1>1, <1>2, <1>3, <1>4, <1>5, <1>6, <1>7, <1>8, <1>9, <1>10

\* The other threads keep the invariant: none comes back to life.
LEMMA ThreadsAlive ==
  ASSUME Inv,
         \/ Boot \/ HousekeepingLoop \/ Request \/ ReadyGate \/ GateLeft \/ Answered
         \/ PeerBlocks \/ WorkerLoop \/ JobArrives \/ HandlerCalled \/ HandlerDone \/ Signal
         \/ ProfileChanges \/ ProfileActivated \/ UNCHANGED vars
  PROVE  Alive'
<1> USE DEF driver, threads, Alive, Inv
<1>1. CASE Boot
  <2>1. StageInv' /\ StartInv'
    BY <1>1 DEF Boot, StageInv, StartInv, Left
  <2>2. UseInv'
    BY <1>1 DEF Boot, StartInv, UseInv, HkAhead, WebAhead, ChannelsAhead, JoinAhead,
               FreeNodeAhead, Left
  <2>3. EndInv'
    BY <1>1 DEF Boot, StartInv, EndInv, DomainAhead, FreeNodeAhead, CardAhead, Left
  <2> QED
    BY <2>1, <2>2, <2>3
<1>2. CASE HousekeepingLoop
  <2>1. StageInv' /\ StartInv'
    BY <1>2 DEF HousekeepingLoop, AtStage, StageInv, StartInv, Left
  <2>2. UseInv'
    BY <1>2 DEF HousekeepingLoop, AtStage, StartInv, UseInv, HkAhead, WebAhead, ChannelsAhead, JoinAhead,
               FreeNodeAhead, Left
  <2>3. EndInv'
    BY <1>2 DEF HousekeepingLoop, AtStage, EndInv, DomainAhead, FreeNodeAhead, CardAhead, Left
  <2> QED
    BY <2>1, <2>2, <2>3
<1>3. CASE Request
  <2>1. StageInv' /\ StartInv'
    BY <1>3 DEF Request, WebStep, StageInv, StartInv, Left
  <2>2. UseInv'
    BY <1>3 DEF Request, WebStep, StartInv, UseInv, HkAhead, WebAhead, ChannelsAhead, JoinAhead,
               FreeNodeAhead, Left
  <2>3. EndInv'
    BY <1>3 DEF Request, WebStep, EndInv, DomainAhead, FreeNodeAhead, CardAhead, Left
  <2> QED
    BY <2>1, <2>2, <2>3
<1>4. CASE Answered
  <2>1. StageInv' /\ StartInv'
    BY <1>4 DEF Answered, WebStep, StageInv, StartInv, Left
  <2>2. UseInv'
    BY <1>4 DEF Answered, WebStep, StartInv, UseInv, HkAhead, WebAhead, ChannelsAhead, JoinAhead,
               FreeNodeAhead, Left
  <2>3. EndInv'
    BY <1>4 DEF Answered, WebStep, EndInv, DomainAhead, FreeNodeAhead, CardAhead, Left
  <2> QED
    BY <2>1, <2>2, <2>3
<1>5. CASE PeerBlocks
  <2>1. StageInv' /\ StartInv'
    BY <1>5 DEF PeerBlocks, WebStep, StageInv, StartInv, Left
  <2>2. UseInv'
    BY <1>5 DEF PeerBlocks, WebStep, StartInv, UseInv, HkAhead, WebAhead, ChannelsAhead, JoinAhead,
               FreeNodeAhead, Left
  <2>3. EndInv'
    BY <1>5 DEF PeerBlocks, WebStep, EndInv, DomainAhead, FreeNodeAhead, CardAhead, Left
  <2> QED
    BY <2>1, <2>2, <2>3
<1>6. CASE WorkerLoop
  <2>1. StageInv' /\ StartInv'
    BY <1>6 DEF WorkerLoop, WorkerStep, StageInv, StartInv, Left
  <2>2. UseInv'
    BY <1>6 DEF WorkerLoop, WorkerStep, StartInv, UseInv, HkAhead, WebAhead, ChannelsAhead, JoinAhead,
               FreeNodeAhead, Left
  <2>3. EndInv'
    BY <1>6 DEF WorkerLoop, WorkerStep, EndInv, DomainAhead, FreeNodeAhead, CardAhead, Left
  <2> QED
    BY <2>1, <2>2, <2>3
<1>7. CASE JobArrives
  <2>1. StageInv' /\ StartInv'
    BY <1>7 DEF JobArrives, WorkerStep, StageInv, StartInv, Left
  <2>2. UseInv'
    BY <1>7 DEF JobArrives, WorkerStep, StartInv, UseInv, HkAhead, WebAhead, ChannelsAhead, JoinAhead,
               FreeNodeAhead, Left
  <2>3. EndInv'
    BY <1>7 DEF JobArrives, WorkerStep, EndInv, DomainAhead, FreeNodeAhead, CardAhead, Left
  <2> QED
    BY <2>1, <2>2, <2>3
<1>8. CASE HandlerCalled
  <2>1. StageInv' /\ StartInv'
    BY <1>8 DEF HandlerCalled, InputStep, StageInv, StartInv, Left
  <2>2. UseInv'
    BY <1>8 DEF HandlerCalled, InputStep, StartInv, UseInv, HkAhead, WebAhead, ChannelsAhead, JoinAhead,
               FreeNodeAhead, Left
  <2>3. EndInv'
    BY <1>8 DEF HandlerCalled, InputStep, EndInv, DomainAhead, FreeNodeAhead, CardAhead, Left
  <2> QED
    BY <2>1, <2>2, <2>3
<1>9. CASE HandlerDone
  <2>1. StageInv' /\ StartInv'
    BY <1>9 DEF HandlerDone, InputStep, StageInv, StartInv, Left
  <2>2. UseInv'
    BY <1>9 DEF HandlerDone, InputStep, StartInv, UseInv, HkAhead, WebAhead, ChannelsAhead, JoinAhead,
               FreeNodeAhead, Left
  <2>3. EndInv'
    BY <1>9 DEF HandlerDone, InputStep, EndInv, DomainAhead, FreeNodeAhead, CardAhead, Left
  <2> QED
    BY <2>1, <2>2, <2>3
<1>10. CASE Signal
  <2>1. StageInv' /\ StartInv'
    BY <1>10 DEF Signal, StageInv, StartInv, Left
  <2>2. UseInv'
    BY <1>10 DEF Signal, StartInv, UseInv, HkAhead, WebAhead, ChannelsAhead, JoinAhead,
               FreeNodeAhead, Left
  <2>3. EndInv'
    BY <1>10 DEF Signal, EndInv, DomainAhead, FreeNodeAhead, CardAhead, Left
  <2> QED
    BY <2>1, <2>2, <2>3
<1>11. CASE ProfileChanges
  <2>1. StageInv' /\ StartInv'
    BY <1>11 DEF ProfileChanges, StageInv, StartInv, Left
  <2>2. UseInv'
    BY <1>11 DEF ProfileChanges, StartInv, UseInv, HkAhead, WebAhead, ChannelsAhead, JoinAhead,
               FreeNodeAhead, Left
  <2>3. EndInv'
    BY <1>11 DEF ProfileChanges, EndInv, DomainAhead, FreeNodeAhead, CardAhead, Left
  <2> QED
    BY <2>1, <2>2, <2>3
<1>12. CASE ProfileActivated
  <2>1. StageInv' /\ StartInv'
    BY <1>12 DEF ProfileActivated, StageInv, StartInv, Left
  <2>2. UseInv'
    BY <1>12 DEF ProfileActivated, StartInv, UseInv, HkAhead, WebAhead, ChannelsAhead, JoinAhead,
               FreeNodeAhead, Left
  <2>3. EndInv'
    BY <1>12 DEF ProfileActivated, EndInv, DomainAhead, FreeNodeAhead, CardAhead, Left
  <2> QED
    BY <2>1, <2>2, <2>3
<1>13. CASE UNCHANGED vars
  BY <1>13 DEF vars, StageInv, StartInv, UseInv, EndInv, HkAhead, WebAhead, ChannelsAhead,
               JoinAhead, FreeNodeAhead, DomainAhead, CardAhead, Left
<1>14. CASE ReadyGate
  <2>1. StageInv' /\ StartInv'
    BY <1>14 DEF ReadyGate, WebStep, StageInv, StartInv, Left
  <2>2. UseInv'
    BY <1>14 DEF ReadyGate, WebStep, StartInv, UseInv, HkAhead, WebAhead, ChannelsAhead, JoinAhead,
               FreeNodeAhead, Left
  <2>3. EndInv'
    BY <1>14 DEF ReadyGate, WebStep, EndInv, DomainAhead, FreeNodeAhead, CardAhead, Left
  <2> QED
    BY <2>1, <2>2, <2>3
<1>15. CASE GateLeft
  <2>1. StageInv' /\ StartInv'
    BY <1>15 DEF GateLeft, WebStep, StageInv, StartInv, Left
  <2>2. UseInv'
    BY <1>15 DEF GateLeft, WebStep, StartInv, UseInv, HkAhead, WebAhead, ChannelsAhead, JoinAhead,
               FreeNodeAhead, Left
  <2>3. EndInv'
    BY <1>15 DEF GateLeft, WebStep, EndInv, DomainAhead, FreeNodeAhead, CardAhead, Left
  <2> QED
    BY <2>1, <2>2, <2>3
<1> QED
  BY <1>1, <1>2, <1>3, <1>4, <1>5, <1>6, <1>7, <1>8, <1>9, <1>10, <1>11, <1>12, <1>13, <1>14,
     <1>15

\* The invariant is one: no step loses it.
LEMMA Invariance == Spec => []Inv
<1>1. Init => Inv
  <2> SUFFICES ASSUME Init PROVE Inv
    OBVIOUS
  <2>1. TypeOK
    BY InitTypes
  <2>2. StageInv /\ StartInv /\ UseInv /\ EndInv
    BY DEF Init, StageInv, StartInv, UseInv, EndInv
  <2> QED
    BY <2>1, <2>2 DEF Inv
<1>2. Inv /\ [Next]_vars => Inv'
  <2> SUFFICES ASSUME Inv, [Next]_vars PROVE Inv'
    OBVIOUS
  <2>1. TypeOK'
    BY NextTypes DEF Inv
  <2>2. Alive'
    BY StartAlive, StagesAlive, ThreadsAlive, GoneAlive
    DEF Next, MainSteps, Ends, WatchdogFires, Killed
  <2> QED
    BY <2>1, <2>2 DEF Inv, Alive
<1> QED
  BY <1>1, <1>2, PTL DEF Spec

\* A readiness gate without its node: the shutdown waits for the web thread.
LEMMA GateWithoutNode ==
  ASSUME Inv, web = "gate", "node" \notin obj
  PROVE  dog /\ AtStage("web")
<1>1. dog /\ cfg.nmos /\ main = "stopping"
  BY DEF Inv, UseInv, StartInv
<1>2. Left \in Nat /\ WebAhead /\ ~FreeNodeAhead
  BY <1>1 DEF Inv, TypeOK, UseInv, Left
<1>3. Left = 6
  BY <1>1, <1>2 DEF WebAhead, FreeNodeAhead
<1>4. stages[1] = Shutdown[6]
  <2>1. \A i \in 1..Left : stages[i] = Shutdown[11 - Left + i]
    BY <1>1 DEF Inv, StageInv
  <2>2. 1 \in 1..Left /\ 11 - Left + 1 = 6
    BY <1>3
  <2> QED
    BY <2>1, <2>2
<1>5. Shutdown[6] = "web"
  BY DEF Shutdown
<1>6. stages # <<>> /\ Head(stages) = stages[1]
  <2>1. stages \in Seq(Stages) /\ Len(stages) > 0
    BY <1>3 DEF Inv, TypeOK, Left
  <2>2. stages # <<>>
    BY <2>1
  <2> QED
    BY <2>1, <2>2, HeadAndTail
<1> QED
  BY <1>1, <1>4, <1>5, <1>6 DEF AtStage

\* A handler without its node: an early return waits for the channels.
LEMMA HandlerWithoutNode ==
  ASSUME Inv, input = "handler", "node" \notin obj
  PROVE  ~dog /\ AtStage("channels")
<1>1. /\ run /\ cfg.nmos /\ main = "stopping"
      /\ Left \in Nat /\ ChannelsAhead /\ ~FreeNodeAhead
  BY DEF Inv, TypeOK, UseInv, StartInv, Left
<1>2. ~dog /\ Left = 4
  BY <1>1 DEF ChannelsAhead, FreeNodeAhead
<1>3. stages[1] = LongUnwinding[10]
  <2>1. \A i \in 1..Left : stages[i] = LongUnwinding[13 - Left + i]
    BY <1>1, <1>2 DEF Inv, StageInv
  <2>2. 1 \in 1..Left /\ 13 - Left + 1 = 10
    BY <1>2
  <2> QED
    BY <2>1, <2>2
<1>4. LongUnwinding[10] = "channels"
  BY DEF LongUnwinding
<1>5. stages # <<>> /\ Head(stages) = stages[1]
  <2>1. stages \in Seq(Stages) /\ Len(stages) > 0
    BY <1>2 DEF Inv, TypeOK, Left
  <2>2. stages # <<>>
    BY <2>1
  <2> QED
    BY <2>1, <2>2, HeadAndTail
<1> QED
  BY <1>1, <1>2, <1>3, <1>4, <1>5 DEF AtStage

(***************************************************************************)
(* No thread uses an object that main has destroyed, whatever fails in the *)
(* start and however the threads and the stages of the end interleave, for *)
(* any settings; and the two windows in which the node is used after main  *)
(* freed it - the readiness gate in the staged shutdown, an input          *)
(* channel's handler in an early return - are the only ones.               *)
(***************************************************************************)
THEOREM ThreadsUseLiveObjects == Spec => []UsesAreAlive
<1>1. Inv => UsesAreAlive
  <2> SUFFICES ASSUME Inv PROVE UsesAreAlive
    OBVIOUS
  <2>1. web = "gate" => "node" \in obj \/ (dog /\ AtStage("web"))
    BY GateWithoutNode
  <2>2. input = "handler" => run /\ ("node" \in obj \/ (~dog /\ AtStage("channels")))
    BY HandlerWithoutNode DEF Inv, UseInv
  <2> QED
    BY <2>1, <2>2 DEF Inv, UseInv, UsesAreAlive
<1> QED
  BY <1>1, Invariance, PTL

\* Who writes the directory of the domain.
LEMMA OnlyDomainSteps ==
  ASSUME [Next]_vars, dir' # dir
  PROVE  CleanUp \/ AdoptDomain \/ WriteDomainDef
<1>1. ~(\/ ReadConfig \/ CreateInstance \/ OpenCard \/ NoCard \/ ApplyProfile \/ MakeManager
        \/ StartNode \/ NodeReady \/ StartAll \/ StartWeb \/ CheckPorts \/ LeaveLoop)
  BY DEF ReadConfig, CreateInstance, OpenCard, NoCard, ApplyProfile, MakeManager, StartNode,
         NodeReady, StartAll, StartWeb, CheckPorts, LeaveLoop, GoTo, Gone, GiveUp
<1>2. ~(\/ StopChannels \/ StopJobs \/ NotifyWorker \/ JoinWorker \/ FreeNode \/ StopWeb
        \/ StopHousekeeping \/ DestroyInstance \/ ReleaseCard \/ Ends)
  BY DEF StopChannels, StopJobs, NotifyWorker, JoinWorker, FreeNode, StopWeb,
         StopHousekeeping, DestroyInstance, ReleaseCard, Ends, Gone
<1>3. ~(\/ Boot \/ WatchdogFires \/ Killed \/ HousekeepingLoop \/ Request \/ ReadyGate
        \/ GateLeft \/ Answered \/ PeerBlocks \/ WorkerLoop \/ JobArrives \/ HandlerCalled
        \/ HandlerDone)
  BY DEF Boot, WatchdogFires, Killed, HousekeepingLoop, Request, ReadyGate, GateLeft, Answered,
         PeerBlocks, WorkerLoop, JobArrives, HandlerCalled, HandlerDone, WebStep, WorkerStep,
         InputStep, Gone
<1>4. ~(Signal \/ ProfileChanges \/ ProfileActivated \/ UNCHANGED vars)
  BY DEF Signal, ProfileChanges, ProfileActivated, vars
<1> QED
  BY <1>1, <1>2, <1>3, <1>4 DEF Next, MainSteps

(***************************************************************************)
(* The id of a domain is never replaced, and goes only with its directory  *)
(* after the stages that end its users (adoptOutputDomain, the clean-up    *)
(* at the end of main).                                                    *)
(***************************************************************************)
THEOREM DomainIdIsKept == Spec => DomainKeepsItsId
<1>1. Inv /\ [Next]_vars =>
        [dir' # dir /\ dir \in Ids \cup {"noid"} =>
           /\ dir' = "absent" /\ code = 143 /\ signal
           /\ cfg.cleanup /\ ~cfg.root
           /\ "domain" \notin obj /\ ~run]_vars
  <2> SUFFICES ASSUME Inv, [Next]_vars, dir' # dir, dir \in Ids \cup {"noid"}
               PROVE  /\ dir' = "absent" /\ code = 143 /\ signal
                      /\ cfg.cleanup /\ ~cfg.root
                      /\ "domain" \notin obj /\ ~run
    BY DEF vars
  <2>1. CASE CleanUp
    <3>1. AtStage("cleanup") /\ dir' = "absent" /\ code = 143 /\ cfg.cleanup /\ ~cfg.root
      BY <2>1 DEF CleanUp
    <3>2. main = "stopping" /\ dog /\ Left = 3
      BY <3>1, StagesAhead DEF AtStage
    <3>3. "domain" \notin obj
      BY <3>2 DEF Inv, EndInv, DomainAhead
    <3>4. ~run
      BY <3>2 DEF Inv, UseInv, ChannelsAhead
    <3>5. signal
      BY <3>1, <3>2 DEF Inv, EndInv
    <3> QED
      BY <3>1, <3>3, <3>4, <3>5
  <2>2. CASE AdoptDomain
    BY <2>2, LifecycleAssumption DEF AdoptDomain, GoTo, Gone
  <2>3. CASE WriteDomainDef
    BY <2>3, LifecycleAssumption DEF WriteDomainDef, Inv, StartInv
  <2>4. \/ CleanUp \/ AdoptDomain \/ WriteDomainDef
    BY OnlyDomainSteps
  <2> QED
    BY <2>1, <2>2, <2>3, <2>4
<1> QED
  BY <1>1, Invariance, PTL DEF Spec, DomainKeepsItsId

(***************************************************************************)
(* The profile's callbacks: as long as no other program changed the        *)
(* profile, the one callback that may be under way is that of our own      *)
(* change - unless the configured profile makes several managers call.     *)
(***************************************************************************)
ProfileInv ==
  /\ main \in {"exited", "config", "domain", "adopt", "instance", "card", "gaveUp", "profile"} =>
       activations = 0 /\ ~self /\ ~changed
  /\ changes = 0 /\ ~(cfg.profile /\ cfg.managers > 1) =>
       ~changed /\ (activations = 0 \/ (activations = 1 /\ self))

\* Steps that leave the profile alone, and do not take main back.
LEMMA ProfileFrame ==
  ASSUME ProfileInv, UNCHANGED <<cfg, changed, self, activations, changes>>,
         main' = main \/ main' \notin {"exited", "config", "domain", "adopt", "instance", "card",
                                     "gaveUp", "profile"}
  PROVE  ProfileInv'
  BY DEF ProfileInv

\* A process that ends has no callback of the profile under way.
LEMMA ProfileGone ==
  ASSUME NEW c, ProfileInv, Gone(c)
  PROVE  ProfileInv'
  BY DEF ProfileInv, Gone

\* Every step keeps ProfileInv.
LEMMA ProfileKept ==
  ASSUME Inv, ProfileInv, [Next]_vars
  PROVE  ProfileInv'
<1> USE DEF driver
<1>1. CASE ReadConfig \/ AdoptDomain \/ WriteDomainDef \/ CreateInstance \/ Boot
  BY <1>1, ProfileGone
  DEF ReadConfig, AdoptDomain, WriteDomainDef, CreateInstance, Boot, GoTo, ProfileInv
<1>2. CASE OpenCard
  BY <1>2 DEF OpenCard, GoTo, ProfileInv
<1>3. CASE ApplyProfile
  <2>1. CASE /\ cfg.profile /\ \E n \in 1..cfg.managers : activations' = activations + n
             /\ self' = TRUE /\ main' = "manager"
             /\ UNCHANGED <<cfg, changed, changes>>
    <3>1. activations = 0 /\ ~changed
      BY <1>3 DEF ApplyProfile, ProfileInv
    <3>2. cfg.managers \in Nat \ {0}
      BY LifecycleAssumption DEF Inv, TypeOK, Setting
    <3>3. ~(cfg.managers > 1) => activations' = 1
      BY <2>1, <3>1, <3>2
    <3> QED
      BY <2>1, <3>1, <3>3 DEF ProfileInv
  <2> QED
    BY <1>3, <2>1, ProfileFrame DEF ApplyProfile, GoTo, GiveUp, Return
<1>4. CASE NoCard \/ MakeManager \/ StartNode \/ NodeReady \/ StartAll \/ StartWeb \/ CheckPorts
           \/ LeaveLoop
  BY <1>4, ProfileFrame DEF NoCard, MakeManager, StartNode, NodeReady, StartAll, StartWeb,
     CheckPorts, LeaveLoop, GoTo, GiveUp, Return
<1>5. CASE \/ StopChannels \/ StopJobs \/ NotifyWorker \/ JoinWorker \/ FreeNode \/ StopWeb
           \/ StopHousekeeping \/ DestroyInstance \/ CleanUp \/ ReleaseCard
  BY <1>5, ProfileFrame DEF StopChannels, StopJobs, NotifyWorker, JoinWorker, FreeNode, StopWeb,
     StopHousekeeping, DestroyInstance, CleanUp, ReleaseCard, Done
<1>6. CASE Ends \/ WatchdogFires \/ Killed
  BY <1>6, ProfileGone DEF Ends, WatchdogFires, Killed
<1>7. CASE \/ HousekeepingLoop \/ Request \/ ReadyGate \/ GateLeft \/ Answered \/ PeerBlocks
           \/ WorkerLoop \/ JobArrives \/ HandlerCalled \/ HandlerDone \/ Signal
           \/ UNCHANGED vars
  BY <1>7, ProfileFrame DEF HousekeepingLoop, Request, ReadyGate, GateLeft, Answered,
     PeerBlocks, WorkerLoop, JobArrives, HandlerCalled, HandlerDone, Signal, WebStep, WorkerStep, InputStep, vars
<1>8. CASE ProfileChanges
  <2>1. changes \in Nat /\ changes' = changes + 1 /\ main' = main /\ card = "sdk" /\ main # "profile"
    BY <1>8, LifecycleAssumption DEF ProfileChanges, Inv, TypeOK
  <2>2. main \notin {"exited", "config", "domain", "adopt", "instance", "card", "gaveUp", "profile"}
    BY <2>1 DEF Inv, StartInv
  <2> QED
    BY <2>1, <2>2 DEF ProfileInv
<1>9. CASE ProfileActivated
  <2>1. /\ activations \in Nat /\ activations > 0 /\ activations' = activations - 1
        /\ main' = main /\ changes' = changes /\ cfg' = cfg
        /\ self' = FALSE /\ changed' = (changed \/ ~self)
    BY <1>9 DEF ProfileActivated, Inv, TypeOK
  <2>2. main \notin {"exited", "config", "domain", "adopt", "instance", "card", "gaveUp", "profile"}
    BY <2>1 DEF ProfileInv
  <2>3. changes = 0 /\ ~(cfg.profile /\ cfg.managers > 1) =>
          ~changed /\ self /\ activations = 1
    BY <2>1 DEF ProfileInv
  <2>4. changes = 0 /\ ~(cfg.profile /\ cfg.managers > 1) => ~changed'
    BY <2>1, <2>3, Zenon
  <2>5. changes = 0 /\ ~(cfg.profile /\ cfg.managers > 1) => activations' = 0
    BY <2>1, <2>3
  <2> QED
    BY <2>1, <2>2, <2>4, <2>5, Zenon DEF ProfileInv
<1> QED
  BY <1>1, <1>2, <1>3, <1>4, <1>5, <1>6, <1>7, <1>8, <1>9 DEF Next, MainSteps

\* A process that ends by itself has ended all its threads.
LEMMA EndsClean ==
  ASSUME Inv, AtStage("end")
  PROVE  /\ obj \subseteq {"channels"} /\ card = "none" /\ ~run
         /\ hk = "off" /\ web = "off" /\ worker \in {"off", "ended"}
<1>1. main = "stopping" /\ Left = 1
  BY StagesAhead DEF AtStage
<1>2. "domain" \notin obj /\ "node" \notin obj /\ card = "none"
  BY <1>1 DEF Inv, EndInv, DomainAhead, FreeNodeAhead, CardAhead
<1>3. hk = "off" /\ web = "off" /\ ~run /\ worker \in {"off", "ended"}
  BY <1>1 DEF Inv, UseInv, HkAhead, WebAhead, ChannelsAhead, JoinAhead
<1> QED
  BY <1>2, <1>3 DEF Inv, TypeOK

\* The ways out of the process.
LEMMA WaysOut ==
  ASSUME Inv, [Next]_vars, main # "exited", main' = "exited"
  PROVE  \/ /\ code' \in {75, 78, 137} /\ ~AtStage("end")
            /\ code' = 78 => obj = {} /\ card = "none"
         \/ AtStage("end") /\ code' = code /\ code \in {2, 75, 143}
         \/ dog /\ code' = 143
         \/ code' = 137
<1> USE DEF driver
<1>1. CASE ReadConfig \/ AdoptDomain \/ CreateInstance
  BY <1>1 DEF ReadConfig, AdoptDomain, CreateInstance, GoTo, Gone, AtStage, Inv, StartInv
<1>2. CASE Ends
  BY <1>2 DEF Ends, Gone, AtStage, Inv, EndInv
<1>3. CASE WatchdogFires \/ Killed
  BY <1>3 DEF WatchdogFires, Killed, Gone
<1>4. ~(\/ WriteDomainDef \/ OpenCard \/ NoCard \/ ApplyProfile \/ MakeManager
        \/ StartNode \/ NodeReady \/ StartAll \/ StartWeb \/ CheckPorts \/ LeaveLoop)
  BY DEF WriteDomainDef, OpenCard, NoCard, ApplyProfile, MakeManager, StartNode,
         NodeReady, StartAll, StartWeb, CheckPorts, LeaveLoop, GoTo, GiveUp, Return
<1>5. ~(\/ StopChannels \/ StopJobs \/ NotifyWorker \/ JoinWorker \/ FreeNode \/ StopWeb
        \/ StopHousekeeping \/ DestroyInstance \/ CleanUp \/ ReleaseCard)
  BY DEF StopChannels, StopJobs, NotifyWorker, JoinWorker, FreeNode, StopWeb,
         StopHousekeeping, DestroyInstance, CleanUp, ReleaseCard, Done
<1>6. ~(\/ Boot \/ HousekeepingLoop \/ Request \/ ReadyGate \/ GateLeft \/ Answered
        \/ PeerBlocks \/ WorkerLoop \/ JobArrives \/ HandlerCalled \/ HandlerDone
        \/ Signal \/ ProfileChanges \/ ProfileActivated \/ UNCHANGED vars)
  BY DEF Boot, HousekeepingLoop, Request, ReadyGate, GateLeft, Answered, PeerBlocks,
         WorkerLoop, JobArrives, HandlerCalled, HandlerDone, WebStep, WorkerStep, InputStep,
         Signal, ProfileChanges, ProfileActivated, vars
<1> QED
  BY <1>1, <1>2, <1>3, <1>4, <1>5, <1>6 DEF Next, MainSteps

(***************************************************************************)
(* An exit code tells what happened (SPECIFICATION 3.9, 3.10), for every   *)
(* number of profile managers: 2 means another program's change, or a      *)
(* configured profile on a card with several managers, where the second    *)
(* callback of our own change counts as another program's                  *)
(* (SdkCard::ProfileActivated).                                            *)
(***************************************************************************)
THEOREM ExitCodesTell == Spec => ExitCodeTells
<1>1. Init => ProfileInv
  BY DEF Init, ProfileInv
<1>2. Inv /\ ProfileInv /\ [Next]_vars => ProfileInv'
  BY ProfileKept
<1>3. Inv /\ ProfileInv /\ [Next]_vars =>
        [main # "exited" /\ main' = "exited" =>
           /\ code' = 78 => obj = {} /\ card = "none"
           /\ code' = 2 => changes > 0 \/ (cfg.profile /\ cfg.managers > 1)
           /\ code' = 143 => signal \/ (dog /\ code = 2)
           /\ AtStage("end") /\ code' = code =>
                obj \subseteq {"channels"} /\ card = "none" /\ ~run
                /\ hk = "off" /\ web = "off" /\ worker \in {"off", "ended"}]_vars
  <2> SUFFICES ASSUME Inv, ProfileInv, [Next]_vars, main # "exited", main' = "exited"
               PROVE  /\ code' = 78 => obj = {} /\ card = "none"
                      /\ code' = 2 => changes > 0 \/ (cfg.profile /\ cfg.managers > 1)
                      /\ code' = 143 => signal \/ (dog /\ code = 2)
                      /\ AtStage("end") =>
                           obj \subseteq {"channels"} /\ card = "none" /\ ~run
                           /\ hk = "off" /\ web = "off" /\ worker \in {"off", "ended"}
    OBVIOUS
  <2>1. changed => changes > 0 \/ (cfg.profile /\ cfg.managers > 1)
    BY LifecycleAssumption DEF ProfileInv, Inv, TypeOK
  <2>2. AtStage("end") => (code = 143 => signal) /\ (code = 2 => changed)
    BY DEF Inv, EndInv, AtStage
  <2>3. dog => signal \/ code = 2
    BY DEF Inv, EndInv, StartInv
  <2> QED
    BY <2>1, <2>2, <2>3, WaysOut, EndsClean
<1> QED
  BY <1>1, <1>2, <1>3, Invariance, PTL DEF Spec, ExitCodeTells
=============================================================================
