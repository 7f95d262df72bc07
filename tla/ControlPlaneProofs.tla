------------------------- MODULE ControlPlaneProofs -------------------------
(***************************************************************************)
(* What ControlPlane keeps for any number of channels, sub-devices, flows  *)
(* and requests: its types, that channels run as configured, that they own *)
(* their sub-devices, that the configuration file can be loaded, that a    *)
(* changed global part is announced, and that a restart resumes what the   *)
(* activations made of the channels.                                       *)
(***************************************************************************)
EXTENDS ControlPlane, TLAPS

-----------------------------------------------------------------------------
(* Lists of channel configurations *)

\* Two lists have the same channels, on the same sub-devices.
SameSubs(x, y) ==
  \A c \in Channels : /\ x[c] = None <=> y[c] = None
                      /\ x[c] # None => x[c].sub = y[c].sub

\* Every channel of the list is on the card, alone in its direction.
Owned(list) ==
  \A c \in Present(list) :
    /\ list[c].sub \in SubDevices
    /\ \A d \in Present(list) \ {c} : Dir[c] = Dir[d] => list[c].sub # list[d].sub

\* Nothing is absent from a channel's configuration.
LEMMA NoneIsNoCfg == None \notin Cfg /\ None \notin FileCfg /\ None \notin Activation
  BY ControlAssumption

\* The empty list is a list, and owns nothing.
LEMMA NoListType == NoList \in List /\ Present(NoList) = {} /\ Owned(NoList)
  BY DEF NoList, List, Present, Owned

\* What the file says is a list (effectiveConfig).
LEMMA EffectiveType ==
  ASSUME NEW l \in Layer
  PROVE  Effective(l) \in List
<1> DEFINE E(c) == [sub |-> l.chan[c].sub,
                    flow |-> IF c \in DOMAIN EnvFlow THEN EnvFlow[c] ELSE l.chan[c].flow,
                    active |-> l.chan[c].active,
                    path |-> Own]
<1>1. ASSUME NEW c \in Channels, l.chan[c] # None
      PROVE  E(c) \in Cfg
  <2>1. l.chan[c] \in FileCfg
    BY <1>1 DEF Layer
  <2> QED
    BY <2>1, ControlAssumption DEF FileCfg, Cfg
<1>2. Effective(l) = [c \in Channels |-> IF l.chan[c] = None THEN None ELSE E(c)]
  BY DEF Effective
<1> HIDE DEF E
<1> QED
  BY <1>1, <1>2 DEF List

\* An activation changes neither the channels nor their sub-devices.
LEMMA ActivatedType ==
  ASSUME NEW list \in List, NEW c \in Channels, list[c] # None, NEW a \in Activation
  PROVE  /\ Activated(list, c, a) \in List
         /\ SameSubs(list, Activated(list, c, a))
<1> DEFINE v == list[c]
           w == [sub |-> v.sub,
                 flow |-> IF a.flow = None THEN v.flow ELSE a.flow,
                 active |-> a.enable,
                 path |-> IF Dir[c] = "output" /\ a.dom # Unknown THEN a.dom ELSE Own]
<1>1. v \in Cfg
  BY DEF List
<1>2. w \in Cfg /\ w.sub = v.sub
  BY <1>1 DEF Cfg, Activation
<1>3. Activated(list, c, a) = [list EXCEPT ![c] = w]
  BY DEF Activated
<1>4. w.sub = v.sub /\ w # None /\ v # None
  BY <1>1, <1>2, NoneIsNoCfg
<1> HIDE DEF v, w
<1>5. [list EXCEPT ![c] = w] \in List
  BY <1>2 DEF List
<1>6. SameSubs(list, [list EXCEPT ![c] = w])
  BY <1>4 DEF List, SameSubs, v
<1> QED
  BY <1>3, <1>5, <1>6

\* Nor does the restoring of the saved ones.
LEMMA RestoredType ==
  ASSUME NEW list \in List, routes \in [Channels -> Activation \cup {None}]
  PROVE  /\ Restored(list) \in List
         /\ SameSubs(list, Restored(list))
<1> DEFINE r == Restored(list)
<1>1. ASSUME NEW c \in Channels
      PROVE  /\ r[c] \in Cfg \cup {None}
             /\ list[c] = None <=> r[c] = None
             /\ list[c] # None => list[c].sub = r[c].sub
  <2>1. CASE c \notin legs \/ list[c] = None \/ routes[c] = None
    BY <2>1 DEF Restored, List
  <2>2. CASE ~(c \notin legs \/ list[c] = None \/ routes[c] = None)
    <3> DEFINE a == Saved(list, c)
               b == [a EXCEPT !.enable = FALSE]
    <3>1. routes[c] \in Activation /\ list[c] \in Cfg
      BY <2>2 DEF List
    <3>2. a \in Activation
      BY <3>1 DEF Saved, Activation, Cfg
    <3>3. b \in Activation
      BY <3>2 DEF Activation
    <3>4. /\ Activated(list, c, a) \in List /\ SameSubs(list, Activated(list, c, a))
          /\ Activated(list, c, b) \in List /\ SameSubs(list, Activated(list, c, b))
      BY <2>2, <3>2, <3>3, ActivatedType
    <3>5. r[c] = Activated(list, c, a)[c] \/ r[c] = Activated(list, c, b)[c]
      BY <2>2 DEF Restored
    <3> HIDE DEF a, b, r
    <3> QED
      BY <3>4, <3>5 DEF SameSubs, List
  <2> QED
    BY <2>1, <2>2
<1>2. r = [c \in Channels |-> r[c]]
  BY DEF Restored
<1> HIDE DEF r
<1>3. r \in List
  BY <1>1, <1>2 DEF List
<1>4. SameSubs(list, r)
  BY <1>1 DEF SameSubs
<1> QED
  BY <1>3, <1>4 DEF r

\* Nor does parking.
LEMMA ParkedType ==
  ASSUME NEW list \in List
  PROVE  /\ Parked(list) \in List
         /\ SameSubs(list, Parked(list))
<1> DEFINE w(c) == [list[c] EXCEPT !.active = FALSE]
<1>1. ASSUME NEW c \in Channels, list[c] # None
      PROVE  w(c) \in Cfg /\ w(c).sub = list[c].sub /\ w(c) # None
  <2>1. list[c] \in Cfg
    BY <1>1 DEF List
  <2>2. w(c) \in Cfg /\ w(c).sub = list[c].sub
    BY <2>1 DEF Cfg
  <2> QED
    BY <2>2, NoneIsNoCfg
<1>2. Parked(list) =
        [c \in Channels |-> IF list[c] # None /\ Dir[c] = "output" /\ list[c].flow = NilFlow
                            THEN w(c) ELSE list[c]]
  BY DEF Parked
<1> HIDE DEF w
<1>3. Parked(list) \in List
  BY <1>1, <1>2 DEF List
<1>4. SameSubs(list, Parked(list))
  BY <1>1, <1>2 DEF SameSubs
<1> QED
  BY <1>3, <1>4

\* Ownership is a matter of the channels and their sub-devices only.
LEMMA OwnedBySubs ==
  ASSUME NEW x, NEW y, SameSubs(x, y), Owned(x)
  PROVE  Owned(y)
  BY DEF SameSubs, Owned, Present

\* A list that passes both validations is owned.
LEMMA ValidIsOwned ==
  ASSUME NEW list, ValidConfig(list), FitsCard(list)
  PROVE  Owned(list)
  BY DEF ValidConfig, FitsCard, Owned, Present
\* What effectiveConfig makes of a channel of the file.
LEMMA EffectiveAt ==
  ASSUME NEW l \in Layer, NEW c \in Channels
  PROVE  /\ Effective(l)[c] = None <=> l.chan[c] = None
         /\ l.chan[c] # None =>
              /\ Effective(l)[c] \in Cfg
              /\ Effective(l)[c].sub = l.chan[c].sub
              /\ Effective(l)[c] = [sub |-> l.chan[c].sub,
                                    flow |-> IF c \in DOMAIN EnvFlow THEN EnvFlow[c]
                                             ELSE l.chan[c].flow,
                                    active |-> l.chan[c].active,
                                    path |-> Own]
<1> DEFINE e == [sub |-> l.chan[c].sub,
                 flow |-> IF c \in DOMAIN EnvFlow THEN EnvFlow[c] ELSE l.chan[c].flow,
                 active |-> l.chan[c].active,
                 path |-> Own]
<1>1. Effective(l)[c] = IF l.chan[c] = None THEN None ELSE e
  BY DEF Effective
<1>2. ASSUME l.chan[c] # None
      PROVE  e \in Cfg
  <2>1. l.chan[c] \in FileCfg
    BY <1>2 DEF Layer
  <2> QED
    BY <2>1, ControlAssumption DEF FileCfg, Cfg
<1> HIDE DEF e
<1>3. (Effective(l)[c] = None <=> l.chan[c] = None) /\ (l.chan[c] # None => Effective(l)[c] = e)
  BY <1>1, <1>2, NoneIsNoCfg
<1>4. e.sub = l.chan[c].sub
  BY DEF e
<1> QED
  BY <1>2, <1>3, <1>4 DEF e

\* persist writes the flow and the active flag of the worker's channels, and
\* nothing else.
LEMMA PersistedType ==
  ASSUME layer \in Layer, worker.list \in List
  PROVE  /\ Persisted \in Layer /\ Persisted.glob = layer.glob
         /\ \A c \in Channels :
              /\ Persisted.chan[c] = None <=> layer.chan[c] = None
              /\ layer.chan[c] # None => Persisted.chan[c].sub = layer.chan[c].sub
              /\ layer.chan[c] # None /\ worker.list[c] = None =>
                   Persisted.chan[c] = layer.chan[c]
              /\ layer.chan[c] # None /\ worker.list[c] # None =>
                   Persisted.chan[c] = [sub |-> layer.chan[c].sub,
                                        flow |-> IF c \in DOMAIN EnvFlow THEN layer.chan[c].flow
                                                 ELSE worker.list[c].flow,
                                        active |-> worker.list[c].active]
<1> DEFINE P(c) == [sub |-> layer.chan[c].sub,
                    flow |-> IF c \in DOMAIN EnvFlow THEN layer.chan[c].flow
                             ELSE worker.list[c].flow,
                    active |-> worker.list[c].active]
           Q == [c \in Channels |-> IF layer.chan[c] = None \/ worker.list[c] = None
                                    THEN layer.chan[c] ELSE P(c)]
<1>1. ASSUME NEW c \in Channels, layer.chan[c] # None, worker.list[c] # None
      PROVE  P(c) \in FileCfg
  <2>1. layer.chan[c] \in FileCfg /\ worker.list[c] \in Cfg
    BY <1>1 DEF Layer, List
  <2> QED
    BY <2>1 DEF FileCfg, Cfg
<1>2. Persisted = [layer EXCEPT !.chan = Q]
  BY DEF Persisted
<1>3. \A c \in Channels : P(c).sub = layer.chan[c].sub
  OBVIOUS
<1> HIDE DEF P
<1>4. Q \in [Channels -> FileCfg \cup {None}]
  BY <1>1 DEF Layer
<1>5. \A c \in Channels :
        /\ Q[c] = None <=> layer.chan[c] = None
        /\ layer.chan[c] # None => Q[c].sub = layer.chan[c].sub
        /\ layer.chan[c] # None /\ worker.list[c] = None => Q[c] = layer.chan[c]
        /\ layer.chan[c] # None /\ worker.list[c] # None => Q[c] = P(c)
  BY <1>1, <1>3, NoneIsNoCfg
<1> HIDE DEF Q
<1>6. Persisted \in Layer /\ Persisted.chan = Q /\ Persisted.glob = layer.glob
  BY <1>2, <1>4 DEF Layer
<1> QED
  BY <1>5, <1>6 DEF P

\* Loading what was persisted, every channel is on its sub-device.
LEMMA PersistedSubs ==
  ASSUME layer \in Layer, worker.list \in List
  PROVE  SameSubs(Effective(layer), Effective(Persisted))
<1> SUFFICES ASSUME NEW c \in Channels
             PROVE  /\ Effective(layer)[c] = None <=> Effective(Persisted)[c] = None
                    /\ Effective(layer)[c] # None =>
                         Effective(layer)[c].sub = Effective(Persisted)[c].sub
  BY DEF SameSubs
<1>1. Effective(layer)[c] # None => Effective(layer)[c].sub = layer.chan[c].sub
  BY EffectiveAt
<1>2. Effective(Persisted)[c] # None => Effective(Persisted)[c].sub = Persisted.chan[c].sub
  BY EffectiveAt, PersistedType
<1>3. layer.chan[c] # None => Persisted.chan[c].sub = layer.chan[c].sub
  BY PersistedType
<1> QED
  BY <1>1, <1>2, <1>3, EffectiveAt, PersistedType

\* Whether a list fits the card is a matter of its sub-devices.
LEMMA FitsBySubs ==
  ASSUME NEW x, NEW y, SameSubs(x, y)
  PROVE  FitsCard(x) <=> FitsCard(y)
  BY DEF SameSubs, FitsCard, Present

\* Having the same sub-devices is symmetric and transitive.
LEMMA SubsAreSame ==
  ASSUME NEW x, NEW y, SameSubs(x, y)
  PROVE  SameSubs(y, x) /\ \A z : SameSubs(y, z) => SameSubs(x, z)
  BY DEF SameSubs

-----------------------------------------------------------------------------
(* Types *)

\* The idle places of the web thread and the worker are well typed.
LEMMA IdleTypes ==
  /\ WebIdle \in [pc : {"idle", "apply"}, list : List, asked : SUBSET Channels, glob : Globals]
  /\ WebIdle.pc = "idle"
  /\ WorkerTop \in [pc : {"top", "waiting", "apply", "save", "read", "persist", "lost", "ended"},
                    list : List, chan : Channels \cup {None}, act : Activation \cup {None}]
  /\ WorkerTop.pc = "top"
<1>1. StartFile.glob \in Globals
  BY ControlAssumption DEF Layer
<1> QED
  BY <1>1, NoListType DEF WebIdle, WorkerTop

\* The initial state is well typed.
LEMMA InitTypes == Init => TypeOK
<1> SUFFICES ASSUME Init PROVE TypeOK
  OBVIOUS
<1>1. layer \in Layer /\ global \in Globals
  BY ControlAssumption DEF Init, Layer
<1>2. worker \in [pc : {"top", "waiting", "apply", "save", "read", "persist", "lost", "ended"},
                 list : List, chan : Channels \cup {None}, act : Activation \cup {None}]
  BY IdleTypes DEF Init
<1>3. lives \in 0..MaxLives /\ sent \in 0..MaxJobs /\ requests \in 0..MaxRequests
  BY ControlAssumption DEF Init
<1>4. /\ entries \in List /\ run \in List
      /\ web \in [pc : {"idle", "apply"}, list : List, asked : SUBSET Channels, glob : Globals]
      /\ jobs \in Seq(Channels \X Activation)
      /\ routes \in [Channels -> Activation \cup {None}]
  BY IdleTypes, NoListType DEF Init
<1>5. /\ started \in BOOLEAN /\ flag \in BOOLEAN /\ edited \in BOOLEAN
      /\ mutex \in {"free", "web", "worker"} /\ legs \subseteq Channels
      /\ main \in {"node", "start", "running", "stop", "deregister", "nodeStop", "webStop",
                  "exited"}
  BY DEF Init
<1> QED
  BY <1>1, <1>2, <1>3, <1>4, <1>5 DEF TypeOK

\* Every step of the main thread keeps the types.
LEMMA MainTypes ==
  ASSUME TypeOK, Boot \/ BootFails \/ Signal \/ Crash \/ MainSteps
  PROVE  TypeOK'
<1> USE ControlAssumption, IdleTypes, NoListType
<1>1. CASE Boot
  <2>1. Effective(layer) \in List
    BY EffectiveType DEF TypeOK
  <2>2. legs' \subseteq Channels /\ entries' \in List /\ global' \in Globals
    BY <1>1, <2>1 DEF Boot, Present, TypeOK, Layer
  <2>3. lives' \in 0..MaxLives
    BY <1>1 DEF Boot, TypeOK
  <2> QED
    BY <1>1, <2>2, <2>3 DEF Boot, TypeOK
<1>2. CASE BootFails
  BY <1>2 DEF BootFails, TypeOK, manager
<1>3. CASE Signal
  BY <1>3 DEF Signal, TypeOK, manager, bounds
<1>4. CASE Exits
  <2>1. worker' \in [pc : {"top", "waiting", "apply", "save", "read", "persist", "lost", "ended"},
                    list : List, chan : Channels \cup {None}, act : Activation \cup {None}]
    BY <1>4 DEF Exits
  <2>2. jobs' \in Seq(Channels \X Activation) /\ entries' \in List /\ run' \in List
    BY <1>4 DEF Exits
  <2> QED
    BY <1>4, <2>1, <2>2 DEF Exits, TypeOK, bounds
<1>5. CASE NodeStarts
  <2>1. entries' \in List
    BY <1>5, RestoredType, ParkedType DEF NodeStarts, TypeOK
  <2> QED
    BY <1>5, <2>1 DEF NodeStarts, TypeOK, bounds
<1>6. CASE StartAll
  BY <1>6 DEF StartAll, TypeOK, bounds
<1>7. CASE StopAll
  BY <1>7 DEF StopAll, TypeOK, bounds
<1>8. CASE Deregistered
  BY <1>8 DEF Deregistered, TypeOK, manager, bounds
<1>9. CASE NodeStopped
  BY <1>9 DEF NodeStopped, TypeOK, manager, bounds
<1> QED
  BY <1>1, <1>2, <1>3, <1>4, <1>5, <1>6, <1>7, <1>8, <1>9
     DEF MainSteps, Crash, WebStopped

\* Every step of the web thread keeps the types.
LEMMA WebTypes ==
  ASSUME TypeOK, Put \/ Import \/ WebSteps
  PROVE  TypeOK'
<1> USE ControlAssumption, IdleTypes, NoListType
<1>1. ASSUME NEW candidate \in Layer, NEW asked \in SUBSET Channels, PutUpdate(candidate, asked)
      PROVE  TypeOK'
  <2>1. Effective(candidate) \in List /\ candidate.glob \in Globals
    BY EffectiveType DEF Layer
  <2>2. requests' \in 0..MaxRequests
    BY <1>1 DEF PutUpdate, TypeOK
  <2>3. web' \in [pc : {"idle", "apply"}, list : List, asked : SUBSET Channels, glob : Globals]
    BY <1>1, <2>1 DEF PutUpdate
  <2> QED
    BY <1>1, <2>2, <2>3 DEF PutUpdate, TypeOK, manager
<1>2. CASE Put
  <2>1. ASSUME NEW c \in Channels, NEW f \in Edits \cup {None}
        PROVE  Change(c, f) \in Layer
    BY DEF Change, TypeOK, Layer
  <2>2. ASSUME NEW g \in Globals
        PROVE  [layer EXCEPT !.glob = g] \in Layer
    BY DEF TypeOK, Layer
  <2>3. CASE \E c \in Channels, f \in Edits \cup {None} :
                Changeable(c, f) /\ PutUpdate(Change(c, f), {c})
    <3>1. PICK c \in Channels, f \in Edits \cup {None} : PutUpdate(Change(c, f), {c})
      BY <2>3
    <3> QED
      BY <1>1, <2>1, <3>1
  <2>4. CASE \E g \in Globals : PutUpdate([layer EXCEPT !.glob = g], {})
    <3>1. PICK g \in Globals : PutUpdate([layer EXCEPT !.glob = g], {})
      BY <2>4
    <3> QED
      BY <1>1, <2>2, <3>1
  <2> QED
    BY <1>2, <2>3, <2>4 DEF Put
<1>3. CASE Import
  <2>1. layer' \in Layer
    BY <1>3 DEF Import, NoList, Layer
  <2> QED
    BY <1>3, <2>1 DEF Import, TypeOK, manager
<1>4. CASE PutRefused
  BY <1>4 DEF PutRefused, TypeOK, manager, bounds
<1>5. CASE PutApplies
  BY <1>5 DEF PutApplies, TypeOK, manager, bounds
<1>6. CASE PutAnswered
  BY <1>6 DEF PutAnswered, TypeOK, manager, bounds
<1> QED
  BY <1>2, <1>3, <1>4, <1>5, <1>6 DEF WebSteps

\* Every step of applyChannels keeps the types.
LEMMA ApplyTypes ==
  ASSUME TypeOK, ApplySteps
  PROVE  TypeOK'
<1>1. Target \in List
  BY DEF Target, TypeOK
<1>2. PICK c \in Channels : RemoveEntry(c) \/ ChangeEntry(c)
  BY DEF ApplySteps
<1>3. Target[c] \in Cfg \cup {None}
  BY <1>1 DEF List
<1>4. entries' \in List /\ run' \in List
  BY <1>2, <1>3 DEF RemoveEntry, ChangeEntry, TypeOK, List
<1> QED
  BY <1>2, <1>4 DEF RemoveEntry, ChangeEntry, TypeOK, bounds

\* Every step of the NMOS node keeps the types.
LEMMA NodeTypes ==
  ASSUME TypeOK, (\E c \in Channels, a \in Activation : Enqueue(c, a)) \/ WorkerSteps
  PROVE  TypeOK'
<1> USE ControlAssumption, IdleTypes
<1>1. ASSUME NEW c \in Channels, NEW a \in Activation, Enqueue(c, a)
      PROVE  TypeOK'
  <2>1. jobs' \in Seq(Channels \X Activation)
    <3>1. <<c, a>> \in Channels \X Activation
      OBVIOUS
    <3> QED
      BY <1>1, <3>1 DEF Enqueue, TypeOK
  <2>2. sent' \in 0..MaxJobs
    BY <1>1 DEF Enqueue, TypeOK
  <2> QED
    BY <1>1, <2>1, <2>2 DEF Enqueue, TypeOK, manager
<1>2. CASE WorkerLoops
  <2>1. worker' \in [pc : {"top", "waiting", "apply", "save", "read", "persist", "lost", "ended"},
                    list : List, chan : Channels \cup {None}, act : Activation \cup {None}]
    BY <1>2 DEF WorkerLoops, TypeOK
  <2> QED
    BY <1>2, <2>1 DEF WorkerLoops, TypeOK, manager, bounds
<1>3. CASE WorkerEnds
  BY <1>3 DEF WorkerEnds, TypeOK, manager, bounds
<1>4. CASE WorkerTakes
  <2>1. PICK c \in Channels, a \in Activation : Head(jobs) = <<c, a>>
    BY <1>4 DEF WorkerTakes, TypeOK
  <2>2. jobs' \in Seq(Channels \X Activation)
    BY <1>4 DEF WorkerTakes, TypeOK
  <2>3. Accepted(entries, c, a) => Activated(entries, c, a) \in List
    BY ActivatedType DEF Accepted, TypeOK
  <2>4. worker' \in [pc : {"top", "waiting", "apply", "save", "read", "persist", "lost", "ended"},
                    list : List, chan : Channels \cup {None}, act : Activation \cup {None}]
    BY <1>4, <2>1, <2>3 DEF WorkerTakes
  <2> QED
    BY <1>4, <2>2, <2>4 DEF WorkerTakes, TypeOK, manager, bounds
<1>5. CASE WorkerApplies
  BY <1>5 DEF WorkerApplies, TypeOK, manager, bounds
<1>6. CASE WorkerApplied
  BY <1>6 DEF WorkerApplied, TypeOK, manager, bounds
<1>7. CASE WorkerSaves
  BY <1>7 DEF WorkerSaves, TypeOK, manager, bounds
<1>8. CASE WorkerReads
  BY <1>8 DEF WorkerReads, TypeOK, manager, bounds
<1>9. CASE WorkerPersists
  <2>1. Persisted \in Layer
    BY PersistedType DEF TypeOK
  <2> QED
    BY <1>9, <2>1 DEF WorkerPersists, TypeOK, manager, bounds
<1> QED
  BY <1>1, <1>2, <1>3, <1>4, <1>5, <1>6, <1>7, <1>8, <1>9 DEF WorkerSteps

\* Types are kept by every step.
LEMMA NextTypes == TypeOK /\ [Next]_vars => TypeOK'
<1> SUFFICES ASSUME TypeOK, [Next]_vars PROVE TypeOK'
  OBVIOUS
<1>1. CASE Next
  BY <1>1, MainTypes, WebTypes, ApplyTypes, NodeTypes DEF Next
<1>2. CASE UNCHANGED vars
  BY <1>2 DEF vars, TypeOK
<1> QED
  BY <1>1, <1>2

(***************************************************************************)
(* Configurations, lists, jobs and routes are well formed for any          *)
(* interleaving of the web API, the worker and restarts.                   *)
(***************************************************************************)
THEOREM ControlTypes == Spec => []TypeOK
<1>1. Init => TypeOK
  BY InitTypes
<1>2. TypeOK /\ [Next]_vars => TypeOK'
  BY NextTypes
<1> QED
  BY <1>1, <1>2, PTL DEF Spec
-----------------------------------------------------------------------------
(* Channels run as configured *)

(***************************************************************************)
(* Even inside applyChannels, an entry and its channel object change       *)
(* together; and nothing has been started while the node restores routes,  *)
(* which changes entries only.                                             *)
(***************************************************************************)
RunInv ==
  /\ run = IF started THEN entries ELSE NoList
  /\ started => main \notin {"exited", "node", "start"}

\* RunInv is kept by every step.
LEMMA NextRuns == TypeOK /\ RunInv /\ [Next]_vars => RunInv'
<1> SUFFICES ASSUME TypeOK, RunInv, [Next]_vars PROVE RunInv'
  OBVIOUS
<1> USE DEF RunInv, manager, bounds
<1>1. CASE Boot
  BY <1>1 DEF Boot
<1>2. CASE BootFails \/ Signal
  BY <1>2 DEF BootFails, Signal
<1>3. CASE Exits
  BY <1>3 DEF Exits
<1>4. CASE NodeStarts
  BY <1>4 DEF NodeStarts
<1>5. CASE StartAll
  BY <1>5 DEF StartAll
<1>6. CASE StopAll
  BY <1>6 DEF StopAll
<1>7. CASE Deregistered \/ NodeStopped
  BY <1>7 DEF Deregistered, NodeStopped
<1>8. CASE Put \/ Import \/ WebSteps
  <2>1. ASSUME NEW candidate, NEW asked, PutUpdate(candidate, asked)
        PROVE  RunInv'
    BY <2>1 DEF PutUpdate
  <2>2. CASE Put
    BY <2>1, <2>2 DEF Put
  <2>3. CASE Import
    BY <2>3 DEF Import
  <2>4. CASE WebSteps
    BY <2>4 DEF WebSteps, PutRefused, PutApplies, PutAnswered
  <2> QED
    BY <1>8, <2>2, <2>3, <2>4
<1>9. ASSUME NEW c \in Channels, RemoveEntry(c) \/ ChangeEntry(c)
      PROVE  RunInv'
  <2>1. [NoList EXCEPT ![c] = None] = NoList
    BY DEF NoList
  <2> QED
    BY <1>9, <2>1 DEF RemoveEntry, ChangeEntry
<1>10. ASSUME NEW c \in Channels, NEW a \in Activation, Enqueue(c, a)
       PROVE  RunInv'
  BY <1>10 DEF Enqueue
<1>11. CASE WorkerSteps
  BY <1>11 DEF WorkerSteps, WorkerLoops, WorkerEnds, WorkerTakes, WorkerApplies, WorkerApplied,
               WorkerSaves, WorkerReads, WorkerPersists
<1>12. CASE UNCHANGED vars
  BY <1>12 DEF vars
<1> QED
  BY <1>1, <1>2, <1>3, <1>4, <1>5, <1>6, <1>7, <1>8, <1>9, <1>10, <1>11, <1>12
     DEF Next, MainSteps, ApplySteps, Crash, WebStopped

(***************************************************************************)
(* Outside applyChannels, what runs is what is configured, and nothing     *)
(* runs before startAll or after stopAll (channel_manager.cpp).            *)
(***************************************************************************)
THEOREM ChannelsRunAsConfigured == Spec => []RunsAsConfigured
<1>1. Init => RunInv
  BY DEF Init, RunInv
<1>2. RunInv => RunsAsConfigured
  BY DEF RunInv, RunsAsConfigured
<1> QED
  BY <1>1, <1>2, InitTypes, NextTypes, NextRuns, PTL DEF Spec

-----------------------------------------------------------------------------
(* The file can be loaded *)

\* Whoever writes the file validates what it will hold first.
LEMMA NextLoads == FileIsLoadable /\ [Next]_vars => FileIsLoadable'
<1> SUFFICES ASSUME FileIsLoadable, [Next]_vars PROVE FileIsLoadable'
  OBVIOUS
<1> USE DEF FileIsLoadable
<1>1. ASSUME NEW candidate, NEW asked, PutUpdate(candidate, asked)
      PROVE  FileIsLoadable'
  <2>1. layer' = candidate /\ ValidConfig(Effective(candidate))
    BY <1>1 DEF PutUpdate
  <2> QED
    BY <2>1 DEF ValidConfig, Effective, Present
<1>2. CASE Import
  <2>1. ValidConfig(Effective(layer'))
    BY <1>2 DEF Import
  <2> QED
    BY <2>1 DEF ValidConfig, Effective, Present
<1>3. CASE WorkerPersists
  <2>1. ValidConfig(Effective(layer'))
    BY <1>3 DEF WorkerPersists
  <2> QED
    BY <2>1 DEF ValidConfig, Effective, Present
<1>4. CASE UNCHANGED layer
  BY <1>4 DEF ValidConfig, Effective, Present
<1>5. Next => (\E x, y : PutUpdate(x, y)) \/ Import \/ WorkerPersists \/ UNCHANGED layer
  BY DEF Next, MainSteps, ApplySteps, WorkerSteps, WebSteps, Put, Boot, BootFails, Signal, Crash,
         Exits, NodeStarts, StartAll, StopAll, Deregistered, NodeStopped, WebStopped, PutRefused,
         PutApplies, PutAnswered, RemoveEntry, ChangeEntry, Enqueue, WorkerLoops, WorkerEnds,
         WorkerTakes, WorkerApplies, WorkerApplied, WorkerSaves, WorkerReads
<1>6. UNCHANGED vars => UNCHANGED layer
  BY DEF vars
<1> QED
  BY <1>1, <1>2, <1>3, <1>4, <1>5, <1>6

(***************************************************************************)
(* The configuration file is never left with what the validation of a      *)
(* start refuses, by either writer (ConfigStore::update, importDocument).  *)
(***************************************************************************)
THEOREM FileStaysLoadable == Spec => []FileIsLoadable
<1>1. Init => FileIsLoadable
  BY StartFileAssumption DEF Init, FileIsLoadable
<1> QED
  BY <1>1, NextLoads, PTL DEF Spec

-----------------------------------------------------------------------------
(* Sub-devices are owned *)

(***************************************************************************)
(* Who is in applyChannels has an owned list: the web thread one that      *)
(* passed both validations, the worker one that keeps the sub-devices of   *)
(* the entries that it read, whatever was applied meanwhile.  Nobody is in *)
(* it when a process starts.                                               *)
(***************************************************************************)
SubInv ==
  /\ mutex = "free" => Owned(entries)
  /\ web.pc = "apply" => ValidConfig(web.list)
  /\ mutex = "web" => web.pc = "apply" /\ FitsCard(web.list)
  /\ worker.pc = "apply" => Owned(worker.list)
  /\ mutex = "worker" => worker.pc = "apply"
  /\ main = "exited" => mutex = "free" /\ web.pc = "idle" /\ worker.pc = "ended"

\* The main thread keeps SubInv.
LEMMA MainSubs ==
  ASSUME TypeOK, FileIsLoadable, SubInv, Boot \/ BootFails \/ Signal \/ Crash \/ MainSteps
  PROVE  SubInv'
<1> USE IdleTypes DEF SubInv, manager, bounds
<1>1. CASE Boot
  <2>1. Owned(Effective(layer))
    BY <1>1, ValidIsOwned DEF Boot, FileIsLoadable
  <2> QED
    BY <1>1, <2>1 DEF Boot
<1>2. CASE BootFails \/ Signal
  BY <1>2 DEF BootFails, Signal, Owned, Present, ValidConfig, FitsCard
<1>3. CASE Exits
  <2>1. Owned(entries')
    BY <1>3, NoListType DEF Exits, Owned, Present
  <2>2. worker'.pc = "ended"
    BY <1>3 DEF Exits
  <2> QED
    BY <1>3, <2>1, <2>2 DEF Exits, Owned, Present
<1>4. CASE NodeStarts
  <2>1. Owned(entries) => Owned(Parked(Restored(entries)))
    BY RestoredType, ParkedType, OwnedBySubs DEF TypeOK
  <2> QED
    BY <1>4, <2>1 DEF NodeStarts, Owned, Present, ValidConfig, FitsCard
<1>5. CASE StartAll \/ StopAll \/ NodeStopped
  BY <1>5 DEF StartAll, StopAll, NodeStopped, Owned, Present, ValidConfig, FitsCard
<1>6. CASE Deregistered
  BY <1>6 DEF Deregistered, Owned, Present, ValidConfig, FitsCard, TypeOK
<1> QED
  BY <1>1, <1>2, <1>3, <1>4, <1>5, <1>6 DEF MainSteps, Crash, WebStopped

\* The web thread keeps SubInv.
LEMMA WebSubs ==
  ASSUME TypeOK, SubInv, Put \/ Import \/ WebSteps
  PROVE  SubInv'
<1> USE IdleTypes DEF SubInv, manager, bounds
<1>1. ASSUME NEW candidate, NEW asked, PutUpdate(candidate, asked)
      PROVE  SubInv'
  <2>1. ValidConfig(web'.list)
    BY <1>1 DEF PutUpdate
  <2>2. mutex # "web"
    BY <1>1 DEF PutUpdate
  <2> QED
    BY <1>1, <2>1, <2>2 DEF PutUpdate, Serving
<1>2. CASE Put
  BY <1>1, <1>2 DEF Put
<1>3. CASE Import
  BY <1>3 DEF Import, Owned, Present, ValidConfig, FitsCard
<1>4. CASE PutRefused
  BY <1>4 DEF PutRefused, Owned, Present, ValidConfig, FitsCard
<1>5. CASE PutApplies
  BY <1>5 DEF PutApplies, Owned, Present, ValidConfig, FitsCard
<1>6. CASE PutAnswered
  <2>1. Owned(entries)
    BY <1>6, ValidIsOwned DEF PutAnswered
  <2> QED
    BY <1>6, <2>1 DEF PutAnswered, Owned, Present
<1> QED
  BY <1>2, <1>3, <1>4, <1>5, <1>6 DEF WebSteps

\* So does applyChannels, and so does the node.
LEMMA NodeSubs ==
  ASSUME TypeOK, SubInv,
         ApplySteps \/ (\E c \in Channels, a \in Activation : Enqueue(c, a)) \/ WorkerSteps
  PROVE  SubInv'
<1> USE IdleTypes DEF SubInv, manager, bounds
<1>1. CASE ApplySteps
  BY <1>1 DEF ApplySteps, RemoveEntry, ChangeEntry, Owned, Present, ValidConfig, FitsCard
<1>2. CASE \E c \in Channels, a \in Activation : Enqueue(c, a)
  BY <1>2 DEF Enqueue, Owned, Present, ValidConfig, FitsCard
<1>3. CASE WorkerLoops \/ WorkerEnds \/ WorkerSaves \/ WorkerReads
  <2>1. mutex # "worker" /\ worker'.pc # "apply"
    BY <1>3 DEF WorkerLoops, WorkerEnds, WorkerSaves, WorkerReads, TypeOK
  <2> QED
    BY <1>3, <2>1 DEF WorkerLoops, WorkerEnds, WorkerSaves, WorkerReads
<1>4. CASE WorkerTakes
  <2>1. PICK c \in Channels, a \in Activation : Head(jobs) = <<c, a>>
    BY <1>4 DEF WorkerTakes, TypeOK
  <2>2. Accepted(entries, c, a) => Owned(Activated(entries, c, a))
    BY <1>4, ActivatedType, OwnedBySubs DEF WorkerTakes, Accepted, TypeOK
  <2>3. worker'.pc = "apply" => Owned(worker'.list)
    BY <1>4, <2>1, <2>2 DEF WorkerTakes
  <2> QED
    BY <1>4, <2>3 DEF WorkerTakes, Owned, Present, ValidConfig, FitsCard
<1>5. CASE WorkerApplies
  BY <1>5 DEF WorkerApplies, Owned, Present, ValidConfig, FitsCard
<1>6. CASE WorkerApplied
  BY <1>6 DEF WorkerApplied, Owned, Present, ValidConfig, FitsCard, TypeOK
<1>7. CASE WorkerPersists
  BY <1>7 DEF WorkerPersists, Owned, Present, ValidConfig, FitsCard
<1> QED
  BY <1>1, <1>2, <1>3, <1>4, <1>5, <1>6, <1>7 DEF WorkerSteps

(***************************************************************************)
(* Outside applyChannels, every running channel is on a sub-device of the  *)
(* card and alone there in its direction, although two threads decide.     *)
(***************************************************************************)
THEOREM ChannelsOwnSubDevices == Spec => []SubDevicesAreOwned
<1>1. Init => SubInv
  BY NoListType, IdleTypes DEF Init, SubInv
<1>2. TypeOK /\ FileIsLoadable /\ SubInv /\ [Next]_vars => SubInv'
  <2> SUFFICES ASSUME TypeOK, FileIsLoadable, SubInv, [Next]_vars PROVE SubInv'
    OBVIOUS
  <2>1. CASE Next
    BY <2>1, MainSubs, WebSubs, NodeSubs DEF Next
  <2>2. CASE UNCHANGED vars
    BY <2>2 DEF vars, SubInv, Owned, Present, ValidConfig, FitsCard
  <2> QED
    BY <2>1, <2>2
<1>3. SubInv /\ RunsAsConfigured => SubDevicesAreOwned
  BY NoListType DEF SubInv, RunsAsConfigured, SubDevicesAreOwned, Owned
<1> QED
  BY <1>1, <1>2, <1>3, InitTypes, NextTypes, FileStaysLoadable, ChannelsRunAsConfigured, PTL
     DEF Spec

-----------------------------------------------------------------------------
(* A restart is announced *)

(***************************************************************************)
(* A request that is being applied is about the file as it is: only the    *)
(* NMOS worker writes the file meanwhile, and not what the card and the    *)
(* comparison of the global part look at.  Until the request is answered   *)
(* it stands for the announcement.                                         *)
(***************************************************************************)
AnnounceInv ==
  /\ web.pc = "apply" => web.glob = layer.glob /\ SameSubs(web.list, Effective(layer))
  /\ mutex = "web" => web.pc = "apply"
  /\ main # "exited" /\ layer.glob # global =>
       flag \/ web.pc = "apply" \/ ~FitsCard(Effective(layer))

\* Every step keeps it.
LEMMA NextAnnounces == TypeOK /\ AnnounceInv /\ [Next]_vars => AnnounceInv'
<1> SUFFICES ASSUME TypeOK, AnnounceInv, [Next]_vars PROVE AnnounceInv'
  OBVIOUS
<1> USE IdleTypes DEF AnnounceInv, manager, bounds
<1>1. CASE Boot
  BY <1>1 DEF Boot
<1>2. CASE Exits
  BY <1>2 DEF Exits
<1>3. ASSUME NEW candidate, NEW asked, PutUpdate(candidate, asked)
      PROVE  AnnounceInv'
  <2>1. web'.pc = "apply" /\ web'.glob = layer'.glob /\ web'.list = Effective(layer')
    BY <1>3 DEF PutUpdate
  <2>2. SameSubs(web'.list, Effective(layer'))
    BY <2>1 DEF SameSubs
  <2> QED
    BY <1>3, <2>1, <2>2 DEF PutUpdate, Serving
<1>4. CASE Import
  BY <1>4 DEF Import, Serving
<1>5. CASE PutRefused
  <2>1. ~FitsCard(Effective(layer))
    BY <1>5, FitsBySubs DEF PutRefused
  <2> QED
    BY <1>5, <2>1 DEF PutRefused, FitsCard, Present, Effective
<1>6. CASE PutApplies
  BY <1>6 DEF PutApplies, FitsCard, Present, Effective, SameSubs
<1>7. CASE PutAnswered
  <2>1. web.glob = layer.glob
    BY <1>7 DEF PutAnswered
  <2>2. layer.glob # global => flag'
    BY <1>7, <2>1 DEF PutAnswered
  <2> QED
    BY <1>7, <2>2 DEF PutAnswered
<1>8. CASE WorkerPersists
  <2>1. /\ layer'.glob = layer.glob /\ SameSubs(Effective(layer), Effective(layer'))
        /\ UNCHANGED <<web, mutex, main, global, flag>>
    <3>1. CASE layer' = Persisted
      BY <1>8, <3>1, PersistedType, PersistedSubs DEF WorkerPersists, TypeOK
    <3>2. CASE layer' = layer
      BY <1>8, <3>2 DEF WorkerPersists, SameSubs
    <3> QED
      BY <1>8, <3>1, <3>2 DEF WorkerPersists
  <2>2. web.pc = "apply" => SameSubs(web.list, Effective(layer'))
    BY <2>1, SubsAreSame
  <2>3. FitsCard(Effective(layer)) <=> FitsCard(Effective(layer'))
    BY <2>1, FitsBySubs
  <2> HIDE DEF FitsCard
  <2>4. main # "exited" /\ layer'.glob # global =>
          flag \/ web.pc = "apply" \/ ~FitsCard(Effective(layer'))
    BY <2>1, <2>3
  <2> QED
    BY <2>1, <2>2, <2>4 DEF FitsCard, Present, SameSubs
<1>9. CASE /\ UNCHANGED <<layer, web, global, flag>> /\ (main' = "exited" <=> main = "exited")
           /\ mutex' \in {mutex, "free", "worker"}
  BY <1>9 DEF FitsCard, Present, Effective, SameSubs
<1>10. Next \/ UNCHANGED vars =>
         Boot \/ Exits \/ (\E x, y : PutUpdate(x, y)) \/ Import \/ PutRefused \/ PutApplies
              \/ PutAnswered \/ WorkerPersists
              \/ /\ UNCHANGED <<layer, web, global, flag>> /\ (main' = "exited" <=> main = "exited")
                 /\ mutex' \in {mutex, "free", "worker"}
  BY DEF vars, Next, MainSteps, ApplySteps, WorkerSteps, WebSteps, Put, BootFails, Signal, Crash,
         NodeStarts, StartAll, StopAll, Deregistered, NodeStopped, WebStopped,
         RemoveEntry, ChangeEntry, Enqueue, WorkerLoops, WorkerEnds,
         WorkerTakes, WorkerApplies, WorkerApplied, WorkerSaves, WorkerReads
<1> QED
  BY <1>1, <1>2, <1>3, <1>4, <1>5, <1>6, <1>7, <1>8, <1>9, <1>10

(***************************************************************************)
(* When the global part of the file is not the one this process runs with, *)
(* a restart is asked for as soon as the file fits the card, although the  *)
(* answer to the request and the writes of the NMOS worker interleave      *)
(* (apiConfigPut, apiConfigImport).                                        *)
(***************************************************************************)
THEOREM RestartsAreAnnounced == Spec => []RestartIsAnnounced
<1>1. Init => AnnounceInv
  BY IdleTypes DEF Init, AnnounceInv
<1>2. AnnounceInv => RestartIsAnnounced
  BY DEF AnnounceInv, RestartIsAnnounced
<1> QED
  BY <1>1, <1>2, InitTypes, NextTypes, NextAnnounces, PTL DEF Spec

-----------------------------------------------------------------------------
(* A restart resumes *)

\* An activation that the node accepted names what it enables.
ValidRoute(r) == r # None /\ r.enable => r.dom # Unknown /\ r.flow \in Flows

(***************************************************************************)
(* The entry e of a channel c is what the file l and the saved route r     *)
(* make of it: with a route, its activation; without, what the file says.  *)
(***************************************************************************)
Agrees(l, e, c, r) ==
  IF r = None THEN e = Parked(Effective(l))[c]
  ELSE /\ e.active = r.enable
       /\ r.enable /\ Dir[c] = "output" => e.flow = r.flow /\ e.path = r.dom

\* An accepted activation is what it says (applyActivation).
LEMMA ActivatedAgrees ==
  ASSUME NEW list \in List, NEW c \in Channels, NEW a \in Activation,
         Accepted(list, c, a)
  PROVE  /\ ValidRoute(a)
         /\ \A l : Agrees(l, Activated(list, c, a)[c], c, a)
         /\ \A d \in Channels \ {c} : Activated(list, c, a)[d] = list[d]
<1> DEFINE w == [sub |-> list[c].sub,
                 flow |-> IF a.flow = None THEN list[c].flow ELSE a.flow,
                 active |-> a.enable,
                 path |-> IF Dir[c] = "output" /\ a.dom # Unknown THEN a.dom ELSE Own]
<1>1. Activated(list, c, a) = [list EXCEPT ![c] = w]
  BY DEF Activated
<1>2. ValidRoute(a) /\ a # None
  BY NoneIsNoCfg DEF Accepted, ValidRoute
<1>3. w.active = a.enable /\ (a.enable /\ Dir[c] = "output" => w.flow = a.flow /\ w.path = a.dom)
  BY ControlAssumption DEF Accepted
<1> HIDE DEF w
<1>4. Activated(list, c, a)[c] = w /\ \A d \in Channels \ {c} : Activated(list, c, a)[d] = list[d]
  BY <1>1 DEF List
<1> QED
  BY <1>2, <1>3, <1>4 DEF Agrees

\* What a start makes of the file and the saved routes agrees with them
\* (restoreActivations, and the parking of outputs without a flow).
LEMMA NextLifeAgrees ==
  ASSUME TypeOK, FileIsLoadable, NEW c \in Channels, c \in legs, layer.chan[c] # None,
         ValidRoute(routes[c])
  PROVE  Agrees(layer, Parked(Restored(Effective(layer)))[c], c, routes[c])
<1> DEFINE E == Effective(layer)
           R == Restored(E)
           r == routes[c]
           a == Saved(E, c)
<1>1. E \in List /\ E[c] # None /\ E[c] \in Cfg
  BY EffectiveType, EffectiveAt DEF TypeOK
<1>2. R \in List
  BY <1>1, RestoredType DEF TypeOK
<1>3. Dir[c] = "input" => E[c].flow \in Flows
  BY <1>1 DEF FileIsLoadable, ValidConfig, Present, Cfg
<1>4. ASSUME NEW x, x[c] # None
      PROVE  Parked(x)[c] = IF Dir[c] = "output" /\ x[c].flow = NilFlow
                            THEN [x[c] EXCEPT !.active = FALSE] ELSE x[c]
  BY <1>4 DEF Parked
<1>5. CASE r = None
  <2>1. R[c] = E[c]
    BY <1>5 DEF Restored
  <2>2. Parked(R)[c] = Parked(E)[c]
    BY <2>1 DEF Parked
  <2> QED
    BY <1>5, <2>2 DEF Agrees
<1>6. CASE r # None
  <2>1. r \in Activation
    BY <1>6 DEF TypeOK
  <2>2. a \in Activation /\ a.enable = r.enable
    BY <1>1, <2>1 DEF Saved, Activation, Cfg
  <2>3. Dir[c] = "output" => a = r
    BY ControlAssumption DEF Saved
  <2>4. Dir[c] = "input" => a.dom = Own /\ a.flow = E[c].flow
    BY <2>1 DEF Saved, Activation
  <2>5. Dir[c] \in {"input", "output"}
    BY ControlAssumption
  <2> HIDE DEF E, a, r
  <2>6. a.enable => a.dom # Unknown /\ a.flow \in Flows
    BY <1>3, <1>6, <2>2, <2>3, <2>4, <2>5, ControlAssumption DEF ValidRoute, r
  <2>7. Accepted(E, c, a)
    BY <1>1, <2>4, <2>6 DEF Accepted
  <2>8. R[c] = Activated(E, c, a)[c]
    BY <1>1, <1>6, <2>7 DEF Restored, a, r
  <2>9. R[c] # None /\ R[c] \in Cfg
    BY <1>1, <2>2, <2>8, ActivatedType DEF List, SameSubs
  <2>10. /\ R[c].active = a.enable
         /\ a.enable /\ Dir[c] = "output" => R[c].flow = a.flow /\ R[c].path = a.dom
    <3>1. Agrees(layer, R[c], c, a) /\ a # None
      BY <1>1, <2>2, <2>7, <2>8, ActivatedAgrees, NoneIsNoCfg
    <3> QED
      BY <3>1 DEF Agrees
  <2>11. CASE Dir[c] = "output" /\ R[c].flow = NilFlow
    <3>1. ~a.enable
      BY <2>6, <2>10, <2>11, ControlAssumption
    <3>2. Parked(R)[c].active = FALSE
      BY <1>4, <2>9, <2>11 DEF Cfg
    <3>3. r.enable = FALSE
      BY <2>1, <2>2, <3>1 DEF Activation
    <3> QED
      BY <1>6, <3>2, <3>3 DEF Agrees, r, E
  <2>12. CASE ~(Dir[c] = "output" /\ R[c].flow = NilFlow)
    <3>1. Parked(R)[c] = R[c]
      BY <1>4, <2>9, <2>12
    <3> QED
      BY <1>6, <2>2, <2>3, <2>10, <3>1 DEF Agrees, r, E
  <2> QED
    BY <2>11, <2>12
<1> QED
  BY <1>5, <1>6

\* persist leaves what the file says of a channel without a route as it is.
LEMMA PersistedAgrees ==
  ASSUME layer \in Layer, worker.list \in List, NEW c \in Channels, NEW r,
         layer.chan[c] # None, Agrees(layer, worker.list[c], c, r)
  PROVE  Agrees(Persisted, worker.list[c], c, r)
<1>1. CASE r # None
  BY <1>1 DEF Agrees
<1>2. CASE r = None
  <2> DEFINE E == Effective(layer)
             F == Effective(Persisted)
             e == worker.list[c]
  <2>1. E[c] \in Cfg /\ E[c] # None
    BY EffectiveAt
  <2>2. e = IF Dir[c] = "output" /\ E[c].flow = NilFlow THEN [E[c] EXCEPT !.active = FALSE] ELSE E[c]
    BY <1>2, <2>1 DEF Agrees, Parked
  <2>3. /\ e \in Cfg /\ e # None
        /\ e.sub = E[c].sub /\ e.flow = E[c].flow /\ e.path = E[c].path
        /\ Dir[c] = "output" /\ E[c].flow = NilFlow => e.active = FALSE
    <3>1. e \in Cfg
      BY <2>1, <2>2 DEF Cfg
    <3>2. e # None
      BY <3>1, NoneIsNoCfg
    <3> QED
      BY <2>1, <2>2, <3>1, <3>2 DEF Cfg
  <2>4. /\ E[c].sub = layer.chan[c].sub /\ E[c].path = Own
        /\ E[c].flow = IF c \in DOMAIN EnvFlow THEN EnvFlow[c] ELSE layer.chan[c].flow
    <3>1. E[c] = [sub |-> layer.chan[c].sub,
                  flow |-> IF c \in DOMAIN EnvFlow THEN EnvFlow[c] ELSE layer.chan[c].flow,
                  active |-> layer.chan[c].active,
                  path |-> Own]
      BY EffectiveAt
    <3> QED
      BY <3>1
  <2>5. /\ Persisted \in Layer /\ Persisted.chan[c] # None
        /\ Persisted.chan[c] = [sub |-> layer.chan[c].sub,
                                flow |-> IF c \in DOMAIN EnvFlow THEN layer.chan[c].flow ELSE e.flow,
                                active |-> e.active]
    BY <2>3, PersistedType
  <2>6. /\ Persisted.chan[c].sub = layer.chan[c].sub /\ Persisted.chan[c].active = e.active
        /\ Persisted.chan[c].flow = IF c \in DOMAIN EnvFlow THEN layer.chan[c].flow ELSE e.flow
    BY <2>5
  <2>7. F[c] = [sub |-> Persisted.chan[c].sub,
                flow |-> IF c \in DOMAIN EnvFlow THEN EnvFlow[c] ELSE Persisted.chan[c].flow,
                active |-> Persisted.chan[c].active,
                path |-> Own] /\ F[c] \in Cfg
    BY <2>5, EffectiveAt
  <2>8. F[c].sub = e.sub /\ F[c].flow = e.flow /\ F[c].active = e.active /\ F[c].path = e.path
    BY <2>3, <2>4, <2>6, <2>7
  <2> HIDE DEF E, F, e
  <2>9. F[c] = e
    BY <2>3, <2>7, <2>8 DEF Cfg
  <2>10. Parked(F)[c] = e
    <3>1. Parked(F)[c] = IF F[c] # None /\ Dir[c] = "output" /\ F[c].flow = NilFlow
                         THEN [F[c] EXCEPT !.active = FALSE] ELSE F[c]
      BY DEF Parked
    <3>2. CASE Dir[c] = "output" /\ e.flow = NilFlow
      <4>1. e.active = FALSE
        BY <2>3, <3>2
      <4>2. [e EXCEPT !.active = FALSE] = e
        BY <2>3, <4>1 DEF Cfg
      <4> QED
        BY <2>3, <2>9, <3>1, <3>2, <4>2
    <3>3. CASE ~(Dir[c] = "output" /\ e.flow = NilFlow)
      BY <2>9, <3>1, <3>3
    <3> QED
      BY <3>2, <3>3
  <2> QED
    BY <1>2, <2>10 DEF Agrees, F, e
<1> QED
  BY <1>1, <1>2

(***************************************************************************)
(* Where the threads are: who is in applyChannels, that nothing goes on    *)
(* before the channels are restored, and that the web thread has nothing   *)
(* to apply unless it changed the file.                                    *)
(***************************************************************************)
ThreadInv ==
  /\ mutex = "web" => web.pc = "apply"
  /\ mutex = "worker" => worker.pc = "apply"
  /\ main \in {"exited", "node"} => mutex = "free" /\ web.pc = "idle" /\ jobs = <<>>
  /\ main = "exited" => worker.pc = "ended"
  /\ main = "node" => worker.pc \in {"top", "waiting"}
  /\ ~edited => web.pc = "idle"

\* Every route that is saved, or about to be, was accepted.
RouteInv ==
  /\ \A c \in Channels : ValidRoute(routes[c])
  /\ worker.pc \in {"apply", "save"} =>
       worker.chan \in Channels /\ worker.act \in Activation /\ ValidRoute(worker.act)

\* The channel whose activation is applied and not yet saved.
Moving == IF worker.pc \in {"apply", "save"} THEN {worker.chan} ELSE {}

\* The worker's list, as it applies it: its activation over the entries.
ListAgrees ==
  /\ SameSubs(worker.list, Effective(layer))
  /\ \A c \in Channels \ {worker.chan} : worker.list[c] = entries[c]
  /\ worker.chan \in legs
  /\ Agrees(layer, worker.list[worker.chan], worker.chan, worker.act)

(***************************************************************************)
(* As long as the web API has not changed the file: the entries are the    *)
(* channels of the file, and each agrees with the file and its saved       *)
(* route - the one that is moving, with the activation to be saved.        *)
(***************************************************************************)
KeptInv ==
  ~edited /\ main # "exited" =>
    /\ SameSubs(entries, Effective(layer)) /\ legs = Present(entries)
    /\ main = "node" => entries = Effective(layer)
    /\ main # "node" =>
         /\ \A c \in legs \ Moving : Agrees(layer, entries[c], c, routes[c])
         /\ worker.pc = "apply" => ListAgrees
         /\ worker.pc = "save" =>
              worker.chan \in legs /\ Agrees(layer, entries[worker.chan], worker.chan, worker.act)
    /\ worker.pc = "persist" => worker.list = entries

\* The threads' places are kept.
LEMMA NextThreads == TypeOK /\ ThreadInv /\ [Next]_vars => ThreadInv'
<1> SUFFICES ASSUME TypeOK, ThreadInv, [Next]_vars PROVE ThreadInv'
  OBVIOUS
<1> USE IdleTypes DEF ThreadInv, manager, bounds, TypeOK
<1>1. CASE Boot \/ BootFails \/ Signal
  BY <1>1 DEF Boot, BootFails, Signal
<1>2. CASE Exits
  <2>1. worker'.pc = "ended"
    BY <1>2 DEF Exits
  <2> QED
    BY <1>2, <2>1 DEF Exits
<1>3. CASE NodeStarts \/ StartAll \/ StopAll \/ NodeStopped
  BY <1>3 DEF NodeStarts, StartAll, StopAll, NodeStopped
<1>4. CASE Deregistered
  BY <1>4 DEF Deregistered
<1>5. ASSUME NEW candidate, NEW asked, PutUpdate(candidate, asked)
      PROVE  ThreadInv'
  BY <1>5 DEF PutUpdate, Serving
<1>6. CASE Import
  BY <1>6 DEF Import, Serving
<1>7. CASE WebSteps
  BY <1>7 DEF WebSteps, PutRefused, PutApplies, PutAnswered
<1>8. CASE ApplySteps
  BY <1>8 DEF ApplySteps, RemoveEntry, ChangeEntry
<1>9. CASE \E c \in Channels, a \in Activation : Enqueue(c, a)
  BY <1>9 DEF Enqueue
<1>10. CASE WorkerLoops \/ WorkerEnds
  BY <1>10 DEF WorkerLoops, WorkerEnds, Stopping
<1>11. CASE WorkerTakes
  BY <1>11 DEF WorkerTakes
<1>12. CASE WorkerApplies \/ WorkerApplied
  BY <1>12 DEF WorkerApplies, WorkerApplied
<1>13. CASE WorkerSaves \/ WorkerReads \/ WorkerPersists
  BY <1>13 DEF WorkerSaves, WorkerReads, WorkerPersists
<1>14. CASE UNCHANGED vars
  BY <1>14 DEF vars
<1> QED
  BY <1>1, <1>2, <1>3, <1>4, <1>5, <1>6, <1>7, <1>8, <1>9, <1>10, <1>11, <1>12, <1>13, <1>14
     DEF Next, MainSteps, Crash, WebStopped, Put, WorkerSteps

\* The routes stay valid.
LEMMA NextRoutes == TypeOK /\ ThreadInv /\ RouteInv /\ [Next]_vars => RouteInv'
<1> SUFFICES ASSUME TypeOK, ThreadInv, RouteInv, [Next]_vars PROVE RouteInv'
  OBVIOUS
<1> USE IdleTypes DEF RouteInv, manager, bounds
<1>1. CASE WorkerTakes
  <2>1. PICK c \in Channels, a \in Activation : Head(jobs) = <<c, a>>
    BY <1>1 DEF WorkerTakes, TypeOK
  <2>2. Accepted(entries, c, a) => ValidRoute(a)
    BY ActivatedAgrees DEF TypeOK
  <2> QED
    BY <1>1, <2>1, <2>2 DEF WorkerTakes, ValidRoute
<1>2. CASE WorkerSaves
  <2>1. worker'.pc = "read"
    BY <1>2 DEF WorkerSaves, TypeOK
  <2>2. \A c \in Channels : routes'[c] = routes[c] \/ routes'[c] = worker.act
    BY <1>2 DEF WorkerSaves, TypeOK
  <2> QED
    BY <1>2, <2>1, <2>2 DEF WorkerSaves, ValidRoute
<1>3. CASE /\ UNCHANGED routes
           /\ \/ worker'.pc \notin {"apply", "save"}
              \/ /\ worker.pc \in {"apply", "save"}
                 /\ worker'.chan = worker.chan /\ worker'.act = worker.act
  BY <1>3 DEF ValidRoute
<1>4. Next \/ UNCHANGED vars =>
        \/ WorkerTakes \/ WorkerSaves
        \/ /\ UNCHANGED routes
           /\ \/ worker'.pc \notin {"apply", "save"}
              \/ /\ worker.pc \in {"apply", "save"}
                 /\ worker'.chan = worker.chan /\ worker'.act = worker.act
  <2>1. Boot \/ Exits \/ WorkerPersists =>
          UNCHANGED routes /\ worker'.pc \notin {"apply", "save"}
    BY DEF Boot, Exits, WorkerPersists
  <2>2. Deregistered \/ WorkerLoops \/ WorkerEnds \/ WorkerReads =>
          /\ UNCHANGED routes
          /\ \/ UNCHANGED worker
             \/ worker'.pc \notin {"apply", "save"}
    BY DEF Deregistered, WorkerLoops, WorkerEnds, WorkerReads, TypeOK
  <2>3. WorkerApplied => /\ UNCHANGED routes /\ worker'.pc = "save"
                         /\ worker.pc = "apply"
                         /\ worker'.chan = worker.chan /\ worker'.act = worker.act
    BY DEF WorkerApplied, TypeOK, ThreadInv
  <2> QED
    BY <2>1, <2>2, <2>3
       DEF vars, Next, MainSteps, ApplySteps, WorkerSteps, WebSteps, Put, PutUpdate, Import,
           BootFails, Signal, Crash, NodeStarts, StartAll, StopAll, NodeStopped, WebStopped,
           PutRefused, PutApplies, PutAnswered, RemoveEntry, ChangeEntry, Enqueue, WorkerApplies
<1> QED
  BY <1>1, <1>2, <1>3, <1>4

\* A step that leaves all that KeptInv is about keeps it.
LEMMA KeptFrame ==
  ASSUME KeptInv, UNCHANGED <<layer, entries, routes, legs, edited>>,
         ~edited => /\ main' = "exited" <=> main = "exited"
                    /\ main' = "node" <=> main = "node"
                    /\ \/ UNCHANGED worker
                       \/ /\ worker.pc \notin {"apply", "save"}
                          /\ worker'.pc \notin {"apply", "save", "persist"}
  PROVE  KeptInv'
<1> SUFFICES ASSUME ~edited, main # "exited" PROVE KeptInv'
  BY DEF KeptInv
<1>1. Moving' = Moving
  BY DEF Moving
<1>2. /\ \A x : SameSubs(entries, x) <=> SameSubs(entries', x)
      /\ Effective(layer') = Effective(layer) /\ Present(entries') = Present(entries)
  BY DEF SameSubs, Effective, Present
<1>3. worker.pc = "apply" => /\ worker'.pc = "apply" => (ListAgrees <=> ListAgrees')
  BY <1>2 DEF ListAgrees, SameSubs, Agrees
<1> QED
  BY <1>1, <1>2, <1>3 DEF KeptInv

\* Starting keeps it: the entries are what the file says, then what restoring
\* and parking make of them.
LEMMA StartKept ==
  ASSUME TypeOK, FileIsLoadable, ThreadInv, RouteInv, KeptInv, Boot \/ NodeStarts
  PROVE  KeptInv'
<1> USE DEF manager, bounds
<1>1. CASE Boot
  <2>1. entries' = Effective(layer') /\ legs' = Present(entries') /\ main' = "node"
    BY <1>1 DEF Boot, Present, Effective
  <2>2. worker'.pc = "top"
    BY <1>1, IdleTypes DEF Boot
  <2> QED
    BY <2>1, <2>2 DEF KeptInv, SameSubs
<1>2. CASE NodeStarts
  <2> SUFFICES ASSUME ~edited PROVE KeptInv'
    BY <1>2 DEF NodeStarts, KeptInv
  <2> DEFINE E == Effective(layer)
             N == Parked(Restored(E))
  <2>1. entries = E /\ legs = Present(E) /\ worker.pc \in {"top", "waiting"}
    BY <1>2 DEF NodeStarts, KeptInv, ThreadInv
  <2>2. entries' = N /\ main' = "start" /\ UNCHANGED <<layer, worker, routes, legs, edited>>
    BY <1>2, <2>1 DEF NodeStarts
  <2>3. SameSubs(E, N)
    BY EffectiveType, RestoredType, ParkedType, SubsAreSame DEF TypeOK
  <2>4. Present(N) = Present(E)
    BY <2>3 DEF SameSubs, Present
  <2>5. SameSubs(N, E)
    BY <2>3, SubsAreSame
  <2>6. ASSUME NEW c \in legs
        PROVE  Agrees(layer, N[c], c, routes[c])
    <3>1. c \in Channels /\ layer.chan[c] # None
      BY <2>1, <2>6, EffectiveAt DEF Present, TypeOK
    <3> QED
      BY <2>6, <3>1, NextLifeAgrees DEF RouteInv
  <2>7. SameSubs(N, Effective(layer'))
    BY <2>2, <2>5
  <2> HIDE DEF E, N
  <2>8. legs' = Present(N)
    BY <2>1, <2>2, <2>4
  <2>9. worker'.pc \in {"top", "waiting"}
    BY <2>1, <2>2
  <2>10. \A c \in legs' : Agrees(layer', entries'[c], c, routes'[c])
    BY <2>2, <2>6
  <2>11. SameSubs(entries', Effective(layer')) /\ legs' = Present(entries')
    BY <2>2, <2>7, <2>8 DEF Present
  <2> QED
    BY <2>2, <2>9, <2>10, <2>11 DEF KeptInv
<1> QED
  BY <1>1, <1>2

\* applyChannels changes only the moving channel.
LEMMA ApplyKept ==
  ASSUME TypeOK, ThreadInv, KeptInv, ApplySteps
  PROVE  KeptInv'
<1> USE DEF manager, bounds
<1>1. UNCHANGED <<layer, routes, legs, edited, main, worker, mutex>>
  BY DEF ApplySteps, RemoveEntry, ChangeEntry
<1> SUFFICES ASSUME ~edited, main # "exited" PROVE KeptInv'
  BY <1>1 DEF KeptInv
<1>2. mutex = "worker" /\ worker.pc = "apply" /\ main # "node"
  BY DEF ApplySteps, RemoveEntry, ChangeEntry, ThreadInv, TypeOK
<1>3. Target = worker.list
  BY <1>2 DEF Target
<1>4. /\ SameSubs(entries, Effective(layer)) /\ legs = Present(entries) /\ ListAgrees
      /\ \A c \in legs \ {worker.chan} : Agrees(layer, entries[c], c, routes[c])
  BY <1>2 DEF KeptInv, Moving
<1>5. Present(entries) = Present(worker.list)
  BY <1>4 DEF ListAgrees, SameSubs, Present
<1>6. PICK c \in Channels : ChangeEntry(c)
  BY <1>3, <1>5 DEF ApplySteps, RemoveEntry, First, Gone
<1>7. c = worker.chan /\ entries' = [entries EXCEPT ![c] = worker.list[c]]
  BY <1>3, <1>4, <1>6 DEF ChangeEntry, First, Different, Present, ListAgrees
<1>8. entries'[c] = worker.list[c] /\ \A d \in Channels \ {c} : entries'[d] = entries[d]
  BY <1>7 DEF TypeOK, List
<1>9. SameSubs(entries', Effective(layer)) /\ Present(entries') = legs
  BY <1>4, <1>5, <1>8 DEF SameSubs, ListAgrees, Present
<1>10. \A d \in legs \ {worker.chan} : Agrees(layer, entries'[d], d, routes[d])
  BY <1>4, <1>7, <1>8 DEF Present
<1>11. ListAgrees'
  <2>1. SameSubs(worker'.list, Effective(layer'))
    BY <1>1, <1>4 DEF ListAgrees
  <2>2. \A d \in Channels \ {worker'.chan} : worker'.list[d] = entries'[d]
    BY <1>1, <1>4, <1>7, <1>8 DEF ListAgrees
  <2>3. /\ worker'.chan \in legs'
        /\ Agrees(layer', worker'.list[worker'.chan], worker'.chan, worker'.act)
    BY <1>1, <1>4 DEF ListAgrees
  <2> QED
    BY <2>1, <2>2, <2>3 DEF ListAgrees, SameSubs
<1>12. /\ SameSubs(entries', Effective(layer')) /\ legs' = Present(entries')
       /\ \A d \in legs' \ Moving' : Agrees(layer', entries'[d], d, routes'[d])
       /\ worker'.pc = "apply" /\ main' # "node"
  BY <1>1, <1>2, <1>9, <1>10 DEF Moving, Present
<1> QED
  BY <1>11, <1>12 DEF KeptInv

\* The worker takes an activation, and works it into what it reads.
LEMMA TakeKept ==
  ASSUME TypeOK, ThreadInv, KeptInv, WorkerTakes
  PROVE  KeptInv'
<1> USE DEF manager, bounds
<1>1. UNCHANGED <<layer, routes, legs, edited, main, entries>> /\ worker.pc = "waiting"
  BY DEF WorkerTakes
<1> SUFFICES ASSUME ~edited, main # "exited" PROVE KeptInv'
  BY <1>1 DEF KeptInv
<1>2. main # "node"
  BY DEF WorkerTakes, ThreadInv
<1>3. PICK c \in Channels, a \in Activation : Head(jobs) = <<c, a>>
  BY DEF WorkerTakes, TypeOK
<1>4. /\ SameSubs(entries, Effective(layer)) /\ legs = Present(entries)
      /\ \A d \in legs : Agrees(layer, entries[d], d, routes[d])
  BY <1>1, <1>2 DEF KeptInv, Moving
<1>5. CASE Accepted(entries, c, a)
  <2>1. worker' = [pc |-> "apply", list |-> Activated(entries, c, a), chan |-> c, act |-> a]
    BY <1>3, <1>5 DEF WorkerTakes
  <2>2. /\ worker'.pc = "apply" /\ worker'.list = Activated(entries, c, a)
        /\ worker'.chan = c /\ worker'.act = a
    BY <2>1
  <2>3. SameSubs(entries, Activated(entries, c, a)) /\ c \in legs
    BY <1>5, ActivatedType DEF Accepted, TypeOK
  <2>4. SameSubs(Activated(entries, c, a), Effective(layer))
    BY <1>4, <2>3, SubsAreSame
  <2>5. /\ \A l : Agrees(l, Activated(entries, c, a)[c], c, a)
        /\ \A d \in Channels \ {c} : Activated(entries, c, a)[d] = entries[d]
    <3>1. entries \in List
      BY DEF TypeOK
    <3> QED
      BY <1>5, <3>1, ActivatedAgrees
  <2>6. ListAgrees'
    BY <1>1, <2>2, <2>3, <2>4, <2>5 DEF ListAgrees
  <2> QED
    BY <1>1, <1>2, <1>4, <2>2, <2>6 DEF KeptInv, Moving
<1>6. CASE ~Accepted(entries, c, a)
  <2>1. worker'.pc = "top"
    BY <1>3, <1>6, IdleTypes DEF WorkerTakes
  <2> QED
    BY <1>1, <2>1, KeptFrame
<1> QED
  BY <1>5, <1>6

\* The worker applies it, saves it, and reads the channels again.
LEMMA SaveKept ==
  ASSUME TypeOK, ThreadInv, RouteInv, KeptInv,
         WorkerApplies \/ WorkerApplied \/ WorkerSaves \/ WorkerReads
  PROVE  KeptInv'
<1> USE DEF manager, bounds
<1>1. UNCHANGED <<layer, legs, edited, main, entries>>
  BY DEF WorkerApplies, WorkerApplied, WorkerSaves, WorkerReads
<1> SUFFICES ASSUME ~edited, main # "exited" PROVE KeptInv'
  BY <1>1 DEF KeptInv
<1>2. main # "node"
  BY DEF WorkerApplies, WorkerApplied, WorkerSaves, WorkerReads, ThreadInv
<1>3. /\ SameSubs(entries, Effective(layer)) /\ legs = Present(entries)
      /\ \A d \in legs \ Moving : Agrees(layer, entries[d], d, routes[d])
  BY <1>2 DEF KeptInv
<1>4. SameSubs(entries', Effective(layer')) /\ legs' = Present(entries') /\ main' # "node"
  BY <1>1, <1>2, <1>3
<1>5. CASE WorkerApplies
  BY <1>5, KeptFrame DEF WorkerApplies
<1>6. CASE WorkerApplied
  <2>1. /\ worker.pc = "apply" /\ worker'.pc = "save" /\ UNCHANGED routes
        /\ worker'.chan = worker.chan /\ worker'.act = worker.act /\ entries = worker.list
    BY <1>6 DEF WorkerApplied, ThreadInv, TypeOK
  <2>2. ListAgrees
    BY <1>2, <2>1 DEF KeptInv
  <2>3. worker'.chan \in legs' /\ Agrees(layer', entries'[worker'.chan], worker'.chan, worker'.act)
    BY <1>1, <2>1, <2>2 DEF ListAgrees
  <2>4. \A d \in legs' \ Moving' : Agrees(layer', entries'[d], d, routes'[d])
    BY <1>1, <1>3, <2>1 DEF Moving
  <2> QED
    BY <1>4, <2>1, <2>3, <2>4 DEF KeptInv
<1>7. CASE WorkerSaves
  <2>1. /\ worker.pc = "save" /\ worker'.pc = "read"
        /\ routes' = [routes EXCEPT ![worker.chan] = worker.act]
    BY <1>7 DEF WorkerSaves, TypeOK
  <2>2. worker.chan \in Channels /\ routes \in [Channels -> Activation \cup {None}]
    BY <2>1 DEF RouteInv, TypeOK
  <2>3. routes'[worker.chan] = worker.act /\ \A d \in Channels \ {worker.chan} : routes'[d] = routes[d]
    BY <2>1, <2>2
  <2>4. Agrees(layer, entries[worker.chan], worker.chan, worker.act)
    BY <1>2, <2>1 DEF KeptInv
  <2>5. \A d \in legs' : Agrees(layer', entries'[d], d, routes'[d])
    <3> SUFFICES ASSUME NEW d \in legs PROVE Agrees(layer, entries[d], d, routes'[d])
      BY <1>1
    <3>1. d \in Channels
      BY DEF TypeOK
    <3>2. CASE d = worker.chan
      BY <2>3, <2>4, <3>2
    <3>3. CASE d # worker.chan
      BY <1>3, <2>1, <2>3, <3>1, <3>3 DEF Moving
    <3> QED
      BY <3>2, <3>3
  <2> QED
    BY <1>4, <2>1, <2>5 DEF KeptInv
<1>8. CASE WorkerReads
  <2>1. /\ worker.pc = "read" /\ worker'.pc = "persist" /\ worker'.list = entries
        /\ UNCHANGED routes
    BY <1>8 DEF WorkerReads, TypeOK
  <2>2. \A d \in legs' \ Moving' : Agrees(layer', entries'[d], d, routes'[d])
    BY <1>1, <1>3, <2>1 DEF Moving
  <2> QED
    BY <1>1, <1>4, <2>1, <2>2 DEF KeptInv
<1> QED
  BY <1>5, <1>6, <1>7, <1>8

\* The worker persists what it read, or the store refuses.
LEMMA PersistKept ==
  ASSUME TypeOK, ThreadInv, KeptInv, WorkerPersists
  PROVE  KeptInv'
<1> USE DEF manager, bounds
<1>1. /\ UNCHANGED <<routes, legs, edited, main, entries>>
      /\ worker.pc = "persist" /\ worker'.pc = "top"
  BY IdleTypes DEF WorkerPersists
<1>2. CASE layer' = layer
  BY <1>1, <1>2, KeptFrame
<1>3. CASE layer' = Persisted
  <2> SUFFICES ASSUME ~edited, main # "exited" PROVE KeptInv'
    BY <1>1 DEF KeptInv
  <2>1. main # "node"
    BY <1>1 DEF ThreadInv
  <2>2. /\ SameSubs(entries, Effective(layer)) /\ legs = Present(entries)
        /\ worker.list = entries
        /\ \A d \in legs : Agrees(layer, entries[d], d, routes[d])
    BY <1>1, <2>1 DEF KeptInv, Moving
  <2>3. layer \in Layer /\ worker.list \in List
    BY DEF TypeOK
  <2>4. SameSubs(entries, Effective(Persisted))
    BY <2>2, <2>3, PersistedSubs, SubsAreSame
  <2>5. ASSUME NEW d \in legs
        PROVE  Agrees(Persisted, entries[d], d, routes[d])
    <3>1. d \in Channels /\ layer.chan[d] # None
      BY <2>2, <2>3, <2>5, EffectiveAt DEF Present, SameSubs
    <3> QED
      BY <2>2, <2>3, <2>5, <3>1, PersistedAgrees
  <2>6. SameSubs(entries', Effective(layer')) /\ legs' = Present(entries')
    BY <1>1, <1>3, <2>2, <2>4
  <2>7. \A d \in legs' : Agrees(layer', entries'[d], d, routes'[d])
    BY <1>1, <1>3, <2>5
  <2> QED
    BY <1>1, <2>1, <2>6, <2>7 DEF KeptInv
<1> QED
  BY <1>2, <1>3 DEF WorkerPersists

\* Every step keeps KeptInv.
LEMMA NextKept ==
  TypeOK /\ FileIsLoadable /\ ThreadInv /\ RouteInv /\ KeptInv /\ [Next]_vars => KeptInv'
<1> SUFFICES ASSUME TypeOK, FileIsLoadable, ThreadInv, RouteInv, KeptInv, [Next]_vars
             PROVE  KeptInv'
  OBVIOUS
<1> USE DEF manager, bounds
<1>1. CASE Boot \/ NodeStarts
  BY <1>1, StartKept
<1>2. CASE Exits
  BY <1>2 DEF Exits, KeptInv
<1>3. CASE BootFails \/ Signal \/ StartAll \/ StopAll \/ NodeStopped
  BY <1>3, KeptFrame DEF BootFails, Signal, StartAll, StopAll, NodeStopped
<1>4. CASE Deregistered \/ WorkerLoops \/ WorkerEnds
  <2>1. \/ UNCHANGED worker
        \/ worker.pc \notin {"apply", "save"} /\ worker'.pc \notin {"apply", "save", "persist"}
    BY <1>4 DEF Deregistered, WorkerLoops, WorkerEnds, TypeOK
  <2> QED
    BY <1>4, <2>1, KeptFrame DEF Deregistered, WorkerLoops, WorkerEnds
<1>5. ASSUME NEW candidate, NEW asked, PutUpdate(candidate, asked)
      PROVE  KeptInv'
  BY <1>5 DEF PutUpdate, KeptInv
<1>6. CASE Import
  BY <1>6 DEF Import, KeptInv
<1>7. CASE WebSteps
  BY <1>7, KeptFrame DEF WebSteps, PutRefused, PutApplies, PutAnswered
<1>8. CASE ApplySteps
  BY <1>8, ApplyKept
<1>9. CASE \E c \in Channels, a \in Activation : Enqueue(c, a)
  BY <1>9, KeptFrame DEF Enqueue
<1>10. CASE WorkerTakes
  BY <1>10, TakeKept
<1>11. CASE WorkerApplies \/ WorkerApplied \/ WorkerSaves \/ WorkerReads
  BY <1>11, SaveKept
<1>12. CASE WorkerPersists
  BY <1>12, PersistKept
<1>13. CASE UNCHANGED vars
  BY <1>13, KeptFrame DEF vars
<1> QED
  BY <1>1, <1>2, <1>3, <1>4, <1>5, <1>6, <1>7, <1>8, <1>9, <1>10, <1>11, <1>12, <1>13
     DEF Next, MainSteps, Crash, WebStopped, Put, WorkerSteps

(***************************************************************************)
(* As long as only activations changed things, the file and the saved      *)
(* routes bring every channel back as it is, once the worker has finished  *)
(* with the last activation - whether or not the store took what the       *)
(* worker wrote, and whatever crash and restart came before (persist,      *)
(* saveActivation, restoreActivations).                                    *)
(***************************************************************************)
THEOREM RestartsResume == Spec => []RestartResumes
<1> DEFINE I == TypeOK /\ FileIsLoadable /\ ThreadInv /\ RouteInv /\ KeptInv
<1>1. Init => ThreadInv /\ RouteInv /\ KeptInv
  <2>1. Init => worker.pc = "ended"
    BY IdleTypes DEF Init
  <2> QED
    BY <2>1, IdleTypes DEF Init, ThreadInv, RouteInv, ValidRoute, KeptInv
<1>2. I => RestartResumes
  <2> SUFFICES ASSUME I, ~edited, main \in {"start", "running"}, worker.pc \in {"top", "waiting"}
               PROVE  /\ Present(entries) = Present(layer.chan)
                      /\ \A c \in Present(entries) : Resumes(c)
    BY DEF RestartResumes
  <2> DEFINE E == Effective(layer)
             N == Parked(Restored(E))
  <2>1. /\ SameSubs(entries, E) /\ legs = Present(entries)
        /\ \A c \in legs : Agrees(layer, entries[c], c, routes[c])
    BY DEF KeptInv, Moving
  <2>2. Present(entries) = Present(layer.chan)
    BY <2>1, EffectiveAt DEF SameSubs, Present, TypeOK
  <2>3. SameSubs(E, N)
    BY EffectiveType, RestoredType, ParkedType, SubsAreSame DEF TypeOK
  <2>4. ASSUME NEW c \in Present(entries)
        PROVE  Resumes(c)
    <3>1. c \in Channels /\ c \in legs /\ layer.chan[c] # None
      BY <2>1, <2>2, <2>4 DEF Present
    <3>2. Agrees(layer, N[c], c, routes[c])
      BY <3>1, NextLifeAgrees DEF RouteInv
    <3>3. Agrees(layer, entries[c], c, routes[c])
      BY <2>1, <3>1
    <3>4. N[c].sub = entries[c].sub
      BY <2>1, <2>3, <2>4, <3>1 DEF SameSubs, Present
    <3> HIDE DEF N
    <3>5. CASE routes[c] = None
      <4>1. N[c] = entries[c]
        BY <3>2, <3>3, <3>5 DEF Agrees
      <4> QED
        BY <4>1 DEF Resumes, N
    <3>6. CASE routes[c] # None
      <4>1. N[c].active = entries[c].active
        BY <3>2, <3>3, <3>6 DEF Agrees
      <4>2. N[c].active /\ Dir[c] = "output" =>
              N[c].flow = entries[c].flow /\ N[c].path = entries[c].path
        BY <3>2, <3>3, <3>6 DEF Agrees
      <4> QED
        BY <3>4, <4>1, <4>2 DEF Resumes, N
    <3> QED
      BY <3>5, <3>6
  <2> QED
    BY <2>2, <2>4
<1>3. I /\ [Next]_vars => I'
  BY NextTypes, NextLoads, NextThreads, NextRoutes, NextKept
<1>4. Init => TypeOK /\ FileIsLoadable
  BY InitTypes, StartFileAssumption DEF Init, FileIsLoadable
<1> HIDE DEF I
<1>5. Init => I
  BY <1>1, <1>4 DEF I
<1> QED
  BY <1>2, <1>3, <1>5, PTL DEF Spec
=============================================================================
