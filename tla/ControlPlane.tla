---------------------------- MODULE ControlPlane ----------------------------
(***************************************************************************)
(* Who decides what the channels do: the channel manager                   *)
(* (channel/channel_manager.cpp), the configuration store                  *)
(* (config/store.cpp), the web API that edits it (ops/webapi.cpp), the     *)
(* NMOS node whose worker applies IS-05 activations (nmos/node.cpp,        *)
(* nmos/routing.cpp), the saved routes (nmos/route_state.cpp, here the     *)
(* atomic map of RouteStore), and the main thread that starts and stops    *)
(* them (main.cpp).                                                        *)
(*                                                                         *)
(* A channel's configuration is reduced to what these threads compare and  *)
(* change: its sub-device, its video flow, whether its MXL side is active, *)
(* and the domain directory a receiver reads (own = "").  The last one     *)
(* has no configuration key.  One leg stands for the legs of a channel.    *)
(***************************************************************************)
EXTENDS Integers, Sequences, FiniteSets

CONSTANTS
  Channels,      \* channel indices
  Dir,           \* channel -> "input" | "output"
  SubDevices,    \* the sub-devices of the card
  OffCard,       \* a sub-device index that the card does not have
  Flows,         \* flow UUIDs
  NilFlow,       \* the nil UUID: an output without a source
  Own,           \* this function's domain directory
  Domains,       \* the other domains that a scan finds
  Unknown,       \* a domain id that no scan finds
  EnvFlow,       \* channel -> the flow its environment variable sets
  Globals,       \* values of the global part of the configuration
  Edits,         \* the channel configurations that requests contain
  StartFile,     \* the configuration file of the first start
  None,          \* absent
  MaxRequests,   \* bound: web requests
  MaxJobs,       \* bound: IS-05 activations
  MaxLives       \* bound: process starts

FileCfg == [sub : SubDevices \cup {OffCard}, flow : Flows \cup {NilFlow}, active : BOOLEAN]
Cfg == [sub : SubDevices \cup {OffCard}, flow : Flows \cup {NilFlow}, active : BOOLEAN,
        path : Domains \cup {Own}]
Layer == [chan : [Channels -> FileCfg \cup {None}], glob : Globals]
List == [Channels -> Cfg \cup {None}]
Activation == [enable : BOOLEAN, dom : Domains \cup {Own, Unknown},
               flow : Flows \cup {NilFlow, None}]

ASSUME ControlAssumption ==
  /\ Channels \subseteq Nat /\ IsFiniteSet(Channels)
  /\ Dir \in [Channels -> {"input", "output"}]
  /\ OffCard \notin SubDevices /\ NilFlow \notin Flows
  /\ None \notin FileCfg \cup Cfg \cup Activation \cup Flows \cup {NilFlow}
  /\ Own \notin Domains /\ Unknown \notin Domains \cup {Own}
  /\ DOMAIN EnvFlow \subseteq Channels /\ \A c \in DOMAIN EnvFlow : EnvFlow[c] \in Flows
  /\ Edits \subseteq FileCfg /\ StartFile \in Layer
  /\ MaxRequests \in Nat /\ MaxJobs \in Nat /\ MaxLives \in Nat

VARIABLES
  layer,         \* the file layer of the store, in memory and on the disk
  entries, run,  \* ChannelManager: _entries' configurations; the channel objects
  started,       \* ChannelManager::_started
  mutex,         \* who is in applyChannels: "free", "web" or "worker"
  web,           \* the web thread: pc, the list it applies, what it was asked
  flag, global,  \* _restartRequired and the global part this process runs with
  jobs, worker,  \* the queue of activations; the worker's pc, list and job
  routes,        \* the saved activations
  main,          \* where the main thread is
  legs,          \* the channels that have NMOS legs in this life
  requests, sent, lives,   \* counters for the bounds
  edited         \* history: the web API changed the file in this or an earlier life

vars == <<layer, entries, run, started, mutex, web, flag, global, jobs, worker,
          routes, main, legs, requests, sent, lives, edited>>
bounds == <<requests, sent, lives>>
manager == <<entries, run, started>>

NoList == [c \in Channels |-> None]
WebIdle == [pc |-> "idle", list |-> NoList, asked |-> {}, glob |-> StartFile.glob]
WorkerTop == [pc |-> "top", list |-> NoList, chan |-> None, act |-> None]

TypeOK ==
  /\ layer \in Layer
  /\ entries \in List /\ run \in List
  /\ started \in BOOLEAN
  /\ mutex \in {"free", "web", "worker"}
  /\ web \in [pc : {"idle", "apply"}, list : List, asked : SUBSET Channels, glob : Globals]
  /\ flag \in BOOLEAN /\ global \in Globals
  /\ jobs \in Seq(Channels \X Activation)
  /\ worker \in [pc : {"top", "waiting", "apply", "save", "read", "persist", "lost", "ended"},
                 list : List, chan : Channels \cup {None}, act : Activation \cup {None}]
  /\ routes \in [Channels -> Activation \cup {None}]
  /\ main \in {"node", "start", "running", "stop", "deregister", "nodeStop", "webStop",
              "exited"}
  /\ legs \subseteq Channels
  /\ requests \in 0..MaxRequests /\ sent \in 0..MaxJobs /\ lives \in 0..MaxLives
  /\ edited \in BOOLEAN

-----------------------------------------------------------------------------
(* The configuration *)

\* effectiveConfig: the environment over the file; no key sets the reader's
\* domain directory.
Effective(l) ==
  [c \in Channels |->
     IF l.chan[c] = None THEN None
     ELSE [sub |-> l.chan[c].sub,
           flow |-> IF c \in DOMAIN EnvFlow THEN EnvFlow[c] ELSE l.chan[c].flow,
           active |-> l.chan[c].active,
           path |-> Own]]

Present(list) == {c \in Channels : list[c] # None}

\* Mutant: sub-devices need not be unique.
ValidFlows(list) ==
  /\ \A c, d \in Present(list) : c # d /\ Dir[c] = Dir[d] =>
       (list[c].flow = list[d].flow => list[c].flow = NilFlow)
  /\ \A c \in Present(list) : Dir[c] = "input" => list[c].flow # NilFlow

\* validateCrossChannel, and that an input has a flow.
ValidConfig(list) ==
  /\ \A c, d \in Present(list) : c # d /\ Dir[c] = Dir[d] =>
       /\ list[c].sub # list[d].sub
       /\ list[c].flow = list[d].flow => list[c].flow = NilFlow
  /\ \A c \in Present(list) : Dir[c] = "input" => list[c].flow # NilFlow

\* The first start is given a file that it accepts (it exits with 78 otherwise).
ASSUME StartFileAssumption == ValidConfig(Effective(StartFile))

\* validateAgainstCard, for every channel of the list.
FitsCard(list) == \A c \in Present(list) : list[c].sub \in SubDevices

-----------------------------------------------------------------------------
(* applyActivation *)

Accepted(list, c, a) ==
  /\ c \in legs
  /\ list[c] # None
  /\ a.enable => a.dom # Unknown
  /\ Dir[c] = "input" => a.dom \in {Own, Unknown}
  /\ a.enable => a.flow \in Flows

Activated(list, c, a) ==
  [list EXCEPT ![c] =
     [sub |-> list[c].sub,
      flow |-> IF a.flow = None THEN list[c].flow ELSE a.flow,
      active |-> a.enable,
      path |-> IF Dir[c] = "output" /\ a.dom # Unknown THEN a.dom ELSE Own]]

(***************************************************************************)
(* restoreActivations: the saved activations over a list.  An input keeps  *)
(* its own flow.  A domain that the scan does not find was found when the  *)
(* route was saved, and is read at its saved directory.  What the checks   *)
(* reject comes up inactive, with its flow.                                *)
(***************************************************************************)
Saved(list, c) ==
  IF Dir[c] = "input" THEN [routes[c] EXCEPT !.dom = Own, !.flow = list[c].flow]
  ELSE routes[c]

Restored(list) ==
  [c \in Channels |->
     IF c \notin legs \/ list[c] = None \/ routes[c] = None THEN list[c]
     ELSE IF Accepted(list, c, Saved(list, c))
     THEN Activated(list, c, Saved(list, c))[c]
     ELSE Activated(list, c, [Saved(list, c) EXCEPT !.enable = FALSE])[c]]

\* Outputs without a flow wait for a controller instead of retrying.
Parked(list) ==
  [c \in Channels |->
     IF list[c] # None /\ Dir[c] = "output" /\ list[c].flow = NilFlow
     THEN [list[c] EXCEPT !.active = FALSE]
     ELSE list[c]]

-----------------------------------------------------------------------------
(* main: start *)

Init ==
  /\ layer = StartFile
  /\ entries = NoList /\ run = NoList /\ started = FALSE /\ mutex = "free"
  /\ web = WebIdle /\ flag = FALSE /\ global = StartFile.glob
  /\ jobs = <<>> /\ worker = [WorkerTop EXCEPT !.pc = "ended"]
  /\ routes = [c \in Channels |-> None]
  /\ main = "exited" /\ legs = {}
  /\ requests = 0 /\ sent = 0 /\ lives = 0
  /\ edited = FALSE

\* A process starts: ConfigStore, effectiveConfig, openConfiguredCard, which
\* wants every sub-device to exist, ChannelManager.
Boot ==
  /\ main = "exited" /\ lives < MaxLives
  /\ FitsCard(Effective(layer))
  /\ lives' = lives + 1
  /\ main' = "node"
  /\ global' = layer.glob /\ flag' = FALSE
  /\ entries' = Effective(layer) /\ legs' = Present(Effective(layer))
  /\ worker' = WorkerTop
  /\ UNCHANGED <<layer, run, started, mutex, web, jobs, routes, requests, sent, edited>>

\* No card fits the channels: EX_TEMPFAIL after the retries.
BootFails ==
  /\ main = "exited" /\ lives < MaxLives
  /\ ~FitsCard(Effective(layer))
  /\ lives' = lives + 1
  /\ UNCHANGED <<layer, manager, mutex, web, flag, global, jobs, worker, routes,
                 main, legs, requests, sent, edited>>

\* serverMain up to the ready node: restoreConnections, then parking.  Neither
\* touches what the card checks, so applyChannels accepts both lists.
NodeStarts ==
  /\ main = "node"
  /\ entries' = Parked(Restored(entries))
  /\ main' = "start"
  /\ UNCHANGED <<layer, run, started, mutex, web, flag, global, jobs, worker,
                 routes, legs, bounds, edited>>

\* startAll, then the web server.
StartAll ==
  /\ main = "start" /\ mutex = "free"
  /\ run' = entries /\ started' = TRUE
  /\ main' = "running"
  /\ UNCHANGED <<layer, entries, mutex, web, flag, global, jobs, worker, routes,
                 legs, bounds, edited>>

-----------------------------------------------------------------------------
(* The web thread: one request at a time *)

\* The keys of a request, applied to the file layer.  A key that the
\* environment sets cannot be changed.
Change(c, f) == [layer EXCEPT !.chan[c] = f]
Changeable(c, f) ==
  c \in DOMAIN EnvFlow /\ f # None =>
    f.flow = IF layer.chan[c] = None THEN EnvFlow[c] ELSE layer.chan[c].flow

\* The web server takes requests from web.start to web.stop.
Serving == main \in {"running", "stop", "deregister", "nodeStop"}

(***************************************************************************)
(* ConfigStore::update: validates the merged result, replaces the file,    *)
(* then the layer.  apiConfigPut goes on with the channels of the result.  *)
(***************************************************************************)
PutUpdate(candidate, asked) ==
  /\ Serving /\ web.pc = "idle" /\ requests < MaxRequests
  /\ requests' = requests + 1
  /\ candidate # layer
  /\ ValidConfig(Effective(candidate))
  /\ layer' = candidate
  /\ edited' = TRUE
  /\ web' = [pc |-> "apply", list |-> Effective(candidate), asked |-> asked,
             glob |-> candidate.glob]
  /\ UNCHANGED <<manager, mutex, flag, global, jobs, worker, routes, main, legs,
                 sent, lives>>

Put ==
  \/ \E c \in Channels, f \in Edits \cup {None} :
       Changeable(c, f) /\ PutUpdate(Change(c, f), {c})
  \/ \E g \in Globals : PutUpdate([layer EXCEPT !.glob = g], {})

\* importDocument: the file becomes the document's settings; nothing is
\* applied, a restart is asked for.
Import ==
  /\ Serving /\ web.pc = "idle" /\ requests < MaxRequests
  /\ requests' = requests + 1
  /\ \E c \in Channels, f \in Edits : \E g \in Globals :
       LET doc == [chan |-> [NoList EXCEPT ![c] = f], glob |-> g]
       IN  /\ c \notin DOMAIN EnvFlow
           /\ ValidConfig(Effective(doc))
           /\ layer' = doc
  /\ flag' = TRUE
  /\ edited' = TRUE
  /\ UNCHANGED <<manager, mutex, web, global, jobs, worker, routes, main, legs,
                 sent, lives>>

\* applyChannels refuses the list: 422, persisted but not applied.
PutRefused ==
  /\ web.pc = "apply" /\ mutex = "free" /\ ~FitsCard(web.list)
  /\ web' = WebIdle
  /\ UNCHANGED <<layer, manager, mutex, flag, global, jobs, worker, routes, main,
                 legs, bounds, edited>>

PutApplies ==
  /\ web.pc = "apply" /\ mutex = "free" /\ FitsCard(web.list)
  /\ mutex' = "web"
  /\ UNCHANGED <<layer, manager, web, flag, global, jobs, worker, routes, main,
                 legs, bounds, edited>>

\* Mutant: the global part is not compared.
PutAnsweredSilent ==
  /\ mutex = "web" /\ entries = web.list
  /\ mutex' = "free"
  /\ web' = WebIdle
  /\ UNCHANGED <<layer, manager, flag, global, jobs, worker, routes, main, legs, bounds,
                 edited>>

PutAnswered ==
  /\ mutex = "web" /\ entries = web.list
  /\ mutex' = "free"
  /\ web' = WebIdle
  /\ flag' = (flag \/ web.glob # global)
  /\ UNCHANGED <<layer, manager, global, jobs, worker, routes, main, legs, bounds,
                 edited>>

-----------------------------------------------------------------------------
(* applyChannels, under ChannelManager::_mutex: entry by entry *)

Target == IF mutex = "web" THEN web.list ELSE worker.list

First(c, set) == c \in set /\ \A d \in set : c <= d
Gone == Present(entries) \ Present(Target)
Different == {c \in Present(Target) : entries[c] # Target[c]}

\* An entry that the list no longer has is stopped and erased.
RemoveEntry(c) ==
  /\ mutex # "free" /\ First(c, Gone)
  /\ entries' = [entries EXCEPT ![c] = None]
  /\ run' = [run EXCEPT ![c] = None]
  /\ UNCHANGED <<layer, started, mutex, web, flag, global, jobs, worker, routes,
                 main, legs, bounds, edited>>

\* Mutant: the entry is started whether or not the channels are.
ChangeEntryStarts(c) ==
  /\ mutex # "free" /\ Gone = {} /\ First(c, Different)
  /\ entries' = [entries EXCEPT ![c] = Target[c]]
  /\ run' = [run EXCEPT ![c] = Target[c]]
  /\ UNCHANGED <<layer, started, mutex, web, flag, global, jobs, worker, routes,
                 main, legs, bounds, edited>>

\* A new entry is added, a changed one stopped and given its new
\* configuration; either starts only when startAll has run and stopAll not.
ChangeEntry(c) ==
  /\ mutex # "free" /\ Gone = {} /\ First(c, Different)
  /\ entries' = [entries EXCEPT ![c] = Target[c]]
  /\ run' = [run EXCEPT ![c] = IF started THEN Target[c] ELSE None]
  /\ UNCHANGED <<layer, started, mutex, web, flag, global, jobs, worker, routes,
                 main, legs, bounds, edited>>

-----------------------------------------------------------------------------
(* The NMOS node *)

\* Node::stop has cleared accept and set jobStop.
Stopping == main \in {"nodeStop", "webStop"}

\* on_connection_activated: the node has accepted the activation.
Enqueue(c, a) ==
  /\ main \in {"start", "running", "stop", "deregister"} /\ sent < MaxJobs /\ c \in legs
  /\ sent' = sent + 1
  /\ jobs' = Append(jobs, <<c, a>>)
  /\ UNCHANGED <<layer, manager, mutex, web, flag, global, worker, routes, main,
                 legs, requests, lives, edited>>

\* The head of workerLoop.
WorkerLoops ==
  /\ worker.pc = "top"
  /\ worker' = [worker EXCEPT !.pc = IF Stopping THEN "ended" ELSE "waiting"]
  /\ UNCHANGED <<layer, manager, mutex, web, flag, global, jobs, routes, main,
                 legs, bounds, edited>>

WorkerEnds ==
  /\ worker.pc = "waiting" /\ Stopping /\ jobs = <<>>
  /\ worker' = [worker EXCEPT !.pc = "ended"]
  /\ UNCHANGED <<layer, manager, mutex, web, flag, global, jobs, routes, main,
                 legs, bounds, edited>>

\* A job is taken, the channels are read, and the activation is worked into
\* the copy or rejected.
WorkerTakes ==
  /\ worker.pc = "waiting" /\ jobs # <<>> /\ mutex = "free"
  /\ jobs' = Tail(jobs)
  /\ LET c == Head(jobs)[1]
         a == Head(jobs)[2]
     IN  worker' = IF Accepted(entries, c, a)
                   THEN [pc |-> "apply", list |-> Activated(entries, c, a),
                         chan |-> c, act |-> a]
                   ELSE WorkerTop
  /\ UNCHANGED <<layer, manager, mutex, web, flag, global, routes, main, legs,
                 bounds, edited>>

\* applyChannels accepts the worker's list: it differs from validated entries
\* only in what the card does not check.
WorkerApplies ==
  /\ worker.pc = "apply" /\ mutex = "free"
  /\ mutex' = "worker"
  /\ UNCHANGED <<layer, manager, web, flag, global, jobs, worker, routes, main,
                 legs, bounds, edited>>

WorkerApplied ==
  /\ mutex = "worker" /\ entries = worker.list
  /\ mutex' = "free"
  /\ worker' = [worker EXCEPT !.pc = "save"]
  /\ UNCHANGED <<layer, manager, web, flag, global, jobs, routes, main, legs,
                 bounds, edited>>

\* Mutant: the directory of the domain is not saved with the route.
WorkerSavesFlow ==
  /\ worker.pc = "save"
  /\ routes' = [routes EXCEPT ![worker.chan] = [worker.act EXCEPT !.dom = Own]]
  /\ worker' = [worker EXCEPT !.pc = "read"]
  /\ UNCHANGED <<layer, manager, mutex, web, flag, global, jobs, main, legs,
                 bounds, edited>>

\* saveActivation.
WorkerSaves ==
  /\ worker.pc = "save"
  /\ routes' = [routes EXCEPT ![worker.chan] = worker.act]
  /\ worker' = [worker EXCEPT !.pc = "read"]
  /\ UNCHANGED <<layer, manager, mutex, web, flag, global, jobs, main, legs,
                 bounds, edited>>

\* persist reads the channels again ...
WorkerReads ==
  /\ worker.pc = "read" /\ mutex = "free"
  /\ worker' = [worker EXCEPT !.pc = "persist", !.list = entries]
  /\ UNCHANGED <<layer, manager, mutex, web, flag, global, jobs, routes, main,
                 legs, bounds, edited>>

\* ... and writes the flow (unless the environment sets it) and the active
\* flag of each into the file; the store may refuse.
Persisted ==
  [layer EXCEPT !.chan =
     [c \in Channels |->
        IF layer.chan[c] = None \/ worker.list[c] = None THEN layer.chan[c]
        ELSE [sub |-> layer.chan[c].sub,
              flow |-> IF c \in DOMAIN EnvFlow THEN layer.chan[c].flow
                       ELSE worker.list[c].flow,
              active |-> worker.list[c].active]]]

WorkerPersists ==
  /\ worker.pc = "persist"
  /\ layer' = IF ValidConfig(Effective(Persisted)) THEN Persisted ELSE layer
  /\ worker' = WorkerTop
  /\ UNCHANGED <<manager, mutex, web, flag, global, jobs, routes, main, legs,
                 bounds, edited>>

-----------------------------------------------------------------------------
(* main: stop *)

\* The main thread leaves its wait loop on a signal.
Signal ==
  /\ main = "running"
  /\ main' = "stop"
  /\ UNCHANGED <<layer, manager, mutex, web, flag, global, jobs, worker, routes,
                 legs, bounds, edited>>

StopAll ==
  /\ main = "stop" /\ mutex = "free"
  /\ run' = NoList /\ started' = FALSE
  /\ main' = "deregister"
  /\ UNCHANGED <<layer, entries, mutex, web, flag, global, jobs, worker, routes,
                 legs, bounds, edited>>

\* Node::stop takes the node out of the registry, waits for that at most three
\* seconds, and only then refuses activations and stops the worker.  jobStop
\* is set and notified without jobMu: a worker between its look at an empty
\* queue and its sleep misses both ...
Deregistered ==
  /\ main = "deregister"
  /\ main' = "nodeStop"
  /\ \/ UNCHANGED worker
     \/ /\ worker.pc = "waiting" /\ jobs = <<>>
        /\ worker' = [worker EXCEPT !.pc = "lost"]
  /\ UNCHANGED <<layer, manager, mutex, web, flag, global, jobs, routes, legs,
                 bounds, edited>>

\* Mutant: the node waits for the queue to drain.
NodeStoppedDrained ==
  /\ main = "nodeStop" /\ worker.pc = "ended" /\ jobs = <<>>
  /\ main' = "webStop"
  /\ UNCHANGED <<layer, manager, mutex, web, flag, global, jobs, worker, routes,
                 legs, bounds, edited>>

\* ... which it joins.
NodeStopped ==
  /\ main = "nodeStop" /\ worker.pc = "ended"
  /\ main' = "webStop"
  /\ UNCHANGED <<layer, manager, mutex, web, flag, global, jobs, worker, routes,
                 legs, bounds, edited>>

\* What is left in memory is gone: all that a new process finds is the
\* configuration file and the saved routes.
Exits ==
  /\ main' = "exited"
  /\ entries' = NoList /\ run' = NoList /\ started' = FALSE /\ mutex' = "free"
  /\ web' = WebIdle /\ jobs' = <<>> /\ worker' = [WorkerTop EXCEPT !.pc = "ended"]
  /\ UNCHANGED <<layer, flag, global, routes, legs, bounds, edited>>

\* web.stop joins the web thread; the rest of the shutdown touches none of this.
WebStopped == main = "webStop" /\ web.pc = "idle" /\ Exits

\* The process is killed, or the shutdown watchdog ends it.
Crash == main # "exited" /\ Exits

-----------------------------------------------------------------------------
WebSteps == PutRefused \/ PutApplies \/ PutAnswered
ApplySteps == \E c \in Channels : RemoveEntry(c) \/ ChangeEntry(c)
WorkerSteps ==
  \/ WorkerLoops \/ WorkerEnds \/ WorkerTakes \/ WorkerApplies
  \/ WorkerApplied \/ WorkerSaves \/ WorkerReads \/ WorkerPersists
MainSteps == NodeStarts \/ StartAll \/ StopAll \/ Deregistered \/ NodeStopped \/ WebStopped

Next ==
  \/ Boot \/ BootFails \/ Signal \/ Crash \/ MainSteps
  \/ Put \/ Import \/ WebSteps
  \/ \E c \in Channels, a \in Activation : Enqueue(c, a)
  \/ WorkerSteps
  \/ ApplySteps

Spec == Init /\ [][Next]_vars

\* Every thread that has something to do goes on: they are preemptively
\* scheduled, and a lock is held only for a bounded time.
FairSpec ==
  /\ Spec
  /\ WF_vars(WebSteps) /\ WF_vars(ApplySteps) /\ WF_vars(WorkerSteps)
  /\ WF_vars(MainSteps)
-----------------------------------------------------------------------------
(* Properties *)

(***************************************************************************)
(* Outside applyChannels, what runs is what is configured - and nothing    *)
(* runs before startAll or after stopAll, though the web thread and the    *)
(* NMOS worker go on applying lists while the process shuts down.          *)
(***************************************************************************)
RunsAsConfigured ==
  mutex = "free" => run = IF started THEN entries ELSE NoList

(***************************************************************************)
(* Outside applyChannels, every running channel is on a sub-device of the  *)
(* card, and no two of one direction are on the same one.  The lists come  *)
(* from two threads that do not know of each other, and the worker's was   *)
(* read some time before it is applied.                                    *)
(***************************************************************************)
SubDevicesAreOwned ==
  mutex = "free" =>
    \A c \in Present(run) :
      /\ run[c].sub \in SubDevices
      /\ \A d \in Present(run) \ {c} : Dir[c] = Dir[d] => run[c].sub # run[d].sub

(***************************************************************************)
(* The file is never left with a configuration that the validation of a    *)
(* start would refuse, though the web API and the NMOS worker both write   *)
(* it (ConfigStore::update; SPECIFICATION 4.5).                            *)
(***************************************************************************)
FileIsLoadable == ValidConfig(Effective(layer))

(***************************************************************************)
(* When the global part of the file is not the one this process runs with, *)
(* a restart is asked for - as soon as the file fits the card: a change    *)
(* that the card refuses is in the file, too, but not announced.           *)
(***************************************************************************)
RestartIsAnnounced ==
  main # "exited" /\ web.pc = "idle" /\ layer.glob # global =>
    flag \/ ~FitsCard(Effective(layer))

(***************************************************************************)
(* As long as only activations changed things, a restart brings the        *)
(* channels back as they are, once the worker has finished with the last   *)
(* activation: what is saved agrees with what runs, whatever the store     *)
(* refused to take.  (The flow of an input is its own, SPECIFICATION 7.7.) *)
(***************************************************************************)
Resumes(c) ==
  LET next == Parked(Restored(Effective(layer)))[c]
  IN  /\ next.sub = entries[c].sub
      /\ next.active = entries[c].active
      /\ next.active /\ Dir[c] = "output" =>
           next.flow = entries[c].flow /\ next.path = entries[c].path

RestartResumes ==
  ~edited /\ main \in {"start", "running"} /\ worker.pc \in {"top", "waiting"} =>
    /\ Present(entries) = Present(layer.chan)
    /\ \A c \in Present(entries) : Resumes(c)

(***************************************************************************)
(* A shutdown ends by itself, whatever the worker and the web thread are   *)
(* in the middle of and however many activations are still queued - but    *)
(* for the one race in which the worker misses its wake-up: then only the  *)
(* watchdog (Lifecycle) ends the process.                                  *)
(***************************************************************************)
ShutdownEnds == main = "stop" ~> (main = "exited" \/ worker.pc = "lost")

(***************************************************************************)
(* SPECIFICATION 7.5.3: a change made through the web interface stops and  *)
(* starts the channels it names, and no other.                             *)
(***************************************************************************)
OthersUntouched ==
  [][ \A c \in Channels :
        mutex = "web" /\ main' # "exited" /\ run'[c] # run[c] => c \in web.asked ]_vars
=============================================================================
