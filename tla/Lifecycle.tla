----------------------------- MODULE Lifecycle -----------------------------
(***************************************************************************)
(* The life of the process (main.cpp): the start sequence with its retries *)
(* and exit codes, the staged shutdown with its watchdog, the unwinding of *)
(* an early return, and the threads that are alive meanwhile: housekeeping *)
(* (ops/housekeeping.cpp), the web server (ops/httpserver.cpp), the NMOS   *)
(* worker (nmos/node.cpp), an input channel, and the card's profile        *)
(* callback (decklink/sdk/sdkbackend.cpp).  Also the directory of the MXL  *)
(* domain, which outlives a process (mxlbridge/domainscan.cpp).            *)
(*                                                                         *)
(* What the threads do for the channels is in ControlPlane; here they only *)
(* use objects that the main thread destroys.                              *)
(***************************************************************************)
EXTENDS Integers, Sequences

CONSTANTS
  Ids,           \* usable domain ids that the directory may come with
  Derived,       \* the id derived from the path of the directory
  Settings,      \* the configurations to consider
  MaxRetries,    \* STARTUP_MAX_RETRIES
  MaxChanges,    \* bound: profile changes by other programs
  MaxLives,      \* bound: process starts
  None

(***************************************************************************)
(* id: the configured domain id; chans: there are channels; nmos: the node *)
(* is on; registry: it has to register; profile: a card profile is         *)
(* configured; cleanup: the directory is removed at the end; root: it is   *)
(* the scan root; managers: the sub-devices of the card that have a        *)
(* profile manager, with each of which the callback is registered.         *)
(***************************************************************************)
Setting == [id : Ids \cup {None}, chans : BOOLEAN, nmos : BOOLEAN, registry : BOOLEAN,
            profile : BOOLEAN, cleanup : BOOLEAN, root : BOOLEAN, managers : Nat \ {0}]

ASSUME LifecycleAssumption ==
  /\ Settings \subseteq Setting
  /\ Derived \in Ids /\ None \notin Ids
  /\ {"absent", "torn", "noid"} \cap Ids = {}
  /\ MaxRetries \in Nat /\ MaxChanges \in Nat /\ MaxLives \in Nat

VARIABLES
  cfg,           \* the configuration
  dir,           \* domain_def.json: "absent", "torn", "noid" or an id
  main, stages,  \* where main is; the stages of shutdown or unwinding to go
  code,          \* the exit code, or the one that it will be
  obj,           \* the objects alive: "domain", "channels", "node"
  card,          \* "none", "sdk" or "mock"
  run,           \* the channels run
  tries,         \* failed attempts to open the card
  signal,        \* g_signalReceived
  changed,       \* g_externalProfileChange
  self,          \* SdkCard::_selfProfileChange
  activations,   \* ProfileActivated calls that the driver has still to make
  hk, web,       \* the housekeeping and the web thread
  worker, jobStop,   \* the NMOS worker, between jobs and in one
  input,         \* an input channel's thread: "idle" or in the node's "handler"
  dog,           \* the watchdog runs
  changes, lives     \* counters for the bounds

threads == <<hk, web, worker, jobStop, input>>
driver == <<self, activations, changes>>
vars == <<cfg, dir, main, stages, code, obj, card, run, tries, signal, changed, driver,
          threads, dog, lives>>

Stages == {"channels", "node", "notify", "join", "freeNode", "web", "hk", "domain",
           "cleanup", "card", "end"}

TypeOK ==
  /\ cfg \in Settings
  /\ dir \in {"absent", "torn", "noid"} \cup Ids
  /\ main \in {"exited", "config", "domain", "adopt", "instance", "card", "gaveUp",
              "profile", "manager", "node", "ready", "start", "web", "ports", "running",
              "stopping"}
  /\ stages \in Seq(Stages)
  /\ code \in {None, 2, 75, 78, 143, 137}
  /\ obj \subseteq {"domain", "channels", "node"}
  /\ card \in {"none", "sdk", "mock"}
  /\ run \in BOOLEAN /\ signal \in BOOLEAN /\ changed \in BOOLEAN /\ self \in BOOLEAN
  /\ jobStop \in BOOLEAN /\ dog \in BOOLEAN
  /\ tries \in 0..(MaxRetries + 1)
  /\ activations \in Nat /\ changes \in 0..MaxChanges
  /\ hk \in {"off", "top", "beat", "gc"}
  /\ web \in {"off", "idle", "gate", "busy", "blocked"}
  /\ worker \in {"off", "top", "checked", "asleep", "job", "ended"}
  /\ input \in {"idle", "handler"}
  /\ lives \in 0..MaxLives

-----------------------------------------------------------------------------
(* The orders in which things end *)

\* Mutant: the instance goes before the thread that collects its garbage.
DomainFirst ==
  <<"channels", "node", "notify", "join", "freeNode", "web", "domain", "hk", "cleanup",
    "card", "end">>

\* The staged shutdown of main().
Shutdown ==
  <<"channels", "node", "notify", "join", "freeNode", "web", "hk", "domain", "cleanup",
    "card", "end">>

\* The destructors of main's locals when it returns early: last made, first gone.
Unwinding ==
  <<"web", "hk", "node", "notify", "join", "freeNode", "channels", "card", "domain",
    "end">>

Return(c) ==
  /\ main' = "stopping" /\ stages' = Unwinding /\ code' = c

\* The process is gone, with all its memory and threads.
Gone(c) ==
  /\ main' = "exited" /\ code' = c /\ stages' = <<>>
  /\ obj' = {} /\ card' = "none" /\ run' = FALSE
  /\ tries' = 0 /\ signal' = FALSE /\ changed' = FALSE /\ self' = FALSE
  /\ activations' = 0
  /\ hk' = "off" /\ web' = "off" /\ worker' = "off" /\ jobStop' = FALSE
  /\ input' = "idle" /\ dog' = FALSE
  /\ UNCHANGED <<cfg, dir, changes, lives>>

Init ==
  /\ cfg \in Settings
  /\ dir \in {"absent", "torn", "noid"} \cup Ids
  /\ main = "exited" /\ stages = <<>> /\ code = None
  /\ obj = {} /\ card = "none" /\ run = FALSE
  /\ tries = 0 /\ signal = FALSE /\ changed = FALSE /\ self = FALSE
  /\ activations = 0 /\ changes = 0
  /\ hk = "off" /\ web = "off" /\ worker = "off" /\ jobStop = FALSE
  /\ input = "idle" /\ dog = FALSE /\ lives = 0

Boot ==
  /\ main = "exited" /\ lives < MaxLives
  /\ main' = "config" /\ code' = None /\ lives' = lives + 1
  /\ UNCHANGED <<cfg, dir, stages, obj, card, run, tries, signal, changed, driver,
                 threads, dog>>

-----------------------------------------------------------------------------
(* The start *)

\* Only main's place changes.
GoTo(pc) ==
  /\ main' = pc
  /\ UNCHANGED <<cfg, dir, stages, code, obj, card, run, tries, signal, changed, driver,
                 threads, dog, lives>>

\* An early return: from here main only unwinds.
GiveUp(c) ==
  /\ Return(c)
  /\ UNCHANGED <<cfg, dir, obj, card, run, tries, signal, changed, driver, threads, dog,
                 lives>>

\* Mutant: an id that is not the configured one is replaced.
AdoptsAnyDomain ==
  /\ main = "domain"
  /\ \/ dir \in Ids \cup {"noid"} /\ GoTo("adopt")
     \/ dir \in {"absent", "torn"} /\ Gone(75)
     \/ /\ dir \in {"absent", "torn"}
        /\ dir' = "torn" /\ main' = "adopt"
        /\ UNCHANGED <<cfg, stages, code, obj, card, run, tries, signal, changed, driver,
                       threads, dog, lives>>

\* ConfigStore and effectiveConfig.
ReadConfig == main = "config" /\ (GoTo("domain") \/ Gone(78))

\* adoptOutputDomain: a file with an id is never written, one that does not
\* parse is as good as none.
AdoptDomain ==
  /\ main = "domain"
  /\ \/ dir \in Ids /\ cfg.id \in {None, dir} /\ GoTo("instance")
     \/ dir \in Ids /\ cfg.id \notin {None, dir} /\ Gone(78)
     \/ dir = "noid" /\ Gone(75)
     \/ dir \in {"absent", "torn"} /\ Gone(75)
     \/ /\ dir \in {"absent", "torn"}
        /\ dir' = "torn" /\ main' = "adopt"
        /\ UNCHANGED <<cfg, stages, code, obj, card, run, tries, signal, changed, driver,
                       threads, dog, lives>>

WriteDomainDef ==
  /\ main = "adopt"
  /\ dir' = IF cfg.id = None THEN Derived ELSE cfg.id
  /\ main' = "instance"
  /\ UNCHANGED <<cfg, stages, code, obj, card, run, tries, signal, changed, driver,
                 threads, dog, lives>>

\* Domain::Domain.
CreateInstance ==
  /\ main = "instance"
  /\ \/ Gone(75)
     \/ /\ obj' = obj \cup {"domain"} /\ main' = "card"
        /\ UNCHANGED <<cfg, dir, stages, code, card, run, tries, signal, changed, driver,
                       threads, dog, lives>>

\* openCardWithRetry; the last attempt has no sleep behind it.
OpenCard ==
  /\ main = "card"
  /\ \/ (signal \/ tries > MaxRetries) /\ GoTo("gaveUp")
     \/ /\ ~signal /\ tries <= MaxRetries
        /\ \/ card' = "sdk" /\ main' = "profile" /\ UNCHANGED tries
           \/ tries' = tries + 1 /\ UNCHANGED <<card, main>>
        /\ UNCHANGED <<cfg, dir, stages, code, obj, run, signal, changed, driver, threads,
                       dog, lives>>

\* Without channels the mock card keeps the web interface reachable; it has
\* no profiles.
NoCard ==
  /\ main = "gaveUp"
  /\ \/ signal /\ GiveUp(143)
     \/ ~signal /\ GiveUp(75)
     \/ /\ ~signal /\ ~cfg.chans
        /\ card' = "mock" /\ main' = "manager"
        /\ UNCHANGED <<cfg, dir, stages, code, obj, run, tries, signal, changed, driver,
                       threads, dog, lives>>

\* setCallbacks, then applyProfile: the profile may be active already, and
\* SetActive may fail.  The driver calls back through the managers of the
\* sub-devices that share the profile, one of them or more.
ApplyProfile ==
  /\ main = "profile"
  /\ \/ GoTo("manager")
     \/ cfg.profile /\ GiveUp(75)
     \/ /\ cfg.profile
        /\ \E n \in 1..cfg.managers : activations' = activations + n
        /\ self' = TRUE
        /\ main' = "manager"
        /\ UNCHANGED <<cfg, dir, stages, code, obj, card, run, tries, signal, changed,
                       changes, threads, dog, lives>>

\* ChannelManager, HealthService, and the housekeeping thread.
MakeManager ==
  /\ main = "manager"
  /\ obj' = obj \cup {"channels"} /\ hk' = "top"
  /\ main' = IF cfg.nmos THEN "node" ELSE "start"
  /\ UNCHANGED <<cfg, dir, stages, code, card, run, tries, signal, changed, driver, web,
                 worker, jobStop, input, dog, lives>>

\* Node::start installs its handler, starts the worker and waits for the node;
\* when that fails it stops itself and throws.
StartNode ==
  /\ main = "node"
  /\ obj' = obj \cup {"node"} /\ worker' = "top" /\ main' = "ready"
  /\ UNCHANGED <<cfg, dir, stages, code, card, run, tries, signal, changed, driver, hk,
                 web, jobStop, input, dog, lives>>

NodeReady ==
  /\ main = "ready"
  /\ \/ GoTo("start")
     \/ /\ main' = "stopping" /\ code' = 75
        /\ stages' = <<"node", "notify", "join">> \o Unwinding
        /\ UNCHANGED <<cfg, dir, obj, card, run, tries, signal, changed, driver, threads,
                       dog, lives>>

StartAll ==
  /\ main = "start"
  /\ run' = cfg.chans /\ main' = "web"
  /\ UNCHANGED <<cfg, dir, stages, code, obj, card, tries, signal, changed, driver,
                 threads, dog, lives>>

StartWeb ==
  /\ main = "web"
  /\ \/ GiveUp(75)
     \/ /\ web' = "idle" /\ main' = "ports"
        /\ UNCHANGED <<cfg, dir, stages, code, obj, card, run, tries, signal, changed,
                       driver, hk, worker, jobStop, input, dog, lives>>

\* tcpPortAccepts for every port.
CheckPorts == main = "ports" /\ (GoTo("running") \/ GiveUp(75))

-----------------------------------------------------------------------------
(* The end *)

\* The wait loop ends; the watchdog starts.
LeaveLoop ==
  /\ main = "running" /\ (signal \/ changed)
  /\ main' = "stopping" /\ stages' = Shutdown
  /\ code' = IF changed THEN 2 ELSE 143
  /\ dog' = TRUE
  /\ UNCHANGED <<cfg, dir, obj, card, run, tries, signal, changed, driver, threads, lives>>

AtStage(s) == main = "stopping" /\ stages # <<>> /\ Head(stages) = s
Done ==
  /\ stages' = Tail(stages)
  /\ UNCHANGED <<cfg, main, code, tries, signal, changed, driver, dog, lives>>

\* stopAll joins the channels' threads.
StopChannels ==
  /\ AtStage("channels") /\ input = "idle"
  /\ run' = FALSE
  /\ obj' = IF dog THEN obj ELSE obj \ {"channels"}
  /\ Done /\ UNCHANGED <<dir, card, threads>>

\* Node::stop: jobStop is set, the worker is notified - without the mutex under
\* which it looks at jobStop - and joined.
StopJobs ==
  /\ AtStage("node")
  /\ jobStop' = ("node" \in obj)
  /\ Done /\ UNCHANGED <<dir, obj, card, run, hk, web, worker, input>>

NotifyWorker ==
  /\ AtStage("notify")
  /\ worker' = IF worker = "asleep" THEN "top" ELSE worker
  /\ Done /\ UNCHANGED <<dir, obj, card, run, hk, web, jobStop, input>>

JoinWorker ==
  /\ AtStage("join") /\ worker \in {"off", "ended"}
  /\ Done /\ UNCHANGED <<dir, obj, card, run, threads>>

FreeNode ==
  /\ AtStage("freeNode")
  /\ obj' = obj \ {"node"}
  /\ Done /\ UNCHANGED <<dir, card, run, threads>>

\* HttpServer::stop joins the thread, which takes no further connection.
StopWeb ==
  /\ AtStage("web") /\ web \in {"off", "idle"}
  /\ web' = "off"
  /\ Done /\ UNCHANGED <<dir, obj, card, run, hk, worker, jobStop, input>>

StopHousekeeping ==
  /\ AtStage("hk") /\ hk \in {"off", "top"}
  /\ hk' = "off"
  /\ Done /\ UNCHANGED <<dir, obj, card, run, web, worker, jobStop, input>>

DestroyInstance ==
  /\ AtStage("domain")
  /\ obj' = obj \ {"domain"}
  /\ Done /\ UNCHANGED <<dir, card, run, threads>>

\* The domain directory is removed after a signal, unless it is the scan root.
CleanUp ==
  /\ AtStage("cleanup")
  /\ dir' = IF cfg.cleanup /\ code = 143 /\ ~cfg.root THEN "absent" ELSE dir
  /\ Done /\ UNCHANGED <<obj, card, run, threads>>

\* Nobody is called back by a card that is gone.
ReleaseCard ==
  /\ AtStage("card")
  /\ card' = "none"
  /\ Done /\ UNCHANGED <<dir, obj, run, threads>>

Ends == AtStage("end") /\ Gone(code)

\* Mutant: the watchdog waits for the shutdown to be done.
WatchdogWaits == dog /\ AtStage("end") /\ Gone(143)

\* The deadline passes before shutdownDone.
WatchdogFires == dog /\ main = "stopping" /\ Gone(143)

-----------------------------------------------------------------------------
(* The other threads *)

\* Housekeeping::loop: heartbeat and channels, now and then the domain.
HousekeepingLoop ==
  /\ \/ hk = "top" /\ ~AtStage("hk") /\ hk' = "beat"
     \/ hk = "beat" /\ hk' \in {"gc", "top"}
     \/ hk = "gc" /\ hk' = "top"
  /\ UNCHANGED <<cfg, dir, main, stages, code, obj, card, run, tries, signal, changed,
                 driver, web, worker, jobStop, input, dog, lives>>

\* HttpServer::acceptLoop.  A request is answered, or its peer does not read
\* the answer: there is no time limit on send.  /readyz asks the node first
\* when it has to register, if main's pointer to it is still there.
WebStep(from, to) ==
  /\ web = from /\ web' = to
  /\ UNCHANGED <<cfg, dir, main, stages, code, obj, card, run, tries, signal, changed,
                 driver, hk, worker, jobStop, input, dog, lives>>

Request == ~AtStage("web") /\ WebStep("idle", "busy")
ReadyGate ==
  /\ ~AtStage("web") /\ cfg.nmos /\ cfg.registry /\ "node" \in obj
  /\ WebStep("idle", "gate")
GateLeft == WebStep("gate", "busy")
Answered == WebStep("busy", "idle")
PeerBlocks == WebStep("busy", "blocked")

\* workerLoop.  Between its look at jobStop and the queue and its sleep it
\* holds jobMu, which an enqueue waits for, but Node::stop does not.
WorkerStep(from, to) ==
  /\ worker = from /\ worker' = to
  /\ UNCHANGED <<cfg, dir, main, stages, code, obj, card, run, tries, signal, changed,
                 driver, hk, web, jobStop, input, dog, lives>>

WorkerLoop ==
  \/ jobStop /\ WorkerStep("top", "ended")
  \/ ~jobStop /\ WorkerStep("top", "checked")
  \/ WorkerStep("checked", "asleep")
  \/ WorkerStep("job", "top")

\* on_connection_activated: a job is queued and the worker wakes up for it.
JobArrives == main \notin {"exited", "ready"} /\ ~jobStop /\ WorkerStep("asleep", "job")

\* An input channel announces new flows through the handler that the node
\* installed before the channels were started.
InputStep(from, to) ==
  /\ input = from /\ input' = to
  /\ UNCHANGED <<cfg, dir, main, stages, code, obj, card, run, tries, signal, changed,
                 driver, hk, web, worker, jobStop, dog, lives>>

HandlerCalled == run /\ cfg.nmos /\ ~AtStage("channels") /\ InputStep("idle", "handler")
HandlerDone == InputStep("handler", "idle")

\* SIGTERM or SIGINT after the handlers are installed.
Signal ==
  /\ main \notin {"exited", "config"} /\ ~signal
  /\ signal' = TRUE
  /\ UNCHANGED <<cfg, dir, main, stages, code, obj, card, run, tries, changed, driver,
                 threads, dog, lives>>

\* Another program changes the card's profile while our callback is registered.
ProfileChanges ==
  /\ card = "sdk" /\ main # "profile" /\ changes < MaxChanges
  /\ changes' = changes + 1
  /\ \E n \in 1..cfg.managers : activations' = activations + n
  /\ UNCHANGED <<cfg, dir, main, stages, code, obj, card, run, tries, signal, changed,
                 self, threads, dog, lives>>

\* Mutant: a change of our own is not told from another's.
ProfileActivatedAll ==
  /\ card = "sdk" /\ activations > 0
  /\ activations' = activations - 1
  /\ self' = FALSE /\ changed' = TRUE
  /\ UNCHANGED <<cfg, dir, main, stages, code, obj, card, run, tries, signal, changes,
                 threads, dog, lives>>

\* SdkCard::ProfileActivated: the first one after a change of our own is ours.
ProfileActivated ==
  /\ card = "sdk" /\ activations > 0
  /\ activations' = activations - 1
  /\ self' = FALSE /\ changed' = (changed \/ ~self)
  /\ UNCHANGED <<cfg, dir, main, stages, code, obj, card, run, tries, signal, changes,
                 threads, dog, lives>>

\* SIGKILL, a power failure, or a signal before the handlers are installed.
Killed == main # "exited" /\ Gone(137)

-----------------------------------------------------------------------------
MainSteps ==
  \/ ReadConfig \/ AdoptDomain \/ WriteDomainDef \/ CreateInstance \/ OpenCard \/ NoCard
  \/ ApplyProfile \/ MakeManager \/ StartNode \/ NodeReady \/ StartAll \/ StartWeb
  \/ CheckPorts \/ LeaveLoop
  \/ StopChannels \/ StopJobs \/ NotifyWorker \/ JoinWorker \/ FreeNode \/ StopWeb
  \/ StopHousekeeping \/ DestroyInstance \/ CleanUp \/ ReleaseCard \/ Ends

Next ==
  \/ Boot \/ MainSteps \/ WatchdogFires \/ Killed
  \/ HousekeepingLoop \/ Request \/ ReadyGate \/ GateLeft \/ Answered \/ PeerBlocks
  \/ WorkerLoop \/ JobArrives \/ HandlerCalled \/ HandlerDone
  \/ Signal \/ ProfileChanges \/ ProfileActivated

Spec == Init /\ [][Next]_vars

\* Preemptively scheduled threads go on; a blocked peer or a lost wake-up has
\* no step.
FairSpec ==
  /\ Spec
  /\ WF_vars(MainSteps) /\ WF_vars(WatchdogFires)
  /\ WF_vars(HousekeepingLoop) /\ WF_vars(GateLeft) /\ WF_vars(Answered)
  /\ WF_vars(WorkerLoop) /\ WF_vars(HandlerDone) /\ WF_vars(ProfileActivated)
-----------------------------------------------------------------------------
(* Properties *)

(***************************************************************************)
(* No thread uses an object that main has destroyed, on every way out:     *)
(* after any failure of the start, and in a shutdown that any thread joins *)
(* late.  The node has two windows, and no other: the readiness gate while *)
(* a staged shutdown, which frees the node first, waits for the web thread *)
(* (GateFindsTheNode, below, does not except it), and an input channel's   *)
(* handler while an early return, which frees the node first, waits for    *)
(* the channels.                                                           *)
(***************************************************************************)
UsesAreAlive ==
  /\ hk = "beat" => "channels" \in obj
  /\ hk = "gc" => "domain" \in obj
  /\ web \in {"gate", "busy", "blocked"} =>
       {"domain", "channels"} \subseteq obj /\ card # "none"
  /\ web = "gate" => "node" \in obj \/ (dog /\ AtStage("web"))
  /\ run => {"domain", "channels"} \subseteq obj /\ card # "none"
  /\ worker = "job" => {"channels", "node"} \subseteq obj
  /\ input = "handler" => run /\ ("node" \in obj \/ (~dog /\ AtStage("channels")))

(***************************************************************************)
(* What an exit code tells the orchestrator (SPECIFICATION 3.9, 3.10): 78  *)
(* that nothing was opened, 2 that another program changed the profile or, *)
(* on a card with several managers, that this one did, whose second        *)
(* callback is taken for another program's, 143 that the process was asked *)
(* to end or that the watchdog overtook the exit with 2.  Unless it was    *)
(* forced, nothing is left open.                                           *)
(***************************************************************************)
ExitCodeTells ==
  [][ main # "exited" /\ main' = "exited" =>
        /\ code' = 78 => obj = {} /\ card = "none"
        /\ code' = 2 => changes > 0 \/ (cfg.profile /\ cfg.managers > 1)
        /\ code' = 143 => signal \/ (dog /\ code = 2)
        /\ AtStage("end") /\ code' = code =>
             obj \subseteq {"channels"} /\ card = "none" /\ ~run
             /\ hk = "off" /\ web = "off" /\ worker \in {"off", "ended"} ]_vars

(***************************************************************************)
(* The id of a domain is never replaced, whoever gave it and whenever a    *)
(* start was cut off: it goes only with its directory, at the end of a     *)
(* shutdown by signal, when nothing uses it any more.                      *)
(***************************************************************************)
DomainKeepsItsId ==
  [][ dir' # dir /\ dir \in Ids \cup {"noid"} =>
        /\ dir' = "absent" /\ code = 143 /\ signal
        /\ cfg.cleanup /\ ~cfg.root
        /\ "domain" \notin obj /\ ~run ]_vars

(***************************************************************************)
(* A shutdown ends, though a peer may block the web thread for good and    *)
(* the worker may miss its wake-up (the watchdog, main.cpp).               *)
(***************************************************************************)
ShutdownEnds == main = "running" /\ (signal \/ changed) ~> main = "exited"

-----------------------------------------------------------------------------
(* What comments and the specification say that the code does not do.      *)

\* health.hpp:28 /readyz is 503 until the function returns true, which asks
\* the node whether it is registered: the node asked is there.
GateFindsTheNode == web = "gate" => "node" \in obj

=============================================================================
