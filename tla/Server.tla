------------------------------- MODULE Server -------------------------------
(***************************************************************************)
(* One `decis serve` process: the engine's life cycle, the scheduler that  *)
(* owns its lock and its load phase, the worker threads that carry         *)
(* requests through service.answer, the lifespan that starts the loader    *)
(* thread and shuts the engine down, and a probe that polls /readyz.       *)
(*                                                                         *)
(* A step is one access to state another thread may write: the engine's    *)
(* handle (`_agent` or `_model`), its `_loaded` flag, the scheduler's      *)
(* phase, or the engine lock.                                              *)
(***************************************************************************)
CONSTANTS
    Requests,   \* the worker threads, each carrying one request at a time
    Engine,     \* which engine the process runs
    NoOne,      \* the engine lock is free
    Loader      \* the thread that loads the engine

Engines == {"laya", "kev", "jeff"}

ASSUME ServerAssumption ==
    /\ Engine \in Engines
    /\ NoOne \notin Requests
    /\ Loader \notin Requests

VARIABLES
    preload,    \* decis serve --preload
    handle,     \* the engine holds a model object
    loaded,     \* engine.loaded
    phase,      \* InProcessScheduler._phase
    loadpc,     \* where the loading thread is
    error,      \* which part of engine.load raised, "no" when none has
    holder,     \* who holds InProcessScheduler._lock
    pc,         \* where each request is
    result,     \* what each request was last answered
    abandoned,  \* requests whose task was cancelled while the thread went on
    life,       \* where the process is between create_app and its exit
    probe       \* what /readyz is about to say and last said

engineVars == <<handle, loaded>>
loadVars == <<phase, loadpc, error>>
requestVars == <<pc, result, abandoned>>
state == <<handle, loaded, phase, loadpc, error, holder, pc, result, abandoned,
           life, probe>>
vars == <<preload, state>>

Phases == {"IDLE", "LOADING", "READY", "FAILED"}
LoadSteps == {"idle", "begin", "build", "warmup", "publish", "mark", "fail", "done"}
InPredict == {"predict", "forward", "release"}
Waiting == {"gate", "status", "reconcile", "size", "sizing", "run", "wait"}
RequestSteps == {"idle", "done"} \cup Waiting \cup InPredict
\* A 503 refusal is recorded as the phase it named; the others by their cause.
Verdicts == {"none", "ok", "invalid", "overloaded", "failed", "exhausted",
             "unloaded", "torn", "crash"} \cup Phases
Lives == {"boot", "preloading", "serving", "draining", "shutdown", "joining",
          "joined", "closing", "clearing", "exited"}

Init ==
    /\ preload \in BOOLEAN
    /\ handle = FALSE /\ loaded = FALSE
    /\ phase = "IDLE" /\ loadpc = "idle" /\ error = "no"
    /\ holder = NoOne
    /\ pc = [r \in Requests |-> "idle"]
    /\ result = [r \in Requests |-> "none"]
    /\ abandoned = {}
    /\ life = "boot"
    /\ probe = [reading |-> "none", said |-> "none"]

-----------------------------------------------------------------------------
(* Loading: scheduler.load around engine.load                               *)

\* Mistake: every engine publishes itself first.
MutPublishesBeforeWarmup == TRUE

\* Laya and kev say `_loaded` after their warmup pass; jeff says it before.
PublishesBeforeWarmup == Engine = "jeff"

LoadGoes(from, to) == loadpc = from /\ loadpc' = to

\* Mistake: the phase is written before the work.
MutBeginLoad ==
    /\ LoadGoes("begin", "build")
    /\ phase' = "READY"
    /\ UNCHANGED <<engineVars, error, holder, requestVars, life, probe>>

\* scheduler.load takes the status lock: an engine already READY is left alone.
BeginLoad ==
    /\ IF phase = "READY"
       THEN LoadGoes("begin", "done") /\ UNCHANGED phase
       ELSE LoadGoes("begin", "build") /\ phase' = "LOADING"
    /\ UNCHANGED <<engineVars, error, holder, requestVars, life, probe>>

\* engine.load up to the warmup pass: the model object is in place.
BuildModel ==
    /\ LoadGoes("build", IF loaded THEN "mark" ELSE "warmup")
    /\ handle' = TRUE
    /\ loaded' = (loaded \/ PublishesBeforeWarmup)
    /\ UNCHANGED <<phase, error, holder, requestVars, life, probe>>

\* engine.load raises before the warmup: a dependency, weights or a config are
\* missing. Whether the handle was assigned depends on which step raised.
BuildFails ==
    /\ ~loaded
    /\ LoadGoes("build", "fail")
    /\ error' = "build"
    /\ handle' \in BOOLEAN
    /\ UNCHANGED <<loaded, phase, holder, requestVars, life, probe>>

\* The warmup pass is a real predict, made without the scheduler's lock.
WarmUp ==
    /\ LoadGoes("warmup", IF PublishesBeforeWarmup THEN "mark" ELSE "publish")
    /\ UNCHANGED <<engineVars, phase, error, holder, requestVars, life, probe>>

\* Nothing in engine.load takes back what it assigned before the pass raised.
WarmUpFails ==
    /\ LoadGoes("warmup", "fail")
    /\ error' = "warmup"
    /\ UNCHANGED <<engineVars, phase, holder, requestVars, life, probe>>

PublishLoaded ==
    /\ LoadGoes("publish", "mark")
    /\ loaded' = TRUE
    /\ UNCHANGED <<handle, phase, error, holder, requestVars, life, probe>>

MarkReady ==
    /\ LoadGoes("mark", "done")
    /\ phase' = "READY"
    /\ UNCHANGED <<engineVars, error, holder, requestVars, life, probe>>

\* Mistake: the failure is logged and the phase left as it was.
MutMarkFailed ==
    /\ LoadGoes("fail", "done")
    /\ UNCHANGED <<engineVars, phase, error, holder, requestVars, life, probe>>

\* Record the failure and raise; app._load_engine swallows it, --preload exits.
MarkFailed ==
    /\ LoadGoes("fail", "done")
    /\ phase' = "FAILED"
    /\ UNCHANGED <<engineVars, error, holder, requestVars, life, probe>>

LoadStep ==
    \/ BeginLoad \/ BuildModel \/ BuildFails \/ WarmUp \/ WarmUpFails
    \/ PublishLoaded \/ MarkReady \/ MarkFailed

LoaderAlive == loadpc \notin {"idle", "done"}

-----------------------------------------------------------------------------
(* Requests: routes.systemone -> service.answer -> scheduler.run            *)

Goes(r, from, to) == pc[r] = from /\ pc' = [pc EXCEPT ![r] = to]

Settles(r, from, verdict) ==
    /\ Goes(r, from, "done")
    /\ result' = [result EXCEPT ![r] = verdict]

InFlight(r) == pc[r] \notin {"idle", "done"}

\* load_status: the engine overrules a phase that has not caught up with it.
Reconciled(reading) == IF loaded THEN "READY" ELSE reading

\* A client sends a request; the port is open only while the process serves.
Send(r) ==
    /\ life = "serving"
    /\ r \notin abandoned
    /\ ~InFlight(r)
    /\ pc' = [pc EXCEPT ![r] = "gate"]
    /\ result' = [result EXCEPT ![r] = "none"]
    /\ UNCHANGED <<engineVars, loadVars, holder, abandoned, life, probe>>

\* service.answer asks `ready` before anything that touches the engine.
Gate(r) ==
    /\ Goes(r, "gate", IF loaded THEN "size" ELSE "status")
    /\ UNCHANGED <<engineVars, loadVars, holder, result, abandoned, life, probe>>

\* The refusal reads the phase under the status lock ...
ReadPhase(r) ==
    /\ Goes(r, "status", "reconcile")
    /\ result' = [result EXCEPT ![r] = phase]
    /\ UNCHANGED <<engineVars, loadVars, holder, abandoned, life, probe>>

\* ... and then asks the engine again: 503 with that phase's message.
Refuse(r) ==
    /\ Settles(r, "reconcile", Reconciled(result[r]))
    /\ UNCHANGED <<engineVars, loadVars, holder, abandoned, life, probe>>

\* prepare_request, the model name, and the start of engine.measure, which
\* estimates from characters when there is no model to ask.
Size(r) ==
    /\ \/ Settles(r, "size", "invalid")
       \/ Goes(r, "size", IF handle THEN "sizing" ELSE "run") /\ UNCHANGED result
    /\ UNCHANGED <<engineVars, loadVars, holder, abandoned, life, probe>>

\* engine.measure reads the handle again for its tokenizer: by now it may be
\* None, and the AttributeError becomes the middleware's 500.
Measure(r) ==
    /\ \/ handle /\ Settles(r, "sizing", "invalid")
       \/ handle /\ Goes(r, "sizing", "run") /\ UNCHANGED result
       \/ ~handle /\ Settles(r, "sizing", "crash")
    /\ UNCHANGED <<engineVars, loadVars, holder, abandoned, life, probe>>

Run(r) ==
    /\ Goes(r, "run", IF loaded THEN "wait" ELSE "status")
    /\ UNCHANGED <<engineVars, loadVars, holder, result, abandoned, life, probe>>

\* Mistake: the engine is entered without the lock.
MutAcquire(r) ==
    /\ Goes(r, "wait", "predict")
    /\ holder' = r
    /\ UNCHANGED <<engineVars, loadVars, result, abandoned, life, probe>>

Acquire(r) ==
    /\ holder = NoOne
    /\ Goes(r, "wait", "predict")
    /\ holder' = r
    /\ UNCHANGED <<engineVars, loadVars, result, abandoned, life, probe>>

\* Mistake: acquire() without a timeout.
MutTimeOut(r) == FALSE

\* The budget runs out while somebody else holds the engine: 429.
TimeOut(r) ==
    /\ holder # NoOne
    /\ Settles(r, "wait", "overloaded")
    /\ UNCHANGED <<engineVars, loadVars, holder, abandoned, life, probe>>

\* engine.predict raises EngineUnavailableError when there is no model.
EnterPredict(r) ==
    /\ \/ handle /\ Goes(r, "predict", "forward") /\ UNCHANGED result
       \/ /\ ~handle
          /\ Goes(r, "predict", "release")
          /\ result' = [result EXCEPT ![r] = "unloaded"]
    /\ UNCHANGED <<engineVars, loadVars, holder, abandoned, life, probe>>

\* Laya's predict works on the model it captured; kev's and jeff's read the
\* handle again on the way.
ForwardOutcomes ==
    {"ok", "failed", "exhausted"}
        \cup (IF ~handle /\ Engine # "laya" THEN {"torn"} ELSE {})

\* Mistake: out of memory, and the request path frees the model for everybody.
MutForward(r) ==
    /\ Goes(r, "forward", "release")
    /\ \E outcome \in ForwardOutcomes :
          /\ result' = [result EXCEPT ![r] = outcome]
          /\ handle' = (handle /\ outcome # "exhausted")
    /\ UNCHANGED <<loaded, loadVars, holder, abandoned, life, probe>>

Forward(r) ==
    /\ Goes(r, "forward", "release")
    /\ \E outcome \in ForwardOutcomes :
          result' = [result EXCEPT ![r] = outcome]
    /\ UNCHANGED <<engineVars, loadVars, holder, abandoned, life, probe>>

\* `finally` releases the lock whatever happened; an answer of the wrong length
\* is only noticed after that.
Release(r) ==
    /\ Goes(r, "release", "done")
    /\ holder' = NoOne
    /\ \/ UNCHANGED result
       \/ result[r] = "ok" /\ result' = [result EXCEPT ![r] = "failed"]
    /\ UNCHANGED <<engineVars, loadVars, abandoned, life, probe>>

RequestStep(r) ==
    \/ Gate(r) \/ ReadPhase(r) \/ Refuse(r) \/ Size(r) \/ Measure(r) \/ Run(r)
    \/ Acquire(r) \/ TimeOut(r) \/ EnterPredict(r) \/ Forward(r) \/ Release(r)

-----------------------------------------------------------------------------
(* The process: cli._serve, the lifespan, uvicorn's drain and _shutdown     *)

LifeGoes(from, to) == life = from /\ life' = to

\* --preload loads on the main thread before uvicorn exists.
StartPreload ==
    /\ preload
    /\ LifeGoes("boot", "preloading")
    /\ LoadGoes("idle", "begin")
    /\ UNCHANGED <<engineVars, phase, error, holder, requestVars, probe>>

\* Mistake: --preload binds whatever the load said.
MutFinishPreload ==
    /\ loadpc = "done"
    /\ LifeGoes("preloading", "serving")
    /\ UNCHANGED <<engineVars, loadVars, holder, requestVars, probe>>

\* A preload that raised exits 1 and binds nothing.
FinishPreload ==
    /\ loadpc = "done"
    /\ LifeGoes("preloading", IF error = "no" THEN "serving" ELSE "exited")
    /\ UNCHANGED <<engineVars, loadVars, holder, requestVars, probe>>

\* The lifespan starts the loader thread and lets uvicorn bind.
StartServing ==
    /\ ~preload
    /\ LifeGoes("boot", "serving")
    /\ IF ~loaded /\ phase = "IDLE"
       THEN LoadGoes("idle", "begin")
       ELSE UNCHANGED loadpc
    /\ UNCHANGED <<engineVars, phase, error, holder, requestVars, probe>>

Sigterm ==
    /\ LifeGoes("serving", "draining")
    /\ UNCHANGED <<engineVars, loadVars, holder, requestVars, probe>>

\* uvicorn waits for the requests it accepted, ...
Drained ==
    /\ \A r \in Requests : ~InFlight(r)
    /\ LifeGoes("draining", "shutdown")
    /\ UNCHANGED <<engineVars, loadVars, holder, requestVars, probe>>

\* ... for timeout_graceful_shutdown at most: then it cancels their tasks, which
\* stops nobody from running on in the thread pool.
DrainExpires ==
    /\ LifeGoes("draining", "shutdown")
    /\ abandoned' = {r \in Requests : InFlight(r)}
    /\ abandoned' # {}
    /\ UNCHANGED <<engineVars, loadVars, holder, pc, result, probe>>

\* _shutdown: a load that is still running is waited for.
BeginShutdown ==
    /\ LifeGoes("shutdown", IF ~preload /\ LoaderAlive THEN "joining" ELSE "closing")
    /\ UNCHANGED <<engineVars, loadVars, holder, requestVars, probe>>

\* Mistake: join() without the grace.
MutJoinReturns ==
    /\ ~LoaderAlive
    /\ LifeGoes("joining", "joined")
    /\ UNCHANGED <<engineVars, loadVars, holder, requestVars, probe>>

\* loader.join(grace) returns when the loader is done or the grace is over.
JoinReturns ==
    /\ LifeGoes("joining", "joined")
    /\ UNCHANGED <<engineVars, loadVars, holder, requestVars, probe>>

\* Mistake: close without asking again whether the loader is alive.
MutAfterJoin ==
    /\ LifeGoes("joined", "closing")
    /\ UNCHANGED <<engineVars, loadVars, holder, requestVars, probe>>

\* Closing now would race the loader on a half-built model: skip it.
AfterJoin ==
    /\ LifeGoes("joined", IF LoaderAlive THEN "exited" ELSE "closing")
    /\ UNCHANGED <<engineVars, loadVars, holder, requestVars, probe>>

\* engine.close takes no lock: it drops the model, then the flag.
DropModel ==
    /\ LifeGoes("closing", "clearing")
    /\ handle' = FALSE
    /\ UNCHANGED <<loaded, loadVars, holder, requestVars, probe>>

ClearLoaded ==
    /\ LifeGoes("clearing", "exited")
    /\ loaded' = FALSE
    /\ UNCHANGED <<handle, loadVars, holder, requestVars, probe>>

LifeStep ==
    \/ StartPreload \/ FinishPreload \/ StartServing
    \/ Drained \/ DrainExpires \/ BeginShutdown \/ JoinReturns \/ AfterJoin
    \/ DropModel \/ ClearLoaded

-----------------------------------------------------------------------------
(* GET /readyz, answered on the event loop                                  *)

ProbeReadsPhase ==
    /\ life = "serving"
    /\ probe.reading = "none"
    /\ probe' = [probe EXCEPT !.reading = phase]
    /\ UNCHANGED <<engineVars, loadVars, holder, requestVars, life>>

ProbeAnswers ==
    /\ life \in {"serving", "draining"}
    /\ probe.reading # "none"
    /\ probe' = [reading |-> "none", said |-> Reconciled(probe.reading)]
    /\ UNCHANGED <<engineVars, loadVars, holder, requestVars, life>>

ProbeStep == ProbeReadsPhase \/ ProbeAnswers

-----------------------------------------------------------------------------

Next ==
    /\ \/ LoadStep
       \/ \E r \in Requests : Send(r) \/ RequestStep(r)
       \/ LifeStep \/ Sigterm
       \/ ProbeStep
    /\ UNCHANGED preload

Spec == Init /\ [][Next]_vars

(* A worker thread runs on while the process lives and a forward pass ends; *)
(* the event loop gets to its next step; an orchestrator keeps polling. A    *)
(* load may hang (a download), so only LoadEnds says that it does not.       *)
ThreadsRun ==
    /\ \A r \in Requests : WF_state(life # "exited" /\ RequestStep(r))
    /\ WF_state(LifeStep)
    /\ WF_state(ProbeStep)

LoadEnds == WF_state(life # "exited" /\ LoadStep)

FairSpec == Spec /\ ThreadsRun

-----------------------------------------------------------------------------

TypeOK ==
    /\ preload \in BOOLEAN
    /\ handle \in BOOLEAN /\ loaded \in BOOLEAN
    /\ phase \in Phases /\ loadpc \in LoadSteps
    /\ error \in {"no", "build", "warmup"}
    /\ holder \in Requests \cup {NoOne}
    /\ pc \in [Requests -> RequestSteps]
    /\ result \in [Requests -> Verdicts]
    /\ abandoned \in SUBSET Requests
    /\ life \in Lives
    /\ probe \in [reading : Phases \cup {"none"}, said : Phases \cup {"none"}]

\* Who is inside engine.predict, the loader's warmup included.
Inside ==
    {r \in Requests : pc[r] \in InPredict}
        \cup (IF loadpc = "warmup" THEN {Loader} ELSE {})

\* A model is not re-entrant: exactly one thread may be inside predict at a time
\* (scheduler.py:8-10), and the warmup pass counts although it takes no lock.
OneInPredict == \A a, b \in Inside : a = b

\* Once /readyz said ready, and until the process shuts down, the warmup pass is
\* behind it and a request is served, not refused (laya.py:238-241, jeff.py:346).
ReadyMeansWarm ==
    probe.said = "READY" /\ life = "serving" =>
        /\ loaded
        /\ loadpc \in {"mark", "done"} /\ error = "no"

\* A failed load is terminal: from then on /readyz says failed and the gate
\* refuses every request (app.py:143-148, scheduler.py:59-65).
FailureIsFinal ==
    error # "no" /\ loadpc = "done" => Reconciled(phase) = "FAILED"

\* Shutdown never closes the engine under a running load (app.py:158-166).
CloseSparesLoad == life \in {"closing", "clearing"} => ~LoaderAlive

\* Only a request whose task was already cancelled can be hurt by close(), which
\* takes no lock: a client that is still waiting never gets its wreckage.
NoTeardownSeen ==
    \A r \in Requests :
        result[r] \in {"crash", "torn", "unloaded"} => r \in abandoned

\* With --preload there is no window in which a client or a probe is told to come
\* back later (tests/test_cli_serve.py:82): the port opens on a warm engine.
PreloadNeverRefuses ==
    preload =>
        /\ \A r \in Requests \ abandoned : pc[r] = "done" => result[r] \notin Phases
        /\ probe.said \in {"none", "READY"}

\* Whatever the queue for the engine, a request ends while the process lives: the
\* wait is bounded, so nobody is starved by those who keep asking.
EveryRequestSettles ==
    \A r \in Requests :
        InFlight(r) ~> ~InFlight(r) \/ life = "exited"

\* A load that hangs cannot hold up the exit: the join is bounded.
ShutdownCompletes == life = "draining" ~> life = "exited"

\* A probe that keeps asking learns how the load ended, if it ends.
ProbeLearnsOutcome ==
    LoadEnds =>
    (life = "serving" ~> probe.said \in {"READY", "FAILED"} \/ life # "serving")

-----------------------------------------------------------------------------
(* The server implements SerialEngine. The loader is one of its clients: its *)
(* question is the load, its pass is the warmup.                             *)

Settled(verdict) ==
    IF verdict \in {"ok", "failed", "exhausted", "unloaded", "torn"}
    THEN "served" ELSE "refused"

RequestStage(r) ==
    CASE pc[r] = "idle" -> "idle"
      [] pc[r] \in Waiting -> "pending"
      [] pc[r] \in InPredict -> "running"
      [] OTHER -> Settled(result[r])

LoaderStage ==
    CASE loadpc = "idle" -> "idle"
      [] loadpc \in {"begin", "build"} -> "pending"
      [] loadpc = "warmup" -> "running"
      [] OTHER -> IF error = "build" THEN "refused" ELSE "served"

Stage ==
    [c \in Requests \cup {Loader} |-> IF c = Loader THEN LoaderStage ELSE RequestStage(c)]

Serial == INSTANCE SerialEngine WITH Clients <- Requests \cup {Loader}, stage <- Stage

\* Refused means never entered, served means entered alone, exactly once.
ImplementsSerial == Serial!SerialSpec
=============================================================================
