---------------------------- MODULE ServerProofs ----------------------------
(***************************************************************************)
(* The safety of Server for any number of worker threads, for the engines  *)
(* that publish themselves after their warmup pass (laya, kev).            *)
(***************************************************************************)
EXTENDS Server, TLAPS

\* A request that service.answer let through its ready check.
PastGate == {"size", "sizing", "run", "wait"} \cup InPredict

\* The load runs once, and phase, error and `loaded` record how far it came.
LoadInv ==
    /\ life = "boot" => loadpc = "idle"
    /\ loadpc \in {"idle", "begin"} => phase = "IDLE"
    /\ loadpc \in {"warmup", "publish"} => handle
    /\ loadpc = "fail" => error # "no"
    /\ error # "no" => loadpc \in {"fail", "done"}
    /\ loadpc = "done" => phase = IF error = "no" THEN "READY" ELSE "FAILED"
    /\ phase = "READY" => loadpc = "done" /\ error = "no"
    /\ loaded => loadpc \in {"mark", "done"} /\ error = "no"

\* What was loaded stays until the process closes it, after the loader is gone.
LifeInv ==
    /\ loadpc \in {"mark", "done"} /\ error = "no" /\ life # "exited" => loaded
    /\ loaded /\ life \notin {"clearing", "exited"} => handle
    /\ CloseSparesLoad
    /\ preload /\ life \notin {"boot", "preloading"} => loadpc = "done"
    /\ preload /\ life \notin {"boot", "preloading", "exited"} => error = "no"
    /\ life \in {"boot", "preloading", "serving", "draining"} => abandoned = {}

RequestInv ==
    \A r \in Requests :
        /\ holder = r <=> pc[r] \in InPredict
        /\ pc[r] \in PastGate => loadpc \in {"mark", "done"} /\ error = "no"
        /\ InFlight(r) /\ r \notin abandoned => life \in {"serving", "draining"}
        /\ result[r] \in {"crash", "torn", "unloaded"} => r \in abandoned
        /\ pc[r] = "reconcile" => result[r] \in Phases
        /\ pc[r] = "release" => Settled(result[r]) = "served"

ProbeInv ==
    /\ probe.reading = "READY" => phase = "READY"
    /\ probe.said = "READY" => loadpc \in {"mark", "done"} /\ error = "no"

\* A preloaded engine stays loaded as long as somebody waits for an answer.
PreloadInv ==
    preload =>
        /\ \A r \in Requests \ abandoned :
              pc[r] \notin {"status", "reconcile"} /\ result[r] \notin Phases
        /\ probe.reading \in {"none", "READY"} /\ probe.said \in {"none", "READY"}

IInv == TypeOK /\ LoadInv /\ LifeInv /\ RequestInv /\ ProbeInv /\ PreloadInv

-----------------------------------------------------------------------------

LEMMA InitHolds == Init => IInv
<1> SUFFICES ASSUME Init PROVE IInv
  OBVIOUS
<1>1. TypeOK
  BY DEF Init, TypeOK, Phases, LoadSteps, RequestSteps, Verdicts, Lives
<1>2. LoadInv /\ LifeInv /\ ProbeInv
  BY DEF Init, LoadInv, LifeInv, ProbeInv, CloseSparesLoad
<1>3. RequestInv
  BY ServerAssumption DEF Init, RequestInv, PastGate, InPredict, InFlight
<1>4. PreloadInv
  BY DEF Init, PreloadInv, Phases
<1> QED BY <1>1, <1>2, <1>3, <1>4 DEF IInv

LEMMA LoadPreserves ==
    ASSUME IInv, LoadStep, UNCHANGED preload, Engine # "jeff" PROVE IInv'
<1> USE DEF LoadGoes, engineVars, requestVars
<1> USE DEF LoadStep, BeginLoad, BuildModel, BuildFails, WarmUp, WarmUpFails,
            PublishLoaded, MarkReady, MarkFailed, PublishesBeforeWarmup
<1>1. TypeOK'
  BY DEF IInv, TypeOK, Phases, LoadSteps
<1>2. LoadInv'
  BY DEF IInv, TypeOK, LoadInv
<1>3. LifeInv'
  BY DEF IInv, TypeOK, LoadInv, LifeInv, CloseSparesLoad, LoaderAlive
<1>4. RequestInv'
  BY DEF IInv, LoadInv, RequestInv, InFlight
<1>5. ProbeInv' /\ PreloadInv'
  BY DEF IInv, LoadInv, ProbeInv, PreloadInv
<1> QED BY <1>1, <1>2, <1>3, <1>4, <1>5 DEF IInv

LEMMA RequestPreserves ==
    ASSUME IInv, NEW r \in Requests, Send(r) \/ RequestStep(r), UNCHANGED preload,
           Engine # "jeff"
    PROVE  IInv'
<1> USE DEF Goes, Settles, engineVars, loadVars
<1> USE DEF RequestStep, Send, Gate, ReadPhase, Refuse, Size, Measure, Run,
            Acquire, TimeOut, EnterPredict, Forward, ForwardOutcomes, Release
<1>1. TypeOK'
  BY DEF IInv, TypeOK, RequestSteps, Verdicts, Phases, Waiting, InPredict, Reconciled
<1>2. LoadInv' /\ LifeInv' /\ ProbeInv'
  BY DEF IInv, LoadInv, LifeInv, ProbeInv, CloseSparesLoad, LoaderAlive
<1>3. RequestInv'
  <2> SUFFICES ASSUME NEW q \in Requests PROVE RequestInv!(q)'
    BY DEF RequestInv
  <2>1. CASE q = r
    BY <2>1, ServerAssumption
    DEF IInv, TypeOK, LoadInv, LifeInv, RequestInv, PastGate, InPredict, InFlight, Phases,
        Reconciled, Settled
  <2>2. CASE q # r
    BY <2>2, ServerAssumption
    DEF IInv, TypeOK, RequestInv, PastGate, InPredict, InFlight
  <2> QED BY <2>1, <2>2
<1>4. PreloadInv'
  <2> SUFFICES ASSUME preload, NEW q \in Requests \ abandoned
               PROVE  (pc[q] \notin {"status", "reconcile"} /\ result[q] \notin Phases)'
    BY DEF IInv, PreloadInv
  <2>1. CASE q = r
    <3>1. InFlight(q) => loaded
      BY DEF IInv, LifeInv, RequestInv
    <3> QED BY <2>1, <3>1 DEF IInv, TypeOK, PreloadInv, InFlight, Phases
  <2>2. CASE q # r
    BY <2>2 DEF IInv, TypeOK, PreloadInv
  <2> QED BY <2>1, <2>2
<1> QED BY <1>1, <1>2, <1>3, <1>4 DEF IInv

LEMMA LifePreserves ==
    ASSUME IInv, LifeStep \/ Sigterm, UNCHANGED preload PROVE IInv'
<1> USE DEF LifeGoes, LoadGoes, engineVars, loadVars, requestVars
<1> USE DEF LifeStep, Sigterm, StartPreload, FinishPreload, StartServing, Drained,
            DrainExpires, BeginShutdown, JoinReturns, AfterJoin, DropModel, ClearLoaded
<1>1. TypeOK'
  BY DEF IInv, TypeOK, LoadSteps, Lives
<1>2. LoadInv'
  BY DEF IInv, LoadInv, LifeInv, CloseSparesLoad, LoaderAlive
<1>3. LifeInv'
  BY DEF IInv, TypeOK, LoadInv, LifeInv, CloseSparesLoad, LoaderAlive
<1>4. RequestInv'
  <2> SUFFICES ASSUME NEW q \in Requests PROVE RequestInv!(q)'
    BY DEF RequestInv
  <2>1. CASE DrainExpires
    BY <2>1 DEF IInv, LifeInv, RequestInv, InFlight
  <2>2. CASE StartPreload \/ StartServing
    BY <2>2 DEF IInv, LoadInv, RequestInv, InFlight
  <2>3. CASE ~DrainExpires /\ ~StartPreload /\ ~StartServing
    BY <2>3 DEF IInv, RequestInv, InFlight
  <2> QED BY <2>1, <2>2, <2>3
<1>5. ProbeInv'
  BY DEF IInv, LoadInv, ProbeInv
<1>6. PreloadInv'
  BY DEF IInv, LifeInv, PreloadInv
<1> QED BY <1>1, <1>2, <1>3, <1>4, <1>5, <1>6 DEF IInv

LEMMA ProbePreserves == ASSUME IInv, ProbeStep, UNCHANGED preload PROVE IInv'
<1> USE DEF ProbeStep, ProbeReadsPhase, ProbeAnswers, engineVars, loadVars, requestVars
<1>1. TypeOK'
  BY DEF IInv, TypeOK, Phases, Reconciled
<1>2. LoadInv' /\ LifeInv' /\ RequestInv'
  BY DEF IInv, LoadInv, LifeInv, RequestInv, CloseSparesLoad, LoaderAlive, InFlight
<1>3. ProbeInv'
  BY DEF IInv, TypeOK, LoadInv, ProbeInv, Reconciled, Phases
<1>4. PreloadInv'
  BY DEF IInv, TypeOK, LoadInv, LifeInv, PreloadInv, Reconciled
<1> QED BY <1>1, <1>2, <1>3, <1>4 DEF IInv

LEMMA NextPreserves ==
    ASSUME IInv, [Next]_vars, Engine # "jeff" PROVE IInv'
<1>1. CASE UNCHANGED vars
  BY <1>1 DEF IInv, TypeOK, LoadInv, LifeInv, RequestInv, ProbeInv, PreloadInv,
              CloseSparesLoad, LoaderAlive, InFlight, vars, state
<1> QED
  BY <1>1, LoadPreserves, RequestPreserves, LifePreserves, ProbePreserves DEF Next

\* IInv is an invariant of every engine that warms up before it says `loaded`.
THEOREM Invariance == Engine # "jeff" /\ Spec => []IInv
<1> SUFFICES ASSUME Engine # "jeff" PROVE Spec => []IInv
  OBVIOUS
<1>1. Init => IInv
  BY InitHolds
<1>2. IInv /\ [Next]_vars => IInv'
  BY NextPreserves
<1> QED BY <1>1, <1>2, PTL DEF Spec

\* The state has the types the code declares, for any number of threads.
THEOREM TypeCorrect == Engine # "jeff" /\ Spec => []TypeOK
<1>1. IInv => TypeOK
  BY DEF IInv
<1> QED BY <1>1, Invariance, PTL

\* scheduler.py:8-10: never two threads inside predict, the warmup included.
THEOREM MutualExclusion == Engine # "jeff" /\ Spec => []OneInPredict
<1>1. IInv => OneInPredict
  <2> SUFFICES ASSUME IInv, NEW a \in Inside, NEW b \in Inside PROVE a = b
    BY DEF OneInPredict
  <2>1. CASE loadpc = "warmup"
    BY <2>1 DEF IInv, RequestInv, PastGate, Inside
  <2>2. CASE loadpc # "warmup"
    BY <2>2 DEF IInv, RequestInv, Inside
  <2> QED BY <2>1, <2>2
<1> QED BY <1>1, Invariance, PTL

\* laya.py:238-241: a probe that was told ready is talking to a warm engine.
THEOREM ReadyIsWarm == Engine # "jeff" /\ Spec => []ReadyMeansWarm
<1>1. IInv => ReadyMeansWarm
  BY DEF IInv, LifeInv, ProbeInv, ReadyMeansWarm
<1> QED BY <1>1, Invariance, PTL

\* app.py:143-148: nothing revives an engine whose load failed.
THEOREM FailureStays == Engine # "jeff" /\ Spec => []FailureIsFinal
<1>1. IInv => FailureIsFinal
  BY DEF IInv, LoadInv, FailureIsFinal, Reconciled
<1> QED BY <1>1, Invariance, PTL

\* app.py:158-166: the engine is closed by nobody while it is being loaded.
THEOREM CloseIsAfterLoad == Engine # "jeff" /\ Spec => []CloseSparesLoad
<1>1. IInv => CloseSparesLoad
  BY DEF IInv, LifeInv
<1> QED BY <1>1, Invariance, PTL

\* close() takes no lock, and still no waiting client is answered from a torn engine.
THEOREM TeardownIsUnseen == Engine # "jeff" /\ Spec => []NoTeardownSeen
<1>1. IInv => NoTeardownSeen
  BY DEF IInv, RequestInv, NoTeardownSeen
<1> QED BY <1>1, Invariance, PTL

\* tests/test_cli_serve.py:82: behind --preload nobody is told to come back later.
THEOREM PreloadRefusesNobody == Engine # "jeff" /\ Spec => []PreloadNeverRefuses
<1>1. IInv => PreloadNeverRefuses
  BY DEF IInv, PreloadInv, PreloadNeverRefuses
<1> QED BY <1>1, Invariance, PTL

-----------------------------------------------------------------------------
(* Refinement: the server is a SerialEngine for its threads and its loader.  *)

LEMMA LoadRefines ==
    ASSUME IInv, LoadStep, Engine # "jeff"
    PROVE  Serial!SerialNext \/ Stage' = Stage
<1> USE DEF LoadGoes, engineVars, requestVars
<1> USE DEF LoadStep, BeginLoad, BuildModel, BuildFails, WarmUp, WarmUpFails,
            PublishLoaded, MarkReady, MarkFailed, PublishesBeforeWarmup
<1>1. \A r \in Requests : RequestStage(r)' = RequestStage(r)
  BY DEF RequestStage, Settled
<1>2. Stage' = [Stage EXCEPT ![Loader] = LoaderStage']
  BY <1>1 DEF Stage
<1>3. Stage[Loader] = LoaderStage
  BY DEF Stage
<1>4. CASE LoaderStage' = LoaderStage
  BY <1>2, <1>3, <1>4 DEF Stage
<1>5. CASE BuildModel
  <2>1. LoaderStage = "pending" /\ LoaderStage' = "running"
    BY <1>5 DEF LoaderStage, IInv, LoadInv
  <2>2. \A c \in Requests : Stage[c] # "running"
    BY <1>5, ServerAssumption
    DEF Stage, RequestStage, Settled, IInv, RequestInv, PastGate
  <2>3. Serial!Enter(Loader)
    BY <1>2, <1>3, <2>1, <2>2 DEF Serial!Enter, Serial!MoveTo
  <2> QED BY <2>3 DEF Serial!SerialNext
<1>6. CASE BuildFails
  <2>1. LoaderStage = "pending" /\ LoaderStage' = "refused"
    BY <1>6 DEF LoaderStage
  <2>2. Serial!Refuse(Loader)
    BY <1>2, <1>3, <2>1 DEF Serial!Refuse, Serial!MoveTo
  <2> QED BY <2>2 DEF Serial!SerialNext
<1>7. CASE WarmUp \/ WarmUpFails
  <2>1. LoaderStage = "running" /\ LoaderStage' = "served"
    BY <1>7 DEF LoaderStage, IInv, LoadInv
  <2>2. Serial!Leave(Loader)
    BY <1>2, <1>3, <2>1 DEF Serial!Leave, Serial!MoveTo
  <2> QED BY <2>2 DEF Serial!SerialNext
<1>8. CASE BeginLoad \/ PublishLoaded \/ MarkReady \/ MarkFailed
  <2>1. LoaderStage' = LoaderStage
    BY <1>8 DEF LoaderStage, IInv, LoadInv
  <2> QED BY <2>1, <1>4
<1> QED BY <1>5, <1>6, <1>7, <1>8

LEMMA RequestRefines ==
    ASSUME IInv, NEW r \in Requests, Send(r) \/ RequestStep(r)
    PROVE  Serial!SerialNext \/ Stage' = Stage
<1> USE DEF Goes, Settles, engineVars, loadVars
<1> USE DEF RequestStep, Send, Gate, ReadPhase, Refuse, Size, Measure, Run,
            Acquire, TimeOut, EnterPredict, Forward, ForwardOutcomes, Release
<1>1. LoaderStage' = LoaderStage
  BY DEF LoaderStage
<1>2. \A q \in Requests \ {r} : RequestStage(q)' = RequestStage(q)
  BY DEF RequestStage, Settled, IInv, TypeOK
<1>3. r # Loader /\ Stage' = [Stage EXCEPT ![r] = RequestStage(r)']
  BY <1>1, <1>2, ServerAssumption DEF Stage
<1>4. Stage[r] = RequestStage(r)
  BY <1>3 DEF Stage
<1>5. CASE RequestStage(r)' = RequestStage(r)
  BY <1>3, <1>4, <1>5 DEF Stage
<1>6. CASE Send(r)
  <2>1. RequestStage(r) \in {"idle", "served", "refused"}
    BY <1>6 DEF RequestStage, Settled, InFlight, IInv, TypeOK, Waiting, InPredict
  <2>2. RequestStage(r)' = "pending"
    BY <1>6 DEF RequestStage, Waiting, InPredict, IInv, TypeOK
  <2>3. Serial!Ask(r)
    BY <1>3, <1>4, <2>1, <2>2 DEF Serial!Ask, Serial!MoveTo
  <2> QED BY <2>3 DEF Serial!SerialNext
<1>7. CASE Gate(r) \/ ReadPhase(r) \/ Run(r)
  <2>1. RequestStage(r)' = RequestStage(r)
    BY <1>7 DEF RequestStage, Waiting, InPredict, IInv, TypeOK
  <2> QED BY <2>1, <1>5
<1>8. CASE Refuse(r) \/ TimeOut(r) \/ Size(r) \/ Measure(r)
  <2>1. CASE pc'[r] # "done"
    <3>1. RequestStage(r)' = RequestStage(r)
      BY <1>8, <2>1 DEF RequestStage, Waiting, InPredict, IInv, TypeOK
    <3> QED BY <3>1, <1>5
  <2>2. CASE pc'[r] = "done"
    <3>1. RequestStage(r) = "pending"
      BY <1>8, <2>2 DEF RequestStage, Waiting, InPredict, IInv, TypeOK
    <3>2. Settled(result'[r]) = "refused"
      <4>1. CASE Refuse(r)
        <5>1. result[r] \in Phases
          BY <4>1 DEF IInv, RequestInv
        <5> QED BY <5>1, <4>1 DEF Settled, Reconciled, Phases, IInv, TypeOK
      <4>2. CASE TimeOut(r) \/ Size(r) \/ Measure(r)
        BY <4>2, <2>2 DEF Settled, IInv, TypeOK, Waiting
      <4> QED BY <4>1, <4>2, <1>8
    <3>3. RequestStage(r)' = "refused"
      BY <3>2, <2>2 DEF RequestStage, Waiting, InPredict, Settled
    <3>4. Serial!Refuse(r)
      BY <1>3, <1>4, <3>1, <3>3 DEF Serial!Refuse, Serial!MoveTo
    <3> QED BY <3>4 DEF Serial!SerialNext
  <2> QED BY <2>1, <2>2
<1>9. CASE Acquire(r)
  <2>1. RequestStage(r) = "pending" /\ RequestStage(r)' = "running"
    BY <1>9 DEF RequestStage, Waiting, InPredict, IInv, TypeOK
  <2>2. \A q \in Requests : RequestStage(q) # "running"
    BY <1>9, ServerAssumption DEF RequestStage, Settled, IInv, RequestInv
  <2>3. LoaderStage # "running"
    BY <1>9 DEF LoaderStage, IInv, RequestInv, PastGate
  <2>4. \A c \in Requests \cup {Loader} : Stage[c] # "running"
    BY <2>2, <2>3 DEF Stage
  <2>5. Serial!Enter(r)
    BY <1>3, <1>4, <2>1, <2>4 DEF Serial!Enter, Serial!MoveTo
  <2> QED BY <2>5 DEF Serial!SerialNext
<1>10. CASE EnterPredict(r) \/ Forward(r)
  <2>1. RequestStage(r)' = RequestStage(r)
    BY <1>10 DEF RequestStage, Waiting, InPredict, IInv, TypeOK
  <2> QED BY <2>1, <1>5
<1>11. CASE Release(r)
  <2>1. RequestStage(r) = "running"
    BY <1>11 DEF RequestStage, Waiting, InPredict, IInv, TypeOK
  <2>2. Settled(result'[r]) = "served"
    BY <1>11 DEF Settled, IInv, TypeOK, RequestInv
  <2>3. RequestStage(r)' = "served"
    BY <1>11, <2>2 DEF RequestStage, Waiting, InPredict, Settled, IInv, TypeOK
  <2>4. Serial!Leave(r)
    BY <1>3, <1>4, <2>1, <2>3 DEF Serial!Leave, Serial!MoveTo
  <2> QED BY <2>4 DEF Serial!SerialNext
<1> QED BY <1>6, <1>7, <1>8, <1>9, <1>10, <1>11

LEMMA LifeRefines ==
    ASSUME IInv, LifeStep \/ Sigterm \/ ProbeStep
    PROVE  Serial!SerialNext \/ Stage' = Stage
<1> USE DEF LifeStep, Sigterm, StartPreload, FinishPreload, StartServing, Drained,
            DrainExpires, BeginShutdown, JoinReturns, AfterJoin, DropModel, ClearLoaded,
            ProbeStep, ProbeReadsPhase, ProbeAnswers, LoadGoes, loadVars, requestVars
<1>1. \A r \in Requests : RequestStage(r)' = RequestStage(r)
  BY DEF RequestStage, Settled
<1>2. CASE UNCHANGED loadVars
  <2>1. LoaderStage' = LoaderStage
    BY <1>2 DEF LoaderStage
  <2> QED BY <1>1, <2>1 DEF Stage
<1>3. CASE loadpc = "idle" /\ loadpc' = "begin"
  <2>1. LoaderStage = "idle" /\ LoaderStage' = "pending"
    BY <1>3 DEF LoaderStage
  <2>2. Stage[Loader] = "idle" /\ Stage' = [Stage EXCEPT ![Loader] = "pending"]
    BY <1>1, <2>1 DEF Stage
  <2>3. Serial!Ask(Loader)
    BY <2>2 DEF Serial!Ask, Serial!MoveTo
  <2> QED BY <2>3 DEF Serial!SerialNext
<1> QED BY <1>2, <1>3

\* scheduler.py:8-20: the server does what SerialEngine promises, whatever the
\* number of threads: refused means never entered, served means entered alone.
THEOREM Implementation == Engine # "jeff" /\ Spec => ImplementsSerial
<1> SUFFICES ASSUME Engine # "jeff" PROVE Spec => ImplementsSerial
  OBVIOUS
<1>1. Init => Serial!SerialInit
  <2> SUFFICES ASSUME Init PROVE Serial!SerialInit
    OBVIOUS
  <2>1. LoaderStage = "idle" /\ \A r \in Requests : RequestStage(r) = "idle"
    BY DEF Init, RequestStage, LoaderStage, Waiting, InPredict
  <2> QED BY <2>1 DEF Stage, Serial!SerialInit
<1>2. IInv /\ [Next]_vars => [Serial!SerialNext]_Stage
  <2> SUFFICES ASSUME IInv, [Next]_vars PROVE Serial!SerialNext \/ Stage' = Stage
    OBVIOUS
  <2>1. CASE UNCHANGED vars
    BY <2>1 DEF vars, state, Stage, RequestStage, LoaderStage, Settled
  <2> QED BY <2>1, LoadRefines, RequestRefines, LifeRefines DEF Next
<1> QED BY <1>1, <1>2, Invariance, PTL DEF Spec, ImplementsSerial, Serial!SerialSpec
=============================================================================
