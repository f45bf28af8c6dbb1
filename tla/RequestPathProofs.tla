-------------------------- MODULE RequestPathProofs --------------------------
(***************************************************************************)
(* What RequestPath promises callers, for any requests, configurations and *)
(* limits; and, in its second part, that the capacity check draws its line *)
(* exactly where the engines cut: first laya's arithmetic (Capacity), then *)
(* the three engines, then the answers that requests are given.            *)
(***************************************************************************)
EXTENDS RequestPath, FiniteSetTheorems, TLAPS

Steps == {"idle", "middleware", "models", "systemone", "resolve", "measure", "run",
          "answered"}
Causes == {"none", "no_credential", "wrong_key", "uncompared", "too_large", "malformed", "not_loaded",
           "unknown_model", "other_model", "internal", "capacity", "encoding", "models", "answered"}
Answers == [code : {0, 200, 401, 403, 413, 422, 500, 503}, cause : Causes,
            engine : Engines \cup {NoEngine}, substituted : BOOLEAN]

\* The shape of the state; a process that is down handles no request.
ShapeInv ==
    /\ server \in {Down} \cup [life : Lives, engine : Engines, config : Configs]
    /\ exchange \in [at : Steps, request : Requests \cup {{}}, answer : Answers]
    /\ exchange.at # "answered" => exchange.answer = NoAnswer
    /\ exchange.at # "idle" => exchange.request \in Requests
    /\ server = Down => exchange = Idle
    /\ server # Down => SafeToServe(server.config)

\* An answer that is no decision, and the two of the middleware.
Refusal(code, cause) ==
    [code |-> code, cause |-> cause, engine |-> NoEngine, substituted |-> FALSE]

KeyRefusal(reason) == Refusal(Codes[reason], reason)

\* Why a credential is refused, if it is.
ReasonFor(credential) ==
    CASE credential = "none"  -> "no_credential"
      [] credential = "ascii" -> "wrong_key"
      [] OTHER                -> "uncompared"

\* Past the middleware there is an accepted key, or the answer says that there is none.
KeyInv ==
    /\ exchange.at \notin {"idle", "middleware"} =>
          LET refusal == AuthRefusal(exchange.request.header, server.config)
          IN  \/ refusal = "no"
              \/ exchange.at = "answered" /\ exchange.answer = KeyRefusal(refusal)
    /\ \A t \in told :
          t.answer = KeyRefusal(ReasonFor(t.credential))

\* The model is settled before the engine is asked.
Accepts(model) ==
    \/ Canonical(model) = server.engine
    \/ Canonical(model) = NoEngine /\ IsForeignDefault(model)

NameInv ==
    /\ exchange.at \in {"measure", "run"} => Accepts(exchange.request.model)
    /\ exchange.answer.cause = "answered" =>
          /\ Accepts(exchange.request.model)
          /\ exchange.answer.engine = server.engine
          /\ exchange.answer.substituted = (Canonical(exchange.request.model) = NoEngine)
    /\ exchange.answer.cause # "answered" => ~exchange.answer.substituted
    /\ exchange.answer.cause = "unknown_model" => Canonical(exchange.request.model) = NoEngine
    /\ exchange.answer.cause = "other_model" =>
          Canonical(exchange.request.model) # server.engine
    /\ given \subseteq {ModelId(e) : e \in Engines}

IInv == ShapeInv /\ KeyInv /\ NameInv

-----------------------------------------------------------------------------

\* A name of the form that responses carry is the engine it was made from.
LEMMA ModelIdIsKnown == \A e \in Engines : Canonical(ModelId(e)) = e
<1> SUFFICES ASSUME NEW e \in Engines PROVE Canonical(ModelId(e)) = e
  OBVIOUS
<1>1. {f \in Engines : ~ModelId(e).upper /\ ModelId(e).base \in Registered[f]} = {e}
  BY DEF ModelId, Registered, Engines
<1> QED BY <1>1 DEF Canonical

LEMMA IdleShape == Idle \in [at : Steps, request : Requests \cup {{}}, answer : Answers]
<1>1. NoAnswer \in Answers
  BY DEF NoAnswer, Answers, Causes
<1> QED BY <1>1 DEF Idle, Steps

LEMMA InitHolds == Init => IInv
<1> SUFFICES ASSUME Init PROVE IInv
  OBVIOUS
<1>1. ShapeInv
  <2>1. exchange.at = "idle" /\ exchange.answer = NoAnswer
    BY DEF Init, Idle
  <2> QED BY <2>1, IdleShape DEF Init, ShapeInv
<1>2. KeyInv
  BY DEF Init, KeyInv, Idle
<1>3. NameInv
  BY DEF Init, NameInv, Idle, NoAnswer
<1> QED BY <1>1, <1>2, <1>3 DEF IInv

\* A refusal depends on the credential, and on whether the keys can be compared with it.
LEMMA RefusalNames ==
    ASSUME NEW header, NEW config, AuthRefusal(header, config) # "no"
    PROVE  AuthRefusal(header, config) = ReasonFor(Credential(header, config))
<1>1. ~Comparable(header, config) <=>
          header.token \in NonAscii \/ ApiKeys(config) \cap NonAscii # {}
  BY DEF Comparable
<1> QED BY <1>1 DEF AuthRefusal, ReasonFor, Credential

LEMMA ProcessPreserves == ASSUME IInv, Serve \/ LoadEnds \/ Stop PROVE IInv'
<1>1. CASE Serve
  BY <1>1 DEF Serve, IInv, ShapeInv, KeyInv, NameInv, Idle, NoAnswer, Down, Lives, Accepts
<1>2. CASE LoadEnds
  BY <1>2 DEF LoadEnds, IInv, ShapeInv, KeyInv, NameInv, Down, Lives, Accepts
<1>3. CASE Stop
  BY <1>3 DEF Stop, IInv, ShapeInv, KeyInv, NameInv, Idle, NoAnswer, Down, Accepts
<1> QED BY <1>1, <1>2, <1>3

LEMMA ClientPreserves == ASSUME IInv, Ask \/ Take PROVE IInv'
<1>1. CASE Ask
  <2>1. PICK r \in Requests : exchange' = [Idle EXCEPT !.at = "middleware", !.request = r]
    BY <1>1 DEF Ask
  <2>2. exchange' = [at |-> "middleware", request |-> r, answer |-> NoAnswer]
    BY <2>1 DEF Idle
  <2>3. ShapeInv'
    BY <1>1, <2>2, IdleShape DEF Ask, IInv, ShapeInv, Idle, Steps
  <2>4. KeyInv' /\ NameInv'
    BY <1>1, <2>2 DEF Ask, IInv, KeyInv, NameInv, NoAnswer
  <2> QED BY <2>3, <2>4 DEF IInv
<1>2. CASE Take
  <2>1. ShapeInv'
    <3>1. exchange'.at = "idle" /\ exchange'.answer = NoAnswer
      BY <1>2 DEF Take, Idle
    <3> QED BY <1>2, <3>1, IdleShape DEF Take, IInv, ShapeInv
  <2>2. KeyInv'
    BY <1>2, RefusalNames DEF Take, Told, Stranger, IInv, KeyInv, Idle
  <2>3. NameInv'
    <3>1. server # Down
      BY <1>2 DEF Take, IInv, ShapeInv, Idle
    <3>2. NamesIn(exchange.answer) \subseteq {ModelId(e) : e \in Engines}
      BY <3>1 DEF NamesIn, IInv, ShapeInv
    <3> QED BY <1>2, <3>2 DEF Take, IInv, NameInv, Idle, NoAnswer
  <2> QED BY <2>1, <2>2, <2>3 DEF IInv
<1> QED BY <1>1, <1>2

\* Every refusal, wherever it comes from.
LEMMA ReplyPreserves ==
    ASSUME IInv, NEW code \in {200, 401, 403, 413, 422, 500, 503},
           NEW cause \in Causes \ {"answered"}, Reply(code, cause),
           exchange.at \notin {"idle", "answered"}, UNCHANGED <<server, told, given>>,
           LET refusal == AuthRefusal(exchange.request.header, server.config)
           IN  refusal # "no" => Refusal(code, cause) = KeyRefusal(refusal),
           cause = "unknown_model" => Canonical(exchange.request.model) = NoEngine,
           cause = "other_model" => Canonical(exchange.request.model) # server.engine
    PROVE  IInv'
<1>1. exchange' = [at |-> "answered", request |-> exchange.request,
                   answer |-> Refusal(code, cause)]
  BY DEF IInv, ShapeInv, Reply, Refusal, NoAnswer
<1>2. Refusal(code, cause) \in Answers
  BY DEF Refusal, Answers
<1>3. ShapeInv'
  BY <1>1, <1>2 DEF IInv, ShapeInv, Idle, Steps
<1>4. KeyInv'
  BY <1>1 DEF IInv, KeyInv
<1>5. NameInv'
  BY <1>1 DEF IInv, NameInv, Refusal
<1> QED BY <1>3, <1>4, <1>5 DEF IInv

\* Every step that goes on to the next one.
LEMMA MovePreserves ==
    ASSUME IInv, NEW step \in Steps \ {"idle", "answered"}, MoveTo(step),
           exchange.at \notin {"idle", "answered"}, UNCHANGED <<server, told, given>>,
           AuthRefusal(exchange.request.header, server.config) = "no",
           step \in {"measure", "run"} => Accepts(exchange.request.model)
    PROVE  IInv'
<1>1. exchange' = [at |-> step, request |-> exchange.request, answer |-> NoAnswer]
  BY DEF IInv, ShapeInv, MoveTo
<1>2. ShapeInv'
  BY <1>1, IdleShape DEF IInv, ShapeInv, Idle
<1>3. KeyInv'
  BY <1>1 DEF IInv, KeyInv
<1>4. NameInv'
  BY <1>1 DEF IInv, NameInv, NoAnswer, Accepts
<1> QED BY <1>2, <1>3, <1>4 DEF IInv

LEMMA HandlerPreserves ==
    ASSUME IInv, Middleware \/ Models \/ Validate \/ Resolve \/ Measure \/ Run PROVE IInv'
<1> DEFINE refusal == AuthRefusal(exchange.request.header, server.config)
<1> USE DEF At
<1>1. CASE Middleware
  <2>1. CASE refusal # "no"
    <3>1. refusal \in {"no_credential", "wrong_key", "uncompared"}
          /\ Codes[refusal] \in {401, 403, 500}
      BY <2>1 DEF AuthRefusal, Codes
    <3>2. Reply(Codes[refusal], refusal)
      BY <1>1, <2>1 DEF Middleware
    <3> QED BY <1>1, <2>1, <3>1, <3>2, ReplyPreserves DEF Middleware, KeyRefusal, Causes
  <2>2. CASE refusal = "no" /\ exchange.request.body = "large"
    BY <1>1, <2>2, ReplyPreserves DEF Middleware, Causes
  <2>3. CASE refusal = "no" /\ exchange.request.body # "large"
    <3>1. exchange.request \in Requests
      BY <1>1 DEF Middleware, IInv, ShapeInv
    <3>2. exchange.request.path \in Steps \ {"idle", "answered", "measure", "run"}
      BY <3>1, RequestAssumption DEF Steps
    <3> QED BY <1>1, <2>3, <3>2, MovePreserves DEF Middleware
  <2> QED BY <2>1, <2>2, <2>3
<1>2. CASE ~Middleware
  <2>1. refusal = "no"
    BY <1>2 DEF IInv, KeyInv, Models, Validate, Resolve, Measure, Run
  <2>2. CASE Models
    BY <2>1, <2>2, ReplyPreserves DEF Models, Causes
  <2>3. CASE Validate
    BY <2>1, <2>3, ReplyPreserves, MovePreserves DEF Validate, Causes, Steps
  <2>4. CASE Resolve
    BY <2>1, <2>4, ReplyPreserves, MovePreserves DEF Resolve, Causes, Steps, Accepts
  <2>5. CASE Measure
    <3>1. Accepts(exchange.request.model)
      BY <2>5 DEF Measure, IInv, NameInv
    <3> QED
      BY <2>1, <2>5, <3>1, ReplyPreserves, MovePreserves DEF Measure, Causes, Steps
  <2> DEFINE raises == EncodeRaises(server.engine, exchange.request)
  <2>6. CASE Run /\ raises
    <3>1. Accepts(exchange.request.model)
      BY <2>6 DEF Run, IInv, NameInv
    <3> QED BY <2>1, <2>6, <3>1, ReplyPreserves DEF Run, Causes
  <2>7. CASE Run /\ ~raises
    <3> DEFINE a == [code |-> 200, cause |-> "answered", engine |-> server.engine,
                     substituted |-> Canonical(exchange.request.model) = NoEngine]
    <3>1. exchange' = [at |-> "answered", request |-> exchange.request, answer |-> a]
      <4> HIDE DEF a, raises
      <4>1. exchange' = [exchange EXCEPT !.at = "answered", !.answer = a]
        BY <2>7 DEF Run, raises, a
      <4> QED BY <4>1 DEF IInv, ShapeInv
    <3>2. server # Down
      BY <2>7 DEF Run, IInv, ShapeInv, Idle
    <3>3. server.engine \in Engines /\ a \in Answers
      BY <3>2 DEF IInv, ShapeInv, Answers, Causes
    <3>4. ShapeInv'
      <4> HIDE DEF a
      <4>1. exchange.request \in Requests /\ UNCHANGED server
        BY <2>7 DEF Run, IInv, ShapeInv
      <4>2. exchange' \in [at : Steps, request : Requests \cup {{}}, answer : Answers]
        BY <3>1, <3>3, <4>1 DEF Steps
      <4>3. exchange'.at = "answered" /\ exchange'.request \in Requests
        BY <3>1, <4>1
      <4> QED BY <3>2, <4>1, <4>2, <4>3 DEF IInv, ShapeInv
    <3>5. KeyInv'
      BY <2>1, <2>7, <3>1 DEF Run, IInv, KeyInv
    <3>6. NameInv'
      BY <2>7, <3>1 DEF Run, IInv, NameInv, Accepts
    <3> QED BY <3>4, <3>5, <3>6 DEF IInv
  <2> QED BY <1>2, <2>2, <2>3, <2>4, <2>5, <2>6, <2>7
<1> QED BY <1>1, <1>2

LEMMA NextPreserves == IInv /\ [Next]_vars => IInv'
<1>1. ASSUME IInv, UNCHANGED vars PROVE IInv'
  BY <1>1 DEF vars, IInv, ShapeInv, KeyInv, NameInv, Accepts
<1> QED
  BY <1>1, ProcessPreserves, ClientPreserves, HandlerPreserves DEF Next

THEOREM Invariance == Spec => []IInv
BY InitHolds, NextPreserves, PTL DEF Spec

\* app.py:213-222: the answer to a caller without an accepted key depends on its
\* credential and on whether the keys can be compared with it, and on nothing else.
THEOREM CredentialDecides == Spec => []StrangersHearOneThing
<1>1. IInv => StrangersHearOneThing
  BY DEF IInv, KeyInv, StrangersHearOneThing
<1> QED BY <1>1, Invariance, PTL

\* config.py:253-270: nobody gets past the middleware of a public server without
\* a key, unless the operator said so.
THEOREM ClosedByDefault == Spec => []OpenOnlyByChoice
<1>1. ASSUME IInv PROVE OpenOnlyByChoice
  <2> SUFFICES ASSUME exchange.at \notin {"idle", "middleware"},
                      ~server.config.loopback, ~server.config.allowNoAuth
               PROVE  \/ exchange.request.header.token \in ApiKeys(server.config)
                      \/ exchange.answer.cause \in DOMAIN Codes
    BY DEF OpenOnlyByChoice
  <2>1. ApiKeys(server.config) # {}
    BY <1>1 DEF IInv, ShapeInv, Idle, SafeToServe
  <2> DEFINE refusal == AuthRefusal(exchange.request.header, server.config)
  <2>2. CASE refusal = "no"
    BY <2>1, <2>2 DEF AuthRefusal
  <2>3. CASE refusal # "no"
    <3>1. refusal \in DOMAIN Codes
      BY <2>3 DEF AuthRefusal, Codes
    <3> QED BY <1>1, <2>3, <3>1 DEF IInv, KeyInv, KeyRefusal, Refusal
  <2> QED BY <2>2, <2>3
<1> QED BY <1>1, Invariance, PTL

\* service.py:110-117: never quietly a different model than the one named.
THEOREM AnswersTheNamedModel == Spec => []AnsweredAsNamed
<1>1. ASSUME IInv PROVE AnsweredAsNamed
  <2> SUFFICES ASSUME exchange.answer.cause = "answered"
               PROVE  \/ Canonical(exchange.request.model) = exchange.answer.engine
                             /\ ~exchange.answer.substituted
                      \/ IsForeignDefault(exchange.request.model)
                             /\ exchange.answer.substituted
    BY DEF AnsweredAsNamed
  <2>1. server.engine # NoEngine
    BY <1>1 DEF IInv, ShapeInv, Idle, NoAnswer, Engines, NoEngine
  <2> QED BY <1>1, <2>1 DEF IInv, NameInv, Accepts
<1> QED BY <1>1, Invariance, PTL

\* registry.py:162-164: a name from an answer works as a request, whatever
\* configuration or engine the process was restarted with.
THEOREM GivenNamesAreKnown == Spec => []GivenNamesWork
<1>1. ASSUME IInv PROVE GivenNamesWork
  <2> SUFFICES ASSUME exchange.at = "answered", exchange.request.model \in given
               PROVE  /\ exchange.answer.cause # "unknown_model"
                      /\ exchange.answer.cause = "other_model" =>
                            exchange.request.model # ModelId(server.engine)
                      /\ ~exchange.answer.substituted
    BY DEF GivenNamesWork
  <2>1. PICK e \in Engines : exchange.request.model = ModelId(e)
    BY <1>1 DEF IInv, NameInv
  <2>2. Canonical(exchange.request.model) = e /\ e # NoEngine
    BY <2>1, ModelIdIsKnown DEF Engines, NoEngine
  <2>3. server.engine \in Engines
    BY <1>1 DEF IInv, ShapeInv, Idle
  <2> QED BY <1>1, <2>1, <2>2, <2>3, ModelIdIsKnown DEF IInv, NameInv
<1> QED BY <1>1, Invariance, PTL

-----------------------------------------------------------------------------
(* The type invariant; IInv is used on both sides of a step.                *)

\* Nothing is left of a request in an idle exchange, and one name is remembered.
IdleInv == /\ exchange.at = "idle" => exchange = Idle
           /\ given \in {{}} \cup {{ModelId(e)} : e \in Engines}
           /\ \A t \in told : t.credential \in Credentials

LEMMA IdlePreserved == ASSUME IInv, IdleInv, [Next]_vars PROVE IdleInv'
<1>1. CASE UNCHANGED vars
  BY <1>1 DEF vars, IdleInv
<1>2. CASE Serve \/ LoadEnds \/ Stop
  BY <1>2 DEF Serve, LoadEnds, Stop, IdleInv
<1>3. CASE Ask
  BY <1>3 DEF Ask, IdleInv, Idle
<1>4. CASE Take
  <2>1. exchange' = Idle
    BY <1>4 DEF Take
  <2>2. server # Down
    BY <1>4 DEF Take, IInv, ShapeInv, Idle
  <2>3. NamesIn(exchange.answer) \subseteq {ModelId(e) : e \in Engines}
    BY <2>2 DEF NamesIn, IInv, ShapeInv
  <2>4. given' \in {{name} : name \in NamesIn(exchange.answer)} \/ given' = given
    BY <1>4 DEF Take
  <2>5. \A t \in told' : t.credential \in Credentials
    <3> DEFINE b == Credential(exchange.request.header, server.config)
               a == exchange.answer
    <3>1. b \in Credentials
      BY DEF Credential, Credentials
    <3>2. told' \subseteq told \cup {[credential |-> b, answer |-> a]}
      BY <1>4 DEF Take, Told
    <3> HIDE DEF a, b
    <3>3. [credential |-> b, answer |-> a].credential = b
      OBVIOUS
    <3> QED BY <3>1, <3>2, <3>3 DEF IdleInv
  <2> QED BY <2>1, <2>3, <2>4, <2>5 DEF IdleInv
<1>5. CASE Middleware \/ Models \/ Validate \/ Resolve \/ Measure \/ Run
  <2>1. given' = given /\ told' = told
    BY <1>5 DEF Middleware, Models, Validate, Resolve, Measure, Run, At
  <2>2. \/ exchange'.at = "answered"
        \/ \E step \in Steps \ {"idle"} : exchange'.at = step
    <3>1. exchange = [at |-> exchange.at, request |-> exchange.request, answer |-> exchange.answer]
      BY DEF IInv, ShapeInv
    <3>2. \A code, cause : Reply(code, cause) => exchange'.at = "answered"
      BY <3>1 DEF Reply
    <3>3. \A step : MoveTo(step) => exchange'.at = step
      BY <3>1 DEF MoveTo
    <3>4. Middleware => exchange.request.path \in {"systemone", "models"}
      BY RequestAssumption DEF Middleware, At, IInv, ShapeInv
    <3>5. CASE Run
      <4> DEFINE a == [code |-> 200, cause |-> "answered", engine |-> server.engine,
                       substituted |-> Canonical(exchange.request.model) = NoEngine]
      <4>1. Reply(500, "encoding") \/ exchange' = [exchange EXCEPT !.at = "answered", !.answer = a]
        BY <3>5 DEF Run
      <4> HIDE DEF a
      <4> QED BY <3>1, <3>2, <4>1
    <3>6. CASE ~Run
      BY <1>5, <3>2, <3>3, <3>4, <3>6
         DEF Middleware, Models, Validate, Resolve, Measure, Steps
    <3> QED BY <3>5, <3>6
  <2> QED BY <2>1, <2>2 DEF IdleInv
<1> QED BY <1>1, <1>2, <1>3, <1>4, <1>5 DEF Next

\* The state stays well typed (TypeOK), and an idle exchange remembers nothing.
THEOREM TypeCorrect == Spec => []TypeOK
<1>1. Init => IdleInv
  BY DEF Init, IdleInv
<1>2. ASSUME IInv, IdleInv PROVE TypeOK
  <2>1. exchange.at \in Steps /\ exchange.answer \in Answers
    BY <1>2 DEF IInv, ShapeInv
  <2>2. \A t \in told : t.credential \in Credentials /\ t.answer.code \in {401, 403, 500}
    <3> SUFFICES ASSUME NEW t \in told
                 PROVE  t.credential \in Credentials /\ t.answer.code \in {401, 403, 500}
      OBVIOUS
    <3>1. PICK reason \in DOMAIN Codes : t.answer = KeyRefusal(reason)
      BY <1>2 DEF IInv, KeyInv, ReasonFor, Codes
    <3>2. KeyRefusal(reason).code = Codes[reason]
      BY DEF KeyRefusal, Refusal
    <3>3. Codes[reason] \in {401, 403, 500}
      BY DEF Codes
    <3>4. t.credential \in Credentials
      BY <1>2 DEF IdleInv
    <3> QED BY <3>1, <3>2, <3>3, <3>4
  <2>3. exchange = Idle => exchange.at = "idle"
    BY DEF Idle
  <2> QED BY <1>2, <2>1, <2>2, <2>3 DEF IInv, ShapeInv, IdleInv, TypeOK, Steps, Answers
<1>3. IInv /\ IdleInv /\ [Next]_vars => IdleInv'
  BY IdlePreserved
<1> QED BY <1>1, <1>2, <1>3, Invariance, PTL DEF Spec

-----------------------------------------------------------------------------
(* laya: two token limits against three truncations, for all lengths.       *)

(***************************************************************************)
(* One comparison is exactly "nothing in this head will be truncated", as  *)
(* budgeted_head says of itself (laya.py:146-157).                         *)
(***************************************************************************)
THEOREM BudgetIsExact ==
    ASSUME NEW a \in Nat, NEW o \in Nat, NEW h \in Nat
    PROVE  Laya!BudgetedHead(a, o) <= h <=> Laya!OptionsKept(o, h) /\ Laya!InstructionsKept(a, o, h)
<1>1. CASE a >= 16
  BY <1>1, SMT DEF Laya!BudgetedHead, Laya!OptionsKept, Laya!InstructionsKept, Laya!Larger
<1>2. CASE a < 16
  BY <1>2, SMT DEF Laya!BudgetedHead, Laya!OptionsKept, Laya!InstructionsKept, Laya!Larger
<1> QED BY <1>1, <1>2

(***************************************************************************)
(* "An over-long input is a clear 422 naming the field rather than a       *)
(* truncated sequence" (schema.py:204-206): what is admitted is encoded    *)
(* whole, whatever the number of questions.                                *)
(***************************************************************************)
THEOREM AdmittedIsNeverCut ==
    ASSUME NEW Q, NEW ins \in [Q -> Nat], NEW opt \in [Q -> Nat], NEW longest \in Nat,
           NEW state \in Nat, NEW maxLen \in Nat, NEW headMaxLen \in Nat,
           Laya!IsLongest(longest, Q, ins, opt),
           Laya!Admitted(Q, ins, opt, longest, state, maxLen, headMaxLen)
    PROVE  \A q \in Q : /\ Laya!OptionsKept(opt[q], headMaxLen)
                        /\ Laya!InstructionsKept(ins[q], opt[q], headMaxLen)
                        /\ Laya!StateKept(ins[q], opt[q], state, maxLen)
<1> TAKE q \in Q
<1>1. ins[q] \in Nat /\ opt[q] \in Nat /\ ins[q] + opt[q] <= longest
  BY DEF Laya!IsLongest
<1>2. Laya!OptionsKept(opt[q], headMaxLen) /\ Laya!InstructionsKept(ins[q], opt[q], headMaxLen)
  BY <1>1, BudgetIsExact DEF Laya!Admitted
<1>3. Laya!StateKept(ins[q], opt[q], state, maxLen)
  BY <1>1, SMT DEF Laya!Admitted, Laya!SequenceTokens, Laya!StateKept
<1> QED BY <1>2, <1>3

(***************************************************************************)
(* And nothing is refused in vain: a request with a question that is over  *)
(* a limit would have lost something.                                      *)
(***************************************************************************)
THEOREM RefusedWouldBeCut ==
    ASSUME NEW Q, NEW ins \in [Q -> Nat], NEW opt \in [Q -> Nat], NEW longest \in Nat,
           NEW state \in Nat, NEW maxLen \in Nat, NEW headMaxLen \in Nat,
           Laya!IsLongest(longest, Q, ins, opt), Q # {},
           ~Laya!Admitted(Q, ins, opt, longest, state, maxLen, headMaxLen)
    PROVE  \E q \in Q : ~( /\ Laya!OptionsKept(opt[q], headMaxLen)
                           /\ Laya!InstructionsKept(ins[q], opt[q], headMaxLen)
                           /\ Laya!StateKept(ins[q], opt[q], state, maxLen) )
<1>1. CASE \E q \in Q : ~(Laya!BudgetedHead(ins[q], opt[q]) <= headMaxLen)
  <2>1. PICK q \in Q : ~(Laya!BudgetedHead(ins[q], opt[q]) <= headMaxLen)
    BY <1>1
  <2> QED BY <2>1, BudgetIsExact
<1>2. CASE ~(Laya!SequenceTokens(longest, state) <= maxLen)
  <2>1. PICK q \in Q : ins[q] + opt[q] >= longest
    BY SMT DEF Laya!IsLongest
  <2>2. ~Laya!StateKept(ins[q], opt[q], state, maxLen)
    BY <1>2, <2>1, SMT DEF Laya!SequenceTokens, Laya!StateKept
  <2> QED BY <2>2
<1> QED BY <1>1, <1>2 DEF Laya!Admitted

-----------------------------------------------------------------------------
(* The longest of finitely many costs.                                      *)

LEMMA LeastNatural ==
    ASSUME NEW T \in SUBSET Nat, T # {} PROVE \E m \in T : \A n \in T : m <= n
<1>1. PICK m \in T : \A n \in T : ~(<<n, m>> \in OpToRel(<, Nat))
  BY NatLessThanWellFounded, WFMin
<1>2. \A n \in T : ~(n < m)
  BY <1>1 DEF OpToRel
<1> QED BY <1>2

\* By the least size of a set without a bound: one element less has a bound.
LEMMA FiniteIsBounded ==
    ASSUME NEW S \in SUBSET Nat, IsFiniteSet(S)
    PROVE  \E b \in Nat : \A x \in S : x <= b
<1> DEFINE Bounded(X) == \E b \in Nat : \A x \in X : x <= b
           Sizes == {n \in Nat : \E X \in SUBSET Nat :
                        IsFiniteSet(X) /\ Cardinality(X) = n /\ ~Bounded(X)}
<1> SUFFICES ASSUME ~Bounded(S) PROVE FALSE
  OBVIOUS
<1>1. Cardinality(S) \in Sizes
  BY FS_CardinalityType
<1>2. PICK n \in Sizes : \A k \in Sizes : n <= k
  <2> HIDE DEF Sizes
  <2>1. Sizes \in SUBSET Nat
    BY DEF Sizes
  <2> QED BY <1>1, <2>1, LeastNatural
<1>3. PICK X \in SUBSET Nat : IsFiniteSet(X) /\ Cardinality(X) = n /\ ~Bounded(X)
  BY <1>2
<1>4. PICK x \in X : TRUE
  <2>1. X # {}
    BY <1>3
  <2> QED BY <2>1
<1>5. IsFiniteSet(X \ {x}) /\ Cardinality(X \ {x}) = n - 1
  BY <1>3, <1>4, FS_RemoveElement
<1>6. Cardinality(X \ {x}) \in Nat
  BY <1>5, FS_CardinalityType
<1>7. Bounded(X \ {x})
  <2>1. n - 1 \notin Sizes
    <3>1. n \in Nat
      OBVIOUS
    <3> HIDE DEF Sizes
    <3> QED BY <1>2, <3>1
  <2>2. X \ {x} \in SUBSET Nat /\ n - 1 \in Nat
    BY <1>5, <1>6
  <2> HIDE DEF Bounded
  <2> QED BY <1>5, <2>1, <2>2
<1>8. PICK b \in Nat : \A y \in X \ {x} : y <= b
  BY <1>7
<1>9. \A y \in X : y <= b + x
  BY <1>8
<1>10. x \in Nat /\ b + x \in Nat
  BY <1>4, <1>8
<1> QED BY <1>3, <1>9, <1>10

\* What Longest returns: a bound of the costs that is 0 or one of them.
LEMMA LongestIsTheLongest ==
    ASSUME NEW Q, IsFiniteSet(Q), NEW cost \in [Q -> Nat]
    PROVE  LET longest == Longest({cost[q] : q \in Q})
           IN  /\ longest \in Nat /\ \A q \in Q : cost[q] <= longest
               /\ longest = 0 \/ \E q \in Q : cost[q] = longest
<1> DEFINE costs == {cost[q] : q \in Q}
           all == costs \cup {0}
           Bounds == {b \in Nat : \A x \in all : x <= b}
<1>1. IsFiniteSet(costs)
  <2>1. cost \in Surjection(Q, costs)
    BY DEF Surjection
  <2> HIDE DEF costs
  <2> QED BY <2>1, FS_Surjection
<1>2. costs \in SUBSET Nat /\ all \in SUBSET Nat
  OBVIOUS
<1>3. PICK b \in Nat : \A x \in costs : x <= b
  BY <1>1, <1>2, FiniteIsBounded
<1> HIDE DEF costs
<1>4. b \in Bounds /\ Bounds \in SUBSET Nat
  BY <1>3
<1>5. PICK m \in Bounds : \A n \in Bounds : m <= n
  <2> HIDE DEF Bounds
  <2> QED BY <1>4, LeastNatural
<1>6. m \in all
  <2> SUFFICES ASSUME m \notin all PROVE FALSE
    OBVIOUS
  <2>1. m \in Nat /\ m # 0 /\ \A x \in all : x <= m /\ x # m
    BY <1>5
  <2>2. m - 1 \in Nat /\ \A x \in all : x <= m - 1
    BY <1>2, <2>1
  <2>3. m - 1 \in Bounds
    BY <2>2
  <2> QED BY <1>5, <2>1, <2>3
<1>7. Longest(costs) \in all /\ \A x \in all : Longest(costs) >= x
  <2>1. \A x \in all : m >= x
    BY <1>2, <1>5
  <2> QED BY <1>6, <2>1 DEF Longest, Max
<1> QED BY <1>2, <1>7 DEF costs

-----------------------------------------------------------------------------
(* What the check compares, and what the engines take in.                   *)

\* No text of a state is spelled like one of kev's markers.
NoMarkers == \A r \in Requests : r.marks = 0

\* laya: the theorems above, about the lengths of this request's questions.
LEMMA LayaIsExact ==
    ASSUME NEW r \in Requests
    PROVE  FitsWhole("laya", r) <=> ~OverCapacity("laya", r)
<1> DEFINE Q == r.questions
           ins == [q \in Q |-> q.ins]
           opt == [q \in Q |-> q.opt]
           cost == [q \in Q |-> q.ins + q.opt]
           longest == Longest({q.ins + q.opt : q \in Q})
           st == r.text + r.marks
           Counts == \A q \in Q : q.n \in 1..MaxOptions
           Kept(q) == /\ Laya!OptionsKept(opt[q], HeadMaxLen)
                      /\ Laya!InstructionsKept(ins[q], opt[q], HeadMaxLen)
                      /\ Laya!StateKept(ins[q], opt[q], st, MaxLen)
           Within == Laya!Admitted(Q, ins, opt, longest, st, MaxLen, HeadMaxLen)
<1>1. /\ Q # {} /\ IsFiniteSet(Q) /\ st \in Nat /\ MaxLen \in Nat /\ HeadMaxLen \in Nat
      /\ ins \in [Q -> Nat] /\ opt \in [Q -> Nat] /\ cost \in [Q -> Nat]
  BY ContentAssumption, LimitAssumption
<1>2. longest \in Nat /\ Laya!IsLongest(longest, Q, ins, opt)
  <2>1. {q.ins + q.opt : q \in Q} = {cost[q] : q \in Q}
    OBVIOUS
  <2>2. LET l == Longest({cost[q] : q \in Q})
        IN  /\ l \in Nat /\ \A q \in Q : cost[q] <= l
            /\ l = 0 \/ \E q \in Q : cost[q] = l
    BY <1>1, LongestIsTheLongest
  <2>3. longest \in Nat /\ \A q \in Q : cost[q] <= longest
        /\ (longest = 0 \/ \E p \in Q : cost[p] = longest)
    BY <2>1, <2>2
  <2> HIDE DEF longest
  <2> QED BY <2>3, <1>1 DEF Laya!IsLongest
<1>3. Within <=> \A q \in Q : Kept(q)
  <2> HIDE DEF ins, opt, longest, st, Q
  <2>1. CASE Within
    BY <1>1, <1>2, <2>1, AdmittedIsNeverCut
  <2>2. CASE ~Within
    BY <1>1, <1>2, <2>2, RefusedWouldBeCut
  <2> QED BY <2>1, <2>2
<1>4. FitsWhole("laya", r) <=> Counts /\ \A q \in Q : Kept(q)
  BY DEF FitsWhole
<1>5. OverCapacity("laya", r) <=> ~(Counts /\ Within)
  <2>1. Counts <=> \A q \in Q : ~(q.n = 0 \/ q.n > MaxOptions)
    BY ContentAssumption, LimitAssumption
  <2>2. StateTokens("laya", r) = st
    BY <1>1 DEF StateTokens
  <2>3. SequenceTokens("laya", r) = Laya!SequenceTokens(longest, st)
    BY <2>2 DEF SequenceTokens
  <2>4. /\ SequenceLimit("laya") = MaxLen /\ QuestionLimit("laya") = HeadMaxLen
        /\ StateLimit("laya") = 0
        /\ \A q \in Q : HeadTokens("laya", q) = Laya!BudgetedHead(ins[q], opt[q])
    BY DEF SequenceLimit, QuestionLimit, StateLimit, HeadTokens
  <2>5. \A q \in Q : Laya!BudgetedHead(ins[q], opt[q]) \in Nat
    BY <1>1 DEF Laya!BudgetedHead, Laya!Larger
  <2>6. Laya!SequenceTokens(longest, st) \in Nat
    BY <1>1, <1>2 DEF Laya!SequenceTokens
  <2> HIDE DEF ins, opt, longest, st, Q
  <2>7. ~Within <=> \/ Laya!SequenceTokens(longest, st) > MaxLen
                    \/ \E q \in Q : Laya!BudgetedHead(ins[q], opt[q]) > HeadMaxLen
    BY <1>1, <2>5, <2>6 DEF Laya!Admitted
  <2>8. OverCapacity("laya", r) <=>
            \/ Laya!SequenceTokens(longest, st) > MaxLen
            \/ \E q \in Q : \/ q.n = 0 \/ q.n > MaxOptions
                            \/ Laya!BudgetedHead(ins[q], opt[q]) > HeadMaxLen
    BY <2>3, <2>4 DEF OverCapacity, Q
  <2> HIDE DEF Within
  <2> QED BY <2>1, <2>7, <2>8
<1> HIDE DEF Within, Counts
<1> QED BY <1>3, <1>4, <1>5

\* kev: the state by itself, and the longest branch beside it.
LEMMA KevIsExact ==
    ASSUME NEW r \in Requests, r.marks = 0
    PROVE  FitsWhole("kev", r) <=> ~OverCapacity("kev", r)
<1> DEFINE Q == r.questions
           cost == [q \in Q |-> Branch(q)]
           longest == Longest({Branch(q) : q \in Q})
           st == r.text + 1
           Counts == \A q \in Q : q.n \in 1..MaxOptions
<1>1. /\ Q # {} /\ IsFiniteSet(Q) /\ st \in Nat /\ st > 0 /\ MaxState \in Nat /\ MaxState > 0
      /\ MaxBranch \in Nat /\ cost \in [Q -> Nat] /\ \A q \in Q : Branch(q) \in Nat
  BY ContentAssumption, LimitAssumption DEF Branch
<1>2. /\ longest \in Nat /\ \A q \in Q : Branch(q) <= longest
      /\ longest = 0 \/ \E q \in Q : Branch(q) = longest
  <2>1. {Branch(q) : q \in Q} = {cost[q] : q \in Q}
    OBVIOUS
  <2>2. LET l == Longest({cost[q] : q \in Q})
        IN  /\ l \in Nat /\ \A q \in Q : cost[q] <= l
            /\ l = 0 \/ \E q \in Q : cost[q] = l
    BY <1>1, LongestIsTheLongest
  <2> QED BY <2>1, <2>2
<1>3. StateTokens("kev", r) = st /\ KevState(r) = st
  BY ContentAssumption DEF StateTokens, KevState, Spelled
<1>4. FitsWhole("kev", r) <=>
          Counts /\ st <= MaxState /\ \A q \in Q : Branch(q) <= MaxBranch - st
  BY <1>1, <1>3 DEF FitsWhole
<1>5. OverCapacity("kev", r) <=>
          \/ st > MaxState \/ st + longest > MaxBranch
          \/ \E q \in Q : q.n = 0 \/ q.n > MaxOptions \/ Branch(q) > MaxBranch
  <2>1. /\ SequenceLimit("kev") = MaxBranch /\ QuestionLimit("kev") = MaxBranch
        /\ StateLimit("kev") = MaxState /\ SequenceTokens("kev", r) = st + longest
        /\ \A q \in Q : HeadTokens("kev", q) = Branch(q)
    BY <1>3 DEF SequenceLimit, QuestionLimit, StateLimit, SequenceTokens, HeadTokens
  <2> HIDE DEF st, longest
  <2> QED BY <1>1, <1>3, <2>1 DEF OverCapacity
<1>6. Counts <=> \A q \in Q : ~(q.n = 0 \/ q.n > MaxOptions)
  BY ContentAssumption, LimitAssumption
<1>7. (\A q \in Q : Branch(q) <= MaxBranch - st) <=>
          ~(st + longest > MaxBranch) /\ \A q \in Q : ~(Branch(q) > MaxBranch)
  <2> HIDE DEF st, longest, Q
  <2>1. ASSUME \A q \in Q : Branch(q) <= MaxBranch - st PROVE ~(st + longest > MaxBranch)
    <3>1. PICK q \in Q : TRUE
      BY <1>1
    <3>2. Branch(q) \in Nat /\ Branch(q) <= MaxBranch - st
      BY <1>1, <2>1
    <3> QED BY <1>1, <1>2, <2>1, <3>2
  <2>2. ASSUME \A q \in Q : Branch(q) <= MaxBranch - st, NEW q \in Q
        PROVE  ~(Branch(q) > MaxBranch)
    BY <1>1, <2>2
  <2>3. ASSUME ~(st + longest > MaxBranch), NEW q \in Q PROVE Branch(q) <= MaxBranch - st
    BY <1>1, <1>2, <2>3
  <2> QED BY <2>1, <2>2, <2>3
<1> HIDE DEF Counts, st, longest
<1> QED BY <1>1, <1>4, <1>5, <1>6, <1>7

\* What encode raises on did not fit.
LEMMA RaisedDidNotFit ==
    ASSUME NEW r \in Requests, NEW engine \in Engines, EncodeRaises(engine, r)
    PROVE  ~FitsWhole(engine, r)
<1>1. engine = "kev"
  BY DEF EncodeRaises
<1>2. PICK q \in r.questions : Branch(q) > MaxBranch - Min({KevState(r), MaxState})
  BY DEF EncodeRaises
<1>3. KevState(r) \in Nat /\ MaxState \in Nat /\ MaxBranch \in Nat /\ Branch(q) \in Nat
  BY ContentAssumption, LimitAssumption DEF KevState, Spelled, Branch
<1>4. KevState(r) <= MaxState => Min({KevState(r), MaxState}) = KevState(r)
  BY <1>3 DEF Min
<1> QED BY <1>1, <1>2, <1>3, <1>4 DEF FitsWhole

\* jeff: whole prompts; a question with too many options is refused for that.
LEMMA JeffIsExact ==
    ASSUME NEW r \in Requests
    PROVE  FitsWhole("jeff", r) <=> ~OverCapacity("jeff", r)
<1> DEFINE Q == r.questions
           M == {p \in Q : p.n <= MaxOptions}
           st == r.text + r.marks
           cost == [q \in M |-> st + q.ins + q.opt]
           longest == Longest({st + q.ins + q.opt : q \in M})
           Counts == \A q \in Q : q.n \in 1..MaxOptions
<1>1. /\ IsFiniteSet(M) /\ st \in Nat /\ MaxSequence \in Nat /\ cost \in [M -> Nat]
      /\ \A q \in Q : q.ins \in Nat /\ q.opt \in Nat
  <2>1. IsFiniteSet(Q) /\ M \in SUBSET Q
    BY ContentAssumption
  <2>2. IsFiniteSet(M)
    BY <2>1, FS_Subset
  <2> QED BY <2>2, ContentAssumption, LimitAssumption
<1>2. /\ longest \in Nat /\ \A q \in M : st + q.ins + q.opt <= longest
      /\ longest = 0 \/ \E q \in M : st + q.ins + q.opt = longest
  <2>1. {st + q.ins + q.opt : q \in M} = {cost[q] : q \in M}
    OBVIOUS
  <2>2. LET l == Longest({cost[q] : q \in M})
        IN  /\ l \in Nat /\ \A q \in M : cost[q] <= l
            /\ l = 0 \/ \E q \in M : cost[q] = l
    BY <1>1, LongestIsTheLongest
  <2> HIDE DEF M, st
  <2> QED BY <2>1, <2>2
<1>3. FitsWhole("jeff", r) <=>
          Counts /\ \A q \in Q : st + q.ins + q.opt <= MaxSequence
  BY DEF FitsWhole
<1>4. OverCapacity("jeff", r) <=>
          \/ longest > MaxSequence
          \/ \E q \in Q : q.n = 0 \/ q.n > MaxOptions \/ q.ins + q.opt > MaxSequence
  <2>1. StateTokens("jeff", r) = st
    BY <1>1 DEF StateTokens
  <2>2. /\ SequenceLimit("jeff") = MaxSequence /\ QuestionLimit("jeff") = MaxSequence
        /\ StateLimit("jeff") = 0 /\ SequenceTokens("jeff", r) = longest
        /\ \A q \in Q : HeadTokens("jeff", q) = q.ins + q.opt
    BY <2>1 DEF SequenceLimit, QuestionLimit, StateLimit, SequenceTokens, HeadTokens
  <2> HIDE DEF longest
  <2> QED BY <2>2 DEF OverCapacity
<1>5. Counts <=> \A q \in Q : ~(q.n = 0 \/ q.n > MaxOptions)
  BY ContentAssumption, LimitAssumption
<1>6. CASE Counts
  <2>1. M = Q
    BY <1>6
  <2> HIDE DEF st, longest, Counts, M
  <2>2. ASSUME \A q \in Q : st + q.ins + q.opt <= MaxSequence
        PROVE  /\ ~(longest > MaxSequence)
               /\ \A q \in Q : ~(q.ins + q.opt > MaxSequence)
    BY <1>1, <1>2, <2>1, <2>2
  <2>3. ASSUME ~(longest > MaxSequence), NEW q \in Q PROVE st + q.ins + q.opt <= MaxSequence
    BY <1>1, <1>2, <2>1, <2>3
  <2> QED BY <1>3, <1>4, <1>5, <1>6, <2>2, <2>3
<1> HIDE DEF Counts
<1>7. CASE ~Counts
  BY <1>3, <1>4, <1>5, <1>7
<1> QED BY <1>6, <1>7

-----------------------------------------------------------------------------
(* The requests of a run.                                                   *)

\* What an answer says of the check that came before it.
CheckInv ==
    LET over == OverCapacity(server.engine, exchange.request)
    IN  /\ exchange.at = "run" \/ exchange.answer.cause \in {"answered", "encoding"} => ~over
        /\ exchange.answer.cause = "capacity" => over /\ exchange.answer.code = 422
        /\ exchange.answer.cause = "encoding" => EncodeRaises(server.engine, exchange.request)
        /\ exchange.answer.cause = "internal" => MeasureRaises(server.engine, exchange.request)

LEMMA CheckInit == Init => CheckInv
BY DEF Init, CheckInv, Idle, NoAnswer

LEMMA CheckPreserved == IInv /\ CheckInv /\ [Next]_vars => CheckInv'
<1> SUFFICES ASSUME IInv, CheckInv, [Next]_vars PROVE CheckInv'
  OBVIOUS
<1> USE DEF CheckInv
<1> DEFINE over == OverCapacity(server.engine, exchange.request)
           raises == EncodeRaises(server.engine, exchange.request)
           Decided == {"answered", "capacity", "encoding", "internal"}
<1>1. CASE Serve \/ LoadEnds \/ Stop
  <2>1. UNCHANGED exchange /\ (exchange = Idle \/ server'.engine = server.engine)
    <3>1. CASE Serve
      BY <3>1 DEF Serve, IInv, ShapeInv
    <3>2. CASE LoadEnds
      BY <3>2 DEF LoadEnds, IInv, ShapeInv, Down
    <3>3. CASE Stop
      BY <3>3 DEF Stop
    <3> QED BY <1>1, <3>1, <3>2, <3>3
  <2>2. CASE exchange = Idle
    BY <2>1, <2>2 DEF Idle, NoAnswer
  <2>3. CASE server'.engine = server.engine
    BY <2>1, <2>3
  <2> QED BY <2>1, <2>2, <2>3
<1>2. CASE Ask \/ Take
  <2>1. exchange'.at # "run" /\ exchange'.answer = NoAnswer
    <3>1. CASE Ask
      <4>1. PICK r : exchange' = [Idle EXCEPT !.at = "middleware", !.request = r]
        BY <3>1 DEF Ask
      <4>2. exchange' = [at |-> "middleware", request |-> r, answer |-> NoAnswer]
        BY <4>1 DEF Idle
      <4> QED BY <4>2
    <3>2. CASE Take
      BY <3>2 DEF Take, Idle
    <3> QED BY <1>2, <3>1, <3>2
  <2> QED BY <2>1 DEF NoAnswer
<1>3. CASE Middleware \/ Models \/ Validate \/ Resolve
  <2>1. exchange.answer = NoAnswer
    BY <1>3 DEF Middleware, Models, Validate, Resolve, At, IInv, ShapeInv
  <2>2. exchange'.at # "run" /\ exchange'.answer.cause \notin Decided
    <3>1. exchange \in [at : Steps, request : Requests \cup {{}}, answer : Answers]
      BY DEF IInv, ShapeInv
    <3>2. ASSUME NEW step \in Steps \ {"run"}, MoveTo(step)
          PROVE  exchange'.at # "run" /\ exchange'.answer.cause = "none"
      BY <2>1, <3>1, <3>2 DEF MoveTo, NoAnswer
    <3>3. ASSUME NEW code, NEW cause \in Causes \ Decided, Reply(code, cause)
          PROVE  exchange'.at # "run" /\ exchange'.answer.cause \notin Decided
      BY <3>1, <3>3 DEF Reply, NoAnswer
    <3>4. CASE Middleware
      <4>1. exchange.request.path \in Steps \ {"run"}
        <5>1. exchange.request \in Requests
          BY <3>4 DEF Middleware, At, IInv, ShapeInv
        <5> QED BY <5>1, RequestAssumption DEF Steps
      <4>2. AuthRefusal(exchange.request.header, server.config)
                \in {"no", "no_credential", "wrong_key", "uncompared"}
        BY DEF AuthRefusal
      <4> QED BY <3>2, <3>3, <3>4, <4>1, <4>2 DEF Middleware, Causes
    <3>5. CASE Models
      BY <3>3, <3>5 DEF Models, Causes
    <3>6. CASE Validate
      BY <3>2, <3>3, <3>6 DEF Validate, Causes, Steps
    <3>7. CASE Resolve
      BY <3>2, <3>3, <3>7 DEF Resolve, Causes, Steps
    <3> QED BY <1>3, <3>4, <3>5, <3>6, <3>7
  <2> QED BY <2>2
<1>4. CASE Measure
  <2>1. /\ exchange.answer = NoAnswer /\ UNCHANGED server
        /\ exchange \in [at : Steps, request : Requests \cup {{}}, answer : Answers]
    BY <1>4 DEF Measure, At, IInv, ShapeInv
  <2>2. exchange'.request = exchange.request
    <3>1. Reply(500, "internal") \/ Reply(422, "capacity") \/ MoveTo("run")
      BY <1>4 DEF Measure
    <3> QED BY <2>1, <3>1 DEF Reply, MoveTo
  <2>3. \/ /\ exchange'.at # "run" /\ exchange'.answer.cause = "internal"
           /\ MeasureRaises(server.engine, exchange.request)
        \/ /\ over /\ exchange'.at # "run" /\ exchange'.answer.cause = "capacity"
           /\ exchange'.answer.code = 422
        \/ ~over /\ exchange'.answer.cause = "none"
    <3> HIDE DEF over
    <3>1. CASE MeasureRaises(server.engine, exchange.request)
      <4>1. Reply(500, "internal")
        BY <1>4, <3>1 DEF Measure
      <4> QED BY <2>1, <3>1, <4>1 DEF Reply, NoAnswer
    <3>2. CASE ~MeasureRaises(server.engine, exchange.request) /\ over
      <4>1. Reply(422, "capacity")
        BY <1>4, <3>2 DEF Measure, over
      <4> QED BY <2>1, <3>2, <4>1 DEF Reply, NoAnswer
    <3>3. CASE ~MeasureRaises(server.engine, exchange.request) /\ ~over
      <4>1. MoveTo("run")
        BY <1>4, <3>3 DEF Measure, over
      <4> QED BY <2>1, <3>3, <4>1 DEF MoveTo, NoAnswer
    <3> QED BY <3>1, <3>2, <3>3
  <2> QED BY <2>1, <2>2, <2>3
<1>5. CASE Run
  <2>1. /\ UNCHANGED server /\ ~over
        /\ exchange \in [at : Steps, request : Requests \cup {{}}, answer : Answers]
    BY <1>5 DEF Run, At, IInv, ShapeInv
  <2>2. exchange'.request = exchange.request
    BY <1>5, <2>1 DEF Run, Reply
  <2>3. \/ raises /\ exchange'.at # "run" /\ exchange'.answer.cause = "encoding"
        \/ exchange'.at # "run" /\ exchange'.answer.cause = "answered"
    <3> HIDE DEF raises
    <3>1. CASE raises /\ Reply(500, "encoding")
      BY <2>1, <3>1 DEF Reply, NoAnswer
    <3>2. CASE ~raises
      <4> DEFINE a == [code |-> 200, cause |-> "answered", engine |-> server.engine,
                       substituted |-> Canonical(exchange.request.model) = NoEngine]
      <4>1. exchange' = [exchange EXCEPT !.at = "answered", !.answer = a]
        BY <1>5, <3>2 DEF Run, raises
      <4>2. a.cause = "answered"
        OBVIOUS
      <4> HIDE DEF a
      <4> QED BY <2>1, <4>1, <4>2
    <3> QED BY <1>5, <3>1, <3>2 DEF Run, raises
  <2> QED BY <2>1, <2>2, <2>3
<1>6. CASE UNCHANGED vars
  BY <1>6 DEF vars
<1> QED BY <1>1, <1>2, <1>3, <1>4, <1>5, <1>6 DEF Next

\* schema.py:204-206: what is answered was read whole, and what is refused for its
\* length would not have been, whatever the limits, engines and lengths.
THEOREM TheLineIsExact == ASSUME NoMarkers PROVE Spec => []CapacityIsExact
<1>1. ASSUME IInv, CheckInv PROVE CapacityIsExact
  <2> DEFINE r == exchange.request
             named == {"answered", "capacity", "encoding"}
  <2> SUFFICES ASSUME exchange.answer.cause \in named PROVE CapacityIsExact
    BY DEF CapacityIsExact
  <2>1. r \in Requests /\ r.marks = 0 /\ server.engine \in Engines
    <3>1. exchange.at # "idle"
      BY <1>1 DEF IInv, ShapeInv, NoAnswer
    <3> QED BY <1>1, <3>1 DEF IInv, ShapeInv, NoMarkers, Idle
  <2>2. FitsWhole(server.engine, r) <=> ~OverCapacity(server.engine, r)
    BY <2>1, LayaIsExact, KevIsExact, JeffIsExact DEF Engines
  <2> QED BY <1>1, <2>1, <2>2, RaisedDidNotFit DEF CheckInv, CapacityIsExact
<1>2. Spec => []CheckInv
  BY CheckInit, CheckPreserved, Invariance, PTL DEF Spec
<1> QED BY <1>1, <1>2, Invariance, PTL

\* docs/engines.md:99-100, where the code keeps it: without markers a request that
\* does not fit is refused with 422 unless measuring it raises, and for laya nothing
\* raises (schema.py:234, kev.py:456, jeff.py:439).
THEOREM TooMuchIsRefused ==
    ASSUME NoMarkers
    PROVE  Spec => [](TooMuchIs422 \/ MeasureRaises(server.engine, exchange.request))
<1>1. ASSUME IInv, CheckInv, ~MeasureRaises(server.engine, exchange.request)
      PROVE  TooMuchIs422
  <2> DEFINE r == exchange.request
             named == {"answered", "internal", "capacity", "encoding"}
  <2> SUFFICES ASSUME exchange.answer.cause \in named, ~FitsWhole(server.engine, r)
               PROVE  exchange.answer.code = 422
    BY DEF TooMuchIs422
  <2>1. r \in Requests /\ r.marks = 0 /\ server.engine \in Engines
    <3>1. exchange.at # "idle"
      BY <1>1 DEF IInv, ShapeInv, NoAnswer
    <3> QED BY <1>1, <3>1 DEF IInv, ShapeInv, NoMarkers, Idle
  <2>2. OverCapacity(server.engine, r)
    BY <2>1, LayaIsExact, KevIsExact, JeffIsExact DEF Engines
  <2> QED BY <1>1, <2>2 DEF CheckInv
<1>2. Spec => []CheckInv
  BY CheckInit, CheckPreserved, Invariance, PTL DEF Spec
<1> QED BY <1>1, <1>2, Invariance, PTL
=============================================================================
