----------------------------- MODULE RequestPath -----------------------------
(***************************************************************************)
(* What one request says and what it is answered: the middleware, the      *)
(* validation, the readiness gate, the name of the model and the capacity  *)
(* check, in the order of decis/app.py and decis/service.py, on a process  *)
(* that is restarted with other settings and other engines.  Who waits for *)
(* whom is Server's subject; here a client sends one request at a time and *)
(* remembers a model name it was given.                                    *)
(***************************************************************************)
EXTENDS Integers, FiniteSets, FiniteSetsExt

CONSTANTS
    Requests,   \* what clients send
    Configs,    \* the environments the process is started in
    Blank,      \* an entry of DECIS_API_KEYS, or a token, that is only spaces
    NonAscii,   \* the keys and tokens that hold a character beyond ASCII
    MaxLen, HeadMaxLen,     \* laya: the sequence, and one question's head
    MaxState, MaxBranch,    \* kev: the state, and the state plus one question
    MaxSequence,            \* jeff: the whole prompt
    MaxOptions              \* of every engine

ASSUME RequestAssumption == \A r \in Requests : r.path \in {"systemone", "models"}
\* The pieces of a content have lengths, and there is at least one question.
ASSUME ContentAssumption == \A r \in Requests :
    /\ r.text \in Nat /\ r.marks \in Nat
    /\ r.questions # {} /\ IsFiniteSet(r.questions)
    /\ \A q \in r.questions : q.ins \in Nat /\ q.opt \in Nat /\ q.n \in Nat
ASSUME LimitAssumption ==
    /\ {MaxLen, HeadMaxLen, MaxState, MaxBranch, MaxSequence, MaxOptions} \subseteq Nat
    /\ MaxState > 0

Laya == INSTANCE Capacity

VARIABLES
    server,     \* life, engine and config of the process
    exchange,   \* the request being handled, how far it came, and its answer
    told,       \* what requests without an accepted key were answered
    given       \* a model name that an answer named, {} before there is one

vars == <<server, exchange, told, given>>

Engines == {"laya", "kev", "jeff"}
NoEngine == "none"
Lives == {"loading", "ready", "failed"}

-----------------------------------------------------------------------------
(* Names: a record of the parts of `decis/<base>@<version>` that were sent. *)

\* SPECS: each engine's id and its aliases.
Registered ==
    [laya |-> {"laya", "laya-english"}, kev |-> {"kev", "kev-latest"},
     jeff |-> {"jeff", "jeff-qwen"}]

ForeignDefaults == {"jev-latest", "default"}

\* Mistake: the prefix that responses carry is not taken off.
MutCanonical(model) ==
    LET known == {e \in Engines : ~model.upper /\ model.base \in Registered[e]}
    IN  IF known = {} \/ model.prefixed THEN NoEngine ELSE CHOOSE e \in known : TRUE

\* Prefix and version are taken off; upper case is another name.
Canonical(model) ==
    LET known == {e \in Engines : ~model.upper /\ model.base \in Registered[e]}
    IN  IF known = {} THEN NoEngine ELSE CHOOSE e \in known : TRUE

\* Here the version is taken off, the prefix is not, and case does not matter.
IsForeignDefault(model) == ~model.prefixed /\ model.base \in ForeignDefaults

\* EngineInfo.model_id, what responses and listings call an engine.
ModelId(engine) ==
    [prefixed |-> TRUE, base |-> engine, versioned |-> TRUE, upper |-> FALSE]

-----------------------------------------------------------------------------
(* Keys                                                                     *)

\* _csv drops the entries that are blank.
ApiKeys(config) == config.keys \ {Blank}

\* A scheme other than Bearer, or nothing behind it, is no credential.
HasToken(header) == header.scheme = "bearer" /\ header.token # Blank

\* hmac.compare_digest takes ASCII only, of the token and of every key.
Comparable(header, config) == ({header.token} \cup ApiKeys(config)) \cap NonAscii = {}

\* authenticate: what a request is refused with, "no" when it is not.  Every key is
\* compared, so one that cannot be raises even when another one matched.
AuthRefusal(header, config) ==
    IF ApiKeys(config) = {} THEN "no"
    ELSE IF ~HasToken(header) THEN "no_credential"
    ELSE IF ~Comparable(header, config) THEN "uncompared"
    ELSE IF header.token \notin ApiKeys(config) THEN "wrong_key"
    ELSE "no"

\* Mistake: the raw setting is looked at, not the keys that are in it.
MutSafeToServe(config) ==
    config.keys # {} \/ config.allowNoAuth \/ config.loopback

\* check_safe_to_serve
SafeToServe(config) ==
    ApiKeys(config) # {} \/ config.allowNoAuth \/ config.loopback

-----------------------------------------------------------------------------
(* Capacity: what the running engine measures, and the limits it declares.  *)

\* The markers that kev's user_tokens spells out cost this many tokens.
Spelled == 3

\* kev: a delimiter before the question, two around each option, one behind.
Branch(q) == 2 + q.ins + q.opt + 2 * q.n

\* measure: kev's tokenizer reads a marker in the state as one token.
StateTokens(engine, content) ==
    content.text + content.marks + (IF engine = "kev" THEN 1 ELSE 0)

HeadTokens(engine, q) ==
    CASE engine = "laya" -> Laya!BudgetedHead(q.ins, q.opt)
      [] engine = "kev"  -> Branch(q)
      [] OTHER           -> q.ins + q.opt

Longest(costs) == Max(costs \cup {0})

\* A question with too many options is left out of jeff's measurement.
SequenceTokens(engine, content) ==
    LET st == StateTokens(engine, content) IN
    CASE engine = "laya" ->
             Laya!SequenceTokens(Longest({q.ins + q.opt : q \in content.questions}), st)
      [] engine = "kev" -> st + Longest({Branch(q) : q \in content.questions})
      [] OTHER ->
             Longest({st + q.ins + q.opt : q \in {p \in content.questions : p.n <= MaxOptions}})

\* kev measures a question by encoding it beside an empty state, jeff by
\* preparing its prompt: both raise a ValueError that nobody turns into a 422.
MeasureRaises(engine, content) ==
    \/ engine = "kev" /\ \E q \in content.questions : Branch(q) > MaxBranch - 1
    \/ engine = "jeff" /\ \E q \in content.questions : q.n = 0

\* Mistake: no engine limits the state alone.
MutStateLimit(engine) == 0

\* 0 is no limit: only kev cuts the state by itself.
StateLimit(engine) == IF engine = "kev" THEN MaxState ELSE 0

SequenceLimit(engine) ==
    CASE engine = "laya" -> MaxLen [] engine = "kev" -> MaxBranch [] OTHER -> MaxSequence

QuestionLimit(engine) == IF engine = "laya" THEN HeadMaxLen ELSE SequenceLimit(engine)

\* validate_capacity
OverCapacity(engine, content) ==
    \/ StateLimit(engine) > 0 /\ StateTokens(engine, content) > StateLimit(engine)
    \/ SequenceTokens(engine, content) > SequenceLimit(engine)
    \/ \E q \in content.questions :
          q.n = 0 \/ q.n > MaxOptions \/ HeadTokens(engine, q) > QuestionLimit(engine)

-----------------------------------------------------------------------------
(* One process after another                                                *)

Down == [life |-> "down", engine |-> NoEngine, config |-> {}]
NoAnswer == [code |-> 0, cause |-> "none", engine |-> NoEngine, substituted |-> FALSE]
Idle == [at |-> "idle", request |-> {}, answer |-> NoAnswer]

Init ==
    /\ server = Down
    /\ exchange = Idle /\ told = {} /\ given = {}

\* `decis serve`: an unsafe configuration binds nothing.
Serve ==
    /\ server = Down
    /\ \E config \in Configs, engine \in Engines :
          /\ SafeToServe(config)
          /\ server' = [life |-> "loading", engine |-> engine, config |-> config]
    /\ UNCHANGED <<exchange, told, given>>

LoadEnds ==
    /\ server.life = "loading"
    /\ \E life \in {"ready", "failed"} : server' = [server EXCEPT !.life = life]
    /\ UNCHANGED <<exchange, told, given>>

\* uvicorn answers what it has accepted before it goes.
Stop ==
    /\ server # Down /\ exchange = Idle
    /\ server' = Down
    /\ UNCHANGED <<exchange, told, given>>

-----------------------------------------------------------------------------
(* One request                                                              *)

Ask ==
    /\ server # Down /\ exchange = Idle
    /\ \E r \in Requests : exchange' = [Idle EXCEPT !.at = "middleware", !.request = r]
    /\ UNCHANGED <<server, told, given>>

At(step) == exchange.at = step /\ UNCHANGED <<server, told, given>>

MoveTo(step) == exchange' = [exchange EXCEPT !.at = step]

Reply(code, cause) ==
    exchange' = [exchange EXCEPT
        !.at = "answered",
        !.answer = [NoAnswer EXCEPT !.code = code, !.cause = cause]]

\* The TypeError of compare_digest is no DecisError: it passes _reject_early, which
\* the middleware calls outside its try, and the application answers 500.
Codes == [no_credential |-> 403, wrong_key |-> 401, uncompared |-> 500]

\* Mistake: the size is looked at before the key.
MutMiddleware ==
    LET refusal == AuthRefusal(exchange.request.header, server.config)
    IN  /\ At("middleware")
        /\ IF exchange.request.body = "large" THEN Reply(413, "too_large")
           ELSE IF refusal # "no" THEN Reply(Codes[refusal], refusal)
           ELSE MoveTo(exchange.request.path)

\* _reject_early: both paths are protected, and the key comes first.
Middleware ==
    LET refusal == AuthRefusal(exchange.request.header, server.config)
    IN  /\ At("middleware")
        /\ IF refusal # "no" THEN Reply(Codes[refusal], refusal)
           ELSE IF exchange.request.body = "large" THEN Reply(413, "too_large")
           ELSE MoveTo(exchange.request.path)

\* GET /v1/models names every engine, loaded or not.
Models == At("models") /\ Reply(200, "models")

\* The wire format is checked before the route runs; then the readiness gate.
Validate ==
    /\ At("systemone")
    /\ IF exchange.request.body = "malformed" THEN Reply(422, "malformed")
       ELSE IF server.life # "ready" THEN Reply(503, "not_loaded")
       ELSE MoveTo("resolve")

\* Mistake: a known name that is not loaded is substituted like a default.
MutResolve ==
    LET model == exchange.request.model
        requested == Canonical(model)
    IN  /\ At("resolve")
        /\ IF requested = server.engine THEN MoveTo("measure")
           ELSE IF server.config.foreign /\ (IsForeignDefault(model) \/ requested # NoEngine)
           THEN MoveTo("measure")
           ELSE Reply(422, "unknown_model")

\* A default name stands for whatever runs here, when the settings allow it.
Resolve ==
    LET model == exchange.request.model
        requested == Canonical(model)
    IN  /\ At("resolve")
        /\ IF requested = NoEngine
           THEN IF server.config.foreign /\ IsForeignDefault(model)
                THEN MoveTo("measure") ELSE Reply(422, "unknown_model")
           ELSE IF requested # server.engine
                THEN Reply(422, "other_model") ELSE MoveTo("measure")

\* An exception that is no DecisError is the middleware's 500.
Measure ==
    /\ At("measure")
    /\ IF MeasureRaises(server.engine, exchange.request) THEN Reply(500, "internal")
       ELSE IF OverCapacity(server.engine, exchange.request) THEN Reply(422, "capacity")
       ELSE MoveTo("run")

\* encode's state: its markers spelled out, the delimiter in front.
KevState(content) == content.text + Spelled * content.marks + 1

\* kev's encode cuts the state, with its markers spelled out, and raises when a
\* branch does not fit beside what is left.  By then that can only be the state's
\* markers, which measure counted as one token each.
EncodeRaises(engine, content) ==
    /\ engine = "kev"
    /\ \E q \in content.questions :
          Branch(q) > MaxBranch - Min({KevState(content), MaxState})

\* The answer names the engine, and says so when the name was substituted.  The
\* scheduler makes an engine failure of the InvalidRequestError that predict raises.
Run ==
    /\ At("run")
    /\ IF EncodeRaises(server.engine, exchange.request) THEN Reply(500, "encoding")
       ELSE exchange' = [exchange EXCEPT
               !.at = "answered",
               !.answer = [code |-> 200, cause |-> "answered", engine |-> server.engine,
                           substituted |-> Canonical(exchange.request.model) = NoEngine]]

\* The model names in an answer: the model that answered, the one to send
\* instead, every model of the listing.
NamesIn(answer) ==
    CASE answer.cause \in {"answered", "other_model"} -> {ModelId(server.engine)}
      [] answer.cause = "models" -> {ModelId(e) : e \in Engines}
      [] OTHER -> {}

\* Without an accepted key, although there are keys.
Stranger(request) == AuthRefusal(request.header, server.config) # "no"

\* What a request shows of its credential, and the one thing about the keys that
\* comparing an ASCII token with them shows.
Credentials == {"none", "odd", "ascii", "ascii for odd keys"}

Credential(header, config) ==
    IF ~HasToken(header) THEN "none"
    ELSE IF header.token \in NonAscii THEN "odd"
    ELSE IF ApiKeys(config) \cap NonAscii = {} THEN "ascii" ELSE "ascii for odd keys"

Told(request) ==
    IF Stranger(request)
    THEN {[credential |-> Credential(request.header, server.config), answer |-> exchange.answer]}
    ELSE {}

\* The client reads its answer.
Take ==
    /\ exchange.at = "answered"
    /\ told' = told \cup Told(exchange.request)
    /\ \/ given' \in {{name} : name \in NamesIn(exchange.answer)}
       \/ UNCHANGED given
    /\ exchange' = Idle
    /\ UNCHANGED server

Next ==
    \/ Serve \/ LoadEnds \/ Stop
    \/ Ask \/ Middleware \/ Models \/ Validate \/ Resolve \/ Measure \/ Run \/ Take

Spec == Init /\ [][Next]_vars

-----------------------------------------------------------------------------

TypeOK ==
    /\ server \in {Down} \cup [life : Lives, engine : Engines, config : Configs]
    /\ exchange.at \in {"idle", "middleware", "models", "systemone", "resolve",
                        "measure", "run", "answered"}
    /\ exchange.at = "idle" <=> exchange = Idle
    /\ exchange.answer.code \in {0, 200, 401, 403, 413, 422, 500, 503}
    /\ \A t \in told : t.credential \in Credentials /\ t.answer.code \in {401, 403, 500}
    /\ given \in {{}} \cup {{ModelId(e)} : e \in Engines}

\* What a caller without an accepted key is told depends on the credential it sent
\* and on nothing of the server but whether an ASCII token can be compared with its
\* keys: not on the body, the model, the limits, the engine or any other setting,
\* over all restarts (app.py:213-222, auth.py:46-50).
StrangersHearOneThing ==
    \A s, t \in told : s.credential = t.credential => s.answer = t.answer

\* On a public address only a caller with an accepted key gets past the
\* middleware, unless the operator asked for it (config.py:253-270).
OpenOnlyByChoice ==
    exchange.at \notin {"idle", "middleware"}
            /\ ~server.config.loopback /\ ~server.config.allowNoAuth =>
        \/ exchange.request.header.token \in ApiKeys(server.config)
        \/ exchange.answer.cause \in DOMAIN Codes

\* A decision comes from the model that was named, or says which name was
\* replaced: never quietly from a different model (service.py:110-117).
AnsweredAsNamed ==
    exchange.answer.cause = "answered" =>
        \/ Canonical(exchange.request.model) = exchange.answer.engine
               /\ ~exchange.answer.substituted
        \/ IsForeignDefault(exchange.request.model) /\ exchange.answer.substituted

\* A name this server ever gave works when it is fed back (registry.py:162-164),
\* whatever was restarted since: it is known, and refused only because another
\* engine runs now.
GivenNamesWork ==
    exchange.at = "answered" /\ exchange.request.model \in given =>
        /\ exchange.answer.cause # "unknown_model"
        /\ exchange.answer.cause = "other_model" =>
              exchange.request.model # ModelId(server.engine)
        /\ ~exchange.answer.substituted

\* What encode, build_sequence and prepare take in whole, from their own rules.
FitsWhole(engine, content) ==
    \A q \in content.questions :
        /\ q.n \in 1..MaxOptions
        /\ CASE engine = "laya" ->
                    /\ Laya!OptionsKept(q.opt, HeadMaxLen)
                    /\ Laya!InstructionsKept(q.ins, q.opt, HeadMaxLen)
                    /\ Laya!StateKept(q.ins, q.opt, content.text + content.marks, MaxLen)
             [] engine = "kev" ->
                    /\ KevState(content) <= MaxState
                    /\ Branch(q) <= MaxBranch - KevState(content)
             [] OTHER -> content.text + content.marks + q.ins + q.opt <= MaxSequence

\* The capacity check draws the line where the engine does: what is answered was
\* read whole, and what is refused would not have been (schema.py:204-206).
CapacityIsExact ==
    /\ exchange.answer.cause = "answered" => FitsWhole(server.engine, exchange.request)
    /\ exchange.answer.cause \in {"capacity", "encoding"} =>
          ~FitsWhole(server.engine, exchange.request)

\* "A request that exceeds a limit is rejected with 422 ... Decis never truncates
\* an over-long input" (docs/engines.md:99-100).
TooMuchIs422 ==
    exchange.answer.cause \in {"answered", "internal", "capacity", "encoding"}
            /\ ~FitsWhole(server.engine, exchange.request) =>
        exchange.answer.code = 422
=============================================================================
