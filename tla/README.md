# Decis: models, checks and proofs

Decis serves small decision models behind one HTTP API, ships a playground (a proxy and three
browser games that let a model play), and has a command line that chooses, downloads and checks
the weights. This directory holds TLA+ models of that program, the TLC configurations that check
them on small instances, and proofs checked by TLAPS. Source paths below are relative to the
repository root; `decis/` abbreviates `src/decis/`.

## The system

| part | state it keeps | operations | hard because | correct when |
|---|---|---|---|---|
| scheduler `decis/scheduler.py` | load phase, error, engine lock | load, load_status, run, close | threads; two facts (phase, `loaded`) about one state; a deadline | one thread in `predict`; readiness and refusals tell the truth; nobody starves |
| engines `decis/engines/*.py` | model handle, `loaded` | load + warmup, measure, predict, close | warmup takes no lock; close takes no lock | published only when warm; no client sees a torn engine |
| application `decis/app.py`, `cli._serve` | loader thread | lifespan, shutdown, --preload | shutdown in the middle of a load or a request | never closes under a load; always exits |
| request path `decis/service.py`, `schema.py`, `auth.py`, `errors.py`, `engines/registry.py`, part of `config.py` | the settings of the process | authenticate, limit, resolve the model, check capacity, answer | the order of refusals; names that outlive a process; three engines that cut in three ways | without an accepted key only the credential decides the answer; a decision comes from the named model; an over-long request is refused, never silently cut |
| encoding and answers `decis/render.py`, `answers.py`, `engines/*.predict`, `engines/_kev_vendor`, `engines/_jeff_vendor` | the request in the engine | render, encode, pad, forward in batches or chunks, read out, round | numbers of several questions meet again by place; masks and padding whose mistakes look plausible; text spelled like a delimiter | each question is answered as if asked alone, under the caller's keys, or the request fails |
| playground proxy `playground/server.py` | the chosen upstream | resolve, invalidate, forward | late failures, upstreams that restart as something else | a live upstream is found again |
| games `playground/web/{dino,snake,tetris}.html` | epoch, runs and loops, in-flight calls, prefetch | ask, answer, abort, pause, restart, switch who plays | late answers, loops that overlap | an answer is applied only to the board it was asked about; one loop acts; the game goes on |
| weights `decis/paths.py`, `hub.py`, `cli.py` | files on disk, a cached choice of hub | resolve, choose, download, lay out | interrupted downloads, unreachable hubs | what `download` calls done, `load` finds |

How they interact: uvicorn accepts a request, the middleware authenticates and limits it, the
route runs `service.answer` on a worker thread, which measures and runs on the engine through the
scheduler. The lifespan owns the loader thread and the shutdown. The playground's server forwards
the games' questions to such a server, and `decis download` prepares what an engine's load reads.

## The server: `SerialEngine`, `Server`, `MCServer`, `ServerProofs`

`SerialEngine` is the promise: a client's question is refused without the engine having been
entered, or enters it alone. `Server` is one `decis serve` process. A step is one access to
state another thread may write.

| variable | code |
|---|---|
| `preload` | the flag of `decis serve`, chosen in `Init` |
| `handle` | `_agent` / `_model` of the engine |
| `loaded` | `DecisionEngine._loaded` |
| `phase`, `error` | `InProcessScheduler._phase`; what `engine.load` raised |
| `loadpc` | the thread inside `scheduler.load` (the lifespan's loader, or main under `--preload`) |
| `holder` | `InProcessScheduler._lock` |
| `pc`, `result` | the worker threads inside `service.answer`, and what they answered |
| `abandoned` | threads whose task uvicorn cancelled when the drain ran out |
| `life` | create_app, serving, uvicorn's drain, `_shutdown`, exit |
| `probe` | a `/readyz` answer in the making and the last one given |

`Engine` picks the order of the load: laya and kev warm up and then set `_loaded`, jeff sets
`_loaded` and then warms up; kev and jeff read their handle again inside `predict`, laya works on
the one it captured. What a request says is reduced to the outcomes it can have (422, 429, 500,
503 by cause, 200). uvicorn is external: it stops accepting, waits for its requests, and after
`timeout_graceful_shutdown` cancels the tasks, which leaves the threads running.

Runs:

| run | instance | shows |
|---|---|---|
| `server` | 2 threads that ask for ever, a load that may hang, with and without `--preload`, in kev's order (whose `predict` reads its handle again, so its steps include laya's) | the engine is never shared, `/readyz` tells the truth, a failed load stays failed, a preloaded server never says "come back later", shutdown never closes under a load, no waiting client is answered from a closed engine; every step is a step of `SerialEngine`; nobody starves, the process exits, a probe learns how the load ended |
| `jeff_one_in_predict` | 2 threads | violated: jeff publishes itself before its warmup pass |

Two threads are enough for one to hold the engine while another waits or is overtaken; the proofs
cover any number. Fairness: a worker thread runs on while the process lives and a forward pass
ends (`ThreadsRun`), the lifespan reaches its next step because every wait in it is bounded, and
an orchestrator keeps polling. Only `LoadEnds`, the premise of `ProbeLearnsOutcome`, says that a
load ends. SIGTERM and new requests get no fairness. Deadlock is not checked because the process
really stops.

Proved in `ServerProofs` for any number of threads, with or without `--preload`, for the engines
that publish themselves after the warmup pass (the hypothesis `Engine # "jeff"` of every theorem):
the type invariant, the six invariants of `server`, and the refinement of `SerialEngine`. The
argument is the inductive invariant `IInv`: `loaded` implies that the load is past its warmup
(`LoadInv`), so a thread past the readiness gate excludes the warmup; the lock's holder is exactly
the thread inside `predict` (`RequestInv`); and until the process starts to clear the engine what
was loaded stays loaded, while a request in flight then is an abandoned one (`LifeInv`,
`RequestInv`). None of the invariants is inductive alone: mutual exclusion, for one, needs the
lock's holder and the order of the load. That `--preload` refuses nobody is `PreloadInv`, which
rests on the same. The assumptions are `ServerAssumption` only. Liveness is only model-checked.

## Token limits: `Capacity`

`schema.validate_capacity` refuses what an engine would truncate. `Capacity` puts its two token
limits beside the three truncations of laya's `build_sequence` (external: modelled as laya.py
describes it). It has no state and no run of its own: `RequestPath` instantiates it for laya and
adds the number of options and the limits of kev and jeff.

The second part of `RequestPathProofs` proves, for all lengths and any set of questions: `budgeted_head` compared with
`head_max_len` is exactly "neither options nor instructions are cut" (`BudgetIsExact`), what is
admitted is encoded whole (`AdmittedIsNeverCut`), and what a token limit refuses would have lost
something (`RefusedWouldBeCut`). From these, and the same for kev and jeff, follows
`TheLineIsExact`: `CapacityIsExact` of `RequestPath` for every engine, limit and content without
spelled delimiters. The argument is `CheckInv`: whoever is past the capacity check has met every
limit, and a refusal for the length names a limit that was not met; the arithmetic is about the
longest question of a finite set. Its assumptions are `ContentAssumption` (lengths are numbers, a
request asks something), `LimitAssumption` (limits are numbers, kev's for a state is positive) and
the hypothesis `NoMarkers`.
`TooMuchIsRefused` says what the finding `request_path_too_much` leaves of the promise it is about:
under the same hypothesis a request that does not fit is answered 422, unless measuring it raises.

## The request path: `RequestPath`, `MCRequestPath`, `RequestPathProofs`

What one request says and what it is answered, in the order of `app.py` and `service.py`. `server`
is the process (its life, engine and settings), which is stopped and started again with other
settings and another engine; `exchange` is the request being handled, the step it has reached and
its answer. `told` and `given` are histories: what requests without an accepted key were answered,
and a model name some answer gave, both kept over restarts. One client sends one request at a
time, because these rules keep nothing between requests; who waits for whom is `Server`'s subject.
A model name is a record of the parts `canonical` and `is_foreign_default` look at, a content is
the lengths its pieces have in the engine's tokenizer. The encoders, uvicorn and the client are
external: what each encoder takes in whole (`FitsWhole`) is stated from its own rules, not from
the check. A key or a token is ASCII or not (`NonAscii`), because `hmac.compare_digest` raises a `TypeError` for a
string that is not (`auth.py:47`); `_reject_early` turns only a `DecisError` into a refusal
(`app.py:221`), so that request is answered 500. The family of an engine stands for it: `laya`, `kev` and `jeff` measure and cut in
three ways, and the three sizes of `jeff` do so alike.

| run | instance | shows |
|---|---|---|
| `request_path` | six configurations, three engines, every kind of key, body and name, contents at every limit of each engine (20 and 30 tokens for laya, 8 and 22 for kev, 26 for jeff, 3 options), no markers in a state | what a request without an accepted key hears depends on its credential, and on nothing of the server but whether the keys can be compared with an ASCII token, over all restarts; a public server is open only on purpose; a decision comes from the named model; names from answers work; the capacity check refuses exactly what the encoder would have cut |
| `request_path_too_much` | the same, with markers | violated: not every request over a limit is refused with 422 |

The limits are small so that every one of them is met, missed by one and passed; only their
comparisons matter. The configurations are three with keys, one of them with a blank entry and one with a key that is not ASCII beside its own, a
blank key alone on a public address and on loopback, and a server open on purpose. A state with a
text that kev takes for a marker is left to the second run, since there the measured length is wrong
(finding 4). An `encode` that raises inside `predict` is answered 500, as it is in the code.
Deadlock is checked: a stopped server can be started. There is no liveness here; `Server` has it.

Proved in `RequestPathProofs` for all requests, settings and limits: the type invariant,
`StrangersHearOneThing`, `OpenOnlyByChoice`, `AnsweredAsNamed` and `GivenNamesWork`. The inductive
invariant adds, for each step of a request, what the steps before it have established: the key was
accepted or the answer is a refusal with the reason of its credential (`KeyInv`), and past
`Resolve` the name is the engine's or one of the defaults (`NameInv`). What was
told before a restart is covered because `KeyInv` says it of the answers themselves, not of the
settings they were given under. The assumption is `RequestAssumption`: clients ask one of the two
protected paths. The second part of the
module is `CapacityIsExact`, see above.

## From questions to answers: `KevEncoding`, `JeffDecision`, `Inference`, `MCInference`, `InferenceProofs`

One request inside the engine, for the four ways Decis has of answering: kev on a backbone that
takes attention masks, kev on a hybrid one that takes rows, laya, jeff. `engine` is what the process
runs and `call` the request: where it is (`prepare`, `encode`, `forward`, `build`, `answered`), its
work items, the encoded rows, the distributions so far and the response. `Prepare` is
`render.prepare_request`, `Encoding` what `predict` does before its first pass, `Forward` one pass
(all rows, or a chunk of jeff's), `ForwardFails` one that runs out of memory, `Build` the checks of
the scheduler and `validate_distribution` together with `answers.build_answer`, `Ask` and `Take` the
client.

`KevEncoding` has kev's encoder, masks, rows and batches, `JeffDecision` jeff's prompts, padding
and readout. A text is a sequence of words. The networks are left open: a number may be any of
`Outcomes` or NaN, and it carries its reading, the tokens with their positions that attention leads
to from the place it was read at. Two numbers with the same reading are the same; that is what
"as if asked alone" means. laya's `render_options`, `build_sequence` and `collate_items` are
external and modelled as laya.py and its contract test describe them.

| run | instance | shows |
|---|---|---|
| `inference` | six requests of one to three questions: nouls, choices and scores; nulls, blanks, an empty description, words spelled like kev's delimiters in state, instructions, descriptions and names | the neighbours, the padding and the chunk of a question reach none of its numbers; a number is published under the key whose text it was read at; no text forges an option; kev's packed, single and row forms agree, and isolated options do not know their order; choice, confidence and score follow from the published numbers; a request is answered wholly or not at all |

`BatchSize` is 2, so that three questions make a full and a short chunk; `Bucket` is 4, so that
rows are padded beyond the longest; `MaxState` 6 and `MaxBranch` 23 make one state be cut and one
question be refused while the others fit. Raw probabilities are thirtieths and published ones
eighths, with values that are equal only after the rounding. Python's `round` sees a binary
double, so a decimal half may go up or down: `TiesUp` says which do. Three equal options are the
instance of that, published as 3/8 each, with a confidence on a tie that goes up, as with seven
options and four decimals. A request follows from the content
alone and nothing is kept between two, so the six are enough to meet each pair of question types
in one batch. Left out: the entropy that is a score's confidence, the billing of output tokens,
images, jeff's live-last layout and kev's prefix cache, which Decis does not use. There is no
concurrency here (the scheduler lets one request in, see `Server`).

Proved in `InferenceProofs` for the four engines, any requests, any numbers a network may give and
any budgets, bucket and chunk size: `TypeOK`, `BatchIsInvisible`, `OptionsUnforgeable`,
`FormsAgree`, `AnswersAddUp` and `AllOrNothing`; `ReadUnderItsKey` too, for laya and jeff with the
hypothesis below. The inductive invariant `IInv` says how far the request in the
engine can be and with what: there is one admitted content, the items are its prepared questions,
the rows are what the engine's encoder makes of them, and the numbers so far have, one after the
other, the readings that the forward passes give to those rows; a response is what `Build` makes
of them or a refusal for a reason. What the clients hear is then a fact about operators. For each
engine a lemma gives the reading of a question in any batch: kev's packed rows and its hybrid rows
end with the question and pads are never attended to (`PackedReads`, `RowsRead`), laya's mask leaves
out the pads (`LayaReads`), jeff's padding on the left keeps every distance from the end, and a
chunk is a window on the rows (`JeffReads`). `Reach`, what attention leads to through all layers, is a fold; it is everything
before a place because every place of a row attends to all before it. Unforgeability counts
delimiters through the folds that concatenate a row. That kev's forms agree is a matter of
offsets: each block of a record is found again behind the ones before it (`BlocksAre`,
`BlocksCover`), the mask shows a place of a block the state and its own block (`BlockIsSeen`), and
`rows_of` cuts the record into the same rows that single questions make (`RowsOfRecord`). With
isolated options the end of an option sees state, instructions and itself, and `<decide>` sees them
all at the same positions, so turning the options around turns the readings around
(`ApartTurned`). The arithmetic of rounding gives the rest: a
largest probability stays largest, and equal ones, each at most half a decimal above their share,
have a confidence of at most one last decimal, whichever way ties go (`EqualOnes`). The assumptions
are those the schema and the settings justify: `ContentsAssumption` (no null for a state or a level,
two halves of a noul, no key twice), `NamesAssumption`, `BatchAssumption`, `OutcomeAssumption` (a
softmax adds up to one) and `UnitAssumption` (something is published).

`ReadUnderItsKey` takes the texts themselves: what stands at the place a number was read from, up
to the next option, begins with the name and ends with the description the client wrote under the
key the number is published under. For kev it holds whatever is written (`KevUnderItsKey`), because
no word of a client is a delimiter of kev's. laya's markers and jeff's codes are words a client can
write too, so a text read back from a row could end inside an option although the engine, which
goes by places and by the order of the codes, is not misled; `UnderItsKey` therefore speaks of requests whose texts are free of
them (`Unambiguous`), and of codes that differ, as `_jeff_vendor/decoder.py:91` makes them. All
six requests of the run are such requests. The argument: an option's span stands in
its row at the sum of the lengths before it; a span is one delimiter, marker or code and then words
that are none, so the place of an option is the last delimiter seen (kev), the one before the next
marker (laya) or the only place of its code (jeff); what is rendered there begins and ends as it
should (`Says`), keeps the client's names through `Prepare` (`Renders`), and keys are distinct.

## The playground's server: `Playground`, `MCPlayground`, `PlaygroundProofs`

One thread per request, a lock and a cached choice of engine. `cache` is `Engine._base_url` and
`_engine_id`, `lock` is `Engine._lock`, `next` the candidate `resolve` probes, `found` what it
returned; `up` is what a candidate address answers, which changes under the probes. A probe also misses an
address that is ready when the answer takes longer than `probe_timeout_s`, two seconds
(`server.py:190-194`): `Missed`. `steady` is a history: the addresses that have been ready ever
since a thread was asked and that no probe of its search has found too slow.

| run | instance | shows |
|---|---|---|
| `playground` | 2 handler threads and main, 2 addresses; engines stop, fail, answer too late, come back as another engine or as something that speaks no HTTP | "no engine is ready" is never the answer while one was ready all along and answered the search's own probe in time; when addresses keep their engines, the one that stays is found again |

Proved in `PlaygroundProofs` for any number of threads, candidates and engines, whatever the
engines do: the type invariant and `RefusalIsHonest`. The inductive invariant is `SearchInv`: a
search has not gone past an address that has been ready since its thread was asked and answered in
time, so one that comes to the end has none left. The assumption beyond positive bounds is that the name of an
engine is not one of the words for an address without one. `FoundAgainAsItself` is liveness and
model-checked.

`MaxTrouble` bounds stops, failed loads and slow answers, to a probe or to a forwarded request: one
is enough for a late failure to invalidate what another thread found, for a search to pass over a
ready engine, and for an address to come back as another engine. An engine that is too slow for ever
is not found, which is why `FoundAgainAsItself` needs the bound. Fairness:
threads run and probes end within their timeout, the lock is granted again and again (strong,
Python's `Lock` is handed out among few threads), the games keep asking, a load that started ends.
Stops and starts get none. Deadlock is off in `playground`: a main thread that met a non-HTTP
service while it started is dead, and the playground with it. `FoundAgainAsItself` has a premise
that matters: `resolve` returns the cached id for as long as the cache lives (`server.py:203`), so
an address that comes back as another engine is asked for the old model and answers 422 until a
request cannot reach it.

## The dinosaur: `Dino`, `DinoProofs`

One JavaScript thread, so a step is one run to completion: a frame, a landing call, a timer, a
button. `game` holds the epoch, the sequence numbers and the keys, `calls` the requests in flight,
`inflight` the page's own count, `hasCtrl` whether `abortCtrl` exists, `cold` the backoff. The
physics, planner and probabilities are left open: a frame may crash and a verdict may be any.
`missed` and `applied` are histories: what happened between a question and the use of its answer.

| run | instance | shows |
|---|---|---|
| `dino` | 2 calls in flight, 2 games, epochs to 4, 2 questions a game | an answer to this game is played only in the situation it was asked about, the in-flight counter is exact, there is always a next question |
| `dino_previous_game` | the same, epochs to 3 | violated: an answer about the previous game is applied to the new one |

Two calls can land in either order, two games can confuse their epochs, and the epochs leave room
for a key change, a crash and a mode switch in between. Fairness: the clock worker posts frames,
timers fire, calls settle (the proxy has a timeout); users owe nothing.

Proved in `DinoProofs` for any number of calls, games, epochs and questions: the type invariant,
`PremiseHeld` and `CountsCalls`. `PremiseHeld` is not inductive: the invariant `Dated` says of
every call about the game at hand that its epoch is not ahead of the game's, that it is behind
after any key, crash or mode switch, and that its number is not above the accepted one after a
newer answer. While the user plays, keys move without a new epoch; that is safe because every call
is already behind since the switch, which `Dated` says too. The assumption is that the browser
holds finitely many calls open. `KeepsAsking` is liveness and model-checked.

## The snake: `Snake`, `MCSnake`, `SnakeProofs`

The board, the planner (`explore`, `planMoves`, `spawnFood`) and the runs of `loop` that Start,
Pause, Reset and the mode switch begin and end. A run's epoch is compared for equality only, so a
run knows whether it is `current`; `inflight` is the page's flag. `Explore` finds the cells round by
round, worked out once for each head and set of obstacles.

| run | instance | shows |
|---|---|---|
| `snake` | 3 by 3, a snake of three cells, 2 overlapping runs | one loop drives a running game, the question flag is set exactly while a question is out, a late answer never moves the snake, each move of the model eats or approaches food that stays reachable |

The board is the page's 12 by 12 made small enough to be filled: every way to run into a corner,
to chase the own tail and to win occurs. Two runs are one that has been replaced and the one that
replaced it; a user who replaces a third while both still wait is not covered. The stored heading
of a manual game is forgotten while the model plays, where nothing reads it. This module has
safety only: that the game goes on follows from `FlagIsExact` and `OneLoop` together with timers.

Proved in `SnakeProofs` for any board and any number of runs that have not yet noticed that they
are over: `TypeOK`, `OneLoop`, `FlagIsExact`, `ModelNeverCollides` and `ModelApproaches`. The
invariant ties the runs to the page: a running game has exactly one current run (`LoopInv`), the
flag is set exactly while one run asks (`FlagInv`), what a current run has asked is what the board
now allows (`AskedInv`), and the snake is a walk that does not touch itself, with the food beside it
(`BoardInv`: a legal move may enter the cell the tail leaves, but no other). `ModelApproaches` rests
on `FoodGetsCloser`, the sentence the page's anti-hang argument starts from: while the food is
reachable there is a move that shortens the way. What `explore` finds in round n from the head it
finds in round n - 1 from some free cell beside the head, although the head itself is an obstacle
then; that is an induction over rounds. The assumption is that a new snake is a row of at least
three cells of the board, as `resetGame` lays it.

## The blocks: `Tetris`, `TetrisProofs`

The bag, the autopilot loop with its question, its prefetch and its drop, against Start, Pause,
Reset, the mode switch and the keys. The board's geometry is left out; whether a question is still
about the board as it is, is the history flag `fresh` of a loop, which the page does not have: its
own checks compare abort signals, the mode and the name of the piece.

| run | instance | shows |
|---|---|---|
| `tetris` | 2 piece names, bag refilled below 2, 2 overlapping loops | one loop acts and can be stopped, what passes the loop's checks is about this board, the piece the prefetch assumes is the one drawn, a game left to the model goes on |

Two names make the same piece come twice in a row, which is where a check by name can be fooled,
and both sides of the refill limit occur. Fairness: timers and frames fire, calls settle.

Proved in `TetrisProofs` for any pieces, any refill level and any number of loops not yet ended:
the type invariant (with it that the bag never holds two chunks), `OneLoop`, `LandsOnItsBoard` and
`PrefetchIsUsed`. `LoopInv` is the strengthening: a loop that can act is the one the controller
stops, it is about the piece and the board as they are, and while it drops, the prefetch is about
the board after the drop and the piece that will then be drawn. That is why a check by name is
enough. The assumption is a finite set of names, at least as many as the refill level. That the
game goes on is liveness and model-checked.

## The weights: `Weights`, `MCWeights`, `WeightsProofs`

`decis download` and the load of a server over the model directory (`dir`) and the two clients'
caches (`cache`). A checkpoint is a set of files that land one by one in any order; `procs` is
where each command is in its list of an adapter and the bases it needs. Usable means what
`checkpoint_root` tests: the marker file, and the shards an index names. `network` is which hubs
can be reached and what each holds: `choose` hears of it through a probe and two listings, each of
which may be refused or come too late, and a measured speed is left open.

| run | instance | shows |
|---|---|---|
| `weights` | an adapter in one file over a base in two shards, 8 networks, 2 troubles | what a download calls done a server finds, a named hub is the only one used, repeating a failed download succeeds, whichever hub was asked first |
| `weights_interrupted` | one trouble | violated: an interrupted download counts as a complete checkpoint |

A trouble is an interruption, a broken transfer, a failed copy, requests to a hub that are refused
or too late, or a client that returns early; two let one follow the other's debris. A download and a
load take turns: run at the same time, TLC finds the gap of `weights_interrupted` again, in time
instead of after a crash. The networks are those where every mirror is complete or not, Hugging Face
is blocked or lacks a repository, and nothing answers. Fairness: every client call ends, and the
user repeats a download that failed.

Proved in `WeightsProofs` for any list of checkpoints, any shards, any networks and any number of
troubles: the type invariant, `DownloadedIsFound` and `NamedHubOnly`. A download that is under way has either found a
checkpoint or still has it on its list (`FoundInv`), where "found" means where a server with the
same settings looks; downloads and loads take turns (`TurnInv`, the premise of the model); a named
hub is the only one any command or cache knows (`HubInv`). `WeightsAssumption` says that
there is something to fetch and that no shard has the name of the marker, the index or the weights.

## What the runs found

1. `jeff.py:320`: the engine says it is loaded before its warmup pass (`jeff_one_in_predict`).
2. `dino.html:913`: epochs of two games overlap, against the comment at 496 (`dino_previous_game`).
3. `paths.py:210`: an interrupted download is taken for complete (`weights_interrupted`).
4. `kev.py:456`: a question too long for kev raises while it is measured and is answered 500
   instead of 422, as is a choice without criteria for jeff (`jeff.py:439`); and kev measures a
   state with its plain tokenizer (`kev.py:438`) although `encode` spells markers out and is called
   without `strict=True` (`kev.py:472`), so such a state can be cut (`request_path_too_much`).

`PROJECT.json` quotes the lines each of them contradicts. Two more disagreements are part of the
models and have no run of their own; the properties are stated as the code has it:

- `docs/api.md:34` answers a token that does not match with 401. `hmac.compare_digest` (`auth.py:47`)
  raises `TypeError` for a text that is not ASCII, and `_reject_early` (`app.py:219`) catches only
  `DecisError`: a token outside ASCII is answered 500, and with a key outside ASCII every token is
  (`AuthRefusal`, `StrangersHearOneThing`).
- `answers.py:46` says a choice's confidence is 0 when all options are equally likely. It is computed
  from the rounded numbers and rounded again: 7 and 160 equal options have 0.0001 (`Clamp`,
  `AnswersAddUp`).

Every property of a passing run has a
mutant there: a plausible mistake, written beside the definition it replaces as `Mut...`, under
which TLC finds the property violated.

Every module with state has a type invariant `TypeOK`. It is checked by a run where it says more
than the other properties of that run (`snake`, `tetris`, `inference`) and proved for every one of
them.

## What the provers do not reach

Every invariant the passing runs check is stated by a theorem. Liveness under fairness stays with TLC: `EveryRequestSettles`, `ShutdownCompletes`,
`ProbeLearnsOutcome`, `FoundAgainAsItself`, `KeepsAsking`, `KeepsPlaying` and `RetryConverges`.
Theorems of the library that take an operator, the induction over natural numbers among them, cannot
be used. What recursion and folds compute is proved all the same, by induction over a set: the
numbers for which a fact holds contain 0 and with every number the next, so they are all, since the
least one missing would follow one that is not (`NatSet` in `InferenceProofs` and `SnakeProofs`). The
same induction first shows that the recursive function exists.

## Not modelled

Most of the configuration (parsing of files and the environment), devices, logging, the reporting
commands, the playground's shell pages, benchmarks and packaging: nothing is kept between requests
in these parts, or the outcome is decided by hardware or wording. Of the answers and the
rendering, the entropy confidence of a score, output tokens and the wording of nested values are
left out; of the vendored models, the networks, training, images and the paths Decis never calls.
`PROJECT.json` gives the reason for each.

Four hazards have no property, each with its reason in `PROJECT.json`: a first call that never
settles (`dino.html:512`), a candidate that speaks no HTTP (`server.py:193`), two turns within one
tick (`snake.html:968`) and a download beside a load (`paths.py:310`).

## Plan

The order was the server first (`SerialEngine`, `Server`, `ServerProofs`), then the parts where
late answers and failures meet state: the playground's server, the three games, the weights, then
the rules of the request path, what happens to a request inside the engine, and proofs for each of
them. What would come next:

1. an abstract game, "an answer moves only the board it was asked about", that the three pages
   implement;
2. more of the code under the models: the planner and the board of `tetris.html`, the physics of
   `dino.html`, the choice among the snake's moves, the parsing of the configuration;
3. downloads and loads at the same time in `Weights`, once the code decides what a half-fetched
   checkpoint is.
