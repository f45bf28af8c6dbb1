-------------------------------- MODULE Dino --------------------------------
(***************************************************************************)
(* The dinosaur page of the playground (playground/web/dino.html): a game  *)
(* that runs sixty frames a second while calls about it are in flight.     *)
(* The page is one JavaScript thread, so a step is one run to completion:  *)
(* a frame, a landing call, a timer, a button.  What an answer may do to   *)
(* the game is decided by two numbers it carries, its sequence number and  *)
(* the game's epoch at the time it was asked.                              *)
(*                                                                         *)
(* The physics, the planner and the probabilities are left open: whatever  *)
(* the board is, a frame may or may not crash and a verdict may be any.    *)
(***************************************************************************)
EXTENDS Integers, FiniteSets

CONSTANTS
    Calls,      \* the calls the browser can hold open at a time
    Limits,     \* the settings of "Requests in flight" the user picks from
    MaxGames,   \* bound: games begun
    MaxEpoch,   \* bound: the epoch of a game
    MaxSeq      \* bound: questions asked about one game

ASSUME DinoAssumption ==
    /\ IsFiniteSet(Calls) /\ Limits \subseteq 1..4 /\ Limits # {}
    /\ {MaxGames, MaxEpoch, MaxSeq} \subseteq Nat \ {0}

None == [seq |-> 0, epoch |-> 0, owned |-> FALSE, aborted |-> FALSE]

Actions == {"run", "duck", "jump"}

(***************************************************************************)
(* What can happen between a question and its answer.                      *)
(***************************************************************************)
Events == {"keys", "mode", "crash", "newer", "game"}

VARIABLES
    running,    \* the start button's state
    mode,       \* GameShell.mode(): who decides
    limit,      \* the value of "Requests in flight"
    game,       \* the game object
    gameSerial, \* games created so far
    inflight,   \* inflightCount
    calls,      \* the calls in flight, None where there is none
    hasCtrl,    \* abortCtrl is not null
    cold,       \* performance.now() < retryNotBefore
    retries,    \* timers a failure has set
    missed,     \* history: what happened since each call was asked
    applied     \* history: what the last answer applied had missed

vars == <<running, mode, limit, game, gameSerial, inflight, calls, hasCtrl,
          cold, retries, missed, applied>>

FreshGame(serial) ==
    [epoch |-> serial, seq |-> 0, accepted |-> 0,
     held |-> "run", jumping |-> FALSE, crashed |-> FALSE]

Init ==
    /\ running = FALSE /\ mode = "ai" /\ limit \in Limits
    /\ game = FreshGame(1) /\ gameSerial = 1
    /\ inflight = 0 /\ calls = [c \in Calls |-> None]
    /\ hasCtrl = FALSE /\ cold = FALSE /\ retries = 0
    /\ missed = [c \in Calls |-> {}] /\ applied = {}

Outstanding == {c \in Calls : calls[c] # None}

Playing == running /\ mode = "ai" /\ ~game.crashed

\* Every call in flight has now missed these events.
Missing(events) ==
    [c \in Calls |-> IF c \in Outstanding THEN missed[c] \union events ELSE {}]

-----------------------------------------------------------------------------
(***************************************************************************)
(* Keys.  A tap jumps only from the ground; every other action is held.    *)
(***************************************************************************)
Press(g, action) ==
    IF action = "jump" THEN [g EXCEPT !.jumping = TRUE, !.held = "run"]
                       ELSE [g EXCEPT !.held = action]

ChangesKeys(g, action) ==
    IF action = "jump" THEN ~g.jumping \/ g.held # "run" ELSE action # g.held

\* Mistake: only the safety net and the mode switch move the epoch.
MutPlay(g, action) == Press(g, action)

(***************************************************************************)
(* The key change of an accepted answer, which dates the answers still out.*)
(***************************************************************************)
Play(g, action) ==
    Press([g EXCEPT !.epoch = IF ChangesKeys(g, action) THEN @ + 1 ELSE @], action)

(***************************************************************************)
(* querySystemOne up to its first await: the state of the page is g, run,  *)
(* calls cs, histories ms and counter n; ask when a caller wants to and    *)
(* nothing forbids it.                                                     *)
(***************************************************************************)
MayAsk(g, run, n, frozen) ==
    /\ run /\ ~g.crashed /\ mode = "ai" /\ ~frozen
    /\ n < limit
    /\ g.seq < MaxSeq

AskIf(wanted, g, run, cs, ms, n, frozen) ==
    LET free == {c \in Calls : cs[c] = None} IN
    IF wanted /\ MayAsk(g, run, n, frozen) /\ free # {}
    THEN LET c == CHOOSE c \in free : TRUE IN
         /\ game' = [g EXCEPT !.seq = @ + 1]
         /\ calls' = [cs EXCEPT ![c] = [seq |-> g.seq + 1, epoch |-> g.epoch,
                                        owned |-> hasCtrl, aborted |-> FALSE]]
         /\ missed' = [ms EXCEPT ![c] = {}]
         /\ inflight' = n + 1
    ELSE game' = g /\ calls' = cs /\ missed' = ms /\ inflight' = n

-----------------------------------------------------------------------------
(***************************************************************************)
(* A call lands.  Whatever it brought, its `finally` gives the place back  *)
(* and asks again when the pipeline has run dry.                           *)
(***************************************************************************)
\* Mistake: a call that fails does not give its place back.
MutFinally(c, g, ms, failed, frozen) ==
    LET n == IF failed THEN inflight ELSE inflight - 1
        dry == running /\ ~g.crashed /\ n = 0 IN
    /\ AskIf(dry /\ ~failed, g, running, [calls EXCEPT ![c] = None],
             [ms EXCEPT ![c] = {}], n, frozen)
    /\ retries' = IF dry /\ failed THEN retries + 1 ELSE retries

\* The `finally` of a call that failed, or did not.
Finally(c, g, ms, failed, frozen) ==
    LET dry == running /\ ~g.crashed /\ inflight - 1 = 0 IN
    /\ AskIf(dry /\ ~failed, g, running, [calls EXCEPT ![c] = None],
             [ms EXCEPT ![c] = {}], inflight - 1, frozen)
    /\ retries' = IF dry /\ failed THEN retries + 1 ELSE retries

Premise(call) == call.seq > game.accepted /\ call.epoch = game.epoch

\* The answer is about the game as it is: its action is played.
LandAccepted(c) ==
    /\ calls[c] # None /\ ~calls[c].aborted
    /\ running /\ ~game.crashed /\ Premise(calls[c])
    /\ game.epoch < MaxEpoch
    /\ \E action \in Actions :
         LET g == [Play(game, action) EXCEPT !.accepted = calls[c].seq]
             keys == IF ChangesKeys(game, action) THEN {"keys"} ELSE {}
             older(d) == IF d \in Outstanding /\ calls[d].seq < calls[c].seq
                         THEN {"newer"} ELSE {}
             ms == [d \in Calls |-> Missing(keys)[d] \union older(d)]
         IN  Finally(c, g, ms, FALSE, cold)
    /\ applied' = missed[c]
    /\ UNCHANGED <<running, mode, limit, gameSerial, hasCtrl, cold>>

\* The answer came too late, or to a page that does not want it.
LandDropped(c) ==
    /\ calls[c] # None
    /\ \/ calls[c].aborted
       \/ ~running \/ game.crashed \/ ~Premise(calls[c])
    /\ Finally(c, game, missed, FALSE, cold)
    /\ UNCHANGED <<running, mode, limit, gameSerial, hasCtrl, cold, applied>>

\* The network, the status or the body failed: back off.
LandFailed(c) ==
    /\ calls[c] # None /\ ~calls[c].aborted
    /\ cold' = TRUE
    /\ Finally(c, game, missed, TRUE, TRUE)
    /\ UNCHANGED <<running, mode, limit, gameSerial, hasCtrl, applied>>

Land(c) == LandAccepted(c) \/ LandDropped(c) \/ LandFailed(c)

\* A quarter of a second after the last failure.
BackoffEnds ==
    /\ cold /\ cold' = FALSE
    /\ UNCHANGED <<running, mode, limit, game, gameSerial, inflight, calls,
                   hasCtrl, retries, missed, applied>>

RetryFires ==
    /\ retries > 0 /\ retries' = retries - 1
    /\ AskIf(TRUE, game, running, calls, missed, inflight, cold)
    /\ UNCHANGED <<running, mode, limit, gameSerial, hasCtrl, cold, applied>>

-----------------------------------------------------------------------------
(***************************************************************************)
(* A frame of tickPhysics.                                                 *)
(***************************************************************************)
\* The safety net overrules the keys when the planner sees a crash coming.
Rescued(g) ==
    {g} \union (IF mode = "ai" /\ g.epoch < MaxEpoch
                THEN {Press([g EXCEPT !.epoch = @ + 1], a) : a \in Actions \ {g.held}}
                ELSE {})

Landed(g) == {g, [g EXCEPT !.jumping = FALSE]}

Hit(g) ==
    {g} \union (IF g.epoch < MaxEpoch
                THEN {[g EXCEPT !.crashed = TRUE, !.epoch = @ + 1]} ELSE {})

\* `due`: 36 ms have passed since the last request of a frame.
Frame(due) ==
    /\ running /\ ~game.crashed
    /\ \E r \in Rescued(game) : \E l \in Landed(r) : \E g \in Hit(l) :
       \E autorestart \in BOOLEAN :
         LET run == g.crashed => autorestart
             wanted == IF limit = 1 THEN inflight = 0 ELSE due
             events == (IF r.held # game.held \/ r.jumping # game.jumping
                        THEN {"keys"} ELSE {})
                       \union (IF g.crashed THEN {"crash"} ELSE {})
         IN  /\ running' = run
             /\ AskIf(wanted, g, run, calls, Missing(events), inflight, cold)
    /\ UNCHANGED <<mode, limit, gameSerial, hasCtrl, cold, retries, applied>>

\* With "auto restart" the same game begins again after the cooldown.
Revive ==
    /\ running /\ game.crashed /\ game.epoch < MaxEpoch
    /\ LET g == [game EXCEPT !.crashed = FALSE, !.held = "run",
                             !.jumping = FALSE, !.epoch = @ + 1]
       IN  AskIf(TRUE, g, running, calls, missed, inflight, cold)
    /\ UNCHANGED <<running, mode, limit, gameSerial, hasCtrl, cold, retries, applied>>

-----------------------------------------------------------------------------
(***************************************************************************)
(* The buttons and the keyboard.                                           *)
(***************************************************************************)
NewGame == /\ gameSerial < MaxGames /\ gameSerial' = gameSerial + 1
           /\ game' = FreshGame(gameSerial + 1)

\* Start after a crash begins a new game; the old one's calls stay open.
StartAfterCrash ==
    /\ game.crashed
    /\ NewGame
    /\ running' = TRUE
    /\ missed' = Missing({"game"})
    /\ UNCHANGED <<mode, limit, inflight, calls, hasCtrl, cold, retries, applied>>

StartOrPause ==
    /\ ~game.crashed
    /\ running' = ~running
    /\ UNCHANGED <<mode, limit, game, gameSerial, inflight, calls, hasCtrl,
                   cold, retries, missed, applied>>

\* Mistake: Reset zeroes the counter of the calls it leaves open.
MutReset ==
    /\ NewGame
    /\ calls' = [c \in Calls |-> [calls[c] EXCEPT !.aborted = @ \/ calls[c].owned]]
    /\ hasCtrl' = TRUE
    /\ missed' = Missing({"game"})
    /\ inflight' = 0
    /\ UNCHANGED <<running, mode, limit, cold, retries, applied>>

\* Reset aborts the calls of the controller there is, if there is one.
Reset ==
    /\ NewGame
    /\ calls' = [c \in Calls |-> [calls[c] EXCEPT !.aborted = @ \/ calls[c].owned]]
    /\ hasCtrl' = TRUE
    /\ missed' = Missing({"game"})
    /\ UNCHANGED <<running, mode, limit, inflight, cold, retries, applied>>

SwitchMode ==
    /\ game.epoch < MaxEpoch
    /\ mode' = IF mode = "ai" THEN "manual" ELSE "ai"
    /\ game' = [game EXCEPT !.epoch = @ + 1, !.held = "run"]
    /\ missed' = Missing({"mode"})
    /\ UNCHANGED <<running, limit, gameSerial, inflight, calls, hasCtrl, cold,
                   retries, applied>>

PressKey(action) ==
    /\ mode = "manual"
    /\ \/ action = "run"      \* the down arrow is released
       \/ running /\ ~game.crashed
    /\ game' = IF action = "run" THEN [game EXCEPT !.held = "run"] ELSE Press(game, action)
    /\ missed' = Missing({"keys"})
    /\ UNCHANGED <<running, mode, limit, gameSerial, inflight, calls, hasCtrl,
                   cold, retries, applied>>

SetLimit ==
    /\ limit' \in Limits
    /\ UNCHANGED <<running, mode, game, gameSerial, inflight, calls, hasCtrl,
                   cold, retries, missed, applied>>

User == \/ StartAfterCrash \/ StartOrPause \/ Reset \/ SwitchMode \/ SetLimit
        \/ \E action \in Actions : PressKey(action)

Next ==
    \/ \E c \in Calls : Land(c)
    \/ BackoffEnds \/ RetryFires
    \/ \E due \in BOOLEAN : Frame(due)
    \/ Revive
    \/ User

Spec == Init /\ [][Next]_vars

(***************************************************************************)
(* The clock worker posts sixty frames a second, a timer fires, and a call *)
(* settles, if only because the proxy times out.  Users owe nothing.       *)
(***************************************************************************)
FairSpec == /\ Spec
            /\ WF_vars(Frame(TRUE)) /\ WF_vars(BackoffEnds)
            /\ \A c \in Calls : WF_vars(Land(c))

-----------------------------------------------------------------------------
(***************************************************************************)
(* The state is well typed.                                                *)
(***************************************************************************)
TypeOK ==
    /\ running \in BOOLEAN /\ mode \in {"ai", "manual"} /\ limit \in Limits
    /\ game \in [epoch : Nat, seq : 0..MaxSeq, accepted : 0..MaxSeq,
                 held : {"run", "duck"}, jumping : BOOLEAN, crashed : BOOLEAN]
    /\ gameSerial \in 1..MaxGames
    /\ inflight \in Int /\ retries \in Nat
    /\ calls \in [Calls -> [seq : 0..MaxSeq, epoch : Nat,
                            owned : BOOLEAN, aborted : BOOLEAN]]
    /\ hasCtrl \in BOOLEAN /\ cold \in BOOLEAN
    /\ missed \in [Calls -> SUBSET Events] /\ applied \in SUBSET Events

(***************************************************************************)
(* An answer that changes the game it was asked about was asked about the  *)
(* very situation it changes: since the question no key was moved, no      *)
(* newer answer was applied, nobody switched who decides and the dinosaur  *)
(* did not die, whatever landed, crashed or was pressed in between         *)
(* (dino.html:1246, the premise check, and the epochs it compares).        *)
(***************************************************************************)
PremiseHeld == "game" \notin applied => applied = {}

(***************************************************************************)
(* No answer about a previous game is ever applied to a new one            *)
(* (dino.html:496-497, 910-913).                                           *)
(***************************************************************************)
AnswersThisGame == "game" \notin applied

(***************************************************************************)
(* The counter that gates every request equals the calls really in flight, *)
(* through resets, aborts, failures and pauses (dino.html:1653-1656).      *)
(***************************************************************************)
CountsCalls == inflight = Cardinality(Outstanding)

(***************************************************************************)
(* The pipeline never stalls: while the model plays, there is always a     *)
(* next question (dino.html:1302-1309 and 1514-1518, and the test that     *)
(* says the AI "stopped asking while the game kept running").              *)
(***************************************************************************)
KeepsAsking == Playing ~> (Outstanding # {} \/ ~Playing \/ game.seq = MaxSeq)
=============================================================================
