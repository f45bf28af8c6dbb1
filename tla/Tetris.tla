------------------------------- MODULE Tetris -------------------------------
(***************************************************************************)
(* The blocks page of the playground (playground/web/tetris.html): the     *)
(* autopilot loop with its question, its prefetch and its drop, against    *)
(* the player who takes the piece over, pauses, resets and resumes.        *)
(*                                                                         *)
(* A step is one run to completion of the page's single thread.  The board *)
(* is only known by its changes: a loop remembers whether the board is     *)
(* still the one its question is about, which the page never compares.     *)
(*                                                                         *)
(* A question is answered by the engine or, when that fails, by the page   *)
(* itself: either way by a placement.  It is rejected for an aborted loop  *)
(* alone.  `placements` is never empty: the piece that is current does not *)
(* collide where it spawns, and there is a place straight below.           *)
(***************************************************************************)
EXTENDS Integers, Sequences, FiniteSets, SequencesExt

CONSTANTS
    PIECE_NAMES,
    LOW,     \* a bag with fewer pieces is refilled (4 in the page)
    Slots,   \* bound: loops that have not yet noticed that they are over
    None     \* no controller, no piece

ASSUME TetrisAssumption ==
    /\ IsFiniteSet(PIECE_NAMES)
    /\ LOW \in Nat \ {0} /\ LOW <= Cardinality(PIECE_NAMES)
    /\ None \notin PIECE_NAMES \union Slots

VARIABLES
    bag,        \* drawn from the end
    game,       \* current, next, running, over, and where the active piece is
    mode,       \* GameShell.mode()
    loops,      \* the runs of runAutopilotLoop
    abortCtrl,  \* the loop the controller at hand belongs to
    prefetch    \* prefetchEntry: the board it is about, the next piece it assumes

vars == <<bag, game, mode, loops, abortCtrl, prefetch>>

(***************************************************************************)
(* Where the active piece is: at its spawn, where the player moved it, or  *)
(* between two rows, where a frame of the model's drop left it.            *)
(***************************************************************************)
Places == {"none", "spawn", "moved", "between rows"}
NoLoop == [pc |-> "none", piece |-> None, fresh |-> FALSE, aborted |-> FALSE, answered |-> FALSE]
NoPrefetch == [about |-> "none", next |-> None, answered |-> FALSE]

-----------------------------------------------------------------------------
\* Mistake: a bag that needs no pieces gets them as well.
MutRefills(b) == {chunk \o b : chunk \in SetToSeqs(PIECE_NAMES)}

\* What nextFromBag and peekBag both do first.
Refills(b) == IF Len(b) < LOW THEN {chunk \o b : chunk \in SetToSeqs(PIECE_NAMES)} ELSE {b}

Fresh(b) ==
    UNION {UNION {{[bag |-> Front(c), current |-> Last(d), next |-> Last(c)] :
                      c \in Refills(Front(d))} : d \in Refills(b)}}

\* resetGame's own fields, with a piece and the next one drawn from a new bag.
NewGame(f) == [current |-> f.current, next |-> f.next,
               running |-> FALSE, over |-> FALSE, active |-> "spawn"]

Init ==
    /\ \E d \in Fresh(<<>>) : bag = d.bag /\ game = NewGame(d)
    /\ mode = "ai" /\ abortCtrl = None /\ prefetch = NoPrefetch
    /\ loops = [s \in Slots |-> NoLoop]

\* The board changes: no open question is about it any more.
Changed(ls) == [s \in Slots |-> [ls[s] EXCEPT !.fresh = FALSE]]

\* Mistake: the controller is dropped without being told.
MutAborted(ls) == ls

Aborted(ls) == IF abortCtrl = None THEN ls ELSE [ls EXCEPT ![abortCtrl].aborted = TRUE]

\* lockAndAdvance and, when the next piece has no room, finishGame.
LockAndAdvance(ma) ==
    {[bag |-> Front(b),
      game |-> [current |-> game.next, next |-> Last(b), running |-> ~out, over |-> out,
                active |-> IF ma = "manual" /\ ~out THEN "spawn" ELSE "none"]] :
        b \in Refills(bag), out \in BOOLEAN}

(***************************************************************************)
(* The loop from its `while` to its next wait, for the game g, the mode    *)
(* ma, the loops ls and the prefetch p.                                    *)
(***************************************************************************)
Pass(s, g, ma, ls, p) ==
    LET used == p.about = "this board"
    IN  /\ game' = g
        /\ IF ~g.running \/ g.over \/ ls[s].aborted
           THEN loops' = [ls EXCEPT ![s] = NoLoop] /\ prefetch' = p
           ELSE IF ma # "ai"
           THEN loops' = [ls EXCEPT ![s] = [NoLoop EXCEPT !.pc = "idle"]] /\ prefetch' = p
           ELSE /\ loops' = [ls EXCEPT ![s] = [pc |-> "deciding", piece |-> g.current,
                                               fresh |-> TRUE, aborted |-> FALSE,
                                               answered |-> used /\ p.answered]]
                /\ prefetch' = IF used THEN NoPrefetch ELSE p

-----------------------------------------------------------------------------
(***************************************************************************)
(* What the loops do.                                                      *)
(***************************************************************************)
\* Whatever an aborted loop waits for, it returns from it and ends.
Ends(s) ==
    /\ loops[s].pc # "none" /\ loops[s].aborted
    /\ loops' = [loops EXCEPT ![s] = NoLoop]
    /\ UNCHANGED <<bag, game, mode, abortCtrl, prefetch>>

Wakes(s) ==
    /\ loops[s].pc = "idle" /\ ~loops[s].aborted
    /\ Pass(s, game, mode, loops, prefetch)
    /\ UNCHANGED <<bag, mode, abortCtrl>>

\* askJev settles.
Answer(s) ==
    /\ loops[s].pc = "deciding" /\ ~loops[s].answered
    /\ loops' = [loops EXCEPT ![s].answered = TRUE]
    /\ UNCHANGED <<bag, game, mode, abortCtrl, prefetch>>

PrefetchAnswer ==
    /\ prefetch.about # "none" /\ ~prefetch.answered
    /\ prefetch' = [prefetch EXCEPT !.answered = TRUE]
    /\ UNCHANGED <<bag, game, mode, loops, abortCtrl>>

\* Is the piece still the one the answer is about, and still the model's?
StillIts(s) == mode = "ai" /\ game.current = loops[s].piece

\* Mistake: the peek looks at the end the chunks are added to.
MutPeeked(b) == Head(b)

\* peekBag, once the bag is refilled: the piece nextFromBag would draw.
Peeked(b) == Last(b)

\* The decision is taken, the next one asked for ahead of time.
Decide(s) ==
    /\ loops[s].pc = "deciding" /\ loops[s].answered /\ ~loops[s].aborted
    /\ IF ~game.running
       THEN loops' = [loops EXCEPT ![s] = NoLoop] /\ UNCHANGED <<bag, game, prefetch>>
       ELSE IF ~StillIts(s)
       THEN Pass(s, game, mode, loops, prefetch) /\ bag' = bag
       ELSE \E b \in Refills(bag) :
               /\ bag' = b
               /\ loops' = [loops EXCEPT ![s].pc = "dropping"]
               /\ prefetch' = [about |-> "next board", next |-> Peeked(b), answered |-> FALSE]
               /\ game' = game
    /\ UNCHANGED <<mode, abortCtrl>>

\* A frame of animateDrop60Fps before the last one.
Falls(s) ==
    /\ loops[s].pc = "dropping" /\ ~loops[s].aborted /\ game.running
    /\ game' = [game EXCEPT !.active = "between rows"]
    /\ UNCHANGED <<bag, mode, loops, abortCtrl, prefetch>>

\* The drop ends: the piece is locked, and the loop goes round.
Lands(s) ==
    /\ loops[s].pc = "dropping" /\ ~loops[s].aborted
    /\ IF ~game.running
       THEN loops' = [loops EXCEPT ![s] = NoLoop] /\ UNCHANGED <<bag, game, prefetch>>
       ELSE IF ~StillIts(s)
       THEN Pass(s, game, mode, loops, prefetch) /\ bag' = bag
       ELSE \E l \in LockAndAdvance(mode) :
               LET met == prefetch.about = "next board" /\ prefetch.next = l.game.next
               IN  /\ bag' = l.bag
                   /\ Pass(s, l.game, mode, Changed(loops),
                           IF prefetch.about = "none" THEN prefetch
                           ELSE [prefetch EXCEPT !.about = IF met THEN "this board" ELSE "no board"])
    /\ UNCHANGED <<mode, abortCtrl>>

-----------------------------------------------------------------------------
(***************************************************************************)
(* What the user does.                                                     *)
(***************************************************************************)
Reset ==
    /\ \E d \in Fresh(<<>>) : bag' = d.bag /\ game' = NewGame(d)
    /\ loops' = Changed(Aborted(loops))
    /\ abortCtrl' = None /\ prefetch' = NoPrefetch
    /\ UNCHANGED mode

\* The tail of startGame: a piece at its spawn is armed again, another stays.
Armed(g) ==
    [g EXCEPT !.running = TRUE,
              !.active = IF mode = "manual" /\ g.active = "none" THEN "spawn" ELSE g.active]

Run(g, ls, p) ==
    \E s \in Slots :
        /\ loops[s].pc = "none"
        /\ abortCtrl' = s
        /\ Pass(s, Armed(g), mode, [ls EXCEPT ![s] = NoLoop], p)

Start ==
    /\ ~game.running
    /\ IF game.over
       THEN \E d \in Fresh(<<>>) :
               bag' = d.bag /\ Run(NewGame(d), Changed(Aborted(loops)), NoPrefetch)
       ELSE Run(game, loops, prefetch) /\ bag' = bag
    /\ UNCHANGED mode

Pause ==
    /\ game.running
    /\ game' = [game EXCEPT !.running = FALSE]
    /\ loops' = Aborted(loops)
    /\ UNCHANGED <<bag, mode, abortCtrl, prefetch>>

\* Mistake: the model's drop is not stopped before the piece is handed over.
MutToManual ==
    /\ mode = "ai" /\ mode' = "manual"
    /\ prefetch' = NoPrefetch
    /\ IF game.running
       THEN /\ loops' = loops /\ abortCtrl' = None
            /\ game' = [game EXCEPT !.active = "spawn"]
       ELSE UNCHANGED <<game, loops, abortCtrl>>
    /\ UNCHANGED bag

ToManual ==
    /\ mode = "ai" /\ mode' = "manual"
    /\ prefetch' = NoPrefetch
    /\ IF game.running
       THEN /\ loops' = Aborted(loops) /\ abortCtrl' = None
            /\ game' = [game EXCEPT !.active = "spawn"]
       ELSE UNCHANGED <<game, loops, abortCtrl>>
    /\ UNCHANGED bag

\* Mistake: the loop is taken to be still there.
MutToAI ==
    /\ mode = "manual" /\ mode' = "ai"
    /\ prefetch' = NoPrefetch
    /\ UNCHANGED <<bag, game, loops, abortCtrl>>

ToAI ==
    /\ mode = "manual" /\ mode' = "ai"
    /\ IF game.running
       THEN \E s \in Slots :
               /\ loops[s].pc = "none"
               /\ abortCtrl' = s
               /\ Pass(s, game, "ai", [Aborted(loops) EXCEPT ![s] = NoLoop], NoPrefetch)
       ELSE prefetch' = NoPrefetch /\ UNCHANGED <<game, loops, abortCtrl>>
    /\ UNCHANGED bag

(***************************************************************************)
(* The keys of a manual game.  Between two rows every one of them throws   *)
(* out of `collides`, which indexes the board with a fraction.             *)
(***************************************************************************)
Playable ==
    mode = "manual" /\ game.running /\ ~game.over /\ game.active \in {"spawn", "moved"}

Move ==
    /\ Playable
    /\ game' = [game EXCEPT !.active = "moved"]
    /\ UNCHANGED <<bag, mode, loops, abortCtrl, prefetch>>

HardDrop ==
    /\ Playable
    /\ \E l \in LockAndAdvance(mode) : bag' = l.bag /\ game' = l.game
    /\ loops' = Changed(loops)
    /\ prefetch' = IF prefetch.about = "none" THEN prefetch
                   ELSE [prefetch EXCEPT !.about = "no board"]
    /\ UNCHANGED <<mode, abortCtrl>>

LoopStep(s) == Ends(s) \/ Wakes(s) \/ Answer(s) \/ Decide(s) \/ Lands(s)

Next ==
    \/ \E s \in Slots : LoopStep(s) \/ Falls(s)
    \/ PrefetchAnswer
    \/ Reset \/ Start \/ Pause \/ ToManual \/ ToAI \/ Move \/ HardDrop

Spec == Init /\ [][Next]_vars

(***************************************************************************)
(* Timers and frames fire and calls settle; nobody has to press a key.     *)
(***************************************************************************)
FairSpec == Spec /\ WF_vars(PrefetchAnswer) /\ \A s \in Slots : WF_vars(LoopStep(s))

-----------------------------------------------------------------------------
(***************************************************************************)
(* The state is well typed, and the bag holds less than two chunks.        *)
(***************************************************************************)
TypeOK ==
    /\ bag \in Seq(PIECE_NAMES) /\ Len(bag) < Cardinality(PIECE_NAMES) + LOW
    /\ game \in [current : PIECE_NAMES, next : PIECE_NAMES, active : Places,
                 running : BOOLEAN, over : BOOLEAN]
    /\ ~(game.running /\ game.over)
    /\ mode \in {"ai", "manual"} /\ abortCtrl \in Slots \union {None}
    /\ loops \in [Slots -> [pc : {"none", "idle", "deciding", "dropping"},
                            piece : PIECE_NAMES \union {None}, fresh : BOOLEAN,
                            aborted : BOOLEAN, answered : BOOLEAN]]
    /\ prefetch \in [about : {"none", "this board", "next board", "no board"},
                     next : PIECE_NAMES \union {None}, answered : BOOLEAN]

Live == {s \in Slots : loops[s].pc # "none" /\ ~loops[s].aborted}

(***************************************************************************)
(* However it was paused, resumed, reset and switched, at most one loop is *)
(* left to act on the game, the controller at hand can stop it, and a      *)
(* running AI game has one (tetris.html:1609-1611, 1655, 1724-1733).       *)
(***************************************************************************)
OneLoop ==
    /\ Live \subseteq {abortCtrl}
    /\ game.running /\ mode = "ai" => Live # {}

(***************************************************************************)
(* "The piece that lands has to be the piece the decision was about"       *)
(* (tetris.html:1547-1550, test_playground.py:678-688): what passes the    *)
(* loop's checks is about the board as it is.  The checks compare piece    *)
(* names, and two pieces in a row may have the same one.                   *)
(***************************************************************************)
LandsOnItsBoard ==
    \A s \in Live :
        loops[s].pc \in {"deciding", "dropping"} /\ game.running /\ StillIts(s) => loops[s].fresh

(***************************************************************************)
(* The piece the prefetch assumes is the piece that is drawn: when the     *)
(* model's own drop lands, the question asked ahead is the next question   *)
(* (tetris.html:1068-1091, 1530-1540).                                     *)
(***************************************************************************)
PrefetchIsUsed ==
    [][\A s \in Slots :
        loops[s].pc = "dropping" /\ Lands(s) /\ loops'[s].pc = "deciding" =>
            prefetch.about = "next board" /\ prefetch' = NoPrefetch]_vars

(***************************************************************************)
(* A game that is left to the model goes on: piece after piece is decided  *)
(* and dropped (tetris.html:1477-1555, 1729-1733).                         *)
(***************************************************************************)
KeepsPlaying ==
    <>[](game.running /\ mode = "ai") => []<>(\E s \in Live : loops[s].pc = "dropping")
=============================================================================
