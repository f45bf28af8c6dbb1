-------------------------------- MODULE Snake -------------------------------
(***************************************************************************)
(* The snake page of the playground (playground/web/snake.html): the       *)
(* board, the planner that restricts what the model may play, and the runs *)
(* that Start, Pause, Reset and the mode switch begin and end while an     *)
(* answer is still on the wire.                                            *)
(*                                                                         *)
(* A step is one run to completion of the page's single thread.  A run's   *)
(* epoch is compared for equality only, so a run just knows whether it is  *)
(* still the current one: bumping loopToken retires every run there is.    *)
(***************************************************************************)
EXTENDS Integers, Sequences, FiniteSets

CONSTANTS
    GRID,    \* cells in a row and in a column
    Start,   \* the snake of a new game, head first, heading right
    Slots    \* bound: runs that have not yet noticed that they are over

Cells == (0..GRID-1) \X (0..GRID-1)
DIRS == {"up", "down", "left", "right"}
VEC == [up |-> <<0, -1>>, down |-> <<0, 1>>, left |-> <<-1, 0>>, right |-> <<1, 0>>]
Opposite == [up |-> "down", down |-> "up", left |-> "right", right |-> "left"]

\* resetGame: a snake of at least three cells, in a row.
ASSUME SnakeAssumption ==
    /\ GRID \in Nat \ {0}
    /\ Start \in Seq(Cells) /\ Len(Start) >= 3
    /\ \E x \in 1..GRID, y \in 0..GRID-1 : \A i \in DOMAIN Start : Start[i] = <<x - i, y>>

Step(cell, d) == <<cell[1] + VEC[d][1], cell[2] + VEC[d][2]>>
SetOf(cells) == {cells[i] : i \in DOMAIN cells}
Middle(body) == SubSeq(body, 2, Len(body) - 1)
Front(body) == SubSeq(body, 1, Len(body) - 1)
NoFood == <<-1, -1>>

(***************************************************************************)
(* explore: the cells that can be walked to from `start`, each with its    *)
(* distance.                                                               *)
(***************************************************************************)
CellsOf(found) == {at[1] : at \in found}

\* The free cells beside those that have been found.
Ring(found, blocked) ==
    {c \in Cells \ (blocked \union CellsOf(found)) : \E d \in DIRS : Step(c, d) \in CellsOf(found)}

\* What is found in n rounds.
Rounds(start, blocked) ==
    LET found[n \in 0..GRID*GRID] ==
            IF n = 0 THEN {<<start, 0>>}
            ELSE LET before == found[n-1]
                 IN  before \union {<<c, n>> : c \in Ring(before, blocked)}
    IN  found

\* A function of the cell and the obstacles, so that it is worked out once.
Explore ==
    [start \in Cells |-> [blocked \in SUBSET Cells |-> Rounds(start, blocked)[GRID*GRID]]]

\* The walk of a snake that moves on: the tail is no obstacle.
Walk(body) ==
    LET found == Explore[Head(body)][SetOf(Middle(body))]
    IN  [c \in CellsOf(found) |-> CHOOSE n \in 0..GRID*GRID : <<c, n>> \in found]

\* spawnFood: the free cells the head can walk to.
Spawnable(body) == {c \in Cells \ SetOf(body) : c \in DOMAIN Walk(body)}

-----------------------------------------------------------------------------
(***************************************************************************)
(* planMoves.                                                              *)
(***************************************************************************)
\* Mistake: the cell the tail left a move ago counts as free as well.
MutLegal(g) == {d \in DIRS : /\ Step(Head(g.snake), d) \in Cells
                             /\ Step(Head(g.snake), d) \notin SetOf(Front(Front(g.snake)))}

Legal(g) == {d \in DIRS : /\ Step(Head(g.snake), d) \in Cells
                          /\ Step(Head(g.snake), d) \notin SetOf(Front(g.snake))}

After(g, d) ==
    LET to == Step(Head(g.snake), d)
    IN  <<to>> \o (IF to = g.food THEN g.snake ELSE Front(g.snake))

Reachable(g) == g.food \in DOMAIN Walk(g.snake)

Closer(g) ==
    LET now == Walk(g.snake)
    IN  {d \in Legal(g) :
            LET then == Walk(After(g, d))
            IN  /\ g.food \in DOMAIN now /\ g.food \in DOMAIN then
                /\ then[g.food] < now[g.food]}

Untrapped(g) ==
    {d \in Legal(g) :
        \/ d \in Closer(g)
        \/ LET then == Walk(After(g, d))
           IN  g.food \in DOMAIN then /\ Cardinality(DOMAIN then) >= Len(g.snake)}

\* Mistake: every move that does not trap the snake is worth playing.
MutAllowed(g) == IF Untrapped(g) # {} THEN Untrapped(g) ELSE Legal(g)

Allowed(g) == IF Closer(g) # {} THEN Closer(g)
              ELSE IF Untrapped(g) # {} THEN Untrapped(g) ELSE Legal(g)

\* What stepOnce can play: the shield keeps the model within `allowed`, and
\* with nothing allowed the snake holds its heading.
Choices(g) == IF Allowed(g) # {} THEN Allowed(g) ELSE {g.direction}

-----------------------------------------------------------------------------
(***************************************************************************)
(* applyMove: the games a move can lead to (the food lands anywhere it     *)
(* may), and resetGame's.                                                  *)
(***************************************************************************)
ApplyMove(g, d) ==
    LET body == After(g, d)
        moved == [g EXCEPT !.snake = body, !.direction = d]
    IN  IF d \notin Legal(g)
        THEN {[g EXCEPT !.ending = IF Legal(g) # {} THEN "collision" ELSE "trapped"]}
        ELSE IF Head(body) # g.food THEN {moved}
        ELSE IF Spawnable(body) # {} THEN {[moved EXCEPT !.food = f] : f \in Spawnable(body)}
        ELSE {[moved EXCEPT !.food = NoFood,
                            !.ending = IF Len(body) = GRID*GRID THEN "won" ELSE "trapped"]}

NewGames == {[snake |-> Start, food |-> f, direction |-> "right", ending |-> "none"] :
                f \in Spawnable(Start)}

Over(g) == g.ending # "none"

-----------------------------------------------------------------------------
VARIABLES
    game,       \* snake, food, direction, and how the game ended
    mode,       \* GameShell.mode()
    running,
    inflight,   \* stepOnce is waiting for an answer
    manualDir,  \* the heading the next manual tick plays; the page keeps an old one
                \* while the model plays, which nothing reads: then it is "right" here
    runs        \* the loops: where each is, what it asked, whether it is current

vars == <<game, mode, running, inflight, manualDir, runs>>

Idle == [pc |-> "none", current |-> FALSE, asked |-> {}]

Init ==
    /\ game \in NewGames
    /\ mode = "ai" /\ running = FALSE /\ inflight = FALSE /\ manualDir = "right"
    /\ runs = [s \in Slots |-> Idle]

\* Mistake: what replaces a run leaves it current.
MutRetired(rs) == rs

\* cancelRun, and the bump of loopToken when a game ends.
Retired(rs) == [s \in Slots |-> [rs[s] EXCEPT !.current = FALSE]]

(***************************************************************************)
(* One pass of `loop` for run s up to its next wait, from the page's state *)
(* (g, on, ma, md, busy, rs): a manual tick, or a question to the model.   *)
(***************************************************************************)
Played(s, g, on, rs) ==
    /\ game' = g
    /\ running' = (on /\ ~Over(g))
    /\ runs' = IF Over(g) THEN [Retired(rs) EXCEPT ![s] = Idle]
               ELSE [rs EXCEPT ![s] = [pc |-> "asleep", current |-> rs[s].current, asked |-> {}]]

Pass(s, g, ma, md, rs) ==
    IF ma = "manual"
    THEN /\ \E h \in ApplyMove(g, md) : Played(s, h, TRUE, rs)
         /\ inflight' = inflight
    ELSE /\ game' = g /\ running' = TRUE /\ inflight' = TRUE
         /\ runs' = [rs EXCEPT ![s] = [pc |-> IF inflight THEN "asleep" ELSE "asking",
                                       current |-> TRUE,
                                       asked |-> IF inflight THEN {} ELSE Choices(g)]]

\* beginRun and the first pass of its loop; s is a slot no run occupies.
Begin(g, ma, md) ==
    \E s \in Slots :
        /\ runs[s].pc = "none"
        /\ Pass(s, g, ma, md, [Retired(runs) EXCEPT ![s] = [Idle EXCEPT !.current = TRUE]])

-----------------------------------------------------------------------------
(***************************************************************************)
(* What the runs do.                                                       *)
(***************************************************************************)
\* The timer of the loop: its next pass, or its end.
Wake(s) ==
    /\ runs[s].pc = "asleep"
    /\ IF runs[s].current
       THEN Pass(s, game, mode, manualDir, runs)
       ELSE runs' = [runs EXCEPT ![s] = Idle] /\ UNCHANGED <<game, running, inflight>>
    /\ UNCHANGED <<mode, manualDir>>

\* Mistake: whether the run is still the current one is not looked at again.
MutAnswer(s) ==
    /\ runs[s].pc = "asking"
    /\ \E d \in runs[s].asked : \E h \in ApplyMove(game, d) : Played(s, h, running, runs)
    /\ inflight' = FALSE
    /\ UNCHANGED <<mode, manualDir>>

\* An answer, the model's or the local stand-in's after a failure.
Answer(s) ==
    /\ runs[s].pc = "asking" /\ runs[s].current
    /\ \E d \in runs[s].asked : \E h \in ApplyMove(game, d) : Played(s, h, running, runs)
    /\ inflight' = FALSE
    /\ UNCHANGED <<mode, manualDir>>

\* Mistake: only a run that is still the current one frees the flag.
MutAnswerStale(s) ==
    /\ runs[s].pc = "asking" /\ ~runs[s].current
    /\ runs' = [runs EXCEPT ![s] = Idle]
    /\ UNCHANGED <<game, mode, running, manualDir, inflight>>

\* The answer, or the abort, of a run that has been replaced.
AnswerStale(s) ==
    /\ runs[s].pc = "asking" /\ ~runs[s].current
    /\ inflight' = FALSE
    /\ runs' = [runs EXCEPT ![s] = Idle]
    /\ UNCHANGED <<game, mode, running, manualDir>>

-----------------------------------------------------------------------------
(***************************************************************************)
(* What the user does.                                                     *)
(***************************************************************************)
Reset ==
    /\ game' \in NewGames
    /\ running' = FALSE /\ manualDir' = "right"
    /\ runs' = Retired(runs)
    /\ UNCHANGED <<mode, inflight>>

StartGame ==
    /\ ~running
    /\ IF Over(game)
       THEN /\ \E g \in NewGames : Begin(g, mode, "right")
            /\ manualDir' = "right"
       ELSE Begin(game, mode, manualDir) /\ UNCHANGED manualDir
    /\ UNCHANGED mode

Pause ==
    /\ running /\ running' = FALSE
    /\ runs' = Retired(runs)
    /\ UNCHANGED <<game, mode, inflight, manualDir>>

SwitchMode ==
    /\ mode' = IF mode = "ai" THEN "manual" ELSE "ai"
    /\ manualDir' = IF mode' = "manual" THEN game.direction ELSE "right"
    /\ IF running THEN Begin(game, mode', manualDir')
       ELSE UNCHANGED <<game, running, inflight, runs>>

Key(d) ==
    /\ mode = "manual" /\ d # Opposite[manualDir]
    /\ manualDir' = d
    /\ UNCHANGED <<game, mode, running, inflight, runs>>

Next ==
    \/ \E s \in Slots : Wake(s) \/ Answer(s) \/ AnswerStale(s)
    \/ Reset \/ StartGame \/ Pause \/ SwitchMode
    \/ \E d \in DIRS : Key(d)

Spec == Init /\ [][Next]_vars

-----------------------------------------------------------------------------
(***************************************************************************)
(* The state is well typed: the snake is a walk over the board that does   *)
(* not touch itself.                                                       *)
(***************************************************************************)
TypeOK ==
    /\ game.snake \in Seq(Cells)
    /\ Cardinality(SetOf(game.snake)) = Len(game.snake)
    /\ \A i \in 2..Len(game.snake) :
         \E d \in DIRS : Step(game.snake[i], d) = game.snake[i-1]
    /\ game.food \in (Cells \ SetOf(game.snake)) \union {NoFood}
    /\ game.direction \in DIRS /\ game.ending \in {"none", "collision", "trapped", "won"}
    /\ mode \in {"ai", "manual"} /\ running \in BOOLEAN /\ inflight \in BOOLEAN
    /\ manualDir \in DIRS
    /\ runs \in [Slots -> [pc : {"none", "asking", "asleep"}, current : BOOLEAN,
                           asked : SUBSET DIRS]]

(***************************************************************************)
(* Whatever was started, paused, reset or switched, a running game is      *)
(* driven by exactly one loop and a stopped one by none                    *)
(* (snake.html:857-860, 978-986).                                          *)
(***************************************************************************)
OneLoop == Cardinality({s \in Slots : runs[s].current}) = IF running THEN 1 ELSE 0

(***************************************************************************)
(* The flag that gates every question is set exactly while one is out, its *)
(* run replaced or not: were it left set, no later run would ever ask      *)
(* again; were it cleared early, two questions would be out                *)
(* (snake.html:861-864, 901-903).                                          *)
(***************************************************************************)
FlagIsExact ==
    Cardinality({s \in Slots : runs[s].pc = "asking"}) = IF inflight THEN 1 ELSE 0

(***************************************************************************)
(* An answer is only played on the board it was asked about: a move of the *)
(* model never collides while there was somewhere to go, however many runs *)
(* were replaced while it was on the wire (snake.html:855-856, 874-889).   *)
(***************************************************************************)
ModelNeverCollides ==
    [][mode = "ai" /\ mode' = "ai" => ~(game.ending = "none" /\ game'.ending = "collision")]_vars

(***************************************************************************)
(* The anti-hang argument (snake.html:393-402): while the food can be      *)
(* reached, every move the model plays eats it or gets closer to it, and   *)
(* the food stays reachable.                                               *)
(***************************************************************************)
ModelApproaches ==
    [][(mode = "ai" /\ mode' = "ai" /\ running /\ running' /\ Reachable(game)
            /\ game'.snake # game.snake) =>
        \/ Len(game'.snake) > Len(game.snake)
        \/ /\ Reachable(game')
           /\ Walk(game'.snake)[game.food] < Walk(game.snake)[game.food]]_vars
=============================================================================
