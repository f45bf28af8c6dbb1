----------------------------- MODULE SnakeProofs ----------------------------
(***************************************************************************)
(* What Snake promises on any board and for any number of runs that have   *)
(* not noticed that they are over: one loop drives a running game, one     *)
(* question is out when the flag says so, an answer is only played on the  *)
(* board it was asked about, the snake is a walk that does not touch       *)
(* itself, and the planner always finds a way to food that can be reached. *)
(***************************************************************************)
EXTENDS Snake, TLAPS, FiniteSetTheorems, WellFoundedInduction

Run == [pc : {"none", "asking", "asleep"}, current : BOOLEAN, asked : SUBSET DIRS]

ShapeInv ==
    /\ game = [snake |-> game.snake, food |-> game.food,
               direction |-> game.direction, ending |-> game.ending]
    /\ game.direction \in DIRS
    /\ mode \in {"ai", "manual"} /\ manualDir \in DIRS
    /\ running \in BOOLEAN /\ inflight \in BOOLEAN
    /\ runs \in [Slots -> Run]
    /\ \A s \in Slots : runs[s].pc = "none" => ~runs[s].current

\* The loop of a running game.
LoopInv ==
    /\ running => ~Over(game) /\ \E s \in Slots : runs[s].current
    /\ ~running => \A s \in Slots : ~runs[s].current
    /\ \A s, q \in Slots : runs[s].current /\ runs[q].current => s = q

\* The question that is out.
FlagInv ==
    /\ inflight <=> \E s \in Slots : runs[s].pc = "asking"
    /\ \A s, q \in Slots : runs[s].pc = "asking" /\ runs[q].pc = "asking" => s = q

\* What a run that is still current asked is what the board now allows.
AskedInv ==
    \A s \in Slots : runs[s].current /\ runs[s].pc = "asking" =>
                        mode = "ai" /\ runs[s].asked = Choices(game)

IInv == ShapeInv /\ LoopInv /\ FlagInv /\ AskedInv

-----------------------------------------------------------------------------
(* Games and moves.                                                         *)

Shaped(g) == /\ g = [snake |-> g.snake, food |-> g.food,
                     direction |-> g.direction, ending |-> g.ending]
             /\ g.direction \in DIRS

LEMMA NewGamesAreShaped ==
    ASSUME NEW g \in NewGames PROVE Shaped(g) /\ g.direction = "right" /\ g.ending = "none"
<1>1. PICK f \in Spawnable(Start) :
         g = [snake |-> Start, food |-> f, direction |-> "right", ending |-> "none"]
  BY DEF NewGames
<1> QED BY <1>1 DEF Shaped, DIRS

\* EXCEPT on a game.
LEMMA Moved ==
    ASSUME NEW g, Shaped(g), NEW b, NEW d \in DIRS, NEW e
    PROVE  /\ Shaped([g EXCEPT !.snake = b, !.direction = d])
           /\ [g EXCEPT !.snake = b, !.direction = d].ending = g.ending
           /\ Shaped([g EXCEPT !.ending = e]) /\ [g EXCEPT !.ending = e].ending = e
<1> DEFINE x == [g EXCEPT !.snake = b, !.direction = d]
           y == [g EXCEPT !.ending = e]
<1>1. g \in [snake : {g.snake}, food : {g.food}, direction : {g.direction}, ending : {g.ending}]
  BY DEF Shaped
<1>2. x \in [snake : {b}, food : {g.food}, direction : {d}, ending : {g.ending}]
  BY <1>1
<1>3. y \in [snake : {g.snake}, food : {g.food}, direction : {g.direction}, ending : {e}]
  BY <1>1
<1> HIDE DEF x, y
<1>4. Shaped(x) /\ x.ending = g.ending
  BY <1>2 DEF Shaped
<1>5. Shaped(y) /\ y.ending = e
  BY <1>3 DEF Shaped
<1> QED BY <1>4, <1>5 DEF x, y

LEMMA Landed ==
    ASSUME NEW g, Shaped(g), NEW f
    PROVE  Shaped([g EXCEPT !.food = f]) /\ [g EXCEPT !.food = f].ending = g.ending
<1> DEFINE x == [g EXCEPT !.food = f]
<1>1. g \in [snake : {g.snake}, food : {g.food}, direction : {g.direction}, ending : {g.ending}]
  BY DEF Shaped
<1>2. x \in [snake : {g.snake}, food : {f}, direction : {g.direction}, ending : {g.ending}]
  BY <1>1
<1> HIDE DEF x
<1>3. Shaped(x) /\ x.ending = g.ending
  BY <1>2 DEF Shaped
<1> QED BY <1>3 DEF x

\* A move that runs into something is one that was not legal while another was.
LEMMA MovesAreShaped ==
    ASSUME NEW g, Shaped(g), NEW d \in DIRS, NEW h \in ApplyMove(g, d)
    PROVE  /\ Shaped(h)
           /\ h.ending = "collision" /\ g.ending = "none" => d \notin Legal(g) /\ Legal(g) # {}
<1> DEFINE body == After(g, d)
           moved == [g EXCEPT !.snake = body, !.direction = d]
<1>1. Shaped(moved) /\ moved.ending = g.ending
  BY Moved
<1>2. CASE d \notin Legal(g)
  <2>1. h = [g EXCEPT !.ending = IF Legal(g) # {} THEN "collision" ELSE "trapped"]
    BY <1>2 DEF ApplyMove
  <2>2. Shaped(h) /\ h.ending = IF Legal(g) # {} THEN "collision" ELSE "trapped"
    BY <2>1, Moved
  <2> QED BY <1>2, <2>2
<1>3. CASE d \in Legal(g)
  <2>1. \/ h = moved
        \/ \E f \in Spawnable(body) : h = [moved EXCEPT !.food = f]
        \/ h = [moved EXCEPT !.food = NoFood,
                             !.ending = IF Len(body) = GRID*GRID THEN "won" ELSE "trapped"]
    BY <1>3 DEF ApplyMove
  <2> HIDE DEF moved, body
  <2>2. Shaped(h) /\ (h.ending = g.ending \/ h.ending \in {"won", "trapped"})
    <3>1. CASE h = moved
      BY <1>1, <3>1
    <3>2. CASE \E f \in Spawnable(body) : h = [moved EXCEPT !.food = f]
      <4>1. PICK f \in Spawnable(body) : h = [moved EXCEPT !.food = f]
        BY <3>2
      <4>2. Shaped([moved EXCEPT !.food = f]) /\ [moved EXCEPT !.food = f].ending = moved.ending
        BY <1>1, Landed, Zenon
      <4> QED BY <1>1, <4>1, <4>2, Zenon
    <3>3. CASE h = [moved EXCEPT !.food = NoFood,
                                 !.ending = IF Len(body) = GRID*GRID THEN "won" ELSE "trapped"]
      <4> DEFINE e == IF Len(body) = GRID*GRID THEN "won" ELSE "trapped"
      <4>1. e \in {"won", "trapped"} /\ h = [moved EXCEPT !.food = NoFood, !.ending = e]
        BY <3>3
      <4> HIDE DEF e
      <4>2. moved \in [snake : {moved.snake}, food : {moved.food},
                       direction : {moved.direction}, ending : {moved.ending}]
        BY <1>1 DEF Shaped
      <4>3. h \in [snake : {moved.snake}, food : {NoFood},
                   direction : {moved.direction}, ending : {e}]
        BY <4>1, <4>2
      <4>4. moved.direction \in DIRS
        BY <1>1 DEF Shaped
      <4> QED BY <4>1, <4>3, <4>4 DEF Shaped
    <3> QED BY <2>1, <3>1, <3>2, <3>3
  <2> QED BY <2>2
<1> QED BY <1>2, <1>3

\* The shield: what the model may play is legal, if anything is.
LEMMA ChoicesAreLegal ==
    ASSUME NEW g, Shaped(g)
    PROVE  Choices(g) \subseteq DIRS /\ (Legal(g) # {} => Choices(g) \subseteq Legal(g))
<1>1. Closer(g) \subseteq Legal(g) /\ Untrapped(g) \subseteq Legal(g) /\ Legal(g) \subseteq DIRS
  BY DEF Closer, Untrapped, Legal
<1>2. Allowed(g) \subseteq Legal(g) /\ (Legal(g) # {} => Allowed(g) # {})
  BY <1>1 DEF Allowed
<1>3. g.direction \in DIRS
  BY DEF Shaped
<1> QED BY <1>1, <1>2, <1>3 DEF Choices

-----------------------------------------------------------------------------
LEMMA InitHolds == Init => IInv
<1> SUFFICES ASSUME Init PROVE IInv
  OBVIOUS
<1>1. Shaped(game) /\ game.ending = "none"
  BY NewGamesAreShaped DEF Init
<1>2. runs \in [Slots -> Run] /\ \A s \in Slots : runs[s].pc = "none" /\ ~runs[s].current
  BY DEF Init, Idle, Run
<1>3. ShapeInv
  BY <1>1, <1>2 DEF Init, ShapeInv, Shaped, DIRS
<1>4. LoopInv /\ FlagInv /\ AskedInv
  BY <1>2 DEF Init, LoopInv, FlagInv, AskedInv
<1> QED BY <1>3, <1>4 DEF IInv

\* What retiring does to the runs.
LEMMA RetiredRuns ==
    ASSUME NEW rs \in [Slots -> Run]
    PROVE  /\ Retired(rs) \in [Slots -> Run]
           /\ \A s \in Slots : /\ ~Retired(rs)[s].current
                               /\ Retired(rs)[s].pc = rs[s].pc
                               /\ Retired(rs)[s].asked = rs[s].asked
BY DEF Retired, Run

\* The runs after a step of run `s`: what the others are at is as in `rs`.
LEMMA RunsInv ==
    ASSUME NEW rs \in [Slots -> Run], NEW s \in Slots, NEW r \in Run,
           runs' = [rs EXCEPT ![s] = r]
    PROVE  /\ runs' \in [Slots -> Run] /\ runs'[s] = r
           /\ \A q \in Slots \ {s} : runs'[q] = rs[q]
OBVIOUS

\* A run has played: the game goes on with it, or nobody goes on.
LEMMA PlayedPreserves ==
    ASSUME NEW rs \in [Slots -> Run], NEW s \in Slots, NEW g, NEW on \in BOOLEAN,
           Shaped(g), rs[s].current, Played(s, g, on, rs), on,
           \A q \in Slots \ {s} : ~rs[q].current /\ (rs[q].pc = "asking" => inflight'),
           inflight' => \E q \in Slots \ {s} : rs[q].pc = "asking",
           \A q, r \in Slots \ {s} : rs[q].pc = "asking" /\ rs[r].pc = "asking" => q = r,
           inflight' \in BOOLEAN, mode' \in {"ai", "manual"}, manualDir' \in DIRS
    PROVE  IInv'
<1>1. game' = g /\ running' = ~Over(g)
  BY DEF Played
<1>2. CASE Over(g)
  <2>1. runs' = [Retired(rs) EXCEPT ![s] = Idle] /\ Idle \in Run
    BY <1>2 DEF Played, Idle, Run
  <2>2. Idle.pc = "none" /\ ~Idle.current
    BY DEF Idle
  <2>3. /\ runs' \in [Slots -> Run] /\ \A q \in Slots : ~runs'[q].current
        /\ runs'[s].pc = "none" /\ \A q \in Slots \ {s} : runs'[q].pc = rs[q].pc
    BY <2>1, <2>2, RetiredRuns, RunsInv
  <2>4. ShapeInv' /\ LoopInv' /\ FlagInv' /\ AskedInv'
    BY <1>1, <1>2, <2>3 DEF ShapeInv, LoopInv, FlagInv, AskedInv, Shaped
  <2> QED BY <2>4 DEF IInv
<1>3. CASE ~Over(g)
  <2> DEFINE now == [pc |-> "asleep", current |-> rs[s].current, asked |-> {}]
  <2>1. now.pc = "asleep" /\ now.current /\ now \in Run
    BY DEF Run
  <2>2. runs' = [rs EXCEPT ![s] = now]
    BY <1>3 DEF Played
  <2> HIDE DEF now
  <2>3. /\ runs' \in [Slots -> Run] /\ runs'[s] = now
        /\ \A q \in Slots \ {s} : runs'[q] = rs[q]
    BY <2>1, <2>2, RunsInv
  <2>4. ShapeInv' /\ LoopInv' /\ FlagInv' /\ AskedInv'
    BY <1>1, <1>3, <2>1, <2>3 DEF ShapeInv, LoopInv, FlagInv, AskedInv, Shaped
  <2> QED BY <2>4 DEF IInv
<1> QED BY <1>2, <1>3

\* A pass of the loop of run `s`, which alone is current and asks nothing.
LEMMA PassPreserves ==
    ASSUME IInv, NEW rs \in [Slots -> Run], NEW s \in Slots, NEW g, NEW ma \in {"ai", "manual"},
           NEW md \in DIRS, Shaped(g), ~Over(g), rs[s].current, rs[s].pc # "asking",
           \A q \in Slots \ {s} : ~rs[q].current /\ rs[q].pc = runs[q].pc,
           runs[s].pc # "asking", Pass(s, g, ma, md, rs), mode' = ma, manualDir' \in DIRS
    PROVE  IInv'
<1>1. /\ inflight \in BOOLEAN
      /\ inflight <=> \E q \in Slots \ {s} : rs[q].pc = "asking"
      /\ \A q, r \in Slots \ {s} : rs[q].pc = "asking" /\ rs[r].pc = "asking" => q = r
  BY DEF IInv, ShapeInv, FlagInv
<1>2. CASE ma = "manual"
  <2>1. PICK h \in ApplyMove(g, md) : Played(s, h, TRUE, rs) /\ inflight' = inflight
    BY <1>2 DEF Pass
  <2>2. Shaped(h)
    BY MovesAreShaped
  <2> QED BY <1>1, <2>1, <2>2, PlayedPreserves
<1>3. CASE ma = "ai"
  <2> DEFINE now == [pc |-> IF inflight THEN "asleep" ELSE "asking", current |-> TRUE,
                     asked |-> IF inflight THEN {} ELSE Choices(g)]
  <2>1. /\ now \in Run /\ now.current /\ (now.pc = "asking") = ~inflight /\ now.pc # "none"
        /\ now.pc = "asking" => now.asked = Choices(g)
    BY <1>1, ChoicesAreLegal DEF Run
  <2>2. /\ runs' = [rs EXCEPT ![s] = now]
        /\ game' = g /\ running' = TRUE /\ inflight' = TRUE
    BY <1>3 DEF Pass
  <2> HIDE DEF now
  <2>3. /\ runs' \in [Slots -> Run] /\ runs'[s] = now
        /\ \A q \in Slots \ {s} : runs'[q] = rs[q]
    BY <2>1, <2>2, RunsInv
  <2>4. \A q \in Slots : rs[q].pc = "none" => q = s \/ ~rs[q].current
    OBVIOUS
  <2>5. ShapeInv'
    BY <1>3, <2>1, <2>2, <2>3 DEF ShapeInv, Shaped
  <2>6. LoopInv' /\ FlagInv'
    BY <1>1, <2>1, <2>2, <2>3 DEF LoopInv, FlagInv
  <2>7. AskedInv'
    BY <1>3, <2>1, <2>2, <2>3 DEF AskedInv, Choices, Allowed, Closer, Untrapped, Legal
  <2> QED BY <2>5, <2>6, <2>7 DEF IInv
<1> QED BY <1>2, <1>3

\* A run begins: whatever ran before is retired.
LEMMA BeginPreserves ==
    ASSUME IInv, NEW g, Shaped(g), ~Over(g), NEW ma \in {"ai", "manual"}, NEW md \in DIRS,
           Begin(g, ma, md), mode' = ma, manualDir' \in DIRS
    PROVE  IInv'
<1>1. PICK s \in Slots :
         /\ runs[s].pc = "none"
         /\ Pass(s, g, ma, md, [Retired(runs) EXCEPT ![s] = [Idle EXCEPT !.current = TRUE]])
  BY DEF Begin
<1> DEFINE r == [Idle EXCEPT !.current = TRUE]
           rs == [Retired(runs) EXCEPT ![s] = r]
<1>2. r \in Run /\ r.current /\ r.pc = "none"
  BY DEF Idle, Run
<1>3. runs \in [Slots -> Run]
  BY DEF IInv, ShapeInv
<1>4. Pass(s, g, ma, md, rs)
  BY <1>1
<1> HIDE DEF r
<1>5. /\ rs \in [Slots -> Run] /\ rs[s] = r
      /\ \A q \in Slots \ {s} : ~rs[q].current /\ rs[q].pc = runs[q].pc
  BY <1>2, <1>3, RetiredRuns
<1> HIDE DEF rs
<1> QED BY <1>1, <1>2, <1>4, <1>5, PassPreserves

-----------------------------------------------------------------------------
(* The actions.                                                             *)

LEMMA GameIsShaped == ASSUME IInv PROVE Shaped(game) /\ (Over(game) \/ game.ending = "none")
BY DEF IInv, ShapeInv, Shaped, Over

\* Nobody is current any more; the board and the flag may be new.
LEMMA RetiringPreserves ==
    ASSUME IInv, runs' = Retired(runs), running' = FALSE, Shaped(game'), UNCHANGED inflight,
           mode' \in {"ai", "manual"}, manualDir' \in DIRS
    PROVE  IInv'
<1>1. /\ runs' \in [Slots -> Run]
      /\ \A s \in Slots : ~runs'[s].current /\ runs'[s].pc = runs[s].pc
  BY RetiredRuns DEF IInv, ShapeInv
<1>2. ShapeInv'
  BY <1>1 DEF IInv, ShapeInv, Shaped
<1>3. LoopInv' /\ FlagInv' /\ AskedInv'
  BY <1>1 DEF IInv, ShapeInv, LoopInv, FlagInv, AskedInv
<1> QED BY <1>2, <1>3 DEF IInv

\* A run that has been replaced ends.
LEMMA EndsPreserves ==
    ASSUME IInv, NEW s \in Slots, ~runs[s].current, runs' = [runs EXCEPT ![s] = Idle],
           inflight' = (inflight /\ runs[s].pc # "asking"),
           UNCHANGED <<game, mode, running, manualDir>>
    PROVE  IInv'
<1>1. Idle \in Run /\ Idle.pc = "none" /\ ~Idle.current
  BY DEF Idle, Run
<1>2. /\ runs' \in [Slots -> Run] /\ runs'[s] = Idle
      /\ \A q \in Slots \ {s} : runs'[q] = runs[q]
  BY <1>1, RunsInv DEF IInv, ShapeInv
<1>3. ShapeInv'
  BY <1>1, <1>2 DEF IInv, ShapeInv
<1>4. LoopInv'
  BY <1>1, <1>2 DEF IInv, LoopInv
<1>5. FlagInv'
  BY <1>1, <1>2 DEF IInv, ShapeInv, FlagInv
<1>6. AskedInv'
  BY <1>1, <1>2 DEF IInv, AskedInv, Choices, Allowed, Closer, Untrapped, Legal
<1> QED BY <1>3, <1>4, <1>5, <1>6 DEF IInv

LEMMA WakePreserves == ASSUME IInv, NEW s \in Slots, Wake(s) PROVE IInv'
<1>1. runs[s].pc = "asleep" /\ mode' = mode /\ manualDir' = manualDir
      /\ mode \in {"ai", "manual"} /\ manualDir \in DIRS /\ runs \in [Slots -> Run]
  BY DEF Wake, IInv, ShapeInv
<1>2. CASE runs[s].current
  <2>1. Pass(s, game, mode, manualDir, runs)
    BY <1>2 DEF Wake
  <2>2. ~Over(game) /\ \A q \in Slots \ {s} : ~runs[q].current
    BY <1>2 DEF IInv, ShapeInv, LoopInv
  <2> QED BY <1>1, <1>2, <2>1, <2>2, GameIsShaped, PassPreserves
<1>3. CASE ~runs[s].current
  BY <1>1, <1>3, EndsPreserves DEF Wake, IInv, ShapeInv
<1> QED BY <1>2, <1>3

LEMMA AnswerPreserves == ASSUME IInv, NEW s \in Slots, Answer(s) PROVE IInv'
<1>1. /\ runs[s].pc = "asking" /\ runs[s].current /\ runs[s].asked \subseteq DIRS
      /\ inflight' = FALSE /\ mode' = mode /\ manualDir' = manualDir
      /\ mode \in {"ai", "manual"} /\ manualDir \in DIRS /\ runs \in [Slots -> Run]
  BY DEF Answer, IInv, ShapeInv, Run
<1>2. PICK d \in runs[s].asked : \E h \in ApplyMove(game, d) : Played(s, h, running, runs)
  BY DEF Answer
<1>3. PICK h \in ApplyMove(game, d) : Played(s, h, running, runs)
  BY <1>2
<1>4. Shaped(h)
  BY <1>1, <1>3, GameIsShaped, MovesAreShaped
<1>5. running = TRUE /\ \A q \in Slots \ {s} : ~runs[q].current /\ runs[q].pc # "asking"
  BY <1>1 DEF IInv, ShapeInv, LoopInv, FlagInv
<1> QED BY <1>1, <1>4, <1>5, <1>3, PlayedPreserves

LEMMA ResetPreserves == ASSUME IInv, Reset PROVE IInv'
BY RetiringPreserves, NewGamesAreShaped DEF Reset, IInv, ShapeInv, DIRS

LEMMA PausePreserves == ASSUME IInv, Pause PROVE IInv'
BY RetiringPreserves, GameIsShaped DEF Pause, IInv, ShapeInv

LEMMA StartPreserves == ASSUME IInv, StartGame PROVE IInv'
<1>1. mode' = mode /\ mode \in {"ai", "manual"} /\ manualDir \in DIRS /\ "right" \in DIRS
  BY DEF StartGame, IInv, ShapeInv, DIRS
<1>2. CASE Over(game)
  <2>1. PICK g \in NewGames : Begin(g, mode, "right") /\ manualDir' = "right"
    BY <1>2 DEF StartGame
  <2> QED BY <1>1, <2>1, NewGamesAreShaped, BeginPreserves DEF Over
<1>3. CASE ~Over(game)
  BY <1>1, <1>3, GameIsShaped, BeginPreserves DEF StartGame
<1> QED BY <1>2, <1>3

LEMMA SwitchPreserves == ASSUME IInv, SwitchMode PROVE IInv'
<1>1. mode' \in {"ai", "manual"} /\ manualDir' \in DIRS
  BY DEF SwitchMode, IInv, ShapeInv, DIRS
<1>2. CASE running
  <2>1. ~Over(game)
    BY <1>2 DEF IInv, LoopInv
  <2>2. PICK ma \in {"ai", "manual"}, md \in DIRS : Begin(game, ma, md) /\ mode' = ma
    BY <1>1, <1>2 DEF SwitchMode
  <2> QED BY <1>1, <2>1, <2>2, GameIsShaped, BeginPreserves
<1>3. CASE ~running
  <2>1. UNCHANGED <<game, running, inflight, runs>>
    BY <1>3 DEF SwitchMode
  <2>2. ShapeInv'
    BY <1>1, <2>1 DEF IInv, ShapeInv
  <2>3. LoopInv' /\ FlagInv' /\ AskedInv'
    BY <1>3, <2>1 DEF IInv, LoopInv, FlagInv, AskedInv, Over
  <2> QED BY <2>2, <2>3 DEF IInv
<1> QED BY <1>2, <1>3 DEF IInv, ShapeInv

LEMMA NextPreserves == IInv /\ [Next]_vars => IInv'
<1> SUFFICES ASSUME IInv, [Next]_vars PROVE IInv'
  OBVIOUS
<1>1. ASSUME NEW s \in Slots, AnswerStale(s) PROVE IInv'
  <2>1. inflight = TRUE /\ inflight' = FALSE /\ runs[s].pc = "asking"
    BY <1>1 DEF AnswerStale, IInv, ShapeInv, FlagInv
  <2> QED BY <1>1, <2>1, EndsPreserves DEF AnswerStale
<1>2. ASSUME NEW d \in DIRS, Key(d) PROVE IInv'
  <2>1. UNCHANGED <<game, mode, running, inflight, runs>> /\ manualDir' \in DIRS
    BY <1>2 DEF Key
  <2> QED BY <2>1 DEF IInv, ShapeInv, LoopInv, FlagInv, AskedInv, Over, Choices, Allowed,
                      Closer, Untrapped, Legal
<1>3. CASE UNCHANGED vars
  BY <1>3 DEF vars, IInv, ShapeInv, LoopInv, FlagInv, AskedInv, Over, Choices, Allowed,
              Closer, Untrapped, Legal
<1> QED BY <1>1, <1>2, <1>3, WakePreserves, AnswerPreserves, ResetPreserves, StartPreserves,
           PausePreserves, SwitchPreserves DEF Next

THEOREM Invariance == Spec => []IInv
BY InitHolds, NextPreserves, PTL DEF Spec

\* A set with one element, or with none.
LEMMA OneOrNone ==
    ASSUME NEW P, NEW on \in BOOLEAN, on <=> P # {}, \A s, q \in P : s = q
    PROVE  Cardinality(P) = IF on THEN 1 ELSE 0
<1>1. CASE on
  <2>1. PICK s : P = {s}
    BY <1>1
  <2> QED BY <1>1, <2>1, FS_Singleton
<1>2. CASE ~on
  BY <1>2, FS_EmptySet
<1> QED BY <1>1, <1>2

\* snake.html:857-860, 978-986: whatever was started, paused, reset or switched, one loop
\* drives a running game and none a stopped one.
THEOREM OneLoopDrives == Spec => []OneLoop
<1>1. ASSUME IInv PROVE OneLoop
  BY <1>1, OneOrNone DEF IInv, ShapeInv, LoopInv, OneLoop
<1> QED BY <1>1, Invariance, PTL

\* snake.html:861-864, 901-903: the flag that gates the questions is set exactly while
\* one is out.
THEOREM FlagIsKept == Spec => []FlagIsExact
<1>1. ASSUME IInv PROVE FlagIsExact
  BY <1>1, OneOrNone DEF IInv, ShapeInv, FlagInv, FlagIsExact
<1> QED BY <1>1, Invariance, PTL

\* snake.html:855-856, 874-889: an answer is played on the board it was asked about, so
\* the model never collides while there was somewhere to go.
THEOREM AnswersFitTheBoard == Spec => ModelNeverCollides
<1> DEFINE Clean == mode = "ai" /\ mode' = "ai" =>
                        ~(game.ending = "none" /\ game'.ending = "collision")
<1>1. ASSUME IInv, [Next]_vars PROVE [Clean]_vars
  <2> SUFFICES ASSUME mode = "ai", mode' = "ai", game.ending = "none",
                      game'.ending = "collision", Next
               PROVE  FALSE
    BY <1>1
  <2>1. ASSUME NEW s \in Slots, Wake(s) PROVE FALSE
    BY <1>1, <2>1 DEF Wake, Pass
  <2>2. ASSUME NEW s \in Slots, Answer(s) PROVE FALSE
    <3>1. PICK d \in runs[s].asked : \E h \in ApplyMove(game, d) : Played(s, h, running, runs)
      BY <2>2 DEF Answer
    <3>2. PICK h \in ApplyMove(game, d) : Played(s, h, running, runs)
      BY <3>1
    <3>3. runs[s].asked = Choices(game) /\ Shaped(game)
      BY <1>1, <2>2, GameIsShaped DEF Answer, IInv, AskedInv
    <3>4. d \in DIRS /\ (Legal(game) # {} => d \in Legal(game))
      BY <3>1, <3>3, ChoicesAreLegal
    <3>5. game' = h
      BY <3>2 DEF Played
    <3> QED BY <3>3, <3>4, <3>5, MovesAreShaped
  <2>3. ASSUME NEW g \in NewGames, Begin(g, "ai", "right") PROVE game'.ending = "none"
    BY <2>3, NewGamesAreShaped DEF Begin, Pass
  <2>4. ASSUME Begin(game, "ai", manualDir) PROVE FALSE
    BY <2>4 DEF Begin, Pass
  <2>5. CASE StartGame
    BY <2>3, <2>4, <2>5 DEF StartGame
  <2>6. CASE Reset
    BY <2>6, NewGamesAreShaped DEF Reset
  <2>7. CASE SwitchMode
    BY <2>7 DEF SwitchMode
  <2>8. CASE UNCHANGED game
    BY <2>8
  <2> QED BY <2>1, <2>2, <2>5, <2>6, <2>7, <2>8 DEF Next, AnswerStale, Pause, Key
<1> QED BY <1>1, Invariance, PTL DEF Spec, ModelNeverCollides

-----------------------------------------------------------------------------
(* The board.                                                               *)

\* A walk over the board, the newest cell first, that does not touch itself.
IsWalk(body) ==
    /\ body \in Seq(Cells) /\ Len(body) >= 3
    /\ \A i, j \in 1..Len(body) : body[i] = body[j] => i = j
    /\ \A i \in 2..Len(body) : \E d \in DIRS : Step(body[i], d) = body[i-1]

OnBoard(g) ==
    /\ IsWalk(g.snake)
    /\ g.food \in (Cells \ SetOf(g.snake)) \union {NoFood}
    /\ g.ending \in {"none", "collision", "trapped", "won"}

BoardInv == OnBoard(game)

LEMMA CountedCells ==
    ASSUME NEW body, IsWalk(body) PROVE Cardinality(SetOf(body)) = Len(body)
<1> DEFINE n == Len(body)
           f == [i \in 1..n |-> body[i]]
<1>1. n \in Nat /\ DOMAIN body = 1..n
  BY DEF IsWalk
<1>2. \A i, j \in 1..n : body[i] = body[j] => i = j
  BY DEF IsWalk
<1>3. f \in [1..n -> SetOf(body)]
  BY <1>1 DEF SetOf
<1>4. f \in Bijection(1..n, SetOf(body))
  <2>1. \A c \in SetOf(body) : \E i \in 1..n : f[i] = c
    BY <1>1 DEF SetOf
  <2>2. \A i, j \in 1..n : f[i] = f[j] => i = j
    BY <1>2
  <2> HIDE DEF f, n
  <2> QED BY <1>3, <2>1, <2>2 DEF Bijection, Injection, Surjection, IsInjective
<1> HIDE DEF n, f
<1>5. ExistsBijection(1..n, SetOf(body))
  BY <1>4 DEF ExistsBijection
<1>6. Cardinality(SetOf(body)) = n
  BY <1>1, <1>5, FS_CountingElements
<1> QED BY <1>6 DEF n

LEMMA StartIsWalk == IsWalk(Start)
<1>1. Start \in Seq(Cells) /\ Len(Start) >= 3 /\ Len(Start) \in Nat /\ DOMAIN Start = 1..Len(Start)
  BY SnakeAssumption
<1>2. PICK x \in 1..GRID, y \in 0..GRID-1 : \A i \in 1..Len(Start) : Start[i] = <<x - i, y>>
  BY <1>1, SnakeAssumption
<1>3. x \in Int /\ y \in Int
  BY SnakeAssumption
<1>4. ASSUME NEW i \in 1..Len(Start), NEW j \in 1..Len(Start), Start[i] = Start[j] PROVE i = j
  <2>1. i \in Int /\ j \in Int /\ <<x - i, y>> = <<x - j, y>>
    BY <1>1, <1>2, <1>4
  <2>2. x - i = x - j
    BY <2>1
  <2> QED BY <1>3, <2>1, <2>2
<1>5. ASSUME NEW i \in 2..Len(Start) PROVE Step(Start[i], "right") = Start[i-1]
  <2>1. i \in 1..Len(Start) /\ i-1 \in 1..Len(Start) /\ i \in Int
    BY <1>1
  <2>2. Start[i] = <<x - i, y>> /\ Start[i-1] = <<x - (i-1), y>>
    BY <1>2, <2>1
  <2>3. x - i + 1 = x - (i-1) /\ y + 0 = y
    BY <1>3, <2>1
  <2>4. Step(Start[i], "right") = <<x - i + 1, y + 0>>
    BY <2>2 DEF Step, VEC
  <2> QED BY <2>2, <2>3, <2>4
<1>6. "right" \in DIRS
  BY DEF DIRS
<1> QED BY <1>1, <1>4, <1>5, <1>6 DEF IsWalk

LEMMA NewGamesAreOnBoard == ASSUME NEW g \in NewGames PROVE OnBoard(g)
<1>1. PICK f \in Spawnable(Start) :
         g = [snake |-> Start, food |-> f, direction |-> "right", ending |-> "none"]
  BY DEF NewGames
<1>2. f \in Cells \ SetOf(Start)
  BY DEF Spawnable
<1> QED BY <1>1, <1>2, StartIsWalk DEF OnBoard

\* The first n - 1 cells of a walk after a new one, which is none of them.
Grown(body, n, to) == <<to>> \o SubSeq(body, 1, n-1)
Clear(body, n, to) == \A i \in 1..n-1 : body[i] # to

LEMMA WalkGrows ==
    ASSUME NEW body, IsWalk(body), NEW n \in 3..Len(body) + 1, NEW d \in DIRS,
           NEW to \in Cells, to = Step(body[1], d), Clear(body, n, to)
    PROVE  LET new == Grown(body, n, to)
           IN  IsWalk(new) /\ SetOf(new) \subseteq SetOf(body) \union {to} /\ Head(new) = to
<1>1. PICK new : new = <<to>> \o SubSeq(body, 1, n-1) /\ new = Grown(body, n, to)
  BY DEF Grown
<1>2. /\ body \in Seq(Cells) /\ Len(body) \in Nat /\ Len(body) >= 3 /\ n \in Nat
      /\ \A i \in 1..Len(body) : body[i] \in Cells
      /\ n-1 \in 1..Len(body) /\ DOMAIN body = 1..Len(body)
  BY DEF IsWalk
<1>3. SubSeq(body, 1, n-1) \in Seq(Cells) /\ Len(SubSeq(body, 1, n-1)) = n-1
      /\ \A i \in 1..n-1 : SubSeq(body, 1, n-1)[i] = body[i]
  BY <1>2
<1>4. new \in Seq(Cells) /\ Len(new) = n /\ new[1] = to /\ \A i \in 2..n : new[i] = body[i-1]
  BY <1>1, <1>2, <1>3
<1>5. ASSUME NEW i \in 1..n, NEW j \in 1..n, new[i] = new[j] PROVE i = j
  <2>1. CASE i = 1 /\ j = 1
    BY <2>1
  <2>2. CASE i = 1 /\ j # 1
    <3>1. j \in 2..n /\ j-1 \in 1..n-1
      BY <1>2, <2>2
    <3> QED BY <1>4, <1>5, <2>2, <3>1 DEF Clear
  <2>3. CASE i # 1 /\ j = 1
    <3>1. i \in 2..n /\ i-1 \in 1..n-1
      BY <1>2, <2>3
    <3> QED BY <1>4, <1>5, <2>3, <3>1 DEF Clear
  <2>4. CASE i # 1 /\ j # 1
    <3>1. i \in 2..n /\ j \in 2..n /\ i-1 \in 1..Len(body) /\ j-1 \in 1..Len(body)
      BY <1>2, <2>4
    <3>2. body[i-1] = body[j-1]
      BY <1>4, <1>5, <3>1
    <3>3. i-1 = j-1
      BY <3>1, <3>2 DEF IsWalk
    <3> QED BY <3>1, <3>3
  <2> QED BY <2>1, <2>2, <2>3, <2>4
<1>6. ASSUME NEW i \in 2..n PROVE \E e \in DIRS : Step(new[i], e) = new[i-1]
  <2>1. CASE i = 2
    BY <1>4, <2>1
  <2>2. CASE i # 2
    <3>1. i-1 \in 2..Len(body) /\ i-1 \in 2..n /\ (i-1)-1 = i-2
      BY <1>2, <2>2
    <3>2. \E e \in DIRS : Step(body[i-1], e) = body[i-2]
      BY <3>1 DEF IsWalk
    <3>3. new[i] = body[i-1] /\ new[i-1] = body[i-2]
      BY <1>4, <3>1
    <3> QED BY <3>2, <3>3
  <2> QED BY <2>1, <2>2
<1>7. SetOf(new) \subseteq SetOf(body) \union {to}
  <2>1. ASSUME NEW i \in 1..n PROVE new[i] \in SetOf(body) \union {to}
    <3>1. CASE i = 1
      BY <1>4, <3>1
    <3>2. CASE i # 1
      <4>1. i \in 2..n /\ i-1 \in DOMAIN body
        BY <1>2, <3>2
      <4> QED BY <1>4, <4>1 DEF SetOf
    <3> QED BY <3>1, <3>2
  <2>2. DOMAIN new = 1..n
    BY <1>4
  <2> QED BY <2>1, <2>2 DEF SetOf
<1>8. Head(new) = to /\ n >= 3
  BY <1>4
<1>9. IsWalk(new)
  <2>1. \A i, j \in 1..Len(new) : new[i] = new[j] => i = j
    BY <1>4, <1>5, Zenon
  <2>2. \A i \in 2..Len(new) : \E e \in DIRS : Step(new[i], e) = new[i-1]
    BY <1>4, <1>6, Zenon
  <2> QED BY <1>4, <1>8, <2>1, <2>2 DEF IsWalk
<1> QED BY <1>1, <1>7, <1>8, <1>9

\* A legal move keeps the walk, and the food it leaves is not under the snake.
LEMMA LegalMovesAreOnBoard ==
    ASSUME NEW g, OnBoard(g), NEW d \in Legal(g)
    PROVE  /\ IsWalk(After(g, d))
           /\ Head(After(g, d)) # g.food => g.food \notin SetOf(After(g, d))
<1>1. PICK s : s = g.snake
  OBVIOUS
<1>2. PICK body : body = After(g, d)
  OBVIOUS
<1>3. PICK to : to = Step(Head(s), d)
  OBVIOUS
<1>4. IsWalk(s) /\ s \in Seq(Cells) /\ Len(s) \in Nat /\ Len(s) >= 3 /\ DOMAIN s = 1..Len(s)
  BY <1>1 DEF OnBoard, IsWalk
<1>5. to = Step(s[1], d)
  BY <1>3, <1>4
<1>6. d \in DIRS /\ to \in Cells /\ to \notin SetOf(SubSeq(s, 1, Len(s) - 1))
  BY <1>1, <1>3 DEF Legal, Front
<1>7. \A i \in 1..Len(s)-1 : s[i] # to
  <2>1. \A i \in 1..Len(s)-1 : i \in DOMAIN SubSeq(s, 1, Len(s) - 1)
                                 /\ SubSeq(s, 1, Len(s) - 1)[i] = s[i]
    BY <1>4
  <2> QED BY <1>6, <2>1 DEF SetOf
<1>8. g.food \in (Cells \ SetOf(s)) \union {NoFood} /\ NoFood \notin Cells
  BY <1>1, SnakeAssumption DEF OnBoard, NoFood, Cells
<1>9. body = <<to>> \o (IF to = g.food THEN s ELSE SubSeq(s, 1, Len(s) - 1))
  BY <1>1, <1>2, <1>3 DEF After, Front
<1>10. CASE to = g.food
  <2>1. \A i \in 1..Len(s) : s[i] # to
    BY <1>4, <1>6, <1>8, <1>10 DEF SetOf
  <2>2. s = SubSeq(s, 1, Len(s))
    BY <1>4
  <2>3. PICK n : n = Len(s) + 1
    OBVIOUS
  <2>4. n \in 3..Len(s) + 1 /\ n-1 = Len(s)
    BY <1>4, <2>3
  <2>5. body = Grown(s, n, to) /\ Clear(s, n, to)
    BY <1>9, <1>10, <2>1, <2>2, <2>4 DEF Grown, Clear
  <2>6. IsWalk(body) /\ Head(body) = to
    BY <1>4, <1>5, <1>6, <2>4, <2>5, WalkGrows
  <2> QED BY <1>2, <1>10, <2>6
<1>11. CASE to # g.food
  <2>1. Len(s) \in 3..Len(s) + 1
    BY <1>4
  <2>2. body = Grown(s, Len(s), to) /\ Clear(s, Len(s), to)
    BY <1>7, <1>9, <1>11 DEF Grown, Clear
  <2>3. IsWalk(body) /\ SetOf(body) \subseteq SetOf(s) \union {to}
    BY <1>4, <1>5, <1>6, <2>1, <2>2, WalkGrows
  <2>4. SetOf(s) \subseteq Cells
    BY <1>4 DEF SetOf
  <2> QED BY <1>2, <1>6, <1>8, <1>11, <2>3, <2>4
<1> QED BY <1>10, <1>11

LEMMA MovesAreOnBoard ==
    ASSUME NEW g, Shaped(g), OnBoard(g), NEW d \in DIRS, NEW h \in ApplyMove(g, d)
    PROVE  OnBoard(h)
<1> DEFINE body == After(g, d)
           moved == [g EXCEPT !.snake = body, !.direction = d]
<1>1. g \in [snake : {g.snake}, food : {g.food}, direction : {g.direction}, ending : {g.ending}]
  BY DEF Shaped
<1>2. CASE d \notin Legal(g)
  <2>1. h = [g EXCEPT !.ending = IF Legal(g) # {} THEN "collision" ELSE "trapped"]
    BY <1>2 DEF ApplyMove
  <2>2. h.snake = g.snake /\ h.food = g.food /\ h.ending \in {"collision", "trapped"}
    BY <1>1, <2>1
  <2> QED BY <2>2 DEF OnBoard
<1>3. CASE d \in Legal(g)
  <2>1. IsWalk(body) /\ (Head(body) # g.food => g.food \notin SetOf(body))
    BY <1>3, LegalMovesAreOnBoard
  <2>2. \/ Head(body) # g.food /\ h = moved
        \/ \E f \in Spawnable(body) : h = [moved EXCEPT !.food = f]
        \/ h = [moved EXCEPT !.food = NoFood,
                             !.ending = IF Len(body) = GRID*GRID THEN "won" ELSE "trapped"]
    BY <1>3 DEF ApplyMove
  <2>3. moved \in [snake : {body}, food : {g.food}, direction : {d}, ending : {g.ending}]
    BY <1>1
  <2> HIDE DEF moved, body
  <2>4. CASE Head(body) # g.food /\ h = moved
    <3>1. h.snake = body /\ h.food = g.food /\ h.ending = g.ending
      BY <2>3, <2>4
    <3> QED BY <2>1, <2>4, <3>1 DEF OnBoard
  <2>5. CASE \E f \in Spawnable(body) : h = [moved EXCEPT !.food = f]
    <3>1. PICK f \in Spawnable(body) : h = [moved EXCEPT !.food = f]
      BY <2>5
    <3>2. h.snake = body /\ h.food = f /\ h.ending = g.ending
      BY <2>3, <3>1
    <3>3. f \in Cells \ SetOf(body)
      BY DEF Spawnable
    <3> QED BY <2>1, <3>2, <3>3 DEF OnBoard
  <2>6. CASE h = [moved EXCEPT !.food = NoFood,
                               !.ending = IF Len(body) = GRID*GRID THEN "won" ELSE "trapped"]
    <3> DEFINE e == IF Len(body) = GRID*GRID THEN "won" ELSE "trapped"
    <3>1. e \in {"won", "trapped"} /\ h = [moved EXCEPT !.food = NoFood, !.ending = e]
      BY <2>6
    <3> HIDE DEF e
    <3>2. h.snake = body /\ h.food = NoFood /\ h.ending = e
      BY <2>3, <3>1
    <3> QED BY <2>1, <3>1, <3>2 DEF OnBoard
  <2> QED BY <2>2, <2>4, <2>5, <2>6
<1> QED BY <1>2, <1>3

\* A pass of a loop, and a run that begins, leave a board behind.
LEMMA PassIsOnBoard ==
    ASSUME NEW s, NEW g, Shaped(g), OnBoard(g), NEW ma, NEW md \in DIRS, NEW rs,
           Pass(s, g, ma, md, rs)
    PROVE  OnBoard(game')
<1>1. CASE ma = "manual"
  <2>1. PICK h \in ApplyMove(g, md) : Played(s, h, TRUE, rs)
    BY <1>1 DEF Pass
  <2> QED BY <2>1, MovesAreOnBoard DEF Played
<1>2. CASE ma # "manual"
  BY <1>2 DEF Pass
<1> QED BY <1>1, <1>2

LEMMA BeginIsOnBoard ==
    ASSUME NEW g, Shaped(g), OnBoard(g), NEW ma, NEW md \in DIRS, Begin(g, ma, md)
    PROVE  OnBoard(game')
<1>1. PICK s \in Slots : Pass(s, g, ma, md, [Retired(runs) EXCEPT ![s] = [Idle EXCEPT !.current = TRUE]])
  BY DEF Begin
<1> QED BY <1>1, PassIsOnBoard

LEMMA BoardInit == Init => BoardInv
BY NewGamesAreOnBoard DEF Init, BoardInv

LEMMA BoardPreserved == IInv /\ BoardInv /\ [Next]_vars => BoardInv'
<1> SUFFICES ASSUME IInv, BoardInv, [Next]_vars PROVE OnBoard(game')
  BY DEF BoardInv
<1>1. OnBoard(game) /\ Shaped(game) /\ manualDir \in DIRS /\ "right" \in DIRS
  BY GameIsShaped DEF BoardInv, IInv, ShapeInv, DIRS
<1>2. ASSUME NEW s \in Slots, Wake(s) PROVE OnBoard(game')
  <2>1. CASE Pass(s, game, mode, manualDir, runs)
    BY <1>1, <2>1, PassIsOnBoard
  <2>2. CASE UNCHANGED game
    BY <1>1, <2>2
  <2> QED BY <1>2, <2>1, <2>2 DEF Wake
<1>3. ASSUME NEW s \in Slots, Answer(s) PROVE OnBoard(game')
  <2>1. PICK d \in runs[s].asked : \E h \in ApplyMove(game, d) : Played(s, h, running, runs)
    BY <1>3 DEF Answer
  <2>2. PICK h \in ApplyMove(game, d) : Played(s, h, running, runs)
    BY <2>1
  <2>3. runs[s].asked \subseteq DIRS
    BY DEF IInv, ShapeInv, Run
  <2> QED BY <1>1, <2>1, <2>2, <2>3, MovesAreOnBoard DEF Played
<1>4. CASE StartGame
  <2>1. CASE Over(game)
    <3>1. PICK g \in NewGames : Begin(g, mode, "right")
      BY <1>4, <2>1 DEF StartGame
    <3> QED BY <1>1, <3>1, NewGamesAreShaped, NewGamesAreOnBoard, BeginIsOnBoard
  <2>2. CASE ~Over(game)
    BY <1>1, <1>4, <2>2, BeginIsOnBoard DEF StartGame
  <2> QED BY <2>1, <2>2
<1>5. CASE SwitchMode
  <2>1. mode' \in {"ai", "manual"} /\ manualDir' \in DIRS
    BY <1>5 DEF SwitchMode, IInv, ShapeInv, DIRS
  <2>2. CASE running
    <3>1. PICK ma \in {"ai", "manual"}, md \in DIRS : Begin(game, ma, md)
      BY <1>5, <2>1, <2>2 DEF SwitchMode
    <3> QED BY <1>1, <3>1, BeginIsOnBoard
  <2>3. CASE ~running
    BY <1>1, <1>5, <2>3 DEF SwitchMode
  <2> QED BY <2>2, <2>3
<1>6. CASE Reset
  BY <1>6, NewGamesAreOnBoard DEF Reset
<1>7. CASE UNCHANGED game
  BY <1>1, <1>7
<1>8. UNCHANGED vars => UNCHANGED game
  BY DEF vars
<1> QED BY <1>2, <1>3, <1>4, <1>5, <1>6, <1>7, <1>8 DEF Next, AnswerStale, Pause, Key

\* The snake is a walk over the board that does not touch itself, and the food is beside
\* it, whatever was started, paused, reset, switched or answered late
\* (snake.html:294-321, 776-829).
THEOREM TypeCorrect == Spec => []TypeOK
<1>1. Spec => [](IInv /\ BoardInv)
  BY InitHolds, NextPreserves, BoardInit, BoardPreserved, PTL DEF Spec
<1>2. ASSUME IInv, BoardInv PROVE TypeOK
  <2>1. IsWalk(game.snake) /\ Cardinality(SetOf(game.snake)) = Len(game.snake)
    BY <1>2, CountedCells DEF BoardInv, OnBoard
  <2>2. /\ game.food \in (Cells \ SetOf(game.snake)) \union {NoFood}
        /\ game.ending \in {"none", "collision", "trapped", "won"}
    BY <1>2 DEF BoardInv, OnBoard
  <2>3. /\ game.snake \in Seq(Cells)
        /\ \A i \in 2..Len(game.snake) :
             \E d \in DIRS : Step(game.snake[i], d) = game.snake[i-1]
    BY <2>1 DEF IsWalk
  <2> QED BY <1>2, <2>1, <2>2, <2>3 DEF TypeOK, IInv, ShapeInv, Run
<1> QED BY <1>1, <1>2, PTL

-----------------------------------------------------------------------------
(* explore: induction over the rounds.                                      *)

\* A set of natural numbers that holds 0 and with every number the next holds them all.
LEMMA NatSet ==
    ASSUME NEW T, 0 \in T, \A n \in Nat : n \in T => n + 1 \in T
    PROVE  \A n \in Nat : n \in T
<1> SUFFICES ASSUME Nat \ T # {} PROVE FALSE
  OBVIOUS
<1> DEFINE R == OpToRel(<, Nat)
<1>1. IsWellFoundedOn(R, Nat)
  BY NatLessThanWellFounded
<1>2. \A x, y \in Nat : x < y => <<x, y>> \in R
  BY DEF OpToRel
<1> HIDE DEF R
<1>3. PICK n \in Nat \ T : \A m \in Nat \ T : ~ (<<m, n>> \in R)
  BY <1>1, WFMin
<1>4. n # 0 /\ n - 1 \in Nat
  BY <1>3
<1>5. <<n - 1, n>> \in R
  BY <1>2, <1>4
<1>6. n - 1 \in T
  BY <1>3, <1>4, <1>5
<1>7. (n - 1) + 1 = n
  BY <1>4
<1> QED BY <1>3, <1>4, <1>6, <1>7

NextRound(found, n, blocked) == found \union {<<c, n>> : c \in Ring(found, blocked)}

\* The rounds up to the n-th.
UpTo(f, n, start, blocked) ==
    f = [k \in 0..n |-> IF k = 0 THEN {<<start, 0>>} ELSE NextRound(f[k-1], k, blocked)]

LEMMA RoundsExist ==
    ASSUME NEW start, NEW blocked PROVE \A n \in Nat : \E f : UpTo(f, n, start, blocked)
<1> DEFINE T == {n \in Nat : \E f : UpTo(f, n, start, blocked)}
<1>1. 0 \in T
  <2> DEFINE f == [k \in 0..0 |-> {<<start, 0>>}]
  <2>1. UpTo(f, 0, start, blocked)
    BY DEF UpTo
  <2> HIDE DEF f
  <2> QED BY <2>1
<1>2. ASSUME NEW n \in Nat, n \in T PROVE n + 1 \in T
  <2>1. PICK f : UpTo(f, n, start, blocked)
    BY <1>2
  <2> DEFINE g == [k \in 0..(n+1) |-> IF k = n + 1 THEN NextRound(f[n], k, blocked) ELSE f[k]]
  <2>2. ASSUME NEW k \in 0..(n+1)
        PROVE  g[k] = IF k = 0 THEN {<<start, 0>>} ELSE NextRound(g[k-1], k, blocked)
    <3>1. CASE k = 0
      <4>1. k # n + 1 /\ 0 \in 0..n /\ f[0] = {<<start, 0>>}
        BY <2>1, <3>1 DEF UpTo
      <4> QED BY <3>1, <4>1
    <3>2. CASE k = n + 1
      <4>1. k # 0 /\ k - 1 = n /\ n # n + 1 /\ n \in 0..(n+1)
        BY <3>2
      <4>2. g[n] = f[n] /\ g[k] = NextRound(f[n], k, blocked)
        BY <3>2, <4>1
      <4> HIDE DEF g
      <4> QED BY <4>1, <4>2
    <3>3. CASE k # 0 /\ k # n + 1
      <4>1. k \in 0..n /\ k - 1 \in 0..n /\ k - 1 \in 0..(n+1) /\ k - 1 # n + 1
        BY <3>3
      <4>2. f[k] = NextRound(f[k-1], k, blocked)
        BY <2>1, <3>3, <4>1 DEF UpTo
      <4>3. g[k] = f[k] /\ g[k-1] = f[k-1]
        BY <3>3, <4>1
      <4> HIDE DEF g
      <4> QED BY <3>3, <4>2, <4>3
    <3> QED BY <3>1, <3>2, <3>3
  <2>3. g = [k \in 0..(n+1) |-> g[k]]
    OBVIOUS
  <2> HIDE DEF g
  <2>4. UpTo(g, n + 1, start, blocked)
    BY <2>2, <2>3 DEF UpTo
  <2> QED BY <2>4
<1> HIDE DEF T
<1>3. \A n \in Nat : n \in T
  BY <1>1, <1>2, NatSet
<1> QED BY <1>3 DEF T

Area == GRID * GRID

LEMMA AreaIsNat == Area \in Nat
BY SnakeAssumption DEF Area

LEMMA RoundsAre == ASSUME NEW start, NEW blocked PROVE UpTo(Rounds(start, blocked), Area, start, blocked)
<1> DEFINE F == CHOOSE F : F = [n \in 0..GRID*GRID |->
                    IF n = 0 THEN {<<start, 0>>}
                    ELSE F[n-1] \union {<<c, n>> : c \in Ring(F[n-1], blocked)}]
<1>1. Rounds(start, blocked) = F
  BY Zenon DEF Rounds
<1>2. \E f : UpTo(f, Area, start, blocked)
  BY RoundsExist, AreaIsNat
<1>3. \E f : f = [n \in 0..GRID*GRID |->
                    IF n = 0 THEN {<<start, 0>>}
                    ELSE f[n-1] \union {<<c, n>> : c \in Ring(f[n-1], blocked)}]
  BY <1>2, Zenon DEF UpTo, Area, NextRound
<1>4. F = [n \in 0..GRID*GRID |->
                    IF n = 0 THEN {<<start, 0>>}
                    ELSE F[n-1] \union {<<c, n>> : c \in Ring(F[n-1], blocked)}]
  BY <1>3, Zenon
<1> HIDE DEF F
<1>5. UpTo(F, Area, start, blocked)
  BY <1>4, Zenon DEF UpTo, Area, NextRound
<1> QED BY <1>1, <1>5

LEMMA RoundSteps ==
    ASSUME NEW start, NEW blocked
    PROVE  /\ Rounds(start, blocked)[0] = {<<start, 0>>}
           /\ \A n \in 1..Area : Rounds(start, blocked)[n] =
                                    NextRound(Rounds(start, blocked)[n-1], n, blocked)
<1>1. PICK F : F = Rounds(start, blocked)
  OBVIOUS
<1>2. F = [k \in 0..Area |-> IF k = 0 THEN {<<start, 0>>} ELSE NextRound(F[k-1], k, blocked)]
  BY <1>1, RoundsAre DEF UpTo
<1>3. F[0] = {<<start, 0>>}
  BY <1>2, AreaIsNat
<1>4. \A n \in 1..Area : n \in 0..Area /\ n # 0
  OBVIOUS
<1>5. \A n \in 1..Area : F[n] = NextRound(F[n-1], n, blocked)
  BY <1>2, <1>4, Zenon
<1> QED BY <1>1, <1>3, <1>5

\* Every cell is found once, in the round of its distance, and stays found.
FoundBy(start, blocked, n) ==
    LET F == Rounds(start, blocked)
    IN  /\ \A p \in F[n] : p[1] \in Cells /\ p[2] \in 0..n /\ p = <<p[1], p[2]>> /\ p \in F[p[2]]
        /\ \A p, q \in F[n] : p[1] = q[1] => p = q
        /\ \A m \in 0..n : F[m] \subseteq F[n]

LEMMA FoundOnce ==
    ASSUME NEW start \in Cells, NEW blocked
    PROVE  \A n \in 0..Area : FoundBy(start, blocked, n)
<1>1. PICK F : F = Rounds(start, blocked)
  OBVIOUS
<1>2. F[0] = {<<start, 0>>} /\ \A n \in 1..Area : F[n] = NextRound(F[n-1], n, blocked)
  BY <1>1, RoundSteps
<1> DEFINE T == {n \in Nat : n <= Area => FoundBy(start, blocked, n)}
<1>3. 0 \in T
  <2>1. \A p \in F[0] : p[1] \in Cells /\ p[2] \in 0..0 /\ p = <<p[1], p[2]>> /\ p \in F[p[2]]
    BY <1>2
  <2>2. \A p, q \in F[0] : p[1] = q[1] => p = q
    BY <1>2
  <2>3. \A m \in 0..0 : F[m] \subseteq F[0]
    OBVIOUS
  <2> QED BY <1>1, <2>1, <2>2, <2>3 DEF FoundBy
<1>4. ASSUME NEW n \in Nat, n \in T PROVE n + 1 \in T
  <2> SUFFICES ASSUME n + 1 <= Area PROVE FoundBy(start, blocked, n + 1)
    OBVIOUS
  <2>1. FoundBy(start, blocked, n)
    BY <1>4, AreaIsNat
  <2>2. n + 1 \in 1..Area /\ (n + 1) - 1 = n
    BY AreaIsNat
  <2>3. F[n+1] = NextRound(F[n], n + 1, blocked)
    BY <1>2, <2>2
  <2>4. F[n+1] = F[n] \union {<<c, n+1>> : c \in Ring(F[n], blocked)}
    BY <2>3 DEF NextRound
  <2>5. /\ \A p \in F[n] : p[1] \in Cells /\ p[2] \in 0..n /\ p = <<p[1], p[2]>> /\ p \in F[p[2]]
        /\ \A p, q \in F[n] : p[1] = q[1] => p = q
        /\ \A m \in 0..n : F[m] \subseteq F[n]
    BY <1>1, <2>1 DEF FoundBy
  <2>6. \A c \in Ring(F[n], blocked) : c \in Cells /\ \A p \in F[n] : p[1] # c
    BY DEF Ring, CellsOf
  <2>7. ASSUME NEW p \in F[n+1]
        PROVE  \/ p \in F[n]
               \/ p[1] \in Ring(F[n], blocked) /\ p[2] = n+1 /\ p = <<p[1], p[2]>>
    BY <2>4
  <2>8. ASSUME NEW p \in F[n+1]
        PROVE  p[1] \in Cells /\ p[2] \in 0..(n+1) /\ p = <<p[1], p[2]>> /\ p \in F[p[2]]
    <3>1. CASE p \in F[n]
      BY <2>5, <3>1
    <3>2. CASE p[1] \in Ring(F[n], blocked) /\ p[2] = n+1 /\ p = <<p[1], p[2]>>
      BY <2>6, <3>2
    <3> QED BY <2>7, <3>1, <3>2
  <2>9. ASSUME NEW p \in F[n+1], NEW q \in F[n+1], p[1] = q[1] PROVE p = q
    <3>1. CASE p \in F[n] /\ q \in F[n]
      BY <2>5, <2>9, <3>1
    <3>2. CASE p \notin F[n] /\ q \notin F[n]
      BY <2>7, <2>9, <3>2
    <3>3. CASE p \in F[n] /\ q \notin F[n]
      BY <2>6, <2>7, <2>9, <3>3
    <3>4. CASE p \notin F[n] /\ q \in F[n]
      BY <2>6, <2>7, <2>9, <3>4
    <3> QED BY <3>1, <3>2, <3>3, <3>4
  <2>10. ASSUME NEW m \in 0..(n+1) PROVE F[m] \subseteq F[n+1]
    <3>1. CASE m = n + 1
      BY <3>1
    <3>2. CASE m # n + 1
      <4>1. m \in 0..n
        BY <3>2
      <4> QED BY <2>4, <2>5, <4>1
    <3> QED BY <3>1, <3>2
  <2> QED BY <1>1, <2>8, <2>9, <2>10, Zenon DEF FoundBy
<1> HIDE DEF T
<1>5. \A n \in Nat : n \in T
  BY <1>3, <1>4, NatSet
<1> QED BY <1>5, AreaIsNat DEF T

\* Once around the corner every cell is nearer by one: what the n-th round finds, the
\* round before finds from one of the free cells beside the start, even when the start
\* itself is blocked then.
NearerBy(start, blocked, later, n) ==
    \A c \in CellsOf(Rounds(start, blocked)[n]) \ {start} :
        \E d \in DIRS : /\ Step(start, d) \in Cells \ blocked
                        /\ n >= 1 /\ c \in CellsOf(Rounds(Step(start, d), later)[n-1])

\* Steps can be taken back.
LEMMA StepBack ==
    ASSUME NEW c \in Cells, NEW d \in DIRS
    PROVE  Opposite[d] \in DIRS /\ Step(Step(c, d), Opposite[d]) = c /\ Step(c, d) # c
<1>1. PICK x \in Int, y \in Int : c = <<x, y>>
  BY SnakeAssumption DEF Cells
<1>2. c[1] = x /\ c[2] = y
  BY <1>1
<1>3. CASE d = "up"
  BY <1>1, <1>2, <1>3 DEF Step, VEC, Opposite, DIRS
<1>4. CASE d = "down"
  BY <1>1, <1>2, <1>4 DEF Step, VEC, Opposite, DIRS
<1>5. CASE d = "left"
  BY <1>1, <1>2, <1>5 DEF Step, VEC, Opposite, DIRS
<1>6. CASE d = "right"
  BY <1>1, <1>2, <1>6 DEF Step, VEC, Opposite, DIRS
<1> QED BY <1>3, <1>4, <1>5, <1>6 DEF DIRS

\* What has been found stays found, and the start is found at once.
LEMMA StaysFound ==
    ASSUME NEW start \in Cells, NEW blocked, NEW n \in 0..Area
    PROVE  /\ start \in CellsOf(Rounds(start, blocked)[n])
           /\ \A m \in 0..n : CellsOf(Rounds(start, blocked)[m]) \subseteq
                                CellsOf(Rounds(start, blocked)[n])
           /\ CellsOf(Rounds(start, blocked)[n]) \subseteq Cells
<1>1. PICK F : F = Rounds(start, blocked)
  OBVIOUS
<1>2. F[0] = {<<start, 0>>}
  BY <1>1, RoundSteps
<1>3. /\ \A p \in F[n] : p[1] \in Cells
      /\ \A m \in 0..n : F[m] \subseteq F[n]
  BY <1>1, FoundOnce DEF FoundBy
<1>4. <<start, 0>> \in F[n] /\ <<start, 0>>[1] = start
  BY <1>2, <1>3
<1>5. \A m \in 0..n : CellsOf(F[m]) \subseteq CellsOf(F[n])
  BY <1>3 DEF CellsOf
<1>6. start \in CellsOf(F[n]) /\ CellsOf(F[n]) \subseteq Cells
  BY <1>3, <1>4 DEF CellsOf
<1> QED BY <1>1, <1>5, <1>6

\* The cells of a round are those of the round before and its ring.
LEMMA CellsGrow ==
    ASSUME NEW start, NEW blocked, NEW n \in 1..Area
    PROVE  CellsOf(Rounds(start, blocked)[n]) =
             CellsOf(Rounds(start, blocked)[n-1])
                \union Ring(Rounds(start, blocked)[n-1], blocked)
<1>1. PICK F : F = Rounds(start, blocked)
  OBVIOUS
<1>2. F[n] = F[n-1] \union {<<c, n>> : c \in Ring(F[n-1], blocked)}
  BY <1>1, RoundSteps DEF NextRound
<1>3. PICK found, ring : found = F[n-1] /\ ring = Ring(F[n-1], blocked)
  OBVIOUS
<1>4. CellsOf(found \union {<<c, n>> : c \in ring}) = CellsOf(found) \union ring
  <2> DEFINE new == {<<c, n>> : c \in ring}
  <2>1. \A c \in ring : <<c, n>> \in new /\ <<c, n>>[1] = c
    OBVIOUS
  <2>2. \A p \in new : p[1] \in ring
    OBVIOUS
  <2> HIDE DEF new
  <2>3. CellsOf(new) = ring
    BY <2>1, <2>2 DEF CellsOf
  <2>4. CellsOf(found \union new) = CellsOf(found) \union CellsOf(new)
    BY DEF CellsOf
  <2> QED BY <2>3, <2>4 DEF new
<1> QED BY <1>1, <1>2, <1>3, <1>4

LEMMA Nearer ==
    ASSUME NEW start \in Cells, NEW blocked, NEW later, later \subseteq blocked \union {start}
    PROVE  \A n \in 0..Area : NearerBy(start, blocked, later, n)
<1> DEFINE T == {n \in Nat : n <= Area => NearerBy(start, blocked, later, n)}
           C(n) == CellsOf(Rounds(start, blocked)[n])
           L(d, n) == CellsOf(Rounds(Step(start, d), later)[n])
<1>1. 0 \in T
  <2>1. C(0) = {start}
    <3>1. Rounds(start, blocked)[0] = {<<start, 0>>}
      BY RoundSteps
    <3>2. CellsOf({<<start, 0>>}) = {start}
      BY DEF CellsOf
    <3> QED BY <3>1, <3>2
  <2> QED BY <2>1 DEF NearerBy
<1>2. ASSUME NEW n \in Nat, n \in T PROVE n + 1 \in T
  <2> SUFFICES ASSUME n + 1 <= Area, NEW c \in C(n+1) \ {start}
               PROVE  \E d \in DIRS : /\ Step(start, d) \in Cells \ blocked
                                      /\ n+1 >= 1 /\ c \in L(d, (n+1)-1)
    BY DEF NearerBy
  <2>1. NearerBy(start, blocked, later, n)
    BY <1>2, AreaIsNat
  <2>2. n + 1 \in 1..Area /\ (n + 1) - 1 = n /\ n \in 0..Area /\ n + 1 >= 1
    BY AreaIsNat
  <2> SUFFICES \E d \in DIRS : Step(start, d) \in Cells \ blocked /\ c \in L(d, n)
    BY <2>2
  <2>3. \A x \in C(n) \ {start} : \E d \in DIRS :
            Step(start, d) \in Cells \ blocked /\ n >= 1 /\ x \in L(d, n-1)
    BY <2>1 DEF NearerBy
  <2>4. C(n+1) = C(n) \union Ring(Rounds(start, blocked)[n], blocked)
    BY <2>2, CellsGrow
  <2>5. start \in C(n)
    BY <2>2, StaysFound
  <2>6. ASSUME NEW d \in DIRS, Step(start, d) \in Cells, n >= 1
        PROVE  L(d, n) = L(d, n-1) \union Ring(Rounds(Step(start, d), later)[n-1], later)
    <3>1. n \in 1..Area
      BY <2>2, <2>6
    <3> QED BY <3>1, CellsGrow
  <2>7. CASE c \in C(n)
    <3>1. PICK d \in DIRS : Step(start, d) \in Cells \ blocked /\ n >= 1 /\ c \in L(d, n-1)
      BY <2>3, <2>7
    <3> HIDE DEF L
    <3> QED BY <2>6, <3>1
  <2>8. CASE c \notin C(n)
    <3>1. c \in Cells \ blocked /\ \E e \in DIRS : Step(c, e) \in C(n)
      BY <2>4, <2>8 DEF Ring
    <3>2. PICK e \in DIRS : Step(c, e) \in C(n)
      BY <3>1
    <3>3. CASE Step(c, e) = start
      <4>1. Opposite[e] \in DIRS /\ Step(start, Opposite[e]) = c
        BY <3>1, <3>3, StepBack
      <4>2. c \in CellsOf(Rounds(c, later)[n])
        BY <2>2, <3>1, StaysFound
      <4> QED BY <3>1, <4>1, <4>2
    <3>4. CASE Step(c, e) # start
      <4>1. PICK d \in DIRS : /\ Step(start, d) \in Cells \ blocked
                              /\ n >= 1 /\ Step(c, e) \in L(d, n-1)
        BY <2>3, <3>2, <3>4
      <4>2. c \in Cells \ later
        BY <2>5, <2>8, <3>1
      <4>3. c \in L(d, n-1) \/ c \in Ring(Rounds(Step(start, d), later)[n-1], later)
        BY <4>1, <4>2 DEF Ring
      <4>4. c \in L(d, n)
        BY <2>6, <4>1, <4>3
      <4> QED BY <4>1, <4>4
    <3> QED BY <3>3, <3>4
  <2> QED BY <2>7, <2>8
<1> HIDE DEF T
<1>3. \A n \in Nat : n \in T
  BY <1>1, <1>2, NatSet
<1> QED BY <1>3, AreaIsNat DEF T

\* What explore tells of a cell: the round that found it.
LEMMA WalkIs ==
    ASSUME NEW body, NEW start \in Cells, NEW blocked \in SUBSET Cells,
           start = Head(body), blocked = SetOf(Middle(body))
    PROVE  /\ \A c \in DOMAIN Walk(body) :
                 /\ Walk(body)[c] \in 0..Area
                 /\ c \in CellsOf(Rounds(start, blocked)[Walk(body)[c]])
           /\ \A n \in 0..Area : \A c \in CellsOf(Rounds(start, blocked)[n]) :
                 c \in DOMAIN Walk(body) /\ Walk(body)[c] <= n
<1>1. PICK F : F = Rounds(start, blocked)
  OBVIOUS
<1>2. PICK found : found = F[Area]
  OBVIOUS
<1>3. Explore[start][blocked] = found
  BY <1>1, <1>2 DEF Explore, Area
<1>4. Walk(body) = [c \in CellsOf(found) |-> CHOOSE n \in 0..Area : <<c, n>> \in found]
  BY <1>3 DEF Walk, Area
<1>5. Area \in 0..Area
  BY AreaIsNat
<1>6. /\ \A p \in found : p[2] \in 0..Area /\ p = <<p[1], p[2]>> /\ p \in F[p[2]]
      /\ \A p, q \in found : p[1] = q[1] => p = q
      /\ \A m \in 0..Area : F[m] \subseteq found
  BY <1>1, <1>2, <1>5, FoundOnce DEF FoundBy
<1>7. ASSUME NEW p \in found
      PROVE  /\ p[1] \in DOMAIN Walk(body) /\ Walk(body)[p[1]] = p[2]
  <2>1. p[1] \in CellsOf(found)
    BY DEF CellsOf
  <2>2. p[2] \in 0..Area /\ <<p[1], p[2]>> \in found
    BY <1>6
  <2>3. PICK n : n = CHOOSE m \in 0..Area : <<p[1], m>> \in found
    OBVIOUS
  <2>4. n \in 0..Area /\ <<p[1], n>> \in found
    BY <2>2, <2>3
  <2>5. <<p[1], n>>[1] = p[1] /\ <<p[1], n>>[2] = n
    OBVIOUS
  <2>6. <<p[1], n>> = p
    BY <1>6, <2>4, <2>5
  <2>7. n = p[2]
    BY <2>5, <2>6
  <2> QED BY <1>4, <2>1, <2>3, <2>7
<1>8. ASSUME NEW c \in DOMAIN Walk(body)
      PROVE  Walk(body)[c] \in 0..Area /\ c \in CellsOf(F[Walk(body)[c]])
  <2>1. c \in CellsOf(found)
    BY <1>4
  <2>2. PICK p \in found : c = p[1]
    BY <2>1 DEF CellsOf
  <2>3. Walk(body)[c] = p[2]
    BY <1>7, <2>2
  <2>4. p[2] \in 0..Area /\ p \in F[p[2]]
    BY <1>6
  <2>5. c \in CellsOf(F[p[2]])
    BY <2>2, <2>4 DEF CellsOf
  <2> QED BY <2>3, <2>4, <2>5
<1>9. ASSUME NEW n \in 0..Area, NEW c \in CellsOf(F[n])
      PROVE  c \in DOMAIN Walk(body) /\ Walk(body)[c] <= n
  <2>1. PICK p \in F[n] : c = p[1]
    BY DEF CellsOf
  <2>2. p \in found
    BY <1>6
  <2>3. p[2] \in 0..n
    BY <1>1, <2>1, FoundOnce DEF FoundBy
  <2> QED BY <1>7, <2>1, <2>2, <2>3
<1> QED BY <1>1, <1>8, <1>9

\* The set of the cells between the ends of a snake.
LEMMA MiddleIs ==
    ASSUME NEW s \in Seq(Cells), Len(s) >= 3
    PROVE  SetOf(Middle(s)) = {s[i] : i \in 2..Len(s)-1} /\ SetOf(Middle(s)) \in SUBSET Cells
<1>1. Len(s) \in Nat /\ \A i \in 1..Len(s) : s[i] \in Cells
  OBVIOUS
<1>2. PICK m : m = SubSeq(s, 2, Len(s) - 1)
  OBVIOUS
<1>3. DOMAIN m = 1..Len(s)-2 /\ \A i \in 1..Len(s)-2 : m[i] = s[i+1]
  BY <1>1, <1>2
<1>4. ASSUME NEW i \in 1..Len(s)-2 PROVE m[i] \in {s[j] : j \in 2..Len(s)-1}
  <2>1. i + 1 \in 2..Len(s)-1
    BY <1>1
  <2> QED BY <1>3, <2>1
<1>5. ASSUME NEW j \in 2..Len(s)-1 PROVE s[j] \in SetOf(m)
  <2>1. j - 1 \in 1..Len(s)-2 /\ (j - 1) + 1 = j
    BY <1>1
  <2>2. m[j-1] = s[j] /\ j - 1 \in DOMAIN m
    BY <1>3, <2>1
  <2> QED BY <2>2 DEF SetOf
<1>6. SetOf(m) = {s[i] : i \in 2..Len(s)-1}
  BY <1>3, <1>4, <1>5 DEF SetOf
<1>7. \A i \in 2..Len(s)-1 : s[i] \in Cells
  BY <1>1
<1> QED BY <1>2, <1>6, <1>7 DEF Middle

\* "While the food is reachable there is always a distance-reducing move"
\* (snake.html:395-396).
THEOREM FoodGetsCloser ==
    ASSUME NEW g, OnBoard(g), Reachable(g) PROVE Closer(g) # {}
<1>1. PICK s : s = g.snake
  OBVIOUS
<1>2. PICK h : h = s[1]
  OBVIOUS
<1>3. PICK B : B = SetOf(Middle(s))
  OBVIOUS
<1>4. s \in Seq(Cells) /\ Len(s) >= 3 /\ Len(s) \in Nat /\ DOMAIN s = 1..Len(s) /\ Head(s) = h
      /\ h \in Cells /\ 1 \in DOMAIN s
  BY <1>1, <1>2 DEF OnBoard, IsWalk
<1>5. B = {s[i] : i \in 2..Len(s)-1} /\ B \in SUBSET Cells
  BY <1>3, <1>4, MiddleIs
<1>6. g.food \notin SetOf(s) /\ g.food # h
  <2>1. g.food \in CellsOf(Rounds(h, B)[Walk(s)[g.food]]) /\ Walk(s)[g.food] \in 0..Area
    BY <1>1, <1>3, <1>4, <1>5, WalkIs DEF Reachable
  <2>2. g.food \in Cells
    BY <1>4, <2>1, StaysFound
  <2>3. NoFood \notin Cells
    BY SnakeAssumption DEF NoFood, Cells
  <2>4. g.food \notin SetOf(s)
    BY <1>1, <2>2, <2>3 DEF OnBoard
  <2>5. h \in SetOf(s)
    BY <1>2, <1>4 DEF SetOf
  <2> QED BY <2>4, <2>5
<1>7. PICK n : n = Walk(s)[g.food]
  OBVIOUS
<1>8. n \in 0..Area /\ g.food \in CellsOf(Rounds(h, B)[n])
  BY <1>1, <1>3, <1>4, <1>5, <1>7, WalkIs DEF Reachable
<1>9. PICK later : later = {s[i] : i \in 1..Len(s)-2}
  OBVIOUS
<1>10. later \subseteq B \union {h} /\ later \in SUBSET Cells
  <2>1. ASSUME NEW i \in 1..Len(s)-2 PROVE s[i] \in B \union {h}
    <3>1. i = 1 \/ i \in 2..Len(s)-1
      BY <1>4
    <3> QED BY <1>2, <1>5, <3>1
  <2> QED BY <1>4, <1>5, <1>9, <2>1
<1>11. PICK d \in DIRS : /\ Step(h, d) \in Cells \ B
                         /\ n >= 1 /\ g.food \in CellsOf(Rounds(Step(h, d), later)[n-1])
  <2>1. NearerBy(h, B, later, n)
    BY <1>4, <1>8, <1>10, Nearer
  <2> QED BY <1>6, <1>8, <2>1, Zenon DEF NearerBy
<1>12. PICK to : to = Step(h, d)
  OBVIOUS
<1>13. d \in Legal(g)
  <2>1. to # h
    BY <1>4, <1>12, StepBack
  <2>2. \A i \in 1..Len(s)-1 : s[i] # to
    <3>1. \A i \in 1..Len(s)-1 : i = 1 \/ i \in 2..Len(s)-1
      BY <1>4
    <3> QED BY <1>2, <1>5, <1>11, <1>12, <2>1, <3>1
  <2>3. PICK f : f = SubSeq(s, 1, Len(s) - 1)
    OBVIOUS
  <2>4. DOMAIN f = 1..Len(s)-1 /\ \A i \in 1..Len(s)-1 : f[i] = s[i]
    BY <1>4, <2>3
  <2>5. to \notin SetOf(f)
    BY <2>2, <2>4 DEF SetOf
  <2> QED BY <1>1, <1>4, <1>11, <1>12, <2>3, <2>5 DEF Legal, Front
<1>14. PICK body : body = After(g, d)
  OBVIOUS
<1>15. IsWalk(body)
  BY <1>13, <1>14, LegalMovesAreOnBoard
<1>16. body \in Seq(Cells) /\ Len(body) >= 3 /\ Len(body) \in Nat
  BY <1>15 DEF IsWalk
<1>17. body = <<to>> \o (IF to = g.food THEN s ELSE SubSeq(s, 1, Len(s) - 1))
  BY <1>1, <1>4, <1>12, <1>14 DEF After, Front
<1>18. Head(body) = to /\ to \in Cells
  <2>1. SubSeq(s, 1, Len(s) - 1) \in Seq(Cells)
    BY <1>4
  <2>2. to \in Cells
    BY <1>11, <1>12
  <2>3. PICK rest \in Seq(Cells) : body = <<to>> \o rest
    BY <1>4, <1>17, <2>1
  <2> QED BY <2>2, <2>3
<1>19. n - 1 \in 0..Area
  BY <1>8, <1>11, AreaIsNat
<1>20. g.food \in DOMAIN Walk(body) /\ Walk(body)[g.food] <= n - 1
  <2>1. PICK C : C = SetOf(Middle(body))
    OBVIOUS
  <2>2. C \in SUBSET Cells /\ C = {body[i] : i \in 2..Len(body)-1}
    BY <1>16, <2>1, MiddleIs
  <2>3. CASE to = g.food
    <3>1. g.food \in CellsOf(Rounds(to, C)[n-1])
      BY <1>18, <1>19, <2>3, StaysFound
    <3> QED BY <1>18, <1>19, <2>1, <2>2, <3>1, WalkIs
  <2>4. CASE to # g.food
    <3>1. body = <<to>> \o SubSeq(s, 1, Len(s) - 1)
      BY <1>17, <2>4
    <3>2. Len(body) = Len(s) /\ \A i \in 2..Len(s) : body[i] = s[i-1]
      BY <1>4, <3>1
    <3>3. ASSUME NEW i \in 2..Len(body)-1 PROVE body[i] \in later
      <4>1. i \in 2..Len(s) /\ i - 1 \in 1..Len(s)-2
        BY <1>4, <3>2
      <4> QED BY <1>9, <3>2, <4>1
    <3>4. ASSUME NEW i \in 1..Len(s)-2 PROVE s[i] \in C
      <4>1. i + 1 \in 2..Len(body)-1 /\ i + 1 \in 2..Len(s) /\ (i + 1) - 1 = i
        BY <1>4, <3>2
      <4> QED BY <2>2, <3>2, <4>1
    <3>5. C = later
      BY <1>9, <2>2, <3>3, <3>4
    <3>6. g.food \in CellsOf(Rounds(to, C)[n-1])
      BY <1>11, <1>12, <3>5
    <3> QED BY <1>18, <1>19, <2>1, <2>2, <3>6, WalkIs
  <2> QED BY <2>3, <2>4
<1>21. Walk(body)[g.food] \in 0..Area
  <2>1. SetOf(Middle(body)) \in SUBSET Cells
    BY <1>16, MiddleIs
  <2> QED BY <1>18, <1>20, <2>1, WalkIs
<1>22. Walk(body)[g.food] < Walk(g.snake)[g.food]
  BY <1>1, <1>7, <1>8, <1>20, <1>21
<1>23. d \in Closer(g)
  BY <1>13, <1>14, <1>20, <1>22 DEF Closer, Reachable
<1> QED BY <1>23

\* A snake that eats grows by one.
LEMMA LengthAfter ==
    ASSUME NEW g, OnBoard(g), NEW d
    PROVE  Len(After(g, d)) = IF Head(After(g, d)) = g.food THEN Len(g.snake) + 1
                                                             ELSE Len(g.snake)
<1>1. PICK s : s = g.snake
  OBVIOUS
<1>2. PICK to : to = Step(Head(s), d)
  OBVIOUS
<1>3. s \in Seq(Cells) /\ Len(s) >= 3
  BY <1>1 DEF OnBoard, IsWalk
<1>4. After(g, d) = <<to>> \o (IF to = g.food THEN s ELSE SubSeq(s, 1, Len(s) - 1))
  BY <1>1, <1>2 DEF After, Front
<1>5. SubSeq(s, 1, Len(s) - 1) \in Seq(Cells) /\ Len(SubSeq(s, 1, Len(s) - 1)) = Len(s) - 1
  BY <1>3
<1>6. \A rest \in Seq(Cells) : /\ Head(<<to>> \o rest) = to
                               /\ Len(<<to>> \o rest) = Len(rest) + 1
  OBVIOUS
<1>7. Len(s) \in Nat
  BY <1>3
<1> QED BY <1>1, <1>3, <1>4, <1>5, <1>6, <1>7

\* snake.html:393-402, the anti-hang argument: while the food can be reached, every move
\* the model plays eats it or gets closer to it, and the food stays reachable.
THEOREM AlwaysApproaches == Spec => ModelApproaches
<1> DEFINE Nearing == (mode = "ai" /\ mode' = "ai" /\ running /\ running' /\ Reachable(game)
                          /\ game'.snake # game.snake) =>
                        \/ Len(game'.snake) > Len(game.snake)
                        \/ /\ Reachable(game')
                           /\ Walk(game'.snake)[game.food] < Walk(game.snake)[game.food]
<1>1. ASSUME IInv, BoardInv, [Next]_vars PROVE [Nearing]_vars
  <2> SUFFICES ASSUME mode = "ai", mode' = "ai", running, running', Reachable(game),
                      game'.snake # game.snake, Next
               PROVE  \/ Len(game'.snake) > Len(game.snake)
                      \/ /\ Reachable(game')
                         /\ Walk(game'.snake)[game.food] < Walk(game.snake)[game.food]
    BY <1>1
  <2>1. ASSUME NEW s \in Slots, Answer(s)
        PROVE  \/ Len(game'.snake) > Len(game.snake)
               \/ /\ Reachable(game')
                  /\ Walk(game'.snake)[game.food] < Walk(game.snake)[game.food]
    <3>1. PICK d \in runs[s].asked : \E h \in ApplyMove(game, d) : Played(s, h, running, runs)
      BY <2>1 DEF Answer
    <3>2. PICK h \in ApplyMove(game, d) : Played(s, h, running, runs)
      BY <3>1
    <3>3. game' = h /\ Shaped(game) /\ OnBoard(game)
      BY <1>1, <3>2, GameIsShaped DEF Played, BoardInv
    <3>4. runs[s].asked = Choices(game) /\ Closer(game) # {}
      BY <1>1, <2>1, <3>3, FoodGetsCloser DEF Answer, IInv, AskedInv
    <3>5. d \in Closer(game)
      BY <3>1, <3>4 DEF Choices, Allowed
    <3> DEFINE body == After(game, d)
               moved == [game EXCEPT !.snake = body, !.direction = d]
    <3>6. /\ d \in Legal(game) /\ game.food \in DOMAIN Walk(body)
          /\ Walk(body)[game.food] < Walk(game.snake)[game.food]
      BY <3>5 DEF Closer
    <3>7. moved \in [snake : {body}, food : {game.food}, direction : {d}, ending : {game.ending}]
      <4>1. game \in [snake : {game.snake}, food : {game.food}, direction : {game.direction},
                      ending : {game.ending}]
        BY <3>3 DEF Shaped
      <4> QED BY <4>1
    <3>8. \/ Head(body) # game.food /\ h = moved
          \/ Head(body) = game.food /\ \E f \in Spawnable(body) : h = [moved EXCEPT !.food = f]
          \/ Head(body) = game.food
             /\ h = [moved EXCEPT !.food = NoFood,
                                  !.ending = IF Len(body) = GRID*GRID THEN "won" ELSE "trapped"]
      BY <3>6 DEF ApplyMove
    <3>9. IsWalk(body) /\ IsWalk(game.snake)
      BY <3>3, <3>6, LegalMovesAreOnBoard DEF OnBoard
    <3>10. Len(body) = IF Head(body) = game.food THEN Len(game.snake) + 1 ELSE Len(game.snake)
      BY <3>3, <3>9, LengthAfter
    <3> HIDE DEF moved, body
    <3>11. h.snake = body
      BY <3>7, <3>8
    <3>12. CASE Head(body) = game.food
      BY <3>3, <3>9, <3>10, <3>11, <3>12 DEF IsWalk
    <3>13. CASE Head(body) # game.food
      <4>1. h.food = game.food
        BY <3>7, <3>8, <3>13
      <4> QED BY <3>3, <3>6, <3>11, <4>1 DEF Reachable
    <3> QED BY <3>12, <3>13
  <2>2. ASSUME NEW s \in Slots, Wake(s) PROVE UNCHANGED game
    BY <2>2 DEF Wake, Pass
  <2>3. ~StartGame /\ ~Reset /\ ~Pause /\ ~SwitchMode
    BY DEF StartGame, Reset, Pause, SwitchMode
  <2> QED BY <2>1, <2>2, <2>3 DEF Next, AnswerStale, Key
<1>2. Spec => [](IInv /\ BoardInv)
  BY InitHolds, NextPreserves, BoardInit, BoardPreserved, PTL DEF Spec
<1> QED BY <1>1, <1>2, PTL DEF Spec, ModelApproaches
=============================================================================
