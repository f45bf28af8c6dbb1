---------------------------- MODULE TetrisProofs ----------------------------
(***************************************************************************)
(* What Tetris promises for any pieces, any refill level and any number of *)
(* loops that have not noticed that they are over: one loop plays, about   *)
(* the board as it is, and the question asked ahead is the next question.  *)
(***************************************************************************)
EXTENDS Tetris, TLAPS, FiniteSetTheorems, SequenceTheorems

Game == [current : PIECE_NAMES, next : PIECE_NAMES, active : Places,
         running : BOOLEAN, over : BOOLEAN]
Loop == [pc : {"none", "idle", "deciding", "dropping"}, piece : PIECE_NAMES \union {None},
         fresh : BOOLEAN, aborted : BOOLEAN, answered : BOOLEAN]
Prefetch == [about : {"none", "this board", "next board", "no board"},
             next : PIECE_NAMES \union {None}, answered : BOOLEAN]
Bag == {b \in Seq(PIECE_NAMES) : Len(b) < Cardinality(PIECE_NAMES) + LOW}

Lives(s) == loops[s].pc # "none" /\ ~loops[s].aborted

\* The loop that can act is the one the controller stops; a game of the model has one; it
\* is about the piece and the board as they are, and the prefetch about the one after it.
LoopInv ==
    /\ \A s \in Slots : Lives(s) =>
          /\ s = abortCtrl
          /\ game.running \/ game.over
          /\ loops[s].pc # "idle" => /\ game.running /\ mode = "ai"
                                     /\ loops[s].fresh /\ loops[s].piece = game.current
          /\ loops[s].pc = "dropping" => /\ prefetch.about = "next board"
                                         /\ prefetch.next = Last(bag) /\ Len(bag) >= LOW
    /\ game.running /\ mode = "ai" => \E s \in Slots : Lives(s)

IInv == TypeOK /\ LoopInv

LEMMA Pieces == Cardinality(PIECE_NAMES) \in Nat
BY TetrisAssumption, FS_CardinalityType

-----------------------------------------------------------------------------
(* The bag.                                                                 *)

\* A refilled bag has room for a draw, and one piece less is a bag again.
LEMMA RefillsAreBags ==
    ASSUME NEW b \in Bag, NEW c \in Refills(b)
    PROVE  /\ c \in Bag /\ Len(c) >= LOW /\ Last(c) \in PIECE_NAMES /\ Front(c) \in Bag
           /\ Len(b) >= LOW => c = b
<1> DEFINE n == Cardinality(PIECE_NAMES)
<1>1. n \in Nat /\ LOW \in Nat /\ LOW > 0 /\ LOW <= n
  BY Pieces, TetrisAssumption
<1>2. b \in Seq(PIECE_NAMES) /\ Len(b) \in Nat /\ Len(b) < n + LOW
  BY DEF Bag
<1> HIDE DEF n
<1>3. c \in Seq(PIECE_NAMES) /\ Len(c) \in Nat /\ Len(c) < n + LOW /\ Len(c) >= LOW
  <2>1. CASE Len(b) < LOW
    <3>1. PICK chunk \in SetToSeqs(PIECE_NAMES) : c = chunk \o b
      BY <2>1 DEF Refills
    <3>2. chunk \in [1..n -> PIECE_NAMES]
      BY DEF SetToSeqs, n
    <3>3. chunk \in Seq(PIECE_NAMES) /\ Len(chunk) = n
      BY <1>1, <3>2
    <3>4. c \in Seq(PIECE_NAMES) /\ Len(c) = n + Len(b)
      BY <1>2, <3>1, <3>3, ConcatProperties
    <3> QED BY <1>1, <1>2, <2>1, <3>4
  <2>2. CASE ~(Len(b) < LOW)
    BY <1>1, <1>2, <2>2 DEF Refills
  <2> QED BY <2>1, <2>2
<1>4. Last(c) \in PIECE_NAMES
  <2>1. Len(c) \in 1..Len(c)
    BY <1>1, <1>3
  <2> QED BY <1>3, <2>1, ElementOfSeq DEF Last
<1>5. Front(c) \in Seq(PIECE_NAMES) /\ Len(Front(c)) = Len(c) - 1
  <2>1. PICK k \in Int : k = Len(c) - 1 /\ k >= 0
    BY <1>1, <1>3
  <2>2. \A i \in 1..k : c[i] \in PIECE_NAMES
    BY <1>3, <2>1, ElementOfSeq
  <2>3. /\ SubSeq(c, 1, k) \in Seq(PIECE_NAMES)
        /\ Len(SubSeq(c, 1, k)) = IF 1 <= k THEN k - 1 + 1 ELSE 0
    BY <2>1, <2>2, SubSeqProperties
  <2> QED BY <2>1, <2>3 DEF Front
<1>6. Len(b) >= LOW => c = b
  BY <1>1, <1>2 DEF Refills
<1> QED BY <1>1, <1>3, <1>4, <1>5, <1>6 DEF Bag, n

\* The first two pieces of a new bag.
LEMMA FreshGames ==
    ASSUME NEW d \in Fresh(<<>>)
    PROVE  /\ d.bag \in Bag /\ NewGame(d) \in Game
           /\ ~NewGame(d).running /\ ~NewGame(d).over /\ NewGame(d).active = "spawn"
<1>1. <<>> \in Bag
  <2>1. Len(<<>>) = 0 /\ <<>> \in Seq(PIECE_NAMES)
    OBVIOUS
  <2> QED BY <2>1, Pieces, TetrisAssumption DEF Bag
<1>2. PICK e \in Refills(<<>>) :
         \E c \in Refills(Front(e)) : d = [bag |-> Front(c), current |-> Last(e), next |-> Last(c)]
  BY DEF Fresh
<1>3. PICK c \in Refills(Front(e)) : d = [bag |-> Front(c), current |-> Last(e), next |-> Last(c)]
  BY <1>2
<1>4. Front(e) \in Bag /\ Last(e) \in PIECE_NAMES
  BY <1>1, RefillsAreBags
<1>5. Front(c) \in Bag /\ Last(c) \in PIECE_NAMES
  BY <1>4, RefillsAreBags
<1>6. d.bag = Front(c) /\ d.current = Last(e) /\ d.next = Last(c)
  BY <1>3
<1> QED BY <1>4, <1>5, <1>6 DEF NewGame, Game, Places

LEMMA LockedGames ==
    ASSUME TypeOK, NEW ma, NEW l \in LockAndAdvance(ma)
    PROVE  /\ l.bag \in Bag /\ l.game \in Game /\ l.game.running = ~l.game.over
           /\ Len(bag) >= LOW => l.game.next = Last(bag)
<1>1. PICK b \in Refills(bag), out \in BOOLEAN :
         l = [bag |-> Front(b),
              game |-> [current |-> game.next, next |-> Last(b), running |-> ~out, over |-> out,
                        active |-> IF ma = "manual" /\ ~out THEN "spawn" ELSE "none"]]
  BY DEF LockAndAdvance
<1> DEFINE at == IF ma = "manual" /\ ~out THEN "spawn" ELSE "none"
           g == [current |-> game.next, next |-> Last(b), running |-> ~out, over |-> out,
                 active |-> at]
<1>2. bag \in Bag /\ game \in Game
  BY DEF TypeOK, Bag, Game
<1>3. Front(b) \in Bag /\ Last(b) \in PIECE_NAMES /\ (Len(bag) >= LOW => b = bag)
  BY <1>2, RefillsAreBags
<1>4. at \in Places
  BY DEF Places
<1>5. l.bag = Front(b) /\ l.game = g
  BY <1>1
<1> HIDE DEF at
<1>6. /\ game.next \in PIECE_NAMES /\ g.current = game.next /\ g.next = Last(b)
      /\ g.running = ~out /\ g.over = out /\ g.active = at
  BY <1>2 DEF Game
<1>7. g \in Game
  BY <1>3, <1>4, <1>6 DEF Game
<1> HIDE DEF g
<1> QED BY <1>3, <1>5, <1>6, <1>7

-----------------------------------------------------------------------------
(* The loops.                                                               *)

LEMMA InitHolds == Init => IInv
<1> SUFFICES ASSUME Init PROVE IInv
  OBVIOUS
<1>1. PICK d \in Fresh(<<>>) : bag = d.bag /\ game = NewGame(d)
  BY DEF Init
<1>2. bag \in Bag /\ game \in Game /\ ~game.running
  BY <1>1, FreshGames
<1>3. NoLoop \in Loop /\ NoLoop.pc = "none" /\ NoPrefetch \in Prefetch
  BY DEF NoLoop, Loop, NoPrefetch, Prefetch
<1>4. TypeOK
  BY <1>2, <1>3 DEF Init, TypeOK, Bag, Game, Loop, Prefetch
<1>5. LoopInv
  BY <1>2, <1>3 DEF Init, LoopInv, Lives
<1> QED BY <1>4, <1>5 DEF IInv

\* Nothing that was asked is about the new board.
LEMMA ChangedLoops ==
    ASSUME NEW ls \in [Slots -> Loop]
    PROVE  /\ Changed(ls) \in [Slots -> Loop]
           /\ \A s \in Slots : /\ Changed(ls)[s].pc = ls[s].pc
                               /\ Changed(ls)[s].aborted = ls[s].aborted
BY DEF Changed, Loop

\* After the controller has been told, no loop is left that may act.
LEMMA AbortedLoops ==
    ASSUME IInv
    PROVE  /\ Aborted(loops) \in [Slots -> Loop]
           /\ \A s \in Slots : Aborted(loops)[s].pc = "none" \/ Aborted(loops)[s].aborted
           /\ \A s \in Slots : Aborted(loops)[s].pc = loops[s].pc
<1>1. loops \in [Slots -> Loop] /\ abortCtrl \in Slots \union {None}
  BY DEF IInv, TypeOK, Loop
<1>2. CASE abortCtrl = None
  <2>1. \A s \in Slots : ~Lives(s)
    BY <1>2, TetrisAssumption DEF IInv, LoopInv
  <2> QED BY <1>1, <1>2, <2>1 DEF Aborted, Lives, Loop
<1>3. CASE abortCtrl # None
  <2> DEFINE r == [loops[abortCtrl] EXCEPT !.aborted = TRUE]
  <2>1. abortCtrl \in Slots /\ Aborted(loops) = [loops EXCEPT ![abortCtrl] = r]
    BY <1>1, <1>3 DEF Aborted
  <2>2. r \in Loop /\ r.aborted /\ r.pc = loops[abortCtrl].pc
    BY <1>1, <2>1 DEF Loop
  <2> HIDE DEF r
  <2>3. \A s \in Slots \ {abortCtrl} : Aborted(loops)[s] = loops[s] /\ ~Lives(s)
    BY <1>1, <2>1 DEF IInv, LoopInv
  <2>4. Aborted(loops)[abortCtrl] = r /\ Aborted(loops) \in [Slots -> Loop]
    BY <1>1, <2>1, <2>2
  <2> QED BY <2>2, <2>3, <2>4 DEF Lives, Loop
<1> QED BY <1>2, <1>3

\* No loop is left, and the game rests.
LEMMA NobodyPlays ==
    ASSUME NEW ls \in [Slots -> Loop], loops' = ls,
           \A s \in Slots : ls[s].pc = "none" \/ ls[s].aborted,
           bag' \in Bag, game' \in Game, ~game'.running \/ (mode' = "manual" /\ ~game'.over),
           mode' \in {"ai", "manual"}, abortCtrl' \in Slots \union {None}, prefetch' \in Prefetch
    PROVE  IInv'
<1>1. TypeOK'
  BY DEF TypeOK, Bag, Game, Loop, Prefetch
<1>2. LoopInv'
  BY DEF LoopInv, Lives
<1> QED BY <1>1, <1>2 DEF IInv

\* One pass of loop `s`, the only one that may act.
LEMMA PassPreserves ==
    ASSUME NEW s \in Slots, NEW g \in Game, NEW ma \in {"ai", "manual"},
           NEW ls \in [Slots -> Loop], NEW p \in Prefetch,
           Pass(s, g, ma, ls, p), ~(g.running /\ g.over), ~ls[s].aborted,
           \A q \in Slots \ {s} : ls[q].pc = "none" \/ ls[q].aborted,
           bag' \in Bag, mode' = ma, abortCtrl' = s
    PROVE  IInv'
<1>1. game' = g /\ NoPrefetch \in Prefetch
  BY DEF Pass, NoPrefetch, Prefetch
<1>2. CASE ~g.running
  <2>1. loops' = [ls EXCEPT ![s] = NoLoop] /\ prefetch' = p
    BY <1>2 DEF Pass
  <2>2. NoLoop \in Loop /\ NoLoop.pc = "none"
    BY DEF NoLoop, Loop
  <2>3. loops' \in [Slots -> Loop] /\ \A q \in Slots : loops'[q].pc = "none" \/ loops'[q].aborted
    BY <2>1, <2>2
  <2> QED BY <1>1, <1>2, <2>1, <2>3, NobodyPlays
<1>3. CASE g.running
  <2>1. g.running /\ ~g.over
    BY <1>3 DEF Game
  <2>2. PICK r \in Loop :
           /\ loops' = [ls EXCEPT ![s] = r] /\ prefetch' \in Prefetch
           /\ r.pc \in {"idle", "deciding"} /\ ~r.aborted
           /\ ma = "ai" => r.pc = "deciding"
           /\ r.pc = "deciding" => ma = "ai" /\ r.fresh /\ r.piece = g.current
    <3>1. CASE ma # "ai"
      <4> DEFINE r == [NoLoop EXCEPT !.pc = "idle"]
      <4>1. r \in Loop /\ r.pc = "idle" /\ ~r.aborted
        BY DEF NoLoop, Loop
      <4>2. loops' = [ls EXCEPT ![s] = r] /\ prefetch' = p
        BY <2>1, <3>1 DEF Pass
      <4> HIDE DEF r
      <4> QED BY <3>1, <4>1, <4>2
    <3>2. CASE ma = "ai"
      <4> DEFINE used == p.about = "this board"
                 r == [pc |-> "deciding", piece |-> g.current, fresh |-> TRUE,
                       aborted |-> FALSE, answered |-> used /\ p.answered]
      <4>1. r.pc = "deciding" /\ r.piece = g.current /\ r.fresh /\ ~r.aborted
        OBVIOUS
      <4>2. r \in Loop
        BY DEF Loop, Game, Prefetch
      <4>3. loops' = [ls EXCEPT ![s] = r] /\ prefetch' = IF used THEN NoPrefetch ELSE p
        BY <2>1, <3>2 DEF Pass
      <4> HIDE DEF r
      <4> QED BY <1>1, <3>2, <4>1, <4>2, <4>3
    <3> QED BY <3>1, <3>2
  <2>3. /\ loops' \in [Slots -> Loop] /\ loops'[s] = r
        /\ \A q \in Slots \ {s} : loops'[q] = ls[q]
    BY <2>2
  <2>4. TypeOK'
    BY <1>1, <2>1, <2>2, <2>3 DEF TypeOK, Bag, Game, Loop, Prefetch
  <2>5. LoopInv'
    BY <1>1, <2>1, <2>2, <2>3 DEF LoopInv, Lives
  <2> QED BY <2>4, <2>5 DEF IInv
<1> QED BY <1>2, <1>3 DEF Game

-----------------------------------------------------------------------------
(* The actions.                                                             *)

\* What the invariant says of the parts.
LEMMA Parts ==
    ASSUME IInv
    PROVE  /\ bag \in Bag /\ game \in Game /\ ~(game.running /\ game.over)
           /\ mode \in {"ai", "manual"} /\ abortCtrl \in Slots \union {None}
           /\ loops \in [Slots -> Loop] /\ prefetch \in Prefetch
BY DEF IInv, TypeOK, Bag, Game, Loop, Prefetch

\* Beside a loop that may act there is no other.
LEMMA Alone ==
    ASSUME IInv, NEW s \in Slots, Lives(s)
    PROVE  abortCtrl = s /\ \A q \in Slots \ {s} : loops[q].pc = "none" \/ loops[q].aborted
BY DEF IInv, LoopInv, Lives

\* A loop ends; if it could act, the game had ended before.
LEMMA EndPreserves ==
    ASSUME IInv, NEW s \in Slots, ~Lives(s) \/ ~game.running,
           loops' = [loops EXCEPT ![s] = NoLoop],
           UNCHANGED <<bag, game, mode, abortCtrl, prefetch>>
    PROVE  IInv'
<1>1. NoLoop \in Loop /\ NoLoop.pc = "none"
  BY DEF NoLoop, Loop
<1>2. /\ loops' \in [Slots -> Loop] /\ loops'[s] = NoLoop
      /\ \A q \in Slots \ {s} : loops'[q] = loops[q]
  BY <1>1, Parts
<1>3. TypeOK'
  BY <1>2 DEF IInv, TypeOK, Loop
<1>4. LoopInv'
  BY <1>1, <1>2 DEF IInv, LoopInv, Lives
<1> QED BY <1>3, <1>4 DEF IInv

LEMMA WakesPreserves == ASSUME IInv, NEW s \in Slots, Wakes(s) PROVE IInv'
<1>1. Lives(s)
  BY DEF Wakes, Lives
<1> QED BY <1>1, Alone, Parts, PassPreserves DEF Wakes, Lives

LEMMA AnswerPreserves == ASSUME IInv, NEW s \in Slots, Answer(s) PROVE IInv'
<1> DEFINE r == [loops[s] EXCEPT !.answered = TRUE]
<1>1. /\ r \in Loop /\ r.pc = loops[s].pc /\ r.piece = loops[s].piece
      /\ r.fresh = loops[s].fresh /\ r.aborted = loops[s].aborted
  BY Parts DEF Loop
<1>2. loops' = [loops EXCEPT ![s] = r] /\ UNCHANGED <<bag, game, mode, abortCtrl, prefetch>>
  BY DEF Answer
<1> HIDE DEF r
<1>3. /\ loops' \in [Slots -> Loop] /\ loops'[s] = r
      /\ \A q \in Slots \ {s} : loops'[q] = loops[q]
  BY <1>1, <1>2, Parts
<1>4. TypeOK'
  BY <1>2, <1>3 DEF IInv, TypeOK, Loop
<1>5. LoopInv'
  BY <1>1, <1>2, <1>3 DEF IInv, LoopInv, Lives
<1> QED BY <1>4, <1>5 DEF IInv

LEMMA PrefetchPreserves == ASSUME IInv, PrefetchAnswer PROVE IInv'
<1>1. prefetch' \in Prefetch /\ prefetch'.about = prefetch.about /\ prefetch'.next = prefetch.next
  BY Parts DEF PrefetchAnswer, Prefetch
<1>2. TypeOK'
  BY <1>1 DEF PrefetchAnswer, IInv, TypeOK, Prefetch
<1>3. LoopInv'
  BY <1>1 DEF PrefetchAnswer, IInv, LoopInv, Lives
<1> QED BY <1>2, <1>3 DEF IInv

\* A loop that decided still has its piece, and the model still has the game.
LEMMA StillItsOwn ==
    ASSUME IInv, NEW s \in Slots, Lives(s), loops[s].pc \in {"deciding", "dropping"}
    PROVE  game.running /\ StillIts(s) /\ loops[s].fresh
BY DEF IInv, LoopInv, StillIts

LEMMA DecidePreserves == ASSUME IInv, NEW s \in Slots, Decide(s) PROVE IInv'
<1>1. Lives(s) /\ loops[s].pc = "deciding"
  BY DEF Decide, Lives
<1>2. PICK b \in Refills(bag) :
         /\ bag' = b /\ loops' = [loops EXCEPT ![s].pc = "dropping"]
         /\ prefetch' = [about |-> "next board", next |-> Peeked(b), answered |-> FALSE]
         /\ UNCHANGED <<game, mode, abortCtrl>>
  BY <1>1, StillItsOwn DEF Decide
<1>3. b \in Bag /\ Len(b) >= LOW /\ Last(b) \in PIECE_NAMES
  BY Parts, RefillsAreBags
<1>4. /\ prefetch' \in Prefetch /\ prefetch'.about = "next board" /\ prefetch'.next = Last(b)
  BY <1>2, <1>3 DEF Peeked, Prefetch
<1> DEFINE r == [loops[s] EXCEPT !.pc = "dropping"]
<1>5. /\ r \in Loop /\ r.pc = "dropping" /\ r.piece = loops[s].piece
      /\ r.fresh = loops[s].fresh /\ r.aborted = loops[s].aborted
  BY Parts DEF Loop
<1>6. loops' = [loops EXCEPT ![s] = r]
  BY <1>2
<1> HIDE DEF r
<1>7. /\ loops' \in [Slots -> Loop] /\ loops'[s] = r
      /\ \A q \in Slots \ {s} : loops'[q] = loops[q]
  BY <1>5, <1>6, Parts
<1>8. TypeOK'
  BY <1>2, <1>3, <1>4, <1>7 DEF IInv, TypeOK, Bag, Loop, Prefetch
<1>9. LoopInv'
  BY <1>1, <1>2, <1>3, <1>4, <1>5, <1>7 DEF IInv, LoopInv, Lives
<1> QED BY <1>8, <1>9 DEF IInv

LEMMA FallsPreserves == ASSUME IInv, NEW s \in Slots, Falls(s) PROVE IInv'
<1>1. /\ game' \in Game /\ game'.running = game.running /\ game'.over = game.over
      /\ game'.current = game.current
  BY Parts DEF Falls, Game, Places
<1>2. TypeOK'
  BY <1>1 DEF Falls, IInv, TypeOK, Game
<1>3. LoopInv'
  BY <1>1 DEF Falls, IInv, LoopInv, Lives
<1> QED BY <1>2, <1>3 DEF IInv

LEMMA LandsPreserves == ASSUME IInv, NEW s \in Slots, Lands(s) PROVE IInv'
<1>1. Lives(s) /\ loops[s].pc = "dropping" /\ mode' = mode /\ abortCtrl' = abortCtrl
  BY DEF Lands, Lives
<1>2. PICK l \in LockAndAdvance(mode), met \in BOOLEAN :
         /\ bag' = l.bag
         /\ Pass(s, l.game, mode, Changed(loops),
                 IF prefetch.about = "none" THEN prefetch
                 ELSE [prefetch EXCEPT !.about = IF met THEN "this board" ELSE "no board"])
  BY <1>1, StillItsOwn DEF Lands
<1> DEFINE about == IF met THEN "this board" ELSE "no board"
           p == IF prefetch.about = "none" THEN prefetch ELSE [prefetch EXCEPT !.about = about]
<1>3. p \in Prefetch /\ Pass(s, l.game, mode, Changed(loops), p)
  <2>1. about \in {"this board", "no board"}
    OBVIOUS
  <2>2. Pass(s, l.game, mode, Changed(loops), p)
    BY <1>2
  <2> HIDE DEF about
  <2>3. p \in Prefetch
    BY <2>1, Parts DEF Prefetch
  <2> QED BY <2>2, <2>3
<1> HIDE DEF p
<1>4. /\ l.bag \in Bag /\ l.game \in Game /\ l.game.running = ~l.game.over
  BY LockedGames DEF IInv
<1>5. /\ Changed(loops) \in [Slots -> Loop] /\ ~Changed(loops)[s].aborted
      /\ \A q \in Slots \ {s} : Changed(loops)[q].pc = "none" \/ Changed(loops)[q].aborted
  BY <1>1, Parts, Alone, ChangedLoops DEF Lives
<1>6. ~(l.game.running /\ l.game.over)
  BY <1>4
<1> QED BY <1>1, <1>2, <1>3, <1>4, <1>5, <1>6, Parts, Alone, PassPreserves

LEMMA ResetPreserves == ASSUME IInv, Reset PROVE IInv'
<1>1. PICK d \in Fresh(<<>>) : bag' = d.bag /\ game' = NewGame(d)
  BY DEF Reset
<1>2. NoPrefetch \in Prefetch
  BY DEF NoPrefetch, Prefetch
<1>3. /\ loops' = Changed(Aborted(loops)) /\ loops' \in [Slots -> Loop]
      /\ \A s \in Slots : loops'[s].pc = "none" \/ loops'[s].aborted
  BY AbortedLoops, ChangedLoops DEF Reset
<1> QED BY <1>1, <1>2, <1>3, FreshGames, Parts, NobodyPlays DEF Reset

LEMMA PausePreserves == ASSUME IInv, Pause PROVE IInv'
<1>1. game' \in Game /\ ~game'.running
  BY Parts DEF Pause, Game
<1> QED BY <1>1, AbortedLoops, Parts, NobodyPlays DEF Pause

\* A loop is started where none may act.
LEMMA RunPreserves ==
    ASSUME IInv, NEW g \in Game, ~g.over, NEW ls \in [Slots -> Loop], NEW p \in Prefetch,
           \A s \in Slots : ls[s].pc = "none" \/ ls[s].aborted,
           Run(g, ls, p), bag' \in Bag, mode' = mode
    PROVE  IInv'
<1>1. PICK s \in Slots : abortCtrl' = s /\ Pass(s, Armed(g), mode, [ls EXCEPT ![s] = NoLoop], p)
  BY DEF Run
<1> DEFINE rs == [ls EXCEPT ![s] = NoLoop]
<1>2. NoLoop \in Loop /\ NoLoop.pc = "none" /\ ~NoLoop.aborted
  BY DEF NoLoop, Loop
<1>3. /\ rs \in [Slots -> Loop] /\ ~rs[s].aborted
      /\ \A q \in Slots \ {s} : rs[q].pc = "none" \/ rs[q].aborted
  BY <1>2
<1>4. Pass(s, Armed(g), mode, rs, p)
  BY <1>1
<1> HIDE DEF rs
<1>5. Armed(g) \in Game /\ ~Armed(g).over
  <2> DEFINE at == IF mode = "manual" /\ g.active = "none" THEN "spawn" ELSE g.active
  <2>1. at \in Places /\ Armed(g) = [g EXCEPT !.running = TRUE, !.active = at]
    BY DEF Armed, Game, Places
  <2> HIDE DEF at
  <2> QED BY <2>1 DEF Game
<1> QED BY <1>1, <1>3, <1>4, <1>5, Parts, PassPreserves

LEMMA StartPreserves == ASSUME IInv, Start PROVE IInv'
<1>1. CASE game.over
  <2>1. PICK d \in Fresh(<<>>) :
           bag' = d.bag /\ Run(NewGame(d), Changed(Aborted(loops)), NoPrefetch)
    BY <1>1 DEF Start
  <2>2. NoPrefetch \in Prefetch
    BY DEF NoPrefetch, Prefetch
  <2>3. /\ Changed(Aborted(loops)) \in [Slots -> Loop]
        /\ \A s \in Slots : \/ Changed(Aborted(loops))[s].pc = "none"
                            \/ Changed(Aborted(loops))[s].aborted
    BY AbortedLoops, ChangedLoops
  <2> QED BY <2>1, <2>2, <2>3, FreshGames, RunPreserves DEF Start
<1>2. CASE ~game.over
  <2>1. \A s \in Slots : loops[s].pc = "none" \/ loops[s].aborted
    BY <1>2 DEF Start, IInv, LoopInv, Lives
  <2> QED BY <1>2, <2>1, Parts, RunPreserves DEF Start
<1> QED BY <1>1, <1>2

LEMMA ToManualPreserves == ASSUME IInv, ToManual PROVE IInv'
<1>1. NoPrefetch \in Prefetch
  BY DEF NoPrefetch, Prefetch
<1>2. CASE game.running
  <2>1. game' \in Game /\ ~game'.over
    BY <1>2, Parts DEF ToManual, Game, Places
  <2> QED BY <1>1, <1>2, <2>1, AbortedLoops, Parts, NobodyPlays DEF ToManual
<1>3. CASE ~game.running
  <2>1. TypeOK'
    BY <1>1, <1>3 DEF ToManual, IInv, TypeOK, Prefetch
  <2>2. LoopInv'
    BY <1>3 DEF ToManual, IInv, LoopInv, Lives
  <2> QED BY <2>1, <2>2 DEF IInv
<1> QED BY <1>2, <1>3

LEMMA ToAIPreserves == ASSUME IInv, ToAI PROVE IInv'
<1>1. NoPrefetch \in Prefetch /\ NoLoop \in Loop /\ NoLoop.pc = "none" /\ ~NoLoop.aborted
  BY DEF NoPrefetch, Prefetch, NoLoop, Loop
<1>2. CASE game.running
  <2>1. PICK s \in Slots :
           abortCtrl' = s /\ Pass(s, game, "ai", [Aborted(loops) EXCEPT ![s] = NoLoop], NoPrefetch)
    BY <1>2 DEF ToAI
  <2> DEFINE rs == [Aborted(loops) EXCEPT ![s] = NoLoop]
  <2>2. /\ rs \in [Slots -> Loop] /\ ~rs[s].aborted
        /\ \A q \in Slots \ {s} : rs[q].pc = "none" \/ rs[q].aborted
    BY <1>1, AbortedLoops
  <2>3. Pass(s, game, "ai", rs, NoPrefetch)
    BY <2>1
  <2> HIDE DEF rs
  <2> QED BY <1>1, <2>1, <2>2, <2>3, Parts, PassPreserves DEF ToAI
<1>3. CASE ~game.running
  <2>1. TypeOK'
    BY <1>1, <1>3 DEF ToAI, IInv, TypeOK, Prefetch
  <2>2. LoopInv'
    BY <1>3 DEF ToAI, IInv, LoopInv, Lives
  <2> QED BY <2>1, <2>2 DEF IInv
<1> QED BY <1>2, <1>3

LEMMA MovePreserves == ASSUME IInv, Move PROVE IInv'
<1>1. /\ game' \in Game /\ game'.running = game.running /\ game'.over = game.over
      /\ game'.current = game.current
  BY Parts DEF Move, Game, Places
<1>2. TypeOK'
  BY <1>1 DEF Move, IInv, TypeOK, Game
<1>3. LoopInv'
  BY <1>1 DEF Move, IInv, LoopInv, Lives
<1> QED BY <1>2, <1>3 DEF IInv

LEMMA HardDropPreserves == ASSUME IInv, HardDrop PROVE IInv'
<1>1. PICK l \in LockAndAdvance(mode) : bag' = l.bag /\ game' = l.game
  BY DEF HardDrop
<1>2. mode' = "manual" /\ mode = "manual" /\ abortCtrl' = abortCtrl
  BY DEF HardDrop, Playable
<1>3. bag' \in Bag /\ game' \in Game /\ game'.running = ~game'.over
  BY <1>1, LockedGames DEF IInv
<1>4. /\ loops' \in [Slots -> Loop]
      /\ \A s \in Slots : loops'[s].pc = loops[s].pc /\ loops'[s].aborted = loops[s].aborted
  BY Parts, ChangedLoops DEF HardDrop
<1>5. prefetch' \in Prefetch
  BY Parts DEF HardDrop, Prefetch
<1>6. TypeOK'
  <2>1. ~(game'.running /\ game'.over)
    BY <1>3
  <2> QED BY <1>2, <1>3, <1>4, <1>5, <2>1, Parts DEF TypeOK, Bag, Game, Loop, Prefetch
<1>7. LoopInv'
  <2>1. game'.running \/ game'.over
    BY <1>3 DEF Game
  <2> QED BY <1>2, <1>4, <2>1 DEF IInv, LoopInv, Lives
<1> QED BY <1>6, <1>7 DEF IInv

LEMMA NextPreserves == IInv /\ [Next]_vars => IInv'
<1> SUFFICES ASSUME IInv, [Next]_vars PROVE IInv'
  OBVIOUS
<1>1. ASSUME NEW s \in Slots, Ends(s) PROVE IInv'
  BY <1>1, EndPreserves DEF Ends, Lives
<1>2. CASE UNCHANGED vars
  BY <1>2 DEF vars, IInv, TypeOK, LoopInv, Lives
<1> QED BY <1>1, <1>2, WakesPreserves, AnswerPreserves, DecidePreserves, FallsPreserves,
           LandsPreserves, PrefetchPreserves, ResetPreserves, StartPreserves, PausePreserves,
           ToManualPreserves, ToAIPreserves, MovePreserves, HardDropPreserves
       DEF Next, LoopStep

THEOREM Invariance == Spec => []IInv
BY InitHolds, NextPreserves, PTL DEF Spec

\* tetris.html:1053-1091: bag, game, loops and prefetch are what the page takes them for,
\* and the bag never holds two chunks.
THEOREM TypeCorrect == Spec => []TypeOK
<1>1. IInv => TypeOK
  BY DEF IInv
<1> QED BY <1>1, Invariance, PTL

\* tetris.html:1609-1611, 1655, 1724-1733: at most one loop can act, the controller at hand
\* stops it, and a running game of the model has one.
THEOREM OneLoopPlays == Spec => []OneLoop
<1>1. ASSUME IInv PROVE OneLoop
  BY <1>1 DEF IInv, LoopInv, Lives, OneLoop, Live
<1> QED BY <1>1, Invariance, PTL

\* tetris.html:1547-1550: what passes the loop's checks is about the board as it is.
THEOREM LandsWhereItWasAsked == Spec => []LandsOnItsBoard
<1>1. ASSUME IInv PROVE LandsOnItsBoard
  BY <1>1 DEF IInv, LoopInv, Lives, LandsOnItsBoard, Live
<1> QED BY <1>1, Invariance, PTL

\* tetris.html:1068-1091, 1530-1540: when the model's own drop lands, the question asked
\* ahead is the next question.
THEOREM AskedAheadIsUsed == Spec => PrefetchIsUsed
<1> DEFINE Used == \A s \in Slots :
                       loops[s].pc = "dropping" /\ Lands(s) /\ loops'[s].pc = "deciding" =>
                           prefetch.about = "next board" /\ prefetch' = NoPrefetch
<1>1. ASSUME IInv, [Next]_vars PROVE [Used]_vars
  <2> SUFFICES ASSUME NEW s \in Slots, Lands(s), loops'[s].pc = "deciding"
               PROVE  prefetch.about = "next board" /\ prefetch' = NoPrefetch
    OBVIOUS
  <2>1. Lives(s) /\ loops[s].pc = "dropping"
    BY DEF Lands, Lives
  <2>2. prefetch.about = "next board" /\ prefetch.next = Last(bag) /\ Len(bag) >= LOW
    BY <1>1, <2>1 DEF IInv, LoopInv
  <2>3. game.running /\ StillIts(s)
    BY <1>1, <2>1, StillItsOwn
  <2>4. PICK l \in LockAndAdvance(mode) :
           LET met == prefetch.about = "next board" /\ prefetch.next = l.game.next
           IN  Pass(s, l.game, mode, Changed(loops),
                    IF prefetch.about = "none" THEN prefetch
                    ELSE [prefetch EXCEPT !.about = IF met THEN "this board" ELSE "no board"])
    BY <2>3 DEF Lands
  <2>5. l.game.next = Last(bag)
    BY <1>1, <2>2, LockedGames DEF IInv
  <2> DEFINE p == [prefetch EXCEPT !.about = "this board"]
  <2>6. Pass(s, l.game, mode, Changed(loops), p)
    BY <2>2, <2>4, <2>5
  <2>7. p.about = "this board"
    BY <1>1, Parts DEF Prefetch
  <2> HIDE DEF p
  <2>8. loops'[s] = NoLoop \/ loops'[s] = [NoLoop EXCEPT !.pc = "idle"] \/ prefetch' = NoPrefetch
    <3>1. Changed(loops) \in [Slots -> Loop]
      BY <1>1, Parts, ChangedLoops
    <3> QED BY <2>6, <2>7, <3>1 DEF Pass
  <2>9. NoLoop.pc # "deciding" /\ [NoLoop EXCEPT !.pc = "idle"].pc # "deciding"
    BY DEF NoLoop
  <2> QED BY <2>2, <2>8, <2>9
<1>2. IInv /\ [Next]_vars => [Used]_vars
  BY <1>1
<1> QED BY <1>2, Invariance, PTL DEF Spec, PrefetchIsUsed
=============================================================================
