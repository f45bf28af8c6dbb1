----------------------------- MODULE DinoProofs -----------------------------
(***************************************************************************)
(* What Dino promises for any number of calls, games, questions and key    *)
(* changes: an answer that changes the game it was asked about changes the *)
(* very situation it was asked about, and the counter that gates the       *)
(* requests is the number of calls in flight.                              *)
(***************************************************************************)
EXTENDS Dino, TLAPS, FiniteSetTheorems

Game == [epoch : Nat, seq : 0..MaxSeq, accepted : 0..MaxSeq,
         held : {"run", "duck"}, jumping : BOOLEAN, crashed : BOOLEAN]
Call == [seq : 0..MaxSeq, epoch : Nat, owned : BOOLEAN, aborted : BOOLEAN]

Out(cs) == {c \in Calls : cs[c] # None}

\* What happened since a call was asked dates it: the epoch has moved on, or a newer
\* answer was accepted.  Calls about a previous game are not covered.
Dated(ma, g, cs, ms) ==
    \A c \in Out(cs) : "game" \notin ms[c] =>
        /\ cs[c].epoch <= g.epoch
        /\ ms[c] \intersect {"keys", "mode", "crash"} # {} \/ ma = "manual" =>
               cs[c].epoch < g.epoch
        /\ "newer" \in ms[c] => cs[c].seq <= g.accepted

IInv == /\ TypeOK
        /\ inflight = Cardinality(Out(calls))
        /\ Dated(mode, game, calls, missed)
        /\ PremiseHeld

\* The part of it that a question changes.
AskInv(ma, g, cs, ms, n) ==
    /\ g \in Game /\ cs \in [Calls -> Call] /\ ms \in [Calls -> SUBSET Events]
    /\ n = Cardinality(Out(cs)) /\ Dated(ma, g, cs, ms)

LEMMA Sizes == ASSUME NEW cs PROVE IsFiniteSet(Out(cs)) /\ Cardinality(Out(cs)) \in Nat
<1>1. IsFiniteSet(Out(cs))
  BY DinoAssumption, FS_Subset DEF Out
<1> QED BY <1>1, FS_CardinalityType

LEMMA InitHolds == Init => IInv
<1> SUFFICES ASSUME Init PROVE IInv
  OBVIOUS
<1>1. MaxSeq \in Nat /\ 0 \in 0..MaxSeq /\ 1 \in 1..MaxGames
  BY DinoAssumption
<1>2. None \in Call /\ FreshGame(1) \in Game
  <2>1. None \in Call
    BY <1>1 DEF None, Call
  <2>2. FreshGame(1) \in Game
    BY <1>1 DEF FreshGame, Game
  <2> QED BY <2>1, <2>2
<1>3. TypeOK
  <2>1. game \in Game /\ calls \in [Calls -> Call] /\ missed \in [Calls -> SUBSET Events]
    BY <1>2 DEF Init
  <2>2. /\ running = FALSE /\ hasCtrl = FALSE /\ cold = FALSE /\ mode = "ai" /\ limit \in Limits
        /\ gameSerial = 1 /\ inflight = 0 /\ retries = 0 /\ applied = {}
    BY DEF Init
  <2>3. running \in BOOLEAN /\ hasCtrl \in BOOLEAN /\ cold \in BOOLEAN
    BY <2>2
  <2>4. /\ mode \in {"ai", "manual"} /\ gameSerial \in 1..MaxGames
        /\ inflight \in Int /\ retries \in Nat
    BY <1>1, <2>2
  <2>5. applied \in SUBSET Events
    BY <2>2
  <2> QED BY <2>1, <2>2, <2>3, <2>4, <2>5 DEF TypeOK, Call, Game
<1>4. Out(calls) = {}
  BY DEF Init, Out
<1> QED BY <1>3, <1>4, FS_EmptySet DEF Init, IInv, Dated, PremiseHeld

\* What the invariant says of the parts.
LEMMA Parts ==
    ASSUME IInv
    PROVE  AskInv(mode, game, calls, missed, inflight)
BY DEF IInv, TypeOK, AskInv, Game, Call

\* What is left to show of a step once its question, if any, is accounted for.
LEMMA WholePreserves ==
    ASSUME AskInv(mode', game', calls', missed', inflight'),
           running' \in BOOLEAN, mode' \in {"ai", "manual"}, limit' \in Limits,
           gameSerial' \in 1..MaxGames, retries' \in Nat, hasCtrl' \in BOOLEAN,
           cold' \in BOOLEAN, applied' \in SUBSET Events, PremiseHeld'
    PROVE  IInv'
<1>1. inflight' \in Int
  BY Sizes DEF AskInv
<1> QED BY <1>1 DEF AskInv, IInv, TypeOK, Game, Call

\* The rest of the state is as it was.
LEMMA Rest ==
    ASSUME IInv
    PROVE  /\ running \in BOOLEAN /\ mode \in {"ai", "manual"} /\ limit \in Limits
           /\ gameSerial \in 1..MaxGames /\ retries \in Nat /\ hasCtrl \in BOOLEAN
           /\ cold \in BOOLEAN /\ applied \in SUBSET Events /\ PremiseHeld
BY DEF IInv, TypeOK

-----------------------------------------------------------------------------
(* Questions.                                                               *)

LEMMA AskIfPreserves ==
    ASSUME NEW wanted, NEW g, NEW run, NEW cs, NEW ms, NEW n, NEW frozen,
           AskInv(mode, g, cs, ms, n), hasCtrl \in BOOLEAN,
           AskIf(wanted, g, run, cs, ms, n, frozen)
    PROVE  AskInv(mode, game', calls', missed', inflight')
<1> DEFINE free == {c \in Calls : cs[c] = None}
           asks == wanted /\ MayAsk(g, run, n, frozen) /\ free # {}
           new == [seq |-> g.seq + 1, epoch |-> g.epoch, owned |-> hasCtrl, aborted |-> FALSE]
<1>1. CASE ~asks
  BY <1>1 DEF AskIf
<1>2. CASE asks
  <2>1. PICK c \in free : /\ game' = [g EXCEPT !.seq = g.seq + 1]
                          /\ calls' = [cs EXCEPT ![c] = new]
                          /\ missed' = [ms EXCEPT ![c] = {}] /\ inflight' = n + 1
    BY <1>2 DEF AskIf
  <2>2. g \in Game /\ g.seq < MaxSeq /\ mode = "ai"
    BY <1>2 DEF MayAsk, AskInv
  <2>3. g.seq + 1 \in 0..MaxSeq /\ g.seq + 1 # 0
    BY <2>2, DinoAssumption DEF Game
  <2>4. /\ game' \in Game /\ game'.epoch = g.epoch /\ game'.accepted = g.accepted
    BY <2>1, <2>2, <2>3 DEF Game
  <2>5. new \in Call /\ new # None /\ new.epoch = g.epoch
    BY <2>2, <2>3 DEF Call, None, Game
  <2> HIDE DEF new
  <2>6. /\ c \in Calls /\ cs[c] = None /\ cs \in [Calls -> Call]
        /\ ms \in [Calls -> SUBSET Events]
    BY DEF AskInv
  <2>7. /\ calls' \in [Calls -> Call] /\ calls'[c] = new
        /\ \A d \in Calls \ {c} : calls'[d] = cs[d] /\ missed'[d] = ms[d]
        /\ missed' \in [Calls -> SUBSET Events] /\ missed'[c] = {}
    BY <2>1, <2>5, <2>6
  <2>8. Out(calls') = Out(cs) \union {c} /\ c \notin Out(cs)
    BY <2>5, <2>6, <2>7 DEF Out
  <2>9. inflight' = Cardinality(Out(calls'))
    BY <2>1, <2>8, Sizes, FS_AddElement DEF AskInv
  <2>10. Dated(mode, game', calls', missed')
    <3>1. g.epoch \in Nat
      BY <2>2 DEF Game
    <3> SUFFICES ASSUME NEW d \in Out(calls'), "game" \notin missed'[d]
                 PROVE  /\ calls'[d].epoch <= g.epoch
                        /\ missed'[d] \intersect {"keys", "mode", "crash"} # {}
                               => calls'[d].epoch < g.epoch
                        /\ "newer" \in missed'[d] => calls'[d].seq <= g.accepted
      BY <2>2, <2>4 DEF Dated
    <3>2. CASE d = c
      BY <2>5, <2>7, <3>1, <3>2
    <3>3. CASE d # c
      <4>1. d \in Out(cs) /\ calls'[d] = cs[d] /\ missed'[d] = ms[d]
        BY <2>7, <2>8, <3>3 DEF Out
      <4> QED BY <4>1 DEF AskInv, Dated
    <3> QED BY <3>2, <3>3
  <2> QED BY <2>4, <2>7, <2>9, <2>10 DEF AskInv
<1> QED BY <1>1, <1>2

\* A call gives its place back.
LEMMA FinallyPreserves ==
    ASSUME IInv, NEW c \in Calls, calls[c] # None, NEW g \in Game,
           NEW ms \in [Calls -> SUBSET Events], NEW failed \in BOOLEAN, NEW frozen \in BOOLEAN,
           Dated(mode, g, [calls EXCEPT ![c] = None], [ms EXCEPT ![c] = {}]),
           Finally(c, g, ms, failed, frozen)
    PROVE  AskInv(mode, game', calls', missed', inflight') /\ retries' \in Nat
<1> DEFINE cs == [calls EXCEPT ![c] = None]
           m == [ms EXCEPT ![c] = {}]
<1>1. calls \in [Calls -> Call] /\ retries \in Nat /\ inflight = Cardinality(Out(calls))
      /\ hasCtrl \in BOOLEAN
  BY Parts, Rest DEF AskInv
<1>2. None \in Call
  BY DinoAssumption DEF None, Call
<1>3. cs \in [Calls -> Call] /\ m \in [Calls -> SUBSET Events]
  BY <1>1, <1>2
<1>4. Out(cs) = Out(calls) \ {c} /\ c \in Out(calls)
  BY <1>1, <1>2 DEF Out
<1>5. inflight - 1 = Cardinality(Out(cs))
  <2> HIDE DEF cs
  <2> QED BY <1>1, <1>4, Sizes, FS_RemoveElement
<1>6. PICK wanted : AskIf(wanted, g, running, cs, m, inflight - 1, frozen)
  BY DEF Finally
<1>7. AskInv(mode, g, cs, m, inflight - 1)
  <2>1. Dated(mode, g, cs, m)
    OBVIOUS
  <2> HIDE DEF cs, m
  <2> QED BY <1>3, <1>5, <2>1 DEF AskInv
<1>8. retries' \in Nat
  BY <1>1 DEF Finally
<1> HIDE DEF cs, m
<1> QED BY <1>1, <1>6, <1>7, <1>8, AskIfPreserves

-----------------------------------------------------------------------------
(* Keys.                                                                    *)

LEMMA PressedGame ==
    ASSUME NEW g \in Game, NEW a \in Actions
    PROVE  /\ Press(g, a) \in Game
           /\ Press(g, a).epoch = g.epoch /\ Press(g, a).accepted = g.accepted
           /\ Press(g, a).crashed = g.crashed
BY DEF Press, Game, Actions

\* The epoch moves on by at most one.
LEMMA EpochMoves ==
    ASSUME NEW g \in Game
    PROVE  LET h == [g EXCEPT !.epoch = @ + 1]
           IN  /\ h \in Game /\ h.epoch = g.epoch + 1 /\ h.accepted = g.accepted
               /\ h.crashed = g.crashed
BY DEF Game

\* A crash, and a second life.
LEMMA CrashedGame ==
    ASSUME NEW g \in Game, NEW h, h = [g EXCEPT !.crashed = TRUE, !.epoch = g.epoch + 1]
    PROVE  h \in Game /\ h.epoch = g.epoch + 1 /\ h.accepted = g.accepted
<1>1. h \in [epoch : {g.epoch + 1}, seq : {g.seq}, accepted : {g.accepted}, held : {g.held},
             jumping : {g.jumping}, crashed : {TRUE}]
  BY DEF Game
<1>2. g.epoch + 1 \in Nat
  BY DEF Game
<1> QED BY <1>1, <1>2 DEF Game

LEMMA RevivedGame ==
    ASSUME NEW g \in Game, NEW h,
           h = [g EXCEPT !.crashed = FALSE, !.held = "run", !.jumping = FALSE,
                         !.epoch = g.epoch + 1]
    PROVE  h \in Game /\ h.epoch = g.epoch + 1 /\ h.accepted = g.accepted
<1>1. h \in [epoch : {g.epoch + 1}, seq : {g.seq}, accepted : {g.accepted}, held : {"run"},
             jumping : {FALSE}, crashed : {FALSE}]
  BY DEF Game
<1>2. g.epoch + 1 \in Nat
  BY DEF Game
<1> QED BY <1>1, <1>2 DEF Game

LEMMA PlayedGame ==
    ASSUME NEW g \in Game, NEW a \in Actions
    PROVE  /\ Play(g, a) \in Game /\ Play(g, a).accepted = g.accepted
           /\ Play(g, a).epoch >= g.epoch
           /\ ChangesKeys(g, a) => Play(g, a).epoch > g.epoch
<1>1. g.epoch \in Nat
  BY DEF Game
<1>2. CASE ChangesKeys(g, a)
  <2> DEFINE h == [g EXCEPT !.epoch = @ + 1]
  <2>1. h \in Game /\ h.epoch = g.epoch + 1 /\ h.accepted = g.accepted
    BY EpochMoves
  <2>2. Play(g, a) = Press(h, a)
    BY <1>2 DEF Play
  <2> HIDE DEF h
  <2> QED BY <1>1, <2>1, <2>2, PressedGame
<1>3. CASE ~ChangesKeys(g, a)
  <2>1. [g EXCEPT !.epoch = g.epoch] = g
    BY DEF Game
  <2>2. Play(g, a) = Press(g, a)
    BY <1>3, <2>1 DEF Play
  <2> QED BY <1>1, <1>3, <2>2, PressedGame
<1> QED BY <1>2, <1>3

\* Events that come with a new epoch leave every call dated.
LEMMA LaterIsDated ==
    ASSUME IInv, NEW g \in Game, NEW events \in SUBSET {"keys", "crash", "mode"}, NEW ma,
           g.accepted = game.accepted, g.epoch >= game.epoch,
           events # {} \/ ma # mode => g.epoch > game.epoch
    PROVE  /\ Missing(events) \in [Calls -> SUBSET Events]
           /\ Dated(ma, g, calls, Missing(events))
<1>1. /\ missed \in [Calls -> SUBSET Events] /\ Dated(mode, game, calls, missed)
      /\ game \in Game /\ calls \in [Calls -> Call]
  BY Parts DEF AskInv
<1>2. Missing(events) \in [Calls -> SUBSET Events]
  BY <1>1 DEF Missing, Events
<1>3. ASSUME NEW c \in Out(calls), "game" \notin Missing(events)[c]
      PROVE  /\ calls[c].epoch <= g.epoch
             /\ Missing(events)[c] \intersect {"keys", "mode", "crash"} # {} \/ ma = "manual" =>
                    calls[c].epoch < g.epoch
             /\ "newer" \in Missing(events)[c] => calls[c].seq <= g.accepted
  <2>1. c \in Calls /\ Missing(events)[c] = missed[c] \union events
    BY DEF Missing, Out, Outstanding
  <2>2. /\ calls[c].epoch <= game.epoch
        /\ missed[c] \intersect {"keys", "mode", "crash"} # {} \/ mode = "manual" =>
               calls[c].epoch < game.epoch
        /\ "newer" \in missed[c] => calls[c].seq <= game.accepted
    BY <1>1, <1>3, <2>1 DEF Dated
  <2>3. calls[c].epoch \in Nat /\ game.epoch \in Nat /\ g.epoch \in Nat
    BY <1>1, <2>1 DEF Call, Game
  <2>4. calls[c].epoch <= g.epoch
    BY <2>2, <2>3
  <2>5. CASE events # {} \/ ma # mode
    <3>1. calls[c].epoch < g.epoch
      BY <2>2, <2>3, <2>5
    <3> QED BY <2>1, <2>2, <2>4, <3>1
  <2>6. CASE events = {} /\ ma = mode
    <3>1. Missing(events)[c] = missed[c]
      BY <2>1, <2>6
    <3>2. calls[c].epoch < game.epoch => calls[c].epoch < g.epoch
      BY <2>3
    <3> QED BY <2>2, <2>4, <2>6, <3>1, <3>2
  <2> QED BY <2>5, <2>6
<1> QED BY <1>2, <1>3 DEF Dated

\* A new game: every call is about a previous one.
LEMMA NewIsDated ==
    ASSUME IInv, NEW ma, NEW g, NEW cs, Out(cs) \subseteq Out(calls)
    PROVE  /\ Missing({"game"}) \in [Calls -> SUBSET Events]
           /\ Dated(ma, g, cs, Missing({"game"}))
<1>1. missed \in [Calls -> SUBSET Events]
  BY Parts DEF AskInv
<1>2. Missing({"game"}) \in [Calls -> SUBSET Events]
  BY <1>1 DEF Missing, Events
<1>3. \A c \in Out(cs) : "game" \in Missing({"game"})[c]
  BY DEF Missing, Out, Outstanding
<1> QED BY <1>2, <1>3 DEF Dated

-----------------------------------------------------------------------------
(* The actions.                                                             *)

\* A place that is given back leaves the others dated.
LEMMA FewerAreDated ==
    ASSUME NEW ma, NEW g, NEW cs \in [Calls -> Call], NEW ms \in [Calls -> SUBSET Events],
           NEW c \in Calls,
           \A d \in Out(cs) \ {c} : "game" \notin ms[d] =>
               /\ cs[d].epoch <= g.epoch
               /\ ms[d] \intersect {"keys", "mode", "crash"} # {} \/ ma = "manual" =>
                      cs[d].epoch < g.epoch
               /\ "newer" \in ms[d] => cs[d].seq <= g.accepted
    PROVE  Dated(ma, g, [cs EXCEPT ![c] = None], [ms EXCEPT ![c] = {}])
<1> DEFINE left == [cs EXCEPT ![c] = None]
           m == [ms EXCEPT ![c] = {}]
<1>1. /\ left[c] = None
      /\ \A d \in Calls \ {c} : left[d] = cs[d] /\ m[d] = ms[d]
  OBVIOUS
<1> HIDE DEF left, m
<1>2. \A d \in Out(left) : d \in Out(cs) \ {c} /\ left[d] = cs[d] /\ m[d] = ms[d]
  BY <1>1 DEF Out
<1>3. Dated(ma, g, left, m)
  BY <1>2 DEF Dated
<1> QED BY <1>3 DEF left, m

LEMMA AcceptedPreserves == ASSUME IInv, NEW c \in Calls, LandAccepted(c) PROVE IInv'
<1>1. /\ calls[c] # None /\ calls[c].seq > game.accepted /\ calls[c].epoch = game.epoch
      /\ applied' = missed[c]
      /\ UNCHANGED <<running, mode, limit, gameSerial, hasCtrl, cold>>
  BY DEF LandAccepted, Premise
<1>2. /\ calls \in [Calls -> Call] /\ missed \in [Calls -> SUBSET Events] /\ game \in Game
      /\ Dated(mode, game, calls, missed) /\ c \in Out(calls) /\ cold \in BOOLEAN
  BY <1>1, Parts, Rest DEF AskInv, Out
<1>3. PICK a \in Actions :
         LET g == [Play(game, a) EXCEPT !.accepted = calls[c].seq]
             keys == IF ChangesKeys(game, a) THEN {"keys"} ELSE {}
             older(d) == IF d \in Outstanding /\ calls[d].seq < calls[c].seq
                         THEN {"newer"} ELSE {}
             ms == [d \in Calls |-> Missing(keys)[d] \union older(d)]
         IN  Finally(c, g, ms, FALSE, cold)
  BY DEF LandAccepted
<1> DEFINE g == [Play(game, a) EXCEPT !.accepted = calls[c].seq]
           keys == IF ChangesKeys(game, a) THEN {"keys"} ELSE {}
           older(d) == IF d \in Outstanding /\ calls[d].seq < calls[c].seq
                       THEN {"newer"} ELSE {}
           ms == [d \in Calls |-> Missing(keys)[d] \union older(d)]
<1>4. Finally(c, g, ms, FALSE, cold)
  BY <1>3
<1>5. /\ g \in Game /\ g.accepted = calls[c].seq /\ g.epoch >= game.epoch
      /\ keys # {} => g.epoch > game.epoch
  <2>1. /\ Play(game, a) \in Game /\ Play(game, a).epoch >= game.epoch
        /\ keys # {} => Play(game, a).epoch > game.epoch
    BY <1>2, PlayedGame
  <2>2. calls[c].seq \in 0..MaxSeq
    BY <1>2 DEF Call
  <2> HIDE DEF keys
  <2> QED BY <2>1, <2>2 DEF Game
<1>6. \A d \in Out(calls) : ms[d] = missed[d] \union keys \union older(d)
  BY DEF Missing, Out, Outstanding
<1>7. ms \in [Calls -> SUBSET Events]
  BY <1>2 DEF Missing, Events
<1>8. keys \in SUBSET {"keys"} /\ \A d \in Out(calls) : older(d) \in SUBSET {"newer"}
      /\ (older(d) # {} => calls[d].seq < calls[c].seq)
  OBVIOUS
<1> HIDE DEF g, keys, ms, older
<1>9. Dated(mode, g, [calls EXCEPT ![c] = None], [ms EXCEPT ![c] = {}])
  <2> SUFFICES ASSUME NEW d \in Out(calls) \ {c}, "game" \notin ms[d]
               PROVE  /\ calls[d].epoch <= g.epoch
                      /\ ms[d] \intersect {"keys", "mode", "crash"} # {} \/ mode = "manual" =>
                             calls[d].epoch < g.epoch
                      /\ "newer" \in ms[d] => calls[d].seq <= g.accepted
    BY <1>2, <1>7, FewerAreDated
  <2>1. /\ calls[d].epoch \in Nat /\ game.epoch \in Nat /\ g.epoch \in Nat
        /\ calls[d].seq \in Nat /\ calls[c].seq \in Nat /\ game.accepted \in Nat
    BY <1>2, <1>5, DinoAssumption DEF Call, Game, Out
  <2>2. ms[d] = missed[d] \union keys \union older(d) /\ "game" \notin missed[d]
    BY <1>6
  <2>3. /\ calls[d].epoch <= game.epoch
        /\ missed[d] \intersect {"keys", "mode", "crash"} # {} \/ mode = "manual" =>
               calls[d].epoch < game.epoch
        /\ "newer" \in missed[d] => calls[d].seq <= game.accepted
    BY <1>2, <2>2 DEF Dated
  <2>4. calls[d].epoch <= g.epoch /\ (calls[d].epoch < game.epoch => calls[d].epoch < g.epoch)
    BY <1>5, <2>1, <2>3
  <2>5. keys # {} => calls[d].epoch < g.epoch
    BY <1>5, <2>1, <2>3
  <2>6. ms[d] \intersect {"keys", "mode", "crash"} # {} =>
            missed[d] \intersect {"keys", "mode", "crash"} # {} \/ keys # {}
    BY <1>8, <2>2
  <2>7. "newer" \in ms[d] => calls[d].seq <= calls[c].seq
    <3>1. "newer" \in ms[d] => "newer" \in missed[d] \/ older(d) # {}
      BY <1>8, <2>2
    <3>2. calls[d].seq <= game.accepted => calls[d].seq <= calls[c].seq
      BY <1>1, <2>1
    <3>3. calls[d].seq < calls[c].seq => calls[d].seq <= calls[c].seq
      BY <2>1
    <3> QED BY <1>8, <2>3, <3>1, <3>2, <3>3
  <2> QED BY <1>5, <2>3, <2>4, <2>5, <2>6, <2>7
<1>10. AskInv(mode, game', calls', missed', inflight') /\ retries' \in Nat
  BY <1>1, <1>2, <1>4, <1>5, <1>7, <1>9, FinallyPreserves
<1>11. applied' \in SUBSET Events /\ PremiseHeld'
  <2>1. missed[c] \in SUBSET Events
    BY <1>2
  <2>2. "game" \notin missed[c] => missed[c] = {}
    <3> SUFFICES ASSUME "game" \notin missed[c] PROVE missed[c] = {}
      OBVIOUS
    <3>1. calls[c].epoch \in Nat /\ calls[c].seq \in Nat /\ game.accepted \in Nat
      BY <1>2, DinoAssumption DEF Call, Game
    <3>2. ~(calls[c].epoch < game.epoch) /\ ~(calls[c].seq <= game.accepted)
      BY <1>1, <3>1
    <3>3. missed[c] \intersect {"keys", "mode", "crash"} = {} /\ "newer" \notin missed[c]
      BY <1>2, <3>2 DEF Dated
    <3> QED BY <2>1, <3>3 DEF Events
  <2> QED BY <1>1, <2>1, <2>2 DEF PremiseHeld
<1> QED BY <1>1, <1>10, <1>11, Rest, WholePreserves

\* An answer that changes nothing, or none.
LEMMA UnplayedPreserves ==
    ASSUME IInv, NEW c \in Calls, calls[c] # None, NEW failed \in BOOLEAN,
           NEW frozen \in BOOLEAN, Finally(c, game, missed, failed, frozen), cold' \in BOOLEAN,
           UNCHANGED <<running, mode, limit, gameSerial, hasCtrl, applied>>
    PROVE  IInv'
<1>1. /\ calls \in [Calls -> Call] /\ missed \in [Calls -> SUBSET Events] /\ game \in Game
      /\ Dated(mode, game, calls, missed)
  BY Parts DEF AskInv
<1>2. Dated(mode, game, [calls EXCEPT ![c] = None], [missed EXCEPT ![c] = {}])
  BY <1>1, FewerAreDated DEF Dated
<1>3. AskInv(mode, game', calls', missed', inflight') /\ retries' \in Nat
  BY <1>1, <1>2, FinallyPreserves
<1> QED BY <1>3, Rest, WholePreserves DEF PremiseHeld

LEMMA LandPreserves == ASSUME IInv, NEW c \in Calls, Land(c) PROVE IInv'
<1>1. CASE LandDropped(c)
  <2>1. cold \in BOOLEAN
    BY Rest
  <2> QED BY <1>1, <2>1, UnplayedPreserves DEF LandDropped
<1>2. CASE LandFailed(c)
  BY <1>2, UnplayedPreserves DEF LandFailed
<1> QED BY <1>1, <1>2, AcceptedPreserves DEF Land

LEMMA FramePreserves == ASSUME IInv, NEW due \in BOOLEAN, Frame(due) PROVE IInv'
<1>1. /\ ~game.crashed /\ game \in Game /\ calls \in [Calls -> Call]
      /\ inflight = Cardinality(Out(calls)) /\ hasCtrl \in BOOLEAN
      /\ UNCHANGED <<mode, limit, gameSerial, hasCtrl, cold, retries, applied>>
  BY Parts, Rest DEF Frame, AskInv
<1>2. PICK r \in Rescued(game) : \E l \in Landed(r) : \E g \in Hit(l) :
         \E autorestart \in BOOLEAN :
            LET run == g.crashed => autorestart
                wanted == IF limit = 1 THEN inflight = 0 ELSE due
                events == (IF r.held # game.held \/ r.jumping # game.jumping
                           THEN {"keys"} ELSE {})
                          \union (IF g.crashed THEN {"crash"} ELSE {})
            IN  running' = run /\ AskIf(wanted, g, run, calls, Missing(events), inflight, cold)
  BY DEF Frame
<1>3. PICK l \in Landed(r) : \E g \in Hit(l) : \E autorestart \in BOOLEAN :
            LET run == g.crashed => autorestart
                wanted == IF limit = 1 THEN inflight = 0 ELSE due
                events == (IF r.held # game.held \/ r.jumping # game.jumping
                           THEN {"keys"} ELSE {})
                          \union (IF g.crashed THEN {"crash"} ELSE {})
            IN  running' = run /\ AskIf(wanted, g, run, calls, Missing(events), inflight, cold)
  BY <1>2
<1>4. PICK g \in Hit(l), autorestart \in BOOLEAN :
            LET run == g.crashed => autorestart
                wanted == IF limit = 1 THEN inflight = 0 ELSE due
                events == (IF r.held # game.held \/ r.jumping # game.jumping
                           THEN {"keys"} ELSE {})
                          \union (IF g.crashed THEN {"crash"} ELSE {})
            IN  running' = run /\ AskIf(wanted, g, run, calls, Missing(events), inflight, cold)
  BY <1>3
<1> DEFINE keys == IF r.held # game.held \/ r.jumping # game.jumping THEN {"keys"} ELSE {}
           events == keys \union (IF g.crashed THEN {"crash"} ELSE {})
<1>5. /\ r \in Game /\ r.accepted = game.accepted /\ ~r.crashed /\ r.epoch >= game.epoch
      /\ keys # {} => r.epoch > game.epoch
  <2>1. game.epoch \in Nat /\ game.epoch >= game.epoch
    BY <1>1 DEF Game
  <2>2. CASE r = game
    BY <1>1, <2>1, <2>2
  <2>3. CASE r # game
    <3> DEFINE h == [game EXCEPT !.epoch = @ + 1]
    <3>1. PICK a \in Actions : r = Press(h, a)
      BY <2>3 DEF Rescued
    <3>2. /\ h \in Game /\ h.epoch = game.epoch + 1 /\ h.accepted = game.accepted
          /\ h.crashed = game.crashed
      BY <1>1, EpochMoves
    <3> HIDE DEF h
    <3>3. /\ r \in Game /\ r.epoch = game.epoch + 1 /\ r.accepted = game.accepted
          /\ r.crashed = game.crashed
      BY <3>1, <3>2, PressedGame
    <3> QED BY <1>1, <2>1, <3>3
  <2> QED BY <2>2, <2>3
<1>6. /\ l \in Game /\ l.accepted = r.accepted /\ ~l.crashed /\ l.epoch = r.epoch
  BY <1>5 DEF Landed, Game
<1>7. /\ g \in Game /\ g.accepted = l.accepted /\ g.epoch >= l.epoch
      /\ g.crashed => g.epoch > l.epoch
  <2>1. l.epoch \in Nat
    BY <1>6 DEF Game
  <2>2. CASE g = l
    BY <1>6, <2>1, <2>2
  <2>3. CASE g # l
    <3>1. g = [l EXCEPT !.crashed = TRUE, !.epoch = l.epoch + 1]
      BY <2>3 DEF Hit
    <3>2. g \in Game /\ g.accepted = l.accepted /\ g.epoch = l.epoch + 1
      BY <1>6, <3>1, CrashedGame
    <3> QED BY <2>1, <3>2
  <2> QED BY <2>2, <2>3
<1>8. PICK wanted, run \in BOOLEAN :
         running' = run /\ AskIf(wanted, g, run, calls, Missing(events), inflight, cold)
  <2>1. (g.crashed => autorestart) \in BOOLEAN
    OBVIOUS
  <2> QED BY <1>4, <2>1
<1>9. events \in SUBSET {"keys", "crash", "mode"} /\ (events # {} => keys # {} \/ g.crashed)
  OBVIOUS
<1> HIDE DEF keys, events
<1>10. /\ g.accepted = game.accepted /\ g.epoch >= game.epoch
       /\ events # {} => g.epoch > game.epoch
  <2>1. game.epoch \in Nat /\ r.epoch \in Nat /\ l.epoch \in Nat /\ g.epoch \in Nat
    BY <1>1, <1>5, <1>6, <1>7 DEF Game
  <2> QED BY <1>5, <1>6, <1>7, <1>9, <2>1
<1>11. AskInv(mode, g, calls, Missing(events), inflight)
  BY <1>1, <1>7, <1>9, <1>10, LaterIsDated DEF AskInv
<1>12. AskInv(mode, game', calls', missed', inflight')
  BY <1>1, <1>8, <1>11, AskIfPreserves
<1> QED BY <1>1, <1>8, <1>12, Rest, WholePreserves DEF PremiseHeld

LEMMA RevivePreserves == ASSUME IInv, Revive PROVE IInv'
<1>1. /\ game \in Game /\ calls \in [Calls -> Call] /\ missed \in [Calls -> SUBSET Events]
      /\ inflight = Cardinality(Out(calls)) /\ hasCtrl \in BOOLEAN
      /\ Dated(mode, game, calls, missed)
      /\ UNCHANGED <<running, mode, limit, gameSerial, hasCtrl, cold, retries, applied>>
  BY Parts, Rest DEF Revive, AskInv
<1> DEFINE g == [game EXCEPT !.crashed = FALSE, !.held = "run", !.jumping = FALSE, !.epoch = @ + 1]
<1>2. game.epoch \in Nat
  BY <1>1 DEF Game
<1>3. g \in Game /\ g.epoch = game.epoch + 1 /\ g.accepted = game.accepted
  BY <1>1, RevivedGame
<1>4. AskIf(TRUE, g, running, calls, missed, inflight, cold)
  BY DEF Revive
<1> HIDE DEF g
<1>5. Dated(mode, g, calls, missed)
  <2> SUFFICES ASSUME NEW c \in Out(calls), "game" \notin missed[c]
               PROVE  /\ calls[c].epoch < g.epoch /\ calls[c].epoch <= g.epoch
                      /\ "newer" \in missed[c] => calls[c].seq <= g.accepted
    BY DEF Dated
  <2>1. calls[c].epoch \in Nat /\ calls[c].epoch <= game.epoch
    BY <1>1 DEF Dated, Call, Out
  <2> QED BY <1>1, <1>2, <1>3, <2>1 DEF Dated
<1>6. AskInv(mode, game', calls', missed', inflight')
  BY <1>1, <1>3, <1>4, <1>5, AskIfPreserves DEF AskInv
<1> QED BY <1>1, <1>6, Rest, WholePreserves DEF PremiseHeld

LEMMA TimerPreserves == ASSUME IInv, BackoffEnds \/ RetryFires PROVE IInv'
<1>1. CASE BackoffEnds
  <2>1. AskInv(mode', game', calls', missed', inflight')
    BY <1>1, Parts DEF BackoffEnds
  <2>2. cold' \in BOOLEAN /\ UNCHANGED <<running, mode, limit, gameSerial, hasCtrl, retries, applied>>
    BY <1>1 DEF BackoffEnds
  <2> QED BY <2>1, <2>2, Rest, WholePreserves DEF PremiseHeld
<1>2. CASE RetryFires
  <2>1. /\ AskIf(TRUE, game, running, calls, missed, inflight, cold)
        /\ UNCHANGED <<running, mode, limit, gameSerial, hasCtrl, cold, applied>>
    BY <1>2 DEF RetryFires
  <2>2. retries' \in Nat
    BY <1>2, Rest DEF RetryFires
  <2>3. AskInv(mode, game', calls', missed', inflight')
    BY <2>1, Parts, Rest, AskIfPreserves
  <2> QED BY <2>1, <2>2, <2>3, Rest, WholePreserves DEF PremiseHeld
<1> QED BY <1>1, <1>2

LEMMA NewGames ==
    ASSUME IInv, NewGame
    PROVE  game' \in Game /\ gameSerial' \in 1..MaxGames
<1>1. gameSerial \in 1..MaxGames /\ gameSerial < MaxGames /\ gameSerial' = gameSerial + 1
  BY Rest DEF NewGame
<1>2. gameSerial' \in 1..MaxGames /\ gameSerial' \in Nat
  BY <1>1, DinoAssumption
<1>3. 0 \in 0..MaxSeq
  BY DinoAssumption
<1>4. game' = FreshGame(gameSerial')
  BY <1>1 DEF NewGame
<1> QED BY <1>2, <1>3, <1>4 DEF FreshGame, Game

LEMMA StartAfterCrashPreserves == ASSUME IInv, StartAfterCrash PROVE IInv'
<1>1. /\ NewGame /\ running' = TRUE /\ missed' = Missing({"game"})
      /\ UNCHANGED <<mode, limit, inflight, calls, hasCtrl, cold, retries, applied>>
  BY DEF StartAfterCrash
<1>2. AskInv(mode', game', calls', missed', inflight')
  BY <1>1, Parts, NewGames, NewIsDated DEF AskInv
<1> QED BY <1>1, <1>2, Rest, NewGames, WholePreserves DEF PremiseHeld

\* An aborted call is still a call: only a place with nothing in it stays empty.
LEMMA AbortedCall ==
    ASSUME NEW old \in Call, NEW b \in BOOLEAN, NEW new,
           b = FALSE => old.aborted = FALSE, b = FALSE \/ old.aborted \/ old.owned,
           new = [old EXCEPT !.aborted = b]
    PROVE  new \in Call /\ (new = None <=> old = None)
<1>1. new \in [seq : {old.seq}, epoch : {old.epoch}, owned : {old.owned}, aborted : {b}]
  BY DEF Call
<1>2. new \in Call
  BY <1>1 DEF Call
<1>3. ASSUME old = None PROVE new = None
  <2>1. old.aborted = FALSE /\ old.owned = FALSE
    BY <1>3 DEF None
  <2>2. b = FALSE
    BY <2>1
  <2> QED BY <1>1, <1>3, <2>2 DEF None
<1>4. ASSUME new = None PROVE old = None
  <2>1. b = FALSE
    BY <1>1, <1>4 DEF None
  <2>2. old.aborted = b
    BY <2>1
  <2>3. old = new
    BY <1>1, <2>2 DEF Call
  <2> QED BY <1>4, <2>3
<1> QED BY <1>2, <1>3, <1>4

LEMMA ResetPreserves == ASSUME IInv, Reset PROVE IInv'
<1>1. /\ NewGame /\ missed' = Missing({"game"}) /\ hasCtrl' = TRUE
      /\ calls' = [c \in Calls |-> [calls[c] EXCEPT !.aborted = @ \/ calls[c].owned]]
      /\ UNCHANGED <<running, mode, limit, inflight, cold, retries, applied>>
  BY DEF Reset
<1>2. calls \in [Calls -> Call] /\ inflight = Cardinality(Out(calls))
  BY Parts DEF AskInv
<1>3. \A c \in Calls : calls'[c] \in Call /\ (calls'[c] = None <=> calls[c] = None)
  <2> SUFFICES ASSUME NEW c \in Calls
               PROVE  calls'[c] \in Call /\ (calls'[c] = None <=> calls[c] = None)
    OBVIOUS
  <2> DEFINE old == calls[c]
             b == old.aborted \/ old.owned
  <2>1. calls'[c] = [old EXCEPT !.aborted = b]
    BY <1>1
  <2>2. old \in Call
    BY <1>2
  <2>3. b \in BOOLEAN /\ (b = FALSE => old.aborted = FALSE) /\ (b = FALSE \/ old.aborted \/ old.owned)
    BY <2>2 DEF Call
  <2> HIDE DEF b, old
  <2> QED BY <2>1, <2>2, <2>3, AbortedCall DEF old
<1>4. calls' \in [Calls -> Call]
  <2>1. DOMAIN calls' = Calls /\ calls' = [c \in Calls |-> calls'[c]]
    BY <1>1
  <2> QED BY <1>3, <2>1
<1>5. Out(calls') = Out(calls)
  BY <1>3 DEF Out
<1>6. AskInv(mode', game', calls', missed', inflight')
  BY <1>1, <1>2, <1>4, <1>5, NewGames, NewIsDated DEF AskInv
<1> QED BY <1>1, <1>6, Rest, NewGames, WholePreserves DEF PremiseHeld

LEMMA SwitchPreserves == ASSUME IInv, SwitchMode PROVE IInv'
<1>1. /\ mode \in {"ai", "manual"} /\ mode' = (IF mode = "ai" THEN "manual" ELSE "ai")
      /\ game' = [game EXCEPT !.epoch = game.epoch + 1, !.held = "run"]
      /\ missed' = Missing({"mode"}) /\ game \in Game
      /\ UNCHANGED <<running, limit, gameSerial, inflight, calls, hasCtrl, cold, retries, applied>>
  BY Parts, Rest DEF SwitchMode, AskInv
<1>2. PICK ma \in {"ai", "manual"} : mode' = ma
  BY <1>1
<1>3. PICK g : game' = g /\ g = [game EXCEPT !.epoch = game.epoch + 1, !.held = "run"]
  BY <1>1
<1>4. g \in Game /\ g.epoch = game.epoch + 1 /\ g.accepted = game.accepted
  <2>1. g \in [epoch : {game.epoch + 1}, seq : {game.seq}, accepted : {game.accepted},
               held : {"run"}, jumping : {game.jumping}, crashed : {game.crashed}]
    BY <1>1, <1>3 DEF Game
  <2>2. game.epoch + 1 \in Nat
    BY <1>1 DEF Game
  <2> QED BY <1>1, <2>1, <2>2 DEF Game
<1>5. game.epoch \in Nat /\ g.epoch >= game.epoch /\ g.epoch > game.epoch
  BY <1>1, <1>4 DEF Game
<1>6. /\ Missing({"mode"}) \in [Calls -> SUBSET Events]
      /\ Dated(ma, g, calls, Missing({"mode"}))
  BY <1>4, <1>5, LaterIsDated
<1>7. AskInv(mode', game', calls', missed', inflight')
  BY <1>1, <1>2, <1>3, <1>4, <1>6, Parts DEF AskInv
<1> QED BY <1>1, <1>2, <1>7, Rest, WholePreserves DEF PremiseHeld

\* Nothing asked before the user took over is about the game he plays.
LEMMA PressPreserves == ASSUME IInv, NEW a \in Actions, PressKey(a) PROVE IInv'
<1>1. /\ mode = "manual" /\ missed' = Missing({"keys"}) /\ game \in Game
      /\ game' = (IF a = "run" THEN [game EXCEPT !.held = "run"] ELSE Press(game, a))
      /\ missed \in [Calls -> SUBSET Events] /\ calls \in [Calls -> Call]
      /\ Dated("manual", game, calls, missed)
      /\ UNCHANGED <<running, mode, limit, gameSerial, inflight, calls, hasCtrl, cold,
                     retries, applied>>
  BY Parts DEF PressKey, AskInv
<1>2. game' \in Game /\ game'.epoch = game.epoch /\ game'.accepted = game.accepted
  <2>1. CASE a = "run"
    <3>1. /\ [game EXCEPT !.held = "run"] \in Game
          /\ [game EXCEPT !.held = "run"].epoch = game.epoch
          /\ [game EXCEPT !.held = "run"].accepted = game.accepted
      BY <1>1 DEF Game
    <3> QED BY <1>1, <2>1, <3>1
  <2>2. CASE a # "run"
    BY <1>1, <2>2, PressedGame
  <2> QED BY <2>1, <2>2
<1>3. Missing({"keys"}) \in [Calls -> SUBSET Events]
  BY <1>1 DEF Missing, Events
<1>4. Dated("manual", game', calls, Missing({"keys"}))
  <2> SUFFICES ASSUME NEW c \in Out(calls), "game" \notin Missing({"keys"})[c]
               PROVE  /\ calls[c].epoch <= game.epoch /\ calls[c].epoch < game.epoch
                      /\ "newer" \in Missing({"keys"})[c] => calls[c].seq <= game.accepted
    BY <1>2 DEF Dated
  <2>1. Missing({"keys"})[c] = missed[c] \union {"keys"}
    BY DEF Missing, Out, Outstanding
  <2> QED BY <1>1, <2>1 DEF Dated
<1>5. AskInv(mode', game', calls', missed', inflight')
  BY <1>1, <1>2, <1>3, <1>4, Parts DEF AskInv
<1> QED BY <1>1, <1>5, Rest, WholePreserves DEF PremiseHeld

LEMMA ButtonsPreserve == ASSUME IInv, StartOrPause \/ SetLimit \/ UNCHANGED vars PROVE IInv'
<1>1. AskInv(mode', game', calls', missed', inflight')
  BY Parts DEF StartOrPause, SetLimit, vars
<1>2. /\ running' \in BOOLEAN /\ limit' \in Limits
      /\ UNCHANGED <<mode, gameSerial, retries, hasCtrl, cold, applied>>
  BY Rest DEF StartOrPause, SetLimit, vars
<1> QED BY <1>1, <1>2, Rest, WholePreserves DEF PremiseHeld

LEMMA NextPreserves == IInv /\ [Next]_vars => IInv'
<1> SUFFICES ASSUME IInv, [Next]_vars PROVE IInv'
  OBVIOUS
<1>1. CASE \E c \in Calls : Land(c)
  BY <1>1, LandPreserves
<1>2. CASE BackoffEnds \/ RetryFires
  BY <1>2, TimerPreserves
<1>3. CASE \E due \in BOOLEAN : Frame(due)
  BY <1>3, FramePreserves
<1>4. CASE Revive
  BY <1>4, RevivePreserves
<1>5. CASE User
  <2>1. CASE \E action \in Actions : PressKey(action)
    BY <2>1, PressPreserves
  <2> QED BY <1>5, <2>1, StartAfterCrashPreserves, ResetPreserves, SwitchPreserves,
             ButtonsPreserve DEF User
<1>6. CASE UNCHANGED vars
  BY <1>6, ButtonsPreserve
<1> QED BY <1>1, <1>2, <1>3, <1>4, <1>5, <1>6 DEF Next

THEOREM Invariance == Spec => []IInv
BY InitHolds, NextPreserves, PTL DEF Spec

-----------------------------------------------------------------------------
(***************************************************************************)
(* The state stays well typed (TypeOK).                                    *)
(***************************************************************************)
THEOREM TypeCorrect == Spec => []TypeOK
<1>1. IInv => TypeOK
  BY DEF IInv
<1> QED BY <1>1, Invariance, PTL

(***************************************************************************)
(* For any number of calls in flight: an answer that changes the game it   *)
(* was asked about was asked about the very situation it changes           *)
(* (PremiseHeld; dino.html:1246).                                          *)
(***************************************************************************)
THEOREM AnswersFitTheMoment == Spec => []PremiseHeld
<1>1. IInv => PremiseHeld
  BY DEF IInv
<1> QED BY <1>1, Invariance, PTL

(***************************************************************************)
(* The counter that gates the requests is the number of calls in flight,   *)
(* whatever lands, fails, is aborted or paused (CountsCalls;               *)
(* dino.html:1653-1656).                                                   *)
(***************************************************************************)
THEOREM EveryCallIsCounted == Spec => []CountsCalls
<1>1. IInv => CountsCalls
  BY DEF IInv, CountsCalls, Outstanding, Out
<1> QED BY <1>1, Invariance, PTL
=============================================================================
