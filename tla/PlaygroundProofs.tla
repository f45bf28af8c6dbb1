-------------------------- MODULE PlaygroundProofs --------------------------
(***************************************************************************)
(* What Playground promises for any number of handler threads, candidates  *)
(* and engines, whatever the engines do: "no engine is ready" is only said *)
(* when none was ready, and in time for the search, all along.             *)
(***************************************************************************)
EXTENDS Playground, TLAPS

\* A search has not gone past an engine that was ready when the thread was asked, still
\* is and answered in time; what it did not find was not there, or was too slow for it.
SearchInv ==
    \A t \in Everyone :
        /\ \A u \in steady[t] : Ready(u)
        /\ IF pc[t] = "scan" THEN \A u \in steady[t] : u >= next[t] ELSE next[t] = 1
        /\ pc[t] = "resolved" /\ found[t] = Nothing => steady[t] = {}
        /\ answer[t] = "searching" => steady[t] = {}

IInv == TypeOK /\ SearchInv

Hits == [url : Urls, id : Ids]

LEMMA NothingIsNoHit == Nothing \notin Hits /\ \A r \in Hits : r.url # Nothing.url
<1>1. Nothing.url = 0
  BY DEF Nothing
<1>2. \A r \in Hits : r.url \in 1..Candidates
  BY DEF Hits, Urls
<1>3. 0 \notin 1..Candidates
  BY PlaygroundAssumption
<1> QED BY <1>1, <1>2, <1>3

LEMMA InitHolds == Init => IInv
<1> SUFFICES ASSUME Init PROVE IInv
  OBVIOUS
<1>1. 1 \in 1..(Candidates + 1) /\ 0 \in 0..MaxTrouble
  BY PlaygroundAssumption
<1>2. TypeOK
  BY <1>1 DEF Init, TypeOK, Everyone, Answers
<1>3. SearchInv
  BY DEF Init, SearchInv
<1> QED BY <1>2, <1>3 DEF IInv

-----------------------------------------------------------------------------
(* The engines.                                                             *)

\* An address that is not ready any more is forgotten by every search.
LEMMA BecomesPreserves ==
    ASSUME IInv, NEW u \in Urls,
           NEW status \in Ids \union {"down", "loading", "failed", "garbled"},
           Becomes(u, status), trouble' \in 0..MaxTrouble
    PROVE  IInv'
<1>1. up' = [up EXCEPT ![u] = status]
      /\ steady' = [t \in Everyone |-> IF status \in Ids THEN steady[t] ELSE steady[t] \ {u}]
      /\ UNCHANGED <<cache, lock, serving, pc, kind, next, found, answer>>
  BY DEF Becomes
<1>2. TypeOK'
  BY <1>1 DEF IInv, TypeOK
<1>3. SearchInv'
  <2> SUFFICES ASSUME NEW t \in Everyone
               PROVE  /\ \A v \in steady'[t] : up'[v] \in Ids
                      /\ steady'[t] \subseteq steady[t]
    BY <1>1 DEF IInv, SearchInv, Ready
  <2>1. steady[t] \subseteq Urls /\ \A v \in steady[t] : up[v] \in Ids
    BY DEF IInv, TypeOK, SearchInv, Ready
  <2> QED BY <1>1, <2>1 DEF IInv, TypeOK
<1> QED BY <1>2, <1>3 DEF IInv

LEMMA EnginePreserves ==
    ASSUME IInv, NEW u \in Urls, Start(u) \/ LoadEnds(u) \/ LoadFails(u) \/ Stop(u) \/ Garble(u)
    PROVE  IInv'
<1>1. trouble \in 0..MaxTrouble
  BY DEF IInv, TypeOK
<1>2. Trouble => trouble' \in 0..MaxTrouble
  BY <1>1, PlaygroundAssumption DEF Trouble
<1>3. \A i \in IF Renames THEN Ids ELSE {IdOf[u]} : i \in Ids
  BY PlaygroundAssumption
<1> QED BY <1>1, <1>2, <1>3, BecomesPreserves DEF Start, LoadEnds, LoadFails, Stop, Garble

-----------------------------------------------------------------------------
(* The threads: every step of one leaves the engines and what is steady     *)
(* for the others alone; only a probe that is missed costs it a steady one. *)

Known == [url : Urls, id : Ids] \union {Nothing}

\* What a step of thread `t` may leave it with.
LEMMA ThreadPreserves ==
    ASSUME IInv, NEW t \in Everyone, UNCHANGED <<up, steady>>,
           trouble' \in 0..MaxTrouble, cache' \in Known,
           lock' \in Everyone \union {NoOne}, serving' \in BOOLEAN,
           NEW at \in {"idle", "resolve", "scan", "resolved", "invalidate", "serving", "dead"},
           NEW n \in 1..(Candidates + 1), NEW r \in Known, NEW a \in Answers,
           pc' = [pc EXCEPT ![t] = at], next' = [next EXCEPT ![t] = n],
           found' = [found EXCEPT ![t] = r], answer' = [answer EXCEPT ![t] = a],
           kind' = kind,
           IF at = "scan" THEN \A u \in steady[t] : u >= n ELSE n = 1,
           at = "resolved" /\ r = Nothing => steady[t] = {},
           a = "searching" => steady[t] = {}
    PROVE  IInv'
<1>1. /\ pc'[t] = at /\ next'[t] = n /\ found'[t] = r /\ answer'[t] = a
      /\ \A q \in Everyone \ {t} : /\ pc'[q] = pc[q] /\ next'[q] = next[q]
                                   /\ found'[q] = found[q] /\ answer'[q] = answer[q]
  BY DEF IInv, TypeOK
<1>2. TypeOK'
  BY DEF IInv, TypeOK, Known
<1>3. SearchInv'
  <2> SUFFICES ASSUME NEW q \in Everyone
               PROVE  /\ IF pc'[q] = "scan" THEN \A u \in steady[q] : u >= next'[q]
                                            ELSE next'[q] = 1
                      /\ pc'[q] = "resolved" /\ found'[q] = Nothing => steady[q] = {}
                      /\ answer'[q] = "searching" => steady[q] = {}
    BY DEF IInv, SearchInv, Ready
  <2>1. CASE q = t
    BY <1>1, <2>1
  <2>2. CASE q # t
    BY <1>1, <2>2 DEF IInv, SearchInv
  <2> QED BY <2>1, <2>2
<1> QED BY <1>2, <1>3 DEF IInv

\* What stays as it was is what it was.
LEMMA Unmoved ==
    ASSUME IInv, NEW t \in Everyone
    PROVE  /\ pc = [pc EXCEPT ![t] = pc[t]] /\ next = [next EXCEPT ![t] = next[t]]
           /\ found = [found EXCEPT ![t] = found[t]] /\ answer = [answer EXCEPT ![t] = answer[t]]
           /\ next[t] \in 1..(Candidates + 1) /\ found[t] \in Known /\ answer[t] \in Answers
           /\ trouble \in 0..MaxTrouble /\ cache \in Known
           /\ lock \in Everyone \union {NoOne} /\ serving \in BOOLEAN
BY DEF IInv, TypeOK, Known

\* An engine that was too slow is not steady for this search any more; the others
\* still lie ahead.
LEMMA MissPreserves == ASSUME IInv, NEW t \in Everyone, ProbeMisses(t) PROVE IInv'
<1>1. /\ next[t] \in 1..Candidates /\ pc[t] = "scan"
      /\ next' = [next EXCEPT ![t] = next[t] + 1]
      /\ steady' = [steady EXCEPT ![t] = steady[t] \ {next[t]}]
      /\ UNCHANGED <<up, cache, lock, serving, pc, kind, found, answer>>
  BY DEF ProbeMisses, Missed, Urls
<1>2. next[t] + 1 \in 1..(Candidates + 1)
  BY <1>1, PlaygroundAssumption
<1>3. trouble' \in 0..MaxTrouble
  <2>1. trouble \in 0..MaxTrouble
    BY DEF IInv, TypeOK
  <2> QED BY <2>1, PlaygroundAssumption DEF ProbeMisses, Missed, Trouble
<1>4. TypeOK'
  BY <1>1, <1>2, <1>3 DEF IInv, TypeOK
<1>5. SearchInv'
  <2>1. /\ next'[t] = next[t] + 1 /\ steady'[t] = steady[t] \ {next[t]}
        /\ \A q \in Everyone \ {t} : next'[q] = next[q] /\ steady'[q] = steady[q]
    BY <1>1 DEF IInv, TypeOK
  <2>2. \A u \in steady'[t] : u >= next'[t]
    <3> SUFFICES ASSUME NEW u \in steady'[t] PROVE u >= next'[t]
      OBVIOUS
    <3>1. u \in steady[t] /\ u # next[t]
      BY <2>1
    <3>2. u \in 1..Candidates /\ u >= next[t]
      BY <1>1, <3>1 DEF IInv, TypeOK, SearchInv, Urls
    <3> QED BY <1>1, <2>1, <3>1, <3>2, PlaygroundAssumption
  <2> SUFFICES ASSUME NEW q \in Everyone
               PROVE  /\ \A u \in steady'[q] : up'[u] \in Ids
                      /\ IF pc'[q] = "scan" THEN \A u \in steady'[q] : u >= next'[q]
                                            ELSE next'[q] = 1
                      /\ pc'[q] = "resolved" /\ found'[q] = Nothing => steady'[q] = {}
                      /\ answer'[q] = "searching" => steady'[q] = {}
    BY DEF SearchInv, Ready
  <2>3. CASE q = t
    BY <1>1, <2>1, <2>2, <2>3 DEF IInv, SearchInv, Ready
  <2>4. CASE q # t
    BY <1>1, <2>1, <2>4 DEF IInv, SearchInv, Ready
  <2> QED BY <2>3, <2>4
<1> QED BY <1>4, <1>5 DEF IInv

LEMMA ResolvePreserves == ASSUME IInv, NEW t \in Everyone, Resolve(t) PROVE IInv'
<1> USE Unmoved
<1>1. 1 \in 1..(Candidates + 1) /\ Nothing \in Known
  BY PlaygroundAssumption DEF Known
<1>2. /\ steady[t] \subseteq Urls /\ \A u \in steady[t] : up[u] \in Ids
      /\ IF pc[t] = "scan" THEN \A u \in steady[t] : u >= next[t] ELSE next[t] = 1
      /\ answer[t] = "searching" => steady[t] = {}
  BY DEF IInv, TypeOK, SearchInv, Ready
<1>3. CASE ReturnCached(t)
  BY <1>1, <1>2, <1>3, ThreadPreserves DEF ReturnCached, Resolved, engines
<1>4. CASE TakeLock(t)
  <2>1. \A u \in steady[t] : u >= 1
    BY <1>2 DEF Urls
  <2>2. next[t] = 1
    BY <1>2, <1>4 DEF TakeLock
  <2>3. /\ pc' = [pc EXCEPT ![t] = "scan"] /\ next' = [next EXCEPT ![t] = next[t]]
        /\ found' = [found EXCEPT ![t] = found[t]] /\ answer' = [answer EXCEPT ![t] = answer[t]]
        /\ lock' = t /\ UNCHANGED <<up, trouble, cache, serving, kind, steady>>
    BY <1>4 DEF TakeLock, engines
  <2> QED BY <1>2, <2>1, <2>2, <2>3, ThreadPreserves
<1>5. CASE ProbeFinds(t)
  <2> DEFINE hit == [url |-> next[t], id |-> up[next[t]]]
  <2>1. hit \in Known /\ hit # Nothing
    BY <1>5, NothingIsNoHit DEF ProbeFinds, Ready, Known, Hits
  <2> HIDE DEF hit
  <2>2. /\ cache' = hit /\ lock' = NoOne /\ Resolved(t, hit)
        /\ UNCHANGED <<up, trouble, serving, kind, answer, steady>>
    BY <1>5 DEF ProbeFinds, Resolved, engines, hit
  <2> QED BY <1>1, <1>2, <2>1, <2>2, ThreadPreserves DEF Resolved
<1>6. CASE ProbeMisses(t)
  BY <1>6, MissPreserves
<1>7. CASE ProbeRaises(t)
  <2>1. "died" \in Answers
    BY DEF Answers
  <2> QED BY <1>1, <1>2, <1>7, <2>1, ThreadPreserves DEF ProbeRaises, engines
<1>8. CASE ScanEnds(t)
  <2>1. steady[t] = {}
    <3> SUFFICES ASSUME NEW u \in steady[t] PROVE FALSE
      OBVIOUS
    <3>1. next[t] \in 1..(Candidates + 1) /\ next[t] \notin 1..Candidates
          /\ u \in 1..Candidates /\ u >= next[t]
      BY <1>2, <1>8 DEF ScanEnds, Urls
    <3> QED BY <3>1, PlaygroundAssumption
  <2> QED BY <1>1, <1>2, <1>8, <2>1, ThreadPreserves DEF ScanEnds, Resolved, engines
<1> QED BY <1>3, <1>4, <1>5, <1>6, <1>7, <1>8 DEF Resolve

LEMMA HandlePreserves == ASSUME IInv, NEW t \in Everyone, Handle(t) PROVE IInv'
<1> USE Unmoved
<1>1. Nothing \in Known
  BY DEF Known
<1>2. /\ pc[t] # "scan" => next[t] = 1
      /\ pc[t] = "resolved" /\ found[t] = Nothing => steady[t] = {}
      /\ answer[t] = "searching" => steady[t] = {}
  BY DEF IInv, TypeOK, SearchInv
<1>3. ASSUME NEW a \in Answers, Finish(t, a), a = "searching" => steady[t] = {},
             pc[t] # "scan", cache' \in Known, UNCHANGED <<engines, lock, serving, kind, next, steady>>
      PROVE  IInv'
  BY <1>1, <1>2, <1>3, ThreadPreserves DEF Finish, engines
<1>4. CASE Report(t)
  BY <1>2, <1>3, <1>4 DEF Report, Answers
<1>5. CASE Forward(t)
  BY <1>3, <1>5 DEF Forward, Answers
<1>6. CASE CannotReach(t)
  <2>1. trouble' \in 0..MaxTrouble
    <3>1. trouble \in 0..MaxTrouble
      OBVIOUS
    <3> QED BY <1>6, <3>1, PlaygroundAssumption DEF CannotReach, Trouble
  <2>2. /\ pc' = [pc EXCEPT ![t] = "invalidate"] /\ next' = [next EXCEPT ![t] = next[t]]
        /\ found' = [found EXCEPT ![t] = found[t]] /\ answer' = [answer EXCEPT ![t] = answer[t]]
        /\ UNCHANGED <<up, cache, lock, serving, kind, steady>> /\ pc[t] = "resolved"
    BY <1>6 DEF CannotReach
  <2> QED BY <1>2, <2>1, <2>2, ThreadPreserves
<1>7. CASE ForwardRaises(t)
  BY <1>3, <1>7 DEF ForwardRaises, Answers
<1>8. CASE Invalidate(t)
  BY <1>1, <1>3, <1>8 DEF Invalidate, Answers, engines
<1> QED BY <1>4, <1>5, <1>6, <1>7, <1>8 DEF Handle

LEMMA BeginPreserves ==
    ASSUME IInv, NEW t \in Threads, NEW k \in {"systemone", "config", "readyz"}, Begin(t, k)
    PROVE  IInv'
<1>1. t \in Everyone
  BY DEF Everyone
<1>2. /\ pc' = [pc EXCEPT ![t] = "resolve"] /\ kind' = [kind EXCEPT ![t] = k]
      /\ answer' = [answer EXCEPT ![t] = "none"]
      /\ steady' = [steady EXCEPT ![t] = {u \in Urls : up[u] \in Ids}]
      /\ UNCHANGED <<up, trouble, cache, lock, serving, next, found>> /\ pc[t] = "idle"
  BY DEF Begin, engines, Ready
<1>3. TypeOK'
  BY <1>1, <1>2 DEF IInv, TypeOK, Answers
<1>4. SearchInv'
  BY <1>1, <1>2 DEF IInv, TypeOK, SearchInv, Ready
<1> QED BY <1>3, <1>4 DEF IInv

LEMMA ServePreserves == ASSUME IInv, Serve PROVE IInv'
<1>1. Main \in Everyone
  BY DEF Everyone
<1>2. next[Main] = 1 /\ (answer[Main] = "searching" => steady[Main] = {})
  BY <1>1 DEF IInv, SearchInv, Serve
<1>3. /\ pc' = [pc EXCEPT ![Main] = "serving"] /\ next' = [next EXCEPT ![Main] = next[Main]]
      /\ found' = [found EXCEPT ![Main] = found[Main]]
      /\ answer' = [answer EXCEPT ![Main] = answer[Main]]
      /\ serving' = TRUE /\ UNCHANGED <<up, trouble, cache, lock, kind, steady>>
  BY <1>1, Unmoved DEF Serve, engines
<1> QED BY <1>1, <1>2, <1>3, Unmoved, ThreadPreserves

LEMMA NextPreserves == IInv /\ [Next]_vars => IInv'
<1>1. ASSUME IInv, UNCHANGED vars PROVE IInv'
  BY <1>1 DEF vars, IInv, TypeOK, SearchInv, Ready
<1> QED BY <1>1, EnginePreserves, ServePreserves, ResolvePreserves, HandlePreserves,
           BeginPreserves DEF Next

\* server.py:71-171: the cache, the lock, the candidates and the threads are what the
\* code takes them for.
THEOREM TypeCorrect == Spec => []TypeOK
<1>1. IInv => TypeOK
  BY DEF IInv
<1> QED BY <1>1, InitHolds, NextPreserves, PTL DEF Spec

\* server.py:182-217: "no engine is ready" is never the answer while one was ready all
\* along, unless it was too slow for a probe of this search itself, however the others
\* behave and whoever else searches, waits or forgets.
THEOREM RefusedHonestly == Spec => []RefusalIsHonest
<1>1. IInv => RefusalIsHonest
  BY DEF IInv, SearchInv, RefusalIsHonest, Everyone
<1> QED BY <1>1, InitHolds, NextPreserves, PTL DEF Spec
=============================================================================
