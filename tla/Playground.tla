----------------------------- MODULE Playground -----------------------------
(***************************************************************************)
(* The playground's server (playground/server.py): one thread per request, *)
(* a lock and a cache of which engine to talk to.  An engine is found by   *)
(* asking the candidates for /readyz in order, one probe after the other   *)
(* while the lock is held; a forwarded request that cannot connect forgets *)
(* what was found.  The engines behind the candidates start, load, stop    *)
(* and come back on their own: their side is Server's business, here they  *)
(* are only what a probe and a request see of them.                        *)
(***************************************************************************)
EXTENDS Integers, FiniteSets

CONSTANTS
    Threads,      \* the handler threads
    Candidates,   \* number of candidate addresses, tried from 1 on
    Ids,          \* engine ids
    IdOf,         \* the engine first started at each address
    Renames,      \* an address may come back as another engine
    Fails,        \* a load may fail
    Garbles,      \* something that speaks no HTTP may sit at an address
    MaxTrouble    \* bound: stops, failed loads and slow answers

Urls == 1..Candidates

ASSUME PlaygroundAssumption ==
    /\ Candidates \in Nat \ {0} /\ MaxTrouble \in Nat
    /\ IdOf \in [Urls -> Ids]
    /\ Ids \cap {"down", "loading", "failed", "garbled"} = {}
    /\ {Renames, Fails, Garbles} \subseteq BOOLEAN

NoOne == "nobody"
Main == "main"
Everyone == Threads \union {Main}
Nothing == [url |-> 0, id |-> NoOne]
Answers == {"none", "ok", "searching", "unready", "other engine", "unreachable", "died"}

VARIABLES
    up,       \* what answers at each address
    trouble,  \* stops, failed loads and slow answers so far
    cache,    \* Engine._base_url and _engine_id
    lock,     \* the holder of Engine._lock
    serving,  \* main reached serve_forever
    pc,       \* where each thread is
    kind,     \* what it was asked: systemone, config or readyz
    next,     \* the candidate it probes next
    found,    \* what resolve returned to it
    answer,   \* what it last answered
    steady    \* history: the addresses ready, and in time, ever since it was asked

vars == <<up, trouble, cache, lock, serving, pc, kind, next, found, answer, steady>>
engines == <<up, trouble>>

Init ==
    /\ up \in [Urls -> {"down", "loading"}] /\ trouble = 0
    /\ cache = Nothing /\ lock = NoOne /\ serving = FALSE
    /\ pc = [t \in Everyone |-> IF t = Main THEN "resolve" ELSE "idle"]
    /\ kind = [t \in Everyone |-> "config"]
    /\ next = [t \in Everyone |-> 1]
    /\ found = [t \in Everyone |-> Nothing]
    /\ answer = [t \in Everyone |-> "none"]
    /\ steady = [t \in Everyone |-> {}]

Ready(u) == up[u] \in Ids

-----------------------------------------------------------------------------
(***************************************************************************)
(* The engines.                                                            *)
(***************************************************************************)
Becomes(u, status) ==
    /\ up' = [up EXCEPT ![u] = status]
    /\ steady' = [t \in Everyone |-> IF status \in Ids THEN steady[t] ELSE steady[t] \ {u}]
    /\ UNCHANGED <<cache, lock, serving, pc, kind, next, found, answer>>

Trouble == trouble < MaxTrouble /\ trouble' = trouble + 1

Start(u) == up[u] = "down" /\ Becomes(u, "loading") /\ UNCHANGED trouble

LoadEnds(u) == /\ up[u] = "loading"
               /\ \E i \in IF Renames THEN Ids ELSE {IdOf[u]} : Becomes(u, i)
               /\ UNCHANGED trouble

LoadFails(u) == Fails /\ up[u] = "loading" /\ Trouble /\ Becomes(u, "failed")

Stop(u) == up[u] # "down" /\ Trouble /\ Becomes(u, "down")

Garble(u) == Garbles /\ up[u] = "down" /\ Becomes(u, "garbled") /\ UNCHANGED trouble

-----------------------------------------------------------------------------
(***************************************************************************)
(* Engine.resolve.                                                         *)
(***************************************************************************)
Refresh(t) == kind[t] = "readyz"

\* resolve returns r: main starts to serve, a handler goes on.
Resolved(t, r) ==
    /\ found' = [found EXCEPT ![t] = r]
    /\ next' = [next EXCEPT ![t] = 1]
    /\ pc' = [pc EXCEPT ![t] = "resolved"]

ReturnCached(t) ==
    /\ pc[t] = "resolve" /\ lock = NoOne
    /\ cache # Nothing /\ ~Refresh(t)
    /\ Resolved(t, cache)
    /\ UNCHANGED <<engines, cache, lock, serving, kind, answer, steady>>

TakeLock(t) ==
    /\ pc[t] = "resolve" /\ lock = NoOne
    /\ cache = Nothing \/ Refresh(t)
    /\ lock' = t /\ pc' = [pc EXCEPT ![t] = "scan"]
    /\ UNCHANGED <<engines, cache, serving, kind, next, found, answer, steady>>

ProbeFinds(t) ==
    /\ pc[t] = "scan" /\ next[t] \in Urls /\ Ready(next[t])
    /\ cache' = [url |-> next[t], id |-> up[next[t]]]
    /\ lock' = NoOne
    /\ Resolved(t, cache')
    /\ UNCHANGED <<engines, serving, kind, answer, steady>>

\* Whatever is at the address, it may not answer within probe_timeout_s.  What is
\* ready and too slow for a search is not steady for that search.
Missed(t) ==
    /\ IF Ready(next[t]) THEN Trouble ELSE UNCHANGED trouble
    /\ steady' = [steady EXCEPT ![t] = @ \ {next[t]}]
    /\ UNCHANGED <<up, cache, lock, serving, pc, kind, found, answer>>

\* Mistake: the search gives up at the first candidate that does not answer.
MutProbeMisses(t) ==
    /\ pc[t] = "scan" /\ next[t] \in Urls
    /\ next' = [next EXCEPT ![t] = IF up[next[t]] = "down" THEN Candidates + 1 ELSE @ + 1]
    /\ Missed(t)

\* _probe: no answer, a 503, or none in time.
ProbeMisses(t) ==
    /\ pc[t] = "scan" /\ next[t] \in Urls
    /\ next' = [next EXCEPT ![t] = @ + 1]
    /\ Missed(t)

\* What comes back is no HTTP: http.client raises what _probe does not catch.
ProbeRaises(t) ==
    /\ pc[t] = "scan" /\ next[t] \in Urls /\ up[next[t]] = "garbled"
    /\ lock' = NoOne
    /\ pc' = [pc EXCEPT ![t] = IF t = Main THEN "dead" ELSE "idle"]
    /\ next' = [next EXCEPT ![t] = 1]
    /\ answer' = [answer EXCEPT ![t] = "died"]
    /\ UNCHANGED <<engines, cache, serving, kind, found, steady>>

ScanEnds(t) ==
    /\ pc[t] = "scan" /\ next[t] \notin Urls
    /\ cache' = Nothing /\ lock' = NoOne
    /\ Resolved(t, Nothing)
    /\ UNCHANGED <<engines, serving, kind, answer, steady>>

Resolve(t) == \/ ReturnCached(t) \/ TakeLock(t)
              \/ ProbeFinds(t) \/ ProbeMisses(t) \/ ProbeRaises(t) \/ ScanEnds(t)

-----------------------------------------------------------------------------
(***************************************************************************)
(* The handlers.                                                           *)
(***************************************************************************)
Begin(t, k) ==
    /\ t # Main /\ serving /\ pc[t] = "idle"
    /\ kind' = [kind EXCEPT ![t] = k]
    /\ pc' = [pc EXCEPT ![t] = "resolve"]
    /\ answer' = [answer EXCEPT ![t] = "none"]
    /\ steady' = [steady EXCEPT ![t] = {u \in Urls : Ready(u)}]
    /\ UNCHANGED <<engines, cache, lock, serving, next, found>>

Serve ==
    /\ pc[Main] = "resolved" /\ serving' = TRUE
    /\ pc' = [pc EXCEPT ![Main] = "serving"]
    /\ UNCHANGED <<engines, cache, lock, kind, next, found, answer, steady>>

Finish(t, a) ==
    /\ answer' = [answer EXCEPT ![t] = a]
    /\ pc' = [pc EXCEPT ![t] = "idle"]
    /\ found' = [found EXCEPT ![t] = Nothing]

\* /readyz and /api/config answer what was found; so does a request when
\* nothing was.
Report(t) ==
    /\ t # Main /\ pc[t] = "resolved"
    /\ kind[t] # "systemone" \/ found[t] = Nothing
    /\ Finish(t, IF found[t] = Nothing THEN "searching" ELSE "ok")
    /\ UNCHANGED <<engines, cache, lock, serving, kind, next, steady>>

\* The engine's answer to the rewritten request, passed on as it is.
Forward(t) ==
    /\ t # Main /\ pc[t] = "resolved" /\ kind[t] = "systemone" /\ found[t] # Nothing
    /\ up[found[t].url] \in Ids \union {"loading", "failed"}
    /\ Finish(t, IF ~Ready(found[t].url) THEN "unready"
                 ELSE IF up[found[t].url] = found[t].id THEN "ok"
                 ELSE "other engine")
    /\ UNCHANGED <<engines, cache, lock, serving, kind, next, steady>>

\* Nothing accepts the connection, or it does not answer within timeout_s.
CannotReach(t) ==
    /\ t # Main /\ pc[t] = "resolved" /\ kind[t] = "systemone" /\ found[t] # Nothing
    /\ IF up[found[t].url] = "down" THEN UNCHANGED trouble
       ELSE up[found[t].url] # "garbled" /\ Trouble
    /\ pc' = [pc EXCEPT ![t] = "invalidate"]
    /\ UNCHANGED <<up, cache, lock, serving, kind, next, found, answer, steady>>

\* A reply that is no HTTP, or is cut off, ends the handler without an answer.
ForwardRaises(t) ==
    /\ t # Main /\ pc[t] = "resolved" /\ kind[t] = "systemone" /\ found[t] # Nothing
    /\ up[found[t].url] = "garbled"
    /\ Finish(t, "died")
    /\ UNCHANGED <<engines, cache, lock, serving, kind, next, steady>>

\* Mistake: the cache outlives the failure.
MutInvalidate(t) ==
    /\ pc[t] = "invalidate" /\ lock = NoOne
    /\ Finish(t, "unreachable")
    /\ UNCHANGED <<engines, cache, lock, serving, kind, next, steady>>

Invalidate(t) ==
    /\ pc[t] = "invalidate" /\ lock = NoOne
    /\ cache' = Nothing
    /\ Finish(t, "unreachable")
    /\ UNCHANGED <<engines, lock, serving, kind, next, steady>>

Handle(t) == \/ Report(t) \/ Forward(t) \/ CannotReach(t)
             \/ ForwardRaises(t) \/ Invalidate(t)

-----------------------------------------------------------------------------
Next ==
    \/ \E u \in Urls : Start(u) \/ LoadEnds(u) \/ LoadFails(u) \/ Stop(u) \/ Garble(u)
    \/ Serve
    \/ \E t \in Everyone : Resolve(t) \/ Handle(t)
    \/ \E t \in Threads : \E k \in {"systemone", "config", "readyz"} : Begin(t, k)

Spec == Init /\ [][Next]_vars

(***************************************************************************)
(* Threads run, a probe ends within its two seconds, the lock is granted   *)
(* again and again, a load ends, and the games keep asking.                *)
(***************************************************************************)
FairSpec ==
    /\ Spec
    /\ \A t \in Everyone : SF_vars(Resolve(t) \/ Handle(t))
    /\ WF_vars(Serve)
    /\ \A t \in Threads : SF_vars(Begin(t, "systemone"))
    /\ \A u \in Urls : WF_vars(LoadEnds(u))

-----------------------------------------------------------------------------
(***************************************************************************)
(* The state is well typed.                                                *)
(***************************************************************************)
TypeOK ==
    /\ up \in [Urls -> Ids \union {"down", "loading", "failed", "garbled"}]
    /\ trouble \in 0..MaxTrouble
    /\ cache \in [url : Urls, id : Ids] \union {Nothing}
    /\ lock \in Everyone \union {NoOne} /\ serving \in BOOLEAN
    /\ pc \in [Everyone -> {"idle", "resolve", "scan", "resolved", "invalidate", "serving", "dead"}]
    /\ kind \in [Everyone -> {"systemone", "config", "readyz"}]
    /\ next \in [Everyone -> 1..(Candidates + 1)]
    /\ found \in [Everyone -> [url : Urls, id : Ids] \union {Nothing}]
    /\ answer \in [Everyone -> Answers]
    /\ steady \in [Everyone -> SUBSET Urls]

(***************************************************************************)
(* "No engine is ready" is never the answer while an engine was ready all  *)
(* along and was not itself too slow for a probe of this very search:      *)
(* neither the other candidates, slow or not, nor who else searches, waits *)
(* for the lock, finds or forgets can hide it (server.py:182-217).         *)
(***************************************************************************)
RefusalIsHonest ==
    \A t \in Threads : answer[t] = "searching" => steady[t] = {}

(***************************************************************************)
(* Once an engine stays ready requests are answered by it again, without a *)
(* restart of the playground (server.py:163-167).  Alone it is too much:   *)
(* when an address comes back as another engine the cached id              *)
(* (server.py:203) survives, and every request names a model that is not   *)
(* there.                                                                  *)
(***************************************************************************)
FoundAgain ==
    \A t \in Threads :
        <>[](\E u \in Urls : Ready(u)) =>
            []<>(kind[t] = "systemone" /\ answer[t] = "ok")

(***************************************************************************)
(* So it is when an address keeps its engine, a load that was started ends *)
(* well and answers come in time from some moment on (MaxTrouble): a       *)
(* thread's late failure, a slow probe, another's search and engines that  *)
(* come and go cannot make the playground lose the one that stays.         *)
(***************************************************************************)
FoundAgainAsItself ==
    [](\A u \in Urls : up[u] \in {"down", "loading", IdOf[u]}) => FoundAgain
=============================================================================
