------------------------------- MODULE Weights ------------------------------
(***************************************************************************)
(* How the weights get to a machine: decis/paths.py (resolve,              *)
(* checkpoint_root, fetch_checkpoint), decis/hub.py (cached, choose,       *)
(* download) and `decis download` of decis/cli.py, beside the load of a    *)
(* server that asks the same questions.                                    *)
(*                                                                         *)
(* A checkpoint is a set of files that arrive one by one, in any order.  A *)
(* step looks at the disk, or lets one file land on it.  A download and a  *)
(* load take turns.  Explicit --model-path directories and missing client  *)
(* packages are left out.                                                  *)
(***************************************************************************)
EXTENDS Naturals, Sequences, FiniteSets

CONSTANTS
    Fetched,     \* the checkpoint and the bases it adapts, in the order they are fetched
    Shards,      \* for each of them, the files its index names ({}: no index)
    Networks,    \* which hubs can be reached, and what each of them holds
    MaxTrouble,  \* bound: interruptions, failures and unanswered probes
    None

Specs == {Fetched[i] : i \in DOMAIN Fetched}
Hubs == {"huggingface", "modelscope"}
Procs == {"download", "serve"}

ASSUME WeightsAssumption ==
    /\ Fetched \in Seq(Specs) /\ Fetched # <<>> /\ None \notin Hubs
    /\ DOMAIN Shards = Specs /\ MaxTrouble \in Nat
    /\ Networks \subseteq [reach : SUBSET Hubs, holds : [Hubs -> SUBSET Specs]]
    /\ \A s \in Specs : {"marker", "index", "weights"} \cap Shards[s] = {}

Files(s) == {"marker"} \union
            (IF Shards[s] = {} THEN {"weights"} ELSE {"index"} \union Shards[s])

VARIABLES
    hub,        \* DECIS_HUB
    modelDir,   \* is DECIS_MODEL_DIR (or --dest) set?
    network,    \* the one this machine is in
    dir,        \* the files under <model dir>/<name>/
    cache,      \* the files in each client's cache
    procs,      \* `decis download` and the load of `decis serve`
    trouble

vars == <<hub, modelDir, network, dir, cache, procs, trouble>>
settings == <<hub, modelDir, network>>

Idle(result) == [pc |-> "idle", todo |-> <<>>, from |-> None, result |-> result]

Init ==
    /\ hub \in Hubs \union {"auto"} /\ modelDir \in BOOLEAN /\ network \in Networks
    /\ dir = [s \in Specs |-> {}] /\ cache = [h \in Hubs |-> [s \in Specs |-> {}]]
    /\ procs = [p \in Procs |-> Idle("none")]
    /\ trouble = 0

-----------------------------------------------------------------------------
(***************************************************************************)
(* checkpoint_root: the marker is there, and what the index names.         *)
(***************************************************************************)
Usable(s, files) == "marker" \in files /\ ("index" \in files => Shards[s] \subseteq files)

Resolved(s) == modelDir /\ Usable(s, dir[s])

\* The caches that are asked, the one that can serve the pinned commit first.
CachedIn(s) == {h \in Hubs : (hub = h \/ hub = "auto") /\ Usable(s, cache[h][s])}
FirstCached(s) == IF "huggingface" \in CachedIn(s) THEN "huggingface" ELSE "modelscope"

\* survey_hub: what a hub says about a repository.
Says(h, s) ==
    IF h \notin network.reach THEN "silent"
    ELSE IF s \in network.holds[h] THEN "listed" ELSE "missing"

\* What is heard of it: a 429 or a 5xx says nothing about the repository, and a
\* timeout or a body that is no listing counts as silence.
Heard(h, s) == {Says(h, s)} \union (IF h \in network.reach THEN {"refused", "silent"} ELSE {})

\* Mistake: a source that does not answer is replaced even if it was named.
MutChoosable(answers, here, mirror) ==
    IF ~answers THEN {"modelscope"}
    ELSE IF hub # "auto" THEN {hub}
    ELSE IF mirror = "listed" /\ here \in {"missing", "silent"} THEN {"modelscope"}
    ELSE IF here = "listed" /\ mirror = "listed" THEN Hubs
    ELSE {"huggingface"}

\* choose: a named source is taken.  The mirror is for a Hugging Face that does
\* not answer, cannot be used or lacks the repository; when both have it either
\* may be the faster one.
Choosable(answers, here, mirror) ==
    IF hub # "auto" THEN {hub}
    ELSE IF ~answers THEN {"modelscope"}
    ELSE IF mirror = "listed" /\ here \in {"missing", "silent"} THEN {"modelscope"}
    ELSE IF here = "listed" /\ mirror = "listed" THEN Hubs
    ELSE {"huggingface"}

Serves(h, s) == Says(h, s) = "listed"

-----------------------------------------------------------------------------
Spec1(p) == Head(procs[p].todo)

\* Only `download` writes to the model directory; a load fetches to a cache.
IntoDir(p) == p = "download" /\ modelDir
Target(p) == IF IntoDir(p) THEN dir[Spec1(p)] ELSE cache[procs[p].from][Spec1(p)]

GoesTo(p, pc, from) == procs' = [procs EXCEPT ![p].pc = pc, ![p].from = from]
Exits(p, result) == procs' = [procs EXCEPT ![p] = Idle(result)]

\* This checkpoint is there: on to the next base, or done.
Done(p) ==
    IF Len(procs[p].todo) = 1 THEN Exits(p, "ok")
    ELSE procs' = [procs EXCEPT ![p].pc = "resolve", ![p].from = None,
                                ![p].todo = Tail(procs[p].todo)]

Trouble == trouble < MaxTrouble /\ trouble' = trouble + 1

Writes(p, files) ==
    IF IntoDir(p) THEN dir' = [dir EXCEPT ![Spec1(p)] = files] /\ cache' = cache
    ELSE cache' = [cache EXCEPT ![procs[p].from][Spec1(p)] = files] /\ dir' = dir

Begin(p) ==
    /\ \A q \in Procs : procs[q].pc = "idle"
    /\ procs' = [procs EXCEPT ![p] = [pc |-> "resolve", todo |-> Fetched, from |-> None,
                                      result |-> "none"]]
    /\ UNCHANGED <<settings, dir, cache, trouble>>

\* Mistake: a directory that holds half a checkpoint is in the way.
MutResolve(p) ==
    /\ procs[p].pc = "resolve"
    /\ IF Resolved(Spec1(p)) THEN Done(p)
       ELSE IF IntoDir(p) /\ dir[Spec1(p)] # {} THEN Exits(p, "failed")
       ELSE IF CachedIn(Spec1(p)) = {} THEN GoesTo(p, "choose", None)
       ELSE IF IntoDir(p) THEN GoesTo(p, "copy", FirstCached(Spec1(p)))
       ELSE Done(p)
    /\ UNCHANGED <<settings, dir, cache, trouble>>

\* A local directory, then the caches, before any hub is asked.
Resolve(p) ==
    /\ procs[p].pc = "resolve"
    /\ IF Resolved(Spec1(p)) THEN Done(p)
       ELSE IF CachedIn(Spec1(p)) = {} THEN GoesTo(p, "choose", None)
       ELSE IF IntoDir(p) THEN GoesTo(p, "copy", FirstCached(Spec1(p)))
       ELSE Done(p)
    /\ UNCHANGED <<settings, dir, cache, trouble>>

\* _lay_out_from_cache: the copy is whole, or has failed after some files.  A
\* checkpoint is then fetched from where `choose` says, a base from where the
\* cached copy came from.
Copy(p) ==
    /\ procs[p].pc = "copy"
    /\ \E part \in SUBSET cache[procs[p].from][Spec1(p)] :
          LET whole == part = cache[procs[p].from][Spec1(p)]
              now == dir[Spec1(p)] \union part
          IN  /\ dir' = [dir EXCEPT ![Spec1(p)] = now]
              /\ IF whole THEN trouble' = trouble ELSE Trouble
              /\ IF whole /\ Usable(Spec1(p), now) THEN Done(p)
                 ELSE IF Spec1(p) = Head(Fetched) THEN GoesTo(p, "choose", None)
                 ELSE GoesTo(p, "transfer", procs[p].from)
    /\ UNCHANGED <<settings, cache>>

\* Three bounded requests: the probe of Hugging Face, and both listings.
Choose(p) ==
    /\ procs[p].pc = "choose"
    /\ \E answers \in {"huggingface" \in network.reach, FALSE},
          here \in Heard("huggingface", Spec1(p)), mirror \in Heard("modelscope", Spec1(p)) :
          /\ \/ /\ answers = ("huggingface" \in network.reach)
                /\ here = Says("huggingface", Spec1(p)) /\ mirror = Says("modelscope", Spec1(p))
                /\ trouble' = trouble
             \/ hub = "auto" /\ Trouble
          /\ \E h \in Choosable(answers, here, mirror) : GoesTo(p, "transfer", h)
    /\ UNCHANGED <<settings, dir, cache>>

\* The client lands a file that is not there yet.
Land(p) ==
    /\ procs[p].pc = "transfer" /\ Serves(procs[p].from, Spec1(p))
    /\ \E f \in Files(Spec1(p)) \ Target(p) : Writes(p, Target(p) \union {f})
    /\ UNCHANGED <<settings, procs, trouble>>

\* The client returns: with every file or, offline, with what there is.
Return(p) ==
    /\ procs[p].pc = "transfer" /\ Serves(procs[p].from, Spec1(p))
    /\ IF Files(Spec1(p)) \subseteq Target(p) THEN trouble' = trouble ELSE Trouble
    /\ GoesTo(p, "check", procs[p].from)
    /\ UNCHANGED <<settings, dir, cache>>

\* The client raises: the hub does not serve this, or the transfer broke.
Raise(p) ==
    /\ procs[p].pc = "transfer"
    /\ IF Serves(procs[p].from, Spec1(p)) THEN Trouble ELSE trouble' = trouble
    /\ Exits(p, "failed")
    /\ UNCHANGED <<settings, dir, cache>>

\* Mistake: a client that returned is believed.
MutCheck(p) ==
    /\ procs[p].pc = "check"
    /\ Done(p)
    /\ UNCHANGED <<settings, dir, cache, trouble>>

\* "The download finished" and "the loader will find it" are different claims.
Check(p) ==
    /\ procs[p].pc = "check"
    /\ IF Usable(Spec1(p), Target(p)) THEN Done(p) ELSE Exits(p, "failed")
    /\ UNCHANGED <<settings, dir, cache, trouble>>

\* Ctrl-C, or a crash of the machine.
Interrupt(p) ==
    /\ procs[p].pc # "idle" /\ Trouble
    /\ Exits(p, "failed")
    /\ UNCHANGED <<settings, dir, cache>>

Work(p) ==
    Resolve(p) \/ Copy(p) \/ Choose(p) \/ Land(p) \/ Return(p) \/ Raise(p) \/ Check(p)

Next == \E p \in Procs : Begin(p) \/ Work(p) \/ Interrupt(p)

Spec == Init /\ [][Next]_vars

(***************************************************************************)
(* Every client call ends, and the user gets round to repeating a download *)
(* that failed, whatever servers were started in the meantime.             *)
(***************************************************************************)
FairSpec ==
    /\ Spec
    /\ \A p \in Procs : WF_vars(Work(p))
    /\ SF_vars(procs["download"].result # "ok" /\ Begin("download"))

-----------------------------------------------------------------------------
(***************************************************************************)
(* The state is well typed: work is under way on a checkpoint that is left *)
(* to do, and no file is on disk that its repository does not hold.        *)
(***************************************************************************)
TypeOK ==
    /\ hub \in Hubs \union {"auto"} /\ modelDir \in BOOLEAN /\ network \in Networks
    /\ \A s \in Specs : /\ dir[s] \subseteq Files(s)
                        /\ \A h \in Hubs : cache[h][s] \subseteq Files(s)
    /\ \A p \in Procs :
          /\ procs[p].pc \in {"idle", "resolve", "copy", "choose", "transfer", "check"}
          /\ procs[p].from \in Hubs \union {None}
          /\ procs[p].pc \in {"copy", "transfer", "check"} => procs[p].from \in Hubs
          /\ (procs[p].pc = "idle") = (procs[p].todo = <<>>)
          /\ procs[p].result \in {"none", "ok", "failed"}
    /\ trouble \in 0..MaxTrouble

(***************************************************************************)
(* "This cannot fetch somewhere the server will not later look"            *)
(* (cli.py:510-511): once a download has reported success, a server with   *)
(* the same settings finds the checkpoint and every base where it looks.   *)
(***************************************************************************)
DownloadedIsFound ==
    procs["download"].result = "ok" =>
        \A s \in Specs : IF modelDir THEN Resolved(s) ELSE CachedIn(s) # {}

(***************************************************************************)
(* "An operator who named a source gets that source": whatever fails, is   *)
(* interrupted and repeated, nothing is fetched from the other hub         *)
(* (hub.py:492-494), nor read from its cache.                              *)
(***************************************************************************)
NamedHubOnly ==
    hub # "auto" =>
        /\ \A p \in Procs : procs[p].from \in {hub, None}
        /\ \A h \in Hubs \ {hub} : \A s \in Specs : cache[h][s] = {}

(***************************************************************************)
(* A download that is repeated until it succeeds does succeed, whatever    *)
(* the interrupted ones left behind and whichever hub was asked first, if  *)
(* every repository can be had from a hub that the settings allow          *)
(* (docs/configuration.md:89-92, cli.py:600-657, hub.py:564-583).          *)
(***************************************************************************)
RetryConverges ==
    (\A s \in Specs : \E h \in Hubs : (hub = h \/ hub = "auto") /\ Serves(h, s))
        ~> procs["download"].result = "ok"

(***************************************************************************)
(* "A candidate only counts if it is a complete checkpoint [...] so a      *)
(* download you interrupted half way falls through"                        *)
(* (docs/configuration.md:89-92).                                          *)
(***************************************************************************)
InterruptedIsAbsent ==
    \A s \in Specs :
        Resolved(s) /\ (\A p \in Procs : procs[p].pc = "idle") => dir[s] = Files(s)
=============================================================================
