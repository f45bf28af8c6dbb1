---------------------------- MODULE WeightsProofs ----------------------------
(***************************************************************************)
(* What Weights promises for any list of checkpoints, any shards and any   *)
(* networks, with any number of interruptions: a named hub is the only one *)
(* used, and what a download calls done is found.                          *)
(***************************************************************************)
EXTENDS Weights, TLAPS

Pcs == {"idle", "resolve", "copy", "choose", "transfer", "check"}

\* Where the files go, and what a command is at.
Disk == [Specs -> SUBSET UNION {Files(s) : s \in Specs}]
Proc == [pc : Pcs, todo : Seq(Specs), from : Hubs \union {None},
         result : {"none", "ok", "failed"}]

ShapeInv ==
    /\ hub \in Hubs \union {"auto"} /\ modelDir \in BOOLEAN
    /\ dir \in Disk /\ cache \in [Hubs -> Disk]
    /\ procs \in [Procs -> Proc]
    /\ \A p \in Procs :
          /\ (procs[p].pc = "idle") = (procs[p].todo = <<>>)
          /\ procs[p].pc \in {"copy", "transfer", "check"} => procs[p].from \in Hubs
          /\ procs[p].pc = "copy" => IntoDir(p)

\* Downloads and loads take turns.
TurnInv == \A p, q \in Procs : p = q \/ procs[p].pc = "idle" \/ procs[q].pc = "idle"

HubInv ==
    hub # "auto" =>
        /\ \A p \in Procs : procs[p].from \in {hub, None}
        /\ \A h \in Hubs \ {hub} : \A s \in Specs : cache[h][s] = {}

\* A server with the same settings finds this checkpoint where it looks.
Found(s) == IF modelDir THEN Resolved(s) ELSE CachedIn(s) # {}

Pending(p) == {procs[p].todo[i] : i \in 1..Len(procs[p].todo)}

\* What a download has left behind it is there, and stays there: afterwards a load
\* has nothing to fetch where a download without a directory put it.
FoundInv ==
    /\ procs["download"].pc # "idle" =>
          \A s \in Specs : Found(s) \/ s \in Pending("download")
    /\ procs["download"].result = "ok" =>
          /\ \A s \in Specs : Found(s)
          /\ procs["download"].pc = "idle"
          /\ ~modelDir => procs["serve"].pc \in {"idle", "resolve"}

IInv == ShapeInv /\ TurnInv /\ HubInv /\ FoundInv

-----------------------------------------------------------------------------

LEMMA InitHolds == Init => IInv
<1> SUFFICES ASSUME Init PROVE IInv
  OBVIOUS
<1>1. ShapeInv
  <2>1. dir \in Disk /\ cache \in [Hubs -> Disk]
    BY DEF Init, Disk
  <2>2. procs \in [Procs -> Proc] /\ \A p \in Procs : procs[p] = Idle("none")
    BY DEF Init, Idle, Proc, Pcs
  <2> QED BY <2>1, <2>2 DEF Init, ShapeInv, Idle
<1>2. \A p \in Procs : procs[p] = [pc |-> "idle", todo |-> <<>>, from |-> None, result |-> "none"]
  BY DEF Init, Idle
<1>3. TurnInv
  BY <1>2 DEF TurnInv
<1>4. HubInv
  BY <1>2 DEF Init, HubInv
<1>5. FoundInv
  BY <1>2 DEF FoundInv, Procs
<1> QED BY <1>1, <1>3, <1>4, <1>5 DEF IInv

\* A command at work has something left to do.
LEMMA AtWork ==
    ASSUME ShapeInv, NEW p \in Procs, procs[p].pc # "idle"
    PROVE  /\ Spec1(p) \in Specs /\ Tail(procs[p].todo) \in Seq(Specs)
           /\ Len(procs[p].todo) \in Nat \ {0}
           /\ Pending(p) = {Spec1(p)} \union
                  {Tail(procs[p].todo)[i] : i \in 1..Len(Tail(procs[p].todo))}
           /\ Len(procs[p].todo) # 1 => Tail(procs[p].todo) # <<>>
           /\ Len(procs[p].todo) = 1 => Pending(p) = {Spec1(p)}
<1> DEFINE t == procs[p].todo
<1>1. t \in Seq(Specs) /\ t # <<>>
  BY DEF ShapeInv, Proc
<1>2. Head(t) \in Specs /\ Tail(t) \in Seq(Specs) /\ Len(t) \in Nat \ {0} /\ Head(t) = t[1]
      /\ Len(Tail(t)) = Len(t) - 1 /\ \A i \in 1..(Len(t) - 1) : Tail(t)[i] = t[i + 1]
  BY <1>1
<1>3. Pending(p) = {t[i] : i \in 1..Len(t)}
  BY DEF Pending
<1>4. {t[i] : i \in 1..Len(t)} = {t[1]} \union {t[i + 1] : i \in 1..(Len(t) - 1)}
  <2> HIDE DEF t
  <2>1. ASSUME NEW i \in 1..Len(t), i # 1 PROVE t[i] \in {t[j + 1] : j \in 1..(Len(t) - 1)}
    <3>1. i - 1 \in 1..(Len(t) - 1) /\ t[i] = t[(i - 1) + 1]
      BY <1>2, <2>1
    <3> QED BY <3>1
  <2>2. ASSUME NEW j \in 1..(Len(t) - 1) PROVE j + 1 \in 1..Len(t)
    BY <1>2
  <2>3. 1 \in 1..Len(t)
    BY <1>2
  <2> QED BY <2>1, <2>2, <2>3
<1>5. {t[i + 1] : i \in 1..(Len(t) - 1)} = {Tail(t)[i] : i \in 1..Len(Tail(t))}
  <2> HIDE DEF t
  <2> QED BY <1>2
<1>6. Len(t) # 1 => Tail(t) # <<>>
  <2>1. Len(<<>>) = 0
    OBVIOUS
  <2> HIDE DEF t
  <2>2. Tail(t) = <<>> => Len(t) - 1 = 0
    BY <1>2, <2>1, Zenon
  <2>3. Len(t) # 1 => Len(t) - 1 # 0
    BY <1>2
  <2> QED BY <2>2, <2>3, Zenon
<1>7. Len(t) = 1 => {Tail(t)[i] : i \in 1..Len(Tail(t))} = {}
  <2> HIDE DEF t
  <2> SUFFICES ASSUME Len(t) = 1 PROVE {Tail(t)[i] : i \in 1..Len(Tail(t))} = {}
    OBVIOUS
  <2>1. Len(Tail(t)) = 0
    BY <1>2
  <2>2. 1..0 = {}
    OBVIOUS
  <2> QED BY <2>1, <2>2
<1> HIDE DEF t
<1>8. Pending(p) = {Head(t)} \union {Tail(t)[i] : i \in 1..Len(Tail(t))}
  BY <1>2, <1>3, <1>4, <1>5
<1> QED BY <1>2, <1>6, <1>7, <1>8 DEF t, Spec1

-----------------------------------------------------------------------------
(* A step that changes no file: only what one command is at.                *)

\* What CachedIn returns is allowed by the settings.
LEMMA CachedIsAllowed ==
    ASSUME NEW s \in Specs, CachedIn(s) # {}
    PROVE  FirstCached(s) \in Hubs /\ (hub = "auto" \/ FirstCached(s) = hub)
BY DEF CachedIn, FirstCached, Hubs

LEMMA ProcAt ==
    ASSUME NEW r \in Proc, NEW step, NEW h
    PROVE  [r EXCEPT !.pc = step, !.from = h] =
               [pc |-> step, todo |-> r.todo, from |-> h, result |-> r.result]
<1> DEFINE x == [r EXCEPT !.pc = step, !.from = h]
<1>1. x \in [pc : {step}, todo : {r.todo}, from : {h}, result : {r.result}]
  BY DEF Proc
<1> HIDE DEF x
<1>2. x = [pc |-> x.pc, todo |-> x.todo, from |-> x.from, result |-> x.result]
  BY <1>1
<1>3. x.pc = step /\ x.todo = r.todo /\ x.from = h /\ x.result = r.result
  BY <1>1
<1> QED BY <1>2, <1>3 DEF x

\* `p` goes on to another step of the same checkpoint.
LEMMA GoesToPreserves ==
    ASSUME IInv, NEW p \in Procs, procs[p].pc # "idle",
           NEW step \in {"choose", "copy", "transfer", "check"}, NEW h \in Hubs \union {None},
           step # "choose" => h \in Hubs, step = "copy" => IntoDir(p),
           hub # "auto" => h \in {hub, None},
           p = "serve" /\ ~modelDir => procs["download"].result # "ok",
           GoesTo(p, step, h), UNCHANGED <<settings, cache>>, dir' \in Disk,
           p = "serve" => UNCHANGED dir,
           \A s \in Specs \ {Spec1(p)} : Found(s)' = Found(s)
    PROVE  IInv'
<1> DEFINE now == [pc |-> step, todo |-> procs[p].todo, from |-> h,
                   result |-> procs[p].result]
<1>1. procs' = [procs EXCEPT ![p] = now] /\ now \in Proc
  <2>1. procs[p] \in Proc
    BY DEF IInv, ShapeInv
  <2>2. procs' = [procs EXCEPT ![p] = now]
    <3>1. [procs[p] EXCEPT !.pc = step, !.from = h] = now
      BY <2>1, ProcAt
    <3>2. procs' = [procs EXCEPT ![p] = [procs[p] EXCEPT !.pc = step, !.from = h]]
      BY DEF GoesTo, IInv, ShapeInv
    <3> HIDE DEF now
    <3> QED BY <3>1, <3>2
  <2>3. now \in Proc
    BY <2>1 DEF Proc, Pcs
  <2> QED BY <2>2, <2>3
<1>2. /\ procs' \in [Procs -> Proc] /\ procs'[p] = now
      /\ \A q \in Procs \ {p} : procs'[q] = procs[q]
  <2> HIDE DEF now
  <2> QED BY <1>1 DEF IInv, ShapeInv
<1>3. ShapeInv'
  BY <1>2 DEF IInv, ShapeInv, settings, IntoDir
<1>4. TurnInv'
  BY <1>2 DEF IInv, TurnInv
<1>5. HubInv'
  BY <1>2 DEF IInv, HubInv, settings
<1>6. FoundInv'
  <2>1. CASE p = "download"
    <3>1. procs'["download"].todo = procs["download"].todo
          /\ procs'["download"].result = procs["download"].result
      BY <1>2, <2>1
    <3>2. Pending("download")' = Pending("download")
      BY <3>1 DEF Pending
    <3>3. Spec1(p) \in Pending("download")
      BY <2>1, AtWork DEF IInv
    <3>4. \A s \in Specs : Found(s)' \/ s \in Pending("download")'
      BY <2>1, <3>2, <3>3 DEF IInv, FoundInv
    <3>5. procs'["download"].result # "ok"
      BY <2>1, <3>1 DEF IInv, FoundInv
    <3> QED BY <3>4, <3>5 DEF FoundInv
  <2>2. CASE p = "serve"
    <3>1. procs'["download"] = procs["download"] /\ procs'["serve"].pc = step
      BY <1>2, <2>2 DEF Procs
    <3>2. Pending("download")' = Pending("download")
      BY <3>1 DEF Pending
    <3>3. \A s \in Specs : Found(s)' = Found(s)
      BY <2>2 DEF Found, Resolved, CachedIn, settings
    <3> QED BY <2>2, <3>1, <3>2, <3>3 DEF IInv, FoundInv, settings
  <2> QED BY <2>1, <2>2 DEF Procs
<1> QED BY <1>3, <1>4, <1>5, <1>6 DEF IInv

\* `p` gives up.
LEMMA FailPreserves ==
    ASSUME IInv, NEW p \in Procs, procs[p].pc # "idle", Exits(p, "failed"),
           UNCHANGED <<settings, dir, cache>>
    PROVE  IInv'
<1>1. /\ procs' \in [Procs -> Proc]
      /\ procs'[p] = [pc |-> "idle", todo |-> <<>>, from |-> None, result |-> "failed"]
      /\ \A q \in Procs \ {p} : procs'[q] = procs[q]
  BY DEF IInv, ShapeInv, Exits, Idle, Proc, Pcs
<1>2. ShapeInv'
  BY <1>1 DEF IInv, ShapeInv, settings, IntoDir
<1>3. TurnInv'
  BY <1>1 DEF IInv, TurnInv
<1>4. HubInv'
  BY <1>1 DEF IInv, HubInv, settings
<1>5. FoundInv'
  <2>1. \A s \in Specs : Found(s)' = Found(s)
    BY DEF Found, Resolved, CachedIn, settings
  <2>2. CASE p = "download"
    BY <1>1, <2>2 DEF FoundInv, Procs
  <2>3. CASE p = "serve"
    <3>1. Pending("download")' = Pending("download")
      BY <1>1, <2>3 DEF Pending, Procs
    <3> QED BY <1>1, <2>1, <2>3, <3>1 DEF IInv, FoundInv, settings, Procs
  <2> QED BY <2>2, <2>3 DEF Procs
<1> QED BY <1>2, <1>3, <1>4, <1>5 DEF IInv

\* `p` has this checkpoint where it needs it, and a download where it is looked for;
\* what else is left, and what else was found, is as before.
LEMMA DonePreserves ==
    ASSUME IInv, NEW p \in Procs, procs[p].pc # "idle", Done(p),
           UNCHANGED <<hub, modelDir, network>>, dir' \in Disk, cache' \in [Hubs -> Disk],
           hub # "auto" => \A h \in Hubs \ {hub} : \A s \in Specs : cache'[h][s] = {},
           NEW spec \in Specs, spec = Spec1(p), p = "download" => Found(spec)',
           p = "serve" => UNCHANGED dir /\ UNCHANGED cache,
           \A s \in Specs \ {spec} : Found(s)' = Found(s)
    PROVE  IInv'
<1> DEFINE t == procs[p].todo
           last == Len(t) = 1
           now == IF last THEN [pc |-> "idle", todo |-> <<>>, from |-> None, result |-> "ok"]
                  ELSE [pc |-> "resolve", todo |-> Tail(t), from |-> None,
                        result |-> procs[p].result]
<1>1. /\ Tail(t) \in Seq(Specs)
      /\ Pending(p) = {spec} \union {Tail(t)[i] : i \in 1..Len(Tail(t))}
      /\ ~last => Tail(t) # <<>>
      /\ last => Pending(p) = {spec}
  BY AtWork DEF IInv
<1>2. procs' = [procs EXCEPT ![p] = now]
  <2>1. CASE last
    BY <2>1 DEF Done, Exits, Idle
  <2>2. CASE ~last
    BY <2>2 DEF Done, IInv, ShapeInv, Proc
  <2> QED BY <2>1, <2>2
<1>3. now \in Proc
  <2> HIDE DEF t
  <2> QED BY <1>1 DEF IInv, ShapeInv, Proc, Pcs
<1>4. procs' \in [Procs -> Proc] /\ procs'[p] = now /\ \A q \in Procs \ {p} : procs'[q] = procs[q]
  <2> HIDE DEF now
  <2> QED BY <1>2, <1>3 DEF IInv, ShapeInv
<1>5. ShapeInv'
  <2>1. (now.pc = "idle") = (now.todo = <<>>) /\ now.pc \in {"idle", "resolve"}
    <3> HIDE DEF t
    <3> QED BY <1>1
  <2> HIDE DEF now
  <2> QED BY <1>4, <2>1 DEF IInv, ShapeInv, IntoDir
<1>6. TurnInv'
  BY <1>4 DEF IInv, TurnInv
<1>7. HubInv'
  <2>1. now.from = None
    OBVIOUS
  <2> HIDE DEF now
  <2> QED BY <1>4, <2>1 DEF IInv, HubInv
<1>8. FoundInv'
  <2>1. CASE p = "download"
    <3>1. \A s \in Specs : s \in Pending(p) \/ Found(s)
      BY <2>1 DEF IInv, FoundInv
    <3>2. CASE last
      <4>1. \A s \in Specs : Found(s)'
        BY <1>1, <2>1, <3>1, <3>2
      <4>2. now.pc = "idle" /\ procs'["download"] = now /\ procs'["serve"] = procs["serve"]
        BY <1>4, <2>1, <3>2 DEF Procs
      <4>3. procs["serve"].pc = "idle"
        BY <2>1 DEF IInv, TurnInv, Procs
      <4> HIDE DEF now
      <4> QED BY <4>1, <4>2, <4>3 DEF FoundInv
    <3>3. CASE ~last
      <4>1. Pending("download")' = {Tail(t)[i] : i \in 1..Len(Tail(t))}
        <5>1. now.todo = Tail(t)
          BY <3>3
        <5>2. procs'["download"].todo = Tail(t)
          <6> HIDE DEF now, t
          <6> QED BY <1>4, <2>1, <5>1
        <5> QED BY <5>2 DEF Pending
      <4>2. \A s \in Specs : Found(s)' \/ s \in Pending("download")'
        <5> HIDE DEF t
        <5> QED BY <1>1, <2>1, <3>1, <4>1
      <4>3. procs'["download"].result # "ok"
        BY <1>4, <2>1, <3>3 DEF IInv, FoundInv
      <4> QED BY <4>2, <4>3 DEF FoundInv
    <3> QED BY <3>2, <3>3
  <2>2. CASE p = "serve"
    <3>1. \A s \in Specs : Found(s)' = Found(s)
      BY <2>2 DEF Found, Resolved, CachedIn
    <3>2. Pending("download")' = Pending("download") /\ procs'["download"] = procs["download"]
      BY <1>4, <2>2 DEF Pending, Procs
    <3>3. procs'["serve"].pc \in {"idle", "resolve"}
      BY <1>4, <2>2
    <3> QED BY <3>1, <3>2, <3>3 DEF IInv, FoundInv
  <2> QED BY <2>1, <2>2 DEF Procs
<1> QED BY <1>5, <1>6, <1>7, <1>8 DEF IInv

-----------------------------------------------------------------------------
(* The actions.                                                             *)

\* Files of one checkpoint land, in the directory or in one cache.
LEMMA WritesTypes ==
    ASSUME ShapeInv, NEW p \in Procs, procs[p].pc # "idle", procs[p].from \in Hubs,
           NEW spec \in Specs, spec = Spec1(p), NEW files \in SUBSET Files(spec),
           Writes(p, Target(p) \union files)
    PROVE  /\ dir' \in Disk /\ cache' \in [Hubs -> Disk]
           /\ \A s \in Specs \ {spec} :
                 dir'[s] = dir[s] /\ \A h \in Hubs : cache'[h][s] = cache[h][s]
           /\ \A h \in Hubs \ {procs[p].from} : cache'[h] = cache[h]
           /\ IntoDir(p) => cache' = cache
           /\ ~IntoDir(p) => dir' = dir
<1> DEFINE all == UNION {Files(s) : s \in Specs}
           more == Target(p) \union files
<1>1. dir \in [Specs -> SUBSET all] /\ cache \in [Hubs -> [Specs -> SUBSET all]]
  BY DEF ShapeInv, Disk
<1>2. files \in SUBSET all
  OBVIOUS
<1>3. more \in SUBSET all
  <2> HIDE DEF all
  <2> QED BY <1>1, <1>2 DEF Target
<1> HIDE DEF all
<1>4. CASE IntoDir(p)
  <2>1. dir' = [dir EXCEPT ![spec] = more] /\ cache' = cache
    BY <1>4 DEF Writes
  <2> HIDE DEF more
  <2> QED BY <1>1, <1>3, <1>4, <2>1 DEF Disk, all
<1>5. CASE ~IntoDir(p)
  <2> DEFINE h == procs[p].from
  <2>1. cache' = [cache EXCEPT ![h][spec] = more] /\ dir' = dir
    BY <1>5 DEF Writes
  <2> HIDE DEF more, h
  <2>2. h \in Hubs
    BY DEF h
  <2>3. cache' \in [Hubs -> [Specs -> SUBSET all]]
    BY <1>1, <1>3, <2>1, <2>2
  <2>4. \A s \in Specs \ {spec} : \A g \in Hubs : cache'[g][s] = cache[g][s]
    BY <1>1, <2>1, <2>2
  <2>5. \A g \in Hubs \ {h} : cache'[g] = cache[g]
    BY <1>1, <2>1, <2>2
  <2> QED BY <1>1, <1>5, <2>1, <2>3, <2>4, <2>5 DEF Disk, all, h
<1> QED BY <1>4, <1>5

\* Other checkpoints are found as before.
LEMMA FoundElsewhere ==
    ASSUME UNCHANGED <<hub, modelDir>>, NEW spec \in Specs,
           \A s \in Specs \ {spec} :
               dir'[s] = dir[s] /\ \A h \in Hubs : cache'[h][s] = cache[h][s]
    PROVE  \A s \in Specs \ {spec} : Found(s)' = Found(s)
<1> SUFFICES ASSUME NEW s \in Specs \ {spec} PROVE Found(s)' = Found(s)
  OBVIOUS
<1>1. Resolved(s)' = Resolved(s)
  BY DEF Resolved, Usable
<1>2. CachedIn(s)' = CachedIn(s)
  BY DEF CachedIn, Usable
<1> QED BY <1>1, <1>2 DEF Found

LEMMA BeginPreserves == ASSUME IInv, NEW p \in Procs, Begin(p) PROVE IInv'
<1> DEFINE now == [pc |-> "resolve", todo |-> Fetched, from |-> None, result |-> "none"]
<1>1. now \in Proc /\ now.todo # <<>>
  BY WeightsAssumption DEF Proc, Pcs
<1>2. /\ procs' \in [Procs -> Proc] /\ procs'[p] = now
      /\ \A q \in Procs \ {p} : procs'[q] = procs[q]
      /\ \A q \in Procs : procs[q].pc = "idle"
      /\ UNCHANGED <<settings, dir, cache>>
  <2> HIDE DEF now
  <2>1. procs' = [procs EXCEPT ![p] = now]
    BY DEF Begin, now
  <2> QED BY <1>1, <2>1 DEF IInv, ShapeInv, Begin
<1>3. ShapeInv'
  <2>1. now.pc = "resolve"
    OBVIOUS
  <2> HIDE DEF now
  <2> QED BY <1>1, <1>2, <2>1 DEF IInv, ShapeInv, settings, IntoDir
<1>4. TurnInv' /\ HubInv'
  <2>1. now.from = None
    OBVIOUS
  <2> HIDE DEF now
  <2> QED BY <1>2, <2>1 DEF IInv, TurnInv, HubInv, settings
<1>5. FoundInv'
  <2>1. \A s \in Specs : Found(s)' = Found(s)
    BY <1>2 DEF Found, Resolved, CachedIn, settings
  <2>2. CASE p = "download"
    <3>1. procs'["download"].todo = Fetched /\ procs'["download"].result = "none"
      BY <1>2, <2>2
    <3>2. Specs = Pending("download")'
      BY <3>1, WeightsAssumption DEF Specs, Pending
    <3> QED BY <3>1, <3>2 DEF FoundInv
  <2>3. CASE p = "serve"
    <3>1. procs'["download"] = procs["download"] /\ procs'["serve"].pc = "resolve"
      BY <1>2, <2>3 DEF Procs
    <3>2. procs["download"].pc = "idle"
      BY <1>2 DEF Procs
    <3> QED BY <1>2, <2>1, <3>1, <3>2 DEF IInv, FoundInv, settings
  <2> QED BY <2>2, <2>3 DEF Procs
<1> QED BY <1>3, <1>4, <1>5 DEF IInv

LEMMA ResolvePreserves == ASSUME IInv, NEW p \in Procs, Resolve(p) PROVE IInv'
<1>1. procs[p].pc # "idle" /\ UNCHANGED <<settings, dir, cache>>
  BY DEF Resolve
<1>2. PICK spec \in Specs : spec = Spec1(p)
  BY <1>1, AtWork DEF IInv
<1>3. \A s \in Specs : Found(s)' = Found(s)
  BY <1>1 DEF Found, Resolved, CachedIn, settings
<1>4. dir' \in Disk /\ cache' \in [Hubs -> Disk]
      /\ (hub # "auto" => \A h \in Hubs \ {hub} : \A s \in Specs : cache'[h][s] = {})
  BY <1>1 DEF IInv, ShapeInv, HubInv
<1>5. IntoDir(p) <=> p = "download" /\ modelDir
  BY DEF IntoDir
<1>6. CASE Done(p) /\ (Resolved(spec) \/ (CachedIn(spec) # {} /\ ~IntoDir(p)))
  <2>1. p = "download" => Found(spec)'
    <3>1. p = "download" => Found(spec)
      BY <1>5, <1>6 DEF Found, Resolved
    <3> QED BY <1>3, <3>1
  <2> QED BY <1>1, <1>2, <1>3, <1>4, <1>6, <2>1, DonePreserves DEF settings
<1>7. CASE GoesTo(p, "choose", None) /\ ~Resolved(spec) /\ CachedIn(spec) = {}
  <2>1. p = "serve" /\ ~modelDir => procs["download"].result # "ok"
    BY <1>2, <1>7 DEF IInv, FoundInv, Found
  <2> QED BY <1>1, <1>2, <1>3, <1>4, <1>7, <2>1, GoesToPreserves
<1>8. CASE GoesTo(p, "copy", FirstCached(spec)) /\ CachedIn(spec) # {} /\ IntoDir(p)
  <2>1. p # "serve"
    BY <1>5, <1>8
  <2>2. FirstCached(spec) \in Hubs /\ (hub = "auto" \/ FirstCached(spec) = hub)
    BY <1>8, CachedIsAllowed
  <2> QED BY <1>1, <1>2, <1>3, <1>4, <1>8, <2>1, <2>2, GoesToPreserves
<1> QED BY <1>2, <1>6, <1>7, <1>8 DEF Resolve

LEMMA ChoosePreserves == ASSUME IInv, NEW p \in Procs, Choose(p) PROVE IInv'
<1>1. procs[p].pc = "choose" /\ UNCHANGED <<settings, dir, cache>>
  BY DEF Choose
<1>2. PICK answers, here, mirror, h :
          h \in Choosable(answers, here, mirror) /\ GoesTo(p, "transfer", h)
  BY DEF Choose
<1>3. h \in Hubs /\ (hub # "auto" => h = hub)
  BY <1>2 DEF Choosable, Hubs, IInv, ShapeInv
<1>4. \A s \in Specs : Found(s)' = Found(s)
  BY <1>1 DEF Found, Resolved, CachedIn, settings
<1>5. p = "serve" /\ ~modelDir => procs["download"].result # "ok"
  BY <1>1 DEF IInv, FoundInv
<1> QED BY <1>1, <1>2, <1>3, <1>4, <1>5, GoesToPreserves DEF IInv, ShapeInv

LEMMA ReturnPreserves == ASSUME IInv, NEW p \in Procs, Return(p) PROVE IInv'
<1> DEFINE h == procs[p].from
<1>1. procs[p].pc = "transfer" /\ UNCHANGED <<settings, dir, cache>> /\ GoesTo(p, "check", h)
  BY DEF Return
<1>2. h \in Hubs /\ (hub # "auto" => h \in {hub, None})
  BY <1>1 DEF IInv, ShapeInv, HubInv
<1>3. \A s \in Specs : Found(s)' = Found(s)
  BY <1>1 DEF Found, Resolved, CachedIn, settings
<1>4. p = "serve" /\ ~modelDir => procs["download"].result # "ok"
  BY <1>1 DEF IInv, FoundInv
<1> HIDE DEF h
<1> QED BY <1>1, <1>2, <1>3, <1>4, GoesToPreserves DEF IInv, ShapeInv

LEMMA CopyPreserves == ASSUME IInv, NEW p \in Procs, Copy(p) PROVE IInv'
<1> DEFINE h == procs[p].from
<1>1. procs[p].pc = "copy" /\ UNCHANGED <<settings, cache>>
  BY DEF Copy
<1>2. p = "download" /\ modelDir /\ h \in Hubs /\ (hub # "auto" => h \in {hub, None})
  BY <1>1 DEF IInv, ShapeInv, HubInv, IntoDir
<1>3. PICK spec \in Specs : spec = Spec1(p)
  BY <1>1, AtWork DEF IInv
<1>4. PICK part \in SUBSET cache[h][spec] :
          /\ dir' = [dir EXCEPT ![spec] = dir[spec] \union part]
          /\ \/ Usable(spec, dir[spec] \union part) /\ Done(p)
             \/ GoesTo(p, "choose", None) \/ GoesTo(p, "transfer", h)
  BY <1>3 DEF Copy
<1>5. dir' \in Disk /\ dir'[spec] = dir[spec] \union part
      /\ \A s \in Specs \ {spec} : dir'[s] = dir[s]
  <2> DEFINE all == UNION {Files(s) : s \in Specs}
  <2>1. dir \in [Specs -> SUBSET all] /\ cache[h][spec] \in SUBSET all
    BY <1>2, <1>3 DEF IInv, ShapeInv, Disk
  <2> HIDE DEF all, h
  <2>2. dir[spec] \union part \in SUBSET all
    BY <1>3, <2>1
  <2> QED BY <1>3, <1>4, <2>1, <2>2 DEF Disk, all
<1>6. cache' \in [Hubs -> Disk]
      /\ (hub # "auto" => \A g \in Hubs \ {hub} : \A s \in Specs : cache'[g][s] = {})
  BY <1>1 DEF IInv, ShapeInv, HubInv
<1>7. \A s \in Specs \ {spec} : Found(s)' = Found(s)
  BY <1>1, <1>3, <1>5, FoundElsewhere DEF settings
<1>8. CASE Usable(spec, dir[spec] \union part) /\ Done(p)
  <2>1. Found(spec)'
    BY <1>1, <1>2, <1>5, <1>8 DEF Found, Resolved, Usable, settings
  <2> QED BY <1>1, <1>2, <1>3, <1>5, <1>6, <1>7, <1>8, <2>1, DonePreserves DEF settings
<1>9. CASE GoesTo(p, "choose", None)
  BY <1>1, <1>2, <1>3, <1>5, <1>7, <1>9, GoesToPreserves
<1>10. CASE GoesTo(p, "transfer", h)
  <2> HIDE DEF h
  <2> QED BY <1>1, <1>2, <1>3, <1>5, <1>7, <1>10, GoesToPreserves
<1> QED BY <1>4, <1>8, <1>9, <1>10

LEMMA LandPreserves == ASSUME IInv, NEW p \in Procs, Land(p) PROVE IInv'
<1> DEFINE spec == Spec1(p)
           h == procs[p].from
<1>1. procs[p].pc = "transfer" /\ UNCHANGED <<settings, procs>>
  BY DEF Land
<1>2. spec \in Specs /\ h \in Hubs /\ (hub # "auto" => h = hub)
  <2>1. h \in Hubs /\ (hub # "auto" => h \in {hub, None})
    BY <1>1 DEF IInv, ShapeInv, HubInv
  <2>2. spec \in Specs
    BY <1>1, AtWork DEF IInv
  <2> HIDE DEF spec, h
  <2> QED BY <2>1, <2>2, WeightsAssumption
<1>3. PICK f \in Files(spec) : Writes(p, Target(p) \union {f})
  BY DEF Land
<1>4. /\ dir' \in Disk /\ cache' \in [Hubs -> Disk]
      /\ \A s \in Specs \ {spec} :
            dir'[s] = dir[s] /\ \A g \in Hubs : cache'[g][s] = cache[g][s]
      /\ \A g \in Hubs \ {h} : cache'[g] = cache[g]
      /\ ~IntoDir(p) => dir' = dir
  <2>1. {f} \in SUBSET Files(spec) /\ spec = Spec1(p) /\ h = procs[p].from
    BY <1>3
  <2> HIDE DEF spec, h
  <2> QED BY <1>1, <1>2, <1>3, <2>1, WritesTypes DEF IInv
<1>5. \A s \in Specs \ {spec} : Found(s)' = Found(s)
  <2> HIDE DEF spec
  <2> QED BY <1>1, <1>2, <1>4, FoundElsewhere DEF settings
<1>6. ShapeInv' /\ TurnInv'
  BY <1>1, <1>4 DEF IInv, ShapeInv, TurnInv, settings, IntoDir
<1>7. HubInv'
  <2> HIDE DEF spec, h
  <2> QED BY <1>1, <1>2, <1>4 DEF IInv, HubInv, settings
<1>8. FoundInv'
  <2>1. Pending("download")' = Pending("download")
    BY <1>1 DEF Pending
  <2>2. CASE p = "download"
    <3>1. spec \in Pending("download")
      BY <1>1, <2>2, AtWork DEF IInv
    <3> HIDE DEF spec
    <3> QED BY <1>1, <1>5, <2>1, <2>2, <3>1 DEF IInv, FoundInv
  <2>3. CASE p = "serve"
    <3>1. procs["download"].pc = "idle" /\ ~IntoDir(p)
      BY <1>1, <2>3 DEF IInv, TurnInv, Procs, IntoDir
    <3>2. procs["download"].result = "ok" => modelDir
      BY <1>1, <2>3 DEF IInv, FoundInv
    <3>3. modelDir => \A s \in Specs : Found(s)' = Found(s)
      BY <1>1, <1>4, <3>1 DEF Found, Resolved, settings
    <3> QED BY <1>1, <3>1, <3>2, <3>3 DEF IInv, FoundInv, settings
  <2> QED BY <2>2, <2>3 DEF Procs
<1> QED BY <1>6, <1>7, <1>8 DEF IInv

LEMMA CheckPreserves == ASSUME IInv, NEW p \in Procs, Check(p) PROVE IInv'
<1> DEFINE spec == Spec1(p)
           h == procs[p].from
<1>1. procs[p].pc = "check" /\ UNCHANGED <<settings, dir, cache>>
  BY DEF Check
<1>2. spec \in Specs /\ h \in Hubs /\ (hub = "auto" \/ h = hub)
  <2>1. h \in Hubs /\ (hub # "auto" => h \in {hub, None})
    BY <1>1 DEF IInv, ShapeInv, HubInv
  <2>2. spec \in Specs
    BY <1>1, AtWork DEF IInv
  <2> HIDE DEF spec, h
  <2> QED BY <2>1, <2>2, WeightsAssumption
<1>3. \A s \in Specs : Found(s)' = Found(s)
  BY <1>1 DEF Found, Resolved, CachedIn, settings
<1>4. dir' \in Disk /\ cache' \in [Hubs -> Disk]
      /\ (hub # "auto" => \A g \in Hubs \ {hub} : \A s \in Specs : cache'[g][s] = {})
  BY <1>1 DEF IInv, ShapeInv, HubInv
<1>5. CASE Usable(spec, Target(p)) /\ Done(p)
  <2>1. p = "download" => Found(spec)
    <3>1. CASE IntoDir(p)
      BY <1>5, <3>1 DEF Found, Resolved, Target, IntoDir
    <3>2. CASE ~IntoDir(p) /\ p = "download"
      <4>1. ~modelDir /\ Usable(spec, cache[h][spec])
        BY <1>5, <3>2 DEF Target, IntoDir
      <4> HIDE DEF spec, h
      <4>2. h \in CachedIn(spec)
        BY <1>2, <4>1 DEF CachedIn
      <4> QED BY <4>1, <4>2 DEF Found
    <3> QED BY <3>1, <3>2
  <2> HIDE DEF spec
  <2>2. spec = Spec1(p)
    BY DEF spec
  <2> QED BY <1>1, <1>2, <1>3, <1>4, <1>5, <2>1, <2>2, DonePreserves DEF settings
<1>6. CASE Exits(p, "failed")
  BY <1>1, <1>6, FailPreserves
<1> QED BY <1>5, <1>6 DEF Check

LEMMA NextPreserves == IInv /\ [Next]_vars => IInv'
<1> SUFFICES ASSUME IInv, [Next]_vars PROVE IInv'
  OBVIOUS
<1>1. ASSUME NEW p \in Procs, Raise(p) \/ Interrupt(p) PROVE IInv'
  <2>1. procs[p].pc # "idle" /\ Exits(p, "failed") /\ UNCHANGED <<settings, dir, cache>>
    BY <1>1 DEF Raise, Interrupt
  <2> QED BY <2>1, FailPreserves
<1>2. CASE UNCHANGED vars
  BY <1>2 DEF vars, IInv, ShapeInv, TurnInv, HubInv, FoundInv, Found, Resolved, CachedIn,
              Pending, IntoDir
<1> QED BY <1>1, <1>2, BeginPreserves, ResolvePreserves, CopyPreserves, ChoosePreserves,
           LandPreserves, ReturnPreserves, CheckPreserves DEF Next, Work

THEOREM Invariance == Spec => []IInv
BY InitHolds, NextPreserves, PTL DEF Spec

\* cli.py:510-511: what a download calls done, a server with the same settings finds
\* where it looks, whatever was interrupted, copied or served in between.
THEOREM DoneIsFound == Spec => []DownloadedIsFound
<1>1. IInv => DownloadedIsFound
  BY DEF IInv, FoundInv, Found, DownloadedIsFound
<1> QED BY <1>1, Invariance, PTL

\* hub.py:492-494: an operator who named a source gets that source, however often it
\* failed.
THEOREM NamedIsUsed == Spec => []NamedHubOnly
<1>1. IInv => NamedHubOnly
  BY DEF IInv, HubInv, NamedHubOnly
<1> QED BY <1>1, Invariance, PTL

-----------------------------------------------------------------------------
(* The type invariant; IInv is used on both sides of a step.                *)

\* No file is on disk that its repository does not hold.
DiskInv == /\ network \in Networks /\ trouble \in 0..MaxTrouble
           /\ \A s \in Specs : /\ dir[s] \subseteq Files(s)
                               /\ \A h \in Hubs : cache[h][s] \subseteq Files(s)

LEMMA CopyOnDisk == ASSUME IInv, DiskInv, NEW p \in Procs, Copy(p) PROVE DiskInv'
<1> DEFINE spec == Spec1(p)
<1>1. procs[p].pc = "copy" /\ UNCHANGED <<settings, cache>>
  BY DEF Copy
<1>2. spec \in Specs /\ procs[p].from \in Hubs
  BY <1>1, AtWork DEF IInv, ShapeInv
<1>3. PICK part \in SUBSET cache[procs[p].from][spec] :
         dir' = [dir EXCEPT ![spec] = dir[spec] \union part]
  BY DEF Copy
<1>4. trouble' = trouble \/ Trouble
  BY DEF Copy
<1>5. trouble' \in 0..MaxTrouble
  BY <1>4, WeightsAssumption DEF Trouble, DiskInv
<1>6. dir[spec] \union part \subseteq Files(spec) /\ DOMAIN dir = Specs
  BY <1>2, <1>3 DEF DiskInv, IInv, ShapeInv, Disk
<1> HIDE DEF spec
<1>7. \A s \in Specs : dir'[s] \subseteq Files(s)
  BY <1>2, <1>3, <1>6 DEF DiskInv
<1> QED BY <1>1, <1>5, <1>7 DEF DiskInv, settings

LEMMA LandOnDisk == ASSUME IInv, DiskInv, NEW p \in Procs, Land(p) PROVE DiskInv'
<1> DEFINE spec == Spec1(p)
           h == procs[p].from
<1>1. procs[p].pc = "transfer" /\ UNCHANGED <<settings, procs, trouble>>
  BY DEF Land
<1>2. spec \in Specs /\ h \in Hubs
  BY <1>1, AtWork DEF IInv, ShapeInv
<1>3. PICK f \in Files(spec) : Writes(p, Target(p) \union {f})
  BY DEF Land
<1>4. Target(p) \subseteq Files(spec)
  BY <1>2 DEF Target, DiskInv
<1> DEFINE files == Target(p) \union {f}
<1>5. files \subseteq Files(spec)
  BY <1>3, <1>4
<1>6. /\ dir \in [Specs -> SUBSET UNION {Files(s) : s \in Specs}]
      /\ cache \in [Hubs -> [Specs -> SUBSET UNION {Files(s) : s \in Specs}]]
  BY DEF IInv, ShapeInv, Disk
<1>7. \/ dir' = [dir EXCEPT ![spec] = files] /\ cache' = cache
      \/ cache' = [cache EXCEPT ![h][spec] = files] /\ dir' = dir
  BY <1>3 DEF Writes
<1> HIDE DEF spec, h, files
<1>8. \A s \in Specs : dir'[s] \subseteq Files(s)
  BY <1>2, <1>5, <1>6, <1>7 DEF DiskInv
<1>9. \A s \in Specs, g \in Hubs : cache'[g][s] \subseteq Files(s)
  <2>1. CASE cache' = cache
    BY <2>1 DEF DiskInv
  <2>2. CASE cache' = [cache EXCEPT ![h][spec] = files]
    <3> SUFFICES ASSUME NEW s \in Specs, NEW g \in Hubs PROVE cache'[g][s] \subseteq Files(s)
      OBVIOUS
    <3>1. (cache'[g][s] = files /\ s = spec) \/ cache'[g][s] = cache[g][s]
      BY <1>2, <1>6, <2>2
    <3> QED BY <1>5, <3>1 DEF DiskInv
  <2> QED BY <1>7, <2>1, <2>2
<1> QED BY <1>1, <1>8, <1>9 DEF DiskInv, settings

\* The state stays well typed (TypeOK).
THEOREM TypeCorrect == Spec => []TypeOK
<1>1. Init => DiskInv
  BY WeightsAssumption DEF Init, DiskInv
<1>2. ASSUME IInv, DiskInv PROVE TypeOK
  <2>1. \A p \in Procs : procs[p] \in Proc
    BY <1>2 DEF IInv, ShapeInv
  <2> QED BY <1>2, <2>1 DEF IInv, ShapeInv, DiskInv, TypeOK, Proc, Pcs
<1>3. ASSUME IInv, DiskInv, [Next]_vars PROVE DiskInv'
  <2>1. ASSUME NEW p \in Procs,
               \/ Begin(p) \/ Resolve(p) \/ Choose(p) \/ Return(p) \/ Raise(p) \/ Check(p)
               \/ Interrupt(p)
        PROVE  DiskInv'
    <3>1. UNCHANGED <<settings, dir, cache>> /\ (trouble' = trouble \/ Trouble)
      BY <2>1 DEF Begin, Resolve, Choose, Return, Raise, Check, Interrupt
    <3>2. trouble' \in 0..MaxTrouble
      BY <1>3, <3>1, WeightsAssumption DEF Trouble, DiskInv
    <3> QED BY <1>3, <3>1, <3>2 DEF DiskInv, settings
  <2>2. CASE UNCHANGED vars
    BY <1>3, <2>2 DEF vars, DiskInv
  <2> QED BY <1>3, <2>1, <2>2, CopyOnDisk, LandOnDisk DEF Next, Work
<1> QED BY <1>1, <1>2, <1>3, Invariance, PTL DEF Spec
=============================================================================
