--------------------------- MODULE InferenceProofs ---------------------------
(***************************************************************************)
(* What Inference promises for any requests, any numbers a network may     *)
(* give, any budgets, buckets and chunk sizes: a question is answered as   *)
(* if it were asked alone, all of a request is answered or nothing, the    *)
(* answers add up, what clients write forges no option, kev's forms of the *)
(* forward pass agree, and every number is published under its own key.    *)
(*                                                                         *)
(* The encoders fold over sequences.  What a fold computes is proved by    *)
(* induction over sets of natural numbers: a set that misses one has a     *)
(* smallest that it misses (WFMin).                                        *)
(***************************************************************************)
EXTENDS Inference, TLAPS, FiniteSetTheorems, SequenceTheorems, WellFoundedInduction

-----------------------------------------------------------------------------
(* Induction over the natural numbers, for sets rather than predicates.     *)

\* A set of natural numbers has a least element.
LEMMA Smallest ==
    ASSUME NEW T \in SUBSET Nat, T # {}
    PROVE  \E n \in T : \A m \in T : n <= m
<1> DEFINE R == OpToRel(<, Nat)
<1>1. IsWellFoundedOn(R, Nat)
  BY NatLessThanWellFounded
<1>2. \A x, y \in Nat : x < y => <<x, y>> \in R
  BY DEF OpToRel
<1> HIDE DEF R
<1>3. PICK n \in T : \A m \in T : ~ (<<m, n>> \in R)
  BY <1>1, WFMin
<1>4. \A m \in T : ~ (m < n)
  BY <1>2, <1>3
<1> QED BY <1>4

\* Induction: a set that holds 0 and with every number the next holds them all.
LEMMA NatSet ==
    ASSUME NEW T, 0 \in T, \A n \in Nat : n \in T => n + 1 \in T
    PROVE  \A n \in Nat : n \in T
<1> SUFFICES ASSUME Nat \ T # {} PROVE FALSE
  OBVIOUS
<1>1. PICK n \in Nat \ T : \A m \in Nat \ T : n <= m
  BY Smallest
<1> QED BY <1>1

\* A set of integers with an upper bound has a largest element, and Max is it.
LEMMA MaxIs ==
    ASSUME NEW S \in SUBSET Int, S # {}, NEW b \in Int, \A s \in S : s <= b
    PROVE  Max(S) \in S /\ \A s \in S : s <= Max(S)
<1> DEFINE T == {b - s : s \in S}
<1>0. \A s \in S : b - s \in Nat
  OBVIOUS
<1>1. T \in SUBSET Nat /\ T # {}
  BY <1>0, Zenon
<1>2. PICK n \in T : \A m \in T : n <= m
  BY <1>1, Smallest
<1>3. PICK x \in S : n = b - x
  BY <1>2
<1>4. \A y \in S : x >= y
  BY <1>2, <1>3
<1> QED BY <1>4 DEF Max

\* The largest of a non-empty part of 1..n.
LEMMA MaxInterval ==
    ASSUME NEW n \in Nat, NEW U \in SUBSET (1..n), U # {}
    PROVE  Max(U) \in U /\ \A s \in U : s <= Max(U)
<1>1. U \in SUBSET Int /\ n \in Int
  OBVIOUS
<1>2. \A s \in U : s <= n
  OBVIOUS
<1> HIDE DEF Max
<1> QED BY <1>1, <1>2, MaxIs

\* The largest number up to k is k.
LEMMA MaxOfInterval ==
    ASSUME NEW n \in Nat \ {0}
    PROVE  Max(1..n) = n
<1>1. Max(1..n) \in 1..n /\ \A s \in 1..n : s <= Max(1..n)
  BY MaxInterval, 1..n # {}
<1> QED BY <1>1

-----------------------------------------------------------------------------
(* Folds                                                                    *)

FoldsOver(n, X, base, G, iter) ==
    /\ iter \in [SUBSET (1..n) -> X]
    /\ iter[{}] = base
    /\ \A U \in SUBSET (1..n) : U # {} => iter[U] = G[Max(U)][iter[U \ {Max(U)}]]

\* A fold has a value: one that takes the elements of 1..N from the largest on.
LEMMA FoldExists ==
    ASSUME NEW X, NEW base \in X, NEW N \in Nat, NEW G \in [1..N -> [X -> X]]
    PROVE  \E iter : FoldsOver(N, X, base, G, iter)
<1> DEFINE T == {n \in Nat : n <= N => \E iter : FoldsOver(n, X, base, G, iter)}
<1>1. 0 \in T
  <2> DEFINE it == [U \in SUBSET (1..0) |-> base]
  <2>1. SUBSET (1..0) = {{}}
    OBVIOUS
  <2>2. FoldsOver(0, X, base, G, it)
    BY <2>1 DEF FoldsOver
  <2> QED BY <2>2
<1>2. \A n \in Nat : n \in T => n + 1 \in T
  <2> SUFFICES ASSUME NEW n \in Nat, n + 1 <= N, NEW it, FoldsOver(n, X, base, G, it)
               PROVE  \E new : FoldsOver(n + 1, X, base, G, new)
    OBVIOUS
  <2> DEFINE new == [U \in SUBSET (1..(n + 1)) |->
                        IF n + 1 \in U THEN G[n + 1][it[U \ {n + 1}]] ELSE it[U]]
  <2>0. \A U \in SUBSET (1..(n + 1)) : U \ {n + 1} \in SUBSET (1..n)
    OBVIOUS
  <2>1. new \in [SUBSET (1..(n + 1)) -> X]
    BY <2>0 DEF FoldsOver
  <2>2. new[{}] = base
    BY DEF FoldsOver
  <2>3. ASSUME NEW U \in SUBSET (1..(n + 1)), U # {}
        PROVE  new[U] = G[Max(U)][new[U \ {Max(U)}]]
    <3>1. CASE n + 1 \in U
      <4>1. Max(U) \in U /\ \A s \in U : s <= Max(U)
        BY <3>1, MaxInterval, n + 1 \in Nat
      <4>2. Max(U) = n + 1
        <5>1. Max(U) \in 1..(n + 1) /\ n + 1 <= Max(U)
          BY <3>1, <4>1
        <5> QED BY <5>1
      <4>4. new[U \ {n + 1}] = it[U \ {n + 1}]
        BY <2>0
      <4> HIDE DEF new
      <4> QED BY <4>2, <4>4, <3>1 DEF new
    <3>2. CASE n + 1 \notin U
      <4>1. U \in SUBSET (1..n)
        BY <3>2
      <4>2. Max(U) \in U
        BY <2>3, <4>1, MaxInterval
      <4>6. new[U] = it[U]
        BY <3>2
      <4> QED BY <4>6, <2>3, <4>1, <3>2 DEF FoldsOver
    <3> QED BY <3>1, <3>2
  <2> HIDE DEF new
  <2> QED BY <2>1, <2>2, <2>3 DEF FoldsOver
<1> HIDE DEF T
<1>3. N \in T
  BY <1>1, <1>2, NatSet
<1> QED BY <1>3 DEF T

\* Taking the largest number from 1..k leaves 1..(k - 1).
LEMMA Initial ==
    ASSUME NEW k \in Nat \ {0}
    PROVE  1..k # {} /\ Max(1..k) = k /\ (1..k) \ {Max(1..k)} = 1..(k - 1)
<1>1. Max(1..k) = k
  BY MaxOfInterval
<1> QED BY <1>1

\* Induction up to a bound.
LEMMA UpTo ==
    ASSUME NEW M \in Nat, NEW E, 0 \in E, \A k \in 1..M : k - 1 \in E => k \in E
    PROVE  \A k \in 0..M : k \in E
<1> DEFINE T == {n \in Nat : n <= M => n \in E}
<1>1. 0 \in T
  OBVIOUS
<1>2. \A n \in Nat : n \in T => n + 1 \in T
  OBVIOUS
<1> HIDE DEF T
<1>3. \A n \in Nat : n \in T
  BY <1>1, <1>2, NatSet
<1> QED BY <1>3 DEF T

\* A function on 0..N has its type by induction.
LEMMA TypeBySteps ==
    ASSUME NEW X, NEW N \in Nat, NEW f, f = [k \in 0..N |-> f[k]], f[0] \in X,
           \A k \in 1..N : f[k - 1] \in X => f[k] \in X
    PROVE  f \in [0..N -> X]
<1> DEFINE E == {k \in 0..N : f[k] \in X}
<1>1. 0 \in E
  OBVIOUS
<1>2. \A k \in 1..N : k - 1 \in E => k \in E
  OBVIOUS
<1> HIDE DEF E
<1> QED BY <1>1, <1>2, UpTo DEF E

\* Total is a running sum.
LEMMA TotalIs ==
    ASSUME NEW N \in Nat, NEW ss \in [1..N -> Int]
    PROVE  \E f \in [0..N -> Int] :
              /\ f[0] = 0 /\ \A k \in 1..N : f[k] = f[k - 1] + ss[k]
              /\ Total(ss) = f[N]
<1> DEFINE F == CHOOSE F : F = [T \in SUBSET (DOMAIN ss) |->
                    IF T = {} THEN 0 ELSE F[T \ {Max(T)}] + ss[Max(T)]]
           G == [k \in 1..N |-> [v \in Int |-> v + ss[k]]]
<1>1. Total(ss) = F[DOMAIN ss]
  BY Zenon DEF Total, FoldLeft, MapThenFoldSet
<1>2. PICK it : FoldsOver(N, Int, 0, G, it)
  <2>1. G \in [1..N -> [Int -> Int]]
    OBVIOUS
  <2> HIDE DEF G
  <2>2. 0 \in Int
    OBVIOUS
  <2> QED BY <2>1, <2>2, FoldExists, Zenon
<1>3. it = [T \in SUBSET (DOMAIN ss) |->
                    IF T = {} THEN 0 ELSE it[T \ {Max(T)}] + ss[Max(T)]]
  <2>1. ASSUME NEW T \in SUBSET (1..N), T # {}
        PROVE  it[T] = it[T \ {Max(T)}] + ss[Max(T)]
    BY <2>1, MaxInterval, <1>2 DEF FoldsOver
  <2> QED BY <1>2, <2>1 DEF FoldsOver
<1>4. F = [T \in SUBSET (1..N) |-> IF T = {} THEN 0 ELSE F[T \ {Max(T)}] + ss[Max(T)]]
  BY <1>3, Zenon
<1> DEFINE f == [k \in 0..N |-> F[1..k]]
<1> HIDE DEF F, G
<1>5. f[0] = 0
  BY <1>4
<1>6. \A k \in 1..N : f[k] = f[k - 1] + ss[k]
  <2> TAKE k \in 1..N
  <2>0. k \in Nat \ {0}
    OBVIOUS
  <2>2. F[1..k] = F[1..(k - 1)] + ss[k]
    BY <1>4, 1..k \in SUBSET (1..N), <2>0, Initial
  <2> QED BY <2>2
<1>7. f \in [0..N -> Int]
  <2>1. \A k \in 1..N : f[k - 1] \in Int => f[k] \in Int
    <3> TAKE k \in 1..N
    <3>1. f[k] = f[k - 1] + ss[k] /\ ss[k] \in Int
      BY <1>6
    <3> HIDE DEF f
    <3> QED BY <3>1
  <2>2. f = [k \in 0..N |-> f[k]] /\ f[0] \in Int
    BY <1>5
  <2> HIDE DEF f
  <2> QED BY <2>1, <2>2, TypeBySteps
<1>8. Total(ss) = f[N]
  BY <1>1
<1> HIDE DEF f
<1> QED BY <1>5, <1>6, <1>7, <1>8

Prefix(ss, k) == [i \in 1..k |-> ss[i]]

\* FlattenSeq is a running concatenation.
LEMMA FlattenIs ==
    ASSUME NEW S, NEW N \in Nat, NEW ss \in [1..N -> Seq(S)]
    PROVE  \E f \in [0..N -> Seq(S)] :
              /\ f[0] = <<>> /\ \A k \in 1..N : f[k] = f[k - 1] \o ss[k]
              /\ FlattenSeq(ss) = f[N]
<1>0. Len(ss) = N
  OBVIOUS
<1>1. CASE N = 0
  <2>1. FlattenSeq(ss) = <<>>
    BY <1>0, <1>1 DEF FlattenSeq
  <2> DEFINE f == [k \in 0..N |-> <<>>]
  <2>2. f \in [0..N -> Seq(S)] /\ f[0] = <<>> /\ f[N] = <<>>
    BY <1>1
  <2>3. \A k \in 1..N : f[k] = f[k - 1] \o ss[k]
    BY <1>1
  <2> HIDE DEF f
  <2> QED BY <2>1, <2>2, <2>3
<1>2. CASE N # 0
  <2> DEFINE F == CHOOSE F : F = [i \in 1..N |-> IF i = 1 THEN ss[i] ELSE F[i - 1] \o ss[i]]
             G == [k \in 1..N |-> [v \in Seq(S) |-> v \o ss[k]]]
  <2>1. FlattenSeq(ss) = F[N]
    BY <1>0, <1>2, Zenon DEF FlattenSeq
  <2>2. PICK it : FoldsOver(N, Seq(S), <<>>, G, it)
    <3>1. G \in [1..N -> [Seq(S) -> Seq(S)]]
      BY ConcatProperties
    <3>2. <<>> \in Seq(S)
      OBVIOUS
    <3> HIDE DEF G
    <3> QED BY <3>1, <3>2, FoldExists, Zenon
  <2> DEFINE g == [i \in 1..N |-> it[1..i]]
  <2>3. ASSUME NEW i \in 1..N
        PROVE  /\ g[i] = IF i = 1 THEN ss[i] ELSE g[i - 1] \o ss[i]
               /\ g[i] \in Seq(S)
    <3>0. i \in Nat \ {0} /\ 1..i \in SUBSET (1..N) /\ 1..(i - 1) \in SUBSET (1..N)
      OBVIOUS
    <3>1. 1..i # {} /\ Max(1..i) = i /\ (1..i) \ {Max(1..i)} = 1..(i - 1)
      BY <3>0, Initial
    <3>2. it[1..i] = G[i][it[1..(i - 1)]] /\ it[1..i] \in Seq(S) /\ it[1..(i - 1)] \in Seq(S)
      BY <2>2, <3>0, <3>1, Zenon DEF FoldsOver
    <3>3. it[1..i] = it[1..(i - 1)] \o ss[i]
      BY <3>2
    <3>4. CASE i = 1
      <4>1. 1..(i - 1) = {}
        BY <3>4
      <4>4. <<>> \o ss[i] = ss[i]
        BY ConcatEmptySeq
      <4> QED BY <3>2, <3>3, <3>4, <4>4, <2>2, <4>1 DEF FoldsOver
    <3>5. CASE i # 1
      <4>1. i - 1 \in 1..N
        BY <3>5
      <4>2. g[i - 1] = it[1..(i - 1)]
        BY <4>1, Zenon
      <4> QED BY <3>2, <3>3, <3>5, <4>2
    <3> QED BY <3>4, <3>5
  <2>4. g = [i \in 1..N |-> IF i = 1 THEN ss[i] ELSE g[i - 1] \o ss[i]]
    <3>1. g = [i \in 1..N |-> g[i]]
      OBVIOUS
    <3> HIDE DEF g
    <3> QED BY <2>3, <3>1
  <2>5. F = [i \in 1..N |-> IF i = 1 THEN ss[i] ELSE F[i - 1] \o ss[i]]
    <3> HIDE DEF g, G
    <3> QED BY <2>4, Zenon
  <2> HIDE DEF F, G, g
  <2> DEFINE f == [k \in 0..N |-> IF k = 0 THEN <<>> ELSE F[k]]
  <2>6. \A k \in 1..N : f[k - 1] \in Seq(S) => f[k] = f[k - 1] \o ss[k] /\ f[k] \in Seq(S)
    <3> TAKE k \in 1..N
    <3> HAVE f[k - 1] \in Seq(S)
    <3>0. ss[k] \in Seq(S)
      OBVIOUS
    <3>a. F[k] = IF k = 1 THEN ss[k] ELSE F[k - 1] \o ss[k]
      BY <2>5, Zenon
    <3>1. f[k] = F[k] /\ F[k] = IF k = 1 THEN ss[k] ELSE F[k - 1] \o ss[k]
      BY <3>a
    <3>2. CASE k = 1
      BY <3>2, <3>0, ConcatEmptySeq, <3>1
    <3>3. CASE k # 1
      <4>2. f[k] = f[k - 1] \o ss[k]
        BY <3>1, <3>3
      <4>3. f[k - 1] \o ss[k] \in Seq(S)
        BY <3>0, ConcatProperties
      <4> QED BY <4>2, <4>3
    <3> QED BY <3>2, <3>3
  <2>7. f \in [0..N -> Seq(S)]
    <3>1. f = [k \in 0..N |-> f[k]] /\ f[0] = <<>> /\ f[0] \in Seq(S)
      OBVIOUS
    <3> HIDE DEF f
    <3> QED BY <2>6, <3>1, TypeBySteps
  <2>8. f[0] = <<>> /\ f[N] = F[N]
    BY <1>2
  <2>9. \A k \in 1..N : f[k] = f[k - 1] \o ss[k]
    <3> TAKE k \in 1..N
    <3>1. f[k - 1] \in Seq(S)
      <4>1. k - 1 \in 0..N
        OBVIOUS
      <4> HIDE DEF f
      <4> QED BY <2>7, <4>1
    <3> HIDE DEF f
    <3> QED BY <2>6, <3>1
  <2> HIDE DEF f
  <2> QED BY <2>1, <2>7, <2>8, <2>9
<1> QED BY <1>1, <1>2

\* FlattenSeq takes one sequence after the other.
LEMMA FlattenSteps ==
    ASSUME NEW S, NEW N \in Nat, NEW ss \in [1..N -> Seq(S)]
    PROVE  /\ FlattenSeq(Prefix(ss, 0)) = <<>>
           /\ \A k \in 1..N : FlattenSeq(Prefix(ss, k)) = FlattenSeq(Prefix(ss, k - 1)) \o ss[k]
           /\ \A k \in 0..N : FlattenSeq(Prefix(ss, k)) \in Seq(S)
           /\ Prefix(ss, N) = ss
<1>1. PICK f \in [0..N -> Seq(S)] :
              /\ f[0] = <<>> /\ \A k \in 1..N : f[k] = f[k - 1] \o ss[k]
              /\ FlattenSeq(ss) = f[N]
  BY FlattenIs
<1>2. ASSUME NEW k \in 0..N PROVE FlattenSeq(Prefix(ss, k)) = f[k]
  <2>1. k \in Nat /\ Prefix(ss, k) \in [1..k -> Seq(S)]
    BY DEF Prefix
  <2>2. PICK g \in [0..k -> Seq(S)] :
              /\ g[0] = <<>> /\ \A j \in 1..k : g[j] = g[j - 1] \o Prefix(ss, k)[j]
              /\ FlattenSeq(Prefix(ss, k)) = g[k]
    BY <2>1, FlattenIs
  <2>3. \A j \in 1..k : g[j - 1] = f[j - 1] => g[j] = f[j]
    <3> TAKE j \in 1..k
    <3>1. j \in 1..N /\ Prefix(ss, k)[j] = ss[j]
      BY DEF Prefix
    <3> QED BY <1>1, <2>2, <3>1
  <2>4. g[0] = f[0]
    BY <1>1, <2>2
  <2>5. \A j \in 0..k : g[j] = f[j]
    <3> DEFINE E == {j \in 0..k : g[j] = f[j]}
    <3>1. 0 \in E /\ k \in Nat
      BY <2>4
    <3>2. \A j \in 1..k : j - 1 \in E => j \in E
      BY <2>3
    <3> HIDE DEF E
    <3> QED BY <3>1, <3>2, UpTo DEF E
  <2> QED BY <2>1, <2>2, <2>5
<1>4. ASSUME NEW k \in 1..N
      PROVE  FlattenSeq(Prefix(ss, k)) = FlattenSeq(Prefix(ss, k - 1)) \o ss[k]
  <2>1. k \in 0..N /\ k - 1 \in 0..N
    OBVIOUS
  <2> QED BY <1>1, <1>2, <2>1
<1>5. 0 \in 0..N
  OBVIOUS
<1> QED BY <1>1, <1>2, <1>4, <1>5 DEF Prefix

\* Total adds one number after the other.
LEMMA TotalSteps ==
    ASSUME NEW N \in Nat, NEW ss \in [1..N -> Int]
    PROVE  /\ Total(Prefix(ss, 0)) = 0
           /\ \A k \in 1..N : Total(Prefix(ss, k)) = Total(Prefix(ss, k - 1)) + ss[k]
           /\ \A k \in 0..N : Total(Prefix(ss, k)) \in Int
           /\ Prefix(ss, N) = ss
<1>1. PICK f \in [0..N -> Int] :
              /\ f[0] = 0 /\ \A k \in 1..N : f[k] = f[k - 1] + ss[k]
              /\ Total(ss) = f[N]
  BY TotalIs
<1>2. ASSUME NEW k \in 0..N PROVE Total(Prefix(ss, k)) = f[k]
  <2>1. k \in Nat /\ Prefix(ss, k) \in [1..k -> Int]
    BY DEF Prefix
  <2>2. PICK g \in [0..k -> Int] :
              /\ g[0] = 0 /\ \A j \in 1..k : g[j] = g[j - 1] + Prefix(ss, k)[j]
              /\ Total(Prefix(ss, k)) = g[k]
    BY <2>1, TotalIs
  <2>3. \A j \in 1..k : g[j - 1] = f[j - 1] => g[j] = f[j]
    <3> TAKE j \in 1..k
    <3>1. j \in 1..N /\ Prefix(ss, k)[j] = ss[j]
      BY DEF Prefix
    <3> QED BY <1>1, <2>2, <3>1
  <2>4. g[0] = f[0]
    BY <1>1, <2>2
  <2>5. \A j \in 0..k : g[j] = f[j]
    <3> DEFINE E == {j \in 0..k : g[j] = f[j]}
    <3>1. 0 \in E /\ k \in Nat
      BY <2>4
    <3>2. \A j \in 1..k : j - 1 \in E => j \in E
      BY <2>3
    <3> HIDE DEF E
    <3> QED BY <3>1, <3>2, UpTo DEF E
  <2> QED BY <2>1, <2>2, <2>5
<1>4. ASSUME NEW k \in 1..N
      PROVE  Total(Prefix(ss, k)) = Total(Prefix(ss, k - 1)) + ss[k]
  <2>1. k \in 0..N /\ k - 1 \in 0..N
    OBVIOUS
  <2> QED BY <1>1, <1>2, <2>1
<1>5. 0 \in 0..N
  OBVIOUS
<1> QED BY <1>1, <1>2, <1>4, <1>5 DEF Prefix

\* Reach goes from place i down to the first, and adds what a reached place sees.
LEMMA ReachIs ==
    ASSUME NEW i \in Nat \ {0}, NEW sees, \A n \in 1..i : sees[n] \subseteq 1..i
    PROVE  \E f \in [0..i -> SUBSET (1..i)] :
              /\ f[0] = {i}
              /\ \A k \in 1..i : f[k] = IF i + 1 - k \in f[k - 1]
                                        THEN f[k - 1] \union sees[i + 1 - k] ELSE f[k - 1]
              /\ Reach(i, sees) = f[i]
<1> DEFINE X == SUBSET (1..i)
           ss == [k \in 1..i |-> i + 1 - k]
           F == CHOOSE F : F = [T \in SUBSET (DOMAIN ss) |->
                    IF T = {} THEN {i}
                    ELSE IF ss[Max(T)] \in F[T \ {Max(T)}]
                         THEN F[T \ {Max(T)}] \union sees[ss[Max(T)]] ELSE F[T \ {Max(T)}]]
           G == [k \in 1..i |-> [v \in X |-> IF ss[k] \in v THEN v \union sees[ss[k]] ELSE v]]
<1>0. \A k \in 1..i : ss[k] \in 1..i /\ sees[ss[k]] \in X
  OBVIOUS
<1>1. Reach(i, sees) = F[DOMAIN ss]
  BY Zenon DEF Reach, FoldLeft, MapThenFoldSet
<1>2. PICK it : FoldsOver(i, X, {i}, G, it)
  <2>1. G \in [1..i -> [X -> X]]
    <3> HIDE DEF ss
    <3> SUFFICES ASSUME NEW k \in 1..i, NEW v \in X
                 PROVE  (IF ss[k] \in v THEN v \union sees[ss[k]] ELSE v) \in X
      BY Zenon
    <3> QED BY <1>0
  <2> HIDE DEF G
  <2>2. {i} \in X /\ i \in Nat
    OBVIOUS
  <2> HIDE DEF X
  <2> QED BY <2>1, <2>2, FoldExists, Zenon
<1>a. DOMAIN ss = 1..i
  OBVIOUS
<1>3. it = [T \in SUBSET (DOMAIN ss) |->
                    IF T = {} THEN {i}
                    ELSE IF ss[Max(T)] \in it[T \ {Max(T)}]
                         THEN it[T \ {Max(T)}] \union sees[ss[Max(T)]] ELSE it[T \ {Max(T)}]]
  <2>1. ASSUME NEW T \in SUBSET (1..i), T # {}
        PROVE  it[T] = IF ss[Max(T)] \in it[T \ {Max(T)}]
                         THEN it[T \ {Max(T)}] \union sees[ss[Max(T)]] ELSE it[T \ {Max(T)}]
    <3>1. Max(T) \in 1..i
      BY <2>1, MaxInterval
    <3>2. it[T \ {Max(T)}] \in X
      BY <1>2 DEF FoldsOver
    <3>3. it[T] = G[Max(T)][it[T \ {Max(T)}]]
      BY <1>2, <2>1 DEF FoldsOver
    <3> HIDE DEF X, ss
    <3> QED BY <3>1, <3>2, <3>3, Zenon
  <2> HIDE DEF ss, G, X
  <2> QED BY <1>2, <1>a, <2>1 DEF FoldsOver
<1> HIDE DEF ss, G
<1>4. F = [T \in SUBSET (1..i) |->
                    IF T = {} THEN {i}
                    ELSE IF ss[Max(T)] \in F[T \ {Max(T)}]
                         THEN F[T \ {Max(T)}] \union sees[ss[Max(T)]] ELSE F[T \ {Max(T)}]]
  BY <1>3, <1>a, Zenon
<1> DEFINE f == [k \in 0..i |-> F[1..k]]
<1> HIDE DEF F
<1>5. f[0] = {i}
  BY <1>4
<1>6. \A k \in 1..i : f[k] = IF i + 1 - k \in f[k - 1]
                             THEN f[k - 1] \union sees[i + 1 - k] ELSE f[k - 1]
  <2> TAKE k \in 1..i
  <2>0. k \in Nat \ {0} /\ 1..k \in SUBSET (1..i) /\ ss[k] = i + 1 - k
    BY DEF ss
  <2>1. 1..k # {} /\ Max(1..k) = k /\ (1..k) \ {Max(1..k)} = 1..(k - 1)
    BY <2>0, Initial
  <2> DEFINE m == Max(1..k)
             U == (1..k) \ {m}
  <2>2. F[1..k] = IF ss[m] \in F[U] THEN F[U] \union sees[ss[m]] ELSE F[U]
    BY <1>4, <2>0, <2>1, Zenon
  <2>3. m = k /\ U = 1..(k - 1)
    BY <2>1
  <2>4. f[k] = F[1..k] /\ f[k - 1] = F[1..(k - 1)]
    OBVIOUS
  <2> HIDE DEF m, U, f
  <2> QED BY <2>0, <2>2, <2>3, <2>4
<1>7. f \in [0..i -> X]
  <2>1. \A k \in 1..i : f[k - 1] \in X => f[k] \in X
    <3> TAKE k \in 1..i
    <3>1. sees[i + 1 - k] \in X
      BY <1>0 DEF ss
    <3> HIDE DEF f
    <3> QED BY <1>6, <3>1
  <2>2. f = [k \in 0..i |-> f[k]] /\ f[0] \in X
    BY <1>5
  <2> HIDE DEF f, X
  <2> QED BY <2>1, <2>2, TypeBySteps
<1>8. Reach(i, sees) = f[i]
  BY <1>1, <1>a
<1> HIDE DEF f
<1> QED BY <1>5, <1>6, <1>7, <1>8

\* Where attention is transitive, one layer leads to all there is to see.
LEMMA ReachTransitive ==
    ASSUME NEW i \in Nat \ {0}, NEW sees, \A n \in 1..i : sees[n] \subseteq 1..(n - 1),
           \A m \in sees[i] : sees[m] \subseteq sees[i]
    PROVE  Reach(i, sees) = {i} \union sees[i]
<1>1. \A n \in 1..i : sees[n] \subseteq 1..i
  OBVIOUS
<1>2. PICK f \in [0..i -> SUBSET (1..i)] :
              /\ f[0] = {i}
              /\ \A k \in 1..i : f[k] = IF i + 1 - k \in f[k - 1]
                                        THEN f[k - 1] \union sees[i + 1 - k] ELSE f[k - 1]
              /\ Reach(i, sees) = f[i]
  BY <1>1, ReachIs
<1> DEFINE E == {k \in 0..i : k # 0 => f[k] = {i} \union sees[i]}
<1>3. 0 \in E /\ i \in Nat
  OBVIOUS
<1>4. \A k \in 1..i : k - 1 \in E => k \in E
  <2> SUFFICES ASSUME NEW k \in 1..i, k - 1 \in E PROVE f[k] = {i} \union sees[i]
    OBVIOUS
  <2>1. CASE k = 1
    <3>1. i + 1 - k = i /\ k - 1 = 0
      BY <2>1
    <3> QED BY <1>2, <3>1
  <2>2. CASE k # 1
    <3>1. f[k - 1] = {i} \union sees[i]
      BY <2>2
    <3> QED BY <1>2, <3>1, <2>2
  <2> QED BY <2>1, <2>2
<1> HIDE DEF E
<1>5. \A k \in 0..i : k \in E
  BY <1>3, <1>4, UpTo
<1> QED BY <1>2, <1>3, <1>5 DEF E

Reads(D, V) == [of : D, read : V]

HandsBack(f, N, D, out) ==
    /\ f[0] = [b \in D |-> <<>>]
    /\ \A k \in 1..N : f[k] = [f[k - 1] EXCEPT ![out[k].of] = Append(@, out[k].read)]
    /\ HandBack(out, D) = f[N]

\* HandBack goes through the readouts in order.
LEMMA HandBackIs ==
    ASSUME NEW N \in Nat, NEW D, NEW V, NEW out \in [1..N -> Reads(D, V)]
    PROVE  \E f \in [0..N -> [D -> Seq(V)]] : HandsBack(f, N, D, out)
<1>0. out \in [1..N -> [of : D, read : V]]
  BY DEF Reads
<1> DEFINE X == [D -> Seq(V)]
           base == [b \in D |-> <<>>]
           F == CHOOSE F : F = [T \in SUBSET (DOMAIN out) |->
                    IF T = {} THEN [b \in D |-> <<>>]
                    ELSE [F[T \ {Max(T)}] EXCEPT ![out[Max(T)].of] = Append(@, out[Max(T)].read)]]
           G == [k \in 1..N |-> [v \in X |-> [v EXCEPT ![out[k].of] = Append(@, out[k].read)]]]
<1>1. HandBack(out, D) = F[DOMAIN out]
  BY Zenon DEF HandBack, FoldLeft, MapThenFoldSet
<1>2. PICK it : FoldsOver(N, X, base, G, it)
  <2>1. G \in [1..N -> [X -> X]]
    BY <1>0
  <2>2. base \in X
    OBVIOUS
  <2> HIDE DEF G, X, base
  <2> QED BY <2>1, <2>2, FoldExists, Zenon
<1>3. it = [T \in SUBSET (DOMAIN out) |->
                    IF T = {} THEN [b \in D |-> <<>>]
                    ELSE [it[T \ {Max(T)}] EXCEPT ![out[Max(T)].of] = Append(@, out[Max(T)].read)]]
  <2>1. ASSUME NEW T \in SUBSET (1..N), T # {}
        PROVE  it[T] = [it[T \ {Max(T)}] EXCEPT ![out[Max(T)].of] = Append(@, out[Max(T)].read)]
    <3>1. Max(T) \in 1..N
      BY <2>1, MaxInterval
    <3>2. it[T \ {Max(T)}] \in X
      BY <1>2 DEF FoldsOver
    <3>3. it[T] = G[Max(T)][it[T \ {Max(T)}]]
      BY <1>2, <2>1 DEF FoldsOver
    <3> HIDE DEF X
    <3> QED BY <3>1, <3>2, <3>3, Zenon
  <2> HIDE DEF G, X
  <2> QED BY <1>2, <2>1 DEF FoldsOver
<1>4. F = [T \in SUBSET (1..N) |->
                    IF T = {} THEN [b \in D |-> <<>>]
                    ELSE [F[T \ {Max(T)}] EXCEPT ![out[Max(T)].of] = Append(@, out[Max(T)].read)]]
  BY <1>3, Zenon
<1> DEFINE f == [k \in 0..N |-> F[1..k]]
<1> HIDE DEF F, G
<1>5. f[0] = [b \in D |-> <<>>]
  BY <1>4
<1>6. \A k \in 1..N : f[k] = [f[k - 1] EXCEPT ![out[k].of] = Append(@, out[k].read)]
  <2> TAKE k \in 1..N
  <2>0. k \in Nat \ {0} /\ 1..k \in SUBSET (1..N)
    OBVIOUS
  <2>1. 1..k # {} /\ Max(1..k) = k /\ (1..k) \ {Max(1..k)} = 1..(k - 1)
    BY <2>0, Initial
  <2> DEFINE m == Max(1..k)
             U == (1..k) \ {m}
  <2>2. F[1..k] = [F[U] EXCEPT ![out[m].of] = Append(@, out[m].read)]
    BY <1>4, <2>0, <2>1, Zenon
  <2>3. m = k /\ U = 1..(k - 1)
    BY <2>1
  <2>4. f[k] = F[1..k] /\ f[k - 1] = F[1..(k - 1)]
    OBVIOUS
  <2> HIDE DEF m, U, f
  <2> QED BY <2>2, <2>3, <2>4
<1>7. f \in [0..N -> X]
  <2>1. \A k \in 1..N : f[k - 1] \in X => f[k] \in X
    <3> DEFINE Put(v, k) == [v EXCEPT ![out[k].of] = Append(@, out[k].read)]
    <3>1. \A k \in 1..N : f[k] = Put(f[k - 1], k)
      BY <1>6
    <3>2. \A k \in 1..N : \A v \in X : Put(v, k) \in X
      BY <1>0
    <3> HIDE DEF f, X, Put
    <3> QED BY <3>1, <3>2
  <2>2. f = [k \in 0..N |-> f[k]] /\ f[0] \in X
    <3>1. [b \in D |-> <<>>] \in X
      OBVIOUS
    <3> HIDE DEF X
    <3> QED BY <1>5, <3>1, Zenon
  <2> HIDE DEF f, X
  <2> QED BY <2>1, <2>2, TypeBySteps
<1>8. HandBack(out, D) = f[N]
  BY <1>1
<1> HIDE DEF f
<1>9. HandsBack(f, N, D, out)
  BY <1>5, <1>6, <1>8, Zenon DEF HandsBack
<1> QED BY <1>7, <1>9

\* Sequences over S are flattened to one over S.
LEMMA FlattenType ==
    ASSUME NEW S, NEW N \in Nat, NEW ss \in [1..N -> Seq(S)]
    PROVE  FlattenSeq(ss) \in Seq(S)
<1>1. FlattenSeq(Prefix(ss, N)) \in Seq(S) /\ Prefix(ss, N) = ss
  <2>1. N \in 0..N
    OBVIOUS
  <2> QED BY <2>1, FlattenSteps
<1> QED BY <1>1

\* A prefix is what SubSeq cuts off.
LEMMA PrefixIs ==
    ASSUME NEW S, NEW ss \in Seq(S), NEW k \in 0..Len(ss)
    PROVE  SubSeq(ss, 1, k) = Prefix(ss, k)
BY DEF Prefix

-----------------------------------------------------------------------------
(* kev's encoder                                                            *)

\* Every word there is: the clients', and those of the layouts.
Strings ==
    Words \cup Delimiters
    \cup {"pad", "<", "marker", ">", ":", "no", "yes", "false", "true",
          "level", "statement", "noul", "choice", "score"}
    \cup {"[MASK]", "[CLS]", "[SEP]", "question:"}
    \cup {"State:", "Question:", "Options:", "Return", "No", "Yes", "choose"}
Lines == Seq(Strings)
Plain == Strings \ Delimiters

\* What clients write is spelled with words of the layouts' alphabet.
LEMMA TextIsLine ==
    ASSUME NEW text \in Texts
    PROVE  text \in Lines
<1> QED BY SeqMonotonic DEF Texts, Lines, Strings

\* No delimiter is left in what a client wrote.
LEMMA UserTokensPlain ==
    ASSUME NEW text \in Lines
    PROVE  UserTokens(text) \in Seq(Plain)
<1> DEFINE ss == [i \in DOMAIN text |->
                    IF text[i] \in Delimiters THEN <<"<", "marker", ">">> ELSE <<text[i]>>]
           N == Len(text)
<1>1. N \in Nat /\ DOMAIN text = 1..N /\ \A i \in 1..N : text[i] \in Strings
  BY DEF Lines
<1>2. <<"<", "marker", ">">> \in Seq(Plain)
  BY DEF Plain, Delimiters, Strings
<1>3. \A i \in 1..N : text[i] \notin Delimiters => <<text[i]>> \in Seq(Plain)
  BY <1>1 DEF Plain
<1>4. ss \in [1..N -> Seq(Plain)]
  BY <1>1, <1>2, <1>3, Zenon
<1> HIDE DEF ss, N
<1> QED BY <1>1, <1>4, FlattenType DEF UserTokens, ss

KevQuestions == [instr : Lines, options : Seq(Lines)]

\* Plain words and single delimiters are lines.
LEMMA PlainIsText ==
    /\ Seq(Plain) \subseteq Lines
    /\ \A d \in Delimiters : <<d>> \in Lines
<1>1. Plain \subseteq Strings /\ Delimiters \subseteq Strings
  BY DEF Plain, Strings
<1>2. ASSUME NEW s \in Seq(Plain) PROVE s \in Seq(Strings)
  BY <1>1, SeqMonotonic
<1> QED BY <1>1, <1>2 DEF Lines

\* Lines are closed under concatenation.
LEMMA TextConcat ==
    ASSUME NEW s \in Lines, NEW t \in Lines
    PROVE  s \o t \in Lines /\ Len(s \o t) = Len(s) + Len(t)
BY DEF Lines

\* The state's tokens, at least <state> itself.
LEMMA StateIdsType ==
    ASSUME NEW state \in Lines
    PROVE  StateIds(state) \in Lines /\ Len(StateIds(state)) \in Nat \ {0}
<1>1. UserTokens(state) \in Lines
  BY UserTokensPlain, PlainIsText
<1>2. MaxState \in Nat \ {0}
  BY KevAssumption
<1>3. Cut(UserTokens(state), MaxState - 1) \in Lines
  <2> DEFINE u == UserTokens(state)
             n == IF MaxState - 1 < Len(u) THEN MaxState - 1 ELSE Len(u)
  <2>1. n \in 0..Len(u)
    BY <1>1, <1>2 DEF Lines
  <2> HIDE DEF n
  <2> QED BY <1>1, <2>1, SubSeqProperties DEF Cut, n, Lines
<1> QED BY <1>3, TextConcat, PlainIsText DEF StateIds, Lines, Delimiters

\* The instructions' tokens, at least <q> itself.
LEMMA InstructionsType ==
    ASSUME NEW q \in KevQuestions
    PROVE  Instructions(q) \in Lines /\ Len(Instructions(q)) \in Nat \ {0}
<1>1. UserTokens(q.instr) \in Lines
  BY UserTokensPlain, PlainIsText, Zenon DEF KevQuestions
<1> QED BY <1>1, TextConcat, PlainIsText DEF Instructions, Lines, Delimiters

\* A span is the option between its two delimiters.
LEMMA SpanType ==
    ASSUME NEW option \in Lines
    PROVE  Span(option) \in Lines /\ Len(Span(option)) = Len(UserTokens(option)) + 2
<1>1. UserTokens(option) \in Lines
  BY UserTokensPlain, PlainIsText
<1>2. <<"<opt>">> \in Lines /\ <<"</opt>">> \in Lines
  BY PlainIsText DEF Delimiters
<1> QED BY <1>1, <1>2, TextConcat DEF Lines, Span

\* One span per option.
LEMMA SpansType ==
    ASSUME NEW q \in KevQuestions
    PROVE  /\ Len(q.options) \in Nat /\ DOMAIN q.options = 1..Len(q.options)
           /\ Spans(q) \in [1..Len(q.options) -> Lines]
           /\ \A j \in 1..Len(q.options) : Spans(q)[j] = Span(q.options[j])
<1> QED BY SpanType DEF Spans, KevQuestions

\* What the spans before the j-th take.
LEMMA SpansBeforeIs ==
    ASSUME NEW q \in KevQuestions, NEW j \in 1..(Len(q.options) + 1)
    PROVE  SpansBefore(q, j) = Len(FlattenSeq(Prefix(Spans(q), j - 1)))
           /\ SpansBefore(q, j) \in Nat
<1> DEFINE ss == Spans(q)
           K == Len(q.options)
<1>1. K \in Nat /\ ss \in [1..K -> Seq(Strings)]
  BY SpansType DEF Lines
<1> HIDE DEF ss, K
<1>2. ss \in Seq(Seq(Strings)) /\ Len(ss) = K
  BY <1>1
<1>3. j - 1 \in 0..K
  BY <1>1 DEF K
<1>7. Len(FlattenSeq(Prefix(ss, j - 1))) \in Nat
  BY <1>3, <1>1, FlattenSteps
<1> QED BY <1>7, <1>2, <1>3, PrefixIs DEF SpansBefore, ss

\* A branch is a line, and never empty.
LEMMA BranchType ==
    ASSUME NEW q \in KevQuestions
    PROVE  Branch(q) \in Lines /\ Len(Branch(q)) \in Nat \ {0}
<1>2. FlattenSeq(Spans(q)) \in Lines
  BY FlattenType, SpansType DEF Lines
<1> QED BY <1>2, InstructionsType, TextConcat, PlainIsText DEF Branch, Lines, Delimiters

Tokens == [id : Strings, seg : Int, pos : Int, opt : Int]

\* Tokens that spell `ids`, of one segment, at positions that follow each other.
Laid(tokens, ids, k, p0) ==
    /\ tokens \in Seq(Tokens) /\ Len(tokens) = Len(ids)
    /\ \A i \in 1..Len(ids) : /\ tokens[i].id = ids[i]
                              /\ tokens[i].seg = k
                              /\ tokens[i].pos = p0 + i - 1

\* A piece is laid out from the position it is given.
LEMMA PieceLaid ==
    ASSUME NEW ids \in Lines, NEW k \in Int, NEW p0 \in Int, NEW opt \in Int
    PROVE  Laid(Piece(ids, k, p0, opt), ids, k, p0)
<1>1. Len(ids) \in Nat /\ DOMAIN ids = 1..Len(ids) /\ \A i \in 1..Len(ids) : ids[i] \in Strings
  BY DEF Lines
<1>3. Piece(ids, k, p0, opt) \in Seq(Tokens) /\ Len(Piece(ids, k, p0, opt)) = Len(ids)
  BY <1>1 DEF Piece, Tokens
<1>4. \A i \in 1..Len(ids) : Piece(ids, k, p0, opt)[i] =
          [id |-> ids[i], seg |-> k, pos |-> p0 + i - 1, opt |-> opt]
  BY <1>1, Zenon DEF Piece
<1>5. \A i \in 1..Len(ids) : /\ Piece(ids, k, p0, opt)[i].id = ids[i]
                              /\ Piece(ids, k, p0, opt)[i].seg = k
                              /\ Piece(ids, k, p0, opt)[i].pos = p0 + i - 1
  <2> TAKE i \in 1..Len(ids)
  <2> DEFINE t == Piece(ids, k, p0, opt)
             x == ids[i]
             y == p0 + i - 1
  <2>1. t[i] = [id |-> x, seg |-> k, pos |-> y, opt |-> opt]
    BY <1>4
  <2> HIDE DEF t, x, y
  <2> QED BY <2>1 DEF t, x, y
<1> QED BY <1>3, <1>5 DEF Laid

\* Two pieces that follow each other are one.
LEMMA LaidConcat ==
    ASSUME NEW s, NEW t, NEW a \in Lines, NEW b \in Lines, NEW k \in Int, NEW p0 \in Int,
           Laid(s, a, k, p0), Laid(t, b, k, p0 + Len(a))
    PROVE  Laid(s \o t, a \o b, k, p0)
<1>1. s \in Seq(Tokens) /\ t \in Seq(Tokens) /\ Len(s) = Len(a) /\ Len(t) = Len(b)
  BY DEF Laid
<1>2. s \o t \in Seq(Tokens) /\ Len(s \o t) = Len(a) + Len(b) /\ Len(a \o b) = Len(a) + Len(b)
      /\ Len(a) \in Nat /\ Len(b) \in Nat
  BY <1>1 DEF Lines
<1>3. ASSUME NEW i \in 1..(Len(a) + Len(b))
      PROVE  /\ (s \o t)[i].id = (a \o b)[i]
             /\ (s \o t)[i].seg = k
             /\ (s \o t)[i].pos = p0 + i - 1
  <2>1. CASE i <= Len(a)
    BY <1>1, <1>2, <2>1 DEF Lines, Laid
  <2>2. CASE i > Len(a)
    BY <1>1, <1>2, <2>2 DEF Lines, Laid
  <2> QED BY SMTT(40), <1>2, <2>1, <2>2
<1> QED BY <1>2, <1>3 DEF Laid

\* The spans of all options, one behind the other.
LEMMA SpansLaid ==
    ASSUME NEW q \in KevQuestions, NEW k \in Int, NEW start \in Int
    PROVE  Laid(FlattenSeq([j \in DOMAIN q.options |->
                    Piece(Span(q.options[j]), k, start + SpansBefore(q, j), j)]),
                FlattenSeq(Spans(q)), k, start)
<1> DEFINE K == Len(q.options)
           ss == Spans(q)
           tt == [j \in DOMAIN q.options |->
                    Piece(Span(q.options[j]), k, start + SpansBefore(q, j), j)]
           E == {j \in 0..K : Laid(FlattenSeq(Prefix(tt, j)), FlattenSeq(Prefix(ss, j)), k, start)}
<1>1. K \in Nat /\ DOMAIN q.options = 1..K /\ ss \in [1..K -> Seq(Strings)]
      /\ \A j \in 1..K : ss[j] = Span(q.options[j]) /\ ss[j] \in Lines
  BY SpansType DEF Lines
<1>2. ASSUME NEW j \in 1..K
      PROVE  /\ tt[j] \in Seq(Tokens)
             /\ Laid(tt[j], ss[j], k, start + Len(FlattenSeq(Prefix(ss, j - 1))))
  <2>1. j \in 1..(K + 1) /\ j \in Int
    BY <1>1
  <2>2. SpansBefore(q, j) = Len(FlattenSeq(Prefix(ss, j - 1))) /\ SpansBefore(q, j) \in Nat
    BY <2>1, SpansBeforeIs
  <2>4. Laid(Piece(ss[j], k, start + SpansBefore(q, j), j), ss[j], k, start + SpansBefore(q, j))
    BY <1>1, <2>1, PieceLaid, <2>2
  <2>5. tt[j] = Piece(ss[j], k, start + SpansBefore(q, j), j)
    BY <1>1
  <2> HIDE DEF tt, ss
  <2> QED BY <2>2, <2>4, <2>5 DEF Laid
<1>3. tt \in [1..K -> Seq(Tokens)]
  <2>1. tt = [j \in 1..K |-> tt[j]]
    BY <1>1
  <2> HIDE DEF tt
  <2> QED BY <1>2, <2>1
<1> HIDE DEF tt, ss, K
<1>4. /\ FlattenSeq(Prefix(tt, 0)) = <<>>
      /\ \A j \in 1..K : FlattenSeq(Prefix(tt, j)) = FlattenSeq(Prefix(tt, j - 1)) \o tt[j]
      /\ Prefix(tt, K) = tt
  BY <1>1, <1>3, FlattenSteps, ZenonT(40)
<1>5. /\ FlattenSeq(Prefix(ss, 0)) = <<>>
      /\ \A j \in 1..K : FlattenSeq(Prefix(ss, j)) = FlattenSeq(Prefix(ss, j - 1)) \o ss[j]
      /\ \A j \in 0..K : FlattenSeq(Prefix(ss, j)) \in Lines
      /\ Prefix(ss, K) = ss
  BY <1>1, FlattenSteps DEF Lines
<1>6. 0 \in E
  <2>1. Laid(<<>>, <<>>, k, start)
    BY DEF Laid
  <2> QED BY <1>1, <1>4, <1>5, <2>1
<1>7. \A j \in 1..K : j - 1 \in E => j \in E
  <2> SUFFICES ASSUME NEW j \in 1..K, j - 1 \in E PROVE j \in E
    OBVIOUS
  <2>1. Laid(FlattenSeq(Prefix(tt, j - 1)), FlattenSeq(Prefix(ss, j - 1)), k, start)
        /\ FlattenSeq(Prefix(ss, j - 1)) \in Lines
    BY <1>5
  <2>2. Laid(FlattenSeq(Prefix(tt, j - 1)) \o tt[j], FlattenSeq(Prefix(ss, j - 1)) \o ss[j], k, start)
    <3>1. ss[j] \in Lines /\ Laid(tt[j], ss[j], k, start + Len(FlattenSeq(Prefix(ss, j - 1))))
      BY <1>1, <1>2
    <3> DEFINE a == FlattenSeq(Prefix(ss, j - 1))
               s == FlattenSeq(Prefix(tt, j - 1))
    <3>2. a \in Lines /\ Laid(s, a, k, start) /\ Laid(tt[j], ss[j], k, start + Len(a))
      BY <2>1, <3>1
    <3> HIDE DEF a, s
    <3> QED BY <3>1, <3>2, LaidConcat DEF a, s
  <2>3. j \in 0..K
    BY <1>1
  <2> QED BY <1>4, <1>5, <2>2, <2>3
<1> HIDE DEF E
<1>8. K \in E
  <2>1. K \in 0..K
    BY <1>1
  <2> QED BY <1>1, <1>6, <1>7, <2>1, UpTo
<1> QED BY <1>4, <1>5, <1>8 DEF E, tt, ss

\* A branch spells its question, from the position it is given.
LEMMA BranchLaid ==
    ASSUME NEW q \in KevQuestions, NEW k \in Int, NEW p0 \in Int
    PROVE  Laid(BranchTokens(q, k, p0, FALSE), Branch(q), k, p0)
<1> DEFINE I == Instructions(q)
           start == p0 + Len(I)
           spans == FlattenSeq(Spans(q))
           A == Piece(I, k, p0, OPT_NONE)
           B == FlattenSeq([j \in DOMAIN q.options |->
                    Piece(Span(q.options[j]), k, start + SpansBefore(q, j), j)])
           C == Piece(<<"<decide>">>, k, start + SpansBefore(q, Len(q.options) + 1), OPT_DECIDE)
<1>1. BranchTokens(q, k, p0, FALSE) = A \o B \o C
  BY SpansType, SpansBeforeIs DEF BranchTokens
<1>2. I \in Lines /\ Len(I) \in Nat
  BY InstructionsType
<1>3. start \in Int /\ OPT_NONE \in Int /\ OPT_DECIDE \in Int
  BY <1>2 DEF OPT_NONE, OPT_DECIDE
<1>4. spans \in Lines
  BY SpansType, FlattenType DEF Lines
<1>5. Laid(A, I, k, p0)
  BY <1>2, <1>3, PieceLaid
<1>6. Laid(B, spans, k, start)
  BY <1>3, SpansLaid
<1>7. Laid(C, <<"<decide>">>, k, start + Len(spans)) /\ <<"<decide>">> \in Lines
  <2>1. <<"<decide>">> \in Lines
    BY PlainIsText DEF Delimiters
  <2>2. Len(q.options) \in Nat /\ Len(q.options) + 1 \in 1..(Len(q.options) + 1)
    BY SpansType
  <2>3. SpansBefore(q, Len(q.options) + 1) = Len(FlattenSeq(Prefix(Spans(q), (Len(q.options) + 1) - 1)))
        /\ SpansBefore(q, Len(q.options) + 1) \in Nat
    BY <2>2, SpansBeforeIs
  <2>6. SpansBefore(q, Len(q.options) + 1) = Len(spans)
    BY <2>3, SpansType, <2>2 DEF Prefix
  <2>7. start + Len(spans) \in Int
    BY <1>3, <2>3, <2>6
  <2> HIDE DEF start, spans
  <2> QED BY <1>3, <2>1, <2>6, <2>7, PieceLaid
<1> HIDE DEF A, B, C, I, spans
<1>9. I \o spans \in Lines /\ p0 + Len(I \o spans) = start + Len(spans)
  BY <1>2, <1>4, TextConcat DEF Lines
<1> QED BY <1>1, <1>7, <1>9, LaidConcat, <1>2, <1>4, <1>5, <1>6 DEF Branch, I, spans

\* A single sequence is flattened to itself.
LEMMA FlattenOne ==
    ASSUME NEW S, NEW N \in Nat, NEW ss \in [1..N -> Seq(S)]
    PROVE  N = 1 => FlattenSeq(ss) = ss[1]
<1>1. PICK f \in [0..N -> Seq(S)] :
              /\ f[0] = <<>> /\ \A k \in 1..N : f[k] = f[k - 1] \o ss[k]
              /\ FlattenSeq(ss) = f[N]
  BY FlattenIs
<1>2. N = 1 => 1 \in 1..N /\ f[1] = f[0] \o ss[1] /\ ss[1] \in Seq(S)
  BY <1>1, 1 - 1 = 0
<1> QED BY <1>1, <1>2, ConcatEmptySeq

\* Singletons, flattened, are what they hold.
LEMMA FlattenSingles ==
    ASSUME NEW S, NEW N \in Nat, NEW x \in [1..N -> S], NEW ss, ss = [k \in 1..N |-> <<x[k]>>]
    PROVE  FlattenSeq(ss) = x
<1> DEFINE E == {k \in 0..N : FlattenSeq(Prefix(ss, k)) = Prefix(x, k)}
<1>0. \A k \in 1..N : ss[k] = <<x[k]>> /\ <<x[k]>> \in Seq(S)
  OBVIOUS
<1>1. ss \in [1..N -> Seq(S)]
  BY <1>0
<1>2. /\ FlattenSeq(Prefix(ss, 0)) = <<>>
      /\ \A k \in 1..N : FlattenSeq(Prefix(ss, k)) = FlattenSeq(Prefix(ss, k - 1)) \o ss[k]
      /\ Prefix(ss, N) = ss
  BY <1>1, FlattenSteps
<1>3. 0 \in E
  BY <1>2 DEF Prefix
<1>4. \A k \in 1..N : k - 1 \in E => k \in E
  <2> SUFFICES ASSUME NEW k \in 1..N, FlattenSeq(Prefix(ss, k - 1)) = Prefix(x, k - 1)
               PROVE  FlattenSeq(Prefix(ss, k)) = Prefix(x, k)
    OBVIOUS
  <2>1. FlattenSeq(Prefix(ss, k)) = Prefix(x, k - 1) \o <<x[k]>>
    BY <1>0, <1>2
  <2>2. Prefix(x, k - 1) \in Seq(S) /\ Len(Prefix(x, k - 1)) = k - 1 /\ Prefix(x, k) \in Seq(S)
        /\ Len(Prefix(x, k)) = k
    BY DEF Prefix
  <2>3. \A i \in 1..k : (Prefix(x, k - 1) \o <<x[k]>>)[i] = Prefix(x, k)[i]
    BY <2>2 DEF Prefix
  <2>4. Len(Prefix(x, k - 1) \o <<x[k]>>) = k /\ Prefix(x, k - 1) \o <<x[k]>> \in Seq(S)
    BY <2>2
  <2> HIDE DEF E
  <2> QED BY <2>1, <2>2, <2>3, <2>4, SeqEqual
<1> HIDE DEF E
<1>5. N \in E
  <2>1. N \in 0..N
    OBVIOUS
  <2> QED BY <1>3, <1>4, <2>1, UpTo
<1> QED BY <1>2, <1>5 DEF E, Prefix

\* What takes finitely many values has an upper bound.
LEMMA Bounded ==
    ASSUME NEW N \in Nat, NEW f \in [1..N -> Int]
    PROVE  \E b \in Int : \A i \in 1..N : f[i] <= b
<1> DEFINE E == {k \in 0..N : \E b \in Int : \A i \in 1..k : f[i] <= b}
<1>1. 0 \in E
  OBVIOUS
<1>2. \A k \in 1..N : k - 1 \in E => k \in E
  <2> SUFFICES ASSUME NEW k \in 1..N, k - 1 \in E
               PROVE  k \in E
    OBVIOUS
  <2> PICK b \in Int : \A i \in 1..(k - 1) : f[i] <= b
    OBVIOUS
  <2> DEFINE c == IF b < f[k] THEN f[k] ELSE b
  <2>1. c \in Int /\ b <= c /\ f[k] <= c
    OBVIOUS
  <2> HIDE DEF c
  <2>2. \A i \in 1..k : f[i] <= c
    BY <2>1
  <2>3. k \in 0..N /\ \E a \in Int : \A i \in 1..k : f[i] <= a
    <3>1. k \in 0..N
      OBVIOUS
    <3> QED BY <2>1, <2>2, <3>1, Zenon
  <2> QED BY <2>3
<1> HIDE DEF E
<1>3. N \in E
  <2>1. N \in 0..N
    OBVIOUS
  <2> QED BY <1>1, <1>2, <2>1, UpTo
<1> QED BY <1>3 DEF E

\* The largest of finitely many numbers.
LEMMA MaxOfSeq ==
    ASSUME NEW N \in Nat \ {0}, NEW f \in [1..N -> Int]
    PROVE  /\ Max({f[i] : i \in 1..N}) \in {f[i] : i \in 1..N}
           /\ \A i \in 1..N : f[i] <= Max({f[j] : j \in 1..N})
<1> DEFINE U == {f[i] : i \in 1..N}
<1>1. PICK b \in Int : \A i \in 1..N : f[i] <= b
  BY Bounded
<1>2. U \in SUBSET Int /\ U # {} /\ \A s \in U : s <= b
  BY <1>1
<1>3. \A i \in 1..N : f[i] \in U
  OBVIOUS
<1> HIDE DEF U
<1> QED BY <1>3, <1>2, MaxIs DEF U

\* No sequences are flattened to none.
LEMMA FlattenNone ==
    ASSUME NEW ss, DOMAIN ss = {}, Len(ss) = 0
    PROVE  FlattenSeq(ss) = <<>>
BY DEF FlattenSeq

\* What a concatenation is, place by place.
LEMMA ConcatIs ==
    ASSUME NEW S, NEW s \in Seq(S), NEW t \in Seq(S)
    PROVE  /\ s \o t \in Seq(S) /\ Len(s \o t) = Len(s) + Len(t)
           /\ \A i \in 1..Len(s) : (s \o t)[i] = s[i]
           /\ \A i \in 1..Len(t) : (s \o t)[Len(s) + i] = t[i]
BY ConcatProperties

KevRow(state, q) == StateIds(state) \o Branch(q)
KevEnd(state, q, j) == Len(StateIds(state)) + Len(Instructions(q)) + SpansBefore(q, j + 1)

\* An option ends inside the branch.
LEMMA KevEndIs ==
    ASSUME NEW state \in Lines, NEW q \in KevQuestions, NEW j \in 1..Len(q.options)
    PROVE  /\ KevRow(state, q) \in Lines
           /\ Len(KevRow(state, q)) = Len(StateIds(state)) + Len(Branch(q))
           /\ KevEnd(state, q, j) \in 1..Len(KevRow(state, q))
<1> DEFINE S == StateIds(state)
           I == Instructions(q)
           ss == Spans(q)
           K == Len(q.options)
<1>1. S \in Lines /\ Len(S) \in Nat \ {0}
  BY StateIdsType
<1>2. I \in Lines /\ Len(I) \in Nat \ {0}
  BY InstructionsType
<1>4. KevRow(state, q) \in Lines /\ Len(KevRow(state, q)) = Len(S) + Len(Branch(q))
  BY <1>1, TextConcat, BranchType DEF KevRow
<1>5. K \in Nat /\ ss \in [1..K -> Seq(Strings)]
  BY SpansType DEF Lines
<1>6. j + 1 \in 1..(K + 1) /\ (j + 1) - 1 = j /\ j \in 0..K
  BY <1>5
<1>7. SpansBefore(q, j + 1) = Len(FlattenSeq(Prefix(ss, j))) /\ SpansBefore(q, j + 1) \in Nat
  BY <1>6, SpansBeforeIs
<1>8. Len(FlattenSeq(Prefix(ss, j))) <= Len(FlattenSeq(ss)) /\ FlattenSeq(ss) \in Lines
  <2> HIDE DEF ss, K
  <2> DEFINE len(m) == Len(FlattenSeq(Prefix(ss, m)))
             E == {m \in 0..K : j <= m => len(j) <= len(m)}
  <2>1. \A m \in 0..K : FlattenSeq(Prefix(ss, m)) \in Seq(Strings)
    BY <1>5, FlattenSteps
  <2>2. /\ \A m \in 1..K : FlattenSeq(Prefix(ss, m)) = FlattenSeq(Prefix(ss, m - 1)) \o ss[m]
        /\ Prefix(ss, K) = ss
    BY <1>5, FlattenSteps
  <2>3. \A m \in 0..K : len(m) \in Nat
    BY <2>1
  <2>4. \A m \in 1..K : len(m - 1) <= len(m)
    <3> TAKE m \in 1..K
    <3>1. FlattenSeq(Prefix(ss, m)) = FlattenSeq(Prefix(ss, m - 1)) \o ss[m]
          /\ FlattenSeq(Prefix(ss, m - 1)) \in Seq(Strings) /\ ss[m] \in Seq(Strings)
      BY <1>5, <2>1, <2>2
    <3> DEFINE a == FlattenSeq(Prefix(ss, m - 1))
               b == ss[m]
    <3>2. a \in Seq(Strings) /\ b \in Seq(Strings) /\ len(m) = Len(a \o b) /\ len(m - 1) = Len(a)
      BY <3>1
    <3> HIDE DEF a, b, len
    <3> QED BY <3>2, ConcatIs
  <2> HIDE DEF len
  <2>5. 0 \in E
    BY <1>5, <1>6, <2>3
  <2>6. \A m \in 1..K : m - 1 \in E => m \in E
    <3> SUFFICES ASSUME NEW m \in 1..K, m - 1 \in E, j <= m PROVE len(j) <= len(m)
      OBVIOUS
    <3>1. CASE j = m
      BY <1>6, <2>3, <3>1
    <3>2. CASE j # m
      BY <1>5, <1>6, <3>2, <2>3, <2>4
    <3> QED BY <3>1, <3>2
  <2> HIDE DEF E
  <2>7. K \in E /\ K \in 0..K
    <3>1. \A m \in 0..K : m \in E
      BY <1>5, <2>5, <2>6, UpTo
    <3> QED BY <1>5, <3>1
  <2> QED BY <2>1, <2>2, <2>7, <1>6 DEF len, Lines, E
<1>9. Len(Branch(q)) = Len(I) + Len(FlattenSeq(ss)) + 1
  BY PlainIsText, <1>2, <1>8, TextConcat DEF Delimiters, Branch
<1>10. Len(FlattenSeq(ss)) \in Nat
  BY <1>8 DEF Lines
<1> HIDE DEF S, I, ss
<1> QED BY <1>1, <1>2, <1>4, <1>7, <1>8, <1>9, <1>10 DEF KevEnd, S, I

Spells(enc, state, q) ==
    /\ enc.tokens \in Seq(Tokens)
    /\ Len(enc.tokens) = Len(KevRow(state, q))
    /\ \A i \in 1..Len(KevRow(state, q)) :
          /\ enc.tokens[i].id = KevRow(state, q)[i]
          /\ enc.tokens[i].seg = IF i <= Len(StateIds(state)) THEN 0 ELSE 1
          /\ enc.tokens[i].pos = i - 1
    /\ enc.decide = [k \in 1..1 |-> Len(KevRow(state, q))]
    /\ enc.opts = [k \in 1..1 |-> [j \in 1..Len(q.options) |-> KevEnd(state, q, j)]]

\* What encode makes of one question spells its row.
LEMMA EncodedOne ==
    ASSUME NEW state \in Lines, NEW q \in KevQuestions
    PROVE  Spells(Encode([state |-> state, questions |-> <<q>>], FALSE), state, q)
<1> DEFINE enc == Encode([state |-> state, questions |-> <<q>>], FALSE)
<1> DEFINE S == StateIds(state)
           B == Branch(q)
           row == KevRow(state, q)
           A == Piece(S, 0, 0, OPT_NONE)
           T == BranchTokens(q, 1, Len(S), FALSE)
<1>1. S \in Lines /\ Len(S) \in Nat \ {0} /\ B \in Lines /\ Len(B) \in Nat \ {0}
  BY StateIdsType, BranchType
<1>2. row = S \o B /\ row \in Lines /\ Len(row) = Len(S) + Len(B)
  BY <1>1, TextConcat DEF KevRow
<1>3. Laid(A, S, 0, 0)
  BY <1>1, PieceLaid DEF OPT_NONE
<1>4. Laid(T, B, 1, Len(S))
  <2>1. Len(S) \in Int /\ 1 \in Int
    BY <1>1
  <2> QED BY <2>1, BranchLaid, Zenon
<1>5. FlattenSeq([k \in 1..1 |-> BranchTokens(<<q>>[k], k, Len(S), FALSE)]) = T
  <2> DEFINE N == 1
             tt == [k \in 1..N |-> BranchTokens(<<q>>[k], k, Len(S), FALSE)]
  <2>0. N \in Nat /\ N = 1 /\ 1 \in 1..N /\ <<q>>[1] = q /\ \A k \in 1..N : k = 1
    OBVIOUS
  <2> HIDE DEF N
  <2>1. tt[1] = T
    BY <2>0
  <2>2. T \in Seq(Tokens)
    BY <1>4 DEF Laid
  <2> HIDE DEF T
  <2>3. tt \in [1..N -> Seq(Tokens)]
    BY <2>0, <2>1, <2>2
  <2> HIDE DEF tt
  <2> QED BY <2>0, <2>1, <2>3, FlattenOne DEF tt, N
<1>6. enc.tokens = A \o T
  <2>1. enc.tokens = A \o FlattenSeq([k \in DOMAIN <<q>> |->
                                          BranchTokens(<<q>>[k], k, Len(S), FALSE)])
    BY Zenon DEF Encode
  <2>2. DOMAIN <<q>> = 1..1
    OBVIOUS
  <2> HIDE DEF A, T, S
  <2> QED BY <1>5, <2>1, <2>2
<1>7. Len(FlattenSeq([m \in 1..(1 - 1) |-> Branch(<<q>>[m])])) = 0
  BY FlattenNone
<1>8. enc.decide = [k \in 1..1 |-> Len(row)]
  <2> DEFINE start(k) == Len(S) + Len(FlattenSeq([m \in 1..(k - 1) |-> Branch(<<q>>[m])]))
  <2>1. enc.decide = [k \in DOMAIN <<q>> |-> start(k) + Len(Branch(<<q>>[k]))]
    BY Zenon DEF Encode
  <2>2. start(1) = Len(S)
    BY <1>1, <1>7
  <2> HIDE DEF start, S, B, row
  <2>3. DOMAIN <<q>> = 1..1 /\ <<q>>[1] = q
    OBVIOUS
  <2>4. start(1) + Len(Branch(<<q>>[1])) = Len(row)
    BY <1>2, <2>2, <2>3 DEF B
  <2>5. \A k \in 1..1 : start(k) + Len(Branch(<<q>>[k])) = Len(row)
    BY <2>4, \A k \in 1..1 : k = 1, Zenon
  <2> QED BY <2>1, <2>3, <2>5, Zenon
<1>9. enc.opts = [k \in 1..1 |-> [j \in 1..Len(q.options) |-> KevEnd(state, q, j)]]
  <2> DEFINE start(k) == Len(S) + Len(FlattenSeq([m \in 1..(k - 1) |-> Branch(<<q>>[m])]))
  <2>1. enc.opts = [k \in DOMAIN <<q>> |-> [j \in DOMAIN <<q>>[k].options |->
                        start(k) + Len(Instructions(<<q>>[k])) + SpansBefore(<<q>>[k], j + 1)]]
    BY Zenon DEF Encode
  <2>2. start(1) = Len(S)
    BY <1>1, <1>7
  <2> HIDE DEF start
  <2>3. DOMAIN <<q>> = 1..1 /\ <<q>>[1] = q /\ DOMAIN q.options = 1..Len(q.options)
    BY SpansType
  <2>4. [j \in DOMAIN <<q>>[1].options |->
            start(1) + Len(Instructions(<<q>>[1])) + SpansBefore(<<q>>[1], j + 1)]
         = [j \in 1..Len(q.options) |-> KevEnd(state, q, j)]
    BY <2>2, <2>3 DEF KevEnd
  <2>5. \A k \in 1..1 : [j \in DOMAIN <<q>>[k].options |->
            start(k) + Len(Instructions(<<q>>[k])) + SpansBefore(<<q>>[k], j + 1)]
         = [j \in 1..Len(q.options) |-> KevEnd(state, q, j)]
    BY <2>4, \A k \in 1..1 : k = 1, Zenon
  <2> QED BY <2>1, <2>3, <2>5, Zenon
<1> HIDE DEF S, B, A, T, row, enc
<1>10. A \in Seq(Tokens) /\ T \in Seq(Tokens) /\ Len(A) = Len(S) /\ Len(T) = Len(B)
  BY <1>3, <1>4 DEF Laid
<1>11. enc.tokens \in Seq(Tokens) /\ Len(enc.tokens) = Len(row)
  <2>1. A \o T \in Seq(Tokens) /\ Len(A \o T) = Len(A) + Len(T)
    BY <1>10, ConcatIs
  <2> QED BY <1>2, <1>6, <1>10, <2>1
<1>12. ASSUME NEW i \in 1..Len(row)
       PROVE  /\ enc.tokens[i].id = row[i]
              /\ enc.tokens[i].seg = IF i <= Len(S) THEN 0 ELSE 1
              /\ enc.tokens[i].pos = i - 1
  <2>1. CASE i <= Len(S)
    BY <1>1, <1>2, <2>1, <1>10, ConcatIs, <1>6, <1>3 DEF Lines, Laid
  <2>2. CASE i > Len(S)
    <3>1. enc.tokens[i] = T[i - Len(S)] /\ row[i] = B[i - Len(S)] /\ i - Len(S) \in 1..Len(B)
      BY <1>1, <1>2, <2>2, <1>10, ConcatIs, <1>6 DEF Lines
    <3>2. /\ T[i - Len(S)].id = B[i - Len(S)] /\ T[i - Len(S)].seg = 1
          /\ T[i - Len(S)].pos = Len(S) + (i - Len(S)) - 1
      BY <1>4, <3>1, Zenon DEF Laid
    <3>3. Len(S) + (i - Len(S)) - 1 = i - 1 /\ ~ (i <= Len(S))
      BY <1>1, <1>2, <2>2
    <3> QED BY <3>1, <3>2, <3>3, Zenon
  <2>3. i <= Len(S) \/ i > Len(S)
    BY <1>1, <1>2
  <2> QED BY <2>1, <2>2, <2>3, Zenon
<1> QED BY <1>8, <1>9, <1>11, <1>12 DEF S, row, enc, Spells

\* The tokens of a row: a state in segment 0, one question in another.
KevTokens(tokens, row, n0) ==
    /\ row \in Lines /\ tokens \in Seq(Tokens) /\ Len(tokens) = Len(row)
    /\ n0 \in Nat
    /\ \A i \in 1..Len(row) : tokens[i].id = row[i] /\ tokens[i].pos = i - 1
    /\ \E k \in Nat \ {0} : \A i \in 1..Len(row) : tokens[i].seg = IF i <= n0 THEN 0 ELSE k

FirstOf(row, n) == {<<row[m], m - 1>> : m \in 1..n}

PadIs ==
    \A N \in Nat \ {0} : \A rows \in [1..N -> Seq(Tokens)] :
        /\ DOMAIN PadRows(rows) = 1..N
        /\ \A b \in 1..N : \E p \in Seq(Tokens) : PadRows(rows)[b] = rows[b] \o p

\* What is padded starts with what was there.
LEMMA Padding == PadIs
<1> SUFFICES ASSUME NEW N \in Nat \ {0}, NEW rows \in [1..N -> Seq(Tokens)]
             PROVE  /\ DOMAIN PadRows(rows) = 1..N
                    /\ \A b \in 1..N : \E p \in Seq(Tokens) : PadRows(rows)[b] = rows[b] \o p
  BY DEF PadIs
<1> DEFINE f == [b \in 1..N |-> Len(rows[b])]
           Longest == Max({Len(rows[b]) : b \in DOMAIN rows})
           L == ((Longest + Bucket - 1) \div Bucket) * Bucket
           pads(b) == [i \in 1..(L - Len(rows[b])) |-> PadToken]
<1>1. f \in [1..N -> Int]
  OBVIOUS
<1>2. Max({f[b] : b \in 1..N}) \in {f[b] : b \in 1..N}
  <2> HIDE DEF f
  <2> QED BY <1>1, MaxOfSeq
<1>3. {f[b] : b \in 1..N} = {Len(rows[b]) : b \in DOMAIN rows}
  OBVIOUS
<1>4. Longest \in Nat
  BY <1>2, <1>3
<1>5. Bucket \in Nat \ {0}
  BY KevAssumption
<1>6. L \in Int
  <2> HIDE DEF Longest
  <2> QED BY <1>4, <1>5
<1>7. PadToken \in Tokens
  BY DEF PadToken, Tokens, Strings, OPT_NONE
<1>8. PadRows(rows) = [b \in 1..N |-> rows[b] \o pads(b)]
  BY DEF PadRows
<1> HIDE DEF L
<1>9. \A b \in 1..N : pads(b) \in Seq(Tokens)
  <2> TAKE b \in 1..N
  <2>1. L - Len(rows[b]) \in Int
    BY <1>6
  <2> DEFINE d == L - Len(rows[b])
  <2> HIDE DEF d
  <2>2. [i \in 1..d |-> PadToken] \in Seq(Tokens)
    <3>1. CASE d >= 0
      BY <2>1, <3>1, <1>7 DEF d
    <3>2. CASE d < 0
      BY <2>1, <3>2, <1>7 DEF d
    <3> QED BY <2>1, <3>1, <3>2 DEF d
  <2> QED BY <2>2 DEF d
<1> HIDE DEF pads
<1> QED BY <1>8, <1>9

\* A causal row is seen from a place up to that place, and nothing of the padding.
LEMMA CausalSeen ==
    ASSUME NEW tokens, NEW row, NEW n0, KevTokens(tokens, row, n0),
           NEW p \in Seq(Tokens), NEW sees,
           \A i \in 1..Len(row) : sees[i] = 1..(i - 1),
           NEW n \in 1..Len(row)
    PROVE  Seen(tokens \o p, n, sees) = FirstOf(row, n)
<1> DEFINE padded == tokens \o p
<1>1. tokens \in Seq(Tokens) /\ Len(tokens) = Len(row) /\ Len(row) \in Nat
  BY DEF KevTokens, Lines
<1>2. n \in Nat \ {0}
  BY <1>1
<1>3. \A i \in 1..n : i \in 1..Len(row)
  BY <1>1
<1>5. n \in 1..n /\ sees[n] = 1..(n - 1)
  BY <1>2, <1>3
<1>6. \A m \in sees[n] : sees[m] \subseteq sees[n]
  BY <1>2, <1>3, <1>5
<1>7. Reach(n, sees) = {n} \union sees[n]
  BY <1>2, <1>6, ReachTransitive, <1>3
<1>8. Reach(n, sees) = 1..n
  BY <1>2, <1>5, <1>7
<1>9. \A m \in 1..n : padded[m].id = row[m] /\ padded[m].pos = m - 1
  BY <1>1, <1>3, ConcatIs DEF KevTokens
<1>10. Seen(padded, n, sees) = {<<padded[m].id, padded[m].pos>> : m \in 1..n}
  BY <1>8 DEF Seen
<1> HIDE DEF padded
<1> QED BY <1>9, <1>10 DEF FirstOf, padded

KevReading(row, ends) ==
    [j \in DOMAIN ends |-> [decide |-> FirstOf(row, Len(row)), option |-> FirstOf(row, ends[j])]]

\* Behind any padding, a causal row is read as the reading of the row.
LEMMA CausalReadout ==
    ASSUME NEW tokens, NEW row, NEW n0, KevTokens(tokens, row, n0), Len(row) # 0,
           NEW p \in Seq(Tokens), NEW sees,
           \A i \in 1..Len(row) : sees[i] = 1..(i - 1),
           NEW opts, \A j \in DOMAIN opts : opts[j] \in 1..Len(row)
    PROVE  Readout(tokens \o p, Len(row), opts, sees) = KevReading(row, opts)
<1>1. Len(row) \in 1..Len(row)
  BY DEF KevTokens, Lines
<1>2. \A n \in 1..Len(row) : Seen(tokens \o p, n, sees) = FirstOf(row, n)
  BY CausalSeen
<1> QED BY <1>1, <1>2, Zenon DEF Readout, KevReading

\* Under the branch mask a single question sees the state and itself.
LEMMA PackedSees ==
    ASSUME NEW tokens, NEW row, NEW n0, KevTokens(tokens, row, n0),
           NEW p \in Seq(Tokens), NEW i \in 1..Len(row)
    PROVE  /\ i \in DOMAIN (tokens \o p)
           /\ {j \in 1..(i - 1) : Attends(tokens \o p, i, j, FALSE)} = 1..(i - 1)
<1> DEFINE padded == tokens \o p
<1>1. tokens \in Seq(Tokens) /\ Len(tokens) = Len(row) /\ Len(row) \in Nat /\ n0 \in Nat
  BY DEF KevTokens, Lines
<1>k. PICK k \in Nat \ {0} : \A m \in 1..Len(row) : tokens[m].seg = IF m <= n0 THEN 0 ELSE k
  BY Zenon DEF KevTokens
<1>2. \A m \in 1..Len(row) : padded[m].seg = IF m <= n0 THEN 0 ELSE k
  BY <1>1, ConcatIs, <1>k
<1>3. i \in DOMAIN padded
  <2>1. padded \in Seq(Tokens) /\ Len(padded) = Len(tokens) + Len(p)
    BY <1>1, ConcatIs
  <2>2. Len(p) \in Nat
    OBVIOUS
  <2> HIDE DEF padded
  <2> QED BY <1>1, <2>1, <2>2
<1> HIDE DEF padded
<1>4. ASSUME NEW j \in 1..(i - 1) PROVE Attends(padded, i, j, FALSE)
  BY <1>1, <1>2 DEF Attends
<1> QED BY <1>3, <1>4 DEF padded

\* Under the attention mask alone every place sees all before it.
LEMMA RowSees ==
    ASSUME NEW tokens, NEW row, NEW n0, KevTokens(tokens, row, n0),
           NEW p \in Seq(Tokens), NEW i \in 1..Len(row)
    PROVE  /\ i \in DOMAIN (tokens \o p)
           /\ {j \in 1..(i - 1) : (tokens \o p)[j].seg # -1} = 1..(i - 1)
<1> DEFINE padded == tokens \o p
<1>1. tokens \in Seq(Tokens) /\ Len(tokens) = Len(row) /\ Len(row) \in Nat /\ n0 \in Nat
  BY DEF KevTokens, Lines
<1>k. PICK k \in Nat \ {0} : \A m \in 1..Len(row) : tokens[m].seg = IF m <= n0 THEN 0 ELSE k
  BY Zenon DEF KevTokens
<1>2. \A m \in 1..Len(row) : padded[m].seg = IF m <= n0 THEN 0 ELSE k
  BY <1>1, ConcatIs, <1>k
<1>3. i \in DOMAIN padded
  BY PackedSees
<1> HIDE DEF padded
<1> QED BY <1>3, <1>2, <1>1 DEF padded

\* A record of one question, encoded: read at its end and at the ends of its options.
Encodes(enc, row, n0, ends) ==
    /\ KevTokens(enc.tokens, row, n0) /\ Len(row) # 0 /\ n0 <= Len(row)
    /\ enc.decide = [k \in 1..1 |-> Len(row)]
    /\ enc.opts = [k \in 1..1 |-> ends]
    /\ \A j \in DOMAIN ends : ends[j] \in 1..Len(row)

EncodesAll(encs, N, rows, n0, ends) ==
    DOMAIN encs = 1..N /\ \A b \in 1..N : Encodes(encs[b], rows[b], n0[b], ends[b])

AllRead(readings, N, rows, ends) ==
    \A b \in 1..N : readings[b][1] = KevReading(rows[b], ends[b])

\* In a packed batch every record is read as its own row is.
LEMMA PackedReads ==
    ASSUME NEW N \in Nat \ {0}, NEW encs, NEW rows, NEW n0, NEW ends,
           EncodesAll(encs, N, rows, n0, ends)
    PROVE  AllRead(ForwardPacked(encs, FALSE), N, rows, ends)
<1> SUFFICES ASSUME NEW b \in 1..N
             PROVE  ForwardPacked(encs, FALSE)[b][1] = KevReading(rows[b], ends[b])
  BY Zenon DEF AllRead
<1> DEFINE tt == [a \in 1..N |-> encs[a].tokens]
           padded == PadRows(tt)
           sees == [i \in DOMAIN padded[b] |->
                            {j \in 1..(i - 1) : Attends(padded[b], i, j, FALSE)}]
<1>0. DOMAIN encs = 1..N /\ \A a \in 1..N : Encodes(encs[a], rows[a], n0[a], ends[a])
  BY DEF EncodesAll
<1> USE <1>0
<1>1. tt \in [1..N -> Seq(Tokens)]
  BY DEF Encodes, KevTokens
<1>2. DOMAIN padded = 1..N /\ \E p \in Seq(Tokens) : padded[b] = tt[b] \o p
  <2> HIDE DEF tt
  <2> QED BY <1>1, Padding DEF PadIs
<1>3. PICK p \in Seq(Tokens) : padded[b] = encs[b].tokens \o p
  BY <1>2
<1>4. /\ KevTokens(encs[b].tokens, rows[b], n0[b]) /\ Len(rows[b]) # 0
      /\ encs[b].decide = [k \in 1..1 |-> Len(rows[b])]
      /\ encs[b].opts = [k \in 1..1 |-> ends[b]]
      /\ \A j \in DOMAIN ends[b] : ends[b][j] \in 1..Len(rows[b])
  BY Zenon DEF Encodes
<1>5. 1 \in 1..1
  OBVIOUS
<1>6. DOMAIN encs[b].decide = 1..1 /\ encs[b].decide[1] = Len(rows[b]) /\ encs[b].opts[1] = ends[b]
  BY <1>4, <1>5, Zenon
<1>7. ForwardPacked(encs, FALSE)[b][1] = Readout(padded[b], encs[b].decide[1], encs[b].opts[1], sees)
  <2>1. ForwardPacked(encs, FALSE) =
           [a \in 1..N |-> [k \in DOMAIN encs[a].decide |->
              Readout(padded[a], encs[a].decide[k], encs[a].opts[k],
                      [i \in DOMAIN padded[a] |->
                            {j \in 1..(i - 1) : Attends(padded[a], i, j, FALSE)}])]]
    BY Zenon DEF ForwardPacked
  <2> HIDE DEF padded
  <2> QED BY <1>5, <1>6, <2>1, ZenonT(40)
<1>8. \A i \in 1..Len(rows[b]) : sees[i] = 1..(i - 1)
  <2> HIDE DEF padded, tt
  <2> DEFINE t == encs[b].tokens
             r == rows[b]
             n == n0[b]
  <2>1. KevTokens(t, r, n)
    BY <1>4
  <2> HIDE DEF t, r, n
  <2>2. \A i \in 1..Len(r) : /\ i \in DOMAIN (t \o p)
                             /\ {j \in 1..(i - 1) : Attends(t \o p, i, j, FALSE)} = 1..(i - 1)
    BY <2>1, PackedSees
  <2> QED BY <1>3, <2>2, Zenon DEF t, r
<1> HIDE DEF sees
<1>9. Readout(encs[b].tokens \o p, Len(rows[b]), ends[b], sees) = KevReading(rows[b], ends[b])
  <2> DEFINE t == encs[b].tokens
             r == rows[b]
             n == n0[b]
             e == ends[b]
  <2>1. KevTokens(t, r, n) /\ Len(r) # 0 /\ (\A i \in 1..Len(r) : sees[i] = 1..(i - 1))
        /\ (\A j \in DOMAIN e : e[j] \in 1..Len(r))
    BY <1>4, <1>8
  <2> HIDE DEF t, r, n, e
  <2>2. Readout(t \o p, Len(r), e, sees) = KevReading(r, e)
    BY <2>1, CausalReadout, SMTT(60)
  <2> QED BY <2>2 DEF t, r, e
<1> QED BY <1>3, <1>6, <1>7, <1>9

\* rows_of: the one question behind its state is the record as it was.
LEMMA OneRow ==
    ASSUME NEW enc, NEW row, NEW n0, NEW ends, Encodes(enc, row, n0, ends)
    PROVE  RowsOf(enc) = [k \in 1..1 |->
               [tokens |-> enc.tokens, decide |-> Len(row), opts |-> [j \in DOMAIN ends |-> ends[j]]]]
<1> DEFINE tokens == enc.tokens
           L == Len(row)
           state == {i \in DOMAIN enc.tokens : enc.tokens[i].seg = 0}
<1>1. /\ KevTokens(tokens, row, n0) /\ L # 0 /\ n0 <= L
      /\ enc.decide = [k \in 1..1 |-> L]
      /\ enc.opts = [k \in 1..1 |-> ends]
      /\ \A j \in DOMAIN ends : ends[j] \in 1..L
  BY Zenon DEF Encodes
<1>2. tokens \in Seq(Tokens) /\ Len(tokens) = L /\ L \in Nat /\ n0 \in Nat
  BY <1>1 DEF KevTokens, Lines
<1>3. state = 1..n0
  <2>1. PICK k \in Nat \ {0} : \A i \in 1..L : enc.tokens[i].seg = IF i <= n0 THEN 0 ELSE k
    BY <1>1, Zenon DEF KevTokens
  <2>2. DOMAIN enc.tokens = 1..L
    BY <1>2
  <2> HIDE DEF tokens, L
  <2> QED BY <2>2, <1>1, <1>2, <2>1
<1>4. Cardinality(state) = n0
  <2>1. Cardinality(1..n0) = n0
    BY <1>2, FS_Interval
  <2> HIDE DEF state
  <2> QED BY <1>3, <2>1
<1> DEFINE S == SubSeq(enc.tokens, 1, Cardinality(state))
           start(k) == IF k = 1 THEN Len(S) ELSE enc.decide[k - 1]
<1>5. RowsOf(enc) = [k \in DOMAIN enc.decide |->
            [ tokens |-> S \o SubSeq(enc.tokens, start(k) + 1, enc.decide[k]),
              decide |-> Len(S) + enc.decide[k] - start(k),
              opts |-> [j \in DOMAIN enc.opts[k] |-> Len(S) + enc.opts[k][j] - start(k)] ]]
  BY Zenon DEF RowsOf
<1>6. S = SubSeq(tokens, 1, n0)
  BY <1>4
<1> HIDE DEF state, S
<1>7. S \in Seq(Tokens) /\ Len(S) = n0 /\ start(1) = n0
  <2> HIDE DEF tokens, L
  <2> QED BY <1>6, <1>2, <1>1
<1>8. S \o SubSeq(tokens, n0 + 1, L) = tokens
  <2> HIDE DEF tokens, L
  <2>1. SubSeq(tokens, 1, n0) \o SubSeq(tokens, n0 + 1, Len(tokens)) = tokens
    BY <1>1, <1>2, ConcatAdjacentSubSeq, SubSeqFull
  <2> QED BY <1>2, <1>6, <2>1
<1>9. 1 \in 1..1 /\ \A k \in 1..1 : k = 1
  OBVIOUS
<1>10. DOMAIN enc.decide = 1..1 /\ enc.decide[1] = L /\ enc.opts[1] = ends
  BY <1>1, <1>9, Zenon
<1>11. Len(S) + enc.decide[1] - start(1) = L
  BY <1>2, <1>7, <1>10
<1>12. [j \in DOMAIN enc.opts[1] |-> Len(S) + enc.opts[1][j] - start(1)] = [j \in DOMAIN ends |-> ends[j]]
  BY <1>1, <1>2, <1>7, <1>10
<1>13. S \o SubSeq(enc.tokens, start(1) + 1, enc.decide[1]) = enc.tokens
  <2>1. start(1) = n0 /\ enc.decide[1] = Len(row)
    BY <1>7, <1>10
  <2>2. S \o SubSeq(enc.tokens, n0 + 1, Len(row)) = enc.tokens
    BY <1>8
  <2> HIDE DEF start, tokens, L
  <2> QED BY <2>1, <2>2
<1> HIDE DEF start
<1> DEFINE rec(k) ==
              [ tokens |-> S \o SubSeq(enc.tokens, start(k) + 1, enc.decide[k]),
                decide |-> Len(S) + enc.decide[k] - start(k),
                opts |-> [j \in DOMAIN enc.opts[k] |-> Len(S) + enc.opts[k][j] - start(k)] ]
           one == [tokens |-> enc.tokens, decide |-> Len(row), opts |-> [j \in DOMAIN ends |-> ends[j]]]
<1>14. rec(1) = one
  BY <1>11, <1>12, <1>13, Zenon
<1> HIDE DEF rec, one
<1>15. RowsOf(enc) = [k \in DOMAIN enc.decide |-> rec(k)]
  BY <1>5, Zenon DEF rec
<1>16. \A k \in 1..1 : rec(k) = one
  BY <1>9, <1>14, Zenon
<1>17. RowsOf(enc) = [k \in 1..1 |-> one]
  BY <1>10, <1>15, <1>16, Zenon
<1> QED BY <1>17 DEF one

Handed(out, reads, N) == out = [n \in 1..N |-> [of |-> n, read |-> reads[n]]]

\* A sequence of one.
LEMMA Single ==
    ASSUME NEW c
    PROVE  [k \in 1..1 |-> c] = <<c>>
OBVIOUS

\* One readout per record, in the order of the records: each is handed back alone.
LEMMA HandBackOnes ==
    ASSUME NEW N \in Nat, NEW reads, NEW out,
           Handed(out, reads, N),
           NEW b \in 1..N
    PROVE  HandBack(out, 1..N)[b][1] = reads[b]
<1> DEFINE D == 1..N
           V == {reads[n] : n \in 1..N}
<1>1. out \in [1..N -> Reads(D, V)]
  BY DEF Handed, Reads
<1>2. \A n \in 1..N : out[n].of = n /\ out[n].read = reads[n]
  BY DEF Handed
<1>3. PICK f \in [0..N -> [D -> Seq(V)]] : HandsBack(f, N, D, out)
  <2> HIDE DEF D, V
  <2> QED BY <1>1, HandBackIs
<1> DEFINE E == {k \in 0..N : \A a \in 1..N : f[k][a] = IF a <= k THEN <<reads[a]>> ELSE <<>>}
<1>4. 0 \in E
  BY <1>3 DEF HandsBack
<1>5. \A k \in 1..N : k - 1 \in E => k \in E
  <2> SUFFICES ASSUME NEW k \in 1..N, k - 1 \in E PROVE k \in E
    OBVIOUS
  <2> SUFFICES ASSUME NEW a \in 1..N
               PROVE  f[k][a] = IF a <= k THEN <<reads[a]>> ELSE <<>>
    OBVIOUS
  <2>1. f[k] = [f[k - 1] EXCEPT ![k] = Append(@, reads[k])] /\ f[k - 1] \in [D -> Seq(V)]
    <3>1. f[k] = [f[k - 1] EXCEPT ![out[k].of] = Append(@, out[k].read)]
      BY <1>3, Zenon DEF HandsBack
    <3>2. out[k].of = k /\ out[k].read = reads[k]
      BY <1>2
    <3>3. k - 1 \in 0..N
      OBVIOUS
    <3> HIDE DEF D, V
    <3> QED BY <3>1, <3>2, <1>3, <3>3
  <2>2. f[k - 1][a] = IF a <= k - 1 THEN <<reads[a]>> ELSE <<>>
    OBVIOUS
  <2>3. CASE a = k
    BY <2>2, <2>3, <2>1
  <2>4. CASE a # k
    BY <2>1, <2>4, <2>2
  <2> QED BY <2>3, <2>4
<1> HIDE DEF E
<1>6. N \in E
  <2>1. N \in 0..N
    OBVIOUS
  <2> QED BY <1>4, <1>5, <2>1, UpTo
<1> QED BY <1>3, <1>6 DEF HandsBack, E

\* So it is when the records are split into rows.
LEMMA RowsRead ==
    ASSUME NEW N \in Nat \ {0}, NEW encs, NEW rows, NEW n0, NEW ends,
           EncodesAll(encs, N, rows, n0, ends)
    PROVE  AllRead(ForwardRows(encs), N, rows, ends)
<1> SUFFICES ASSUME NEW b \in 1..N
             PROVE  ForwardRows(encs)[b][1] = KevReading(rows[b], ends[b])
  BY Zenon DEF AllRead
<1> DEFINE one(a) == [ tokens |-> encs[a].tokens, decide |-> Len(rows[a]),
                       opts |-> [j \in DOMAIN ends[a] |-> ends[a][j]] ]
           x == [a \in 1..N |-> [of |-> a, row |-> one(a)]]
           split == [a \in DOMAIN encs |-> RowsOf(encs[a])]
           nested == [a \in DOMAIN encs |->
                        [k \in DOMAIN split[a] |-> [of |-> a, row |-> split[a][k]]]]
           flat == FlattenSeq(nested)
           padded == PadRows([n \in DOMAIN flat |-> flat[n].row.tokens])
           out == [n \in DOMAIN flat |->
                    LET row == flat[n].row
                        sees == [i \in DOMAIN padded[n] |->
                                    {j \in 1..(i - 1) : padded[n][j].seg # -1}]
                    IN  [of |-> flat[n].of,
                         read |-> Readout(padded[n], row.decide, row.opts, sees)]]
<1>domain. DOMAIN encs = 1..N
  BY DEF EncodesAll
<1>encs. \A a \in 1..N : Encodes(encs[a], rows[a], n0[a], ends[a])
  BY DEF EncodesAll
<1> USE <1>domain
<1>1. ForwardRows(encs) = HandBack(out, DOMAIN encs)
  BY Zenon DEF ForwardRows
<1>2. \A a \in 1..N : split[a] = [k \in 1..1 |-> one(a)]
  <2> TAKE a \in 1..N
  <2>2. RowsOf(encs[a]) = [k \in 1..1 |-> one(a)]
    BY OneRow, <1>encs
  <2> HIDE DEF one
  <2> QED BY <2>2
<1> HIDE DEF one
<1>3. \A a \in 1..N : nested[a] = <<x[a]>>
  <2> TAKE a \in 1..N
  <2> DEFINE s == split[a]
  <2>1. s = [k \in 1..1 |-> one(a)]
    BY <1>2
  <2>2. nested[a] = [k \in DOMAIN s |-> [of |-> a, row |-> s[k]]]
    BY Zenon
  <2> HIDE DEF s
  <2>3. [k \in DOMAIN s |-> [of |-> a, row |-> s[k]]] = [k \in 1..1 |-> [of |-> a, row |-> one(a)]]
    BY <2>1
  <2>4. x[a] = [of |-> a, row |-> one(a)]
    OBVIOUS
  <2> HIDE DEF x, nested
  <2> QED BY <2>2, <2>3, <2>4, Single
<1>4. flat = x
  <2> DEFINE S == {x[a] : a \in 1..N}
  <2>1. x \in [1..N -> S]
    OBVIOUS
  <2>2. nested = [a \in 1..N |-> <<x[a]>>]
    <3>1. nested = [a \in 1..N |-> nested[a]]
      OBVIOUS
    <3> HIDE DEF nested, x
    <3> QED BY <1>3, <3>1
  <2> HIDE DEF x, S, nested
  <2> QED BY <2>1, <2>2, FlattenSingles
<1> HIDE DEF nested, flat
<1> DEFINE tt == [n \in 1..N |-> encs[n].tokens]
<1>6. tt \in [1..N -> Seq(Tokens)]
  BY <1>encs DEF Encodes, KevTokens
<1>7. \A n \in 1..N : \E p \in Seq(Tokens) : padded[n] = encs[n].tokens \o p
  <2>1. padded = PadRows(tt) /\ \A n \in 1..N : tt[n] = encs[n].tokens
    BY <1>4 DEF one
  <2> HIDE DEF tt, padded
  <2>2. \A n \in 1..N : \E p \in Seq(Tokens) : PadRows(tt)[n] = tt[n] \o p
    BY <1>6, Padding DEF PadIs
  <2> QED BY <2>1, <2>2
<1> HIDE DEF padded
<1> DEFINE sees(n) == [i \in DOMAIN padded[n] |->
                                    {j \in 1..(i - 1) : padded[n][j].seg # -1}]
           reads == [n \in 1..N |-> KevReading(rows[n], ends[n])]
<1>8. ASSUME NEW n \in 1..N
      PROVE  Readout(padded[n], Len(rows[n]), [j \in DOMAIN ends[n] |-> ends[n][j]], sees(n))
             = KevReading(rows[n], ends[n])
  <2> DEFINE t == encs[n].tokens
             r == rows[n]
             m == n0[n]
             e == ends[n]
             o == [j \in DOMAIN e |-> e[j]]
             sn == sees(n)
  <2>1. PICK p \in Seq(Tokens) : padded[n] = t \o p
    BY <1>7
  <2>2. KevTokens(t, r, m) /\ Len(r) # 0 /\ (\A j \in DOMAIN e : e[j] \in 1..Len(r))
    BY <1>encs, Zenon DEF Encodes
  <2> HIDE DEF t, r, m
  <2>3. \A i \in 1..Len(r) : /\ i \in DOMAIN (t \o p)
                             /\ {j \in 1..(i - 1) : (t \o p)[j].seg # -1} = 1..(i - 1)
    BY <2>2, RowSees
  <2>4. \A i \in 1..Len(r) : sn[i] = 1..(i - 1)
    BY <2>1, <2>3, Zenon
  <2>5. \A j \in DOMAIN o : o[j] \in 1..Len(r)
    BY <2>2
  <2>6. KevReading(r, o) = KevReading(r, e)
    BY DEF KevReading
  <2> HIDE DEF sn, o, e
  <2>7. Readout(t \o p, Len(r), o, sn) = KevReading(r, o)
    BY <2>1, <2>2, <2>4, <2>5, CausalReadout
  <2> QED BY <2>1, <2>6, <2>7 DEF t, r, o, e, sn
<1> HIDE DEF sees
<1>9. out = [n \in 1..N |-> [of |-> n, read |-> reads[n]]]
  <2>2. DOMAIN flat = 1..N
    BY <1>4
  <2>3. out = [n \in 1..N |-> [of |-> flat[n].of,
                  read |-> Readout(padded[n], flat[n].row.decide, flat[n].row.opts, sees(n))]]
    BY <2>2, Zenon DEF sees
  <2>4. \A n \in 1..N : [of |-> flat[n].of,
                  read |-> Readout(padded[n], flat[n].row.decide, flat[n].row.opts, sees(n))]
                = [of |-> n, read |-> reads[n]]
    BY <1>8, <1>4 DEF one
  <2> HIDE DEF out, reads
  <2> QED BY <2>3, <2>4
<1>10. reads[b] = KevReading(rows[b], ends[b])
  OBVIOUS
<1> HIDE DEF out, reads
<1>11. HandBack(out, 1..N)[b][1] = reads[b]
  <2>1. Handed(out, reads, N)
    BY <1>9 DEF Handed
  <2>2. N \in Nat
    OBVIOUS
  <2> QED BY <2>1, <2>2, HandBackOnes
<1> QED BY <1>1, <1>10, <1>11

-----------------------------------------------------------------------------
(* A row under its mask                                                     *)

\* The words of a row, each at a place of its own, and pads without one.
Masked(words) == [i \in DOMAIN words |-> <<words[i]>>]
Pads(d) == [i \in 1..d |-> <<>>]

\* Masked words are words.
LEMMA MaskedIs ==
    ASSUME NEW words \in Lines
    PROVE  /\ Masked(words) \in Seq(Lines) /\ Len(Masked(words)) = Len(words)
           /\ \A i \in 1..Len(words) : Masked(words)[i] = <<words[i]>>
                                       /\ Masked(words)[i] # <<>> /\ Masked(words)[i][1] = words[i]
<1>1. Len(words) \in Nat /\ DOMAIN words = 1..Len(words) /\ \A i \in 1..Len(words) : words[i] \in Strings
  BY DEF Lines
<1>2. \A i \in 1..Len(words) : <<words[i]>> \in Lines
  BY <1>1 DEF Lines
<1>3. \A i \in 1..Len(words) : Masked(words)[i] = <<words[i]>>
  BY <1>1 DEF Masked
<1>4. Masked(words) = [i \in 1..Len(words) |-> Masked(words)[i]]
  BY <1>1 DEF Masked
<1>5. Masked(words) \in Seq(Lines) /\ Len(Masked(words)) = Len(words)
  <2> DEFINE m == Masked(words)
             n == Len(words)
  <2>1. n \in Nat /\ m = [i \in 1..n |-> m[i]] /\ \A i \in 1..n : m[i] \in Lines
    BY <1>1, <1>2, <1>3, <1>4
  <2> HIDE DEF m, n
  <2> QED BY <2>1 DEF m, n
<1>6. \A w : <<w>> # <<>> /\ <<w>>[1] = w
  OBVIOUS
<1> QED BY <1>3, <1>5, <1>6

\* Pads are empty places, as many as there is room for.
LEMMA PadsAre ==
    ASSUME NEW d \in Int
    PROVE  /\ Pads(d) \in Seq(Lines)
           /\ Len(Pads(d)) = IF d >= 0 THEN d ELSE 0
           /\ \A i \in 1..Len(Pads(d)) : Pads(d)[i] = <<>>
<1>1. <<>> \in Lines
  BY DEF Lines
<1>2. CASE d >= 0
  BY <1>2, <1>1 DEF Pads
<1>3. CASE d < 0
  <2>1. 1..d = 1..0
    BY <1>3
  <2>2. Pads(d) = [i \in 1..0 |-> <<>>]
    BY <2>1 DEF Pads
  <2> QED BY <1>1, <1>3, <2>2
<1> QED BY <1>2, <1>3

\* Padded at its end, a row has its words at their places, and no others.
UnderMask(ids) == {<<ids[n][1], n>> : n \in {m \in DOMAIN ids : ids[m] # <<>>}}

\* Pads at the end are masked out of a row.
LEMMA PaddedRight ==
    ASSUME NEW words \in Lines, NEW d \in Int
    PROVE  UnderMask(Masked(words) \o Pads(d)) = Placed(words)
<1> DEFINE ids == Masked(words) \o Pads(d)
           a == Masked(words)
           b == Pads(d)
           L == Len(words)
<1>1. /\ a \in Seq(Lines) /\ Len(a) = L
      /\ \A i \in 1..L : a[i] # <<>> /\ a[i][1] = words[i]
  BY MaskedIs
<1>2. b \in Seq(Lines) /\ (\A i \in 1..Len(b) : b[i] = <<>>)
  BY PadsAre
<1>3. L \in Nat /\ DOMAIN words = 1..L
  BY DEF Lines
<1> HIDE DEF a, b, L, ids
<1>4. /\ ids \in Seq(Lines) /\ Len(ids) = L + Len(b) /\ Len(b) \in Nat
      /\ \A i \in 1..L : ids[i] = a[i]
      /\ \A i \in 1..Len(b) : ids[L + i] = b[i]
  <2>1. /\ a \o b \in Seq(Lines) /\ Len(a \o b) = Len(a) + Len(b)
        /\ \A i \in 1..Len(a) : (a \o b)[i] = a[i]
        /\ \A i \in 1..Len(b) : (a \o b)[Len(a) + i] = b[i]
    <3>1. a \in Seq(Lines) /\ b \in Seq(Lines)
      BY <1>1, <1>2
    <3> QED BY <3>1, ConcatIs
  <2>2. ids = a \o b
    BY DEF a, b, ids
  <2> QED BY <1>1, <2>1, <2>2, <1>2
<1>5. {m \in DOMAIN ids : ids[m] # <<>>} = 1..L
  <2>3. \A m \in 1..(L + Len(b)) : m \notin 1..L => ids[m] = <<>>
    <3> TAKE m \in 1..(L + Len(b))
    <3> HAVE m \notin 1..L
    <3>1. m - L \in 1..Len(b) /\ L + (m - L) = m
      BY <1>3, <1>4
    <3> QED BY <1>2, <3>1, <1>4
  <2> QED BY <2>3, <1>1, <1>3, <1>4
<1>6. \A n \in 1..L : ids[n][1] = words[n]
  BY <1>1, <1>4
<1> QED BY <1>3, <1>5, <1>6 DEF Placed, ids, UnderMask

\* Padded in front, it has them as far from its end as they were.
FromEnd(input) ==
    {<<input[i][1], Len(input) - i>> : i \in {j \in DOMAIN input : input[j] # <<>>}}
Distances(words) == {<<words[n], Len(words) - n>> : n \in DOMAIN words}
LastPlace(input) == input[Len(input)]

\* Pads in front are masked out, and leave the distances from the end alone.
LEMMA PaddedLeft ==
    ASSUME NEW words \in Lines, Len(words) # 0, NEW d \in Nat
    PROVE  /\ LastPlace(Pads(d) \o Masked(words)) # <<>>
           /\ FromEnd(Pads(d) \o Masked(words)) = Distances(words)
<1> DEFINE input == Pads(d) \o Masked(words)
           a == Pads(d)
           b == Masked(words)
           L == Len(words)
<1>1. /\ b \in Seq(Lines) /\ Len(b) = L
      /\ \A i \in 1..L : b[i] # <<>> /\ b[i][1] = words[i]
  BY MaskedIs
<1>2. a \in Seq(Lines) /\ Len(a) = d /\ (\A i \in 1..d : a[i] = <<>>)
  BY PadsAre
<1>3. L \in Nat /\ L # 0 /\ DOMAIN words = 1..L
  BY DEF Lines
<1> HIDE DEF a, b, L, input
<1>4. /\ input \in Seq(Lines) /\ Len(input) = d + L
      /\ \A i \in 1..d : input[i] = a[i]
      /\ \A i \in 1..L : input[d + i] = b[i]
  <2>1. /\ a \o b \in Seq(Lines) /\ Len(a \o b) = Len(a) + Len(b)
        /\ \A i \in 1..Len(a) : (a \o b)[i] = a[i]
        /\ \A i \in 1..Len(b) : (a \o b)[Len(a) + i] = b[i]
    <3>1. a \in Seq(Lines) /\ b \in Seq(Lines)
      BY <1>1, <1>2
    <3> QED BY <3>1, ConcatIs
  <2> QED BY <1>1, <1>2, <2>1 DEF a, b, input
<1>6. {j \in DOMAIN input : input[j] # <<>>} = {d + n : n \in 1..L}
  <2>1. ASSUME NEW n \in 1..L PROVE d + n \in 1..(d + L) /\ input[d + n] # <<>>
    <3>1. input[d + n] = b[n] /\ b[n] # <<>>
      BY <1>1, <1>4
    <3> QED BY <1>3, <3>1
  <2>2. \A m \in 1..(d + L) : input[m] # <<>> => \E n \in 1..L : m = d + n
    <3> SUFFICES ASSUME NEW m \in 1..(d + L), input[m] # <<>> PROVE \E n \in 1..L : m = d + n
      OBVIOUS
    <3>1. m \notin 1..d
      BY <1>2, <1>4
    <3> QED BY <1>3, <3>1
  <2> QED BY <2>1, <2>2, <1>4
<1>7. \A n \in 1..L : input[d + n][1] = words[n] /\ Len(input) - (d + n) = L - n
  BY <1>1, <1>4, <1>3
<1>8. FromEnd(input) = {<<input[d + n][1], Len(input) - (d + n)>> : n \in 1..L}
  BY <1>6 DEF FromEnd
<1>9. input[Len(input)] # <<>>
  BY <1>3, <1>4, <1>1
<1>10. {<<input[d + n][1], Len(input) - (d + n)>> : n \in 1..L} = {<<words[n], L - n>> : n \in 1..L}
  BY <1>7
<1> QED BY <1>3, <1>8, <1>9, <1>10 DEF L, input, Distances, LastPlace

-----------------------------------------------------------------------------
(* What is prepared                                                         *)

GoodQuestion(q) ==
    /\ q.qid \in Words /\ q.type \in {"noul", "choice", "score"}
    /\ q.instructions \in {None} \cup Texts
    /\ Len(q.criteria) \in Nat /\ DOMAIN q.criteria = 1..Len(q.criteria)
    /\ \A i \in 1..Len(q.criteria) : /\ q.criteria[i].name \in Words
                                     /\ q.criteria[i].value \in {None} \cup Texts
    /\ q.type = "noul" => Len(q.criteria) = 2
    /\ q.type = "choice" => \A i, j \in 1..Len(q.criteria) :
                                q.criteria[i].name = q.criteria[j].name => i = j
    /\ q.type = "score" => /\ Len(q.criteria) \in 1..Len(Levels)
                           /\ \A i \in 1..Len(q.criteria) : q.criteria[i].value # None
    /\ Len(q.criteria) # 0 => Len(q.criteria) \in DOMAIN Outcomes

GoodContent(content) ==
    LET qs == content.questions
    IN  /\ content.state \in Texts
        /\ Len(qs) \in Nat \ {0} /\ DOMAIN qs = 1..Len(qs)
        /\ \A i \in 1..Len(qs) : GoodQuestion(qs[i])
        /\ \A i, j \in 1..Len(qs) : qs[i].qid = qs[j].qid => i = j

\* What the schema lets through, as the proofs use it.
LEMMA ContentIs ==
    ASSUME NEW content \in Contents
    PROVE  GoodContent(content)
<1> DEFINE qs == content.questions
<1>1. content.state \in Texts /\ qs \in Seq(Questions) /\ qs # <<>>
  BY ContentsAssumption
<1>2. Len(qs) \in Nat \ {0} /\ DOMAIN qs = 1..Len(qs) /\ \A i \in 1..Len(qs) : qs[i] \in Questions
  BY <1>1
<1>4. \A i, j \in 1..Len(qs) : qs[i].qid = qs[j].qid => i = j
  BY <1>2, ContentsAssumption DEF IsInjective
<1>5. ASSUME NEW n \in 1..Len(qs) PROVE GoodQuestion(qs[n])
  <2> DEFINE q == qs[n]
             cs == q.criteria
  <2>1. q \in Questions
    BY <1>2
  <2>3. /\ q.type = "noul" => Len(q.criteria) = 2
        /\ q.type = "choice" => IsInjective([i \in DOMAIN q.criteria |-> q.criteria[i].name])
        /\ q.type = "score" => /\ Len(q.criteria) \in 1..Len(Levels)
                               /\ \A i \in DOMAIN q.criteria : q.criteria[i].value # None
        /\ q.criteria # <<>> => Len(q.criteria) \in DOMAIN Outcomes
    BY ContentsAssumption, <1>2 DEF Range
  <2> HIDE DEF q
  <2>4. /\ q.qid \in Words /\ q.type \in {"noul", "choice", "score"}
        /\ q.instructions \in {None} \cup Texts
        /\ cs \in Seq([name : Words, value : {None} \cup Texts])
    BY <2>1 DEF Questions
  <2>5. Len(cs) \in Nat /\ DOMAIN cs = 1..Len(cs)
    BY <2>4
  <2>6. \A i \in 1..Len(cs) : cs[i] \in [name : Words, value : {None} \cup Texts]
    <3> DEFINE S == [name : Words, value : {None} \cup Texts]
    <3>1. cs \in Seq(S)
      BY <2>4
    <3> HIDE DEF cs, S
    <3>2. \A i \in 1..Len(cs) : cs[i] \in S
      BY <3>1
    <3> QED BY <3>2 DEF S
  <2>7. \A i \in 1..Len(cs) : cs[i].name \in Words /\ cs[i].value \in {None} \cup Texts
    BY <2>6
  <2>9. Len(cs) # 0 => Len(cs) \in DOMAIN Outcomes
    BY <2>3, <2>4
  <2> QED BY <2>3, <2>4, <2>5, <2>7, <2>9 DEF GoodQuestion, q, IsInjective
<1> QED BY <1>1, <1>2, <1>4, <1>5 DEF GoodContent

\* What prepare_request makes of a question.
GoodPrepared(p, q) ==
    /\ p.qid = q.qid /\ p.type = q.type /\ p.raw = q
    /\ p.type \in {"noul", "choice", "score"}
    /\ p.instructions \in Lines
    /\ Len(p.options) = Len(q.criteria) /\ Len(p.options) \in Nat
    /\ DOMAIN p.options = 1..Len(p.options)
    /\ \A i \in 1..Len(p.options) : /\ p.options[i].name \in Strings
                                    /\ p.options[i].description \in Lines
    /\ \A i, j \in 1..Len(p.options) : p.options[i].name = p.options[j].name => i = j
    /\ p.type = "noul" => Len(p.options) = 2 /\ p.options[2].name = "true"
    /\ Len(p.options) # 0 => Len(p.options) \in DOMAIN Outcomes

\* A value is rendered to a line.
LEMMA RenderIs ==
    ASSUME NEW value \in {None} \cup Texts
    PROVE  Render(value) \in Lines
<1>1. <<>> \in Lines
  BY DEF Lines
<1> QED BY <1>1, TextIsLine DEF Render

\* What prepare_request makes of a question.
LEMMA PreparedIs ==
    ASSUME NEW q, GoodQuestion(q)
    PROVE  GoodPrepared(PrepareQuestion(q), q)
<1> DEFINE p == PrepareQuestion(q)
           cs == q.criteria
           text(i) == Render(cs[i].value)
           options == CASE q.type = "noul" -> NoulOptions(text(1), text(2))
                        [] q.type = "choice" -> [i \in DOMAIN cs |-> Option(cs[i].name, text(i))]
                        [] OTHER -> [i \in DOMAIN cs |-> Option(Levels[i], text(i))]
<1>1. /\ q.qid \in Words /\ q.type \in {"noul", "choice", "score"}
      /\ q.instructions \in {None} \cup Texts
      /\ Len(cs) \in Nat /\ DOMAIN cs = 1..Len(cs)
      /\ \A i \in 1..Len(cs) : cs[i].name \in Words /\ cs[i].value \in {None} \cup Texts
      /\ q.type = "noul" => Len(cs) = 2
      /\ q.type = "choice" => \A i, j \in 1..Len(cs) : cs[i].name = cs[j].name => i = j
      /\ q.type = "score" => Len(cs) \in 1..Len(Levels)
      /\ Len(cs) # 0 => Len(cs) \in DOMAIN Outcomes
  BY Zenon DEF GoodQuestion
<1>2. \A i \in 1..Len(cs) : text(i) \in Lines
  BY <1>1, RenderIs
<1>3. p = [ qid |-> q.qid, type |-> q.type, instructions |-> Render(q.instructions), raw |-> q,
            options |-> options ]
  BY Zenon DEF PrepareQuestion
<1> HIDE DEF text
<1>4. p.qid = q.qid /\ p.type = q.type /\ p.raw = q /\ p.instructions = Render(q.instructions)
      /\ p.options = options
  <2> HIDE DEF p, options
  <2> QED BY <1>3
<1>5. Words \subseteq Strings /\ "true" \in Strings /\ "false" \in Strings
  BY DEF Strings
<1>6. /\ Len(options) = Len(cs) /\ DOMAIN options = 1..Len(cs)
      /\ \A i \in 1..Len(cs) : options[i].name \in Strings /\ options[i].description \in Lines
      /\ \A i, j \in 1..Len(cs) : options[i].name = options[j].name => i = j
      /\ q.type = "noul" => options[2].name = "true"
  <2>1. CASE q.type = "noul"
    <3>1. options = <<Option("false", text(1)), Option("true", text(2))>>
      BY <2>1 DEF NoulOptions
    <3>0. Len(cs) = 2 /\ 1 \in 1..2 /\ 2 \in 1..2
      BY <1>1, <2>1
    <3>2. Len(cs) = 2 /\ text(1) \in Lines /\ text(2) \in Lines
      BY <1>2, <3>0
    <3> HIDE DEF options
    <3>3. options[1] = Option("false", text(1)) /\ options[2] = Option("true", text(2))
          /\ Len(options) = 2 /\ DOMAIN options = 1..2
      BY <3>1
    <3>4. options[1].name = "false" /\ options[1].description = text(1)
          /\ options[2].name = "true" /\ options[2].description = text(2)
      BY <3>3 DEF Option
    <3>5. \A i \in 1..2 : i = 1 \/ i = 2
      OBVIOUS
    <3> QED BY <3>2, <3>3, <3>4, <1>5, <3>5
  <2>2. CASE q.type = "choice"
    <3>1. options = [i \in 1..Len(cs) |-> Option(cs[i].name, text(i))]
      BY <1>1, <2>2
    <3> HIDE DEF options
    <3>2. Len(options) = Len(cs) /\ DOMAIN options = 1..Len(cs)
      BY <1>1, <3>1
    <3>4. \A i \in 1..Len(cs) : cs[i].name \in Strings
      BY <1>1, <1>5
    <3> QED BY <1>2, <2>2, <3>2, <3>4, <1>1, <3>1 DEF Option
  <2>3. CASE q.type = "score"
    <3>1. options = [i \in 1..Len(cs) |-> Option(Levels[i], text(i))]
      BY <1>1, <2>3
    <3> HIDE DEF options
    <3>2. Len(options) = Len(cs) /\ DOMAIN options = 1..Len(cs)
      BY <1>1, <3>1
    <3>4. Levels \in Seq(Words) /\ \A i, j \in DOMAIN Levels : Levels[i] = Levels[j] => i = j
      BY NamesAssumption DEF Texts, IsInjective
    <3>5. \A i \in 1..Len(cs) : i \in 1..Len(Levels)
      BY <1>1, <2>3, <3>4
    <3>6. \A i \in 1..Len(cs) : Levels[i] \in Strings
      BY <1>5, <3>4, <3>5
    <3> QED BY <1>2, <2>3, <3>2, <3>6, <3>4, <3>5, <3>1 DEF Option
  <2> QED BY <1>1, <2>1, <2>2, <2>3
<1>7. Render(q.instructions) \in Lines
  BY <1>1, RenderIs
<1> HIDE DEF options, p
<1> QED BY <1>1, <1>4, <1>6, <1>7 DEF GoodPrepared, p

-----------------------------------------------------------------------------
(* laya                                                                     *)

\* An option is rendered to a line.
LEMMA LayaOptionLine ==
    ASSUME NEW p, NEW q, GoodPrepared(p, q), NEW i \in 1..Len(p.options)
    PROVE  RenderOptions(Internal(p))[i] \in Lines
<1> DEFINE o == p.options[i]
           c == Internal(p).crit[i]
           t == p.type
<1>1. /\ Len(p.options) \in Nat /\ DOMAIN p.options = 1..Len(p.options)
      /\ o.name \in Strings /\ o.description \in Lines
      /\ t \in {"noul", "choice", "score"}
  BY Zenon DEF GoodPrepared
<1>3. DOMAIN Internal(p).crit = 1..Len(p.options)
      /\ c = IF t # "score" /\ o.description = <<>> THEN Option(o.name, None) ELSE o
  BY <1>1 DEF Internal
<1>4. RenderOptions(Internal(p))[i] =
        CASE t = "score" -> <<"level", c.name, ":">> \o c.description
          [] t = "noul" /\ c.description = None -> <<c.name, ":", "statement">>
          [] OTHER -> IF c.description = None THEN <<c.name>> ELSE <<c.name, ":">> \o c.description
  BY <1>3 DEF RenderOptions, Internal
<1>5. c.name = o.name /\ (t = "score" => c.description = o.description)
      /\ (c.description # None => c.description = o.description)
  <2>1. Option(o.name, None).name = o.name /\ Option(o.name, None).description = None
    BY DEF Option
  <2> HIDE DEF o, c, t
  <2> QED BY <1>3, <2>1
<1> HIDE DEF o, c, t
<1>6. <<"level", o.name, ":">> \in Lines /\ <<o.name, ":", "statement">> \in Lines
      /\ <<o.name>> \in Lines /\ <<o.name, ":">> \in Lines
  BY <1>1 DEF Strings, Lines
<1>7. <<"level", o.name, ":">> \o o.description \in Lines /\ <<o.name, ":">> \o o.description \in Lines
  BY <1>1, <1>6, TextConcat
<1>8. CASE t = "score"
  BY <1>4, <1>5, <1>7, <1>8
<1>9. CASE t # "score" /\ c.description = None
  BY <1>4, <1>5, <1>9, <1>6
<1>10. CASE t # "score" /\ c.description # None
  BY <1>4, <1>5, <1>10, <1>7
<1> QED BY <1>8, <1>9, <1>10

\* A row of laya, with a marker for every option.
LayaRowIs(row, n, type) ==
    /\ row.ids \in Lines /\ Len(row.ids) \in Nat
    /\ DOMAIN row.markers = 1..n /\ Len(row.markers) = n
    /\ row.qtype = type

\* A built sequence has a marker for every option of its question.
LEMMA LayaRow ==
    ASSUME NEW state \in Lines, NEW p, NEW q, GoodPrepared(p, q)
    PROVE  LayaRowIs(BuildSequence(state, Internal(p)), Len(p.options), p.type)
<1> DEFINE int == Internal(p)
           K == Len(p.options)
           spans == [i \in DOMAIN int.crit |-> <<"[MASK]">> \o RenderOptions(int)[i]]
           head == <<"[CLS]", int.t, "question:">> \o int.ins \o <<"[SEP]">>
           marks == [i \in DOMAIN spans |->
                          Len(head) + Len(FlattenSeq(SubSeq(spans, 1, i - 1))) + 1]
           row == BuildSequence(state, int)
<1>1. row = [ ids |-> head \o FlattenSeq(spans) \o <<"[SEP]">> \o state \o <<"[SEP]">>,
              markers |-> marks, qtype |-> int.t ]
  BY Zenon DEF BuildSequence
<1>2. /\ K \in Nat /\ DOMAIN p.options = 1..K /\ p.type \in {"noul", "choice", "score"}
      /\ p.instructions \in Lines
  BY Zenon DEF GoodPrepared
<1>3. int.t = p.type /\ int.ins = p.instructions /\ DOMAIN int.crit = 1..K
  BY <1>2 DEF Internal
<1>4. <<"[MASK]">> \in Lines /\ <<"[SEP]">> \in Lines /\ <<"[CLS]", int.t, "question:">> \in Lines
  <2>1. {"[MASK]", "[SEP]", "[CLS]", "question:", "noul", "choice", "score"} \subseteq Strings
    BY DEF Strings
  <2>2. int.t \in Strings
    BY <1>2, <1>3, <2>1
  <2> HIDE DEF int
  <2> QED BY <2>1, <2>2 DEF Lines
<1> HIDE DEF K
<1>5. spans \in [1..K -> Seq(Strings)]
  <2>1. ASSUME NEW i \in 1..K PROVE <<"[MASK]">> \o RenderOptions(int)[i] \in Seq(Strings)
    <3>1. RenderOptions(int)[i] \in Lines
      BY LayaOptionLine DEF K
    <3> HIDE DEF int
    <3> QED BY <1>4, <3>1, TextConcat DEF Lines
  <2> QED BY <1>3, <2>1
<1>6. FlattenSeq(spans) \in Lines
  <2> HIDE DEF spans
  <2> QED BY <1>2, <1>5, FlattenType DEF Lines
<1>7. head \in Lines
  <2> HIDE DEF int
  <2> QED BY <1>4, TextConcat, <1>2, <1>3
<1>8. DOMAIN marks = 1..K /\ Len(marks) = K
  <2>1. DOMAIN spans = 1..K
    BY <1>3
  <2> HIDE DEF spans, head
  <2> QED BY <1>2, <2>1
<1> HIDE DEF head, spans, marks, int
<1>9. head \o FlattenSeq(spans) \o <<"[SEP]">> \o state \o <<"[SEP]">> \in Lines
  BY <1>6, <1>7, TextConcat, <1>4
<1> HIDE DEF row
<1> QED BY <1>3, <1>8, <1>1, <1>9 DEF LayaRowIs, row, int, K, Lines

\* What a row of laya is read as, in whatever batch it is.
LayaReading(row) ==
    [j \in DOMAIN row.markers |->
        [ marker |-> row.markers[j], from |-> Placed(row.ids),
          temperature |-> <<row.qtype, Len(row.markers)>> ]]

\* A row of a collated batch is read as it is alone.
LEMMA LayaReads ==
    ASSUME NEW N \in Nat \ {0}, NEW rows, DOMAIN rows = 1..N,
           \A b \in 1..N : rows[b].ids \in Lines,
           NEW b \in 1..N
    PROVE  LayaForward(rows)[b] = LayaReading(rows[b])
<1> DEFINE f == [a \in 1..N |-> Len(rows[a].ids)]
           L == Max({Len(rows[a].ids) : a \in DOMAIN rows})
           ids == Collate(rows)
           words == rows[b].ids
<1>1. f \in [1..N -> Int]
  BY DEF Lines
<1>2. Max({f[a] : a \in 1..N}) \in {f[a] : a \in 1..N}
  <2> HIDE DEF f
  <2> QED BY <1>1, MaxOfSeq
<1>3. L \in Int /\ Len(words) \in Nat
  <2>1. {f[a] : a \in 1..N} = {Len(rows[a].ids) : a \in DOMAIN rows}
    OBVIOUS
  <2>2. \A v \in {f[a] : a \in 1..N} : v \in Int
    BY <1>1
  <2> HIDE DEF f
  <2>3. L \in Int
    BY <1>2, <2>1, <2>2
  <2> QED BY <2>3 DEF Lines
<1>4. ids = [a \in DOMAIN rows |-> [i \in DOMAIN rows[a].ids |-> <<rows[a].ids[i]>>]
                                  \o [i \in 1..(L - Len(rows[a].ids)) |-> <<>>]]
  BY Zenon DEF Collate
<1> HIDE DEF L, ids
<1>5. ids[b] = Masked(words) \o Pads(L - Len(words))
  BY <1>4, Zenon DEF Masked, Pads
<1>6. LayaForward(rows) = [a \in DOMAIN rows |-> [i \in DOMAIN rows[a].markers |->
            [ marker |-> rows[a].markers[i],
              from |-> {<<ids[a][n][1], n>> : n \in {m \in DOMAIN ids[a] : ids[a][m] # <<>>}},
              temperature |-> <<rows[a].qtype, Len(rows[a].markers)>> ]]]
  BY Zenon DEF LayaForward, ids
<1>7. {<<ids[b][n][1], n>> : n \in {m \in DOMAIN ids[b] : ids[b][m] # <<>>}} = Placed(words)
  <2>1. L - Len(words) \in Int /\ words \in Lines
    BY <1>3
  <2> HIDE DEF words
  <2> DEFINE d == L - Len(words)
             x == ids[b]
  <2>2. x = Masked(words) \o Pads(d) /\ d \in Int
    BY <1>5, <2>1
  <2> HIDE DEF d, x
  <2>3. UnderMask(x) = Placed(words)
    BY <2>1, <2>2, PaddedRight
  <2> QED BY <2>3, Zenon DEF UnderMask, x
<1> QED BY <1>6, <1>7, Zenon DEF LayaReading

-----------------------------------------------------------------------------
(* jeff                                                                     *)

\* JeffDecision flattens as the other modules do.
LEMMA SameFlatten ==
    ASSUME NEW ss
    PROVE  Jeff!FlattenSeq(ss) = FlattenSeq(ss)
BY Zenon DEF Jeff!FlattenSeq, FlattenSeq

\* A text or what stands for it.
LEMMA OrIs ==
    ASSUME NEW value \in {None} \cup Texts, NEW default \in Lines
    PROVE  Jeff!Or(value, default) \in Lines
BY TextIsLine DEF Jeff!Or

\* The options of a question, each a text, and as many as it has criteria.
LEMMA JeffOptions ==
    ASSUME NEW q, GoodQuestion(q)
    PROVE  /\ DOMAIN Jeff!Options(q) = 1..Len(q.criteria)
           /\ Len(Jeff!Options(q)) = Len(q.criteria) /\ Len(q.criteria) \in Nat
           /\ \A i \in 1..Len(q.criteria) : Jeff!Options(q)[i] \in Lines
<1> DEFINE cs == q.criteria
           K == Len(cs)
           text(i) == CASE q.type = "choice" ->
                            <<cs[i].name>> \o
                            (IF cs[i].value = None THEN <<>> ELSE <<":">> \o cs[i].value)
                        [] q.type = "score" -> cs[i].value
                        [] OTHER -> Jeff!Or(cs[i].value, IF i = 1 THEN <<"No">> ELSE <<"Yes">>)
<1>1. /\ q.type \in {"noul", "choice", "score"}
      /\ K \in Nat /\ DOMAIN cs = 1..K
      /\ \A i \in 1..K : cs[i].name \in Words /\ cs[i].value \in {None} \cup Texts
      /\ q.type = "score" => \A i \in 1..K : cs[i].value # None
  BY Zenon DEF GoodQuestion
<1>2. Jeff!Options(q) = [i \in DOMAIN cs |-> text(i)]
  BY Zenon DEF Jeff!Options
<1>3. ASSUME NEW i \in 1..K PROVE text(i) \in Lines
  <2> DEFINE v == cs[i].value
             n == cs[i].name
  <2>1. n \in Strings /\ v \in {None} \cup Texts
    BY <1>1 DEF Strings
  <2>2. CASE q.type = "choice"
    <3>1. text(i) = <<n>> \o (IF v = None THEN <<>> ELSE <<":">> \o v)
      BY <2>2
    <3> HIDE DEF text, v, n
    <3>2. <<n>> \in Lines /\ <<":">> \in Lines /\ <<>> \in Lines
      BY <2>1 DEF Lines, Strings
    <3>3. v # None => v \in Lines
      BY <2>1, TextIsLine
    <3> QED BY <3>1, <3>2, TextConcat, <3>3
  <2>3. CASE q.type = "score"
    <3>1. text(i) = v /\ v \in Texts
      BY <1>1, <2>1, <2>3
    <3> HIDE DEF text, v
    <3> QED BY <3>1, TextIsLine
  <2>4. CASE q.type = "noul"
    <3>1. text(i) = Jeff!Or(v, IF i = 1 THEN <<"No">> ELSE <<"Yes">>)
      BY <2>4
    <3>2. <<"No">> \in Lines /\ <<"Yes">> \in Lines
      BY DEF Lines, Strings
    <3> DEFINE d == IF i = 1 THEN <<"No">> ELSE <<"Yes">>
    <3>3. d \in Lines
      BY <3>2
    <3> HIDE DEF text, v, d
    <3> QED BY <3>1, <2>1, <3>3, OrIs DEF d
  <2> QED BY <1>1, <2>2, <2>3, <2>4
<1> HIDE DEF text, K, cs
<1> QED BY <1>1, <1>2, <1>3 DEF K, cs

\* The prompt of a question that has codes is a line, and never empty.
LEMMA JeffPrompt ==
    ASSUME NEW q, GoodQuestion(q), Jeff!HasCodes(q), NEW state \in Texts,
           NEW row, row.state = state, row.question = q
    PROVE  Jeff!Prompt(row) \in Lines /\ Len(Jeff!Prompt(row)) \in Nat \ {0}
<1> DEFINE opts == Jeff!Options(q)
           K == Len(q.criteria)
           ss == [i \in DOMAIN opts |-> <<Codes[i], ":">> \o opts[i]]
           instr == Jeff!Or(q.instructions, <<"choose">>)
<1>1. /\ DOMAIN opts = 1..K /\ Len(opts) = K /\ K \in Nat
      /\ \A i \in 1..K : opts[i] \in Lines
  BY JeffOptions
<1>4. ss \in [1..K -> Seq(Strings)]
  <2>1. ASSUME NEW i \in 1..K PROVE <<Codes[i], ":">> \o opts[i] \in Seq(Strings)
    <3>1. <<Codes[i], ":">> \in Lines
      BY NamesAssumption, <1>1 DEF Strings, Lines, Texts, Jeff!HasCodes
    <3>2. opts[i] \in Lines
      BY <1>1
    <3> HIDE DEF opts
    <3> QED BY <3>1, <3>2, TextConcat DEF Lines
  <2> HIDE DEF opts
  <2> QED BY <1>1, <2>1
<1>5. FlattenSeq(ss) \in Lines
  <2> HIDE DEF ss
  <2> QED BY <1>1, <1>4, FlattenType DEF Lines
<1>6. <<"choose">> \in Lines /\ <<"State:">> \in Lines /\ <<"Question:">> \in Lines
      /\ <<"Options:">> \in Lines /\ <<"Return">> \in Lines
  BY DEF Strings, Lines
<1>7. instr \in Lines
  BY <1>6, OrIs DEF GoodQuestion
<1>8. Jeff!Prompt(row) = <<"State:">> \o state \o <<"Question:">> \o instr
                         \o <<"Options:">> \o FlattenSeq(ss) \o <<"Return">>
  BY SameFlatten DEF Jeff!Prompt
<1>9. state \in Lines
  BY TextIsLine
<1> DEFINE a1 == <<"State:">> \o state
           a2 == a1 \o <<"Question:">>
           a3 == a2 \o instr
           a4 == a3 \o <<"Options:">>
           a5 == a4 \o FlattenSeq(ss)
<1> HIDE DEF instr, ss
<1>10. a1 \in Lines
  BY <1>6, <1>9, TextConcat
<1> HIDE DEF a1
<1>11. a2 \in Lines
  BY <1>6, <1>10, TextConcat
<1> HIDE DEF a2
<1>12. a3 \in Lines
  BY <1>7, <1>11, TextConcat
<1> HIDE DEF a3
<1>13. a4 \in Lines
  BY <1>6, <1>12, TextConcat
<1> HIDE DEF a4
<1>14. a5 \in Lines
  BY <1>5, <1>13, TextConcat
<1> HIDE DEF a5
<1>17. Jeff!Prompt(row) = a5 \o <<"Return">>
  BY <1>8 DEF a1, a2, a3, a4, a5
<1> QED BY <1>17, <1>6, <1>14, TextConcat DEF Lines

\* How many of N rows the pass behind the first `done` takes.
ChunkSize(N, done) == IF done + BatchSize < N THEN BatchSize ELSE N - done

ChunkHolds(chunk, rows, N, done) ==
    LET m == ChunkSize(N, done)
    IN  /\ m \in Nat /\ done + m <= N /\ m <= BatchSize /\ (done < N => m # 0)
        /\ DOMAIN chunk = 1..m /\ Len(chunk) = m
        /\ \A r \in 1..m : done + r \in 1..N /\ chunk[r] = rows[done + r]

\* A chunk holds the rows behind those that are done, at most a batch of them.
LEMMA ChunkIs ==
    ASSUME NEW N \in Nat, NEW rows, DOMAIN rows = 1..N, Len(rows) = N, NEW done \in 0..N
    PROVE  ChunkHolds(Jeff!Chunk(rows, done), rows, N, done)
<1> DEFINE m == ChunkSize(N, done)
<1> USE DEF ChunkSize
<1>1. BatchSize \in Nat \ {0}
  BY BatchAssumption
<1>2. m \in Nat /\ done + m <= N /\ m <= BatchSize /\ (done < N => m # 0)
  BY <1>1
<1> DEFINE end == IF done + BatchSize < N THEN done + BatchSize ELSE N
           S == {rows[i] : i \in 1..N}
<1>3. Jeff!Chunk(rows, done) = SubSeq(rows, done + 1, end)
  BY Zenon DEF Jeff!Chunk
<1>4. end = done + m /\ end \in Int /\ done + 1 \in Int
  BY <1>1
<1>5. \A i \in (done + 1)..end : rows[i] \in S
  BY <1>1, <1>2, <1>4
<1> HIDE DEF end, S
<1> DEFINE c == SubSeq(rows, done + 1, end)
<1>6. /\ c \in Seq(S)
      /\ Len(c) = IF done + 1 <= end THEN end - (done + 1) + 1 ELSE 0
      /\ \A i \in 1..(end - (done + 1) + 1) : c[i] = rows[(done + 1) + i - 1]
  BY <1>4, <1>5, SubSeqProperties
<1>7. end - (done + 1) + 1 = m /\ \A i \in 1..m : (done + 1) + i - 1 = done + i
  BY <1>2, <1>4
<1> HIDE DEF c
<1>8. Len(c) = m /\ DOMAIN c = 1..m
  BY <1>2, <1>4, <1>6, <1>7
<1>9. \A r \in 1..m : done + r \in 1..N /\ c[r] = rows[done + r]
  BY <1>2, <1>6, <1>7
<1> HIDE DEF m
<1> QED BY <1>2, <1>3, <1>8, <1>9 DEF c, ChunkHolds, m

JeffReading(row) ==
    [j \in 1..Len(Jeff!Options(row.question)) |->
        [code |-> Codes[j], from |-> Distances(Jeff!Prompt(row))]]

\* One pass of jeff, over any rows with prompts and codes for their options.
LEMMA JeffReads ==
    ASSUME NEW m \in Nat \ {0}, NEW rows, DOMAIN rows = 1..m,
           \A r \in 1..m : /\ Jeff!Prompt(rows[r]) \in Lines
                           /\ Len(Jeff!Prompt(rows[r])) \in Nat \ {0}
                           /\ Jeff!HasCodes(rows[r].question)
    PROVE  Jeff!Distributions(Jeff!Prepare(rows)) = [r \in 1..m |-> JeffReading(rows[r])]
<1> DEFINE prompts == [r \in 1..m |-> Jeff!Prompt(rows[r])]
           f == [r \in 1..m |-> Len(prompts[r])]
           L == Jeff!Max({Len(prompts[r]) : r \in DOMAIN prompts})
           batch == Jeff!Prepare(rows)
<1>1. f \in [1..m -> Int] /\ \A r \in 1..m : Len(prompts[r]) \in Nat
  OBVIOUS
<1>2. {Len(prompts[r]) : r \in DOMAIN prompts} = {f[r] : r \in 1..m}
  OBVIOUS
<1>3. L = Max({f[r] : r \in 1..m})
  <2> HIDE DEF prompts, f
  <2> QED BY <1>2 DEF Max, Jeff!Max
<1>4. L \in Int /\ \A r \in 1..m : L - Len(prompts[r]) \in Nat
  <2>1. /\ Max({f[i] : i \in 1..m}) \in {f[i] : i \in 1..m}
        /\ \A i \in 1..m : f[i] <= Max({f[j] : j \in 1..m})
    <3> HIDE DEF f
    <3> QED BY <1>1, MaxOfSeq
  <2>2. \A r \in 1..m : f[r] = Len(prompts[r])
    OBVIOUS
  <2> HIDE DEF L, prompts, f
  <2>3. L \in {f[i] : i \in 1..m} /\ \A r \in 1..m : Len(prompts[r]) <= L
    BY <1>3, <2>1, <2>2
  <2>4. L \in Int
    BY <1>1, <2>3
  <2> QED BY <1>1, <2>3, <2>4
<1>5. batch.inputs = [r \in 1..m |-> Pads(L - Len(prompts[r])) \o Masked(prompts[r])]
  <2>1. batch.inputs = Jeff!Padded([r \in DOMAIN rows |-> Jeff!Prompt(rows[r])])
    BY Zenon DEF Jeff!Prepare
  <2>2. [r \in DOMAIN rows |-> Jeff!Prompt(rows[r])] = prompts
    OBVIOUS
  <2>3. Jeff!Padded(prompts) = [r \in DOMAIN prompts |->
             [i \in 1..(L - Len(prompts[r])) |-> <<>>] \o [i \in DOMAIN prompts[r] |-> <<prompts[r][i]>>]]
    BY Zenon DEF Jeff!Padded, Jeff!Pad, Jeff!Real
  <2>4. DOMAIN prompts = 1..m
    OBVIOUS
  <2> HIDE DEF prompts, L, batch
  <2> QED BY <2>1, <2>2, <2>3, <2>4, Zenon DEF Pads, Masked
<1>6. batch.counts = [r \in 1..m |-> Len(Jeff!Options(rows[r].question))]
  BY Zenon DEF Jeff!Prepare
<1>7. Jeff!Distributions(batch) = [r \in DOMAIN batch.inputs |->
                                      SubSeq(Jeff!Forward(batch)[r], 1, batch.counts[r])]
  BY Zenon DEF Jeff!Distributions
<1>8. Jeff!Forward(batch) = [r \in DOMAIN batch.inputs |-> [i \in DOMAIN Codes |->
        IF i > batch.counts[r] THEN None
        ELSE [code |-> Codes[i], from |-> Jeff!LastHidden(batch.inputs[r])]]]
  BY Zenon DEF Jeff!Forward
<1> HIDE DEF L, batch
<1>9. ASSUME NEW r \in 1..m
      PROVE  SubSeq(Jeff!Forward(batch)[r], 1, batch.counts[r]) = JeffReading(rows[r])
  <2> DEFINE prompt == Jeff!Prompt(rows[r])
             d == L - Len(prompt)
             input == batch.inputs[r]
             K == Len(Jeff!Options(rows[r].question))
             F == Jeff!Forward(batch)[r]
             o == [code : {Codes[j] : j \in DOMAIN Codes}, from : {Distances(prompt)}]
  <2>1. prompt \in Lines /\ Len(prompt) # 0 /\ d \in Nat
    BY <1>4
  <2>2. input = Pads(d) \o Masked(prompt)
    BY <1>5
  <2>3. batch.counts[r] = K
    BY <1>6
  <2>4. K \in 1..Len(Codes) /\ Len(Codes) \in Nat /\ DOMAIN Codes = 1..Len(Codes)
    BY NamesAssumption DEF Jeff!HasCodes, Texts
  <2> HIDE DEF prompt, d, K
  <2>5. LastPlace(input) # <<>> /\ FromEnd(input) = Distances(prompt)
    BY <2>1, <2>2, PaddedLeft
  <2>6. Jeff!LastHidden(input) = Distances(prompt)
    <3>1. input[Len(input)] # <<>>
      BY <2>5 DEF LastPlace
    <3>2. Jeff!LastHidden(input) = IF input[Len(input)] = <<>> THEN {} ELSE FromEnd(input)
      BY Zenon DEF Jeff!LastHidden, Jeff!Pad, FromEnd
    <3> HIDE DEF input
    <3> QED BY <2>5, <3>1, <3>2
  <2>7. DOMAIN batch.inputs = 1..m
    BY <1>5
  <2>8. F = [i \in DOMAIN Codes |-> IF i > K THEN None
                 ELSE [code |-> Codes[i], from |-> Distances(prompt)]]
    <3>1. F = [i \in DOMAIN Codes |-> IF i > batch.counts[r] THEN None
                 ELSE [code |-> Codes[i], from |-> Jeff!LastHidden(batch.inputs[r])]]
      BY <1>8, <2>7, Zenon
    <3> HIDE DEF F
    <3> QED BY <2>3, <2>6, <3>1
  <2> HIDE DEF F, input
  <2>9. SubSeq(F, 1, K) = [j \in 1..K |-> [code |-> Codes[j], from |-> Distances(prompt)]]
    <3> DEFINE e(j) == [code |-> Codes[j], from |-> Distances(prompt)]
               S == {e(j) : j \in DOMAIN Codes}
    <3>1. \A j \in 1..K : F[j] = e(j) /\ j \in DOMAIN Codes
      BY <2>4, <2>8
    <3>2. \A j \in 1..K : e(j) \in S
      BY <3>1
    <3> HIDE DEF e, S
    <3>3. K \in Int /\ 1 \in Int /\ 1 <= K /\ K - 1 + 1 = K /\ (\A j \in 1..K : 1 + j - 1 = j)
      BY <2>4
    <3>4. /\ SubSeq(F, 1, K) \in Seq(S)
          /\ Len(SubSeq(F, 1, K)) = IF 1 <= K THEN K - 1 + 1 ELSE 0
          /\ \A i \in 1..(K - 1 + 1) : SubSeq(F, 1, K)[i] = F[1 + i - 1]
      BY <3>1, <3>2, <3>3, SubSeqProperties
    <3> DEFINE s == SubSeq(F, 1, K)
    <3>5. s \in Seq(S) /\ Len(s) = K /\ (\A i \in 1..K : s[i] = e(i))
      BY <3>1, <3>3, <3>4
    <3> HIDE DEF s
    <3> QED BY <3>5 DEF s, e
  <2> QED BY <2>3, <2>9 DEF JeffReading, F, K, prompt
<1>10. DOMAIN batch.inputs = 1..m
  BY <1>5
<1> QED BY <1>7, <1>9, <1>10, Zenon DEF batch

\* The tokens a pass bills are those of its prompts.
LEMMA JeffTokens ==
    ASSUME NEW rows
    PROVE  Jeff!Prepare(rows).tokens = Total([r \in DOMAIN rows |-> Len(Jeff!Prompt(rows[r]))])
<1> DEFINE prompts == [r \in DOMAIN rows |-> Jeff!Prompt(rows[r])]
<1>1. Jeff!Prepare(rows).tokens = Jeff!FoldLeft(+, 0, [r \in DOMAIN rows |-> Len(prompts[r])])
  BY Zenon DEF Jeff!Prepare
<1>2. [r \in DOMAIN rows |-> Len(prompts[r])] = [r \in DOMAIN rows |-> Len(Jeff!Prompt(rows[r]))]
  OBVIOUS
<1> DEFINE ss == [r \in DOMAIN rows |-> Len(Jeff!Prompt(rows[r]))]
<1> HIDE DEF ss
<1>3. Jeff!FoldLeft(+, 0, ss) = FoldLeft(+, 0, ss)
  BY Zenon DEF Jeff!FoldLeft, FoldLeft, Jeff!MapThenFoldSet, MapThenFoldSet, Jeff!Max, Max
<1> QED BY <1>1, <1>2, <1>3 DEF Total, ss

-----------------------------------------------------------------------------
(* What every engine reads of a prepared question                           *)

\* What kev makes of a prepared question.
LEMMA KevQuestionIs ==
    ASSUME NEW p, NEW q, GoodPrepared(p, q)
    PROVE  /\ KevQuestion(p) \in KevQuestions
           /\ Len(KevQuestion(p).options) = Len(p.options)
<1> DEFINE K == Len(p.options)
           text(i) == LET description == p.options[i].description
                      IN  CASE p.type = "choice" -> OptionText(p.options[i].name, description)
                            [] p.type = "noul" -> OptionText(<<"no", "yes">>[i], description)
                            [] OTHER -> description
           options == [i \in DOMAIN p.options |-> text(i)]
<1>1. /\ K \in Nat /\ DOMAIN p.options = 1..K
      /\ \A i \in 1..K : p.options[i].name \in Strings /\ p.options[i].description \in Lines
      /\ p.type \in {"noul", "choice", "score"}
      /\ p.type = "noul" => K = 2
      /\ p.instructions \in Lines
  BY Zenon DEF GoodPrepared
<1>2. KevQuestion(p) = [instr |-> p.instructions, options |-> options]
  BY Zenon DEF KevQuestion
<1>3. ASSUME NEW name \in Strings, NEW d \in Lines PROVE OptionText(name, d) \in Lines
  <2>1. <<name>> \in Lines /\ <<name, ":">> \in Lines
    BY DEF Lines, Strings
  <2> QED BY <2>1, TextConcat DEF OptionText
<1>4. ASSUME NEW i \in 1..K PROVE text(i) \in Lines
  <2> DEFINE n == p.options[i].name
             d == p.options[i].description
  <2>1. n \in Strings /\ d \in Lines
    BY <1>1
  <2>2. CASE p.type = "choice"
    <3>1. text(i) = OptionText(n, d)
      BY <2>2
    <3> HIDE DEF text, n, d
    <3> QED BY <1>3, <2>1, <3>1
  <2>3. CASE p.type = "noul"
    <3>1. text(i) = OptionText(<<"no", "yes">>[i], d)
      BY <2>3
    <3>4. <<"no", "yes">>[i] \in Strings
      BY <1>1, <2>3 DEF Strings
    <3> DEFINE w == <<"no", "yes">>[i]
    <3> HIDE DEF text, n, d, w
    <3> QED BY <3>1, <1>3, <2>1, <3>4 DEF w
  <2>4. CASE p.type = "score"
    <3>1. text(i) = d
      BY <2>4
    <3> HIDE DEF text, n, d
    <3> QED BY <2>1, <3>1
  <2> QED BY <1>1, <2>2, <2>3, <2>4
<1> HIDE DEF text
<1>5. options \in Seq(Lines) /\ Len(options) = K
  <2> HIDE DEF K
  <2>1. options = [i \in 1..K |-> text(i)] /\ K \in Nat
    BY <1>1
  <2> HIDE DEF options
  <2> QED BY <1>4, <2>1
<1> HIDE DEF options, K
<1> QED BY <1>2, <1>5, <1>1 DEF K, KevQuestions

KevEnds(state, q) == [j \in 1..Len(q.options) |-> KevEnd(state, q, j)]

\* A record of one question is the row of that question.
LEMMA OneEncodes ==
    ASSUME NEW state \in Lines, NEW kq \in KevQuestions
    PROVE  Encodes(Encode([state |-> state, questions |-> <<kq>>], FALSE),
                   KevRow(state, kq), Len(StateIds(state)), KevEnds(state, kq))
<1> DEFINE enc == Encode([state |-> state, questions |-> <<kq>>], FALSE)
           row == KevRow(state, kq)
           ends == KevEnds(state, kq)
           n0 == Len(StateIds(state))
<1>1. Spells(enc, state, kq)
  BY EncodedOne
<1> HIDE DEF enc
<1>2. n0 \in Nat \ {0} /\ Len(Branch(kq)) \in Nat \ {0} /\ StateIds(state) \in Lines
      /\ Branch(kq) \in Lines
  BY StateIdsType, BranchType
<1>3. row \in Lines /\ Len(row) = n0 + Len(Branch(kq))
  BY <1>2, TextConcat DEF KevRow
<1>5. \A j \in DOMAIN ends : ends[j] \in 1..Len(row)
  BY KevEndIs DEF KevEnds
<1>6. KevTokens(enc.tokens, row, n0)
  <2>1. 1 \in Nat \ {0}
    OBVIOUS
  <2>2. \A i \in 1..Len(row) : enc.tokens[i].seg = IF i <= n0 THEN 0 ELSE 1
    BY <1>1 DEF Spells
  <2>3. \E k \in Nat \ {0} : \A i \in 1..Len(row) : enc.tokens[i].seg = IF i <= n0 THEN 0 ELSE k
    BY <2>1, <2>2, Zenon
  <2>4. /\ enc.tokens \in Seq(Tokens) /\ Len(enc.tokens) = Len(row)
        /\ \A i \in 1..Len(row) : enc.tokens[i].id = row[i] /\ enc.tokens[i].pos = i - 1
    BY <1>1 DEF Spells
  <2>5. n0 \in Nat
    BY <1>2
  <2> HIDE DEF n0, row
  <2> QED BY <1>3, <2>3, <2>4, <2>5 DEF KevTokens
<1>7. Len(row) # 0 /\ n0 <= Len(row)
  BY <1>2, <1>3
<1>8. enc.decide = [k \in 1..1 |-> Len(row)] /\ enc.opts = [k \in 1..1 |-> ends]
  BY <1>1, Zenon DEF KevEnds, Spells
<1> QED BY <1>5, <1>6, <1>7, <1>8 DEF Encodes, enc

\* What predict makes of a question is the row it is read from.
LEMMA KevEncodes ==
    ASSUME NEW state \in Lines, NEW p, NEW q, GoodPrepared(p, q)
    PROVE  Encodes(Encode(KevRecord(state, p), FALSE),
                   KevRow(state, KevQuestion(p)), Len(StateIds(state)),
                   KevEnds(state, KevQuestion(p)))
<1>1. KevQuestion(p) \in KevQuestions
  BY KevQuestionIs
<1> QED BY <1>1, OneEncodes, Zenon DEF KevRecord

\* What is read of it, in a batch, is what is read of it alone.
AsAlone(state, p) ==
    KevReading(KevRow(state, KevQuestion(p)), KevEnds(state, KevQuestion(p)))
        = [j \in 1..Len(p.options) |-> KevAlone(state, p, j)]

\* The reading of a question's row is what is read of it alone.
LEMMA KevAloneIs ==
    ASSUME NEW state \in Lines, NEW p, NEW q, GoodPrepared(p, q)
    PROVE  AsAlone(state, p)
<1> DEFINE kq == KevQuestion(p)
           row == KevRow(state, kq)
           ends == KevEnds(state, kq)
<1>1. kq \in KevQuestions /\ Len(kq.options) = Len(p.options)
  BY KevQuestionIs
<1>2. \A j \in 1..Len(p.options) :
        KevAlone(state, p, j) = [decide |-> FirstOf(row, Len(row)),
                                 option |-> FirstOf(row, KevEnd(state, kq, j))]
  BY Zenon DEF KevAlone, FirstOf, KevRow, KevEnd
<1> HIDE DEF row
<1>3. KevReading(row, ends) = [j \in DOMAIN ends |->
          [decide |-> FirstOf(row, Len(row)), option |-> FirstOf(row, ends[j])]]
  BY DEF KevReading
<1>4. DOMAIN ends = 1..Len(p.options) /\ \A j \in DOMAIN ends : ends[j] = KevEnd(state, kq, j)
  BY <1>1 DEF KevEnds
<1> HIDE DEF ends, kq
<1>5. KevReading(row, ends) = [j \in 1..Len(p.options) |-> KevAlone(state, p, j)]
  BY <1>2, <1>3, <1>4
<1> QED BY <1>5, Zenon DEF AsAlone, row, ends, kq

-----------------------------------------------------------------------------
(* One pass                                                                 *)

Items(content) == [i \in DOMAIN content.questions |-> PrepareQuestion(content.questions[i])]

Kevs == {"kev", "kev_hybrid"}

\* What engine `e` reads of a question that is asked alone.
Alone(e, content, p) ==
    [j \in 1..Len(p.options) |->
        CASE e \in Kevs -> KevAlone(Render(content.state), p, j)
          [] e = "laya" -> LayaAlone(Render(content.state), p, j)
          [] OTHER -> JeffAlone(content.state, p, j)]

\* How many rows the pass behind the first `done` takes.
Pass(e, N, done) ==
    IF e = "jeff" THEN ChunkSize(N, done) ELSE N

\* The readings of a pass are those of the questions whose turn it is.
ReadsAlone(readings, e, content, done) ==
    LET N == Len(content.questions)
        m == Pass(e, N, done)
    IN  /\ DOMAIN readings = 1..m /\ Len(readings) = m
        /\ \A r \in 1..m : readings[r] = Alone(e, content, Items(content)[done + r])

\* One item per question, in order.
LEMMA ItemsAre ==
    ASSUME NEW content, GoodContent(content)
    PROVE  /\ DOMAIN Items(content) = 1..Len(content.questions)
           /\ Len(Items(content)) = Len(content.questions)
           /\ \A i \in 1..Len(content.questions) :
                 /\ GoodQuestion(content.questions[i])
                 /\ Items(content)[i] = PrepareQuestion(content.questions[i])
                 /\ GoodPrepared(Items(content)[i], content.questions[i])
<1>1. /\ Len(content.questions) \in Nat /\ DOMAIN content.questions = 1..Len(content.questions)
      /\ \A i \in 1..Len(content.questions) : GoodQuestion(content.questions[i])
  BY Zenon DEF GoodContent
<1>2. /\ DOMAIN Items(content) = 1..Len(content.questions)
      /\ \A i \in 1..Len(content.questions) :
            Items(content)[i] = PrepareQuestion(content.questions[i])
  BY <1>1, Zenon DEF Items
<1>3. Len(Items(content)) = Len(content.questions)
  BY <1>1 DEF Items
<1>4. \A i \in 1..Len(content.questions) :
          GoodPrepared(Items(content)[i], content.questions[i])
  <2> TAKE i \in 1..Len(content.questions)
  <2> DEFINE q == content.questions[i]
  <2>1. GoodQuestion(q) /\ Items(content)[i] = PrepareQuestion(q)
    BY <1>1, <1>2
  <2> HIDE DEF q
  <2> QED BY <2>1, PreparedIs DEF q
<1> QED BY <1>1, <1>2, <1>3, <1>4

\* One row per item, made from that item only.
LEMMA RowsAre ==
    ASSUME NEW content, GoodContent(content), engine \in Engines
    PROVE  LET rows == Rows(Items(content), content)
               N == Len(content.questions)
           IN  /\ DOMAIN rows = 1..N /\ Len(rows) = N
               /\ \A i \in 1..N : rows[i] =
                     CASE engine \in Kevs ->
                             Encode(KevRecord(Render(content.state), Items(content)[i]), FALSE)
                       [] engine = "laya" ->
                             BuildSequence(Render(content.state), Internal(Items(content)[i]))
                       [] OTHER -> [state |-> content.state, question |-> content.questions[i]]
<1> DEFINE rows == Rows(Items(content), content)
           N == Len(content.questions)
           row(i) == CASE engine \in Kevs ->
                             Encode(KevRecord(Render(content.state), Items(content)[i]), FALSE)
                       [] engine = "laya" ->
                             BuildSequence(Render(content.state), Internal(Items(content)[i]))
                       [] OTHER -> [state |-> content.state, question |-> Items(content)[i].raw]
<1>1. N \in Nat
  BY Zenon DEF GoodContent
<1>2. DOMAIN Items(content) = 1..N /\ \A i \in 1..N : Items(content)[i].raw = content.questions[i]
  BY ItemsAre DEF GoodPrepared
<1>3. rows = [i \in 1..N |-> row(i)]
  BY <1>2, Zenon DEF Rows, Kevs, IsKev
<1> HIDE DEF rows, row
<1>4. DOMAIN rows = 1..N /\ Len(rows) = N /\ \A i \in 1..N : rows[i] = row(i)
  BY <1>1, <1>3
<1> QED BY <1>2, <1>4, Zenon DEF rows, row

\* kev reads every question of a batch as it would alone.
LEMMA KevReadsAlone ==
    ASSUME NEW content, GoodContent(content), engine \in Kevs
    PROVE  ReadsAlone(Readings(Rows(Items(content), content), 0), engine, content, 0)
<1> DEFINE rows == Rows(Items(content), content)
           N == Len(content.questions)
           state == Render(content.state)
           items == Items(content)
           R == Readings(rows, 0)
           rr == [b \in 1..N |-> KevRow(state, KevQuestion(items[b]))]
           nn == [b \in 1..N |-> Len(StateIds(state))]
           ee == [b \in 1..N |-> KevEnds(state, KevQuestion(items[b]))]
<1>1. N \in Nat \ {0} /\ content.state \in Texts
  BY Zenon DEF GoodContent
<1>2. engine \in Engines /\ engine # "laya" /\ engine # "jeff"
  BY DEF Kevs, Engines
<1>3. state \in Lines
  BY <1>1, RenderIs
<1>4. \A b \in 1..N : GoodPrepared(items[b], content.questions[b])
  BY ItemsAre
<1> HIDE DEF state, items
<1>5. DOMAIN rows = 1..N /\ \A b \in 1..N : rows[b] = Encode(KevRecord(state, items[b]), FALSE)
  BY <1>2, RowsAre DEF state, items
<1> HIDE DEF rows
<1> HIDE DEF N
<1>6. ASSUME NEW b \in 1..N
      PROVE  /\ Encodes(rows[b], rr[b], nn[b], ee[b])
             /\ KevReading(rr[b], ee[b]) = Alone(engine, content, items[b])
  <2> DEFINE p == items[b]
             q == content.questions[b]
  <2>1. GoodPrepared(p, q) /\ rows[b] = Encode(KevRecord(state, p), FALSE)
    BY <1>4, <1>5
  <2>2. rr[b] = KevRow(state, KevQuestion(p)) /\ nn[b] = Len(StateIds(state))
        /\ ee[b] = KevEnds(state, KevQuestion(p))
    OBVIOUS
  <2> HIDE DEF p, q, rr, nn, ee
  <2>4. AsAlone(state, p)
    BY <1>3, <2>1, KevAloneIs
  <2>5. Alone(engine, content, p) = [j \in 1..Len(p.options) |-> KevAlone(state, p, j)]
    BY <1>2, Zenon DEF Alone, state
  <2>6. KevReading(rr[b], ee[b]) = Alone(engine, content, p)
    BY <2>2, <2>4, <2>5, Zenon DEF AsAlone
  <2> QED BY <2>6, <1>3, <2>1, <2>2, KevEncodes DEF p
<1> HIDE DEF rr, nn, ee
<1>7. DOMAIN R = 1..N /\ Len(R) = N /\ \A b \in 1..N : R[b] = KevReading(rr[b], ee[b])
  <2>1. EncodesAll(rows, N, rr, nn, ee)
    BY <1>5, <1>6 DEF EncodesAll
  <2>2. DOMAIN rows = 1..N
    BY <1>5
  <2>3. CASE engine = "kev"
    <3> DEFINE packed == ForwardPacked(rows, FALSE)
    <3>1. AllRead(packed, N, rr, ee)
      BY <1>1, <2>1, PackedReads
    <3>2. R = [b \in DOMAIN rows |-> packed[b][1]]
      BY <2>3, Zenon DEF Readings
    <3> HIDE DEF R, packed
    <3> QED BY <1>1, <2>2, <3>1, <3>2 DEF AllRead
  <2>4. CASE engine = "kev_hybrid"
    <3>1. AllRead(ForwardRows(rows), N, rr, ee)
      BY <1>1, <2>1, RowsRead
    <3>2. R = [b \in DOMAIN rows |-> ForwardRows(rows)[b][1]]
      BY <2>4, Zenon DEF Readings
    <3> HIDE DEF R
    <3> QED BY <1>1, <2>2, <3>1, <3>2 DEF AllRead
  <2> QED BY <2>3, <2>4 DEF Kevs
<1>8. Pass(engine, N, 0) = N /\ \A r \in 1..N : 0 + r = r
  BY <1>2 DEF Pass
<1> HIDE DEF R, N
<1> QED BY <1>7, <1>8, <1>6 DEF ReadsAlone, R, N, rows, items

\* So does laya.
LEMMA LayaReadsAlone ==
    ASSUME NEW content, GoodContent(content), engine = "laya"
    PROVE  ReadsAlone(Readings(Rows(Items(content), content), 0), engine, content, 0)
<1> DEFINE rows == Rows(Items(content), content)
           N == Len(content.questions)
           state == Render(content.state)
           items == Items(content)
           R == Readings(rows, 0)
<1>1. N \in Nat \ {0} /\ content.state \in Texts
  BY Zenon DEF GoodContent
<1>2. engine \in Engines /\ engine \notin Kevs
  BY DEF Kevs, Engines
<1>3. state \in Lines
  BY <1>1, RenderIs
<1>4. \A b \in 1..N : GoodPrepared(items[b], content.questions[b])
  BY ItemsAre
<1> HIDE DEF state, items
<1>5. DOMAIN rows = 1..N /\ Len(rows) = N
      /\ \A b \in 1..N : rows[b] = BuildSequence(state, Internal(items[b]))
  BY <1>2, RowsAre DEF state, items
<1> HIDE DEF rows
<1>6. ASSUME NEW b \in 1..N
      PROVE  /\ rows[b].ids \in Lines
             /\ LayaReading(rows[b]) = Alone(engine, content, items[b])
  <2> DEFINE p == items[b]
             q == content.questions[b]
             row == rows[b]
  <2>1. GoodPrepared(p, q) /\ row = BuildSequence(state, Internal(p))
    BY <1>4, <1>5
  <2> HIDE DEF p, q, row
  <2>2. LayaRowIs(row, Len(p.options), p.type)
    BY <1>3, <2>1, LayaRow
  <2>3. LayaReading(row) = [j \in 1..Len(p.options) |->
            [ marker |-> row.markers[j], from |-> Placed(row.ids),
              temperature |-> <<p.type, Len(p.options)>> ]]
    BY <2>2, Zenon DEF LayaReading, LayaRowIs
  <2>4. \A j \in 1..Len(p.options) : LayaAlone(state, p, j) =
            [ marker |-> row.markers[j], from |-> Placed(row.ids),
              temperature |-> <<p.type, Len(p.options)>> ]
    BY <2>1, Zenon DEF LayaAlone
  <2>5. Alone(engine, content, p) = [j \in 1..Len(p.options) |-> LayaAlone(state, p, j)]
    BY <1>2, Zenon DEF Alone, state
  <2>6. [j \in 1..Len(p.options) |-> LayaAlone(state, p, j)] = LayaReading(row)
    BY <2>3, <2>4, Zenon
  <2> QED BY <2>2, <2>5, <2>6 DEF p, row, LayaRowIs
<1>7. R = LayaForward(rows)
  BY <1>2 DEF Readings, Kevs
<1>8. DOMAIN R = 1..N /\ Len(R) = N
  <2>1. R = [b \in 1..N |-> R[b]]
    BY <1>5, <1>7, Zenon DEF LayaForward
  <2> HIDE DEF R
  <2> QED BY <1>1, <2>1
<1>9. \A b \in 1..N : R[b] = LayaReading(rows[b])
  BY <1>6, <1>1, <1>5, LayaReads, <1>7
<1>10. Pass(engine, N, 0) = N /\ \A r \in 1..N : 0 + r = r
  BY <1>2 DEF Pass
<1> HIDE DEF R, N
<1> QED BY <1>8, <1>10, <1>6, <1>9 DEF ReadsAlone, R, N, rows, items

\* So does jeff, in every chunk.
LEMMA JeffReadsAlone ==
    ASSUME NEW content, GoodContent(content), engine = "jeff", Admitted(content),
           NEW done \in Nat, done < Len(content.questions)
    PROVE  ReadsAlone(Readings(Rows(Items(content), content), done), engine, content, done)
<1> DEFINE rows == Rows(Items(content), content)
           N == Len(content.questions)
           items == Items(content)
           m == Pass(engine, N, done)
           chunk == Jeff!Chunk(rows, done)
           R == Readings(rows, done)
<1>1. N \in Nat \ {0} /\ content.state \in Texts
  BY Zenon DEF GoodContent
<1>2. engine \in Engines /\ engine \notin Kevs /\ engine # "laya"
  BY DEF Kevs, Engines
<1>3. \A b \in 1..N : /\ GoodPrepared(items[b], content.questions[b])
                      /\ GoodQuestion(content.questions[b])
  BY ItemsAre
<1>4. \A b \in 1..N : Jeff!HasCodes(content.questions[b])
  <2>1. DOMAIN items = 1..N /\ \A b \in 1..N : items[b].raw = content.questions[b]
    BY <1>3, ItemsAre DEF GoodPrepared
  <2>2. \A b \in DOMAIN items : Jeff!HasCodes(items[b].raw)
    BY Zenon DEF Admitted, Items
  <2> HIDE DEF items
  <2> QED BY <2>1, <2>2
<1> HIDE DEF items
<1>5. DOMAIN rows = 1..N /\ Len(rows) = N
      /\ \A b \in 1..N : rows[b] = [state |-> content.state, question |-> content.questions[b]]
  BY <1>2, RowsAre
<1> HIDE DEF rows
<1>6. /\ m \in Nat \ {0}
      /\ DOMAIN chunk = 1..m
      /\ \A r \in 1..m : done + r \in 1..N /\ chunk[r] = rows[done + r]
  <2>1. m = ChunkSize(N, done)
    BY DEF Pass
  <2>2. done \in 0..N /\ N \in Nat
    BY <1>1
  <2> HIDE DEF m, N
  <2>3. ChunkHolds(chunk, rows, N, done)
    BY <1>5, <2>2, ChunkIs
  <2>4. done < N
    BY DEF N
  <2> QED BY <2>1, <2>3, <2>4, Zenon DEF ChunkHolds
<1> HIDE DEF chunk, m
<1>7. ASSUME NEW r \in 1..m
      PROVE  /\ Jeff!Prompt(chunk[r]) \in Lines
             /\ Len(Jeff!Prompt(chunk[r])) \in Nat \ {0}
             /\ Jeff!HasCodes(chunk[r].question)
             /\ JeffReading(chunk[r]) = Alone(engine, content, items[done + r])
  <2> DEFINE b == done + r
             q == content.questions[b]
             row == chunk[r]
             p == items[b]
  <2>1. row = [state |-> content.state, question |-> q] /\ b \in 1..N
    BY <1>5, <1>6
  <2>2. GoodQuestion(q) /\ Jeff!HasCodes(q) /\ GoodPrepared(p, q)
    BY <1>3, <1>4, <2>1
  <2> HIDE DEF q, row, p, b
  <2>3. row.state = content.state /\ row.question = q
    BY <2>1
  <2>5. Len(Jeff!Options(q)) = Len(p.options) /\ p.raw = q
    BY <2>2, JeffOptions DEF GoodPrepared
  <2>6. JeffReading(row) = [j \in 1..Len(p.options) |->
            [code |-> Codes[j], from |-> Distances(Jeff!Prompt(row))]]
    BY <2>3, <2>5 DEF JeffReading
  <2>7. \A j \in 1..Len(p.options) : JeffAlone(content.state, p, j) =
            [code |-> Codes[j], from |-> Distances(Jeff!Prompt(row))]
    BY <2>1, <2>5, Zenon DEF JeffAlone, Distances
  <2>8. Alone(engine, content, p) = [j \in 1..Len(p.options) |-> JeffAlone(content.state, p, j)]
    BY <1>2, Zenon DEF Alone
  <2>9. [j \in 1..Len(p.options) |-> JeffAlone(content.state, p, j)] = JeffReading(row)
    BY <2>6, <2>7, Zenon
  <2> QED BY <2>2, <2>3, <2>8, <2>9, <1>1, JeffPrompt DEF row, p, b
<1>9. R = [r \in 1..m |-> JeffReading(chunk[r])]
  BY <1>6, <1>7, JeffReads, <1>2 DEF Readings, Kevs, chunk
<1> HIDE DEF R
<1> QED BY <1>7, <1>9, <1>6 DEF ReadsAlone, R, rows, m, items

\* One pass of any engine.
LEMMA PassReads ==
    ASSUME NEW content, GoodContent(content), Admitted(content), engine \in Engines,
           NEW done \in Nat, done < Len(content.questions), engine # "jeff" => done = 0
    PROVE  ReadsAlone(Readings(Rows(Items(content), content), done), engine, content, done)
<1>1. CASE engine \in Kevs
  BY <1>1, KevReadsAlone DEF Kevs
<1>2. CASE engine = "laya"
  BY <1>2, LayaReadsAlone
<1>3. CASE engine = "jeff"
  BY <1>3, JeffReadsAlone
<1> QED BY <1>1, <1>2, <1>3 DEF Engines, Kevs

-----------------------------------------------------------------------------
(* The inductive invariant                                                  *)

Fields == {"at", "content", "items", "rows", "predicted", "response"}

\* The call, field by field.
IsCall(at, content, items, rows, predicted, response) ==
    /\ DOMAIN call = Fields
    /\ call.at = at /\ call.content = content /\ call.items = items /\ call.rows = rows
    /\ call.predicted = predicted /\ call.response = response

RowsFor(content) == Rows(Items(content), content)

Refusal(code, cause) == [NoResponse EXCEPT !.code = code, !.cause = cause]

\* The first n questions are through, and what was read of each is what is read of
\* it alone.
Through(content, predicted, n) ==
    /\ predicted \in Seq(UNION {Softmax(Alone(engine, content, Items(content)[b])) :
                                b \in 1..Len(content.questions)})
    /\ Len(predicted) = n /\ n <= Len(content.questions)
    /\ \A b \in 1..n : predicted[b] \in Softmax(Alone(engine, content, Items(content)[b]))

AllValid(content, predicted) ==
    \A i \in 1..Len(content.questions) : Valid(Items(content)[i], predicted[i])

\* The item of a question.
ItemOf(items, qid) == CHOOSE i \in DOMAIN items : items[i].qid = qid
Qids(items) == {p.qid : p \in Range(items)}

\* What Build answers when nothing is wrong.
Served(items, rows, predicted) ==
    [ code |-> 200, cause |-> "answered",
      answers |-> [qid \in Qids(items) |->
          BuildAnswer(items[ItemOf(items, qid)], predicted[ItemOf(items, qid)])],
      native |-> IF engine = "laya"
                 THEN [qid \in Qids(items) |-> predicted[ItemOf(items, qid)].reading]
                 ELSE None,
      tokens |-> InputTokens(rows) ]

Preparing(content) ==
    IsCall("prepare", content, <<>>, <<>>, <<>>, NoResponse)

BeingEncoded(content) ==
    IsCall("encode", content, Items(content), <<>>, <<>>, NoResponse)

Refused(content) ==
    IsCall("answered", content, Items(content), <<>>, <<>>, Refusal(500, "too_long"))

Forwarded(content, predicted) ==
    /\ IsCall("forward", content, Items(content), RowsFor(content), predicted, NoResponse)
    /\ Through(content, predicted, Len(predicted))
    /\ Len(predicted) < Len(content.questions)
    /\ engine # "jeff" => Len(predicted) = 0

PassFailed(content, predicted) ==
    /\ \E code \in {500, 503} :
          IsCall("answered", content, Items(content), RowsFor(content), predicted,
                      Refusal(code, "forward"))
    /\ Through(content, predicted, Len(predicted))

Built(content, predicted) ==
    /\ IsCall("build", content, Items(content), RowsFor(content), predicted, NoResponse)
    /\ Through(content, predicted, Len(content.questions))

NotANumber(content, predicted) ==
    /\ IsCall("answered", content, Items(content), RowsFor(content), predicted,
                   Refusal(500, "distribution"))
    /\ Through(content, predicted, Len(content.questions))
    /\ ~AllValid(content, predicted)

Answers(content, predicted) ==
    /\ IsCall("answered", content, Items(content), RowsFor(content), predicted,
                   Served(Items(content), RowsFor(content), predicted))
    /\ Through(content, predicted, Len(content.questions))
    /\ AllValid(content, predicted)

Reached(content) ==
    \/ Preparing(content) \/ BeingEncoded(content) \/ Refused(content)
    \/ \E predicted : \/ Forwarded(content, predicted) \/ PassFailed(content, predicted)
                      \/ Built(content, predicted)
                      \/ NotANumber(content, predicted) \/ Answers(content, predicted)

IInv ==
    /\ engine \in Engines
    /\ call = Idle \/ \E content \in Contents : Admitted(content) /\ Reached(content)

\* What is admitted and prepared depends on the engine only, and that stays.
LEMMA SameEngine ==
    ASSUME engine' = engine, NEW content
    PROVE  /\ Admitted(content)' <=> Admitted(content)
           /\ RowsFor(content)' = RowsFor(content)
<1>1. Admitted(content)' <=> Admitted(content)
  BY Zenon DEF Admitted, IsKev
<1>2. RowsFor(content)' = RowsFor(content)
  BY Zenon DEF RowsFor, Rows, IsKev
<1> QED BY <1>1, <1>2

\* It holds at first.
LEMMA InitIs == Init => IInv
BY DEF Init, IInv

\* It holds when nothing happens.
LEMMA StutterIs == IInv /\ UNCHANGED vars => IInv'
<1> SUFFICES ASSUME IInv, UNCHANGED vars PROVE IInv'
  OBVIOUS
<1>1. engine' = engine /\ call' = call
  BY DEF vars
<1>2. ASSUME NEW content PROVE (Admitted(content) /\ Reached(content))' <=> (Admitted(content) /\ Reached(content))
  <2>1. Admitted(content)' <=> Admitted(content)
    BY <1>1, SameEngine
  <2>2. RowsFor(content)' = RowsFor(content)
    BY <1>1, SameEngine
  <2>3. \A predicted : Served(Items(content), RowsFor(content), predicted)'
                          = Served(Items(content), RowsFor(content), predicted)
    BY <1>1, <2>2, ZenonT(40) DEF Served, InputTokens, IsKev
  <2>4. \A predicted, n : Through(content, predicted, n)' <=> Through(content, predicted, n)
    BY <1>1, Zenon DEF Through
  <2>5. /\ Preparing(content)' <=> Preparing(content)
        /\ BeingEncoded(content)' <=> BeingEncoded(content)
        /\ Refused(content)' <=> Refused(content)
    BY <1>1, Zenon DEF Preparing, BeingEncoded, Refused, IsCall
  <2>6. \A predicted : Forwarded(content, predicted)' <=> Forwarded(content, predicted)
    BY <1>1, <2>2, <2>4, Zenon DEF Forwarded, IsCall
  <2>7. \A predicted : PassFailed(content, predicted)' <=> PassFailed(content, predicted)
    BY <1>1, <2>2, <2>4 DEF PassFailed, IsCall
  <2>8. \A predicted : Built(content, predicted)' <=> Built(content, predicted)
    BY <1>1, <2>2, <2>4, Zenon DEF Built, IsCall
  <2>9. \A predicted : NotANumber(content, predicted)' <=> NotANumber(content, predicted)
    BY <1>1, <2>2, <2>4, Zenon DEF NotANumber, IsCall
  <2>10. \A predicted : Answers(content, predicted)' <=> Answers(content, predicted)
    BY <1>1, <2>2, <2>3, <2>4, Zenon DEF Answers, IsCall
  <2> QED BY <2>1, <2>5, <2>6, <2>7, <2>8, <2>9, <2>10, Zenon DEF Reached
<1> QED BY <1>1, <1>2, Zenon DEF IInv

-----------------------------------------------------------------------------
(* Every action keeps it                                                    *)

\* Where a call is tells which part of the invariant it is in.
LEMMA Phases ==
    ASSUME IInv
    PROVE  /\ call.at = "idle" => call = Idle
           /\ call.at = "prepare" =>
                 \E content \in Contents : Admitted(content) /\ Preparing(content)
           /\ call.at = "encode" =>
                 \E content \in Contents : Admitted(content) /\ BeingEncoded(content)
           /\ call.at = "forward" => \E content \in Contents :
                 Admitted(content) /\ \E predicted : Forwarded(content, predicted)
           /\ call.at = "build" => \E content \in Contents :
                 Admitted(content) /\ \E predicted : Built(content, predicted)
           /\ call.at = "answered" => \E content \in Contents :
                 /\ Admitted(content)
                 /\ \/ Refused(content)
                    \/ \E predicted : \/ PassFailed(content, predicted)
                                      \/ NotANumber(content, predicted)
                                      \/ Answers(content, predicted)
<1>2. ASSUME NEW content
      PROVE  /\ Preparing(content) => call.at = "prepare"
             /\ BeingEncoded(content) => call.at = "encode"
             /\ Refused(content) => call.at = "answered"
  BY DEF IsCall, Preparing, BeingEncoded, Refused
<1>3. ASSUME NEW content, NEW predicted
      PROVE  /\ Forwarded(content, predicted) => call.at = "forward"
             /\ PassFailed(content, predicted) => call.at = "answered"
             /\ Built(content, predicted) => call.at = "build"
             /\ NotANumber(content, predicted) => call.at = "answered"
             /\ Answers(content, predicted) => call.at = "answered"
  BY DEF IsCall, Forwarded, PassFailed, Built, NotANumber, Answers
<1>4. CASE call = Idle
  BY <1>4 DEF Idle
<1>5. CASE \E content \in Contents : Admitted(content) /\ Reached(content)
  BY <1>5, <1>2, <1>3 DEF Reached
<1> QED BY <1>4, <1>5 DEF IInv

\* A step that leaves the engine alone and reaches a part of the invariant.
LEMMA Kept ==
    ASSUME IInv, engine' = engine, NEW content \in Contents, Admitted(content), Reached(content)'
    PROVE  IInv'
<1> QED BY SameEngine DEF IInv, Engines

\* A request comes in.
LEMMA AskKeeps == IInv /\ Ask => IInv'
<1> SUFFICES ASSUME IInv, Ask PROVE IInv'
  OBVIOUS
<1>1. PICK content \in Contents :
          /\ Admitted(content)
          /\ call' = [Idle EXCEPT !.at = "prepare", !.content = content]
  BY DEF Ask
<1>2. engine' = engine
  BY DEF Ask, At
<1>3. IsCall("prepare", content, <<>>, <<>>, <<>>, NoResponse)'
  BY <1>1 DEF Idle, IsCall, Fields
<1>4. Reached(content)'
  BY <1>3, Zenon DEF Reached, Preparing
<1> QED BY <1>1, <1>2, <1>4, Kept

\* Its questions are rendered.
LEMMA PrepareKeeps == IInv /\ Prepare => IInv'
<1> SUFFICES ASSUME IInv, Prepare PROVE IInv'
  OBVIOUS
<1>1. call.at = "prepare" /\ engine' = engine
  BY DEF Prepare, At
<1>2. PICK content \in Contents : Admitted(content) /\ Preparing(content)
  BY <1>1, Phases
<1>3. IsCall("prepare", content, <<>>, <<>>, <<>>, NoResponse)
  BY <1>2 DEF Preparing
<1>4. call.content = content
  BY <1>3 DEF IsCall
<1>5. call' = [call EXCEPT !.at = "encode", !.items = Items(content)]
  BY <1>4, Zenon DEF Prepare, Items
<1>6. IsCall("encode", content, Items(content), <<>>, <<>>, NoResponse)'
  BY <1>3, <1>5 DEF IsCall, Fields
<1>7. Reached(content)'
  BY <1>6, Zenon DEF Reached, BeingEncoded
<1> QED BY <1>1, <1>2, <1>7, Kept

\* Its rows are made, or refused.
LEMMA EncodingKeeps == IInv /\ Encoding => IInv'
<1> SUFFICES ASSUME IInv, Encoding PROVE IInv'
  OBVIOUS
<1>1. call.at = "encode" /\ engine' = engine
  BY DEF Encoding, At
<1>2. PICK content \in Contents : Admitted(content) /\ BeingEncoded(content)
  BY <1>1, Phases
<1>3. IsCall("encode", content, Items(content), <<>>, <<>>, NoResponse)
  BY <1>2 DEF BeingEncoded
<1>4. call.content = content /\ call.items = Items(content)
  BY <1>3 DEF IsCall
<1>5. \/ call' = [call EXCEPT !.at = "answered", !.response = Refusal(500, "too_long")]
      \/ call' = [call EXCEPT !.at = "forward", !.rows = RowsFor(content)]
  BY <1>4, Zenon DEF Encoding, Fail, RowsFor, Refusal
<1>6. CASE call' = [call EXCEPT !.at = "answered", !.response = Refusal(500, "too_long")]
  BY <1>3, <1>6, <1>1, <1>2, Kept DEF IsCall, Fields, Reached, Refused
<1>7. CASE call' = [call EXCEPT !.at = "forward", !.rows = RowsFor(content)]
  <2>1. RowsFor(content)' = RowsFor(content)
    BY <1>1, SameEngine
  <2>3. Len(content.questions) \in Nat \ {0}
    BY ContentIs, Zenon DEF GoodContent
  <2>4. Len(<<>>) = 0 /\ \A S : <<>> \in Seq(S)
    OBVIOUS
  <2>6. Forwarded(content, <<>>)'
    BY <2>3, <2>4, <1>3, <1>7, <2>1 DEF Forwarded, IsCall, Fields, Through
  <2>7. Reached(content)'
    BY <2>6, Zenon DEF Reached
  <2> QED BY <1>1, <1>2, <2>7, Kept
<1> QED BY <1>5, <1>6, <1>7

\* What is still to come fits behind what is through.
LEMMA PassEnds ==
    ASSUME NEW N \in Nat, NEW done \in Nat, done < N, engine # "jeff" => done = 0
    PROVE  /\ Pass(engine, N, done) \in Nat /\ done + Pass(engine, N, done) <= N
           /\ engine # "jeff" => done + Pass(engine, N, done) = N
BY BatchAssumption DEF Pass, ChunkSize

\* One more pass, and more questions are through.
LEMMA ThroughGrows ==
    ASSUME NEW content, Len(content.questions) \in Nat,
           NEW predicted, Through(content, predicted, Len(predicted)),
           NEW readings, ReadsAlone(readings, engine, content, Len(predicted)),
           Len(predicted) < Len(content.questions), engine # "jeff" => Len(predicted) = 0,
           NEW chunk, DOMAIN chunk = DOMAIN readings, chunk = [b \in DOMAIN readings |-> chunk[b]],
           \A b \in DOMAIN readings : chunk[b] \in Softmax(readings[b])
    PROVE  LET m == Pass(engine, Len(content.questions), Len(predicted))
           IN  /\ Len(chunk) = m
               /\ Through(content, predicted \o chunk, Len(predicted) + m)
               /\ Len(predicted \o chunk) = Len(predicted) + m
<1> DEFINE N == Len(content.questions)
           done == Len(predicted)
           m == Pass(engine, N, done)
           soft == [b \in 1..N |-> Softmax(Alone(engine, content, Items(content)[b]))]
           U == UNION {soft[b] : b \in 1..N}
<1>1. /\ predicted \in Seq(U) /\ done <= N
      /\ \A b \in 1..done : predicted[b] \in soft[b]
  BY DEF Through
<1>2. done \in Nat
  BY <1>1
<1>3. m \in Nat /\ done + m <= N
  BY <1>2, PassEnds
<1>4. DOMAIN readings = 1..m /\ \A r \in 1..m :
          readings[r] = Alone(engine, content, Items(content)[done + r])
  BY Zenon DEF ReadsAlone
<1> HIDE DEF m, done, N
<1>5. \A r \in 1..m : done + r \in 1..N
  BY <1>2, <1>3 DEF N
<1>6. \A r \in 1..m : chunk[r] \in soft[done + r]
  BY <1>4, <1>5
<1> HIDE DEF soft
<1>7. \A r \in 1..m : chunk[r] \in U
  BY <1>5, <1>6
<1> HIDE DEF U
<1>8. chunk = [r \in 1..m |-> chunk[r]]
  BY <1>4, Zenon
<1>9. chunk \in Seq(U) /\ Len(chunk) = m
  BY <1>7, <1>8, <1>3
<1> DEFINE all == predicted \o chunk
<1>10. /\ all \in Seq(U) /\ Len(all) = done + m
       /\ \A b \in 1..done : all[b] = predicted[b]
       /\ \A r \in 1..m : all[done + r] = chunk[r]
  BY <1>1, <1>9, ConcatIs DEF done
<1> HIDE DEF all
<1>11. \A b \in 1..(done + m) : all[b] \in soft[b]
  <2> TAKE b \in 1..(done + m)
  <2>1. CASE b <= done
    BY <1>2, <1>3, <2>1, <1>1, <1>10
  <2>2. CASE b > done
    <3>1. b - done \in 1..m /\ b = done + (b - done)
      BY <1>2, <1>3, <2>2
    <3> QED BY <1>6, <1>10, <3>1
  <2> QED BY <1>2, <2>1, <2>2
<1>12. Through(content, all, done + m)
  <2>1. {soft[b] : b \in 1..N} =
            {Softmax(Alone(engine, content, Items(content)[b])) : b \in 1..N}
    BY DEF soft
  <2>2. all \in Seq(UNION {Softmax(Alone(engine, content, Items(content)[b])) : b \in 1..N})
    BY <1>10, <2>1, Zenon DEF U
  <2>3. \A b \in 1..(done + m) : b \in 1..N
    BY <1>2, <1>3 DEF N
  <2>4. \A b \in 1..(done + m) :
            all[b] \in Softmax(Alone(engine, content, Items(content)[b]))
    BY <1>11, <2>3 DEF soft
  <2> QED BY <1>3, <1>10, <2>2, <2>4, Zenon DEF Through, N
<1> QED BY <1>9, <1>10, <1>12 DEF all, m, done, N

\* A pass reads the rows whose turn it is.
LEMMA ForwardKeeps == IInv /\ Forward => IInv'
<1> SUFFICES ASSUME IInv, Forward PROVE IInv'
  OBVIOUS
<1>1. call.at = "forward" /\ engine' = engine
  BY DEF Forward, At
<1>2. PICK content \in Contents : Admitted(content) /\ \E predicted : Forwarded(content, predicted)
  BY <1>1, Phases
<1>3. PICK predicted : Forwarded(content, predicted)
  BY <1>2
<1> DEFINE N == Len(content.questions)
           done == Len(predicted)
           m == Pass(engine, N, done)
           readings == Readings(RowsFor(content), done)
<1>4. /\ IsCall("forward", content, Items(content), RowsFor(content), predicted, NoResponse)
      /\ Through(content, predicted, done) /\ done < N /\ (engine # "jeff" => done = 0)
  BY <1>3 DEF Forwarded
<1>5. call.predicted = predicted /\ call.rows = RowsFor(content)
  BY <1>4 DEF IsCall
<1>6. GoodContent(content) /\ N \in Nat /\ engine \in Engines
  BY ContentIs, Zenon DEF GoodContent, IInv
<1>7. done \in Nat
  BY <1>4 DEF Through
<1>8. ReadsAlone(readings, engine, content, done)
  BY <1>2, <1>4, <1>6, <1>7, PassReads DEF RowsFor
<1>9. PICK chunk \in {s \in [DOMAIN readings -> UNION {Softmax(r) : r \in Range(readings)}] :
                        \A b \in DOMAIN readings : s[b] \in Softmax(readings[b])} :
          call' = [call EXCEPT
                  !.predicted = predicted \o chunk,
                  !.at = IF done + Len(chunk) < Len(RowsFor(content)) THEN "forward" ELSE "build"]
  BY <1>5, Zenon DEF Forward
<1>10. /\ chunk = [b \in DOMAIN readings |-> chunk[b]] /\ DOMAIN chunk = DOMAIN readings
       /\ \A b \in DOMAIN readings : chunk[b] \in Softmax(readings[b])
  OBVIOUS
<1>11. Len(RowsFor(content)) = N
  BY <1>6, RowsAre DEF RowsFor
<1> HIDE DEF readings
<1>12. /\ Len(chunk) = m
       /\ Through(content, predicted \o chunk, done + m)
       /\ Len(predicted \o chunk) = done + m
  BY <1>4, <1>6, <1>8, <1>10, ThroughGrows
<1>13. m \in Nat /\ done + m <= N /\ (engine # "jeff" => done + m = N)
  BY <1>4, <1>6, <1>7, PassEnds
<1>14. RowsFor(content)' = RowsFor(content)
  BY <1>1, SameEngine
<1> HIDE DEF m, done, N
<1> DEFINE all == predicted \o chunk
<1>15. PICK n \in Nat : n = m
  BY <1>13
<1>18. Through(content, all, done + n)'
  BY <1>12, <1>15, <1>1 DEF Through
<1> HIDE DEF all
<1>16. CASE done + n < N
  <2>1. call' = [call EXCEPT !.predicted = all, !.at = "forward"]
    BY <1>9, <1>11, <1>12, <1>15, <1>16 DEF all
  <2>3. Len(all) = done + n /\ engine' = "jeff"
    BY <1>1, <1>6, <1>7, <1>12, <1>13, <1>15, <1>16 DEF all
  <2>4. Forwarded(content, all)'
    BY <1>16, <1>18, <2>3, <1>4, <1>14, <2>1 DEF Forwarded, N, IsCall, Fields
  <2>5. Reached(content)'
    BY <2>4, Zenon DEF Reached
  <2> QED BY <1>1, <1>2, <2>5, Kept
<1>17. CASE ~(done + n < N)
  <2>1. call' = [call EXCEPT !.predicted = all, !.at = "build"]
    BY <1>9, <1>11, <1>12, <1>15, <1>17 DEF all
  <2>3. done + n = N
    BY <1>6, <1>7, <1>13, <1>15, <1>17
  <2>4. Built(content, all)'
    BY <1>18, <2>3, <1>4, <1>14, <2>1 DEF Built, N, IsCall, Fields
  <2>5. Reached(content)'
    BY <2>4, Zenon DEF Reached
  <2> QED BY <1>1, <1>2, <2>5, Kept
<1> QED BY <1>16, <1>17

\* A pass fails.
LEMMA ForwardFailsKeeps == IInv /\ ForwardFails => IInv'
<1> SUFFICES ASSUME IInv, ForwardFails PROVE IInv'
  OBVIOUS
<1>1. call.at = "forward" /\ engine' = engine
  BY DEF ForwardFails, At
<1>2. PICK content \in Contents : Admitted(content) /\ \E predicted : Forwarded(content, predicted)
  BY <1>1, Phases
<1>3. PICK predicted : Forwarded(content, predicted)
  BY <1>2
<1>4. /\ IsCall("forward", content, Items(content), RowsFor(content), predicted, NoResponse)
      /\ Through(content, predicted, Len(predicted))
  BY <1>3 DEF Forwarded
<1>6. RowsFor(content)' = RowsFor(content)
  BY <1>1, SameEngine
<1>7. \/ IsCall("answered", content, Items(content), RowsFor(content), predicted,
                Refusal(500, "forward"))'
      \/ IsCall("answered", content, Items(content), RowsFor(content), predicted,
                Refusal(503, "forward"))'
  <2>1. CASE call' = [call EXCEPT !.at = "answered", !.response = Refusal(500, "forward")]
    BY <1>4, <1>6, <2>1 DEF IsCall, Fields
  <2>2. CASE call' = [call EXCEPT !.at = "answered", !.response = Refusal(503, "forward")]
    BY <1>4, <1>6, <2>2 DEF IsCall, Fields
  <2> QED BY <2>1, <2>2 DEF ForwardFails, Fail, Refusal
<1>8. Through(content, predicted, Len(predicted))'
  BY <1>1, <1>4, Zenon DEF Through
<1>9. PassFailed(content, predicted)'
  BY <1>7, <1>8 DEF PassFailed
<1>10. Reached(content)'
  BY <1>9, Zenon DEF Reached
<1> QED BY <1>1, <1>2, <1>10, Kept

\* The answers are built, or the numbers are none.
LEMMA BuildKeeps == IInv /\ Build => IInv'
<1> SUFFICES ASSUME IInv, Build PROVE IInv'
  OBVIOUS
<1>1. call.at = "build" /\ engine' = engine
  BY DEF Build, At
<1>2. PICK content \in Contents : Admitted(content) /\ \E predicted : Built(content, predicted)
  BY <1>1, Phases
<1>3. PICK predicted : Built(content, predicted)
  BY <1>2
<1>4. /\ IsCall("build", content, Items(content), RowsFor(content), predicted, NoResponse)
      /\ Through(content, predicted, Len(content.questions))
  BY <1>3 DEF Built
<1>5. call.items = Items(content) /\ call.predicted = predicted /\ call.rows = RowsFor(content)
  BY <1>4 DEF IsCall
<1>6. /\ DOMAIN Items(content) = 1..Len(content.questions)
      /\ Len(predicted) = Len(Items(content))
  BY ContentIs, <1>4, ItemsAre DEF Through
<1>7. \A i \in DOMAIN call.items : Valid(call.items[i], call.predicted[i]) <=>
                                   Valid(Items(content)[i], predicted[i])
  BY <1>5, Zenon
<1>8. Through(content, predicted, Len(content.questions))'
  BY <1>1, <1>4, Zenon DEF Through
<1>9. RowsFor(content)' = RowsFor(content)
  BY <1>1, SameEngine
<1>10. CASE ~AllValid(content, predicted)
  <2>1. \E i \in DOMAIN call.items : ~Valid(call.items[i], call.predicted[i])
    BY <1>5, <1>6, <1>10, Zenon DEF AllValid
  <2>2. Len(call.predicted) = Len(call.items)
    BY <1>5, <1>6
  <2>3. call' = [call EXCEPT !.at = "answered", !.response = Refusal(500, "distribution")]
    BY <2>1, <2>2, Zenon DEF Build, Fail, Refusal
  <2>5. NotANumber(content, predicted)'
    BY <1>8, <1>10, <1>4, <1>9, <2>3 DEF NotANumber, IsCall, Fields
  <2>6. Reached(content)'
    BY <2>5, Zenon DEF Reached
  <2> QED BY <1>1, <1>2, <2>6, Kept
<1>11. CASE AllValid(content, predicted)
  <2>1. ~\E i \in DOMAIN call.items : ~Valid(call.items[i], call.predicted[i])
    BY <1>5, <1>6, <1>11, Zenon DEF AllValid
  <2>2. Len(call.predicted) = Len(call.items)
    BY <1>5, <1>6
  <2>3. call' = [call EXCEPT !.at = "answered",
                             !.response = Served(call.items, call.rows, call.predicted)]
    BY <2>1, <2>2, Zenon DEF Build, Served, ItemOf, Qids
  <2> DEFINE response == Served(Items(content), RowsFor(content), predicted)
  <2>4. call' = [call EXCEPT !.at = "answered", !.response = response]
    BY <1>5, <2>3, Zenon
  <2>5. response' = response
    BY <1>1, <1>9, Zenon DEF Served, InputTokens, IsKev
  <2> HIDE DEF response
  <2>7. Answers(content, predicted)'
    BY <1>8, <1>11, <1>4, <1>9, <2>4, <2>5 DEF Answers, response, IsCall, Fields
  <2>8. Reached(content)'
    BY <2>7, Zenon DEF Reached
  <2> QED BY <1>1, <1>2, <2>8, Kept
<1> QED BY <1>10, <1>11

\* The answer is taken and the next request may come.
LEMMA TakeKeeps == IInv /\ Take => IInv'
BY DEF IInv, Take, At, Engines

\* In every reachable state the call is one of the shapes of Reached: its items and
\* rows are those of its request, and what was read so far of its questions is what
\* is read of each alone (kev.py:488-540, laya.py:532-574, jeff.py's chunks).
THEOREM Inductive == Spec => []IInv
<1>1. Init => IInv
  BY InitIs
<1>2. IInv /\ [Next]_vars => IInv'
  BY AskKeeps, PrepareKeeps, EncodingKeeps, ForwardKeeps, ForwardFailsKeeps, BuildKeeps,
     TakeKeeps, StutterIs DEF Next
<1> QED BY <1>1, <1>2, PTL DEF Spec

-----------------------------------------------------------------------------
(* The tokens that are billed                                               *)

\* A sum of natural numbers is one.
LEMMA TotalNat ==
    ASSUME NEW N \in Nat, NEW ss \in [1..N -> Nat]
    PROVE  Total(ss) \in Nat
<1> DEFINE E == {k \in 0..N : Total(Prefix(ss, k)) \in Nat}
<1>1. ss \in [1..N -> Int]
  OBVIOUS
<1>2. /\ Total(Prefix(ss, 0)) = 0
      /\ \A k \in 1..N : Total(Prefix(ss, k)) = Total(Prefix(ss, k - 1)) + ss[k]
      /\ Prefix(ss, N) = ss
  BY <1>1, TotalSteps
<1>3. 0 \in E
  BY <1>2
<1>4. \A k \in 1..N : k - 1 \in E => k \in E
  BY <1>2
<1> HIDE DEF E
<1>5. \A k \in 0..N : k \in E
  BY <1>3, <1>4, UpTo
<1>6. N \in E
  BY <1>5
<1> QED BY <1>2, <1>6 DEF E

Segment(seg, t, N, d, m) ==
    /\ d + m <= N
    /\ seg \in [1..m -> Int] /\ \A r \in 1..m : seg[r] = t[d + r]

GoesOn(t, d, m, seg) == Total(Prefix(t, d + m)) = Total(Prefix(t, d)) + Total(seg)

\* A total goes on with the numbers behind it.
LEMMA TotalSegment ==
    ASSUME NEW N \in Nat, NEW t \in [1..N -> Int], NEW d \in 0..N, NEW m \in Nat,
           NEW seg, Segment(seg, t, N, d, m)
    PROVE  GoesOn(t, d, m, seg)
<1> USE DEF Segment
<1> DEFINE E == {k \in 0..m : Total(Prefix(t, d + k)) = Total(Prefix(t, d)) + Total(Prefix(seg, k))}
<1>1. /\ \A k \in 1..N : Total(Prefix(t, k)) = Total(Prefix(t, k - 1)) + t[k]
      /\ \A k \in 0..N : Total(Prefix(t, k)) \in Int
  BY TotalSteps
<1>2. /\ Total(Prefix(seg, 0)) = 0
      /\ \A k \in 1..m : Total(Prefix(seg, k)) = Total(Prefix(seg, k - 1)) + seg[k]
      /\ \A k \in 0..m : Total(Prefix(seg, k)) \in Int
      /\ Prefix(seg, m) = seg
  BY TotalSteps
<1>3. 0 \in E
  BY <1>1, <1>2
<1>4. ASSUME NEW k \in 1..m, k - 1 \in E PROVE k \in E
  <2>1. d + k \in 1..N /\ (d + k) - 1 = d + (k - 1) /\ k - 1 \in 0..m
    OBVIOUS
  <2>2. Total(Prefix(t, d + k)) = Total(Prefix(t, d + (k - 1))) + t[d + k]
    BY <1>1, <2>1
  <2>4. Total(Prefix(seg, k)) = Total(Prefix(seg, k - 1)) + t[d + k]
    BY <1>2
  <2>5. t[d + k] \in Int /\ Total(Prefix(seg, k - 1)) \in Int /\ Total(Prefix(t, d)) \in Int
    BY <1>1, <1>2, <2>1
  <2> QED BY <2>2, <2>4, <2>5, <1>4
<1> HIDE DEF E
<1>5. \A k \in 0..m : k \in E
  BY <1>3, <1>4, UpTo
<1>6. m \in E
  BY <1>5
<1> QED BY <1>2, <1>6 DEF E, GoesOn

\* Where a chunk starts and ends.
Start(c) == (c - 1) * BatchSize
End(c, N) == IF c * BatchSize < N THEN c * BatchSize ELSE N

Chunks(N) == (N + BatchSize - 1) \div BatchSize

\* The chunks follow each other from the first row to the last.
LEMMA ChunkEnds ==
    ASSUME NEW N \in Nat \ {0}
    PROVE  /\ Chunks(N) \in Nat /\ End(0, N) = 0 /\ End(Chunks(N), N) = N
           /\ \A c \in 1..Chunks(N) :
                 /\ Start(c) \in Nat /\ Start(c) < N /\ End(c - 1, N) = Start(c)
                 /\ End(c, N) = Start(c) + ChunkSize(N, Start(c))
<1> DEFINE C == Chunks(N)
           B == BatchSize
<1>1. B \in Nat \ {0}
  BY BatchAssumption
<1>2. C \in Nat /\ C * B <= N + B - 1 /\ N + B - 1 < C * B + B
  BY <1>1 DEF Chunks
<1> HIDE DEF C, B
<1>4. ASSUME NEW c \in 1..C
      PROVE  (c - 1) * B \in Nat /\ c * B = (c - 1) * B + B /\ (c - 1) * B < N
  BY <1>1, <1>2
<1>6. ASSUME NEW c \in 1..C
      PROVE  /\ Start(c) \in Nat /\ Start(c) < N /\ End(c - 1, N) = Start(c)
             /\ End(c, N) = Start(c) + ChunkSize(N, Start(c))
  BY <1>1, <1>4 DEF End, Start, ChunkSize, B
<1> QED BY <1>2, <1>6, <1>1 DEF C, B, End

\* Chunk by chunk or all at once, the prompts have the same tokens.
LEMMA ChunksTotal ==
    ASSUME NEW N \in Nat \ {0}, NEW rows, DOMAIN rows = 1..N, Len(rows) = N,
           \A i \in 1..N : Len(Jeff!Prompt(rows[i])) \in Nat
    PROVE  Total([c \in 1..Chunks(N) |-> Jeff!Prepare(Jeff!Chunk(rows, Start(c))).tokens])
           = Total([i \in 1..N |-> Len(Jeff!Prompt(rows[i]))])
<1> DEFINE t == [i \in 1..N |-> Len(Jeff!Prompt(rows[i]))]
           C == Chunks(N)
           s == [c \in 1..C |-> Jeff!Prepare(Jeff!Chunk(rows, Start(c))).tokens]
           E == {c \in 0..C : Total(Prefix(s, c)) = Total(Prefix(t, End(c, N)))}
<1>1. t \in [1..N -> Int] /\ N \in Nat
  OBVIOUS
<1>2. /\ C \in Nat /\ End(0, N) = 0 /\ End(C, N) = N
      /\ \A c \in 1..C :
            /\ Start(c) \in Nat /\ Start(c) < N /\ End(c - 1, N) = Start(c)
            /\ End(c, N) = Start(c) + ChunkSize(N, Start(c))
  BY ChunkEnds
<1> HIDE DEF C
<1>s. /\ s = [c \in 1..C |-> s[c]] /\ DOMAIN s = 1..C
      /\ \A c \in 1..C : s[c] = Jeff!Prepare(Jeff!Chunk(rows, Start(c))).tokens
  OBVIOUS
<1>t. \A i \in 1..N : t[i] = Len(Jeff!Prompt(rows[i])) /\ t[i] \in Nat
  OBVIOUS
<1> HIDE DEF s, t
<1>3. ASSUME NEW c \in 1..C
      PROVE  /\ s[c] \in Nat
             /\ Total(Prefix(t, End(c, N))) = Total(Prefix(t, End(c - 1, N))) + s[c]
  <2> DEFINE d == Start(c)
             m == ChunkSize(N, d)
             chunk == Jeff!Chunk(rows, d)
             seg == [r \in DOMAIN chunk |-> Len(Jeff!Prompt(chunk[r]))]
  <2>1. d \in 0..N /\ d \in Nat /\ d < N /\ End(c - 1, N) = d /\ End(c, N) = d + m
    BY <1>2
  <2> HIDE DEF d
  <2>2. m \in Nat /\ d + m <= N /\ DOMAIN chunk = 1..m
        /\ \A r \in 1..m : d + r \in 1..N /\ chunk[r] = rows[d + r]
    <3>1. ChunkHolds(chunk, rows, N, d)
      BY <1>1, <2>1, ChunkIs
    <3> QED BY <3>1, Zenon DEF ChunkHolds
  <2> HIDE DEF m
  <2>3. s[c] = Total(seg)
    BY <1>s, JeffTokens, Zenon DEF d
  <2> HIDE DEF chunk
  <2>4. seg \in [1..m -> Nat] /\ \A r \in 1..m : seg[r] = t[d + r]
    BY <1>t, <2>2
  <2> HIDE DEF seg
  <2>s. Segment(seg, t, N, d, m)
    BY <2>2, <2>4 DEF Segment
  <2>5. GoesOn(t, d, m, seg)
    BY <1>1, <2>1, <2>2, <2>s, TotalSegment
  <2>6. Total(seg) \in Nat
    BY <2>2, <2>4, TotalNat
  <2> QED BY <2>1, <2>3, <2>5, <2>6 DEF GoesOn
<1>5. /\ Total(Prefix(s, 0)) = 0 /\ Prefix(s, C) = s
      /\ \A k \in 1..C : Total(Prefix(s, k)) = Total(Prefix(s, k - 1)) + s[k]
  BY <1>2, TotalSteps, <1>3, <1>s
<1>6. Total(Prefix(t, 0)) = 0 /\ Prefix(t, N) = t
  BY <1>1, TotalSteps
<1>7. 0 \in E
  BY <1>2, <1>5, <1>6
<1>8. \A c \in 1..C : c - 1 \in E => c \in E
  BY <1>3, <1>5
<1> HIDE DEF E
<1>9. \A c \in 0..C : c \in E
  BY <1>2, <1>7, <1>8, UpTo
<1>10. C \in E
  BY <1>2, <1>9
<1> QED BY <1>2, <1>5, <1>6, <1>10 DEF s, t, C, E

\* TokensAlone of any engine and any request.
TokensOf(e, content, p) ==
    LET state == Render(content.state)
    IN  CASE e \in Kevs -> Len(StateIds(state)) + Len(Branch(KevQuestion(p)))
          [] e = "laya" -> Len(BuildSequence(state, Internal(p)).ids)
          [] OTHER -> Len(Jeff!Prompt([state |-> content.state, question |-> p.raw]))

\* What is billed for a request is what its questions take alone.
Billed(content) ==
    /\ \A i \in 1..Len(content.questions) : TokensOf(engine, content, Items(content)[i]) \in Nat
    /\ InputTokens(RowsFor(content)) =
           Total([i \in 1..Len(content.questions) |-> TokensOf(engine, content, Items(content)[i])])

\* kev bills the tokens of its rows.
LEMMA KevBilled ==
    ASSUME NEW content, GoodContent(content), engine \in Kevs
    PROVE  Billed(content)
<1> DEFINE rows == RowsFor(content)
           N == Len(content.questions)
           state == Render(content.state)
           items == Items(content)
<1>1. N \in Nat \ {0} /\ content.state \in Texts
  BY Zenon DEF GoodContent
<1>2. engine \in Engines /\ engine # "laya" /\ engine # "jeff"
  BY DEF Kevs, Engines
<1>3. state \in Lines
  BY <1>1, RenderIs
<1>4. \A b \in 1..N : GoodPrepared(items[b], content.questions[b])
  BY ItemsAre
<1> HIDE DEF state, items
<1>5. DOMAIN rows = 1..N /\ \A b \in 1..N : rows[b] = Encode(KevRecord(state, items[b]), FALSE)
  BY <1>2, RowsAre DEF state, items, RowsFor
<1>6. InputTokens(rows) = Total([b \in DOMAIN rows |-> Len(rows[b].tokens)])
  BY Zenon DEF InputTokens, Kevs, IsKev
<1> HIDE DEF rows, N
<1>7. ASSUME NEW b \in 1..N
      PROVE  /\ Len(rows[b].tokens) = TokensOf(engine, content, items[b])
             /\ TokensOf(engine, content, items[b]) \in Nat
  <2> DEFINE p == items[b]
             q == content.questions[b]
             kq == KevQuestion(p)
             row == KevRow(state, kq)
  <2>1. GoodPrepared(p, q) /\ rows[b] = Encode(KevRecord(state, p), FALSE)
    BY <1>4, <1>5
  <2>2. TokensOf(engine, content, p) = Len(StateIds(state)) + Len(Branch(kq))
    BY <1>2, Zenon DEF TokensOf, state
  <2> HIDE DEF p, q
  <2>3. kq \in KevQuestions
    BY <2>1, KevQuestionIs
  <2>4. Encodes(Encode(KevRecord(state, p), FALSE), row, Len(StateIds(state)), KevEnds(state, kq))
    BY <1>3, <2>1, KevEncodes
  <2>5. Len(Encode(KevRecord(state, p), FALSE).tokens) = Len(row)
    BY <2>4, Zenon DEF Encodes, KevTokens
  <2> HIDE DEF kq
  <2>6. /\ StateIds(state) \in Lines /\ Branch(kq) \in Lines
        /\ Len(StateIds(state)) \in Nat /\ Len(Branch(kq)) \in Nat
    BY <1>3, <2>3, StateIdsType, BranchType
  <2>7. Len(row) = Len(StateIds(state)) + Len(Branch(kq))
    BY <2>6, TextConcat DEF KevRow
  <2> HIDE DEF row
  <2>8. TokensOf(engine, content, p) \in Nat
    BY <2>2, <2>6 DEF kq
  <2> QED BY <2>1, <2>2, <2>5, <2>7, <2>8 DEF p, kq
<1> QED BY <1>6, <1>7, <1>5 DEF Billed, rows, N, items

\* laya bills the words of its rows, and no padding.
LEMMA LayaBilled ==
    ASSUME NEW content, GoodContent(content), engine = "laya"
    PROVE  Billed(content)
<1> DEFINE rows == RowsFor(content)
           N == Len(content.questions)
           state == Render(content.state)
           items == Items(content)
<1>1. N \in Nat \ {0} /\ content.state \in Texts
  BY Zenon DEF GoodContent
<1>2. engine \in Engines /\ engine \notin Kevs
  BY DEF Kevs, Engines
<1>3. state \in Lines
  BY <1>1, RenderIs
<1>4. \A b \in 1..N : GoodPrepared(items[b], content.questions[b])
  BY ItemsAre
<1> HIDE DEF state, items
<1>5. DOMAIN rows = 1..N /\ \A b \in 1..N : rows[b] = BuildSequence(state, Internal(items[b]))
  BY <1>2, RowsAre DEF state, items, RowsFor
<1>6. InputTokens(rows) = Total([b \in DOMAIN rows |-> Len(rows[b].ids)])
  BY <1>2, Zenon DEF InputTokens, Kevs, IsKev
<1> HIDE DEF rows, N
<1>7. ASSUME NEW b \in 1..N
      PROVE  /\ Len(rows[b].ids) = TokensOf(engine, content, items[b])
             /\ TokensOf(engine, content, items[b]) \in Nat
  <2> DEFINE p == items[b]
             q == content.questions[b]
             row == BuildSequence(state, Internal(p))
  <2>1. GoodPrepared(p, q) /\ rows[b] = row
    BY <1>4, <1>5
  <2>2. TokensOf(engine, content, p) = Len(row.ids)
    BY <1>2, Zenon DEF TokensOf, state
  <2> HIDE DEF p, q, row
  <2>3. LayaRowIs(row, Len(p.options), p.type)
    BY <1>3, <2>1, LayaRow DEF row
  <2>4. row.ids \in Lines
    BY <2>3, Zenon DEF LayaRowIs
  <2> QED BY <2>1, <2>2, <2>4 DEF p, Lines
<1> QED BY <1>6, <1>7, <1>5 DEF Billed, rows, N, items

\* jeff bills its prompts, whatever chunk they fell into.
LEMMA JeffBilled ==
    ASSUME NEW content, GoodContent(content), engine = "jeff", Admitted(content)
    PROVE  Billed(content)
<1> DEFINE rows == RowsFor(content)
           N == Len(content.questions)
           items == Items(content)
<1>1. N \in Nat \ {0} /\ content.state \in Texts
  BY Zenon DEF GoodContent
<1>2. engine \in Engines /\ engine \notin Kevs /\ engine # "laya"
  BY DEF Kevs, Engines
<1>3. \A b \in 1..N : /\ GoodPrepared(items[b], content.questions[b])
                      /\ GoodQuestion(content.questions[b])
  BY ItemsAre
<1>4. \A b \in 1..N : Jeff!HasCodes(content.questions[b])
  <2>1. DOMAIN items = 1..N /\ \A b \in 1..N : items[b].raw = content.questions[b]
    BY <1>3, ItemsAre DEF GoodPrepared
  <2>2. \A b \in DOMAIN items : Jeff!HasCodes(items[b].raw)
    BY Zenon DEF Admitted, Items
  <2> HIDE DEF items
  <2> QED BY <2>1, <2>2
<1> HIDE DEF items
<1>5. DOMAIN rows = 1..N /\ Len(rows) = N
      /\ \A b \in 1..N : rows[b] = [state |-> content.state, question |-> content.questions[b]]
  BY <1>2, RowsAre DEF RowsFor
<1>6. InputTokens(rows) = Total([c \in 1..((Len(rows) + BatchSize - 1) \div BatchSize) |->
                            Jeff!Prepare(Jeff!Chunk(rows, (c - 1) * BatchSize)).tokens])
  BY <1>2, Zenon DEF InputTokens, Kevs, IsKev
<1> HIDE DEF rows, N
<1>7. ASSUME NEW b \in 1..N
      PROVE  /\ Len(Jeff!Prompt(rows[b])) = TokensOf(engine, content, items[b])
             /\ TokensOf(engine, content, items[b]) \in Nat
  <2> DEFINE q == content.questions[b]
             row == rows[b]
             p == items[b]
  <2>1. row = [state |-> content.state, question |-> q]
    BY <1>5
  <2>2. GoodQuestion(q) /\ Jeff!HasCodes(q) /\ p.raw = q
    BY <1>3, <1>4 DEF GoodPrepared
  <2>3. TokensOf(engine, content, p) = Len(Jeff!Prompt([state |-> content.state, question |-> p.raw]))
    BY <1>2, Zenon DEF TokensOf
  <2> HIDE DEF q, row, p
  <2>6. TokensOf(engine, content, p) = Len(Jeff!Prompt(row))
    BY <2>1, <2>2, <2>3, Zenon
  <2> QED BY <2>6, <1>1, <2>2, JeffPrompt, <2>1 DEF row, p
<1>8. InputTokens(rows) =
          Total([c \in 1..Chunks(N) |-> Jeff!Prepare(Jeff!Chunk(rows, Start(c))).tokens])
  BY <1>5, <1>6, Zenon DEF Chunks, Start
<1>9. Total([c \in 1..Chunks(N) |-> Jeff!Prepare(Jeff!Chunk(rows, Start(c))).tokens])
      = Total([i \in 1..N |-> Len(Jeff!Prompt(rows[i]))])
  BY <1>1, <1>5, <1>7, ChunksTotal
<1> QED BY <1>7, <1>8, <1>9 DEF Billed, rows, N, items

\* Any engine bills what the questions take alone.
LEMMA BilledIs ==
    ASSUME NEW content \in Contents, Admitted(content), engine \in Engines
    PROVE  Billed(content) /\ InputTokens(RowsFor(content)) \in Nat
<1>1. GoodContent(content)
  BY ContentIs
<1>2. Billed(content)
  BY <1>1, KevBilled, LayaBilled, JeffBilled DEF Engines, Kevs
<1> DEFINE N == Len(content.questions)
           t == [i \in 1..N |-> TokensOf(engine, content, Items(content)[i])]
<1>3. N \in Nat
  BY <1>1, Zenon DEF GoodContent
<1>4. \A i \in 1..N : TokensOf(engine, content, Items(content)[i]) \in Nat
  BY <1>2, Zenon DEF Billed
<1>5. t \in [1..N -> Nat]
  BY <1>4
<1>6. InputTokens(RowsFor(content)) = Total(t)
  BY <1>2, Zenon DEF Billed
<1> HIDE DEF t, N
<1>7. Total(t) \in Nat
  BY <1>3, <1>5, TotalNat
<1> QED BY <1>2, <1>6, <1>7

-----------------------------------------------------------------------------
(* What an answered request looks like                                      *)

\* A request that was answered came to the end of its passes with valid numbers.
LEMMA AnsweredIs ==
    ASSUME IInv, Answered
    PROVE  \E content \in Contents : Admitted(content) /\ \E predicted : Answers(content, predicted)
<1>1. NoResponse.code = 0
  BY DEF NoResponse
<1>2. \A code, cause : Refusal(code, cause).code = code
  BY DEF Refusal, NoResponse
<1>3. call # Idle
  BY <1>1 DEF Idle, Answered
<1>4. PICK content \in Contents : Admitted(content) /\ Reached(content)
  BY <1>3 DEF IInv
<1>6. PICK predicted : \/ Forwarded(content, predicted) \/ PassFailed(content, predicted)
                       \/ Built(content, predicted)
                       \/ NotANumber(content, predicted) \/ Answers(content, predicted)
  BY <1>4, <1>1, <1>2 DEF Reached, Answered, Preparing, BeingEncoded, Refused, IsCall
<1> QED BY <1>4, <1>6, <1>2, <1>1 DEF Answered, PassFailed, NotANumber, IsCall, Forwarded, Built

\* The numbers of an answered question.
Numbered(out, reading, K) ==
    /\ out.reading = reading
    /\ out.values \in [1..K -> 0..Fine] /\ Len(out.values) = K
    /\ Total(out.values) = Fine
    /\ NaN \notin Range(out.values)

\* Numbers that are valid are a distribution.
LEMMA NumberedIs ==
    ASSUME NEW p, NEW q, GoodPrepared(p, q), p.options # <<>>,
           NEW content, NEW out \in Softmax(Alone(engine, content, p)), Valid(p, out)
    PROVE  Numbered(out, Alone(engine, content, p), Len(p.options))
<1> DEFINE K == Len(p.options)
           reading == Alone(engine, content, p)
<1>1. K \in Nat /\ K # 0 /\ K \in DOMAIN Outcomes
  BY DEF GoodPrepared
<1>2. Len(reading) = K
  BY <1>1 DEF Alone
<1> HIDE DEF reading
<1>3. PICK d \in Outcomes[K] \cup {[i \in 1..K |-> NaN]} : out = [reading |-> reading, values |-> d]
  BY <1>2, Zenon DEF Softmax, reading
<1>4. out.reading = reading /\ out.values = d
  BY <1>3
<1>5. Len(d) = K /\ NaN \notin Range(d)
  BY <1>4 DEF Valid
<1>7. d \in [1..K -> 0..Fine] /\ Total(d) = Fine
  BY <1>1, <1>3, OutcomeAssumption, <1>5 DEF Range
<1> HIDE DEF K
<1> QED BY <1>4, <1>5, <1>7 DEF Numbered, K, reading

\* Every question of an answered request, with its item, its numbers and its answer.
Settled(content, predicted, i) ==
    LET p == Items(content)[i]
    IN  /\ GoodPrepared(p, content.questions[i]) /\ p.options # <<>>
        /\ Numbered(predicted[i], Alone(engine, content, p), Len(p.options))
        /\ call.response.answers[p.qid] = BuildAnswer(p, predicted[i])
        /\ engine = "laya" => call.response.native[p.qid] = predicted[i].reading

\* The item of a question is found by its id.
LEMMA ItemOfIs ==
    ASSUME NEW content, GoodContent(content), NEW i \in 1..Len(content.questions)
    PROVE  /\ ItemOf(Items(content), Items(content)[i].qid) = i
           /\ Items(content)[i].qid \in Qids(Items(content))
<1> DEFINE N == Len(content.questions)
           items == Items(content)
<1>1. DOMAIN items = 1..N /\ \A n \in 1..N : GoodPrepared(items[n], content.questions[n])
  BY ItemsAre
<1>2. \A n \in 1..N : items[n].qid = content.questions[n].qid
  BY <1>1 DEF GoodPrepared
<1>3. \A m, n \in 1..N : content.questions[m].qid = content.questions[n].qid => m = n
  BY Zenon DEF GoodContent
<1> HIDE DEF items, N
<1>4. \A n \in 1..N : items[n].qid = items[i].qid => n = i
  BY <1>2, <1>3 DEF N
<1>5. ItemOf(items, items[i].qid) = i
  BY <1>1, <1>4, Zenon DEF ItemOf, N
<1>6. items[i] \in Range(items)
  BY <1>1, Zenon DEF Range, N
<1> QED BY <1>5, <1>6, Zenon DEF Qids, items

\* Every question of an answered request is settled.
LEMMA SettledIs ==
    ASSUME NEW content \in Contents, Admitted(content), NEW predicted, Answers(content, predicted),
           NEW i \in 1..Len(content.questions)
    PROVE  Settled(content, predicted, i)
<1> DEFINE p == Items(content)[i]
           items == Items(content)
           rows == RowsFor(content)
           out == predicted[i]
<1>1. GoodContent(content)
  BY ContentIs
<1>2. GoodPrepared(p, content.questions[i]) /\ DOMAIN items = 1..Len(content.questions)
  BY <1>1, ItemsAre
<1>3. p.options # <<>>
  BY <1>2, Zenon DEF Admitted, Items
<1>4. out \in Softmax(Alone(engine, content, p)) /\ Valid(p, out)
  BY Zenon DEF Answers, Through, AllValid
<1>5. Numbered(out, Alone(engine, content, p), Len(p.options))
  BY <1>2, <1>3, <1>4, NumberedIs
<1>6. ItemOf(items, p.qid) = i /\ p.qid \in Qids(items)
  BY <1>1, ItemOfIs
<1>7. call.response = Served(items, rows, predicted)
  BY DEF Answers, IsCall
<1> DEFINE answers == [qid \in Qids(items) |->
                BuildAnswer(items[ItemOf(items, qid)], predicted[ItemOf(items, qid)])]
           native == IF engine = "laya"
                 THEN [qid \in Qids(items) |-> predicted[ItemOf(items, qid)].reading]
                 ELSE None
<1>8. call.response.answers = answers /\ call.response.native = native
  <2> HIDE DEF items, rows
  <2>1. call.response = [ code |-> 200, cause |-> "answered", answers |-> answers,
                          native |-> native, tokens |-> InputTokens(rows) ]
    BY <1>7, Zenon DEF Served
  <2> HIDE DEF answers, native
  <2> QED BY <2>1
<1>9. answers[p.qid] = BuildAnswer(p, out)
  BY <1>6, Zenon
<1>10. engine = "laya" => native[p.qid] = out.reading
  BY <1>6, Zenon
<1> HIDE DEF answers, native, items
<1> QED BY <1>2, <1>3, <1>5, <1>8, <1>9, <1>10, Zenon DEF Settled

\* The items are the questions of the request.
LEMMA QidsAre ==
    ASSUME NEW content, GoodContent(content)
    PROVE  Qids(Items(content)) = {q.qid : q \in Range(content.questions)}
<1> DEFINE N == Len(content.questions)
           items == Items(content)
           qs == content.questions
<1>1. DOMAIN items = 1..N /\ \A n \in 1..N : GoodPrepared(items[n], qs[n])
  BY ItemsAre
<1>2. \A n \in 1..N : items[n].qid = qs[n].qid
  BY <1>1 DEF GoodPrepared
<1>3. DOMAIN qs = 1..N
  BY Zenon DEF GoodContent
<1> HIDE DEF items, N, qs
<1> QED BY <1>1, <1>2, <1>3 DEF Qids, Range, items, qs

-----------------------------------------------------------------------------
(* Types                                                                    *)

\* The run's type invariant.
LEMMA TypeIs == IInv => TypeOK
<1> SUFFICES ASSUME IInv PROVE TypeOK
  OBVIOUS
<1>1. engine \in Engines
  BY DEF IInv
<1>2. /\ NoResponse.code = 0 /\ NoResponse.tokens = 0
      /\ \A code, cause : Refusal(code, cause).code = code /\ Refusal(code, cause).tokens = 0
  BY DEF NoResponse, Refusal
<1>3. CASE call = Idle
  BY <1>3, <1>1, <1>2 DEF Idle, TypeOK
<1>4. CASE \E content \in Contents : Admitted(content) /\ Reached(content)
  <2>1. PICK content \in Contents : Admitted(content) /\ Reached(content)
    BY <1>4
  <2> DEFINE N == Len(content.questions)
  <2>2. GoodContent(content) /\ N \in Nat
    BY ContentIs, Zenon DEF GoodContent
  <2>3. Len(RowsFor(content)) = N
    BY <1>1, <2>2, RowsAre DEF RowsFor
  <2>5. \A predicted : LET served == Served(Items(content), RowsFor(content), predicted)
                       IN  served.code = 200 /\ served.tokens \in Nat
    BY <1>1, <2>1, BilledIs DEF Served
  <2> HIDE DEF N
  <2>6. ASSUME Preparing(content) \/ BeingEncoded(content) \/ Refused(content)
        PROVE  TypeOK
    BY <2>6, <1>2, <1>1 DEF Preparing, BeingEncoded, Refused, IsCall, Idle, TypeOK
  <2>7. ASSUME NEW predicted,
               \/ Forwarded(content, predicted) \/ PassFailed(content, predicted)
               \/ Built(content, predicted)
               \/ NotANumber(content, predicted) \/ Answers(content, predicted)
        PROVE  TypeOK
    BY <2>7, <2>2, <1>2, <2>5, <1>1, <2>3 DEF Forwarded, PassFailed, Built, NotANumber, Answers,
       IsCall, Through, N, Idle, TypeOK
  <2> QED BY <2>1, <2>6, <2>7 DEF Reached
<1> QED BY <1>3, <1>4 DEF IInv

\* Every state of one request after another is of its type.
THEOREM TypeCorrect == Spec => []TypeOK
BY Inductive, TypeIs, PTL

-----------------------------------------------------------------------------
(* All or nothing                                                           *)

\* The keys a question that is no noul is answered with are its options'.
LEMMA AllKeys ==
    ASSUME NEW p, NEW q, GoodPrepared(p, q), NEW reading, NEW out,
           Numbered(out, reading, Len(p.options)), p.type # "noul"
    PROVE  DOMAIN BuildAnswer(p, out).probabilities = Range(Keys(p))
<1> DEFINE published == RoundProbs(out.values)
           all == ByKey(p, published, out, DOMAIN published)
           K == Len(p.options)
<1>1. DOMAIN published = 1..K /\ DOMAIN p.options = 1..K /\ p.type \in {"choice", "score"}
  BY DEF Numbered, RoundProbs, GoodPrepared
<1> HIDE DEF published, K
<1>2. BuildAnswer(p, out).probabilities = all
  <2>1. CASE p.type = "choice"
    <3>1. BuildAnswer(p, out) = Answer(p, all, Keys(p)[Winner(out)], ChoiceConfidence(published), None)
      BY <2>1, Zenon DEF BuildAnswer, published
    <3> HIDE DEF all
    <3> QED BY <3>1 DEF Answer
  <2>2. CASE p.type = "score"
    <3>1. BuildAnswer(p, out) = Answer(p, all, None, None,
                             Total([i \in DOMAIN published |-> (i - 1) * published[i]]))
      BY <2>2, Zenon DEF BuildAnswer, published
    <3> HIDE DEF all
    <3> QED BY <3>1 DEF Answer
  <2> QED BY <1>1, <2>1, <2>2
<1>3. DOMAIN all = {Keys(p)[i] : i \in 1..K}
  BY <1>1, Zenon DEF ByKey
<1>4. DOMAIN Keys(p) = 1..K
  BY <1>1 DEF Keys
<1>5. Range(Keys(p)) = {Keys(p)[i] : i \in 1..K}
  BY <1>4, Zenon DEF Range
<1> QED BY <1>2, <1>3, <1>5

\* Softmax gives as many numbers as there are options: what is not valid is none.
LEMMA InvalidIs ==
    ASSUME NEW p, NEW q, GoodPrepared(p, q), p.options # <<>>,
           NEW content, NEW out \in Softmax(Alone(engine, content, p)), ~Valid(p, out)
    PROVE  NaN \in Range(out.values)
<1> DEFINE K == Len(p.options)
           reading == Alone(engine, content, p)
<1>1. K \in Nat /\ K # 0 /\ K \in DOMAIN Outcomes
  BY DEF GoodPrepared
<1>2. Len(reading) = K
  BY <1>1 DEF Alone
<1> HIDE DEF reading
<1>3. PICK d \in Outcomes[K] \cup {[i \in 1..K |-> NaN]} : out = [reading |-> reading, values |-> d]
  BY <1>2, Zenon DEF Softmax, reading
<1>4. out.values = d
  BY <1>3
<1>5. Len(d) = K
  BY <1>1, OutcomeAssumption, <1>3
<1> QED BY <1>4, <1>5 DEF Valid

\* It follows from the inductive invariant.
LEMMA AllOrNothingIs == IInv => AllOrNothing
<1> SUFFICES ASSUME IInv, call.at = "answered" PROVE AllOrNothing
  BY DEF AllOrNothing
<1> DEFINE broken == \E out \in Range(call.predicted) : NaN \in Range(out.values)
<1>1. CASE Answered
  <2>1. PICK content \in Contents : Admitted(content) /\ \E predicted : Answers(content, predicted)
    BY <1>1, AnsweredIs
  <2>2. PICK predicted : Answers(content, predicted)
    BY <2>1
  <2> DEFINE N == Len(content.questions)
             items == Items(content)
  <2>3. GoodContent(content)
    BY ContentIs
  <2>4. /\ call.content = content /\ call.items = items /\ call.predicted = predicted
        /\ call.response = Served(items, RowsFor(content), predicted)
    BY <2>2 DEF Answers, IsCall
  <2>5. DOMAIN call.response.answers = Qids(items)
    <3> DEFINE answers == [qid \in Qids(items) |->
                BuildAnswer(items[ItemOf(items, qid)], predicted[ItemOf(items, qid)])]
               native == IF engine = "laya"
                 THEN [qid \in Qids(items) |-> predicted[ItemOf(items, qid)].reading] ELSE None
    <3>1. call.response = [ code |-> 200, cause |-> "answered", answers |-> answers,
                            native |-> native, tokens |-> InputTokens(RowsFor(content)) ]
      BY <2>4, Zenon DEF Served
    <3>2. DOMAIN answers = Qids(items)
      OBVIOUS
    <3> HIDE DEF answers, native
    <3> QED BY <3>1, <3>2
  <2>6. DOMAIN call.response.answers = {q.qid : q \in Range(call.content.questions)}
    BY <2>3, <2>4, <2>5, QidsAre
  <2>7. \A i \in 1..N : Settled(content, predicted, i)
    BY <2>1, <2>2, SettledIs
  <2>8. DOMAIN predicted = 1..N /\ DOMAIN items = 1..N
    BY <2>2, <2>3, ItemsAre DEF Answers, Through
  <2>9. ~broken
    BY <2>7, <2>4, <2>8 DEF Settled, Numbered, Range
  <2>10. ASSUME NEW i \in 1..N, items[i].type # "noul"
         PROVE  DOMAIN call.response.answers[items[i].qid].probabilities = Range(Keys(items[i]))
    <3> DEFINE p == items[i]
    <3>1. /\ GoodPrepared(p, content.questions[i])
          /\ Numbered(predicted[i], Alone(engine, content, p), Len(p.options))
          /\ call.response.answers[p.qid] = BuildAnswer(p, predicted[i])
      BY <2>7, Zenon DEF Settled
    <3> QED BY <3>1, <2>10, AllKeys
  <2>11. \A p \in Range(call.items) : p.type # "noul" =>
             DOMAIN call.response.answers[p.qid].probabilities = Range(Keys(p))
    <3> HIDE DEF items, N
    <3> TAKE p \in Range(call.items)
    <3>1. PICK i \in 1..N : p = items[i]
      BY <2>4, <2>8 DEF Range
    <3> QED BY <2>10, <3>1
  <2> QED BY <1>1, <2>6, <2>9, <2>11, Zenon DEF AllOrNothing
<1>2. CASE ~Answered
  <2>1. PICK content \in Contents : /\ Admitted(content)
                                    /\ \/ Refused(content)
                                       \/ \E predicted : \/ PassFailed(content, predicted)
                                                         \/ NotANumber(content, predicted)
                                                         \/ Answers(content, predicted)
    BY Phases
  <2>2. \A code, cause : Refusal(code, cause).answers = <<>> /\ Refusal(code, cause).cause = cause
    BY DEF Refusal, NoResponse
  <2>3. CASE Refused(content)
    BY <2>3, <1>2, <2>2 DEF Refused, IsCall, AllOrNothing
  <2>4. CASE \E predicted : PassFailed(content, predicted)
    BY <2>4, <1>2, <2>2 DEF PassFailed, IsCall, AllOrNothing
  <2>5. CASE \E predicted : NotANumber(content, predicted)
    <3>1. PICK predicted : NotANumber(content, predicted)
      BY <2>5
    <3>2. call.response = Refusal(500, "distribution") /\ call.predicted = predicted
      BY <3>1 DEF NotANumber, IsCall
    <3>3. PICK i \in 1..Len(content.questions) : ~Valid(Items(content)[i], predicted[i])
      BY <3>1, Zenon DEF NotANumber, AllValid
    <3> DEFINE p == Items(content)[i]
               out == predicted[i]
    <3>4. out \in Softmax(Alone(engine, content, p))
      BY <3>1, Zenon DEF NotANumber, Through
    <3>5. GoodPrepared(p, content.questions[i]) /\ DOMAIN Items(content) = 1..Len(content.questions)
      BY ContentIs, ItemsAre
    <3>6. p.options # <<>>
      BY <2>1, <3>5, Zenon DEF Admitted, Items
    <3>7. NaN \in Range(out.values)
      BY <3>3, <3>4, <3>5, <3>6, InvalidIs
    <3>8. out \in Range(predicted)
      BY <3>1 DEF NotANumber, Through, Range
    <3>9. \E o \in Range(call.predicted) : NaN \in Range(o.values)
      BY <3>2, <3>7, <3>8, Zenon
    <3> QED BY <1>2, <2>2, <3>2, <3>9 DEF AllOrNothing
  <2>6. CASE \E predicted : Answers(content, predicted)
    BY <2>6, <1>2 DEF Answers, IsCall, Served, Answered
  <2> QED BY <2>1, <2>3, <2>4, <2>5, <2>6
<1> QED BY <1>1, <1>2

\* A request is answered with exactly its questions and its options, or not at all and
\* for a reason (scheduler.py:262-269, base.py:221-232).
THEOREM NothingInBetween == Spec => []AllOrNothing
BY Inductive, AllOrNothingIs, PTL

-----------------------------------------------------------------------------
(* The batch is invisible                                                   *)

\* What is shown of the options by wire key.
Keyed(all, p, out, shown) ==
    /\ DOMAIN all = {Keys(p)[i] : i \in shown}
    /\ \A j \in DOMAIN p.options : p.options[j].name \in DOMAIN all =>
          /\ j \in shown
          /\ all[p.options[j].name] = [p |-> RoundProbs(out.values)[j], read |-> out.reading[j]]

\* Keys are distinct, so what is found under an option's key is the option's.
LEMMA ByKeyIs ==
    ASSUME NEW p, NEW q, GoodPrepared(p, q), NEW out, NEW shown \in SUBSET (DOMAIN p.options)
    PROVE  Keyed(ByKey(p, RoundProbs(out.values), out, shown), p, out, shown)
<1> DEFINE published == RoundProbs(out.values)
           all == ByKey(p, published, out, shown)
           keys == Keys(p)
<1>1. \A i, j \in DOMAIN p.options : p.options[i].name = p.options[j].name => i = j
  BY DEF GoodPrepared
<1>2. \A i \in DOMAIN p.options : keys[i] = p.options[i].name
  BY DEF Keys
<1> HIDE DEF keys, published
<1>3. DOMAIN all = {keys[i] : i \in shown}
      /\ \A key \in {keys[i] : i \in shown} : all[key] =
             [p |-> published[CHOOSE n \in shown : keys[n] = key],
              read |-> out.reading[CHOOSE n \in shown : keys[n] = key]]
  BY Zenon DEF ByKey, keys
<1> HIDE DEF all
<1>4. ASSUME NEW j \in DOMAIN p.options, p.options[j].name \in DOMAIN all
      PROVE  /\ j \in shown
             /\ all[p.options[j].name] = [p |-> published[j], read |-> out.reading[j]]
  <2> DEFINE key == p.options[j].name
  <2>1. PICK i \in shown : key = keys[i]
    BY <1>3, <1>4
  <2>2. i = j
    BY <1>1, <1>2, <2>1
  <2>3. \A n \in shown : keys[n] = key <=> n = j
    BY <1>1, <1>2
  <2>4. (CHOOSE n \in shown : keys[n] = key) = j
    BY <2>1, <2>2, <2>3, Zenon
  <2> QED BY <2>1, <2>2, <1>3, <2>4
<1> QED BY <1>3, <1>4 DEF Keyed, all, keys, published

\* Which options are shown.
ShownOf(p) == IF p.type = "noul" THEN {2} ELSE DOMAIN p.options

\* Every answer shows its options by wire key.
LEMMA ProbabilitiesAre ==
    ASSUME NEW p, NEW q, GoodPrepared(p, q), NEW reading, NEW out,
           Numbered(out, reading, Len(p.options))
    PROVE  Keyed(BuildAnswer(p, out).probabilities, p, out, ShownOf(p))
<1> DEFINE published == RoundProbs(out.values)
           all(shown) == ByKey(p, published, out, shown)
           K == Len(p.options)
<1>1. /\ DOMAIN published = 1..K /\ DOMAIN p.options = 1..K
      /\ p.type \in {"noul", "choice", "score"} /\ (p.type = "noul" => K = 2)
  BY DEF Numbered, RoundProbs, GoodPrepared
<1>2. ShownOf(p) \in SUBSET (DOMAIN p.options)
  <2> HIDE DEF published, K
  <2> QED BY <1>1 DEF ShownOf
<1>3. Keyed(all(ShownOf(p)), p, out, ShownOf(p))
  BY <1>2, ByKeyIs
<1> HIDE DEF published, K
<1>4. BuildAnswer(p, out).probabilities = all(ShownOf(p))
  <2> DEFINE shown == all(DOMAIN published)
             yes == all({2})
  <2>1. CASE p.type = "choice"
    <3>1. BuildAnswer(p, out) = Answer(p, shown, Keys(p)[Winner(out)], ChoiceConfidence(published), None)
      BY <2>1, Zenon DEF BuildAnswer, published
    <3>2. all(ShownOf(p)) = shown
      BY <1>1, <2>1 DEF ShownOf
    <3> HIDE DEF shown
    <3> QED BY <3>1, <3>2 DEF Answer
  <2>2. CASE p.type = "score"
    <3>1. BuildAnswer(p, out) = Answer(p, shown, None, None,
                             Total([i \in DOMAIN published |-> (i - 1) * published[i]]))
      BY <2>2, Zenon DEF BuildAnswer, published
    <3>2. all(ShownOf(p)) = shown
      BY <1>1, <2>2 DEF ShownOf
    <3> HIDE DEF shown
    <3> QED BY <3>1, <3>2 DEF Answer
  <2>3. CASE p.type = "noul"
    <3>1. BuildAnswer(p, out) = Answer(p, yes, None, None, None)
      BY <2>3, Zenon DEF BuildAnswer, published
    <3>2. all(ShownOf(p)) = yes
      BY <2>3 DEF ShownOf
    <3> HIDE DEF yes
    <3> QED BY <3>1, <3>2 DEF Answer
  <2> QED BY <1>1, <2>1, <2>2, <2>3
<1> QED BY <1>3, <1>4, Zenon

\* ReadAlone and TokensAlone are those of the request that was answered.
LEMMA AloneIs ==
    ASSUME NEW content, call.content = content, NEW p
    PROVE  /\ \A j \in 1..Len(p.options) : Alone(engine, content, p)[j] = ReadAlone(p, j)
           /\ TokensAlone(p) = TokensOf(engine, content, p)
<1>1. \A j \in 1..Len(p.options) : Alone(engine, content, p)[j] = ReadAlone(p, j)
  BY Zenon DEF Alone, ReadAlone, Kevs, IsKev
<1>2. TokensAlone(p) = TokensOf(engine, content, p)
  BY Zenon DEF TokensAlone, TokensOf, Kevs, IsKev
<1> QED BY <1>1, <1>2

\* It follows from the inductive invariant: the readings are those of each question
\* alone, the keys are distinct, and the tokens are billed question by question.
LEMMA InvisibleIs == IInv => BatchIsInvisible
<1> SUFFICES ASSUME IInv, Answered PROVE BatchIsInvisible
  BY Zenon DEF BatchIsInvisible
<1>1. PICK content \in Contents : Admitted(content) /\ \E predicted : Answers(content, predicted)
  BY AnsweredIs
<1>2. PICK predicted : Answers(content, predicted)
  BY <1>1
<1> DEFINE N == Len(content.questions)
           items == Items(content)
<1>3. GoodContent(content) /\ DOMAIN items = 1..N
  BY ContentIs, ItemsAre
<1>4. /\ call.content = content /\ call.items = items
      /\ call.response = Served(items, RowsFor(content), predicted)
  BY <1>2 DEF Answers, IsCall
<1>5. ASSUME NEW i \in 1..N
      PROVE  LET p == items[i]
                 answer == call.response.answers[p.qid]
             IN  /\ \A j \in DOMAIN p.options :
                       p.options[j].name \in DOMAIN answer.probabilities =>
                           answer.probabilities[p.options[j].name].read = ReadAlone(p, j)
                 /\ engine = "laya" =>
                       call.response.native[p.qid] =
                           [j \in DOMAIN p.options |-> ReadAlone(p, j)]
  <2> DEFINE p == items[i]
             answer == call.response.answers[p.qid]
             out == predicted[i]
             reading == Alone(engine, content, p)
             K == Len(p.options)
  <2>1. Settled(content, predicted, i)
    BY <1>1, <1>2, SettledIs
  <2>2. /\ GoodPrepared(p, content.questions[i])
        /\ Numbered(out, reading, K)
        /\ answer = BuildAnswer(p, out)
        /\ engine = "laya" => call.response.native[p.qid] = out.reading
    BY <2>1, Zenon DEF Settled
  <2>3. DOMAIN p.options = 1..K /\ K \in Nat
    BY <2>2 DEF GoodPrepared
  <2>4. \A j \in 1..K : reading[j] = ReadAlone(p, j)
    BY <1>4, AloneIs
  <2>5. out.reading = reading
    BY <2>2 DEF Numbered
  <2>6. Keyed(answer.probabilities, p, out, ShownOf(p))
    <3> HIDE DEF p, out, reading, K
    <3>1. Keyed(BuildAnswer(p, out).probabilities, p, out, ShownOf(p))
      BY <2>2, ProbabilitiesAre DEF K
    <3> QED BY <2>2, <3>1, Zenon
  <2>7. reading = [j \in DOMAIN p.options |-> ReadAlone(p, j)]
    <3>1. reading = [j \in 1..K |-> reading[j]]
      <4> DEFINE at(j) == CASE engine \in Kevs -> KevAlone(Render(content.state), p, j)
                            [] engine = "laya" -> LayaAlone(Render(content.state), p, j)
                            [] OTHER -> JeffAlone(content.state, p, j)
      <4>1. reading = [j \in 1..K |-> at(j)]
        BY Zenon DEF Alone
      <4> HIDE DEF at, K, reading
      <4> QED BY <4>1
    <3> QED BY <2>3, <2>4, <3>1, Zenon
  <2> HIDE DEF p, out, reading, K, answer
  <2>8. ASSUME NEW j \in DOMAIN p.options, p.options[j].name \in DOMAIN answer.probabilities
        PROVE  answer.probabilities[p.options[j].name].read = ReadAlone(p, j)
    <3> DEFINE shown == answer.probabilities[p.options[j].name]
    <3>1. shown = [p |-> RoundProbs(out.values)[j], read |-> out.reading[j]]
      BY <2>6, <2>8, Zenon DEF Keyed
    <3> HIDE DEF shown
    <3> QED BY <2>3, <2>4, <2>5, <3>1 DEF shown
  <2> QED BY <2>2, <2>5, <2>7, <2>8, Zenon DEF p, answer
<1>6. call.response.tokens = Total([i \in DOMAIN call.items |-> TokensAlone(call.items[i])])
  <2>1. call.response.tokens = InputTokens(RowsFor(content))
    BY <1>4 DEF Served
  <2>2. Billed(content)
    BY <1>1, BilledIs DEF IInv
  <2>3. InputTokens(RowsFor(content)) = Total([i \in 1..N |-> TokensOf(engine, content, items[i])])
    BY <2>2, Zenon DEF Billed
  <2>4. \A i \in 1..N : TokensAlone(call.items[i]) = TokensOf(engine, content, items[i])
    BY <1>4, AloneIs
  <2> HIDE DEF items, N
  <2> QED BY <2>1, <2>3, <1>3, <1>4, <2>4
<1>7. ASSUME NEW i \in DOMAIN call.items
      PROVE  LET p == call.items[i]
                 answer == call.response.answers[p.qid]
             IN  /\ \A j \in DOMAIN p.options :
                       p.options[j].name \in DOMAIN answer.probabilities =>
                           answer.probabilities[p.options[j].name].read = ReadAlone(p, j)
                 /\ engine = "laya" =>
                       call.response.native[p.qid] =
                           [j \in DOMAIN p.options |-> ReadAlone(p, j)]
  <2>1. i \in 1..N /\ call.items[i] = items[i]
    <3> HIDE DEF N, items
    <3> QED BY <1>3, <1>4
  <2> HIDE DEF N, items
  <2> QED BY <1>5, <2>1, Zenon
<1> HIDE DEF items
<1> QED BY <1>6, <1>7, Zenon DEF BatchIsInvisible

\* A question is answered as if it were asked alone: no other question, padding or
\* chunk reaches its numbers, its native confidences or its tokens (kev.py:488-490,
\* base.py:81-83).
THEOREM Invisible == Spec => []BatchIsInvisible
BY Inductive, InvisibleIs, PTL

-----------------------------------------------------------------------------
(* Rounding                                                                 *)

\* What division with a remainder is.
LEMMA Divide ==
    ASSUME NEW a \in Nat, NEW b \in Nat \ {0}
    PROVE  /\ a \div b \in Nat /\ a % b \in 0..(b - 1)
           /\ a = b * (a \div b) + (a % b)
OBVIOUS

\* A larger multiple has a larger factor.
LEMMA Cancel ==
    ASSUME NEW F \in Nat \ {0}, NEW a \in Int, NEW b \in Int, F * a <= F * b
    PROVE  a <= b
<1> SUFFICES ASSUME b + 1 <= a PROVE FALSE
  OBVIOUS
<1>2. F * (a - (b + 1)) >= 0
  OBVIOUS
<1> QED BY <1>2

\* Round is within one half, whichever way halves go.
LEMMA RoundIs ==
    ASSUME NEW a \in Nat, NEW b \in Nat \ {0}
    PROVE  /\ Round(a, b) \in Nat
           /\ 2 * b * Round(a, b) <= 2 * a + b
<1> DEFINE q == a \div b
           r == a % b
           v == Round(a, b)
<1>1. q \in Nat /\ r \in 0..(b - 1) /\ a = b * q + r
  BY Divide
<1>2. v = IF 2 * r > b \/ (2 * r = b /\ <<a, b>> \in TiesUp) THEN q + 1 ELSE q
  BY Zenon DEF Round
<1> HIDE DEF q, r, v
<1>3. CASE v = q
  BY <1>1, <1>3 DEF v
<1>4. CASE v = q + 1 /\ 2 * r >= b
  BY <1>1, <1>4 DEF v
<1> QED BY <1>1, <1>2, <1>3, <1>4

\* It is exact, monotonous where it matters, and at most one not far above one half.
LEMMA RoundBounds ==
    ASSUME NEW a \in Nat, NEW b \in Nat \ {0}
    PROVE  /\ \A c \in Nat : a = b * c => Round(a, b) = c
           /\ \A c \in Nat : a <= b * c => Round(a, b) <= c
           /\ 2 * a <= b + 1 => Round(a, b) <= 1
<1> DEFINE q == a \div b
           r == a % b
           v == Round(a, b)
<1>1. q \in Nat /\ r \in 0..(b - 1) /\ a = b * q + r
  BY Divide
<1>2. v = IF 2 * r > b \/ (2 * r = b /\ <<a, b>> \in TiesUp) THEN q + 1 ELSE q
  BY Zenon DEF Round
<1> HIDE DEF q, r, v
<1>3. ASSUME NEW c \in Nat, a <= b * c
      PROVE  q <= c /\ (q = c => r = 0)
  BY <1>1, <1>3, Cancel
<1>4. ASSUME NEW c \in Nat, a <= b * c PROVE v <= c
  BY <1>3, <1>4, <1>1, <1>2
<1>5. ASSUME NEW c \in Nat, a = b * c PROVE v = c
  <2>1. b * c \in Nat /\ b * q \in Nat
    BY <1>1
  <2> QED BY <1>1, <1>2, <1>5, <2>1, <1>3
<1>6. ASSUME 2 * a <= b + 1 PROVE v <= 1
  <2>1. a <= b * 1
    BY <1>6
  <2> QED BY <2>1, <1>4
<1> QED BY <1>4, <1>5, <1>6 DEF v

\* A bound on every number bounds their sum.
AllBounded(x, K, A, B, C) == \A i \in 1..K : C <= A * x[i] + B

\* A bound on every number bounds their sum.
LEMMA SumBound ==
    ASSUME NEW K \in Nat, NEW x \in [1..K -> Int], NEW A \in Int, NEW B \in Int, NEW C \in Int,
           AllBounded(x, K, A, B, C)
    PROVE  K * C <= A * Total(x) + K * B
<1>1. PICK f \in [0..K -> Int] :
              /\ f[0] = 0 /\ \A k \in 1..K : f[k] = f[k - 1] + x[k]
              /\ Total(x) = f[K]
  BY TotalIs
<1> DEFINE E == {k \in 0..K : k * C <= A * f[k] + k * B}
<1>2. 0 \in E
  BY <1>1
<1>3. ASSUME NEW k \in 1..K, k - 1 \in E PROVE k \in E
  <2>1. (k - 1) * C <= A * f[k - 1] + (k - 1) * B
    BY <1>3
  <2>2. f[k] = f[k - 1] + x[k] /\ f[k - 1] \in Int /\ f[k] \in Int /\ x[k] \in Int
    BY <1>1
  <2>3. C <= A * x[k] + B
    BY DEF AllBounded
  <2> DEFINE g == f[k - 1]
             h == f[k]
             y == x[k]
  <2> HIDE DEF g, h, y
  <2>4. k * C <= A * h + k * B
    <3>0. g \in Int /\ y \in Int /\ h = g + y /\ k \in Int
      BY <2>2 DEF g, h, y
    <3>1. A * h = A * g + A * y
      BY <3>0
    <3>2. k * C = (k - 1) * C + C /\ k * B = (k - 1) * B + B
      BY <3>0
    <3>3. A * g \in Int /\ A * y \in Int /\ (k - 1) * C \in Int /\ (k - 1) * B \in Int
      BY <3>0
    <3>4. (k - 1) * C <= A * g + (k - 1) * B /\ C <= A * y + B
      BY <2>1, <2>3 DEF g, y
    <3> QED BY <3>1, <3>2, <3>3, <3>4, SMTT(30)
  <2> QED BY <2>4 DEF h
<1> HIDE DEF E
<1>4. \A k \in 0..K : k \in E
  BY <1>3, <1>2, UpTo
<1> QED BY <1>1, <1>4 DEF E

-----------------------------------------------------------------------------
(* Clients recompute an answer                                              *)

\* The first of the largest numbers is there.
First(values, w, K) ==
    /\ w \in 1..K
    /\ \A j \in 1..K : values[j] < values[w] \/ (values[j] = values[w] /\ w <= j)

\* Argmax finds the first of the largest numbers.
LEMMA ArgmaxIs ==
    ASSUME NEW K \in Nat \ {0}, NEW values \in [1..K -> Int]
    PROVE  First(values, Argmax(values), K)
<1> DEFINE E == {k \in 0..K : k = 0 \/ \E w \in 1..k : First(values, w, k)}
<1>1. 0 \in E
  OBVIOUS
<1>2. ASSUME NEW k \in 1..K, k - 1 \in E PROVE k \in E
  <2>1. CASE k = 1
    BY <2>1 DEF First
  <2>2. CASE k # 1
    <3>1. PICK w \in 1..(k - 1) : First(values, w, k - 1)
      BY <1>2, <2>2
    <3>2. CASE values[k] <= values[w]
      BY <3>1, <3>2 DEF First
    <3>3. CASE values[w] < values[k]
      <4>1. First(values, k, k)
        BY <3>1, <3>3 DEF First
      <4> QED BY <4>1
    <3> QED BY <3>2, <3>3
  <2> QED BY <2>1, <2>2
<1> HIDE DEF E
<1>3. K \in E
  <2>1. \A k \in 1..K : k - 1 \in E => k \in E
    BY <1>2, Zenon
  <2>2. \A k \in 0..K : k \in E
    BY <1>1, <2>1, UpTo, Zenon
  <2> QED BY <2>2
<1>4. PICK w \in 1..K : First(values, w, K)
  BY <1>3 DEF E
<1> DEFINE best(i) == \A j \in DOMAIN values :
               values[j] <= values[i] /\ (values[j] = values[i] => i <= j)
<1>5. DOMAIN values = 1..K
  OBVIOUS
<1>6. \A i \in 1..K : best(i) <=> First(values, i, K)
  BY <1>5 DEF First
<1>7. w \in DOMAIN values /\ best(w)
  BY <1>4, <1>5, <1>6
<1> HIDE DEF best
<1>8. Argmax(values) \in DOMAIN values /\ best(Argmax(values))
  BY <1>7, Zenon DEF Argmax, best
<1> QED BY <1>5, <1>6, <1>8

\* What is published are Unit-ths.
LEMMA PublishedIs ==
    ASSUME NEW out, NEW reading, NEW K \in Nat, Numbered(out, reading, K)
    PROVE  /\ RoundProbs(out.values) \in [1..K -> 0..Unit]
           /\ \A i \in 1..K : RoundProbs(out.values)[i] = Round(out.values[i] * Unit, Fine)
<1> DEFINE x == out.values
           published == RoundProbs(x)
<1>1. x \in [1..K -> 0..Fine]
  BY DEF Numbered
<1>2. Fine \in Nat \ {0} /\ Unit \in Nat \ {0}
  BY OutcomeAssumption, UnitAssumption
<1> HIDE DEF x
<1>3. DOMAIN x = 1..K
  BY <1>1
<1>4. published = [i \in 1..K |-> Round(x[i] * Unit, Fine)]
  BY <1>3, Zenon DEF RoundProbs
<1>5. ASSUME NEW i \in 1..K PROVE Round(x[i] * Unit, Fine) \in 0..Unit
  <2> DEFINE y == x[i]
             a == y * Unit
  <2>1. y \in 0..Fine
    BY <1>1
  <2> HIDE DEF y
  <2>2. a \in Nat
    BY <1>2, <2>1
  <2>3. a <= Fine * Unit
    BY <1>2, <2>1
  <2> HIDE DEF a
  <2>4. Round(a, Fine) \in Nat /\ Round(a, Fine) <= Unit
    BY <1>2, <2>2, <2>3, RoundIs, RoundBounds
  <2> QED BY <1>2, <2>4 DEF a, y
<1> QED BY <1>4, <1>5 DEF x

\* Numbers that add up to Fine and are rounded to one v: together they are at most
\* half a step each above Unit.
LEMMA EqualOnes ==
    ASSUME NEW K \in Nat \ {0}, NEW x \in [1..K -> 0..Fine], Total(x) = Fine, NEW v \in Nat,
           \A i \in 1..K : Round(x[i] * Unit, Fine) = v
    PROVE  2 * (K * v - Unit) <= K
<1> DEFINE C == 2 * Fine * v
           A == 2 * Unit
<1>1. Fine \in Nat \ {0} /\ Unit \in Nat \ {0}
  BY OutcomeAssumption, UnitAssumption
<1>2. C \in Nat /\ A \in Nat \ {0}
  BY <1>1
<1>3. ASSUME NEW i \in 1..K
      PROVE  /\ C <= A * x[i] + Fine
             /\ A * x[i] \in Nat
  <2> DEFINE a == x[i] * Unit
  <2>2. a \in Nat /\ A * x[i] = 2 * a
    BY <1>1
  <2> HIDE DEF a
  <2>4. 2 * Fine * v <= 2 * a + Fine
    BY <1>1, <2>2, RoundIs DEF a
  <2> HIDE DEF A
  <2> QED BY <2>2, <2>4
<1>4. x \in [1..K -> Int] /\ K \in Nat /\ Fine \in Int
  BY <1>1
<1> HIDE DEF C, A
<1>5. K * C <= A * Fine + K * Fine
  <2>1. AllBounded(x, K, A, Fine, C)
    BY <1>3 DEF AllBounded
  <2>2. A \in Int /\ C \in Int
    BY <1>2
  <2>3. K * C <= A * Total(x) + K * Fine
    BY <1>4, <2>1, <2>2, SumBound, Zenon
  <2> QED BY <2>3
<1>6. K * C = Fine * (2 * (K * v)) /\ A * Fine + K * Fine = Fine * (2 * Unit + K)
  BY <1>1 DEF C, A
<1>7. K * v \in Nat
  OBVIOUS
<1>8. 2 * (K * v) <= 2 * Unit + K
  BY <1>1, <1>5, <1>6, <1>7, Cancel
<1> QED BY <1>1, <1>7, <1>8

\* The published numbers of a distribution.
RoundedFrom(published, x, K) == \A i \in 1..K : published[i] = Round(x[i] * Unit, Fine)

\* Confidence is 1 for a certain option, at most the last decimal for equal ones and
\* never outside.
LEMMA ConfidenceIs ==
    ASSUME NEW K \in Nat \ {0}, NEW x \in [1..K -> 0..Fine], Total(x) = Fine,
           NEW published \in [1..K -> 0..Unit],
           RoundedFrom(published, x, K), NEW w, First(published, w, K)
    PROVE  /\ ChoiceConfidence(published) \in 0..Unit
           /\ published[w] = Unit => ChoiceConfidence(published) = Unit
           /\ (\A j \in 1..K : published[j] = published[w]) /\ K > 1 =>
                  ChoiceConfidence(published) <= 1
<1> DEFINE m == published[w]
           a == K * m - Unit
           b == K - 1
<1>1. Unit \in Nat \ {0} /\ w \in 1..K /\ m \in 0..Unit
  BY UnitAssumption DEF First
<1>2. Len(published) = K
  BY K \in Nat
<1>3. CASE K <= 1
  BY <1>2, <1>3, <1>1 DEF ChoiceConfidence
<1>4. CASE ~(K <= 1)
  <2>1. Max(Range(published)) = m
    <3>1. m \in Range(published) /\ \A y \in Range(published) : y \in Int /\ m >= y
      <4>1. DOMAIN published = 1..K /\ \A j \in 1..K : published[j] \in Nat /\ published[j] <= m
        BY <1>1 DEF First
      <4>2. Range(published) = {published[j] : j \in 1..K}
        BY <4>1, Zenon DEF Range
      <4> HIDE DEF m
      <4> QED BY <1>1, <4>1, <4>2 DEF m
    <3>2. \A z \in Range(published) : (\A y \in Range(published) : z >= y) => z = m
      BY <1>1, <3>1
    <3> HIDE DEF m
    <3> QED BY <3>1, <3>2, Zenon DEF Max
  <2>2. ChoiceConfidence(published) = Clamp(a, b)
    BY <1>2, <1>4, <2>1, Zenon DEF ChoiceConfidence
  <2>3. K * m \in Nat /\ b \in Nat \ {0}
    BY <1>1, <1>4
  <2>4. a \in Int /\ Unit * b \in Nat
    BY <1>1, <2>3
  <2> HIDE DEF m, b
  <2>5. CASE a < 0
    <3>1. Clamp(a, b) = 0
      BY <2>5 DEF Clamp
    <3>2. m # Unit
      BY <1>1, <2>4, <2>5 DEF b
    <3> HIDE DEF a
    <3> QED BY <1>1, <2>2, <3>1, <3>2 DEF m
  <2>6. CASE a >= 0
    <3>1. m = Unit => Clamp(a, b) = Unit
      <4> SUFFICES ASSUME m = Unit PROVE Clamp(a, b) = Unit
        OBVIOUS
      <4>1. K * Unit = b * Unit + Unit /\ b * Unit \in Nat /\ Unit * b = b * Unit
        BY <1>1, <2>3 DEF b
      <4>2. a = b * Unit
        BY <4>1, <1>1
      <4> HIDE DEF a
      <4> QED BY <2>4, <2>6, <1>1, <2>3, <4>1, <4>2, RoundBounds DEF Clamp
    <3>2. Clamp(a, b) \in 0..Unit
      <4> HIDE DEF a
      <4>1. CASE a > Unit * b
        BY <1>1, <2>4, <2>6, <4>1 DEF Clamp
      <4>2. CASE a <= Unit * b
        <5>1. Clamp(a, b) = Round(a, b)
          BY <2>4, <2>6, <4>2 DEF Clamp
        <5> QED BY <1>1, <5>1, <2>3, RoundIs, RoundBounds, <2>4, <2>6, <4>2
      <4> QED BY <2>4, <4>1, <4>2
    <3>3. (\A j \in 1..K : published[j] = m) => Clamp(a, b) <= 1
      <4> SUFFICES ASSUME \A j \in 1..K : published[j] = m PROVE Clamp(a, b) <= 1
        OBVIOUS
      <4>1. \A j \in 1..K : Round(x[j] * Unit, Fine) = m
        BY Zenon DEF RoundedFrom
      <4>2. m \in Nat
        BY <1>1
      <4>3. 2 * a <= b + 1
        BY <4>1, <4>2, EqualOnes DEF b
      <4> HIDE DEF a
      <4>4. a \in Nat
        BY <2>4, <2>6
      <4>6. a <= b
        BY <2>3, <4>3, <4>4
      <4>7. b <= Unit * b
        <5>1. Unit * b = b + (Unit - 1) * b
          BY <1>1, <2>3
        <5>2. (Unit - 1) * b \in Nat
          <6>1. Unit - 1 \in Nat
            BY <1>1
          <6> QED BY <2>3, <6>1
        <5> QED BY <2>3, <5>1, <5>2
      <4>8. ~(a > Unit * b) /\ ~(a < 0)
        BY <2>3, <2>4, <4>4, <4>6, <4>7
      <4>9. Clamp(a, b) = Round(a, b)
        BY <4>8 DEF Clamp
      <4> QED BY <2>3, <4>3, <4>4, <4>9, RoundBounds
    <3> HIDE DEF a
    <3> QED BY <2>2, <3>1, <3>2, <3>3 DEF m
  <2> HIDE DEF a
  <2> QED BY <2>4, <2>5, <2>6
<1> QED BY <1>1, <1>3, <1>4

\* What is published of an option that is shown.
ShownAs(p, out, probabilities) ==
    /\ DOMAIN probabilities = {Keys(p)[j] : j \in ShownOf(p)}
    /\ \A j \in ShownOf(p) : probabilities[Keys(p)[j]].p = RoundProbs(out.values)[j]

\* The numbers found under the options' keys are the published ones.
LEMMA ShownNumbers ==
    ASSUME NEW p, NEW q, GoodPrepared(p, q), NEW reading, NEW out,
           Numbered(out, reading, Len(p.options))
    PROVE  ShownAs(p, out, BuildAnswer(p, out).probabilities)
<1> DEFINE all == BuildAnswer(p, out).probabilities
           published == RoundProbs(out.values)
           K == Len(p.options)
<1>1. Keyed(all, p, out, ShownOf(p))
  BY ProbabilitiesAre
<1>2. DOMAIN p.options = 1..K /\ (p.type = "noul" => K = 2)
  BY DEF GoodPrepared
<1> HIDE DEF all, published, K
<1>5. DOMAIN all = {Keys(p)[j] : j \in ShownOf(p)}
  BY <1>1, Zenon DEF Keyed
<1>6. ASSUME NEW j \in ShownOf(p) PROVE all[Keys(p)[j]].p = published[j]
  <2>1. j \in DOMAIN p.options /\ Keys(p)[j] = p.options[j].name /\ Keys(p)[j] \in DOMAIN all
    BY <1>5, <1>2 DEF Keys, ShownOf
  <2>2. all[Keys(p)[j]] = [p |-> published[j], read |-> out.reading[j]]
    BY <1>1, <2>1, Zenon DEF Keyed, published
  <2> QED BY <2>2
<1> QED BY <1>5, <1>6, Zenon DEF ShownAs, all, published

\* The numbers of one answer add up.
AddsUp(p, answer) ==
    LET P(j) == answer.probabilities[Keys(p)[j]].p
        Options == DOMAIN p.options
    IN  CASE p.type = "choice" ->
                \E w \in Options :
                    /\ answer.choice = Keys(p)[w]
                    /\ \A j \in Options : P(j) < P(w) \/ (P(j) = P(w) /\ w <= j)
                    /\ answer.confidence \in 0..Unit
                    /\ P(w) = Unit => answer.confidence = Unit
                    /\ (\A j \in Options : P(j) = P(w)) /\ Len(p.options) > 1 =>
                          answer.confidence <= 1
          [] p.type = "score" ->
                answer.score = Total([j \in Options |-> (j - 1) * P(j)])
          [] OTHER -> DOMAIN answer.probabilities = {"true"} /\ P(2) \in 0..Unit

\* Every answer adds up.
LEMMA AnswerAddsUp ==
    ASSUME NEW p, NEW q, GoodPrepared(p, q), p.options # <<>>, NEW reading, NEW out,
           Numbered(out, reading, Len(p.options))
    PROVE  AddsUp(p, BuildAnswer(p, out))
<1> DEFINE published == RoundProbs(out.values)
           all == ByKey(p, published, out, DOMAIN published)
           answer == BuildAnswer(p, out)
           P(j) == answer.probabilities[Keys(p)[j]].p
           K == Len(p.options)
<1>1. /\ K \in Nat /\ DOMAIN p.options = 1..K /\ (p.type = "noul" => K = 2)
      /\ p.type \in {"noul", "choice", "score"}
      /\ p.type = "noul" => p.options[2].name = "true"
  BY DEF GoodPrepared
<1>2. K # 0
  BY <1>1
<1>3. /\ published \in [1..K -> 0..Unit]
      /\ \A i \in 1..K : published[i] = Round(out.values[i] * Unit, Fine)
  BY <1>1, PublishedIs
<1>4. /\ DOMAIN answer.probabilities = {Keys(p)[j] : j \in ShownOf(p)}
      /\ \A j \in ShownOf(p) : P(j) = published[j]
  <2>1. ShownAs(p, out, answer.probabilities)
    BY ShownNumbers
  <2> QED BY <2>1, Zenon DEF ShownAs
<1> HIDE DEF published, K
<1>5. DOMAIN published = 1..K
  BY <1>3
<1>6. CASE p.type = "choice"
  <2> DEFINE w == Winner(out)
  <2>1. answer = Answer(p, all, Keys(p)[w], ChoiceConfidence(published), None)
    BY <1>6, Zenon DEF BuildAnswer, published
  <2>2. answer.choice = Keys(p)[w] /\ answer.confidence = ChoiceConfidence(published)
    <3> HIDE DEF all, w, answer
    <3> QED BY <2>1 DEF Answer
  <2>3. \A j \in 1..K : P(j) = published[j]
    BY <1>1, <1>4, <1>6 DEF ShownOf
  <2> HIDE DEF answer, all
  <2>4. First(published, w, K)
    BY <1>1, <1>2, <1>3, UnitAssumption, ArgmaxIs DEF Winner, published
  <2> HIDE DEF w
  <2>5. w \in 1..K /\ \A j \in 1..K : published[j] < published[w] \/ (published[j] = published[w] /\ w <= j)
    BY <2>4 DEF First
  <2>6. /\ ChoiceConfidence(published) \in 0..Unit
        /\ published[w] = Unit => ChoiceConfidence(published) = Unit
        /\ (\A j \in 1..K : published[j] = published[w]) /\ K > 1 =>
               ChoiceConfidence(published) <= 1
    BY <1>1, <1>2, <1>3, <2>4, ConfidenceIs DEF Numbered, K, RoundedFrom
  <2>7. \E i \in 1..K :
            /\ answer.choice = Keys(p)[i]
            /\ \A j \in 1..K : P(j) < P(i) \/ (P(j) = P(i) /\ i <= j)
            /\ answer.confidence \in 0..Unit
            /\ P(i) = Unit => answer.confidence = Unit
            /\ (\A j \in 1..K : P(j) = P(i)) /\ K > 1 => answer.confidence <= 1
    <3> HIDE DEF P
    <3>1. /\ answer.choice = Keys(p)[w]
          /\ \A j \in 1..K : P(j) < P(w) \/ (P(j) = P(w) /\ w <= j)
          /\ answer.confidence \in 0..Unit
          /\ P(w) = Unit => answer.confidence = Unit
          /\ (\A j \in 1..K : P(j) = P(w)) /\ K > 1 => answer.confidence <= 1
      BY <2>2, <2>3, <2>5, <2>6
    <3> QED BY <2>5, <3>1, Zenon
  <2> QED BY <1>1, <1>6, <2>7, Zenon DEF AddsUp, K, answer
<1>7. CASE p.type = "score"
  <2>1. answer = Answer(p, all, None, None, Total([i \in DOMAIN published |-> (i - 1) * published[i]]))
    BY <1>7, Zenon DEF BuildAnswer, published
  <2>2. answer.score = Total([i \in DOMAIN published |-> (i - 1) * published[i]])
    <3> DEFINE score == Total([i \in DOMAIN published |-> (i - 1) * published[i]])
    <3> HIDE DEF all, answer, score
    <3> QED BY <2>1 DEF Answer, score
  <2>3. \A j \in 1..K : P(j) = published[j]
    BY <1>1, <1>4, <1>7 DEF ShownOf
  <2> HIDE DEF answer, all, P
  <2>4. [i \in DOMAIN published |-> (i - 1) * published[i]] = [j \in DOMAIN p.options |-> (j - 1) * P(j)]
    BY <1>1, <1>5, <2>3
  <2>5. answer.score = Total([j \in DOMAIN p.options |-> (j - 1) * P(j)])
    BY <2>2, <2>4, Zenon
  <2>6. p.type # "choice"
    BY <1>7
  <2> QED BY <1>7, <2>5, <2>6, Zenon DEF AddsUp, answer, P
<1>8. CASE p.type = "noul"
  <2>1. ShownOf(p) = {2}
    BY <1>8 DEF ShownOf
  <2>2. Keys(p)[2] = "true"
    BY <1>1, <1>8 DEF Keys
  <2>3. DOMAIN answer.probabilities = {"true"} /\ P(2) = published[2]
    <3> HIDE DEF answer
    <3> QED BY <1>4, <2>1, <2>2
  <2>4. published[2] \in 0..Unit
    BY <1>1, <1>3, <1>8
  <2> HIDE DEF P
  <2>5. P(2) \in 0..Unit
    BY <2>3, <2>4
  <2>6. p.type # "choice" /\ p.type # "score"
    BY <1>8
  <2> HIDE DEF answer
  <2> QED BY <2>3, <2>5, <2>6, Zenon DEF AddsUp, answer, P
<1> QED BY <1>1, <1>6, <1>7, <1>8

\* It follows from the inductive invariant.
LEMMA AddUpIs == IInv => AnswersAddUp
<1> SUFFICES ASSUME IInv, Answered PROVE AnswersAddUp
  BY Zenon DEF AnswersAddUp
<1>1. PICK content \in Contents : Admitted(content) /\ \E predicted : Answers(content, predicted)
  BY AnsweredIs
<1>2. PICK predicted : Answers(content, predicted)
  BY <1>1
<1> DEFINE N == Len(content.questions)
           items == Items(content)
<1>3. GoodContent(content) /\ DOMAIN items = 1..N
  BY ContentIs, ItemsAre
<1>4. call.items = items
  BY <1>2 DEF Answers, IsCall
<1>5. ASSUME NEW i \in DOMAIN call.items
      PROVE  AddsUp(call.items[i], call.response.answers[call.items[i].qid])
  <2> DEFINE p == items[i]
  <2>1. i \in 1..N /\ call.items[i] = p
    <3> HIDE DEF N, items
    <3> QED BY <1>3, <1>4
  <2>2. Settled(content, predicted, i)
    BY <1>1, <1>2, <2>1, SettledIs
  <2>3. /\ GoodPrepared(p, content.questions[i]) /\ p.options # <<>>
        /\ Numbered(predicted[i], Alone(engine, content, p), Len(p.options))
        /\ call.response.answers[p.qid] = BuildAnswer(p, predicted[i])
    BY <2>2, Zenon DEF Settled
  <2> HIDE DEF p
  <2>4. AddsUp(p, BuildAnswer(p, predicted[i]))
    BY <2>3, AnswerAddsUp
  <2> QED BY <2>1, <2>3, <2>4, ZenonT(40)
<1> QED BY <1>5, Zenon DEF AnswersAddUp, AddsUp

\* The choice is the first of the largest published numbers, the score their expected
\* level, a confidence 1 for a certain option, at most the last decimal for equal
\* ones, whichever way ties round, and never outside (answers.py:10-16, 43-53).
THEOREM AddUp == Spec => []AnswersAddUp
BY Inductive, AddUpIs, PTL

-----------------------------------------------------------------------------
(* Delimiters                                                               *)

\* How often `d` stands in a sequence.
PlacesOf(s, d) == {n \in DOMAIN s : s[n] = d}
Times(s, d) == Cardinality(PlacesOf(s, d))

\* That is a number.
LEMMA TimesType ==
    ASSUME NEW s \in Lines, NEW d
    PROVE  IsFiniteSet(PlacesOf(s, d)) /\ Times(s, d) \in Nat
<1>1. Len(s) \in Nat /\ DOMAIN s = 1..Len(s)
  BY DEF Lines
<1>2. IsFiniteSet(1..Len(s))
  BY <1>1, FS_Interval
<1> QED BY FS_CardinalityType, <1>2, FS_Subset, <1>1 DEF Times, PlacesOf

\* Occurrences add up.
LEMMA TimesConcat ==
    ASSUME NEW s \in Lines, NEW t \in Lines, NEW d
    PROVE  Times(s \o t, d) = Times(s, d) + Times(t, d)
<1> DEFINE m == Len(s)
           n == Len(t)
           A == PlacesOf(s, d)
           B == PlacesOf(t, d)
           C == {m + i : i \in B}
           f == [i \in B |-> m + i]
<1>1. /\ m \in Nat /\ n \in Nat /\ DOMAIN s = 1..m /\ DOMAIN t = 1..n
      /\ DOMAIN (s \o t) = 1..(m + n)
      /\ \A i \in 1..m : (s \o t)[i] = s[i]
      /\ \A i \in 1..n : (s \o t)[m + i] = t[i]
  BY ConcatIs DEF Lines
<1>2. A \in SUBSET (1..m) /\ B \in SUBSET (1..n)
  BY <1>1 DEF PlacesOf
<1>3. PlacesOf(s \o t, d) = A \cup C
  <2> HIDE DEF m, n
  <2>1. ASSUME NEW i \in 1..(m + n)
        PROVE  (s \o t)[i] = d <=> i \in A \cup C
    <3>1. CASE i <= m
      <4>1. i \in 1..m /\ (s \o t)[i] = s[i]
        BY <1>1, <3>1
      <4>2. i \notin C
        BY <1>2, <1>1, <3>1
      <4>3. i \in A <=> s[i] = d
        BY <1>1, <4>1 DEF PlacesOf
      <4> HIDE DEF A, C
      <4> QED BY <4>1, <4>2, <4>3
    <3>2. CASE i > m
      <4> DEFINE j == i - m
      <4>1. j \in 1..n /\ i = m + j
        BY <1>1, <3>2
      <4>2. (s \o t)[i] = t[j]
        BY <1>1, <4>1
      <4>3. i \notin A
        BY <1>1, <1>2, <3>2
      <4>4. i \in C <=> j \in B
        <5>1. j \in B => i \in C
          BY <4>1
        <5>2. ASSUME NEW k \in B, i = m + k PROVE k = j
          BY <1>2, <1>1, <4>1, <5>2
        <5> HIDE DEF j, B
        <5> QED BY <5>1, <5>2
      <4>5. j \in B <=> t[j] = d
        BY <1>1, <4>1 DEF PlacesOf
      <4> HIDE DEF A, B, C, j
      <4> QED BY <4>2, <4>3, <4>4, <4>5
    <3> QED BY <1>1, <3>1, <3>2
  <2>2. A \cup C \in SUBSET (1..(m + n))
    <3>1. A \in SUBSET (1..(m + n))
      BY <1>1, <1>2
    <3>2. \A i \in B : m + i \in 1..(m + n)
      BY <1>1, <1>2
    <3> HIDE DEF A, B
    <3> QED BY <3>1, <3>2
  <2> HIDE DEF A, C
  <2>3. PlacesOf(s \o t, d) = {i \in 1..(m + n) : (s \o t)[i] = d}
    BY <1>1, Zenon DEF PlacesOf
  <2> QED BY <2>1, <2>2, <2>3
<1>4. IsFiniteSet(A) /\ IsFiniteSet(B) /\ Cardinality(A) \in Nat /\ Cardinality(B) \in Nat
  BY TimesType, FS_CardinalityType
<1>5. IsFiniteSet(C) /\ Cardinality(C) = Cardinality(B)
  <2>1. \A i, j \in B : m + i = m + j => i = j
    BY <1>1, <1>2
  <2> HIDE DEF A, B
  <2>2. f \in Bijection(B, C)
    BY <2>1 DEF Bijection, Injection, Surjection, IsInjective
  <2>3. ExistsBijection(B, C)
    BY <2>2, Zenon DEF ExistsBijection
  <2> QED BY <1>4, <2>3, FS_Bijection
<1>6. A \cap C = {}
  <2>1. \A i \in A : i <= m
    BY <1>1, <1>2
  <2>2. \A i \in B : ~(m + i <= m)
    BY <1>1, <1>2
  <2> HIDE DEF A, B
  <2> QED BY <2>1, <2>2
<1> HIDE DEF A, B, C
<1>7. Cardinality(A \cup C) = Cardinality(A) + Cardinality(B)
  <2>1. Cardinality(A \cup C) = Cardinality(A) + Cardinality(C) - Cardinality(A \cap C)
    BY <1>4, <1>5, FS_Union
  <2> QED BY <1>4, <1>5, <2>1, <1>6, FS_EmptySet
<1> QED BY <1>3, <1>7 DEF Times, A, B

\* A sequence of one.
LEMMA TimesOne ==
    ASSUME NEW c, NEW d
    PROVE  Times(<<c>>, d) = IF c = d THEN 1 ELSE 0
<1>1. CASE c = d
  BY <1>1, FS_Singleton DEF PlacesOf, Times
<1>2. CASE c # d
  BY <1>2, FS_EmptySet DEF PlacesOf, Times
<1> QED BY <1>1, <1>2

\* What a client wrote holds no delimiter.
LEMMA TimesPlain ==
    ASSUME NEW s \in Seq(Plain), NEW d \in Delimiters
    PROVE  Times(s, d) = 0
<1> QED BY FS_EmptySet DEF Times, PlacesOf, Plain

\* How often a delimiter stands in a row of K options.
Often(d, K) == IF d \in {"<opt>", "</opt>"} THEN K ELSE 0

\* A span has its own two delimiters and no other.
LEMMA TimesSpan ==
    ASSUME NEW option \in Lines, NEW d \in Delimiters
    PROVE  Times(Span(option), d) = Often(d, 1)
<1> DEFINE u == UserTokens(option)
<1>1. u \in Lines /\ Times(u, d) = 0
  BY UserTokensPlain, TimesPlain, PlainIsText
<1>2. <<"<opt>">> \in Lines /\ <<"</opt>">> \in Lines
  BY PlainIsText DEF Delimiters
<1>3. Span(option) = (<<"<opt>">> \o u) \o <<"</opt>">>
  BY DEF Span
<1> HIDE DEF u
<1>5. Times(Span(option), d) = (Times(<<"<opt>">>, d) + Times(u, d)) + Times(<<"</opt>">>, d)
  BY <1>1, <1>2, <1>3, TimesConcat, TextConcat
<1> QED BY <1>1, <1>5, TimesOne DEF Often

\* So have all the spans.
LEMMA TimesSpans ==
    ASSUME NEW q \in KevQuestions, NEW d \in Delimiters
    PROVE  Times(FlattenSeq(Spans(q)), d) = Often(d, Len(q.options))
<1> DEFINE ss == Spans(q)
           K == Len(q.options)
           E == {k \in 0..K : Times(FlattenSeq(Prefix(ss, k)), d) = Often(d, k)}
<1>1. /\ K \in Nat /\ ss \in [1..K -> Seq(Strings)]
      /\ \A j \in 1..K : q.options[j] \in Lines /\ ss[j] = Span(q.options[j])
  BY SpansType DEF Lines, KevQuestions
<1> HIDE DEF ss, K
<1>2. /\ FlattenSeq(Prefix(ss, 0)) = <<>>
      /\ \A k \in 1..K : FlattenSeq(Prefix(ss, k)) = FlattenSeq(Prefix(ss, k - 1)) \o ss[k]
      /\ \A k \in 0..K : FlattenSeq(Prefix(ss, k)) \in Lines
      /\ Prefix(ss, K) = ss
  BY <1>1, FlattenSteps DEF Lines
<1>3. 0 \in E
  <2>1. Times(<<>>, d) = 0
    <3>1. <<>> \in Seq(Plain)
      OBVIOUS
    <3> QED BY <3>1, TimesPlain
  <2> QED BY <1>1, <1>2, <2>1 DEF Often
<1>4. ASSUME NEW k \in 1..K, k - 1 \in E PROVE k \in E
  <2> DEFINE before == FlattenSeq(Prefix(ss, k - 1))
  <2>1. before \in Lines /\ Times(before, d) = Often(d, k - 1) /\ k \in 0..K /\ k \in Nat
    BY <1>1, <1>2, <1>4
  <2>2. ss[k] \in Lines /\ Times(ss[k], d) = Often(d, 1)
    BY <1>1, TimesSpan, SpanType
  <2>3. FlattenSeq(Prefix(ss, k)) = before \o ss[k]
    BY <1>2
  <2> HIDE DEF before
  <2>4. Times(before \o ss[k], d) = Often(d, k - 1) + Often(d, 1)
    BY <2>1, <2>2, TimesConcat
  <2>5. Often(d, k - 1) + Often(d, 1) = Often(d, k)
    BY <2>1 DEF Often
  <2> QED BY <2>1, <2>3, <2>4, <2>5
<1> HIDE DEF E
<1>5. K \in E
  <2>1. \A k \in 1..K : k - 1 \in E => k \in E
    BY <1>4, Zenon
  <2>2. \A k \in 0..K : k \in E
    BY <1>1, <1>3, <2>1, UpTo, Zenon
  <2> QED BY <1>1, <2>2
<1> QED BY <1>2, <1>5 DEF E, ss, K

\* A row has the delimiters of its layout and no other.
LEMMA TimesRow ==
    ASSUME NEW state \in Lines, NEW q \in KevQuestions, NEW d \in Delimiters
    PROVE  Times(KevRow(state, q), d) =
               IF d \in {"<opt>", "</opt>"} THEN Len(q.options) ELSE 1
<1> DEFINE c == Cut(UserTokens(state), MaxState - 1)
           u == UserTokens(q.instr)
           F == FlattenSeq(Spans(q))
           K == Len(q.options)
<1>1. c \in Seq(Plain)
  <2> DEFINE v == UserTokens(state)
             n == IF MaxState - 1 < Len(v) THEN MaxState - 1 ELSE Len(v)
  <2>1. v \in Seq(Plain)
    BY UserTokensPlain
  <2>3. n \in 0..Len(v)
    BY <2>1, KevAssumption
  <2> HIDE DEF n
  <2> QED BY <2>1, <2>3, SubSeqProperties DEF Cut, n
<1>2. u \in Seq(Plain)
  BY UserTokensPlain DEF KevQuestions
<1>3. /\ c \in Lines /\ u \in Lines /\ Times(c, d) = 0 /\ Times(u, d) = 0
  BY <1>1, <1>2, PlainIsText, TimesPlain
<1>4. K \in Nat /\ F \in Lines /\ Times(F, d) = Often(d, K)
  BY SpansType, FlattenType, TimesSpans DEF Lines
<1>5. /\ <<"<state>">> \in Lines /\ <<"<q>">> \in Lines /\ <<"<decide>">> \in Lines
  BY PlainIsText DEF Delimiters
<1>6. KevRow(state, q) = (<<"<state>">> \o c) \o (((<<"<q>">> \o u) \o F) \o <<"<decide>">>)
  BY DEF KevRow, StateIds, Branch, Instructions
<1> HIDE DEF c, u, F, K
<1>7. <<"<state>">> \o c \in Lines /\ <<"<q>">> \o u \in Lines
  BY <1>3, <1>5, TextConcat
<1>8. (<<"<q>">> \o u) \o F \in Lines
  BY <1>4, <1>7, TextConcat
<1>11. Times((<<"<q>">> \o u) \o F, d) = Times(<<"<q>">> \o u, d) + Times(F, d)
  BY <1>4, <1>7, TimesConcat
<1>12. Times(((<<"<q>">> \o u) \o F) \o <<"<decide>">>, d) =
           Times((<<"<q>">> \o u) \o F, d) + Times(<<"<decide>">>, d)
  BY <1>5, <1>8, TimesConcat
<1>13. Times(KevRow(state, q), d) =
           Times(<<"<state>">> \o c, d) + Times(((<<"<q>">> \o u) \o F) \o <<"<decide>">>, d)
  BY <1>6, <1>7, TimesConcat, <1>5, <1>8, TextConcat
<1>15. Times(KevRow(state, q), d) =
           (IF d = "<state>" THEN 1 ELSE 0) + (((IF d = "<q>" THEN 1 ELSE 0) + Often(d, K))
            + (IF d = "<decide>" THEN 1 ELSE 0))
  BY <1>4, <1>3, <1>11, <1>12, <1>13, TimesOne, <1>5, TimesConcat DEF Often
<1>17. CASE d \in {"<opt>", "</opt>"}
  <2>1. Often(d, K) = K /\ d # "<state>" /\ d # "<q>" /\ d # "<decide>"
    BY <1>17 DEF Often
  <2> QED BY <1>4, <1>15, <1>17, <2>1 DEF K
<1>18. CASE d \notin {"<opt>", "</opt>"}
  BY <1>18, <1>15 DEF Often, Delimiters
<1> QED BY <1>17, <1>18

\* The place an option is read at holds its end.
LEMMA EndPlace ==
    ASSUME NEW state \in Lines, NEW q \in KevQuestions, NEW j \in 1..Len(q.options)
    PROVE  KevRow(state, q)[KevEnd(state, q, j)] = "</opt>"
<1> DEFINE S == StateIds(state)
           I == Instructions(q)
           ss == Spans(q)
           K == Len(q.options)
           F == FlattenSeq(ss)
           before(m) == FlattenSeq(Prefix(ss, m))
           len == Len(before(j))
           E == {m \in 0..K : j <= m => len \in 1..Len(before(m)) /\ before(m)[len] = "</opt>"}
<1>1. /\ K \in Nat /\ ss \in [1..K -> Seq(Strings)]
      /\ \A m \in 1..K : q.options[m] \in Lines /\ ss[m] = Span(q.options[m])
  BY SpansType DEF Lines, KevQuestions
<1>2. /\ \A m \in 1..K : before(m) = before(m - 1) \o ss[m]
      /\ \A m \in 0..K : before(m) \in Lines
      /\ before(K) = F
  <2> HIDE DEF ss, K
  <2> QED BY <1>1, FlattenSteps DEF Lines
<1>3. S \in Lines /\ Len(S) \in Nat /\ I \in Lines /\ Len(I) \in Nat
  BY StateIdsType, InstructionsType
<1>4. SpansBefore(q, j + 1) = len
  BY <1>1, SpansBeforeIs
<1> HIDE DEF S, I, ss, K, F, before
<1>5. ASSUME NEW m \in 1..K
      PROVE  /\ before(m) \in Lines /\ before(m - 1) \in Lines
             /\ Len(before(m)) \in Nat /\ Len(before(m - 1)) \in Nat
             /\ Len(before(m - 1)) < Len(before(m))
             /\ before(m)[Len(before(m))] = "</opt>"
             /\ \A i \in 1..Len(before(m - 1)) : before(m)[i] = before(m - 1)[i]
  <2> DEFINE b == before(m - 1)
             u == UserTokens(q.options[m])
             t == ss[m]
  <2>1. b \in Lines /\ before(m) \in Lines /\ before(m) = b \o t
    BY <1>1, <1>2
  <2>2. u \in Lines /\ <<"<opt>">> \in Lines /\ <<"</opt>">> \in Lines
    BY <1>1, UserTokensPlain, PlainIsText DEF Delimiters
  <2>3. t = (<<"<opt>">> \o u) \o <<"</opt>">>
    BY <1>1 DEF Span
  <2> HIDE DEF b, u, t
  <2> DEFINE h == <<"<opt>">> \o u
  <2>4. h \in Lines
    BY <2>2, TextConcat
  <2> HIDE DEF h
  <2>5. t \in Lines /\ Len(t) = Len(h) + 1 /\ t[Len(h) + 1] = "</opt>" /\ Len(h) \in Nat
    BY <2>2, <2>4, ConcatIs, <2>3 DEF Lines, h
  <2>6. /\ Len(b \o t) = Len(b) + Len(t)
        /\ \A i \in 1..Len(b) : (b \o t)[i] = b[i]
        /\ \A i \in 1..Len(t) : (b \o t)[Len(b) + i] = t[i]
    <3>1. b \in Seq(Strings) /\ t \in Seq(Strings)
      BY <2>1, <2>5 DEF Lines
    <3> QED BY <3>1, ConcatIs
  <2> QED BY <2>1, <2>6, <2>5 DEF b, Lines
<1>6. 0 \in E
  BY <1>1 DEF K
<1>7. ASSUME NEW m \in 1..K, m - 1 \in E PROVE m \in E
  <2> SUFFICES ASSUME j <= m PROVE len \in 1..Len(before(m)) /\ before(m)[len] = "</opt>"
    BY <1>1
  <2>1. CASE j = m
    BY <1>5, <2>1
  <2>2. CASE j # m
    <3>2. len \in 1..Len(before(m - 1)) /\ before(m - 1)[len] = "</opt>"
      BY <1>7, <1>1, <2>2 DEF K
    <3>3. Len(before(m)) \in Nat /\ Len(before(m - 1)) \in Nat /\ Len(before(m - 1)) < Len(before(m))
      BY <1>5
    <3> HIDE DEF len
    <3> QED BY <3>2, <3>3, <1>5
  <2> QED BY <2>1, <2>2
<1>8. len \in 1..Len(F) /\ F[len] = "</opt>"
  <2> HIDE DEF E
  <2>1. \A m \in 1..K : m - 1 \in E => m \in E
    BY <1>7, Zenon
  <2>2. \A m \in 0..K : m \in E
    BY <1>1, <1>6, <2>1, UpTo, Zenon
  <2> QED BY <1>2, <2>2, <1>1 DEF E, K
<1>9. F \in Lines
  BY <1>1, <1>2
<1> HIDE DEF len, E
<1> DEFINE a == I \o F
           z == <<"<decide>">>
<1>10. z \in Lines
  BY PlainIsText DEF Delimiters
<1>11. a \in Lines /\ Len(a) = Len(I) + Len(F) /\ a[Len(I) + len] = "</opt>"
  BY <1>3, <1>8, <1>9, ConcatIs DEF Lines
<1>12. KevRow(state, q) = S \o (a \o z)
  BY DEF KevRow, Branch, S, I, F, ss
<1> HIDE DEF a, z
<1>13. Len(I) + len \in 1..Len(a) /\ Len(a) \in Nat
  BY <1>3, <1>8, <1>9, <1>11 DEF Lines
<1>14. /\ a \o z \in Lines /\ Len(a) <= Len(a \o z) /\ Len(a \o z) \in Nat
       /\ (a \o z)[Len(I) + len] = "</opt>"
  <2>1. /\ a \o z \in Lines /\ Len(a \o z) = Len(a) + Len(z) /\ Len(z) \in Nat
        /\ \A i \in 1..Len(a) : (a \o z)[i] = a[i]
    <3>1. a \in Seq(Strings) /\ z \in Seq(Strings)
      BY <1>10, <1>11 DEF Lines
    <3> QED BY <3>1, ConcatIs DEF Lines
  <2> QED BY <1>11, <1>13, <2>1
<1>15. (S \o (a \o z))[Len(S) + (Len(I) + len)] = "</opt>"
  BY <1>3, <1>14, ConcatIs, <1>13 DEF Lines
<1>16. KevEnd(state, q, j) = Len(S) + (Len(I) + len)
  BY <1>4, <1>8, <1>3 DEF KevEnd, S, I
<1> QED BY <1>12, <1>15, <1>16

\* The delimiters of one row.
Unforged(row, K) ==
    LET tokens == row.tokens
        ids == [n \in DOMAIN tokens |-> tokens[n].id]
        Count(d) == Cardinality({n \in DOMAIN ids : ids[n] = d})
    IN  /\ Count("<opt>") = K /\ Count("</opt>") = K
        /\ \A d \in {"<state>", "<q>", "<decide>"} : Count(d) = 1
        /\ \A j \in 1..K : ids[row.opts[1][j]] = "</opt>"

\* What encode makes of a question is unforged.
LEMMA RowUnforged ==
    ASSUME NEW state \in Lines, NEW q \in KevQuestions, NEW enc,
           Encodes(enc, KevRow(state, q), Len(StateIds(state)), KevEnds(state, q))
    PROVE  Unforged(enc, Len(q.options))
<1> DEFINE row == KevRow(state, q)
           K == Len(q.options)
           tokens == enc.tokens
           ids == [n \in DOMAIN tokens |-> tokens[n].id]
           count(d) == Cardinality({n \in DOMAIN ids : ids[n] = d})
<1>1. /\ KevTokens(tokens, row, Len(StateIds(state)))
      /\ enc.opts = [k \in 1..1 |-> KevEnds(state, q)]
      /\ \A j \in DOMAIN KevEnds(state, q) : KevEnds(state, q)[j] \in 1..Len(row)
  BY Zenon DEF Encodes
<1>2. K \in Nat
  BY SpansType
<1>3. DOMAIN tokens = 1..Len(row) /\ DOMAIN row = 1..Len(row)
      /\ \A n \in 1..Len(row) : tokens[n].id = row[n]
  BY <1>1 DEF KevTokens, Lines
<1> HIDE DEF tokens, row
<1>4. DOMAIN ids = DOMAIN row /\ \A n \in DOMAIN row : ids[n] = row[n]
  BY <1>3
<1> HIDE DEF ids
<1>5. ASSUME NEW d \in Delimiters
      PROVE  count(d) = IF d \in {"<opt>", "</opt>"} THEN K ELSE 1
  BY <1>4, TimesRow DEF PlacesOf, row, Times
<1>6. ASSUME NEW j \in 1..K PROVE ids[enc.opts[1][j]] = "</opt>"
  <2>1. enc.opts[1] = KevEnds(state, q)
    BY <1>1
  <2>3. row[KevEnd(state, q, j)] = "</opt>"
    BY EndPlace DEF row
  <2> QED BY <1>4, <2>1, <2>3, <1>1, <1>3, ZenonT(40) DEF KevEnds
<1> HIDE DEF count
<1>7. /\ count("<opt>") = K /\ count("</opt>") = K
      /\ \A d \in {"<state>", "<q>", "<decide>"} : count(d) = 1
  BY <1>5 DEF Delimiters
<1> HIDE DEF K
<1> QED BY <1>6, <1>7, Zenon DEF Unforged, count, ids, tokens, K

\* It follows from the inductive invariant.
LEMMA UnforgeableIs == IInv => OptionsUnforgeable
<1> SUFFICES ASSUME IInv, IsKev PROVE OptionsUnforgeable
  BY Zenon DEF OptionsUnforgeable
<1>1. engine \in Engines /\ engine \in Kevs /\ engine # "laya" /\ engine # "jeff"
  BY DEF IsKev, Kevs, IInv
<1>2. CASE call.rows = <<>>
  BY <1>2 DEF OptionsUnforgeable
<1>3. CASE call.rows # <<>>
  <2>2. PICK content \in Contents : Admitted(content) /\ Reached(content)
    BY <1>3 DEF IInv, Idle
  <2>4. call.rows = RowsFor(content) /\ call.items = Items(content)
    BY <2>2, <1>3 DEF Reached, Forwarded, PassFailed, Built, NotANumber, Answers, IsCall,
       Preparing, BeingEncoded, Refused
  <2> DEFINE N == Len(content.questions)
             state == Render(content.state)
             items == Items(content)
             rows == RowsFor(content)
  <2>5. GoodContent(content)
    BY ContentIs
  <2>6. content.state \in Texts
    BY <2>5, Zenon DEF GoodContent
  <2>7. state \in Lines
    BY <2>6, RenderIs
  <2>8. \A b \in 1..N : GoodPrepared(items[b], content.questions[b])
    BY <2>5, ItemsAre
  <2> HIDE DEF state, items
  <2>9. DOMAIN rows = 1..N /\ \A b \in 1..N : rows[b] = Encode(KevRecord(state, items[b]), FALSE)
    BY <1>1, <2>5, RowsAre DEF state, items, RowsFor
  <2> HIDE DEF rows, N
  <2>10. ASSUME NEW b \in 1..N PROVE Unforged(rows[b], Len(items[b].options))
    <3> DEFINE p == items[b]
               q == content.questions[b]
               kq == KevQuestion(p)
    <3>1. GoodPrepared(p, q)
      BY <2>8
    <3> HIDE DEF p, q
    <3>2. kq \in KevQuestions /\ Len(kq.options) = Len(p.options)
      BY <3>1, KevQuestionIs
    <3>3. Encodes(Encode(KevRecord(state, p), FALSE), KevRow(state, kq), Len(StateIds(state)),
                  KevEnds(state, kq))
      BY <2>7, <3>1, KevEncodes
    <3> HIDE DEF kq
    <3> QED BY <2>9, <3>2, <2>7, <3>3, RowUnforged DEF p
  <2>11. \A i \in DOMAIN call.rows : Unforged(call.rows[i], Len(call.items[i].options))
    BY <2>4, <2>9, <2>10 DEF rows, items
  <2> QED BY <2>11, Zenon DEF OptionsUnforgeable, Unforged
<1> QED BY <1>2, <1>3, Zenon

\* Whatever the texts spell, a row has the delimiters of its options and no other, and
\* every option is read at the end of its own (_kev_vendor/model.py:23-25).
THEOREM Unforgeable == Spec => []OptionsUnforgeable
BY Inductive, UnforgeableIs, PTL

-----------------------------------------------------------------------------
(* The forms of the forward pass: a record of several questions, the mask   *)
(* over it, the rows it is split into, and isolated options                 *)

Offset(ss, k) == Len(FlattenSeq(Prefix(ss, k - 1)))

BlocksIn(S, N, ss) ==
    /\ FlattenSeq(ss) \in Seq(S)
    /\ Offset(ss, 1) = 0 /\ Offset(ss, N + 1) = Len(FlattenSeq(ss))
    /\ \A k \in 1..N : Offset(ss, k) \in Nat /\ Offset(ss, k + 1) = Offset(ss, k) + Len(ss[k])
    /\ \A k \in 1..(N + 1) : Offset(ss, k) \in 0..Len(FlattenSeq(ss))
    /\ \A k \in 1..N : \A m \in 1..Len(ss[k]) :
          /\ Offset(ss, k) + m \in 1..Len(FlattenSeq(ss))
          /\ FlattenSeq(ss)[Offset(ss, k) + m] = ss[k][m]

\* Sequences one behind the other: where each of them is found again.
LEMMA BlocksAre ==
    ASSUME NEW S, NEW N \in Nat, NEW ss \in [1..N -> Seq(S)]
    PROVE  BlocksIn(S, N, ss)
<1> DEFINE F(k) == FlattenSeq(Prefix(ss, k))
           E == {n \in 0..N : \A k \in 1..n :
                    /\ Offset(ss, k + 1) <= Len(F(n))
                    /\ \A m \in 1..Len(ss[k]) : F(n)[Offset(ss, k) + m] = ss[k][m]}
<1>1. /\ F(0) = <<>>
      /\ \A k \in 1..N : F(k) = F(k - 1) \o ss[k]
      /\ \A k \in 0..N : F(k) \in Seq(S)
      /\ F(N) = FlattenSeq(ss)
  BY FlattenSteps
<1>2. \A k \in 1..(N + 1) : Offset(ss, k) = Len(F(k - 1)) /\ Offset(ss, k) \in Nat
  <2> TAKE k \in 1..(N + 1)
  <2>2. F(k - 1) \in Seq(S)
    BY <1>1
  <2> HIDE DEF F
  <2> QED BY <2>2 DEF Offset, F
<1> HIDE DEF F
<1>3. \A k \in 1..N : /\ F(k - 1) \in Seq(S) /\ ss[k] \in Seq(S)
                      /\ F(k) = F(k - 1) \o ss[k] /\ k \in 1..(N + 1) /\ k + 1 \in 1..(N + 1)
                      /\ (k + 1) - 1 = k
  <2> TAKE k \in 1..N
  <2>1. k - 1 \in 0..N /\ k \in 1..(N + 1) /\ k + 1 \in 1..(N + 1) /\ (k + 1) - 1 = k
    OBVIOUS
  <2> QED BY <1>1, <2>1
<1>4. \A k \in 1..N : Offset(ss, k) \in Nat /\ Len(ss[k]) \in Nat /\ Offset(ss, k + 1) = Offset(ss, k) + Len(ss[k])
  <2> TAKE k \in 1..N
  <2> DEFINE a == F(k - 1)
             b == ss[k]
  <2>1. a \in Seq(S) /\ b \in Seq(S) /\ Offset(ss, k) = Len(a) /\ Offset(ss, k + 1) = Len(a \o b)
    BY <1>2, <1>3
  <2> HIDE DEF a, b
  <2> QED BY <2>1, ConcatIs DEF b
<1>5. 0 \in E
  OBVIOUS
<1>6. \A n \in 1..N : n - 1 \in E => n \in E
  <2> DEFINE P(k, n) == /\ Offset(ss, k + 1) <= Len(F(n))
                        /\ \A m \in 1..Len(ss[k]) : F(n)[Offset(ss, k) + m] = ss[k][m]
  <2>0. E = {n \in 0..N : \A k \in 1..n : P(k, n)}
    OBVIOUS
  <2> HIDE DEF E, P
  <2> SUFFICES ASSUME NEW n \in 1..N, n - 1 \in E, NEW k \in 1..n
               PROVE  P(k, n)
    BY <2>0
  <2>7. \A j \in 1..(n - 1) : P(j, n - 1)
    BY <2>0
  <2> DEFINE a == F(n - 1)
             b == ss[n]
  <2>1. a \in Seq(S) /\ b \in Seq(S) /\ F(n) = a \o b /\ Offset(ss, n) = Len(a)
        /\ Offset(ss, n + 1) = Len(F(n))
    BY <1>2, <1>3
  <2>2. k \in 1..N
    OBVIOUS
  <2>3. k # n => /\ Offset(ss, k + 1) <= Len(a)
                 /\ \A m \in 1..Len(ss[k]) : a[Offset(ss, k) + m] = ss[k][m]
    <3>1. k # n => k \in 1..(n - 1)
      OBVIOUS
    <3> QED BY <2>7, <3>1 DEF P
  <2> HIDE DEF a, b
  <2>4. /\ Len(a \o b) = Len(a) + Len(b) /\ Len(a) \in Nat /\ Len(b) \in Nat
        /\ \A i \in 1..Len(a) : (a \o b)[i] = a[i]
        /\ \A i \in 1..Len(b) : (a \o b)[Len(a) + i] = b[i]
    BY <2>1, ConcatIs
  <2>5. CASE k = n
    <3>3. Len(a \o b) <= Len(a \o b)
      BY <2>4
    <3> QED BY <2>5, <3>3, <2>4, <2>1 DEF b, P
  <2>6. CASE k # n
    <3>1. Offset(ss, k + 1) = Offset(ss, k) + Len(ss[k]) /\ Offset(ss, k) \in Nat /\ Len(ss[k]) \in Nat
      BY <1>4, <2>2
    <3>2. \A m \in 1..Len(ss[k]) : Offset(ss, k) + m \in 1..Len(a)
      BY <2>3, <2>4, <2>6, <3>1
    <3>3. Offset(ss, k + 1) <= Len(F(n))
      BY <2>3, <2>6, <3>1, <2>1, <2>4
    <3> QED BY <3>3, <2>1, <2>3, <2>4, <2>6, <3>2 DEF P
  <2> QED BY <2>5, <2>6
<1> HIDE DEF E
<1>7. N \in E
  <2>1. N \in 0..N
    OBVIOUS
  <2> QED BY <1>5, <1>6, <2>1, UpTo
<1>8. \A k \in 1..N : /\ Offset(ss, k + 1) <= Len(F(N))
                      /\ \A m \in 1..Len(ss[k]) : F(N)[Offset(ss, k) + m] = ss[k][m]
  BY <1>7 DEF E
<1>9. Offset(ss, 1) = 0 /\ Offset(ss, N + 1) = Len(F(N)) /\ Len(F(N)) \in Nat /\ F(N) \in Seq(S)
  BY <1>1, <1>2
<1>10. \A k \in 1..(N + 1) : Offset(ss, k) \in 0..Len(F(N))
  BY <1>4, <1>8, <1>9
<1>11. \A k \in 1..N : \A m \in 1..Len(ss[k]) : Offset(ss, k) + m \in 1..Len(F(N))
  <2> TAKE k \in 1..N
  <2> TAKE m \in 1..Len(ss[k])
  <2>1. Offset(ss, k + 1) <= Len(F(N)) /\ Offset(ss, k + 1) = Offset(ss, k) + Len(ss[k])
        /\ Offset(ss, k) \in Nat /\ Len(ss[k]) \in Nat
    BY <1>4, <1>8
  <2> QED BY <1>9, <2>1
<1> QED BY <1>1, <1>4, <1>8, <1>9, <1>10, <1>11 DEF BlocksIn

Covered(ss, N) ==
    \A i \in 1..Len(FlattenSeq(ss)) : \E k \in 1..N : \E m \in 1..Len(ss[k]) : i = Offset(ss, k) + m

\* Every place of the whole is a place of one of them.
LEMMA BlocksCover ==
    ASSUME NEW S, NEW N \in Nat, NEW ss \in [1..N -> Seq(S)]
    PROVE  Covered(ss, N)
<1> SUFFICES ASSUME NEW i \in 1..Len(FlattenSeq(ss))
             PROVE  \E k \in 1..N : \E m \in 1..Len(ss[k]) : i = Offset(ss, k) + m
  BY DEF Covered
<1> DEFINE E == {n \in 0..N : i <= Offset(ss, n + 1) =>
                    \E k \in 1..N : \E m \in 1..Len(ss[k]) : i = Offset(ss, k) + m}
<1>1. /\ FlattenSeq(ss) \in Seq(S)
      /\ Offset(ss, 1) = 0 /\ Offset(ss, N + 1) = Len(FlattenSeq(ss))
      /\ \A k \in 1..N : Offset(ss, k) \in Nat /\ Offset(ss, k + 1) = Offset(ss, k) + Len(ss[k])
  BY BlocksAre DEF BlocksIn
<1>2. 0 \in E
  BY <1>1
<1>3. \A n \in 1..N : n - 1 \in E => n \in E
  <2> SUFFICES ASSUME NEW n \in 1..N, n - 1 \in E, i <= Offset(ss, n + 1)
               PROVE  \E k \in 1..N : \E m \in 1..Len(ss[k]) : i = Offset(ss, k) + m
    OBVIOUS
  <2>2. CASE i <= Offset(ss, n)
    BY <2>2
  <2>3. CASE ~ (i <= Offset(ss, n))
    <3>1. Offset(ss, n) \in Nat /\ Offset(ss, n + 1) = Offset(ss, n) + Len(ss[n]) /\ Len(ss[n]) \in Nat
      BY <1>1
    <3>2. i - Offset(ss, n) \in 1..Len(ss[n]) /\ i = Offset(ss, n) + (i - Offset(ss, n))
      BY <2>3, <3>1
    <3> QED BY <3>2
  <2> QED BY <2>2, <2>3
<1> HIDE DEF E
<1>4. N \in E
  <2>1. N \in 0..N
    OBVIOUS
  <2> QED BY <1>2, <1>3, <2>1, UpTo
<1> QED BY <1>4, <1>1 DEF E

\* The places of its own question that the place m of a block depends on.
OwnPlaces(block, m, isolated) ==
    {y \in 1..m : y # m /\ isolated =>
        block[y].opt < 0 \/ block[m].opt = OPT_DECIDE \/ block[y].opt = block[m].opt}

\* What is seen from there: the state, and those places.
BlockSeen(S, block, m, isolated) ==
    FirstOf(S, Len(S)) \cup {<<block[y].id, block[y].pos>> : y \in OwnPlaces(block, m, isolated)}

\* A row of a state and N blocks, each of a segment of its own, with its padding.
LaysOut(row, S, bb, N, isolated) ==
    /\ row \in Seq(Tokens) /\ S \in Lines /\ N \in Nat /\ bb \in [1..N -> Seq(Tokens)]
    /\ Len(S) + Len(FlattenSeq(bb)) <= Len(row)
    /\ \A i \in 1..Len(S) : /\ row[i].id = S[i] /\ row[i].pos = i - 1
                            /\ row[i].seg = 0 /\ row[i].opt = OPT_NONE
    /\ \A k \in 1..N : \A m \in 1..Len(bb[k]) :
          /\ row[Len(S) + Offset(bb, k) + m] = bb[k][m]
          /\ bb[k][m].seg = k
          /\ isolated /\ m # Len(bb[k]) => bb[k][m].opt # OPT_DECIDE

\* What the mask lets a place attend to.
MaskSees(row, i, isolated) == {j \in 1..(i - 1) : Attends(row, i, j, isolated)}

\* A place of the state attends to the state only.
LEMMA StateSees ==
    ASSUME NEW row, NEW S, NEW bb, NEW N, NEW isolated \in BOOLEAN,
           LaysOut(row, S, bb, N, isolated), NEW i \in 1..Len(S)
    PROVE  MaskSees(row, i, isolated) \subseteq 1..Len(S)
BY DEF MaskSees, LaysOut, Lines

\* A place of a block attends to the state and to places of its block.
LEMMA BlockSees ==
    ASSUME NEW row, NEW S, NEW bb, NEW N, NEW isolated \in BOOLEAN,
           LaysOut(row, S, bb, N, isolated), NEW k \in 1..N, NEW m \in 1..Len(bb[k])
    PROVE  LET from == Len(S) + Offset(bb, k)
           IN  /\ from \in Nat /\ Len(S) <= from /\ from + m \in 1..Len(row)
               /\ MaskSees(row, from + m, isolated) =
                    (1..Len(S)) \cup {from + y : y \in OwnPlaces(bb[k], m, isolated) \ {m}}
<1> DEFINE from == Len(S) + Offset(bb, k)
           i == from + m
           flat == FlattenSeq(bb)
           own == OwnPlaces(bb[k], m, isolated) \ {m}
<1>1. /\ row \in Seq(Tokens) /\ N \in Nat /\ bb \in [1..N -> Seq(Tokens)] /\ Len(S) \in Nat
      /\ Len(S) + Len(flat) <= Len(row)
  BY DEF LaysOut, Lines
<1>2. /\ flat \in Seq(Tokens)
      /\ \A a \in 1..N : Offset(bb, a) \in Nat /\ Offset(bb, a + 1) = Offset(bb, a) + Len(bb[a])
      /\ \A a \in 1..N : \A x \in 1..Len(bb[a]) : Offset(bb, a) + x \in 1..Len(flat)
  <2>1. BlocksIn(Tokens, N, bb)
    BY <1>1, BlocksAre
  <2> QED BY <2>1 DEF BlocksIn
<1> HIDE DEF flat
<1>3. from \in Nat /\ Len(S) <= from /\ i \in 1..Len(row) /\ m \in Nat /\ Len(bb[k]) \in Nat
  <2>1. Offset(bb, k) \in Nat /\ Offset(bb, k) + m \in 1..Len(flat)
    BY <1>2
  <2>2. Len(flat) \in Nat /\ Len(row) \in Nat
    BY <1>1, <1>2
  <2>3. Len(bb[k]) \in Nat
    BY <1>1
  <2>4. Len(S) \in Nat /\ Len(S) + Len(flat) <= Len(row)
    BY <1>1 DEF flat
  <2> DEFINE o == Offset(bb, k)
             s == Len(S)
             l == Len(flat)
             h == Len(row)
  <2>5. o \in Nat /\ s \in Nat /\ l \in Nat /\ h \in Nat /\ m \in Nat /\ s + l <= h
        /\ o + m \in 1..l /\ from = s + o /\ i = s + o + m
    BY <2>1, <2>2, <2>3, <2>4
  <2> HIDE DEF o, s, l, h, from, i
  <2> QED BY <2>3, <2>5 DEF s, h
<1>4. \A y \in 1..Len(bb[k]) :
          /\ row[from + y] = bb[k][y] /\ bb[k][y].seg = k /\ bb[k][y].opt \in Int
          /\ isolated /\ y # Len(bb[k]) => bb[k][y].opt # OPT_DECIDE
  <2> TAKE y \in 1..Len(bb[k])
  <2>1. bb[k][y] \in Tokens
    BY <1>1
  <2> QED BY <2>1 DEF LaysOut, Tokens
<1>5. row[i] = bb[k][m] /\ row[i].seg = k /\ k # 0 /\ k # -1
  BY <1>4
<1>6. \A j \in 1..Len(S) : row[j].seg = 0 /\ row[j].opt = OPT_NONE
  BY DEF LaysOut
<1>7. ASSUME NEW j \in MaskSees(row, i, isolated), j \notin 1..Len(S)
      PROVE  j \in {from + y : y \in own}
  <2>1. j \in 1..(i - 1) /\ Attends(row, i, j, isolated)
    BY DEF MaskSees
  <2>2. \E a \in 1..N : \E y \in 1..Len(bb[a]) : j - Len(S) = Offset(bb, a) + y
    <3>1. j - Len(S) \in 1..Len(flat)
      <4>1. Offset(bb, k) + m \in 1..Len(flat) /\ Offset(bb, k) \in Nat
        BY <1>2
      <4>2. Len(flat) \in Nat
        BY <1>2
      <4>3. j \in Int /\ j >= 1 /\ j < from + m /\ j > Len(S)
        BY <1>1, <1>3, <1>7, <2>1
      <4> QED BY SMTT(40), <1>1, <4>1, <4>2, <4>3
    <3> QED BY SMTT(40), <1>1, <3>1, BlocksCover DEF flat, Covered
  <2>3. PICK a \in 1..N : \E y \in 1..Len(bb[a]) : j - Len(S) = Offset(bb, a) + y
    BY <2>2
  <2>4. PICK y \in 1..Len(bb[a]) : j - Len(S) = Offset(bb, a) + y
    BY <2>3
  <2>5. j = Len(S) + Offset(bb, a) + y
    <3>1. j \in Int
      BY <1>3, <2>1
    <3>3. y \in Int
      BY <1>1
    <3>5. Len(S) \in Int /\ Offset(bb, a) \in Int
      BY <1>1, <1>2
    <3> QED BY <3>1, <3>3, <3>5, <2>4
  <2>6. row[j] = bb[a][y] /\ row[j].seg = a
    BY <2>5 DEF LaysOut
  <2>7. i # j /\ row[j].seg \in {0, row[i].seg}
    BY <1>3, <2>1 DEF Attends
  <2>8. a = k
    BY <1>5, <2>6, <2>7
  <2>9. y \in 1..m /\ y # m /\ j = from + y
    BY <1>3, <2>1, <2>5, <2>8
  <2>12. y \in own
    BY <2>9, <1>5, <2>6, <2>8, <2>1, <2>7 DEF OwnPlaces, Attends
  <2> HIDE DEF from, i, own
  <2> QED BY <2>9, <2>12
<1>8. ASSUME NEW j \in 1..Len(S)
      PROVE  j \in MaskSees(row, i, isolated)
  <2>1. j \in 1..(i - 1) /\ j < i
    BY <1>1, <1>3
  <2> QED BY <2>1, <1>6 DEF MaskSees, Attends, OPT_NONE
<1>9. ASSUME NEW y \in own
      PROVE  from + y \in MaskSees(row, i, isolated)
  <2>1. y \in 1..m /\ y # m
        /\ (isolated => bb[k][y].opt < 0 \/ bb[k][m].opt = OPT_DECIDE \/ bb[k][y].opt = bb[k][m].opt)
    BY DEF OwnPlaces
  <2>2. y \in 1..Len(bb[k]) /\ from + y \in 1..(i - 1) /\ from + y < i
    BY <1>3, <2>1
  <2> QED BY <2>2, <1>5, <2>1, <1>4 DEF MaskSees, Attends
<1> HIDE DEF from, i, own
<1> QED BY <1>3, <1>7, <1>8, <1>9 DEF i, from, own

\* What is visible from a visible place of the block is visible.
LEMMA OwnTransitive ==
    ASSUME NEW block \in Seq(Tokens), NEW isolated \in BOOLEAN,
           \A m \in 1..Len(block) :
              isolated /\ m # Len(block) => block[m].opt # OPT_DECIDE,
           NEW m \in 1..Len(block), NEW y \in OwnPlaces(block, m, isolated) \ {m}
    PROVE  /\ y \in 1..Len(block)
           /\ OwnPlaces(block, y, isolated) \subseteq OwnPlaces(block, m, isolated) \ {m}
<1>1. /\ y \in 1..m /\ y # m
      /\ isolated => block[y].opt < 0 \/ block[m].opt = OPT_DECIDE \/ block[y].opt = block[m].opt
  BY DEF OwnPlaces
<1>2. y \in 1..Len(block) /\ y # Len(block) /\ Len(block) \in Nat
  BY <1>1
<1>4. ASSUME NEW z \in OwnPlaces(block, y, isolated)
      PROVE  z \in OwnPlaces(block, m, isolated) \ {m}
  BY <1>1, <1>2 DEF OwnPlaces
<1> QED BY <1>2, <1>4

\* From a place of a block one sees the state and those places, through all layers.
LEMMA BlockIsSeen ==
    ASSUME NEW row, NEW S, NEW bb, NEW N, NEW isolated \in BOOLEAN,
           LaysOut(row, S, bb, N, isolated), NEW k \in 1..N, NEW m \in 1..Len(bb[k])
    PROVE  Seen(row, Len(S) + Offset(bb, k) + m, [i \in DOMAIN row |-> MaskSees(row, i, isolated)])
           = BlockSeen(S, bb[k], m, isolated)
<1> DEFINE from == Len(S) + Offset(bb, k)
           n == from + m
           sees == [i \in DOMAIN row |-> MaskSees(row, i, isolated)]
           own == OwnPlaces(bb[k], m, isolated)
<1>1. \A y \in 1..Len(bb[k]) :
          /\ from \in Nat /\ Len(S) <= from /\ from + y \in 1..Len(row)
          /\ MaskSees(row, from + y, isolated) =
                (1..Len(S)) \cup {from + z : z \in OwnPlaces(bb[k], y, isolated) \ {y}}
  BY BlockSees
<1>2. row \in Seq(Tokens) /\ DOMAIN row = 1..Len(row) /\ Len(row) \in Nat /\ bb[k] \in Seq(Tokens)
      /\ Len(S) \in Nat
  BY DEF LaysOut, Lines
<1> HIDE DEF from
<1>3. n \in Nat \ {0} /\ n \in 1..Len(row) /\ from \in Nat
  BY <1>1
<1>4. \A i \in 1..n : i \in DOMAIN row /\ sees[i] = MaskSees(row, i, isolated)
  BY <1>2, <1>3
<1>5. \A i \in 1..n : sees[i] \subseteq 1..(i - 1)
  BY <1>4 DEF MaskSees
<1>6. sees[n] = (1..Len(S)) \cup {from + z : z \in own \ {m}}
  BY <1>1, <1>3, <1>4
<1>7. ASSUME NEW i \in sees[n] PROVE sees[i] \subseteq sees[n]
  <2>1. i \in 1..n
    <3>1. n \in 1..n
      BY <1>3
    <3>2. i \in 1..(n - 1)
      BY <1>5, <3>1
    <3> HIDE DEF n
    <3> QED BY <1>3, <3>2
  <2>2. CASE i \in 1..Len(S)
    <3>1. MaskSees(row, i, isolated) \subseteq 1..Len(S)
      BY <2>2, StateSees
    <3> HIDE DEF sees, n, own
    <3> QED BY <1>4, <1>6, <2>1, <3>1
  <2>3. CASE i \notin 1..Len(S)
    <3>1. PICK y \in own \ {m} : i = from + y
      BY <1>6, <2>3
    <3>2. y \in 1..Len(bb[k]) /\ OwnPlaces(bb[k], y, isolated) \subseteq own \ {m}
      <4>1. \A x \in 1..Len(bb[k]) :
                isolated /\ x # Len(bb[k]) => bb[k][x].opt # OPT_DECIDE
        BY DEF LaysOut
      <4> QED BY <1>2, <3>1, <4>1, OwnTransitive
    <3>3. sees[i] = (1..Len(S)) \cup {from + z : z \in OwnPlaces(bb[k], y, isolated) \ {y}}
      BY <1>1, <1>4, <2>1, <3>1, <3>2
    <3> HIDE DEF sees, n, own
    <3> QED BY <1>6, <3>2, <3>3
  <2> QED BY <2>2, <2>3
<1> HIDE DEF sees
<1>8. Reach(n, sees) = {n} \cup sees[n]
  BY <1>3, <1>5, <1>7, ReachTransitive
<1>9. m \in own /\ n = from + m
  BY DEF OwnPlaces
<1>10. Reach(n, sees) = (1..Len(S)) \cup {from + y : y \in own}
  <2> HIDE DEF n, own
  <2> QED BY <1>6, <1>8, <1>9
<1>11. \A i \in 1..Len(S) : row[i].id = S[i] /\ row[i].pos = i - 1
  BY DEF LaysOut
<1>12. \A y \in own : row[from + y] = bb[k][y]
  <2>1. \A y \in own : y \in 1..Len(bb[k])
    BY <1>2 DEF OwnPlaces
  <2> HIDE DEF own
  <2> QED BY <2>1 DEF LaysOut, from
<1>13. Seen(row, n, sees) = {<<row[i].id, row[i].pos>> : i \in (1..Len(S)) \cup {from + y : y \in own}}
  BY <1>10 DEF Seen
<1> DEFINE all == (1..Len(S)) \cup {from + y : y \in own}
           state == {<<S[i], i - 1>> : i \in 1..Len(S)}
           block == {<<bb[k][y].id, bb[k][y].pos>> : y \in own}
<1>14. \A i \in all : <<row[i].id, row[i].pos>> \in state \cup block
  <2> TAKE i \in all
  <2> HIDE DEF own
  <2>1. CASE i \in 1..Len(S)
    BY <1>11, <2>1
  <2>2. CASE i \notin 1..Len(S)
    BY <2>2, <1>12
  <2> QED BY <2>1, <2>2
<1>15. \A x \in state \cup block : x \in {<<row[i].id, row[i].pos>> : i \in all}
  <2> TAKE x \in state \cup block
  <2> HIDE DEF own
  <2>1. CASE x \in state
    <3>1. PICK i \in 1..Len(S) : x = <<S[i], i - 1>>
      BY <2>1
    <3>2. x = <<row[i].id, row[i].pos>> /\ i \in all
      BY <1>11, <3>1
    <3> HIDE DEF all
    <3> QED BY <3>2
  <2>2. CASE x \in block
    <3>1. PICK y \in own : x = <<bb[k][y].id, bb[k][y].pos>>
      BY <2>2
    <3>2. x = <<row[from + y].id, row[from + y].pos>> /\ from + y \in all
      BY <1>12, <3>1
    <3> HIDE DEF all
    <3> QED BY <3>2
  <2> QED BY <2>1, <2>2
<1> HIDE DEF all, state, block
<1>16. Seen(row, n, sees) = state \cup block
  <2>1. Seen(row, n, sees) = {<<row[i].id, row[i].pos>> : i \in all}
    BY <1>13 DEF all
  <2> HIDE DEF n
  <2> QED BY <1>14, <1>15, <2>1
<1> QED BY <1>16 DEF BlockSeen, FirstOf, state, block, sees, from

SameLengths(tt, ss, N) == \A k \in 1..N : Len(tt[k]) = Len(ss[k])
OffsetsAgree(tt, ss, N) == \A k \in 1..(N + 1) : Offset(tt, k) = Offset(ss, k)

\* Sequences of the same lengths have the same offsets.
LEMMA SameOffsets ==
    ASSUME NEW S, NEW T, NEW N \in Nat, NEW ss \in [1..N -> Seq(S)], NEW tt \in [1..N -> Seq(T)],
           SameLengths(tt, ss, N)
    PROVE  OffsetsAgree(tt, ss, N)
<1> DEFINE E == {n \in 0..N : Offset(tt, n + 1) = Offset(ss, n + 1)}
<1>0. BlocksIn(S, N, ss) /\ BlocksIn(T, N, tt)
  BY BlocksAre
<1>1. /\ Offset(ss, 1) = 0
      /\ \A k \in 1..N : Offset(ss, k) \in Nat /\ Offset(ss, k + 1) = Offset(ss, k) + Len(ss[k])
  BY <1>0 DEF BlocksIn
<1>2. /\ Offset(tt, 1) = 0
      /\ \A k \in 1..N : Offset(tt, k) \in Nat /\ Offset(tt, k + 1) = Offset(tt, k) + Len(tt[k])
  BY <1>0 DEF BlocksIn
<1>3. 0 \in E
  BY <1>1, <1>2, 0 + 1 = 1
<1>4. \A n \in 1..N : n - 1 \in E => n \in E
  BY <1>1, <1>2 DEF SameLengths
<1>5. \A n \in 0..N : n \in E
  <2> HIDE DEF E
  <2> QED BY <1>3, <1>4, UpTo
<1>6. \A k \in 1..(N + 1) : Offset(tt, k) = Offset(ss, k)
  <2> TAKE k \in 1..(N + 1)
  <2>1. k - 1 \in 0..N /\ (k - 1) + 1 = k
    OBVIOUS
  <2> QED BY <2>1, <1>5
<1> QED BY <1>6 DEF OffsetsAgree

LongestSpan(q) == Max({0} \union {Len(Spans(q)[j]) : j \in DOMAIN q.options})

\* The longest span of a question is a number of tokens.
LEMMA LongestSpanIs ==
    ASSUME NEW q \in KevQuestions
    PROVE  LongestSpan(q) \in Nat
<1> DEFINE K == Len(q.options)
           f == [j \in 1..(K + 1) |-> IF j = K + 1 THEN 0 ELSE Len(Spans(q)[j])]
           U == {f[j] : j \in 1..(K + 1)}
<1>1. K \in Nat /\ DOMAIN q.options = 1..K /\ Spans(q) \in [1..K -> Seq(Strings)]
  BY SpansType DEF Lines
<1>2. \A j \in 1..K : Len(Spans(q)[j]) \in Nat
  BY <1>1
<1> HIDE DEF K
<1>3. \A j \in 1..(K + 1) : f[j] \in Nat
  BY <1>1, <1>2
<1>4. Max(U) \in U
  <2>1. f \in [1..(K + 1) -> Int] /\ K + 1 \in Nat \ {0}
    BY <1>1, <1>3
  <2> HIDE DEF f
  <2> QED BY <2>1, MaxOfSeq
<1>5. U = {0} \union {Len(Spans(q)[j]) : j \in DOMAIN q.options}
  <2>1. \A j \in 1..K : j \in 1..(K + 1) /\ f[j] = Len(Spans(q)[j])
    BY <1>1
  <2>2. K + 1 \in 1..(K + 1) /\ f[K + 1] = 0
    BY <1>1
  <2>3. \A j \in 1..(K + 1) : j = K + 1 \/ j \in 1..K
    BY <1>1
  <2> HIDE DEF f
  <2> QED BY <1>1, <2>1, <2>2, <2>3
<1>6. U \subseteq Nat
  BY <1>3
<1> HIDE DEF U
<1> QED BY <1>4, <1>5, <1>6 DEF LongestSpan

Token(id, k, pos, opt) == [id |-> id, seg |-> k, pos |-> pos, opt |-> opt]

\* What a branch is built of, place by place.
PlaceByPlace(T, q, k, p0, isolated) ==
    LET n == Len(Instructions(q))
    IN  /\ T \in Seq(Tokens) /\ Len(T) = Len(Branch(q)) /\ n \in Nat
        /\ Len(T) = n + Offset(Spans(q), Len(q.options) + 1) + 1
        /\ \A x \in 1..n : T[x] = Token(Instructions(q)[x], k, p0 + x - 1, OPT_NONE)
        /\ \A j \in 1..Len(q.options) : \A y \in 1..Len(Spans(q)[j]) :
              T[n + Offset(Spans(q), j) + y] =
                  Token(Spans(q)[j][y], k,
                        p0 + n + (IF isolated THEN 0 ELSE Offset(Spans(q), j)) + y - 1, j)
        /\ T[Len(T)] = Token("<decide>", k,
                             p0 + n + (IF isolated THEN LongestSpan(q)
                                       ELSE Offset(Spans(q), Len(q.options) + 1)), OPT_DECIDE)

\* A piece, place by place.
LEMMA PieceIs ==
    ASSUME NEW ids \in Lines, NEW k \in Int, NEW p0 \in Int, NEW opt \in Int
    PROVE  /\ Piece(ids, k, p0, opt) \in Seq(Tokens) /\ Len(Piece(ids, k, p0, opt)) = Len(ids)
           /\ \A i \in 1..Len(ids) : Piece(ids, k, p0, opt)[i] = Token(ids[i], k, p0 + i - 1, opt)
<1>1. DOMAIN ids = 1..Len(ids)
  BY DEF Lines
<1>2. \A i \in 1..Len(ids) : Piece(ids, k, p0, opt)[i] = Token(ids[i], k, p0 + i - 1, opt)
  BY <1>1, Zenon DEF Piece, Token
<1> QED BY <1>2, PieceLaid DEF Laid

\* A branch is its instructions, its options and <decide>, place by place.
LEMMA BranchBuilt ==
    ASSUME NEW q \in KevQuestions, NEW k \in Nat \ {0}, NEW p0 \in Nat, NEW isolated \in BOOLEAN
    PROVE  PlaceByPlace(BranchTokens(q, k, p0, isolated), q, k, p0, isolated)
<1> DEFINE I == Instructions(q)
           K == Len(q.options)
           ss == Spans(q)
           start == p0 + Len(I)
           behind(j) == start + (IF isolated THEN 0 ELSE SpansBefore(q, j))
           last == IF isolated THEN start + LongestSpan(q) ELSE behind(K + 1)
           A == Piece(I, k, p0, OPT_NONE)
           tt == [j \in DOMAIN q.options |-> Piece(Span(q.options[j]), k, behind(j), j)]
           B == FlattenSeq(tt)
           C == Piece(<<"<decide>">>, k, last, OPT_DECIDE)
           T == BranchTokens(q, k, p0, isolated)
<1>1. T = A \o B \o C
  BY Zenon DEF BranchTokens, LongestSpan
<1>2. I \in Lines /\ Len(I) \in Nat
  BY InstructionsType
<1>3. start \in Nat /\ OPT_NONE \in Int /\ OPT_DECIDE \in Int /\ k \in Int /\ p0 \in Int
  BY <1>2 DEF OPT_NONE, OPT_DECIDE
<1>4. K \in Nat /\ DOMAIN q.options = 1..K /\ ss \in [1..K -> Lines]
      /\ \A j \in 1..K : ss[j] = Span(q.options[j])
  BY SpansType
<1>5. ss \in [1..K -> Seq(Strings)]
  BY <1>4 DEF Lines
<1>6. \A j \in 1..(K + 1) : SpansBefore(q, j) = Offset(ss, j) /\ SpansBefore(q, j) \in Nat
  BY SpansBeforeIs DEF Offset
<1> HIDE DEF ss, K, I
<1>7. \A j \in 1..(K + 1) : behind(j) \in Int
      /\ behind(j) = start + (IF isolated THEN 0 ELSE Offset(ss, j))
  BY <1>3, <1>6
<1>8. last \in Int
      /\ last = start + (IF isolated THEN LongestSpan(q) ELSE Offset(ss, K + 1))
  BY <1>4, LongestSpanIs, <1>3, <1>6
<1> HIDE DEF behind, last, start
<1>9. /\ A \in Seq(Tokens) /\ Len(A) = Len(I)
      /\ \A x \in 1..Len(I) : A[x] = Token(I[x], k, p0 + x - 1, OPT_NONE)
  BY <1>2, <1>3, PieceIs
<1>10. \A j \in 1..K :
          /\ tt[j] \in Seq(Tokens) /\ Len(tt[j]) = Len(ss[j])
          /\ \A y \in 1..Len(ss[j]) : tt[j][y] = Token(ss[j][y], k, behind(j) + y - 1, j)
  <2> TAKE j \in 1..K
  <2>1. j \in Int /\ j \in 1..(K + 1) /\ ss[j] \in Lines /\ behind(j) \in Int
    BY <1>4, <1>7
  <2>2. tt[j] = Piece(ss[j], k, behind(j), j)
    BY <1>4
  <2> HIDE DEF tt
  <2> QED BY <1>3, <2>1, <2>2, PieceIs
<1>11. /\ C \in Seq(Tokens) /\ Len(C) = 1
       /\ C[1] = Token("<decide>", k, last, OPT_DECIDE)
  <2> DEFINE d == <<"<decide>">>
  <2>1. d \in Lines /\ Len(d) = 1 /\ d[1] = "<decide>"
    BY PlainIsText DEF Delimiters
  <2> HIDE DEF d
  <2> QED BY <2>1, <1>3, <1>8, PieceIs DEF d
<1>12. tt \in [1..K -> Seq(Tokens)]
  <2>1. tt = [j \in 1..K |-> tt[j]]
    BY <1>4
  <2> HIDE DEF tt
  <2> QED BY <1>10, <2>1
<1> HIDE DEF tt
<1>13. \A j \in 1..(K + 1) : Offset(tt, j) = Offset(ss, j)
  <2>2. OffsetsAgree(tt, ss, K)
    BY <1>4, <1>5, <1>12, SameOffsets, <1>10 DEF SameLengths
  <2> QED BY <2>2 DEF OffsetsAgree
<1>14. /\ B \in Seq(Tokens) /\ Len(B) = Offset(ss, K + 1)
       /\ \A j \in 1..K : \A y \in 1..Len(ss[j]) :
            /\ Offset(ss, j) + y \in 1..Len(B)
            /\ B[Offset(ss, j) + y] = Token(ss[j][y], k, behind(j) + y - 1, j)
  <2>1. K + 1 \in 1..(K + 1) /\ \A j \in 1..K : j \in 1..(K + 1)
    BY <1>4
  <2>2. /\ B \in Seq(Tokens) /\ Offset(tt, K + 1) = Len(B)
        /\ \A j \in 1..K : \A y \in 1..Len(tt[j]) :
             /\ Offset(tt, j) + y \in 1..Len(B)
             /\ B[Offset(tt, j) + y] = tt[j][y]
    <3>1. BlocksIn(Tokens, K, tt)
      BY <1>4, <1>12, BlocksAre
    <3> QED BY <3>1 DEF BlocksIn
  <2> HIDE DEF B
  <2> QED BY <1>10, <1>13, <2>1, <2>2
<1> HIDE DEF A, B, C, T
<1>15. /\ T \in Seq(Tokens) /\ Len(T) = Len(I) + Len(B) + 1
       /\ \A x \in 1..Len(I) : T[x] = A[x]
       /\ \A y \in 1..Len(B) : T[Len(I) + y] = B[y]
       /\ T[Len(T)] = C[1]
  <2>1. /\ A \o B \in Seq(Tokens) /\ Len(A \o B) = Len(A) + Len(B)
        /\ \A i \in 1..Len(A) : (A \o B)[i] = A[i]
        /\ \A i \in 1..Len(B) : (A \o B)[Len(A) + i] = B[i]
    <3>1. A \in Seq(Tokens) /\ B \in Seq(Tokens)
      BY <1>9, <1>14
    <3> QED BY <3>1, ConcatIs
  <2> DEFINE D == A \o B
  <2>2. D \in Seq(Tokens) /\ Len(B) \in Nat
    BY <1>14, <2>1
  <2> HIDE DEF D
  <2>3. /\ D \o C \in Seq(Tokens) /\ Len(D \o C) = Len(D) + Len(C)
        /\ \A i \in 1..Len(D) : (D \o C)[i] = D[i]
        /\ \A i \in 1..Len(C) : (D \o C)[Len(D) + i] = C[i]
    BY <2>2, ConcatIs, <1>11
  <2>4. T = D \o C
    BY <1>1 DEF D
  <2>5. Len(D) = Len(I) + Len(B) /\ Len(D) \in Nat
    BY <1>2, <1>9, <2>1, <2>2 DEF D
  <2>7. \A y \in 1..Len(B) : Len(I) + y \in 1..Len(D)
    BY <1>2, <2>2, <2>5
  <2>10. T[Len(T)] = C[1]
    BY <1>11, <2>3, <2>4
  <2> QED BY <1>11, <2>3, <2>4, <2>5, <2>10, <2>7, <1>9, <2>1, <1>2, <2>2 DEF D
<1>16. Len(T) = Len(Branch(q))
  <2>1. FlattenSeq(ss) \in Lines /\ Len(FlattenSeq(ss)) = Offset(ss, K + 1)
    <3>1. BlocksIn(Strings, K, ss)
      BY <1>4, <1>5, BlocksAre
    <3> QED BY <3>1 DEF Lines, BlocksIn
  <2>4. Len((I \o FlattenSeq(ss)) \o <<"<decide>">>) = Len(I) + Len(FlattenSeq(ss)) + 1
    BY TextConcat, <1>2, <2>1, PlainIsText DEF Delimiters
  <2> QED BY <1>14, <1>15, <2>1, <2>4 DEF Branch, I, ss
<1>17. \A j \in 1..K : \A y \in 1..Len(ss[j]) :
           T[Len(I) + Offset(ss, j) + y] =
               Token(ss[j][y], k, start + (IF isolated THEN 0 ELSE Offset(ss, j)) + y - 1, j)
  <2> TAKE j \in 1..K
  <2> TAKE y \in 1..Len(ss[j])
  <2>2. behind(j) = start + (IF isolated THEN 0 ELSE Offset(ss, j)) /\ Offset(ss, j) \in Nat
    BY <1>6, <1>7, <1>4
  <2>3. T[Len(I) + (Offset(ss, j) + y)] = B[Offset(ss, j) + y]
    BY <1>14, <1>15
  <2>5. Len(I) + (Offset(ss, j) + y) = Len(I) + Offset(ss, j) + y
    BY <1>2, <2>2
  <2> QED BY <2>2, <2>3, <2>5, <1>14
<1> QED BY <1>2, <1>8, <1>9, <1>11, <1>14, <1>15, <1>16, <1>17 DEF PlaceByPlace, start, I, K, ss, T

BlocksOf(S, qs, N, isolated) == [k \in 1..N |-> BranchTokens(qs[k], k, Len(S), isolated)]

OptEnd(q, j) == Len(Instructions(q)) + Offset(Spans(q), j + 1)

\* A record of N questions, encoded: its blocks, and where they are read.
RecordIs(enc, S, qs, N, isolated) ==
    LET bb == BlocksOf(S, qs, N, isolated)
    IN  /\ LaysOut(enc.tokens, S, bb, N, isolated)
        /\ Len(enc.tokens) = Len(S) + Len(FlattenSeq(bb))
        /\ enc.decide = [k \in 1..N |-> Len(S) + Offset(bb, k) + Len(bb[k])]
        /\ enc.opts = [k \in 1..N |-> [j \in 1..Len(qs[k].options) |->
                                          Len(S) + Offset(bb, k) + OptEnd(qs[k], j)]]

\* An option ends inside its branch.
LEMMA OptEndIs ==
    ASSUME NEW q \in KevQuestions, NEW j \in 1..Len(q.options)
    PROVE  /\ OptEnd(q, j) \in 1..Len(Branch(q))
           /\ SpansBefore(q, j + 1) = Offset(Spans(q), j + 1)
           /\ Offset(Spans(q), j + 1) \in Nat
<1> DEFINE K == Len(q.options)
           ss == Spans(q)
           I == Instructions(q)
<1>1. K \in Nat /\ ss \in [1..K -> Seq(Strings)]
  BY SpansType DEF Lines
<1>2. j + 1 \in 1..(K + 1)
  BY <1>1
<1>3. SpansBefore(q, j + 1) = Offset(ss, j + 1) /\ SpansBefore(q, j + 1) \in Nat
  BY <1>2, SpansBeforeIs DEF Offset
<1>4. BlocksIn(Strings, K, ss)
  <2> HIDE DEF K, ss
  <2> QED BY <1>1, BlocksAre
<1>5. Offset(ss, j + 1) \in 0..Len(FlattenSeq(ss)) /\ Offset(ss, K + 1) = Len(FlattenSeq(ss))
      /\ Len(FlattenSeq(ss)) \in Nat
  <2> HIDE DEF K, ss
  <2>3. Len(FlattenSeq(ss)) \in Nat
    BY <1>4 DEF BlocksIn
  <2> QED BY <2>3, <1>2, <1>4 DEF BlocksIn
<1>6. PlaceByPlace(BranchTokens(q, 1, 0, FALSE), q, 1, 0, FALSE)
  <2>1. 1 \in Nat \ {0} /\ 0 \in Nat /\ FALSE \in BOOLEAN
    OBVIOUS
  <2> QED BY <2>1, BranchBuilt, Zenon
<1>7. Len(Branch(q)) = Len(I) + Len(FlattenSeq(ss)) + 1 /\ Len(I) \in Nat \ {0}
  BY <1>5, <1>6, InstructionsType DEF PlaceByPlace
<1> HIDE DEF ss, I, K
<1> QED BY <1>3, <1>5, <1>7 DEF ss, OptEnd, I

\* A place of a branch is in the instructions, in a span, or the last.
LEMMA PlacesAre ==
    ASSUME NEW q \in KevQuestions, NEW k, NEW p0, NEW isolated \in BOOLEAN, NEW T,
           PlaceByPlace(T, q, k, p0, isolated), NEW m \in 1..Len(T)
    PROVE  \/ m \in 1..Len(Instructions(q))
           \/ \E j \in 1..Len(q.options) : \E y \in 1..Len(Spans(q)[j]) :
                 m = Len(Instructions(q)) + Offset(Spans(q), j) + y
           \/ m = Len(T)
<1> DEFINE n == Len(Instructions(q))
           K == Len(q.options)
           ss == Spans(q)
<1>1. K \in Nat /\ ss \in [1..K -> Seq(Strings)]
  BY SpansType DEF Lines
<1> HIDE DEF ss, K
<1>3. Offset(ss, K + 1) = Len(FlattenSeq(ss)) /\ FlattenSeq(ss) \in Seq(Strings)
      /\ \A j \in 1..K : Offset(ss, j) \in Nat
  BY <1>1, BlocksAre DEF BlocksIn
<1>4. n \in Nat /\ Len(T) = n + Len(FlattenSeq(ss)) + 1 /\ Len(FlattenSeq(ss)) \in Nat
  BY <1>3 DEF PlaceByPlace, K, ss
<1> SUFFICES ASSUME m \notin 1..n, m # Len(T)
             PROVE  \E j \in 1..K : \E y \in 1..Len(ss[j]) : m = n + Offset(ss, j) + y
  BY DEF K, ss
<1> HIDE DEF n
<1>5. m - n \in 1..Len(FlattenSeq(ss)) /\ m \in Nat
  BY <1>4
<1> DEFINE i == m - n
<1>6. PICK j \in 1..K : \E y \in 1..Len(ss[j]) : i = Offset(ss, j) + y
  <2>1. i \in 1..Len(FlattenSeq(ss))
    BY <1>5
  <2> HIDE DEF i
  <2> QED BY SMTT(40), <1>1, <2>1, BlocksCover DEF Covered
<1>7. PICK y \in 1..Len(ss[j]) : m - n = Offset(ss, j) + y
  BY <1>6
<1>8. Offset(ss, j) \in Nat
  BY <1>3
<1>9. m = n + Offset(ss, j) + y
  BY <1>4, <1>5, <1>7, <1>8
<1> QED BY <1>9

\* Tokens of a branch are of its segment, and only the last of them decides.
LEMMA PlacesOfBlock ==
    ASSUME NEW q \in KevQuestions, NEW k, NEW p0, NEW isolated \in BOOLEAN, NEW T,
           PlaceByPlace(T, q, k, p0, isolated)
    PROVE  \A m \in 1..Len(T) : T[m].seg = k /\ (m # Len(T) => T[m].opt # OPT_DECIDE)
<1> TAKE m \in 1..Len(T)
<1>1. \A id, pos, opt : Token(id, k, pos, opt).seg = k /\ Token(id, k, pos, opt).opt = opt
  BY DEF Token
<1>2. CASE m \in 1..Len(Instructions(q))
  BY <1>2, <1>1 DEF PlaceByPlace, OPT_NONE, OPT_DECIDE
<1>3. CASE \E j \in 1..Len(q.options) : \E y \in 1..Len(Spans(q)[j]) :
                 m = Len(Instructions(q)) + Offset(Spans(q), j) + y
  <2>1. PICK j \in 1..Len(q.options) : \E y \in 1..Len(Spans(q)[j]) :
                 m = Len(Instructions(q)) + Offset(Spans(q), j) + y
    BY <1>3
  <2>2. PICK y \in 1..Len(Spans(q)[j]) : m = Len(Instructions(q)) + Offset(Spans(q), j) + y
    BY <2>1
  <2> QED BY <1>1, <2>2, SMTT(20) DEF PlaceByPlace, OPT_DECIDE
<1>4. CASE m = Len(T)
  BY <1>4, <1>1 DEF PlaceByPlace
<1> QED BY <1>2, <1>3, <1>4, PlacesAre

\* What encode makes of a record lays out a block per question behind the state.
LEMMA EncodedRecord ==
    ASSUME NEW state \in Lines, NEW N \in Nat \ {0}, NEW qs \in [1..N -> KevQuestions],
           NEW isolated \in BOOLEAN
    PROVE  RecordIs(Encode([state |-> state, questions |-> qs], isolated),
                    StateIds(state), qs, N, isolated)
<1>1. StateIds(state) \in Lines /\ Len(StateIds(state)) \in Nat \ {0}
  BY StateIdsType
<1> DEFINE enc == Encode([state |-> state, questions |-> qs], isolated)
           S == StateIds(state)
           bb == BlocksOf(S, qs, N, isolated)
           A == Piece(S, 0, 0, OPT_NONE)
           B == FlattenSeq(bb)
           branches == [k \in 1..N |-> Branch(qs[k])]
           start(k) == Len(S) + Len(FlattenSeq([m \in 1..(k - 1) |-> Branch(qs[m])]))
<1>0. S \in Lines /\ Len(S) \in Nat \ {0}
  BY <1>1
<1>2. DOMAIN qs = 1..N
  OBVIOUS
<1>3. enc.tokens = A \o FlattenSeq([k \in DOMAIN qs |-> BranchTokens(qs[k], k, Len(S), isolated)])
      /\ enc.decide = [k \in DOMAIN qs |-> start(k) + Len(Branch(qs[k]))]
      /\ enc.opts = [k \in DOMAIN qs |-> [j \in DOMAIN qs[k].options |->
                        start(k) + Len(Instructions(qs[k])) + SpansBefore(qs[k], j + 1)]]
  BY Zenon DEF Encode
<1> HIDE DEF enc, S
<1>4. enc.tokens = A \o B
  BY <1>2, <1>3 DEF BlocksOf
<1>5. \A k \in 1..N : /\ PlaceByPlace(bb[k], qs[k], k, Len(S), isolated)
                      /\ bb[k] \in Seq(Tokens) /\ Len(bb[k]) = Len(Branch(qs[k]))
                      /\ branches[k] \in Seq(Strings) /\ Len(branches[k]) = Len(bb[k])
  <2> TAKE k \in 1..N
  <2>1. qs[k] \in KevQuestions /\ k \in Nat \ {0} /\ Len(S) \in Nat
    BY <1>0
  <2>2. bb[k] = BranchTokens(qs[k], k, Len(S), isolated) /\ branches[k] = Branch(qs[k])
    BY DEF BlocksOf
  <2>3. PlaceByPlace(bb[k], qs[k], k, Len(S), isolated)
    BY <2>1, <2>2, BranchBuilt
  <2>4. Branch(qs[k]) \in Seq(Strings)
    BY <2>1, BranchType DEF Lines
  <2> HIDE DEF bb, branches
  <2> QED BY <2>2, <2>3, <2>4 DEF PlaceByPlace
<1>6. bb \in [1..N -> Seq(Tokens)] /\ branches \in [1..N -> Seq(Strings)]
  <2>1. bb = [k \in 1..N |-> bb[k]]
    BY DEF BlocksOf
  <2> HIDE DEF bb
  <2> QED BY <1>5, <2>1
<1> HIDE DEF bb
<1>7. BlocksIn(Tokens, N, bb)
  BY <1>6, BlocksAre
<1>8. \A k \in 1..N : start(k) = Len(S) + Offset(bb, k) /\ Offset(bb, k) \in Nat
  <2>1. OffsetsAgree(branches, bb, N)
    <3>1. SameLengths(branches, bb, N)
      BY <1>5 DEF SameLengths
    <3> HIDE DEF branches
    <3> QED BY <1>6, <3>1, SameOffsets
  <2> TAKE k \in 1..N
  <2>2. Prefix(branches, k - 1) = [m \in 1..(k - 1) |-> Branch(qs[m])]
    BY DEF Prefix
  <2>4. Offset(branches, k) = Offset(bb, k)
    BY <2>1 DEF OffsetsAgree
  <2> HIDE DEF branches
  <2> QED BY <1>7, <2>2, <2>4 DEF BlocksIn, Offset
<1> HIDE DEF start
<1>9. enc.decide = [k \in 1..N |-> Len(S) + Offset(bb, k) + Len(bb[k])]
  BY <1>5, <1>8, <1>2, <1>3
<1>10. \A k \in 1..N :
          /\ DOMAIN qs[k].options = 1..Len(qs[k].options)
          /\ \A j \in 1..Len(qs[k].options) :
                start(k) + Len(Instructions(qs[k])) + SpansBefore(qs[k], j + 1)
                    = Len(S) + Offset(bb, k) + OptEnd(qs[k], j)
  <2> TAKE k \in 1..N
  <2>1. qs[k] \in KevQuestions
    OBVIOUS
  <2> SUFFICES ASSUME NEW j \in 1..Len(qs[k].options)
               PROVE  start(k) + Len(Instructions(qs[k])) + SpansBefore(qs[k], j + 1)
                        = Len(S) + Offset(bb, k) + OptEnd(qs[k], j)
    BY <2>1, SpansType
  <2> DEFINE q == qs[k]
  <2>3. q \in KevQuestions /\ j \in 1..Len(q.options)
    BY <2>1
  <2> HIDE DEF q
  <2>5. start(k) = Len(S) + Offset(bb, k) /\ Offset(bb, k) \in Nat /\ Len(S) \in Nat
    BY <1>0, <1>8
  <2> QED BY <2>5, <2>3, OptEndIs, InstructionsType DEF q, OptEnd
<1>11. enc.opts = [k \in 1..N |-> [j \in 1..Len(qs[k].options) |->
                                          Len(S) + Offset(bb, k) + OptEnd(qs[k], j)]]
  BY <1>10, <1>2, <1>3
<1>12. /\ A \in Seq(Tokens) /\ Len(A) = Len(S)
       /\ \A i \in 1..Len(S) : A[i] = Token(S[i], 0, 0 + i - 1, OPT_NONE)
  BY <1>0, PieceIs DEF OPT_NONE
<1>13. B \in Seq(Tokens)
  BY <1>7 DEF BlocksIn
<1> HIDE DEF A, B
<1>14. /\ A \o B \in Seq(Tokens) /\ Len(A \o B) = Len(A) + Len(B)
       /\ \A i \in 1..Len(A) : (A \o B)[i] = A[i]
       /\ \A i \in 1..Len(B) : (A \o B)[Len(A) + i] = B[i]
  <2>1. A \in Seq(Tokens)
    BY <1>12
  <2> QED BY <1>13, <2>1, ConcatIs
<1>15. \A i \in 1..Len(S) : /\ enc.tokens[i].id = S[i] /\ enc.tokens[i].pos = i - 1
                            /\ enc.tokens[i].seg = 0 /\ enc.tokens[i].opt = OPT_NONE
  <2> TAKE i \in 1..Len(S)
  <2>1. enc.tokens[i] = A[i]
    BY <1>4, <1>12, <1>14
  <2>2. A[i] = Token(S[i], 0, 0 + i - 1, OPT_NONE)
    BY <1>12
  <2>3. 0 + i - 1 = i - 1
    BY <1>0
  <2> DEFINE id == S[i]
             pos == i - 1
             t == enc.tokens[i]
  <2>4. t = [id |-> id, seg |-> 0, pos |-> pos, opt |-> OPT_NONE]
    BY <2>1, <2>2, <2>3 DEF Token
  <2> HIDE DEF id, pos, t
  <2> QED BY <2>4 DEF t, id, pos
<1>16. \A k \in 1..N : \A m \in 1..Len(bb[k]) : enc.tokens[Len(S) + Offset(bb, k) + m] = bb[k][m]
  <2> TAKE k \in 1..N
  <2> TAKE m \in 1..Len(bb[k])
  <2>1. Offset(bb, k) + m \in 1..Len(B) /\ B[Offset(bb, k) + m] = bb[k][m] /\ Offset(bb, k) \in Nat
    BY <1>7 DEF BlocksIn, B
  <2>2. enc.tokens[Len(S) + (Offset(bb, k) + m)] = bb[k][m]
    BY <1>4, <1>12, <1>14, <2>1
  <2> QED BY <2>2, <1>0, <2>1
<1>17. \A k \in 1..N : \A m \in 1..Len(bb[k]) :
          bb[k][m].seg = k /\ (m # Len(bb[k]) => bb[k][m].opt # OPT_DECIDE)
  <2> TAKE k \in 1..N
  <2> DEFINE T == bb[k]
             q == qs[k]
             p0 == Len(S)
  <2>1. q \in KevQuestions /\ PlaceByPlace(T, q, k, p0, isolated)
    BY <1>5
  <2> HIDE DEF T, q, p0
  <2> QED BY <2>1, PlacesOfBlock DEF T
<1>18. Len(enc.tokens) = Len(S) + Len(FlattenSeq(bb)) /\ enc.tokens \in Seq(Tokens)
  BY <1>4, <1>12, <1>14 DEF B
<1>19. LaysOut(enc.tokens, S, bb, N, isolated)
  BY <1>18, <1>0, <1>6, <1>15, <1>16, <1>17 DEF LaysOut
<1> QED BY <1>9, <1>11, <1>18, <1>19 DEF RecordIs, enc, S, bb

\* Padding leaves the layout as it is.
LEMMA LaysOutPadded ==
    ASSUME NEW tokens, NEW S, NEW bb, NEW N, NEW isolated \in BOOLEAN,
           LaysOut(tokens, S, bb, N, isolated), NEW p \in Seq(Tokens)
    PROVE  LaysOut(tokens \o p, S, bb, N, isolated)
<1>1. /\ tokens \in Seq(Tokens) /\ S \in Lines /\ N \in Nat /\ bb \in [1..N -> Seq(Tokens)]
      /\ Len(S) + Len(FlattenSeq(bb)) <= Len(tokens) /\ Len(S) \in Nat
  BY DEF LaysOut, Lines
<1>2. /\ tokens \o p \in Seq(Tokens) /\ Len(tokens \o p) = Len(tokens) + Len(p)
      /\ \A i \in 1..Len(tokens) : (tokens \o p)[i] = tokens[i]
  BY <1>1, ConcatIs
<1>3. Len(tokens) \in Nat /\ Len(p) \in Nat
  BY <1>1
<1>4. BlocksIn(Tokens, N, bb)
  BY <1>1, BlocksAre
<1>5. Len(FlattenSeq(bb)) \in Nat
  BY <1>4 DEF BlocksIn
<1>6. \A i \in 1..Len(S) : (tokens \o p)[i] = tokens[i]
  BY <1>1, <1>3, <1>5, <1>2
<1>7. \A k \in 1..N : \A m \in 1..Len(bb[k]) :
          (tokens \o p)[Len(S) + Offset(bb, k) + m] = tokens[Len(S) + Offset(bb, k) + m]
  <2> TAKE k \in 1..N
  <2> TAKE m \in 1..Len(bb[k])
  <2>1. Offset(bb, k) \in Nat /\ Offset(bb, k) + m \in 1..Len(FlattenSeq(bb))
    BY <1>4 DEF BlocksIn
  <2>2. Len(S) + Offset(bb, k) + m \in 1..Len(tokens)
    BY SMTT(40), <1>1, <1>3, <1>5, <2>1
  <2> QED BY <1>2, <2>2
<1>8. Len(S) + Len(FlattenSeq(bb)) <= Len(tokens \o p)
  BY <1>1, <1>2, <1>3, <1>5
<1> DEFINE row == tokens \o p
<1>9. /\ row \in Seq(Tokens) /\ Len(S) + Len(FlattenSeq(bb)) <= Len(row)
      /\ \A i \in 1..Len(S) : row[i] = tokens[i]
      /\ \A k \in 1..N : \A m \in 1..Len(bb[k]) :
            row[Len(S) + Offset(bb, k) + m] = tokens[Len(S) + Offset(bb, k) + m]
  BY <1>2, <1>6, <1>7, <1>8
<1> HIDE DEF row
<1>10. LaysOut(row, S, bb, N, isolated)
  BY SMTT(40), <1>9 DEF LaysOut
<1> QED BY <1>10 DEF row

\* What is read of a question: all of its branch, and up to the end of each option.
BlockReading(S, q, block, isolated) ==
    [j \in 1..Len(q.options) |->
        [decide |-> BlockSeen(S, block, Len(block), isolated),
         option |-> BlockSeen(S, block, OptEnd(q, j), isolated)]]

RecordReading(S, qs, N, isolated) ==
    [k \in 1..N |-> BlockReading(S, qs[k], BlocksOf(S, qs, N, isolated)[k], isolated)]

\* A single record is padded alone.
LEMMA PadOne ==
    ASSUME NEW tokens \in Seq(Tokens)
    PROVE  \E p \in Seq(Tokens) : PadRows([b \in 1..1 |-> tokens])[1] = tokens \o p
<1> DEFINE N == 1
           tt == [b \in 1..N |-> tokens]
<1>1. N \in Nat \ {0} /\ tt \in [1..N -> Seq(Tokens)] /\ 1 \in 1..N /\ tt[1] = tokens
  OBVIOUS
<1> HIDE DEF tt, N
<1> QED BY <1>1, Padding DEF tt, N, PadIs

BlockIs(block, q, k, p0, isolated) ==
    /\ block \in Seq(Tokens) /\ Len(block) \in Nat /\ Len(block) = Len(Branch(q))
    /\ Len(block) \in 1..Len(block)
    /\ \A j \in 1..Len(q.options) : OptEnd(q, j) \in 1..Len(block)
    /\ PlaceByPlace(block, q, k, p0, isolated)

\* A branch is read at places of its own.
LEMMA BlockPlaces ==
    ASSUME NEW S \in Lines, NEW N \in Nat \ {0}, NEW qs \in [1..N -> KevQuestions],
           NEW isolated \in BOOLEAN, NEW k \in 1..N
    PROVE  BlockIs(BlocksOf(S, qs, N, isolated)[k], qs[k], k, Len(S), isolated)
<1> DEFINE block == BlocksOf(S, qs, N, isolated)[k]
           q == qs[k]
<1>1. q \in KevQuestions /\ k \in Nat \ {0} /\ Len(S) \in Nat
  BY DEF Lines
<1>2. block = BranchTokens(q, k, Len(S), isolated)
  BY DEF BlocksOf
<1> HIDE DEF block, q
<1>3. PlaceByPlace(block, q, k, Len(S), isolated)
  BY <1>1, <1>2, BranchBuilt
<1>4. block \in Seq(Tokens) /\ Len(block) = Len(Branch(q))
  BY <1>3 DEF PlaceByPlace
<1> QED BY <1>3, <1>4, <1>1, OptEndIs, BranchType DEF block, q, BlockIs

\* Under the mask a question is read as its own block behind the state.
LEMMA RecordPacked ==
    ASSUME NEW state \in Lines, NEW N \in Nat \ {0}, NEW qs \in [1..N -> KevQuestions],
           NEW isolated \in BOOLEAN
    PROVE  ForwardPacked(<<Encode([state |-> state, questions |-> qs], isolated)>>, isolated)[1]
           = RecordReading(StateIds(state), qs, N, isolated)
<1> DEFINE enc == Encode([state |-> state, questions |-> qs], isolated)
           S == StateIds(state)
           bb == BlocksOf(S, qs, N, isolated)
           padded == PadRows([b \in 1..1 |-> enc.tokens])
           sees == [i \in DOMAIN padded[1] |-> MaskSees(padded[1], i, isolated)]
<1>1. RecordIs(enc, S, qs, N, isolated) /\ S \in Lines /\ Len(S) \in Nat
  BY EncodedRecord, StateIdsType
<1> HIDE DEF enc, S
<1>2. LaysOut(enc.tokens, S, bb, N, isolated)
      /\ enc.decide = [k \in 1..N |-> Len(S) + Offset(bb, k) + Len(bb[k])]
      /\ enc.opts = [k \in 1..N |-> [j \in 1..Len(qs[k].options) |->
                                        Len(S) + Offset(bb, k) + OptEnd(qs[k], j)]]
  BY <1>1 DEF RecordIs
<1>4. PICK p \in Seq(Tokens) : padded[1] = enc.tokens \o p
  BY PadOne, <1>2 DEF LaysOut
<1>5. \A k \in 1..N :
          /\ bb[k] \in Seq(Tokens) /\ Len(bb[k]) \in 1..Len(bb[k])
          /\ \A j \in 1..Len(qs[k].options) : OptEnd(qs[k], j) \in 1..Len(bb[k])
  BY <1>1, BlockPlaces DEF BlockIs
<1>6. ForwardPacked(<<enc>>, isolated)[1] =
          [k \in DOMAIN enc.decide |-> Readout(padded[1], enc.decide[k], enc.opts[k], sees)]
  <2>1. DOMAIN <<enc>> = 1..1 /\ 1 \in 1..1 /\ <<enc>>[1] = enc
    OBVIOUS
  <2>2. \A b \in 1..1 : <<enc>>[b] = enc
    BY <2>1, \A b \in 1..1 : b = 1
  <2> DEFINE encs == <<enc>>
             all == PadRows([b \in DOMAIN encs |-> encs[b].tokens])
  <2>3. ForwardPacked(encs, isolated) =
            [b \in DOMAIN encs |-> [k \in DOMAIN encs[b].decide |->
                Readout(all[b], encs[b].decide[k], encs[b].opts[k],
                        [i \in DOMAIN all[b] |-> {j \in 1..(i - 1) : Attends(all[b], i, j, isolated)}])]]
    BY Zenon DEF ForwardPacked
  <2> HIDE DEF encs
  <2>4. all = padded
    BY <2>1, <2>2 DEF encs
  <2> HIDE DEF all, padded
  <2>5. ForwardPacked(encs, isolated)[1] = [k \in DOMAIN encs[1].decide |->
                Readout(all[1], encs[1].decide[k], encs[1].opts[k],
                        [i \in DOMAIN all[1] |-> {j \in 1..(i - 1) : Attends(all[1], i, j, isolated)}])]
    BY <2>1, <2>3, Zenon DEF encs
  <2> QED BY <2>1, <2>4, <2>5, Zenon DEF encs, sees, MaskSees
<1> HIDE DEF bb, padded, sees
<1>7. \A k \in 1..N : \A m \in 1..Len(bb[k]) :
          Seen(padded[1], Len(S) + Offset(bb, k) + m, sees) = BlockSeen(S, bb[k], m, isolated)
  <2>1. LaysOut(padded[1], S, bb, N, isolated)
    BY <1>2, <1>4, LaysOutPadded
  <2> DEFINE row == padded[1]
             n(k, m) == Len(S) + Offset(bb, k) + m
  <2>2. LaysOut(row, S, bb, N, isolated) /\ sees = [i \in DOMAIN row |-> MaskSees(row, i, isolated)]
    BY <2>1 DEF sees
  <2> HIDE DEF row
  <2> TAKE k \in 1..N
  <2> TAKE m \in 1..Len(bb[k])
  <2> QED BY <2>2, BlockIsSeen DEF row
<1>8. ASSUME NEW k \in 1..N
      PROVE  Readout(padded[1], enc.decide[k], enc.opts[k], sees) = BlockReading(S, qs[k], bb[k], isolated)
  <2> DEFINE K == Len(qs[k].options)
  <2>1. enc.decide[k] = Len(S) + Offset(bb, k) + Len(bb[k])
        /\ enc.opts[k] = [j \in 1..K |-> Len(S) + Offset(bb, k) + OptEnd(qs[k], j)]
    BY <1>2
  <2>2. Seen(padded[1], enc.decide[k], sees) = BlockSeen(S, bb[k], Len(bb[k]), isolated)
    BY <1>5, <1>7, <2>1
  <2>3. \A j \in 1..K : Seen(padded[1], enc.opts[k][j], sees) = BlockSeen(S, bb[k], OptEnd(qs[k], j), isolated)
    BY <1>5, <1>7, <2>1
  <2>4. DOMAIN enc.opts[k] = 1..K
    BY <2>1
  <2> QED BY <2>2, <2>3, <2>4, Zenon DEF Readout, BlockReading
<1>9. DOMAIN enc.decide = 1..N
  BY <1>2
<1>10. ForwardPacked(<<enc>>, isolated)[1] = [k \in 1..N |-> BlockReading(S, qs[k], bb[k], isolated)]
  BY <1>6, <1>8, <1>9, Zenon
<1> QED BY <1>10 DEF RecordReading, bb, enc, S

\* Without isolation a block is seen, up to a place, as the row of its question is.
LEMMA PlainSeen ==
    ASSUME NEW state \in Lines, NEW q \in KevQuestions, NEW k \in Nat \ {0}, NEW block,
           block = BranchTokens(q, k, Len(StateIds(state)), FALSE), NEW m \in 1..Len(block)
    PROVE  BlockSeen(StateIds(state), block, m, FALSE)
           = FirstOf(KevRow(state, q), Len(StateIds(state)) + m)
<1>1. StateIds(state) \in Lines /\ Len(StateIds(state)) \in Nat /\ Branch(q) \in Lines
  BY StateIdsType, BranchType
<1> DEFINE S == StateIds(state)
           B == Branch(q)
           row == KevRow(state, q)
           n == Len(S)
<1>2. Laid(block, B, k, n)
  <2>1. k \in Int /\ n \in Int
    BY <1>1
  <2> HIDE DEF B
  <2> QED BY <2>1, BranchLaid DEF B
<1>3. /\ Len(row) = n + Len(B)
      /\ \A i \in 1..n : row[i] = S[i]
      /\ \A i \in 1..Len(B) : row[n + i] = B[i]
  BY <1>1, ConcatIs DEF KevRow, Lines
<1>4. S \in Lines /\ n \in Nat /\ B \in Lines
  BY <1>1
<1> HIDE DEF S, B, row, n
<1>5. Len(block) = Len(B) /\ Len(B) \in Nat
      /\ \A i \in 1..Len(B) : block[i].id = B[i] /\ block[i].pos = n + i - 1
  <2>1. Len(B) \in Nat
    BY <1>4 DEF Lines
  <2>2. Len(block) = Len(B)
    BY <1>2, Zenon DEF Laid
  <2>3. \A i \in 1..Len(B) : block[i].id = B[i] /\ block[i].pos = n + i - 1
    BY <1>2, Zenon DEF Laid
  <2> QED BY <2>1, <2>2, <2>3
<1>6. OwnPlaces(block, m, FALSE) = 1..m
  BY DEF OwnPlaces
<1>7. \A y \in 1..m : block[y].id = row[n + y] /\ block[y].pos = (n + y) - 1
  <2> TAKE y \in 1..m
  <2>1. y \in 1..Len(B)
    <3>1. m \in 1..Len(B)
      BY <1>5
    <3> QED BY <1>5, <3>1
  <2>3. n + y - 1 = (n + y) - 1
    BY <1>4
  <2> QED BY <2>3, <1>3, <1>5, <2>1
<1> DEFINE state1 == {<<S[i], i - 1>> : i \in 1..n}
           block1 == {<<block[y].id, block[y].pos>> : y \in 1..m}
           both == {<<row[i], i - 1>> : i \in 1..(n + m)}
<1>8. \A x \in state1 : x \in both
  BY <1>3, <1>4
<1>9. \A x \in block1 : x \in both
  <2> SUFFICES ASSUME NEW y \in 1..m PROVE <<block[y].id, block[y].pos>> \in both
    OBVIOUS
  <2>1. n + y \in 1..(n + m)
    BY <1>4
  <2> QED BY <2>1, <1>7
<1>10. \A x \in both : x \in state1 \cup block1
  <2> SUFFICES ASSUME NEW i \in 1..(n + m) PROVE <<row[i], i - 1>> \in state1 \cup block1
    OBVIOUS
  <2>1. CASE i <= n
    <3>1. i \in 1..n
      BY <1>4, <2>1
    <3> QED BY <3>1, <1>3
  <2>2. CASE i > n
    <3>1. i - n \in 1..m /\ n + (i - n) = i
      BY <1>4, <2>2
    <3> DEFINE y == i - n
    <3>2. y \in 1..m /\ n + y = i
      BY <3>1
    <3> HIDE DEF y
    <3>3. <<block[y].id, block[y].pos>> = <<row[i], i - 1>>
      BY <1>7, <3>2
    <3>4. <<block[y].id, block[y].pos>> \in block1
      BY <3>2
    <3> HIDE DEF block1, state1
    <3> QED BY <3>3, <3>4
  <2>3. i <= n \/ i > n
    BY <1>4
  <2> QED BY <2>1, <2>2, <2>3
<1> HIDE DEF state1, block1, both
<1>11. state1 \cup block1 = both
  BY <1>8, <1>9, <1>10
<1> QED BY <1>11, <1>6 DEF S, row, n, BlockSeen, FirstOf, state1, block1, both

Behind(state, q) == KevReading(KevRow(state, q), KevEnds(state, q))

\* Without isolation a question is read of its block as it is read of its row.
LEMMA PlainReading ==
    ASSUME NEW state \in Lines, NEW N \in Nat \ {0}, NEW qs \in [1..N -> KevQuestions], NEW k \in 1..N
    PROVE  BlockReading(StateIds(state), qs[k], BlocksOf(StateIds(state), qs, N, FALSE)[k], FALSE)
           = Behind(state, qs[k])
<1>1. StateIds(state) \in Lines /\ Len(StateIds(state)) \in Nat
  BY StateIdsType
<1> DEFINE S == StateIds(state)
           q == qs[k]
           block == BlocksOf(S, qs, N, FALSE)[k]
           K == Len(q.options)
           row == KevRow(state, q)
<1>2. block = BranchTokens(q, k, Len(S), FALSE)
  BY DEF BlocksOf
<1>3. /\ Len(block) \in Nat /\ Len(block) = Len(Branch(q)) /\ Len(block) \in 1..Len(block)
      /\ \A j \in 1..K : OptEnd(q, j) \in 1..Len(block)
  <2>1. S \in Lines /\ FALSE \in BOOLEAN
    BY <1>1
  <2> HIDE DEF S
  <2>2. BlockIs(block, q, k, Len(S), FALSE)
    BY <2>1, BlockPlaces, Zenon DEF block, q
  <2> QED BY <2>2 DEF BlockIs, K
<1>4. q \in KevQuestions /\ k \in Nat \ {0}
  OBVIOUS
<1> HIDE DEF block, q
<1>5. \A m \in 1..Len(block) : BlockSeen(S, block, m, FALSE) = FirstOf(row, Len(S) + m)
  BY <1>2, <1>4, PlainSeen
<1>6. Len(row) = Len(S) + Len(block)
  BY <1>4, BranchType, <1>1, <1>3, TextConcat DEF KevRow
<1>7. \A j \in 1..K : KevEnd(state, q, j) = Len(S) + OptEnd(q, j)
  BY <1>4, OptEndIs, InstructionsType, <1>1 DEF KevEnd, OptEnd
<1> HIDE DEF K, S, row
<1>8. BlockReading(S, q, block, FALSE) =
          [j \in 1..K |-> [decide |-> FirstOf(row, Len(row)), option |-> FirstOf(row, KevEnd(state, q, j))]]
  BY <1>3, <1>5, <1>6, <1>7, Zenon DEF BlockReading, K
<1>9. Behind(state, q) =
          [j \in 1..K |-> [decide |-> FirstOf(row, Len(row)), option |-> FirstOf(row, KevEnd(state, q, j))]]
  <2> DEFINE ends == KevEnds(state, q)
  <2>1. DOMAIN ends = 1..K /\ \A j \in 1..K : ends[j] = KevEnd(state, q, j)
    BY DEF KevEnds, K
  <2>2. Behind(state, q) =
            [j \in DOMAIN ends |-> [decide |-> FirstOf(row, Len(row)), option |-> FirstOf(row, ends[j])]]
    BY Zenon DEF Behind, KevReading, row
  <2> HIDE DEF ends
  <2> QED BY <2>1, <2>2, Zenon
<1> QED BY <1>8, <1>9 DEF S, q, block

OfOneRecord(out, reads, N) == out = [n \in 1..N |-> [of |-> 1, read |-> reads[n]]]
ReadsOf(reads, N) == [n \in 1..N |-> reads[n]]

\* All readouts of one record are handed back in their order.
LEMMA HandBackAll ==
    ASSUME NEW N \in Nat, NEW reads, NEW out, OfOneRecord(out, reads, N)
    PROVE  HandBack(out, 1..1)[1] = ReadsOf(reads, N)
<1> USE DEF OfOneRecord
<1> DEFINE D == 1..1
           V == {reads[n] : n \in 1..N}
<1>1. out \in [1..N -> Reads(D, V)]
  BY DEF Reads
<1>2. \A n \in 1..N : out[n].of = 1 /\ out[n].read = reads[n]
  OBVIOUS
<1>3. PICK f \in [0..N -> [D -> Seq(V)]] : HandsBack(f, N, D, out)
  <2> HIDE DEF D, V
  <2> QED BY <1>1, HandBackIs
<1> DEFINE E == {k \in 0..N : f[k][1] = Prefix(reads, k)}
<1>4. 0 \in E
  BY <1>3 DEF HandsBack, Prefix
<1>5. \A k \in 1..N : k - 1 \in E => k \in E
  <2> SUFFICES ASSUME NEW k \in 1..N, f[k - 1][1] = Prefix(reads, k - 1)
               PROVE  f[k][1] = Prefix(reads, k)
    OBVIOUS
  <2>1. f[k] = [f[k - 1] EXCEPT ![out[k].of] = Append(@, out[k].read)]
    BY <1>3, Zenon DEF HandsBack
  <2>2. f[k][1] = Append(Prefix(reads, k - 1), reads[k])
    <3>1. k - 1 \in 0..N
      OBVIOUS
    <3>2. f[k - 1] \in [D -> Seq(V)]
      BY <1>3, <3>1
    <3>3. 1 \in DOMAIN f[k - 1]
      BY <3>2
    <3>4. out[k].of = 1 /\ out[k].read = reads[k]
      BY <1>2
    <3> HIDE DEF V, D
    <3> QED BY <3>3, <2>1, <3>4
  <2>3. Append(Prefix(reads, k - 1), reads[k]) = Prefix(reads, k)
    <3> DEFINE s == Prefix(reads, k - 1)
               t == Prefix(reads, k)
    <3>a. \A i \in 1..N : reads[i] \in V
      OBVIOUS
    <3> HIDE DEF V, E
    <3>1. s \in Seq(V) /\ Len(s) = k - 1 /\ t \in Seq(V) /\ Len(t) = k /\ reads[k] \in V
      <4>1. k - 1 \in Nat /\ k \in Nat /\ reads[k] \in V
        BY <3>a
      <4>2. s \in [1..(k - 1) -> V] /\ t \in [1..k -> V]
        BY <3>a DEF Prefix
      <4> HIDE DEF s, t
      <4> QED BY <4>1, <4>2
    <3>2. \A i \in 1..k : t[i] = IF i = k THEN reads[k] ELSE s[i]
      BY DEF Prefix
    <3> HIDE DEF s, t
    <3> QED BY <3>1, <3>2, SeqEqual DEF s, t
  <2> QED BY <2>2, <2>3
<1> HIDE DEF E
<1>6. N \in E
  <2>1. N \in 0..N
    OBVIOUS
  <2> QED BY <1>4, <1>5, <2>1, UpTo
<1> QED BY <1>3, <1>6 DEF HandsBack, Prefix, ReadsOf, E

\* The row of each question: read as the question behind its state.
RowIs(row, state, q) ==
    /\ KevTokens(row.tokens, KevRow(state, q), Len(StateIds(state)))
    /\ row.decide = Len(KevRow(state, q)) /\ Len(KevRow(state, q)) # 0
    /\ row.opts = KevEnds(state, q)

\* rows_of cuts a record into the rows of its questions.
LEMMA RowsOfRecord ==
    ASSUME NEW state \in Lines, NEW N \in Nat \ {0}, NEW qs \in [1..N -> KevQuestions], NEW enc,
           RecordIs(enc, StateIds(state), qs, N, FALSE)
    PROVE  DOMAIN RowsOf(enc) = 1..N /\ \A k \in 1..N : RowIs(RowsOf(enc)[k], state, qs[k])
<1>a. StateIds(state) \in Lines /\ Len(StateIds(state)) \in Nat
  BY StateIdsType
<1> DEFINE S == StateIds(state)
           n == Len(S)
           tokens == enc.tokens
           bb == BlocksOf(S, qs, N, FALSE)
           flat == FlattenSeq(bb)
           first == {i \in DOMAIN enc.tokens : enc.tokens[i].seg = 0}
           front == SubSeq(enc.tokens, 1, Cardinality(first))
<1>1. /\ LaysOut(tokens, S, bb, N, FALSE)
      /\ Len(tokens) = n + Len(flat)
      /\ enc.decide = [k \in 1..N |-> n + Offset(bb, k) + Len(bb[k])]
      /\ enc.opts = [k \in 1..N |-> [j \in 1..Len(qs[k].options) |->
                                        n + Offset(bb, k) + OptEnd(qs[k], j)]]
  BY DEF RecordIs
<1>2. S \in Lines /\ n \in Nat
  BY <1>a
<1>3. RowsOf(enc) = [k \in DOMAIN enc.decide |->
            [ tokens |-> front \o SubSeq(enc.tokens, (IF k = 1 THEN Len(front) ELSE enc.decide[k - 1]) + 1, enc.decide[k]),
              decide |-> Len(front) + enc.decide[k] - (IF k = 1 THEN Len(front) ELSE enc.decide[k - 1]),
              opts |-> [j \in DOMAIN enc.opts[k] |->
                            Len(front) + enc.opts[k][j] - (IF k = 1 THEN Len(front) ELSE enc.decide[k - 1])] ]]
  BY Zenon DEF RowsOf
<1> HIDE DEF S, bb
<1>4. /\ tokens \in Seq(Tokens) /\ bb \in [1..N -> Seq(Tokens)] /\ n + Len(flat) <= Len(tokens)
      /\ \A i \in 1..n : tokens[i].id = S[i] /\ tokens[i].pos = i - 1 /\ tokens[i].seg = 0
      /\ \A k \in 1..N : \A m \in 1..Len(bb[k]) :
            tokens[n + Offset(bb, k) + m] = bb[k][m] /\ bb[k][m].seg = k
  BY <1>1 DEF LaysOut
<1>5. BlocksIn(Tokens, N, bb)
  BY <1>4, BlocksAre
<1>6. /\ Len(flat) \in Nat /\ Offset(bb, 1) = 0
      /\ \A k \in 1..N : Offset(bb, k) \in Nat /\ Len(bb[k]) \in Nat
                         /\ Offset(bb, k + 1) = Offset(bb, k) + Len(bb[k])
      /\ \A k \in 1..N : \A m \in 1..Len(bb[k]) : Offset(bb, k) + m \in 1..Len(flat)
  <2>2. Len(flat) \in Nat
    BY <1>5 DEF BlocksIn
  <2>3. \A k \in 1..N : Len(bb[k]) \in Nat
    BY <1>4
  <2> HIDE DEF flat
  <2> QED BY <1>5, <2>2, <2>3 DEF BlocksIn, flat
<1> HIDE DEF flat
<1>7. first = 1..n
  <2>1. DOMAIN tokens = 1..Len(tokens) /\ Len(tokens) \in Nat
    BY <1>4
  <2>2. ASSUME NEW i \in 1..n PROVE i \in first
    BY <1>2, <1>4, <1>6, <2>1, SMTT(40)
  <2>3. ASSUME NEW i \in DOMAIN tokens, i \notin 1..n PROVE tokens[i].seg # 0
    <3> DEFINE x == i - n
    <3>1. x \in 1..Len(flat) /\ i = n + x
      <4>1. Len(tokens) = n + Len(flat)
        BY <1>1 DEF flat
      <4>2. i \in 1..Len(tokens) /\ n \in Nat /\ Len(flat) \in Nat
        BY <1>2, <1>6, <2>1
      <4> HIDE DEF tokens, n
      <4> QED BY <2>3, <4>1, <4>2
    <3> HIDE DEF x
    <3>a. x \in 1..Len(FlattenSeq(bb)) /\ bb \in [1..N -> Seq(Tokens)] /\ N \in Nat
      BY <1>4, <3>1 DEF flat
    <3>2. PICK k \in 1..N : \E m \in 1..Len(bb[k]) : x = Offset(bb, k) + m
      <4>4. Covered(bb, N)
        BY BlocksCover, <3>a
      <4> QED BY <4>4, <3>a DEF Covered
    <3>3. PICK m \in 1..Len(bb[k]) : x = Offset(bb, k) + m
      BY <3>2
    <3>4. i = n + Offset(bb, k) + m
      <4>1. Offset(bb, k) \in Nat /\ m \in Nat /\ n \in Nat
        BY <1>2, <1>6
      <4> HIDE DEF n
      <4> QED BY <3>1, <3>3, <4>1
    <3>6. tokens[i].seg = k
      BY <3>4, <1>4
    <3> QED BY <3>6
  <2>5. \A i \in first : i \in 1..n
    BY <2>3
  <2>6. \A i \in 1..n : i \in first
    BY <2>2
  <2> HIDE DEF first, n
  <2>7. \A i : i \in first <=> i \in 1..n
    BY <2>5, <2>6, Zenon
  <2> QED BY <2>7, Zenon
<1>8. Cardinality(first) = n
  <2>a. n \in Nat
    BY <1>2
  <2> HIDE DEF first, n
  <2> QED BY <1>7, <2>a, FS_Interval
<1> HIDE DEF first, n
<1>9. /\ front \in Seq(Tokens) /\ Len(front) = n
      /\ \A i \in 1..n : front[i] = tokens[i]
  <2> HIDE DEF tokens
  <2>1. n \in 0..Len(tokens)
    BY <1>2, <1>4, <1>6
  <2>2. SubSeq(tokens, 1, n) \in Seq(Tokens) /\ Len(SubSeq(tokens, 1, n)) = n
        /\ \A i \in 1..n : SubSeq(tokens, 1, n)[i] = tokens[i]
    BY <1>2, <1>4, <2>1
  <2> QED BY <1>8, <2>2 DEF tokens
<1> HIDE DEF front
<1> DEFINE start(k) == IF k = 1 THEN Len(front) ELSE enc.decide[k - 1]
<1>10. \A k \in 1..N : start(k) = n + Offset(bb, k)
  <2> TAKE k \in 1..N
  <2>1. CASE k = 1
    BY <1>2, <1>6, <1>9, <2>1
  <2>2. CASE k # 1
    <3> DEFINE h == k - 1
    <3>1. h \in 1..N /\ h + 1 = k
      BY <2>2
    <3>2. start(k) = enc.decide[h]
      BY <2>2
    <3> HIDE DEF h
    <3>4. Offset(bb, k) = Offset(bb, h) + Len(bb[h]) /\ Offset(bb, h) \in Nat /\ Len(bb[h]) \in Nat
      BY <1>6, <3>1
    <3> QED BY <1>2, <3>2, <3>4, <1>1, <3>1
  <2> QED BY <2>1, <2>2
<1> DEFINE row(k) == [ tokens |-> front \o SubSeq(enc.tokens, start(k) + 1, enc.decide[k]),
                       decide |-> Len(front) + enc.decide[k] - start(k),
                       opts |-> [j \in DOMAIN enc.opts[k] |-> Len(front) + enc.opts[k][j] - start(k)] ]
<1>11. DOMAIN enc.decide = 1..N /\ DOMAIN RowsOf(enc) = 1..N /\ \A k \in 1..N : RowsOf(enc)[k] = row(k)
  <2>1. DOMAIN enc.decide = 1..N
    BY <1>1
  <2>2. RowsOf(enc) = [k \in DOMAIN enc.decide |-> row(k)]
    BY <1>3, Zenon
  <2> HIDE DEF row
  <2> QED BY <2>1, <2>2
<1>12. ASSUME NEW k \in 1..N PROVE RowIs(row(k), state, qs[k])
  <2> DEFINE block == bb[k]
             q == qs[k]
             from == n + Offset(bb, k)
             L == Len(block)
             B == Branch(q)
             tail == SubSeq(enc.tokens, start(k) + 1, enc.decide[k])
             kr == KevRow(state, q)
  <2>1. q \in KevQuestions /\ k \in Int /\ k \in Nat \ {0}
    OBVIOUS
  <2>2. BlockIs(block, q, k, n, FALSE)
    BY <1>2, BlockPlaces DEF bb, n
  <2>3. /\ block \in Seq(Tokens) /\ L \in Nat \ {0} /\ L = Len(B)
        /\ \A j \in 1..Len(q.options) : OptEnd(q, j) \in 1..L
    BY <2>2 DEF BlockIs
  <2>4. Laid(block, B, k, n)
    <3>1. block = BranchTokens(q, k, n, FALSE)
      BY DEF bb, BlocksOf, n
    <3>2. n \in Int
      BY <1>2
    <3> HIDE DEF block, q, B
    <3> QED BY <2>1, <3>1, <3>2, BranchLaid DEF B
  <2>5. from \in Nat /\ start(k) = from /\ enc.decide[k] = from + L
    <3>1. Offset(bb, k) \in Nat
      BY <1>6
    <3> QED BY <1>2, <1>10, <3>1, <1>1
  <2>6. \A m \in 1..L : from + m \in 1..Len(tokens) /\ tokens[from + m] = block[m]
    <3> TAKE m \in 1..L
    <3>1. Offset(bb, k) + m \in 1..Len(flat) /\ Offset(bb, k) \in Nat
      BY <1>6
    <3>2. Len(tokens) \in Nat
      BY <1>4
    <3>3. n + Offset(bb, k) + m \in 1..Len(tokens)
      <4>1. n + Len(flat) <= Len(tokens) /\ n \in Nat /\ Len(flat) \in Nat /\ m \in Nat
        BY <1>2, <1>4, <1>6
      <4> HIDE DEF tokens
      <4> QED BY <3>1, <3>2, <4>1
    <3> QED BY <3>3, <1>4
  <2>7. enc.opts[k] = [j \in 1..Len(q.options) |-> from + OptEnd(q, j)]
    BY <1>1
  <2> HIDE DEF block, q, from, L, start
  <2>8. /\ tail \in Seq(Tokens) /\ Len(tail) = L /\ \A m \in 1..L : tail[m] = block[m]
    <3>1. tail = SubSeq(tokens, from + 1, from + L)
      BY <2>5
    <3> HIDE DEF tail, tokens
    <3>2. tokens \in Seq(Tokens) /\ from + L \in 1..Len(tokens) /\ L \in 1..L
      BY <1>4, <2>3, <2>6
    <3>3. SubSeq(tokens, from + 1, from + L) \in Seq(Tokens)
          /\ Len(SubSeq(tokens, from + 1, from + L)) = L
          /\ \A m \in 1..L : SubSeq(tokens, from + 1, from + L)[m] = tokens[from + m]
      <4>2. /\ SubSeq(tokens, from + 1, from + L) \in Seq(Tokens)
            /\ Len(SubSeq(tokens, from + 1, from + L)) = (from + L) - (from + 1) + 1
            /\ \A m \in 1..((from + L) - (from + 1) + 1) :
                  SubSeq(tokens, from + 1, from + L)[m] = tokens[(from + 1) + m - 1]
        BY <3>2, SubSeqProperties, <2>3, <2>5
      <4> QED BY <4>2, <2>3, <2>5
    <3> QED BY <2>6, <3>1, <3>3
  <2> HIDE DEF tail
  <2>9. /\ front \o tail \in Seq(Tokens) /\ Len(front \o tail) = n + L
        /\ \A i \in 1..n : (front \o tail)[i] = tokens[i]
        /\ \A m \in 1..L : (front \o tail)[n + m] = block[m]
    <3>1. front \in Seq(Tokens) /\ Len(front) = n /\ \A i \in 1..n : front[i] = tokens[i]
      BY <1>9
    <3>2. tail \in Seq(Tokens) /\ Len(tail) = L /\ \A m \in 1..L : tail[m] = block[m]
      BY <2>8
    <3>3. /\ front \o tail \in Seq(Tokens) /\ Len(front \o tail) = Len(front) + Len(tail)
          /\ \A i \in 1..Len(front) : (front \o tail)[i] = front[i]
          /\ \A i \in 1..Len(tail) : (front \o tail)[Len(front) + i] = tail[i]
      <4>1. front \in Seq(Tokens)
        BY <3>1
      <4>2. tail \in Seq(Tokens)
        BY <3>2
      <4> QED BY <4>1, <4>2, ConcatIs
    <3> QED BY <3>1, <3>2, <3>3
  <2>10. /\ kr \in Lines /\ Len(kr) = n + L
         /\ \A i \in 1..n : kr[i] = S[i]
         /\ \A m \in 1..L : kr[n + m] = B[m]
    <3>1. B \in Lines /\ S \in Lines
      BY <1>2, <2>1, BranchType
    <3>2. kr = S \o B
      BY DEF KevRow, S
    <3> HIDE DEF B, kr
    <3> QED BY <3>2, <3>1, ConcatIs, <2>3 DEF n, Lines
  <2>11. KevTokens(front \o tail, kr, n)
    <3> DEFINE t == front \o tail
    <3>1. \A i \in 1..n : t[i].id = kr[i] /\ t[i].pos = i - 1 /\ t[i].seg = 0
      BY <1>4, <2>9, <2>10
    <3>2. \A m \in 1..L : t[n + m].id = kr[n + m] /\ t[n + m].pos = (n + m) - 1 /\ t[n + m].seg = k
      <4> TAKE m \in 1..L
      <4>2. m \in 1..Len(B)
        BY <2>3
      <4>3. block[m].id = B[m] /\ block[m].pos = n + m - 1 /\ block[m].seg = k
        BY <2>4, <4>2, Zenon DEF Laid
      <4>4. n + m - 1 = (n + m) - 1
        BY <1>2
      <4> QED BY <4>3, <4>4, <2>9, <2>10
    <3>3. t \in Seq(Tokens) /\ Len(t) = n + L
      BY <2>9
    <3> HIDE DEF t, kr
    <3>4. \A i \in 1..(n + L) : /\ t[i].id = kr[i] /\ t[i].pos = i - 1
                                /\ t[i].seg = IF i <= n THEN 0 ELSE k
      <4> TAKE i \in 1..(n + L)
      <4>1. CASE i <= n
        BY <1>2, <4>1, <3>1
      <4>2. CASE ~ (i <= n)
        <5> DEFINE m == i - n
        <5>1. m \in 1..L /\ n + m = i
          BY <1>2, <2>3, <4>2
        <5> HIDE DEF m
        <5> QED BY <4>2, <3>2, <5>1
      <4> QED BY <4>1, <4>2
    <3>6. \E a \in Nat \ {0} : \A i \in 1..Len(kr) : t[i].seg = IF i <= n THEN 0 ELSE a
      BY <2>1, <2>10, <3>4, Zenon
    <3>8. KevTokens(t, kr, n)
      BY <1>2, <3>3, <3>6, <2>10, <3>4 DEF KevTokens
    <3> QED BY <3>8 DEF t
  <2>12. Len(front) + enc.decide[k] - start(k) = n + L
    BY <1>2, <1>9, <2>3, <2>5
  <2>13. [j \in DOMAIN enc.opts[k] |-> Len(front) + enc.opts[k][j] - start(k)] = KevEnds(state, q)
    <3>2. \A j \in 1..Len(q.options) : Len(front) + enc.opts[k][j] - start(k) = KevEnd(state, q, j)
      <4> TAKE j \in 1..Len(q.options)
      <4>2. SpansBefore(q, j + 1) = Offset(Spans(q), j + 1) /\ Offset(Spans(q), j + 1) \in Nat
            /\ Len(Instructions(q)) \in Nat
        BY <2>1, OptEndIs, InstructionsType
      <4>3. KevEnd(state, q, j) = n + Len(Instructions(q)) + SpansBefore(q, j + 1)
        BY DEF KevEnd, n, S
      <4> QED BY <1>2, <1>9, <2>5, <4>2, <4>3, <2>7 DEF OptEnd
    <3> QED BY <3>2, <2>7 DEF KevEnds
  <2> DEFINE r == row(k)
  <2>14. /\ r.tokens = front \o tail /\ r.decide = Len(front) + enc.decide[k] - start(k)
         /\ r.opts = [j \in DOMAIN enc.opts[k] |-> Len(front) + enc.opts[k][j] - start(k)]
    BY DEF tail
  <2> HIDE DEF r, kr
  <2>15. Len(kr) # 0
    BY <1>2, <2>3, <2>10
  <2> QED BY <2>10, <2>11, <2>12, <2>13, <2>14, <2>15 DEF r, q, RowIs, kr, n, S
<1> HIDE DEF row
<1> QED BY <1>11, <1>12

AllBehind(state, qs, N) == [k \in 1..N |-> Behind(state, qs[k])]

\* Split into rows, each question of a record is read behind its state.
LEMMA RecordInRows ==
    ASSUME NEW state \in Lines, NEW N \in Nat \ {0}, NEW qs \in [1..N -> KevQuestions], NEW enc,
           RecordIs(enc, StateIds(state), qs, N, FALSE)
    PROVE  ForwardRows(<<enc>>)[1] = AllBehind(state, qs, N)
<1> DEFINE encs == <<enc>>
           rows == RowsOf(enc)
           x == [k \in 1..N |-> [of |-> 1, row |-> rows[k]]]
           split == [a \in DOMAIN encs |-> RowsOf(encs[a])]
           nested == [a \in DOMAIN encs |->
                        [k \in DOMAIN split[a] |-> [of |-> a, row |-> split[a][k]]]]
           flat == FlattenSeq(nested)
           padded == PadRows([n \in DOMAIN flat |-> flat[n].row.tokens])
           out == [n \in DOMAIN flat |->
                    LET row == flat[n].row
                        sees == [i \in DOMAIN padded[n] |->
                                    {j \in 1..(i - 1) : padded[n][j].seg # -1}]
                    IN  [of |-> flat[n].of,
                         read |-> Readout(padded[n], row.decide, row.opts, sees)]]
<1>1. ForwardRows(encs) = HandBack(out, DOMAIN encs)
  BY Zenon DEF ForwardRows
<1>2. DOMAIN encs = 1..1 /\ encs[1] = enc
  OBVIOUS
<1>3. DOMAIN rows = 1..N /\ \A k \in 1..N : RowIs(rows[k], state, qs[k])
  BY RowsOfRecord
<1> HIDE DEF encs, rows
<1>5. nested = [a \in 1..1 |-> x]
  <2>1. \A a \in 1..1 : [k \in DOMAIN split[a] |-> [of |-> a, row |-> split[a][k]]] = x
    <3> TAKE a \in 1..1
    <3>1. a = 1
      OBVIOUS
    <3>2. split[a] = rows
      BY <1>2 DEF rows
    <3> HIDE DEF split
    <3> QED BY <1>3, <3>1, <3>2
  <2> HIDE DEF split, x
  <2> QED BY <1>2, <2>1, Zenon
<1>6. flat = x
  <2> DEFINE S == {x[k] : k \in 1..N}
             ss == [a \in 1..1 |-> x]
  <2>1. x \in [1..N -> S]
    OBVIOUS
  <2>a. N \in Nat
    OBVIOUS
  <2> HIDE DEF x, S, nested
  <2>2. x \in Seq(S)
    BY <2>1, <2>a
  <2>3. ss \in [1..1 -> Seq(S)] /\ ss[1] = x
    BY <2>2
  <2> HIDE DEF ss
  <2>5. nested = ss
    BY <1>5 DEF ss
  <2> QED BY <2>3, <2>5, FlattenOne
<1> HIDE DEF nested, flat
<1> DEFINE tt == [n \in 1..N |-> rows[n].tokens]
<1>8. tt \in [1..N -> Seq(Tokens)]
  BY <1>3 DEF RowIs, KevTokens
<1>9. \A n \in 1..N : \E p \in Seq(Tokens) : padded[n] = rows[n].tokens \o p
  <2>1. padded = PadRows(tt) /\ \A n \in 1..N : tt[n] = rows[n].tokens
    BY <1>6
  <2> HIDE DEF tt, padded
  <2>2. \A n \in 1..N : \E p \in Seq(Tokens) : PadRows(tt)[n] = tt[n] \o p
    BY <1>8, Padding DEF PadIs
  <2> QED BY <2>1, <2>2
<1> HIDE DEF padded
<1> DEFINE sees(n) == [i \in DOMAIN padded[n] |-> {j \in 1..(i - 1) : padded[n][j].seg # -1}]
           reads == [n \in 1..N |-> Behind(state, qs[n])]
<1>10. ASSUME NEW n \in 1..N
       PROVE  Readout(padded[n], rows[n].decide, rows[n].opts, sees(n)) = Behind(state, qs[n])
  <2> DEFINE t == rows[n].tokens
             r == KevRow(state, qs[n])
             m == Len(StateIds(state))
             o == rows[n].opts
             sn == sees(n)
  <2>1. PICK p \in Seq(Tokens) : padded[n] = t \o p
    BY <1>9
  <2>2. KevTokens(t, r, m) /\ rows[n].decide = Len(r) /\ Len(r) # 0 /\ o = KevEnds(state, qs[n])
    BY <1>3, Zenon DEF RowIs
  <2>3. \A j \in DOMAIN o : o[j] \in 1..Len(r)
    <3>2. \A j \in 1..Len(qs[n].options) : KevEnd(state, qs[n], j) \in 1..Len(r)
      BY KevEndIs DEF r
    <3> HIDE DEF r, o
    <3> QED BY <2>2, <3>2 DEF KevEnds
  <2> HIDE DEF t, r, m
  <2>4. \A i \in 1..Len(r) : /\ i \in DOMAIN (t \o p)
                             /\ {j \in 1..(i - 1) : (t \o p)[j].seg # -1} = 1..(i - 1)
    BY <2>2, RowSees
  <2>5. \A i \in 1..Len(r) : sn[i] = 1..(i - 1)
    BY <2>1, <2>4, Zenon
  <2> HIDE DEF sn, o
  <2>a. KevTokens(t, r, m) /\ Len(r) # 0
    BY <2>2
  <2>6. Readout(t \o p, Len(r), o, sn) = KevReading(r, o)
    BY <2>a, <2>3, <2>5, CausalReadout
  <2>7. Behind(state, qs[n]) = KevReading(r, o)
    BY <2>2, Zenon DEF Behind, r
  <2> QED BY <2>1, <2>2, <2>6, <2>7 DEF t, o, sn
<1> HIDE DEF sees
<1>11. out = [n \in 1..N |-> [of |-> 1, read |-> reads[n]]]
  <2>2. DOMAIN flat = 1..N
    BY <1>6
  <2>3. out = [n \in 1..N |-> [of |-> flat[n].of,
                  read |-> Readout(padded[n], flat[n].row.decide, flat[n].row.opts, sees(n))]]
    BY <2>2, Zenon DEF sees
  <2>4. \A n \in 1..N : [of |-> flat[n].of,
                  read |-> Readout(padded[n], flat[n].row.decide, flat[n].row.opts, sees(n))]
                = [of |-> 1, read |-> reads[n]]
    BY <1>10, <1>6
  <2> HIDE DEF out, reads
  <2> QED BY <2>3, <2>4
<1> HIDE DEF out
<1>12. HandBack(out, 1..1)[1] = ReadsOf(reads, N)
  <2>1. N \in Nat
    OBVIOUS
  <2> HIDE DEF reads
  <2>2. OfOneRecord(out, reads, N)
    BY <1>11, Zenon DEF OfOneRecord
  <2> QED BY <2>1, <2>2, HandBackAll
<1> QED BY <1>1, <1>2, <1>12 DEF encs, AllBehind, ReadsOf

\* Packed or in rows, the questions of one record are read alike, each as behind its state.
LEMMA RecordRead ==
    ASSUME NEW state \in Lines, NEW N \in Nat \ {0}, NEW qs \in [1..N -> KevQuestions]
    PROVE  LET enc == Encode([state |-> state, questions |-> qs], FALSE)
               alone == AllBehind(state, qs, N)
           IN  ForwardRows(<<enc>>)[1] = alone /\ ForwardPacked(<<enc>>, FALSE)[1] = alone
<1> DEFINE enc == Encode([state |-> state, questions |-> qs], FALSE)
           alone == AllBehind(state, qs, N)
           S == StateIds(state)
<1>0. FALSE \in BOOLEAN
  OBVIOUS
<1>1. RecordIs(enc, S, qs, N, FALSE)
  BY <1>0, EncodedRecord, Zenon
<1>2. ForwardPacked(<<enc>>, FALSE)[1] = RecordReading(S, qs, N, FALSE)
  BY <1>0, RecordPacked, Zenon
<1> HIDE DEF enc
<1>3. ForwardRows(<<enc>>)[1] = alone
  BY <1>1, RecordInRows, Zenon
<1>4. RecordReading(S, qs, N, FALSE) = alone
  BY PlainReading DEF RecordReading, AllBehind
<1> QED BY <1>2, <1>3, <1>4 DEF enc

\* With isolated options: what a branch shows of its instructions, of an option, of all.
Instructed(q, p0) == {<<Instructions(q)[x], p0 + x - 1>> : x \in 1..Len(Instructions(q))}
SpanView(q, j, p0) ==
    {<<Spans(q)[j][y], p0 + Len(Instructions(q)) + y - 1>> : y \in 1..Len(Spans(q)[j])}
SpanViews(q, p0) == {SpanView(q, j, p0) : j \in 1..Len(q.options)}
Deciding(q, p0) == <<"<decide>", p0 + Len(Instructions(q)) + LongestSpan(q)>>

Pair(T, y) == <<T[y].id, T[y].pos>>
SpanPlace(q, j, y) == Len(Instructions(q)) + Offset(Spans(q), j) + y

\* The tokens of such a branch: what they show, and of which option they are.
Isolates(T, q, p0) ==
    LET n == Len(Instructions(q))
    IN  /\ Len(T) \in Nat /\ n \in Nat /\ n < Len(T)
        /\ \A x \in 1..n : Pair(T, x) = <<Instructions(q)[x], p0 + x - 1>> /\ T[x].opt = -1
        /\ \A j \in 1..Len(q.options) : \A y \in 1..Len(Spans(q)[j]) :
              /\ SpanPlace(q, j, y) \in (n + 1)..(Len(T) - 1)
              /\ Pair(T, SpanPlace(q, j, y)) = <<Spans(q)[j][y], p0 + n + y - 1>>
              /\ T[SpanPlace(q, j, y)].opt = j
        /\ Pair(T, Len(T)) = Deciding(q, p0) /\ T[Len(T)].opt = -2
        /\ \A m \in 1..Len(T) :
              \/ m \in 1..n
              \/ \E j \in 1..Len(q.options) : \E y \in 1..Len(Spans(q)[j]) : m = SpanPlace(q, j, y)
              \/ m = Len(T)

\* Such is the branch that encode makes with isolated options.
LEMMA IsolatesIs ==
    ASSUME NEW q \in KevQuestions, NEW k, NEW p0 \in Nat, NEW T, PlaceByPlace(T, q, k, p0, TRUE)
    PROVE  Isolates(T, q, p0)
<1> DEFINE n == Len(Instructions(q))
           K == Len(q.options)
           ss == Spans(q)
<1>0. TRUE \in BOOLEAN
  OBVIOUS
<1>1. \A id, pos, opt : /\ Token(id, k, pos, opt).id = id /\ Token(id, k, pos, opt).pos = pos
                        /\ Token(id, k, pos, opt).opt = opt
  BY DEF Token
<1>2. K \in Nat /\ ss \in [1..K -> Seq(Strings)]
  BY SpansType DEF Lines
<1> HIDE DEF K, ss
<1>4. /\ \A j \in 1..K : Offset(ss, j) \in Nat
      /\ \A j \in 1..K : \A y \in 1..Len(ss[j]) : Offset(ss, j) + y \in 1..Len(FlattenSeq(ss))
      /\ Offset(ss, K + 1) = Len(FlattenSeq(ss)) /\ FlattenSeq(ss) \in Seq(Strings)
  BY <1>2, BlocksAre DEF BlocksIn
<1>5. /\ Len(T) = n + Offset(ss, K + 1) + 1 /\ n \in Nat
      /\ \A x \in 1..n : T[x] = Token(Instructions(q)[x], k, p0 + x - 1, OPT_NONE)
      /\ \A j \in 1..K : \A y \in 1..Len(ss[j]) :
            T[n + Offset(ss, j) + y] = Token(ss[j][y], k, p0 + n + 0 + y - 1, j)
      /\ T[Len(T)] = Token("<decide>", k, p0 + n + LongestSpan(q), OPT_DECIDE)
  BY DEF PlaceByPlace, K, ss
<1>6. Len(FlattenSeq(ss)) \in Nat
  BY <1>4
<1> HIDE DEF n
<1>7. Len(T) \in Nat /\ n < Len(T)
  BY <1>4, <1>5, <1>6
<1>8. \A x \in 1..n : Pair(T, x) = <<Instructions(q)[x], p0 + x - 1>> /\ T[x].opt = -1
  BY <1>1, <1>5 DEF Pair, OPT_NONE
<1>9. ASSUME NEW j \in 1..K, NEW y \in 1..Len(ss[j])
      PROVE  /\ SpanPlace(q, j, y) \in (n + 1)..(Len(T) - 1)
             /\ Pair(T, SpanPlace(q, j, y)) = <<ss[j][y], p0 + n + y - 1>>
             /\ T[SpanPlace(q, j, y)].opt = j
  <2>1. SpanPlace(q, j, y) = n + Offset(ss, j) + y
    BY DEF SpanPlace, n, ss
  <2>2. n + Offset(ss, j) + y \in (n + 1)..(Len(T) - 1)
    <3>2. Len(T) = n + Len(FlattenSeq(ss)) + 1 /\ n \in Nat /\ y \in Nat
      BY <1>4, <1>5, <1>9
    <3> QED BY <1>6, <3>2, <1>4
  <2>3. T[n + Offset(ss, j) + y] = Token(ss[j][y], k, p0 + n + 0 + y - 1, j)
    BY <1>5
  <2>4. p0 + n + 0 + y - 1 = p0 + n + y - 1
    BY <1>5, <1>9
  <2>5. /\ T[n + Offset(ss, j) + y].id = ss[j][y] /\ T[n + Offset(ss, j) + y].opt = j
        /\ T[n + Offset(ss, j) + y].pos = p0 + n + y - 1
    <3> DEFINE id == ss[j][y]
               pos == p0 + n + y - 1
    <3> QED BY <1>1, <2>3, <2>4
  <2> QED BY <2>1, <2>2, <2>5 DEF Pair
<1>10. Pair(T, Len(T)) = Deciding(q, p0) /\ T[Len(T)].opt = -2
  BY <1>1, <1>5 DEF Pair, Deciding, OPT_DECIDE, n
<1>11. \A m \in 1..Len(T) :
          \/ m \in 1..n
          \/ \E j \in 1..K : \E y \in 1..Len(ss[j]) : m = SpanPlace(q, j, y)
          \/ m = Len(T)
  BY <1>0, PlacesAre, Zenon DEF SpanPlace, K, ss, n
<1> QED BY <1>5, <1>7, <1>8, <1>9, <1>10, <1>11 DEF Isolates, n, K, ss

OptionsSeen(S, q, p0, T) ==
    \A j \in 1..Len(q.options) :
        BlockSeen(S, T, OptEnd(q, j), TRUE)
        = FirstOf(S, Len(S)) \cup (Instructed(q, p0) \cup SpanView(q, j, p0))

\* The end of an option shows the state, the instructions and that option alone.
LEMMA OptionSeen ==
    ASSUME NEW S, NEW q \in KevQuestions, NEW p0 \in Nat, NEW T, Isolates(T, q, p0)
    PROVE  OptionsSeen(S, q, p0, T)
<1> SUFFICES ASSUME NEW j \in 1..Len(q.options)
             PROVE  BlockSeen(S, T, OptEnd(q, j), TRUE)
                    = FirstOf(S, Len(S)) \cup (Instructed(q, p0) \cup SpanView(q, j, p0))
  BY DEF OptionsSeen
<1> DEFINE n == Len(Instructions(q))
           L == Len(Spans(q)[j])
           m == OptEnd(q, j)
           own == OwnPlaces(T, m, TRUE)
           shown == {<<T[y].id, T[y].pos>> : y \in own}
<1>2. L \in Nat \ {0}
  BY SpansType, SpanType DEF KevQuestions
<1>3. Offset(Spans(q), j) \in Nat /\ Offset(Spans(q), j + 1) = Offset(Spans(q), j) + L
  <2>1. BlocksIn(Strings, Len(q.options), Spans(q))
    BY BlocksAre, SpansType DEF Lines
  <2> QED BY <2>1 DEF BlocksIn
<1>4. m = SpanPlace(q, j, L) /\ L \in 1..L
  BY <1>2, <1>3, InstructionsType DEF OptEnd, SpanPlace
<1> HIDE DEF L, m
<1>5. /\ Len(T) \in Nat /\ n \in Nat /\ n < Len(T)
      /\ \A x \in 1..n : Pair(T, x) = <<Instructions(q)[x], p0 + x - 1>> /\ T[x].opt = -1
      /\ T[Len(T)].opt = -2
  BY Zenon DEF Isolates
<1>6. \A a \in 1..Len(q.options) : \A y \in 1..Len(Spans(q)[a]) :
              /\ SpanPlace(q, a, y) \in (n + 1)..(Len(T) - 1)
              /\ Pair(T, SpanPlace(q, a, y)) = <<Spans(q)[a][y], p0 + n + y - 1>>
              /\ T[SpanPlace(q, a, y)].opt = a
  BY Zenon DEF Isolates
<1>7. m \in (n + 1)..(Len(T) - 1) /\ T[m].opt = j
  BY <1>4, <1>6 DEF L
<1>8. own = {y \in 1..m : y # m => T[y].opt < 0 \/ T[m].opt = -2 \/ T[y].opt = T[m].opt}
  BY DEF OwnPlaces, OPT_DECIDE
<1> HIDE DEF own, n
<1>9. shown = {Pair(T, y) : y \in own}
  BY DEF Pair
<1> HIDE DEF shown
<1>10. \A x \in 1..n : x \in own
  BY <1>5, <1>7, <1>8
<1>11. \A y \in 1..L : SpanPlace(q, j, y) \in own
  <2> TAKE y \in 1..L
  <2>1. T[SpanPlace(q, j, y)].opt = j /\ SpanPlace(q, j, y) \in (n + 1)..(Len(T) - 1)
    BY <1>6 DEF L
  <2>2. SpanPlace(q, j, y) <= m
    BY <1>2, <1>3, <1>4, InstructionsType DEF SpanPlace
  <2> QED BY <1>7, <1>8, <2>1, <1>5, <2>2
<1>12. ASSUME NEW y \in own
       PROVE  Pair(T, y) \in Instructed(q, p0) \cup SpanView(q, j, p0)
  <2>1. y \in 1..m /\ y \in 1..Len(T) /\ y # Len(T)
    BY <1>5, <1>7, <1>8
  <2>2. \/ y \in 1..n
        \/ \E a \in 1..Len(q.options) : \E z \in 1..Len(Spans(q)[a]) : y = SpanPlace(q, a, z)
    BY <2>1, Zenon DEF Isolates, n
  <2>3. CASE y \in 1..n
    BY <1>5, <2>3 DEF Instructed, n
  <2>4. CASE \E a \in 1..Len(q.options) : \E z \in 1..Len(Spans(q)[a]) : y = SpanPlace(q, a, z)
    <3>1. PICK a \in 1..Len(q.options) : \E z \in 1..Len(Spans(q)[a]) : y = SpanPlace(q, a, z)
      BY <2>4
    <3>2. PICK z \in 1..Len(Spans(q)[a]) : y = SpanPlace(q, a, z)
      BY <3>1
    <3>3. T[y].opt = a /\ Pair(T, y) = <<Spans(q)[a][z], p0 + n + z - 1>>
      BY <1>6, <3>2
    <3>4. a = j
      BY <1>8, <1>7, <3>3
    <3> QED BY <3>3, <3>4, <3>2 DEF SpanView, n
  <2> QED BY <2>2, <2>3, <2>4
<1>13. ASSUME NEW w \in Instructed(q, p0) PROVE w \in shown
  BY <1>5, <1>10, <1>9 DEF Instructed, n
<1>14. ASSUME NEW w \in SpanView(q, j, p0) PROVE w \in shown
  BY <1>6, <1>11, <1>9 DEF SpanView, n, L
<1> QED BY <1>9, <1>12, <1>13, <1>14 DEF m, BlockSeen, shown, own

\* <decide> shows the state and the whole branch, the options one over the other.
LEMMA DecideSeen ==
    ASSUME NEW S, NEW q \in KevQuestions, NEW p0 \in Nat, NEW T, Isolates(T, q, p0)
    PROVE  BlockSeen(S, T, Len(T), TRUE)
           = FirstOf(S, Len(S)) \cup (Instructed(q, p0) \cup (UNION SpanViews(q, p0)) \cup {Deciding(q, p0)})
<1> DEFINE n == Len(Instructions(q))
           m == Len(T)
           own == OwnPlaces(T, m, TRUE)
           shown == {<<T[y].id, T[y].pos>> : y \in own}
           all == Instructed(q, p0) \cup (UNION SpanViews(q, p0)) \cup {Deciding(q, p0)}
<1>1. /\ m \in Nat /\ n \in Nat /\ n < m
      /\ \A x \in 1..n : Pair(T, x) = <<Instructions(q)[x], p0 + x - 1>>
      /\ T[m].opt = -2 /\ Pair(T, m) = Deciding(q, p0)
  BY Zenon DEF Isolates
<1>2. \A a \in 1..Len(q.options) : \A y \in 1..Len(Spans(q)[a]) :
              /\ SpanPlace(q, a, y) \in (n + 1)..(m - 1)
              /\ Pair(T, SpanPlace(q, a, y)) = <<Spans(q)[a][y], p0 + n + y - 1>>
  BY Zenon DEF Isolates
<1>3. \A y \in 1..m :
              \/ y \in 1..n
              \/ \E a \in 1..Len(q.options) : \E z \in 1..Len(Spans(q)[a]) : y = SpanPlace(q, a, z)
              \/ y = m
  BY Zenon DEF Isolates
<1> HIDE DEF m
<1>4. own = 1..m
  BY <1>1 DEF OwnPlaces, OPT_DECIDE
<1> HIDE DEF own, n
<1>5. shown = {Pair(T, y) : y \in 1..m}
  BY <1>4 DEF Pair
<1> HIDE DEF shown
<1>6. ASSUME NEW y \in 1..m PROVE Pair(T, y) \in all
  <2>1. CASE y \in 1..n
    BY <1>1, <2>1 DEF Instructed, n
  <2>2. CASE \E a \in 1..Len(q.options) : \E z \in 1..Len(Spans(q)[a]) : y = SpanPlace(q, a, z)
    <3>1. PICK a \in 1..Len(q.options) : \E z \in 1..Len(Spans(q)[a]) : y = SpanPlace(q, a, z)
      BY <2>2
    <3>2. PICK z \in 1..Len(Spans(q)[a]) : y = SpanPlace(q, a, z)
      BY <3>1
    <3>3. Pair(T, y) \in SpanView(q, a, p0)
      BY <1>2, <3>2 DEF SpanView, n
    <3>4. SpanView(q, a, p0) \in SpanViews(q, p0)
      BY DEF SpanViews
    <3>5. Pair(T, y) \in UNION SpanViews(q, p0)
      BY <3>3, <3>4, Zenon
    <3> QED BY <3>5
  <2>3. CASE y = m
    <3>1. Pair(T, y) = Deciding(q, p0)
      BY <1>1, <2>3
    <3>2. Deciding(q, p0) \in {Deciding(q, p0)}
      OBVIOUS
    <3>3. Deciding(q, p0) \in all
      BY <3>2, Zenon
    <3> HIDE DEF all
    <3> QED BY <3>1, <3>3
  <2> QED BY <1>3, <2>1, <2>2, <2>3
<1>7. ASSUME NEW w \in Instructed(q, p0) PROVE w \in shown
  BY <1>1, <1>5 DEF Instructed, n
<1>8. ASSUME NEW w \in UNION SpanViews(q, p0) PROVE w \in shown
  <2>1. PICK a \in 1..Len(q.options) : w \in SpanView(q, a, p0)
    BY DEF SpanViews
  <2>2. PICK y \in 1..Len(Spans(q)[a]) : w = <<Spans(q)[a][y], p0 + n + y - 1>>
    BY <2>1 DEF SpanView, n
  <2> QED BY <1>5, <1>1, <1>2, <2>2
<1>9. Deciding(q, p0) \in shown
  BY <1>1, <1>5
<1> HIDE DEF all
<1>10. shown = all
  <2>1. \A w \in shown : w \in all
    BY <1>5, <1>6
  <2>2. \A w \in all : w \in shown
    <3> DEFINE A == Instructed(q, p0)
               B == UNION SpanViews(q, p0)
               d == Deciding(q, p0)
    <3>1. (\A w \in A : w \in shown) /\ (\A w \in B : w \in shown) /\ d \in shown
      BY <1>7, <1>8, <1>9
    <3>2. all = A \cup B \cup {d}
      BY DEF all
    <3> HIDE DEF A, B, d
    <3> QED BY <3>1, <3>2
  <2> QED BY <2>1, <2>2
<1> QED BY <1>10 DEF m, all, BlockSeen, shown, own

Turned(q) == [q EXCEPT !.options = Reverse(@)]

TurnsInto(q, t) ==
    LET K == Len(q.options)
    IN  /\ t \in KevQuestions /\ Len(t.options) = K /\ K \in Nat
        /\ Instructions(t) = Instructions(q)
        /\ DOMAIN q.options = 1..K /\ DOMAIN t.options = 1..K
        /\ \A j \in 1..K : Spans(t)[j] = Spans(q)[K - j + 1] /\ Spans(q)[j] = Spans(t)[K - j + 1]

\* A question with its options in the opposite order: the same spans, in that order.
LEMMA TurnedIs ==
    ASSUME NEW q \in KevQuestions
    PROVE  TurnsInto(q, Turned(q))
<1> DEFINE K == Len(q.options)
           o == q.options
           t == Turned(q)
           r == Reverse(o)
<1>1. K \in Nat /\ DOMAIN o = 1..K /\ o \in Seq(Lines)
  BY SpansType DEF KevQuestions
<1>2. r = [i \in 1..K |-> o[(K - i) + 1]]
  BY Zenon DEF Reverse
<1>3. \A i \in 1..K : o[i] \in Lines
  <2> HIDE DEF o
  <2> QED BY <1>1
<1>4. \A i \in 1..K : (K - i) + 1 \in 1..K
  <2> HIDE DEF K
  <2> QED BY <1>1
<1>5. \A i \in 1..K : r[i] = o[(K - i) + 1] /\ r[i] \in Lines
  BY <1>2, <1>3, <1>4
<1>6. r \in Seq(Lines) /\ Len(r) = K /\ DOMAIN r = 1..K
  <2>1. r \in [1..K -> Lines]
    BY <1>2, <1>5
  <2> HIDE DEF r, K
  <2> QED BY <1>1, <2>1
<1>7. t.options = r /\ t.instr = q.instr /\ t \in KevQuestions
  <2> HIDE DEF r
  <2> QED BY <1>6 DEF KevQuestions, Turned, r
<1>8. Instructions(t) = Instructions(q)
  BY <1>7 DEF Instructions
<1>9. \A i \in 1..K : Spans(q)[i] = Span(o[i]) /\ Spans(t)[i] = Span(r[i])
  <2> HIDE DEF t
  <2> QED BY <1>6, <1>7, SpansType
<1> HIDE DEF t, r, o, K
<1>10. \A j \in 1..K : K - j + 1 \in 1..K /\ (K - (K - j + 1)) + 1 = j
  BY <1>1
<1>11. \A j \in 1..K : Spans(t)[j] = Spans(q)[K - j + 1] /\ Spans(q)[j] = Spans(t)[K - j + 1]
  <2> TAKE j \in 1..K
  <2>1. Spans(t)[j] = Span(o[(K - j) + 1])
    BY <1>5, <1>9
  <2>2. Spans(q)[K - j + 1] = Span(o[(K - j) + 1])
    BY <1>9, <1>10
  <2> DEFINE h == K - j + 1
  <2>3. h \in 1..K /\ (K - h) + 1 = j
    BY <1>10
  <2> HIDE DEF h
  <2> QED BY <2>1, <2>2, <1>5, <1>9, <2>3 DEF h
<1> QED BY <1>1, <1>6, <1>7, <1>8, <1>11 DEF TurnsInto, t, K, o

\* Turned, a question shows the same of everything, and of an option what it
\* showed of the one that stood there.
LEMMA TurnedViews ==
    ASSUME NEW q, NEW t, TurnsInto(q, t), NEW p0
    PROVE  /\ LongestSpan(t) = LongestSpan(q)
           /\ Instructed(t, p0) = Instructed(q, p0)
           /\ SpanViews(t, p0) = SpanViews(q, p0)
           /\ Deciding(t, p0) = Deciding(q, p0)
           /\ \A j \in 1..Len(q.options) : SpanView(t, j, p0) = SpanView(q, Len(q.options) - j + 1, p0)
<1> DEFINE K == Len(q.options)
<1>1. /\ Len(t.options) = K /\ K \in Nat /\ DOMAIN q.options = 1..K /\ DOMAIN t.options = 1..K
      /\ Instructions(t) = Instructions(q)
      /\ \A j \in 1..K : Spans(t)[j] = Spans(q)[K - j + 1] /\ Spans(q)[j] = Spans(t)[K - j + 1]
  BY DEF TurnsInto
<1> HIDE DEF K
<1>2. \A j \in 1..K : K - j + 1 \in 1..K
  BY <1>1
<1>3. LongestSpan(t) = LongestSpan(q)
  <2> DEFINE A == {Len(Spans(t)[j]) : j \in DOMAIN t.options}
             B == {Len(Spans(q)[j]) : j \in DOMAIN q.options}
  <2>1. \A j \in 1..K : Len(Spans(t)[j]) = Len(Spans(q)[K - j + 1])
                        /\ Len(Spans(q)[j]) = Len(Spans(t)[K - j + 1])
    BY <1>1
  <2>2. A = B
    BY SMTT(40), <1>1, <1>2, <2>1
  <2> HIDE DEF A, B
  <2> QED BY <2>2 DEF A, B, LongestSpan
<1>4. Instructed(t, p0) = Instructed(q, p0)
  BY <1>1, Zenon DEF Instructed
<1>5. Deciding(t, p0) = Deciding(q, p0)
  BY <1>1, <1>3, Zenon DEF Deciding
<1>6. \A i, j : Spans(t)[i] = Spans(q)[j] => SpanView(t, i, p0) = SpanView(q, j, p0)
  BY <1>1, Zenon DEF SpanView
<1> QED BY <1>3, <1>4, <1>5, <1>1, <1>2, <1>6 DEF K, SpanViews

\* What a question is read of when its options are isolated.
Apart(S, q) ==
    LET p0 == Len(S)
    IN  [j \in 1..Len(q.options) |->
            [ decide |-> FirstOf(S, p0) \cup (Instructed(q, p0) \cup (UNION SpanViews(q, p0)) \cup {Deciding(q, p0)}),
              option |-> FirstOf(S, p0) \cup (Instructed(q, p0) \cup SpanView(q, j, p0)) ]]

\* It is so read of the block that encode makes of it.
LEMMA IsolatedReading ==
    ASSUME NEW S \in Lines, NEW N \in Nat \ {0}, NEW qs \in [1..N -> KevQuestions], NEW k \in 1..N
    PROVE  BlockReading(S, qs[k], BlocksOf(S, qs, N, TRUE)[k], TRUE) = Apart(S, qs[k])
<1> DEFINE q == qs[k]
           block == BlocksOf(S, qs, N, TRUE)[k]
           p0 == Len(S)
<1>1. q \in KevQuestions /\ p0 \in Nat /\ TRUE \in BOOLEAN
  BY DEF Lines
<1>2. BlockIs(block, q, k, p0, TRUE)
  BY <1>1, BlockPlaces, Zenon
<1> HIDE DEF q, block, p0
<1>3. PlaceByPlace(block, q, k, p0, TRUE)
  BY <1>2, Zenon DEF BlockIs
<1>4. Isolates(block, q, p0)
  BY <1>1, <1>3, IsolatesIs
<1>5. BlockSeen(S, block, Len(block), TRUE)
      = FirstOf(S, p0) \cup (Instructed(q, p0) \cup (UNION SpanViews(q, p0)) \cup {Deciding(q, p0)})
  BY <1>1, <1>4, DecideSeen, Zenon DEF p0
<1>6. \A j \in 1..Len(q.options) :
        BlockSeen(S, block, OptEnd(q, j), TRUE) = FirstOf(S, p0) \cup (Instructed(q, p0) \cup SpanView(q, j, p0))
  <2>1. OptionsSeen(S, q, p0, block)
    BY <1>1, <1>4, OptionSeen
  <2> QED BY <2>1, Zenon DEF OptionsSeen, p0
<1> QED BY <1>5, <1>6, Zenon DEF BlockReading, Apart, q, block, p0

\* With isolated options their order does not matter.
LEMMA ApartTurned ==
    ASSUME NEW S, NEW q \in KevQuestions
    PROVE  Apart(S, Turned(q)) = Reverse(Apart(S, q))
<1> DEFINE K == Len(q.options)
           t == Turned(q)
           p0 == Len(S)
           all == FirstOf(S, p0) \cup (Instructed(q, p0) \cup (UNION SpanViews(q, p0)) \cup {Deciding(q, p0)})
           one(j) == FirstOf(S, p0) \cup (Instructed(q, p0) \cup SpanView(q, j, p0))
           a == Apart(S, q)
<1>1. TurnsInto(q, t)
  BY TurnedIs
<1>2. Len(t.options) = K /\ K \in Nat
  BY <1>1 DEF TurnsInto
<1> HIDE DEF t, p0
<1>3. /\ Instructed(t, p0) = Instructed(q, p0) /\ SpanViews(t, p0) = SpanViews(q, p0)
      /\ Deciding(t, p0) = Deciding(q, p0)
      /\ \A j \in 1..K : SpanView(t, j, p0) = SpanView(q, K - j + 1, p0)
  BY <1>1, TurnedViews
<1>4. a = [j \in 1..K |-> [decide |-> all, option |-> one(j)]]
  BY Zenon DEF Apart, p0
<1>5. Apart(S, t) = [j \in 1..K |-> [decide |-> all, option |-> one(K - j + 1)]]
  BY <1>2, <1>3 DEF Apart, p0
<1> HIDE DEF K, a, all, one
<1>6. Len(a) = K
  <2> DEFINE V == {a[j] : j \in 1..K}
  <2>1. a \in [1..K -> V]
    BY <1>4
  <2> HIDE DEF V
  <2> QED BY <1>2, <2>1
<1>7. Reverse(a) = [i \in 1..K |-> a[(K - i) + 1]]
  BY <1>6, Zenon DEF Reverse
<1>8. \A j \in 1..K : a[(K - j) + 1] = [decide |-> all, option |-> one(K - j + 1)]
  BY <1>2, <1>4
<1> QED BY <1>5, <1>7, <1>8, Zenon DEF t, a

AloneRead(ones, state, qs, N) ==
    \A i \in 1..N : ForwardPacked(ones, FALSE)[i][1] = Behind(state, qs[i])

\* A batch of one record per question reads each question behind the state.
LEMMA OnesRead ==
    ASSUME NEW state \in Lines, NEW N \in Nat \ {0}, NEW qs \in [1..N -> KevQuestions], NEW ones,
           ones = [i \in 1..N |-> Encode([state |-> state, questions |-> <<qs[i]>>], FALSE)]
    PROVE  AloneRead(ones, state, qs, N)
<1> DEFINE rr == [b \in 1..N |-> KevRow(state, qs[b])]
           nn == [b \in 1..N |-> Len(StateIds(state))]
           ee == [b \in 1..N |-> KevEnds(state, qs[b])]
<1>1. \A b \in 1..N : rr[b] = KevRow(state, qs[b]) /\ nn[b] = Len(StateIds(state))
                      /\ ee[b] = KevEnds(state, qs[b])
  OBVIOUS
<1> HIDE DEF rr, nn, ee
<1>3. EncodesAll(ones, N, rr, nn, ee)
  BY OneEncodes, <1>1 DEF EncodesAll
<1>4. AllRead(ForwardPacked(ones, FALSE), N, rr, ee)
  BY <1>3, PackedReads
<1>5. \A b \in 1..N : ForwardPacked(ones, FALSE)[b][1] = Behind(state, qs[b])
  BY <1>1, <1>4, Zenon DEF AllRead, Behind
<1> QED BY <1>5, Zenon DEF AloneRead

ReadApart(state, qs, N) == [i \in 1..N |-> Apart(StateIds(state), qs[i])]

\* With isolated options a record is read question by question.
LEMMA RecordApart ==
    ASSUME NEW state \in Lines, NEW N \in Nat \ {0}, NEW qs \in [1..N -> KevQuestions]
    PROVE  ForwardPacked(<<Encode([state |-> state, questions |-> qs], TRUE)>>, TRUE)[1]
           = ReadApart(state, qs, N)
<1> DEFINE S == StateIds(state)
<1>1. TRUE \in BOOLEAN /\ S \in Lines
  BY StateIdsType
<1>2. ForwardPacked(<<Encode([state |-> state, questions |-> qs], TRUE)>>, TRUE)[1]
      = RecordReading(S, qs, N, TRUE)
  BY <1>1, RecordPacked, Zenon
<1>3. \A i \in 1..N : BlockReading(S, qs[i], BlocksOf(S, qs, N, TRUE)[i], TRUE) = Apart(S, qs[i])
  <2> HIDE DEF S
  <2> QED BY <1>1, IsolatedReading
<1>4. RecordReading(S, qs, N, TRUE) = ReadApart(state, qs, N)
  BY <1>3, Zenon DEF RecordReading, ReadApart
<1> QED BY <1>2, <1>4

\* All forms of the forward pass read the questions of one state alike.
LEMMA FormsIs == IInv => FormsAgree
<1> SUFFICES ASSUME IInv, IsKev, call.at = "encode" PROVE FormsAgree
  BY DEF FormsAgree
<1>1. call # Idle
  BY DEF Idle
<1>2. PICK content \in Contents : Admitted(content) /\ Reached(content)
  BY <1>1 DEF IInv
<1>3. call.content = content /\ call.items = Items(content)
  BY <1>2 DEF Reached, Preparing, BeingEncoded, Refused, Forwarded, PassFailed, Built, NotANumber,
              Answers, IsCall
<1>4. GoodContent(content)
  BY ContentIs
<1> DEFINE N == Len(content.questions)
           state == Render(content.state)
           items == Items(content)
           questions == [i \in DOMAIN items |-> KevQuestion(items[i])]
           record == [state |-> state, questions |-> questions]
           ones == [i \in DOMAIN questions |->
                        Encode([state |-> state, questions |-> <<questions[i]>>], FALSE)]
           turned == [i \in DOMAIN questions |-> [questions[i] EXCEPT !.options = Reverse(@)]]
           packed == ForwardPacked(<<Encode(record, FALSE)>>, FALSE)[1]
           isolated(qs) ==
               ForwardPacked(<<Encode([record EXCEPT !.questions = qs], TRUE)>>, TRUE)[1]
<1>5. N \in Nat \ {0} /\ content.state \in Texts
  BY <1>4, Zenon DEF GoodContent
<1>6. state \in Lines
  BY <1>5, RenderIs
<1>7. DOMAIN items = 1..N /\ \A i \in 1..N : GoodPrepared(items[i], content.questions[i])
  BY <1>4, ItemsAre
<1> HIDE DEF N, state, items
<1>9. questions \in [1..N -> KevQuestions] /\ DOMAIN questions = 1..N
  BY <1>7, KevQuestionIs
<1> HIDE DEF questions
<1>10. ForwardRows(<<Encode(record, FALSE)>>)[1] = AllBehind(state, questions, N)
       /\ packed = AllBehind(state, questions, N)
  BY <1>5, <1>6, <1>9, RecordRead
<1>11. [i \in DOMAIN ones |-> ForwardPacked(ones, FALSE)[i][1]] = AllBehind(state, questions, N)
  <2>1. ones = [i \in 1..N |-> Encode([state |-> state, questions |-> <<questions[i]>>], FALSE)]
    BY <1>9
  <2>2. DOMAIN ones = 1..N
    BY <2>1
  <2> HIDE DEF ones
  <2>3. AloneRead(ones, state, questions, N)
    BY <1>5, <1>6, <1>9, <2>1, OnesRead
  <2> QED BY <2>2, <2>3, Zenon DEF AloneRead, AllBehind
<1>12. turned \in [1..N -> KevQuestions] /\ \A i \in 1..N : turned[i] = Turned(questions[i])
  <2>1. \A i \in 1..N : Turned(questions[i]) \in KevQuestions
    BY <1>9, TurnedIs DEF TurnsInto
  <2>2. turned = [i \in 1..N |-> Turned(questions[i])]
    BY <1>9, Zenon DEF Turned
  <2> HIDE DEF turned
  <2> QED BY <2>1, <2>2
<1>13. ASSUME NEW qs \in [1..N -> KevQuestions]
       PROVE  \A i \in 1..N : isolated(qs)[i] = Apart(StateIds(state), qs[i])
  <2>1. [record EXCEPT !.questions = qs] = [state |-> state, questions |-> qs]
    OBVIOUS
  <2>2. isolated(qs) = ReadApart(state, qs, N)
    BY <1>5, <1>6, <2>1, RecordApart
  <2> HIDE DEF isolated
  <2> QED BY <2>2 DEF ReadApart
<1> HIDE DEF turned, isolated, record, ones, packed
<1>14. ASSUME NEW i \in 1..N PROVE isolated(turned)[i] = Reverse(isolated(questions)[i])
  <2>1. isolated(turned)[i] = Apart(StateIds(state), Turned(questions[i]))
    BY <1>12, <1>13
  <2>3. questions[i] \in KevQuestions
    BY <1>9
  <2> QED BY <2>1, <2>3, ApartTurned, <1>9, <1>13
<1> QED BY <1>3, <1>9, <1>10, <1>11, <1>14, Zenon
        DEF FormsAgree, state, items, questions, record, ones, turned, packed, isolated

\* One record of all questions, packed under the mask or split into rows, is read as
\* one record per question is, and with isolated options their order does not matter
\* (_kev_vendor/model.py:118-121, 237, 39-40).
THEOREM FormsCoincide == Spec => []FormsAgree
BY Inductive, FormsIs, PTL

-----------------------------------------------------------------------------
(* Under its own key: an option's words are found again in what its number  *)
(* was read from.                                                           *)

\* What a sequence starts with.
LEMMA PrefixOf ==
    ASSUME NEW S, NEW s \in Seq(S), NEW t \in Seq(S)
    PROVE  IsPrefix(s, s \o t)
<1> DEFINE u == s \o t
           n == Len(s)
<1>1. u \in Seq(S) /\ Len(u) = n + Len(t) /\ \A i \in 1..n : u[i] = s[i]
  BY ConcatIs
<1>2. n \in Nat /\ Len(t) \in Nat
  OBVIOUS
<1> HIDE DEF u
<1>4. n <= Len(u)
  BY <1>1, <1>2
<1> QED BY <1>1, <1>4 DEF IsPrefix, u

\* What a sequence ends with.
LEMMA SuffixOf ==
    ASSUME NEW S, NEW s \in Seq(S), NEW t \in Seq(S)
    PROVE  IsSuffix(t, s \o t)
<1> DEFINE u == s \o t
           n == Len(t)
           a == Reverse(t)
           b == Reverse(u)
<1>1. u \in Seq(S) /\ Len(u) = Len(s) + n /\ \A i \in 1..n : u[Len(s) + i] = t[i]
  BY ConcatIs
<1>2. n \in Nat /\ Len(s) \in Nat
  OBVIOUS
<1> HIDE DEF u
<1>3. /\ a = [i \in 1..n |-> t[(n - i) + 1]]
      /\ b = [i \in 1..Len(u) |-> u[(Len(u) - i) + 1]]
  BY Zenon DEF Reverse
<1>4. a \in Seq(S) /\ Len(a) = n /\ \A i \in 1..n : a[i] = t[(n - i) + 1]
  <2> HIDE DEF n
  <2>1. \A i \in 1..n : t[(n - i) + 1] \in S
    BY DEF n
  <2> HIDE DEF a
  <2> QED BY <1>2, <1>3, <2>1
<1>5. b \in Seq(S) /\ Len(b) = Len(u) /\ \A i \in 1..Len(u) : b[i] = u[(Len(u) - i) + 1]
  <2>1. \A i \in 1..Len(u) : u[(Len(u) - i) + 1] \in S
    BY <1>1
  <2> HIDE DEF b
  <2> QED BY <1>3, <2>1, <1>1
<1> HIDE DEF a, b, n
<1>6. ASSUME NEW i \in 1..n PROVE a[i] = b[i]
  BY <1>1, <1>2, <1>4, <1>5
<1> QED BY <1>4, <1>6, <1>2, <1>5, <1>1 DEF IsSuffix, IsPrefix, a, b, u

\* Sequences of sequences are flattened one behind the other.
LEMMA FlattenConcat ==
    ASSUME NEW S, NEW N \in Nat, NEW M \in Nat,
           NEW ss \in [1..N -> Seq(S)], NEW tt \in [1..M -> Seq(S)]
    PROVE  FlattenSeq(ss \o tt) = FlattenSeq(ss) \o FlattenSeq(tt)
<1> DEFINE uu == ss \o tt
           F(k) == FlattenSeq(Prefix(uu, k))
           G(k) == FlattenSeq(Prefix(tt, k))
           E == {k \in 0..M : F(N + k) = FlattenSeq(ss) \o G(k)}
<1>1. /\ uu \in [1..(N + M) -> Seq(S)] /\ N + M \in Nat
      /\ \A i \in 1..N : uu[i] = ss[i]
      /\ \A i \in 1..M : uu[N + i] = tt[i]
  <2>1. ss \in Seq(Seq(S)) /\ tt \in Seq(Seq(S)) /\ Len(ss) = N /\ Len(tt) = M
    OBVIOUS
  <2> DEFINE T == Seq(S)
  <2>0. ss \in Seq(T) /\ tt \in Seq(T)
    BY <2>1
  <2> HIDE DEF T
  <2>3. /\ ss \o tt \in Seq(T) /\ Len(ss \o tt) = Len(ss) + Len(tt)
        /\ \A i \in 1..Len(ss) : (ss \o tt)[i] = ss[i]
        /\ \A i \in 1..Len(tt) : (ss \o tt)[Len(ss) + i] = tt[i]
    BY <2>0, ConcatIs
  <2>4. Len(ss) = N /\ Len(tt) = M
    BY <2>1
  <2>2. /\ uu \in Seq(T) /\ Len(uu) = N + M
        /\ \A i \in 1..N : uu[i] = ss[i]
        /\ \A i \in 1..M : uu[N + i] = tt[i]
    BY <2>3, <2>4, Zenon
  <2> USE DEF T
  <2> HIDE DEF uu
  <2> QED BY <2>2
<1> HIDE DEF uu
<1>2. /\ \A k \in 1..(N + M) : F(k) = F(k - 1) \o uu[k]
      /\ F(N + M) = FlattenSeq(uu)
  <2>1. Prefix(uu, N + M) = uu /\ \A k \in 1..(N + M) : F(k) = F(k - 1) \o uu[k]
    BY <1>1, FlattenSteps, ZenonT(30)
  <2> QED BY <2>1
<1>3. /\ G(0) = <<>> /\ \A k \in 1..M : G(k) = G(k - 1) \o tt[k]
      /\ \A k \in 0..M : G(k) \in Seq(S)
      /\ G(M) = FlattenSeq(tt)
  <2>1. /\ G(0) = <<>> /\ \A k \in 1..M : G(k) = G(k - 1) \o tt[k]
        /\ \A k \in 0..M : G(k) \in Seq(S)
        /\ Prefix(tt, M) = tt
    BY FlattenSteps, ZenonT(30)
  <2> QED BY <2>1
<1>4. FlattenSeq(ss) \in Seq(S) /\ FlattenSeq(ss) \o <<>> = FlattenSeq(ss)
  <2>1. FlattenSeq(ss) \in Seq(S)
    BY FlattenType
  <2> DEFINE f == FlattenSeq(ss)
  <2> HIDE DEF f
  <2> QED BY <2>1, ConcatEmptySeq DEF f
<1>5. F(N) = FlattenSeq(ss)
  BY <1>1 DEF Prefix
<1> HIDE DEF F, G
<1>6. 0 \in E
  BY <1>3, <1>4, <1>5
<1>7. ASSUME NEW k \in 1..M, k - 1 \in E PROVE k \in E
  <2>1. N + k \in 1..(N + M) /\ (N + k) - 1 = N + (k - 1) /\ k - 1 \in 0..M /\ k \in 0..M
    OBVIOUS
  <2>2. F(N + k) = F(N + (k - 1)) \o tt[k]
    BY <1>1, <1>2, <2>1
  <2>3. F(N + (k - 1)) = FlattenSeq(ss) \o G(k - 1)
    BY <1>7
  <2>4. tt[k] \in Seq(S) /\ G(k - 1) \in Seq(S) /\ G(k) = G(k - 1) \o tt[k]
    BY <1>3, <2>1
  <2> DEFINE f == FlattenSeq(ss)
             g == G(k - 1)
             t == tt[k]
  <2>5. f \in Seq(S) /\ g \in Seq(S) /\ t \in Seq(S)
    BY <1>4, <2>4
  <2> HIDE DEF f, g, t
  <2>6. (f \o g) \o t = f \o (g \o t)
    BY <2>5, ConcatAssociative, SMTT(20)
  <2> QED BY <2>1, <2>2, <2>3, <2>4, <2>6 DEF f, g, t
<1>8. M \in E
  <2> HIDE DEF E
  <2>1. \A k \in 1..M : k - 1 \in E => k \in E
    BY <1>7, Zenon
  <2>3. M \in 0..M
    OBVIOUS
  <2> QED BY <2>3, <1>6, <2>1, UpTo
<1> QED BY <1>2, <1>3, <1>8 DEF uu

\* Texts are taken apart word by word.
LEMMA UserTokensConcat ==
    ASSUME NEW s \in Lines, NEW t \in Lines
    PROVE  UserTokens(s \o t) = UserTokens(s) \o UserTokens(t)
<1> DEFINE w(x) == IF x \in Delimiters THEN <<"<", "marker", ">">> ELSE <<x>>
           a == [i \in 1..Len(s) |-> w(s[i])]
           b == [i \in 1..Len(t) |-> w(t[i])]
           c == [i \in 1..Len(s \o t) |-> w((s \o t)[i])]
<1>1. /\ s \in Seq(Strings) /\ t \in Seq(Strings) /\ s \o t \in Seq(Strings)
      /\ Len(s) \in Nat /\ Len(t) \in Nat /\ Len(s \o t) = Len(s) + Len(t)
      /\ DOMAIN s = 1..Len(s) /\ DOMAIN t = 1..Len(t) /\ DOMAIN (s \o t) = 1..Len(s \o t)
  BY DEF Lines
<1>2. /\ \A i \in 1..Len(s) : (s \o t)[i] = s[i]
      /\ \A i \in 1..Len(t) : (s \o t)[Len(s) + i] = t[i]
  BY <1>1, ConcatIs
<1>3. UserTokens(s) = FlattenSeq(a) /\ UserTokens(t) = FlattenSeq(b)
      /\ UserTokens(s \o t) = FlattenSeq(c)
  BY <1>1, Zenon DEF UserTokens
<1>4. \A x \in Strings : w(x) \in Lines
  <2>2. <<"<", "marker", ">">> \in Lines
    BY DEF Lines, Strings
  <2> QED BY <2>2 DEF Lines
<1> HIDE DEF w
<1>5. a \in [1..Len(s) -> Seq(Strings)] /\ b \in [1..Len(t) -> Seq(Strings)]
  BY <1>1, <1>4 DEF Lines
<1>6. c = a \o b
  <2>2. /\ a \o b \in Seq(Lines) /\ Len(a \o b) = Len(s) + Len(t)
        /\ \A i \in 1..Len(s) : (a \o b)[i] = a[i]
        /\ \A i \in 1..Len(t) : (a \o b)[Len(s) + i] = b[i]
    BY ConcatIs, <1>1, <1>4
  <2>3. \A i \in 1..Len(s) : a[i] = w(s[i])
    OBVIOUS
  <2>4. \A i \in 1..Len(t) : b[i] = w(t[i])
    OBVIOUS
  <2> DEFINE d == a \o b
             u == s \o t
  <2> HIDE DEF a, b, d, u
  <2>5. d \in Seq(Lines) /\ Len(d) = Len(u)
    BY <1>1, <2>2 DEF d, u
  <2>6. ASSUME NEW i \in 1..Len(u) PROVE d[i] = w(u[i])
    <3>1. i \in 1..Len(s) \/ (i - Len(s) \in 1..Len(t) /\ i = Len(s) + (i - Len(s)))
      BY <1>1 DEF u
    <3>2. CASE i \in 1..Len(s)
      BY <1>2, <2>2, <2>3, <3>2 DEF d, u
    <3>3. CASE i - Len(s) \in 1..Len(t) /\ i = Len(s) + (i - Len(s))
      <4> DEFINE m == i - Len(s)
      <4> HIDE DEF m
      <4> QED BY <1>2, <2>2, <2>4, <3>3 DEF d, u, m
    <3> QED BY <3>1, <3>2, <3>3
  <2>7. d = [i \in 1..Len(u) |-> w(u[i])]
    BY <2>5, <2>6
  <2> QED BY <2>7 DEF d, u
<1> HIDE DEF a, b, c
<1> DEFINE n == Len(s)
           m == Len(t)
<1>7. n \in Nat /\ m \in Nat /\ a \in [1..n -> Seq(Strings)] /\ b \in [1..m -> Seq(Strings)]
  BY <1>1, <1>5
<1> HIDE DEF n, m
<1>8. FlattenSeq(a \o b) = FlattenSeq(a) \o FlattenSeq(b)
  BY <1>7, FlattenConcat
<1> QED BY <1>3, <1>6, <1>8

\* The largest number of a set.
LEMMA Largest ==
    ASSUME NEW U \in SUBSET Int, NEW a \in U, \A s \in U : s <= a
    PROVE  Max(U) = a
<1>1. a \in U /\ \A y \in U : a >= y
  OBVIOUS
<1>2. \A x \in U : (\A y \in U : x >= y) => x = a
  OBVIOUS
<1> QED BY <1>1, <1>2, Zenon DEF Max

\* The smallest.
LEMMA Least ==
    ASSUME NEW U \in SUBSET Int, NEW a \in U, \A s \in U : a <= s
    PROVE  Min(U) = a
<1>1. a \in U /\ \A y \in U : a <= y
  OBVIOUS
<1>2. \A x \in U : (\A y \in U : x <= y) => x = a
  OBVIOUS
<1> QED BY <1>1, <1>2, Zenon DEF Min

\* The words of a row, each with the number it is seen at.
View(row, at, N) == {<<row[n], at[n]>> : n \in 1..N}

DistinctAt(at, N) == \A m, n \in 1..N : at[m] = at[n] => m = n

\* A word is found by its number, as numbers are distinct.
LEMMA WordAt ==
    ASSUME NEW N \in Nat, NEW row, NEW at, DistinctAt(at, N), NEW n \in 1..N
    PROVE  Word(View(row, at, N), at[n]) = row[n]
<1> DEFINE V == View(row, at, N)
           v == <<row[n], at[n]>>
<1>1. v \in V
  BY Zenon DEF View
<1>2. \A w \in V : w[2] = at[n] => w = v
  BY DEF View, DistinctAt
<1>3. v[2] = at[n] /\ v[1] = row[n]
  OBVIOUS
<1> HIDE DEF V, v
<1> QED BY <1>3, <1>1, <1>2 DEF Word, V

\* Where some words are seen.
LEMMA PlacesAt ==
    ASSUME NEW N \in Nat, NEW row, NEW at, NEW W
    PROVE  /\ \A n \in 1..N : row[n] \in W => at[n] \in Places(View(row, at, N), W)
           /\ \A x \in Places(View(row, at, N), W) : \E n \in 1..N : row[n] \in W /\ x = at[n]
<1> DEFINE V == View(row, at, N)
<1>1. ASSUME NEW n \in 1..N, row[n] \in W PROVE at[n] \in Places(V, W)
  <2> DEFINE v == <<row[n], at[n]>>
  <2>1. v \in V /\ v[1] \in W /\ v[2] = at[n]
    BY <1>1 DEF View
  <2> HIDE DEF V, v
  <2> QED BY <2>1 DEF Places
<1>2. ASSUME NEW x \in Places(V, W) PROVE \E n \in 1..N : row[n] \in W /\ x = at[n]
  <2>1. PICK v \in V : v[1] \in W /\ x = v[2]
    <3> HIDE DEF V
    <3> QED BY <1>2 DEF Places
  <2>2. PICK n \in 1..N : v = <<row[n], at[n]>>
    BY <2>1 DEF View
  <2> QED BY <2>1, <2>2
<1> QED BY <1>1, <1>2

\* A part of a sequence, found at its offset.
Holds(row, offset, part) ==
    \A m \in 1..Len(part) : offset + m \in 1..Len(row) /\ row[offset + m] = part[m]

\* The middle of three parts is found behind the first.
LEMMA Inside ==
    ASSUME NEW S, NEW a \in Seq(S), NEW b \in Seq(S), NEW c \in Seq(S)
    PROVE  /\ Holds((a \o b) \o c, Len(a), b)
           /\ Len((a \o b) \o c) = Len(a) + Len(b) + Len(c)
<1> DEFINE ab == a \o b
<1>1. /\ ab \in Seq(S) /\ Len(ab) = Len(a) + Len(b)
      /\ \A m \in 1..Len(b) : ab[Len(a) + m] = b[m]
  BY ConcatIs
<1> HIDE DEF ab
<1>2. /\ Len(ab \o c) = Len(ab) + Len(c)
      /\ \A m \in 1..Len(ab) : (ab \o c)[m] = ab[m]
  <2>1. ab \in Seq(S) /\ c \in Seq(S)
    BY <1>1
  <2> QED BY <2>1, ConcatIs
<1>3. Len(a) \in Nat /\ Len(b) \in Nat /\ Len(c) \in Nat
  OBVIOUS
<1>4. ASSUME NEW m \in 1..Len(b)
      PROVE  Len(a) + m \in 1..Len(ab \o c) /\ (ab \o c)[Len(a) + m] = b[m]
  BY <1>1, <1>3, <1>2
<1> QED BY <1>4, <1>1, <1>2, <1>3 DEF Holds, ab

\* A part of a part is found at the sum of both offsets.
LEMMA HoldsThrough ==
    ASSUME NEW row, NEW part, NEW piece, NEW m \in Nat, NEW n \in Nat,
           Holds(row, m, part), Holds(part, n, piece)
    PROVE  Holds(row, m + n, piece)
<1> SUFFICES ASSUME NEW i \in 1..Len(piece)
             PROVE  m + n + i \in 1..Len(row) /\ row[m + n + i] = piece[i]
  BY DEF Holds
<1>3. i \in Int
  OBVIOUS
<1>4. m + (n + i) = m + n + i
  BY <1>3
<1> QED BY <1>4 DEF Holds

SpanOf(s, u) ==
    /\ Len(s) = Len(u) + 2 /\ Len(u) \in Nat
    /\ s[1] = "<opt>" /\ s[Len(u) + 2] = "</opt>"
    /\ \A m \in 1..Len(u) : s[m + 1] = u[m] /\ u[m] \notin Delimiters

\* kev: a span has its delimiters at both ends, and nowhere else.
LEMMA SpanWords ==
    ASSUME NEW option \in Lines
    PROVE  SpanOf(Span(option), UserTokens(option))
<1> DEFINE u == UserTokens(option)
           o == <<"<opt>">>
           c == <<"</opt>">>
<1>1. u \in Seq(Plain) /\ u \in Lines
  BY UserTokensPlain, PlainIsText
<1>2. o \in Lines /\ c \in Lines /\ Len(o) = 1 /\ Len(c) = 1 /\ o[1] = "<opt>" /\ c[1] = "</opt>"
  BY PlainIsText DEF Delimiters
<1>3. Len(u) \in Nat /\ \A m \in 1..Len(u) : u[m] \notin Delimiters
  BY <1>1 DEF Plain
<1>4. Span(option) = (o \o u) \o c
  BY DEF Span
<1> HIDE DEF u, o, c
<1>5. Holds((o \o u) \o c, Len(o), u) /\ Len((o \o u) \o c) = Len(o) + Len(u) + Len(c)
  <2>1. o \in Seq(Strings) /\ u \in Seq(Strings) /\ c \in Seq(Strings)
    BY <1>1, <1>2 DEF Lines
  <2> QED BY <2>1, Inside
<1>6. o \o u \in Lines /\ Len(o \o u) = 1 + Len(u) /\ (o \o u)[1] = "<opt>"
  BY <1>1, <1>2, ConcatIs DEF Lines
<1> DEFINE b == o \o u
<1> HIDE DEF b
<1>8. \A m \in 1..Len(u) : (b \o c)[m + 1] = u[m]
  BY <1>2, <1>5, <1>3 DEF Holds, b
<1> QED BY <1>3, <1>4, <1>8, <1>2, <1>6, ConcatIs, <1>5 DEF SpanOf, u, b, Lines

\* A row holds the span of every option, up to where the option is read.
LEMMA RowHolds ==
    ASSUME NEW state \in Lines, NEW q \in KevQuestions, NEW j \in 1..Len(q.options)
    PROVE  \E o \in Nat : /\ KevEnd(state, q, j) = o + Len(Spans(q)[j])
                          /\ Holds(KevRow(state, q), o, Spans(q)[j])
<1> DEFINE S == StateIds(state)
           I == Instructions(q)
           ss == Spans(q)
           K == Len(q.options)
           F == FlattenSeq(ss)
           z == <<"<decide>">>
           o == Len(S) + Len(I) + Offset(ss, j)
<1>1. K \in Nat /\ ss \in [1..K -> Seq(Strings)]
  BY SpansType DEF Lines
<1>2. BlocksIn(Strings, K, ss)
  <2> HIDE DEF K, ss
  <2> QED BY <1>1, BlocksAre
<1>3. /\ F \in Lines /\ Offset(ss, j) \in Nat /\ Offset(ss, j + 1) = Offset(ss, j) + Len(ss[j])
      /\ Holds(F, Offset(ss, j), ss[j])
  <2> HIDE DEF K, ss
  <2> QED BY <1>2 DEF BlocksIn, Holds, Lines, K
<1>4. S \in Lines /\ I \in Lines /\ z \in Lines /\ Len(S) \in Nat /\ Len(I) \in Nat
  BY StateIdsType, InstructionsType, PlainIsText DEF Delimiters
<1>5. SpansBefore(q, j + 1) = Offset(ss, j + 1)
  BY OptEndIs
<1> HIDE DEF S, I, F, z
<1>6. KevRow(state, q) = ((S \o I) \o F) \o z
  <2>1. KevRow(state, q) = S \o ((I \o F) \o z)
    BY DEF KevRow, Branch, S, I, F, z
  <2>2. S \in Seq(Strings) /\ I \in Seq(Strings) /\ F \in Seq(Strings) /\ z \in Seq(Strings)
    BY <1>3, <1>4 DEF Lines
  <2> DEFINE e == I \o F
  <2>3. (S \o I) \o F = S \o e /\ e \in Seq(Strings)
    BY <2>2
  <2> HIDE DEF e
  <2>4. (S \o e) \o z = S \o (e \o z)
    BY <2>2, <2>3, SMTT(20)
  <2> QED BY <2>1, <2>3, <2>4, Zenon DEF e
<1>7. S \o I \in Lines /\ Len(S \o I) = Len(S) + Len(I)
  BY <1>4, TextConcat
<1>8. Holds(KevRow(state, q), Len(S) + Len(I), F)
  <2> DEFINE SI == S \o I
  <2>1. SI \in Seq(Strings) /\ F \in Seq(Strings) /\ z \in Seq(Strings)
    BY <1>3, <1>4, <1>7 DEF Lines
  <2> HIDE DEF SI
  <2> QED BY <1>6, <1>7, <2>1, Inside DEF SI
<1>9. Holds(KevRow(state, q), o, ss[j])
  <2>1. Len(S) + Len(I) \in Nat
    BY <1>4
  <2> DEFINE n == Len(S) + Len(I)
  <2> HIDE DEF n, ss
  <2> QED BY <1>3, <1>8, <2>1, HoldsThrough DEF n
<1>10. KevEnd(state, q, j) = Len(S) + Len(I) + Offset(ss, j + 1)
  BY <1>5 DEF KevEnd, S, I
<1> HIDE DEF ss
<1>11. Len(ss[j]) \in Nat
  <2>1. j \in 1..K
    BY DEF K
  <2> HIDE DEF K
  <2> QED BY <1>1, <2>1
<1>12. o \in Nat /\ KevEnd(state, q, j) = o + Len(ss[j])
  BY <1>4, <1>10, <1>3
<1> HIDE DEF o
<1> QED BY <1>9, <1>12 DEF ss

Spread(row, at, N, first, text) ==
    \A m \in 1..Len(text) : \E i \in 1..N : at[i] = first + m /\ row[i] = text[m]

\* The words between two numbers.
LEMMA BetweenIs ==
    ASSUME NEW T, NEW N \in Nat, NEW row, NEW at, DistinctAt(at, N),
           NEW first \in Int, NEW text \in Seq(T), Spread(row, at, N, first, text)
    PROVE  Between(View(row, at, N), first, first + Len(text) + 1) = text
<1> DEFINE V == View(row, at, N)
           n == Len(text)
<1>1. ASSUME NEW m \in 1..n PROVE Word(V, first + m) = text[m]
  <2>1. PICK i \in 1..N : at[i] = first + m /\ row[i] = text[m]
    BY DEF Spread
  <2>2. Word(V, at[i]) = row[i]
    BY WordAt
  <2> HIDE DEF V
  <2> QED BY <2>1, <2>2, Zenon
<1>2. n \in Nat /\ text = [m \in 1..n |-> text[m]]
  OBVIOUS
<1> HIDE DEF V, n
<1>3. (first + n + 1) - first - 1 = n
  BY <1>2
<1>4. Between(V, first, first + n + 1) = [m \in 1..n |-> Word(V, first + m)]
  BY <1>3, Zenon DEF Between
<1> QED BY <1>1, <1>2, <1>4 DEF V, n

\* The part of a row that ends at place E, numbered from zero.
FromZero(E) == [m \in 1..E |-> m - 1]

\* It is a view of the row, and its numbers are distinct.
LEMMA FirstIsView ==
    ASSUME NEW row, NEW E \in Nat
    PROVE  FirstOf(row, E) = View(row, FromZero(E), E) /\ DistinctAt(FromZero(E), E)
<1>1. \A m \in 1..E : FromZero(E)[m] = m - 1
  BY DEF FromZero
<1> QED BY <1>1 DEF DistinctAt, FirstOf, View

\* kev: an option's number is read from a row that ends with its span.
EndsWithSpan(row, o, s, u) ==
    /\ o \in Nat /\ SpanOf(s, u) /\ Holds(row, o, s)

\* Between the last delimiters that are seen stands the option, taken apart.
LEMMA SpanIsBetween ==
    ASSUME NEW row, NEW o, NEW s, NEW u \in Lines, EndsWithSpan(row, o, s, u)
    PROVE  LET from == FirstOf(row, o + Len(s))
           IN  Between(from, Max(Places(from, {"<opt>"})), Max(Places(from, {"</opt>"}))) = u
<1> DEFINE n == Len(u)
           E == o + Len(s)
           at == FromZero(E)
           V == View(row, at, E)
<1>1. /\ o \in Nat /\ n \in Nat /\ Len(s) = n + 2
      /\ s[1] = "<opt>" /\ s[n + 2] = "</opt>"
      /\ \A m \in 1..n : s[m + 1] = u[m] /\ u[m] \notin Delimiters
      /\ \A m \in 1..Len(s) : row[o + m] = s[m]
  BY DEF EndsWithSpan, SpanOf, Holds
<1> HIDE DEF n
<1>2. E \in Nat /\ E = o + n + 2 /\ o + 1 \in 1..E /\ o + n + 2 \in 1..E
  BY <1>1
<1> HIDE DEF E
<1>3. FirstOf(row, E) = V /\ DistinctAt(at, E)
  BY <1>2, FirstIsView
<1>4. \A m \in 1..E : at[m] = m - 1
  BY DEF FromZero
<1>5. row[o + 1] = "<opt>" /\ row[o + n + 2] = "</opt>" /\ \A m \in 1..n : row[o + m + 1] = u[m]
  BY <1>1
<1> HIDE DEF at
<1>6. Max(Places(V, {"<opt>"})) = o
  <2> DEFINE P == Places(V, {"<opt>"})
  <2>1. /\ \A x \in 1..E : row[x] \in {"<opt>"} => at[x] \in P
        /\ \A x \in P : \E i \in 1..E : row[i] \in {"<opt>"} /\ x = at[i]
    BY <1>2, PlacesAt
  <2> HIDE DEF P
  <2>2. o \in P
    BY <1>2, <1>5, <2>1, <1>1, <1>4
  <2>3. ASSUME NEW x \in P PROVE x \in Int /\ x <= o
    <3>1. PICK i \in 1..E : row[i] = "<opt>" /\ x = i - 1
      BY <1>4, <2>1
    <3>2. \A m \in 1..n : i # o + m + 1
      BY <1>1, <1>5, <3>1 DEF Delimiters
    <3>3. i # o + n + 2
      BY <1>5, <3>1
    <3> QED BY <1>1, <3>1, <3>2, <3>3, <1>2
  <2> QED BY <2>2, <2>3, Largest DEF P
<1>7. Max(Places(V, {"</opt>"})) = o + n + 1
  <2> DEFINE P == Places(V, {"</opt>"})
  <2>1. /\ \A x \in 1..E : row[x] \in {"</opt>"} => at[x] \in P
        /\ \A x \in P : \E i \in 1..E : row[i] \in {"</opt>"} /\ x = at[i]
    BY <1>2, PlacesAt
  <2> HIDE DEF P
  <2>2. o + n + 1 \in P
    <3>1. at[o + n + 2] = o + n + 1
      BY <1>1, <1>2, <1>4
    <3> QED BY <1>2, <1>5, <2>1, <3>1
  <2>3. ASSUME NEW x \in P PROVE x \in Int /\ x <= o + n + 1
    <3>1. PICK i \in 1..E : x = i - 1
      BY <1>4, <2>1
    <3> QED BY <1>1, <1>2, <3>1
  <2> DEFINE l == o + n + 1
  <2> HIDE DEF l
  <2> QED BY Largest, <2>2, <2>3 DEF P, l
<1>8. Spread(row, at, E, o, u)
  BY <1>1, <1>2, <1>4, <1>5 DEF Spread, n
<1>9. Between(V, o, o + n + 1) = u
  <2>1. u \in Seq(Strings)
    BY DEF Lines
  <2> HIDE DEF V
  <2> QED BY <1>1, <1>2, <1>3, <1>8, <2>1, BetweenIs DEF n, V
<1> QED BY <1>3, <1>6, <1>7, <1>9, Zenon DEF E

\* kev: what is found at an option is the option, its markers taken apart.
LEMMA KevShows ==
    ASSUME NEW state \in Lines, NEW q \in KevQuestions, NEW j \in 1..Len(q.options)
    PROVE  LET from == FirstOf(KevRow(state, q), KevEnd(state, q, j))
           IN  Between(from, Max(Places(from, {"<opt>"})), Max(Places(from, {"</opt>"})))
               = UserTokens(q.options[j])
<1> DEFINE s == Spans(q)[j]
           u == UserTokens(q.options[j])
           row == KevRow(state, q)
<1>1. q.options[j] \in Lines
  BY DEF KevQuestions
<1>2. s = Span(q.options[j])
  BY SpansType
<1>3. SpanOf(s, u) /\ u \in Lines
  BY <1>1, <1>2, SpanWords, UserTokensPlain, PlainIsText, Zenon
<1>4. PICK o \in Nat : KevEnd(state, q, j) = o + Len(s) /\ Holds(row, o, s)
  BY RowHolds
<1>5. EndsWithSpan(row, o, s, u)
  BY <1>3, <1>4 DEF EndsWithSpan
<1> HIDE DEF s, u, row
<1>6. LET from == FirstOf(row, o + Len(s))
      IN  Between(from, Max(Places(from, {"<opt>"})), Max(Places(from, {"</opt>"}))) = u
  BY <1>3, <1>5, SpanIsBetween
<1> QED BY <1>4, <1>6, Zenon DEF u, row

\* How prepare_request names and describes what the caller wrote.
Renders(p, q) ==
    \A i \in 1..Len(p.options) :
        /\ p.options[i].description = Render(q.criteria[i].value)
        /\ p.type = "choice" => p.options[i].name = q.criteria[i].name
        /\ p.type = "score" => p.options[i].name = Levels[i]
        /\ p.type = "noul" => p.options[i].name \in {"false", "true"}

\* So does PrepareQuestion.
LEMMA RendersIs ==
    ASSUME NEW q, GoodQuestion(q)
    PROVE  Renders(PrepareQuestion(q), q)
<1> DEFINE p == PrepareQuestion(q)
           cs == q.criteria
           text(i) == Render(cs[i].value)
           options == CASE q.type = "noul" -> NoulOptions(text(1), text(2))
                        [] q.type = "choice" -> [i \in DOMAIN cs |-> Option(cs[i].name, text(i))]
                        [] OTHER -> [i \in DOMAIN cs |-> Option(Levels[i], text(i))]
<1>1. /\ q.type \in {"noul", "choice", "score"}
      /\ DOMAIN cs = 1..Len(cs)
  BY Zenon DEF GoodQuestion
<1>2. p = [ qid |-> q.qid, type |-> q.type, instructions |-> Render(q.instructions), raw |-> q,
            options |-> options ]
  BY Zenon DEF PrepareQuestion
<1>3. GoodPrepared(p, q)
  BY PreparedIs
<1>4. Len(p.options) = Len(cs) /\ (p.type = "noul" => Len(p.options) = 2)
  BY <1>3, Zenon DEF GoodPrepared
<1> HIDE DEF text
<1>5. p.type = q.type /\ p.options = options
  <2> HIDE DEF p, options
  <2> QED BY <1>2
<1> HIDE DEF p
<1>6. CASE q.type = "noul"
  <2>1. options = <<Option("false", text(1)), Option("true", text(2))>>
    BY <1>6 DEF NoulOptions
  <2> HIDE DEF options
  <2>3. \A i \in 1..2 : options[i].description = text(i) /\ options[i].name \in {"false", "true"}
    BY <2>1 DEF Option
  <2> QED BY <1>4, <1>5, <1>6, <2>3 DEF Renders, text, p
<1>7. CASE q.type = "choice"
  <2>1. options = [i \in 1..Len(cs) |-> Option(cs[i].name, text(i))]
    BY <1>1, <1>7
  <2> HIDE DEF options, cs
  <2> QED BY <1>4, <1>5, <1>7, <2>1 DEF Renders, text, p, cs, Option
<1>8. CASE q.type = "score"
  <2>1. options = [i \in 1..Len(cs) |-> Option(Levels[i], text(i))]
    BY <1>1, <1>8
  <2> HIDE DEF options, cs
  <2> QED BY <1>4, <1>5, <1>8, <2>1 DEF Renders, text, p, cs, Option
<1> QED BY <1>1, <1>6, <1>7, <1>8

\* What the caller wrote for a wire key is the description of its option.
LEMMA WroteIs ==
    ASSUME NEW q, GoodQuestion(q), NEW p, GoodPrepared(p, q), Renders(p, q),
           NEW j \in ShownOf(p)
    PROVE  Wrote(q, p.options[j].name) = p.options[j].description
<1> DEFINE K == Len(p.options)
           key == p.options[j].name
           by == CASE q.type = "noul" -> IF key = "true" THEN 2 ELSE 1
                   [] q.type = "score" -> CHOOSE n \in DOMAIN Levels : Levels[n] = key
                   [] OTHER -> CHOOSE n \in DOMAIN q.criteria : q.criteria[n].name = key
<1>1. /\ K \in Nat /\ DOMAIN p.options = 1..K /\ Len(q.criteria) = K /\ DOMAIN q.criteria = 1..K
      /\ p.type = q.type /\ q.type \in {"noul", "choice", "score"}
      /\ q.type = "noul" => K = 2 /\ p.options[2].name = "true"
      /\ q.type = "choice" => \A m, n \in 1..K : q.criteria[m].name = q.criteria[n].name => m = n
      /\ q.type = "score" => K \in 1..Len(Levels)
  BY DEF GoodPrepared, GoodQuestion
<1>2. j \in 1..K /\ (q.type = "noul" => j = 2)
  BY <1>1 DEF ShownOf
<1>3. /\ p.options[j].description = Render(q.criteria[j].value)
      /\ q.type = "choice" => key = q.criteria[j].name
      /\ q.type = "score" => key = Levels[j]
  BY <1>1, <1>2 DEF Renders
<1>4. by = j
  <2> HIDE DEF K, key
  <2>1. CASE q.type = "noul"
    BY <1>1, <1>2, <2>1 DEF key
  <2>2. CASE q.type = "choice"
    BY <1>1, <1>2, <1>3, <2>2
  <2>3. CASE q.type = "score"
    BY NamesAssumption, <1>1, <1>2, <2>3, <1>3 DEF IsInjective, Texts
  <2> QED BY <1>1, <2>1, <2>2, <2>3
<1>5. Wrote(q, key) = Render(q.criteria[by].value)
  BY Zenon DEF Wrote
<1> HIDE DEF by
<1> QED BY <1>3, <1>4, <1>5

-----------------------------------------------------------------------------
(* The text of an option is its name first, if that is shown, and its       *)
(* description last.                                                        *)

Begins(text, s) == \E rest \in Lines : text = s \o rest
Ends(text, s) == \E front \in Lines : text = front \o s

Says(text, o, type) ==
    /\ text \in Lines
    /\ type = "choice" => Begins(text, <<o.name>>)
    /\ Ends(text, o.description)

\* What begins, or ends, with a text has it for its prefix, or for its suffix.
LEMMA SaysIs ==
    ASSUME NEW text, NEW o, NEW type, o.name \in Strings, o.description \in Lines, Says(text, o, type)
    PROVE  /\ type = "choice" => IsPrefix(<<o.name>>, text)
           /\ IsSuffix(o.description, text)
<1>1. ASSUME type = "choice" PROVE IsPrefix(<<o.name>>, text)
  <2>1. PICK rest \in Lines : text = <<o.name>> \o rest
    BY <1>1 DEF Says, Begins
  <2> DEFINE s == <<o.name>>
  <2>2. s \in Seq(Strings) /\ rest \in Seq(Strings)
    BY DEF Lines
  <2> HIDE DEF s
  <2> QED BY <2>1, <2>2, PrefixOf DEF s
<1>2. IsSuffix(o.description, text)
  <2> DEFINE s == o.description
  <2>1. PICK front \in Lines : text = front \o s
    BY DEF Says, Ends
  <2>2. s \in Seq(Strings) /\ front \in Seq(Strings)
    BY DEF Lines
  <2> HIDE DEF s
  <2> QED BY <2>1, <2>2, SuffixOf DEF s
<1> QED BY <1>1, <1>2

\* kev: so it is when their markers are taken apart.
LEMMA SaysApart ==
    ASSUME NEW text, NEW o, NEW type, o.name \in Strings, o.description \in Lines, Says(text, o, type)
    PROVE  /\ type = "choice" => IsPrefix(UserTokens(<<o.name>>), UserTokens(text))
           /\ IsSuffix(UserTokens(o.description), UserTokens(text))
<1>0. \A s \in Lines : UserTokens(s) \in Seq(Strings)
  BY UserTokensPlain, PlainIsText DEF Lines
<1>1. ASSUME type = "choice" PROVE IsPrefix(UserTokens(<<o.name>>), UserTokens(text))
  <2>1. PICK rest \in Lines : text = <<o.name>> \o rest
    BY <1>1 DEF Says, Begins
  <2> DEFINE s == <<o.name>>
  <2>2. s \in Lines
    BY DEF Lines
  <2> HIDE DEF s
  <2>3. UserTokens(s \o rest) = UserTokens(s) \o UserTokens(rest)
    BY <2>2, UserTokensConcat
  <2> DEFINE a == UserTokens(s)
             b == UserTokens(rest)
  <2>4. a \in Seq(Strings) /\ b \in Seq(Strings)
    BY <1>0, <2>2
  <2> HIDE DEF a, b
  <2> QED BY <2>1, <2>3, <2>4, PrefixOf DEF s, a, b
<1>2. IsSuffix(UserTokens(o.description), UserTokens(text))
  <2> DEFINE s == o.description
  <2>1. PICK front \in Lines : text = front \o s
    BY DEF Says, Ends
  <2>2. s \in Lines
    OBVIOUS
  <2> HIDE DEF s
  <2>3. UserTokens(front \o s) = UserTokens(front) \o UserTokens(s)
    BY <2>2, UserTokensConcat
  <2> DEFINE a == UserTokens(front)
             b == UserTokens(s)
  <2>4. a \in Seq(Strings) /\ b \in Seq(Strings)
    BY <1>0, <2>2
  <2> HIDE DEF a, b
  <2> QED BY <2>1, <2>3, <2>4, SuffixOf DEF s, a, b
<1> QED BY <1>1, <1>2

\* A name, and a description behind a colon, unless there is none.
LEMMA NamedIs ==
    ASSUME NEW name \in Strings, NEW d \in Lines,
           NEW text, text = (IF d = <<>> THEN <<name>> ELSE <<name, ":">> \o d)
    PROVE  text \in Lines /\ Begins(text, <<name>>) /\ Ends(text, d)
<1> DEFINE n == <<name>>
           c == <<name, ":">>
           e == <<":">>
<1>1. n \in Lines /\ c \in Lines /\ e \in Lines /\ <<>> \in Lines
  BY DEF Lines, Strings
<1>2. c = n \o e
  OBVIOUS
<1>3. n \o <<>> = n
  OBVIOUS
<1>4. CASE d = <<>>
  <2>1. text = n
    BY <1>4
  <2> HIDE DEF n
  <2> QED BY <1>1, <1>3, <1>4, <2>1 DEF Begins, Ends, n
<1>5. CASE d # <<>>
  <2>1. text = c \o d
    BY <1>5
  <2> HIDE DEF n, c, e
  <2>2. e \o d \in Lines /\ c \o d \in Lines
    BY <1>1 DEF Lines
  <2>3. (n \o e) \o d = n \o (e \o d)
    BY <1>1 DEF Lines
  <2> QED BY <1>1, <2>1, <2>2, <1>2, <2>3 DEF Begins, Ends, n
<1> QED BY <1>4, <1>5

\* kev: a choice is read at its name and its description, a noul behind "no" and
\* "yes", a level at its description.
LEMMA KevSays ==
    ASSUME NEW p, NEW q, GoodPrepared(p, q), NEW j \in 1..Len(p.options)
    PROVE  Says(KevQuestion(p).options[j], p.options[j], p.type)
<1> DEFINE n == p.options[j].name
           d == p.options[j].description
           text == CASE p.type = "choice" -> OptionText(n, d)
                     [] p.type = "noul" -> OptionText(<<"no", "yes">>[j], d)
                     [] OTHER -> d
<1>1. /\ n \in Strings /\ d \in Lines /\ j \in DOMAIN p.options
      /\ p.type \in {"noul", "choice", "score"}
      /\ p.type = "noul" => Len(p.options) = 2
  BY DEF GoodPrepared
<1>2. KevQuestion(p).options[j] = text
  <2> DEFINE at(i) == CASE p.type = "choice" -> OptionText(p.options[i].name, p.options[i].description)
                        [] p.type = "noul" -> OptionText(<<"no", "yes">>[i], p.options[i].description)
                        [] OTHER -> p.options[i].description
             options == [i \in DOMAIN p.options |-> at(i)]
  <2>1. KevQuestion(p) = [instr |-> p.instructions, options |-> options]
    BY Zenon DEF KevQuestion
  <2>2. at(j) = text
    BY Zenon
  <2> HIDE DEF at, text
  <2>3. options[j] = text
    BY <1>1, <2>2
  <2> HIDE DEF options
  <2> QED BY <2>1, <2>3
<1> HIDE DEF n, d
<1>3. CASE p.type = "choice"
  <2>1. text = (IF d = <<>> THEN <<n>> ELSE <<n, ":">> \o d)
    BY <1>3 DEF OptionText
  <2> HIDE DEF text
  <2>2. text \in Lines /\ Begins(text, <<n>>) /\ Ends(text, d)
    BY <1>1, <2>1, NamedIs
  <2> QED BY <1>2, <2>2, Zenon DEF Says, n, d
<1>4. CASE p.type = "noul"
  <2> DEFINE w == <<"no", "yes">>[j]
  <2>1. j \in 1..2
    BY <1>1, <1>4
  <2>3. w \in Strings
    BY <2>1 DEF Strings
  <2>4. text = OptionText(w, d)
    BY <1>4
  <2> HIDE DEF w, text
  <2>6. text \in Lines /\ Ends(text, d)
    BY <1>1, <2>3, NamedIs, <2>4 DEF OptionText
  <2>7. p.type # "choice"
    BY <1>4
  <2> QED BY <1>2, <2>6, <2>7, Zenon DEF Says, n, d
<1>5. CASE p.type = "score"
  <2>1. text = d
    BY <1>5
  <2> HIDE DEF text
  <2>2. <<>> \in Lines /\ <<>> \o d = d
    BY <1>1 DEF Lines
  <2>3. Ends(d, d)
    BY <2>2 DEF Ends
  <2>4. p.type # "choice"
    BY <1>5
  <2> QED BY <1>1, <1>2, <2>1, <2>3, <2>4, Zenon DEF Says, n, d
<1> QED BY <1>1, <1>3, <1>4, <1>5

Spelled(text) == IF IsKev THEN UserTokens(text) ELSE text

\* An option is read where it is shown.
ReadWhereShown(p, j, read) ==
    /\ p.type = "choice" => IsPrefix(Spelled(<<p.options[j].name>>), Shown(read))
    /\ IsSuffix(Spelled(p.options[j].description), Shown(read))

\* kev: it is, whatever the texts spell.
LEMMA KevReadWhereShown ==
    ASSUME NEW state \in Lines, NEW p, NEW q, GoodPrepared(p, q), NEW j \in 1..Len(p.options), IsKev
    PROVE  ReadWhereShown(p, j, KevAlone(state, p, j))
<1> DEFINE kq == KevQuestion(p)
           read == KevAlone(state, p, j)
           from == FirstOf(KevRow(state, kq), KevEnd(state, kq, j))
           o == p.options[j]
<1>1. kq \in KevQuestions /\ j \in 1..Len(kq.options)
  BY KevQuestionIs
<1>2. read = [decide |-> FirstOf(KevRow(state, kq), Len(KevRow(state, kq))), option |-> from]
  BY Zenon DEF KevAlone, FirstOf, KevRow, KevEnd
<1>3. o.name \in Strings /\ o.description \in Lines
  BY DEF GoodPrepared
<1>4. Says(kq.options[j], o, p.type)
  BY KevSays
<1> HIDE DEF kq, o
<1>5. Between(from, Max(Places(from, {"<opt>"})), Max(Places(from, {"</opt>"}))) = UserTokens(kq.options[j])
  BY <1>1, KevShows
<1>6. read.option = from
  <2> HIDE DEF read, from
  <2> QED BY <1>2
<1> HIDE DEF read, from
<1>7. Shown(read) = UserTokens(kq.options[j])
  BY <1>5, <1>6 DEF Shown, IsKev
<1>8. /\ p.type = "choice" => IsPrefix(UserTokens(<<o.name>>), UserTokens(kq.options[j]))
      /\ IsSuffix(UserTokens(o.description), UserTokens(kq.options[j]))
  BY <1>3, <1>4, SaysApart
<1> QED BY <1>7, <1>8, Zenon DEF ReadWhereShown, Spelled, read, o

\* Every question of a content is read where its options are shown.
AllWhereShown(content) ==
    \A i \in 1..Len(content.questions) :
        LET p == Items(content)[i]
        IN  \A j \in ShownOf(p) : ReadWhereShown(p, j, ReadAlone(p, j))

\* So it is published under the keys of the caller.
LEMMA UnderItsKeyIs ==
    ASSUME IInv, Answered, GoodContent(call.content) => AllWhereShown(call.content)
    PROVE  ReadUnderItsKey
<1>1. PICK content \in Contents : Admitted(content) /\ \E predicted : Answers(content, predicted)
  BY AnsweredIs
<1>2. PICK predicted : Answers(content, predicted)
  BY <1>1
<1> DEFINE N == Len(content.questions)
           items == Items(content)
<1>3. GoodContent(content) /\ DOMAIN content.questions = 1..N
  BY ContentIs DEF GoodContent
<1>4. call.content = content /\ AllWhereShown(content)
  BY <1>2, <1>3, Zenon DEF Answers, IsCall
<1>5. ASSUME NEW i \in 1..N, NEW key \in DOMAIN call.response.answers[content.questions[i].qid].probabilities
      PROVE  LET q == content.questions[i]
                 shown == Shown(call.response.answers[q.qid].probabilities[key].read)
             IN  /\ q.type = "choice" => IsPrefix(Spelled(<<key>>), shown)
                 /\ IsSuffix(Spelled(Wrote(q, key)), shown)
  <2> DEFINE q == content.questions[i]
             p == items[i]
             all == call.response.answers[q.qid].probabilities
             out == predicted[i]
             K == Len(p.options)
  <2>1. Settled(content, predicted, i)
    BY <1>1, <1>2, SettledIs
  <2>2. /\ GoodPrepared(p, q)
        /\ Numbered(out, Alone(engine, content, p), K)
        /\ call.response.answers[p.qid] = BuildAnswer(p, out)
    BY <2>1, Zenon DEF Settled
  <2>3. DOMAIN p.options = 1..K /\ K \in Nat /\ p.qid = q.qid /\ p.type = q.type
        /\ (p.type = "noul" => K = 2)
    BY <2>2 DEF GoodPrepared
  <2>4. GoodQuestion(q) /\ p = PrepareQuestion(q)
    BY <1>3, ItemsAre
  <2>5. Renders(p, q)
    <3> HIDE DEF p, q
    <3> QED BY <2>4, RendersIs
  <2>6. out.reading = Alone(engine, content, p)
    BY <2>2 DEF Numbered
  <2>7. Keyed(all, p, out, ShownOf(p))
    <3> HIDE DEF p, out, K
    <3>1. Keyed(BuildAnswer(p, out).probabilities, p, out, ShownOf(p))
      BY <2>2, ProbabilitiesAre DEF K
    <3> QED BY <2>2, <2>3, <3>1, Zenon
  <2>8. \A j \in ShownOf(p) : ReadWhereShown(p, j, ReadAlone(p, j))
    BY <1>4, Zenon DEF AllWhereShown
  <2>9. key \in DOMAIN all
    OBVIOUS
  <2> HIDE DEF p, q, out, all, K
  <2>10. PICK j \in ShownOf(p) : key = Keys(p)[j]
    BY <2>7, <2>9 DEF Keyed
  <2>11. j \in 1..K
    BY <2>3 DEF ShownOf
  <2>12. key = p.options[j].name
    BY <2>3, <2>10, <2>11 DEF Keys
  <2>13. all[key].read = out.reading[j]
    <3>1. all[key] = [p |-> RoundProbs(out.values)[j], read |-> out.reading[j]]
      BY <2>3, <2>7, <2>9, <2>11, <2>12, Zenon DEF Keyed
    <3> QED BY <3>1
  <2>16. Wrote(q, key) = p.options[j].description
    BY <2>2, <2>4, <2>5, <2>10, <2>12, WroteIs
  <2>17. ReadWhereShown(p, j, all[key].read)
    BY <2>8, <2>10, <2>6, <2>13, <1>4, <2>11, AloneIs DEF K
  <2>18. /\ q.type = "choice" => IsPrefix(Spelled(<<key>>), Shown(all[key].read))
         /\ IsSuffix(Spelled(Wrote(q, key)), Shown(all[key].read))
    BY <2>3, <2>12, <2>16, <2>17, Zenon DEF ReadWhereShown
  <2> QED BY <2>18, Zenon DEF all, q
<1> QED BY <1>3, <1>4, <1>5, Zenon DEF ReadUnderItsKey, Spelled

\* kev: whatever the texts spell, what is published under a key was read at the
\* words that the caller wrote for it (kev.py:529-544, answers.py:30-36).
LEMMA KevUnderItsKeyIs == IInv => (IsKev => ReadUnderItsKey)
<1> SUFFICES ASSUME IInv, IsKev, Answered PROVE ReadUnderItsKey
  BY Zenon DEF ReadUnderItsKey
<1> DEFINE content == call.content
<1>1. ASSUME GoodContent(content) PROVE AllWhereShown(content)
  <2> SUFFICES ASSUME NEW i \in 1..Len(content.questions), NEW j \in ShownOf(Items(content)[i])
               PROVE  ReadWhereShown(Items(content)[i], j, ReadAlone(Items(content)[i], j))
    BY Zenon DEF AllWhereShown
  <2> DEFINE p == Items(content)[i]
             q == content.questions[i]
             state == Render(content.state)
  <2>1. GoodPrepared(p, q)
    BY <1>1, ItemsAre
  <2>2. state \in Lines
    BY <1>1, RenderIs DEF GoodContent
  <2>3. j \in 1..Len(p.options)
    BY <2>1 DEF ShownOf, GoodPrepared
  <2>4. ReadAlone(p, j) = KevAlone(state, p, j)
    <3> HIDE DEF p
    <3> QED BY DEF ReadAlone, IsKev
  <2> HIDE DEF p, q, state
  <2> QED BY <2>4, <2>1, <2>2, <2>3, KevReadWhereShown DEF p
<1> QED BY <1>1, UnderItsKeyIs

\* kev, whatever the texts spell: what is published under a wire key was read at the
\* words the caller wrote for it, a choice at its name first (kev.py:529-544,
\* answers.py:30-36).
THEOREM KevUnderItsKey == Spec => [](IsKev => ReadUnderItsKey)
BY Inductive, KevUnderItsKeyIs, PTL

-----------------------------------------------------------------------------
(* laya: an option is read at its marker, and shown from there to the next. *)

Avoids(text, words) == \A m \in 1..Len(text) : text[m] \notin words

\* Joined, two texts avoid what each of them avoids.
LEMMA AvoidsBoth ==
    ASSUME NEW s \in Lines, NEW t \in Lines, NEW W, Avoids(s, W), Avoids(t, W)
    PROVE  s \o t \in Lines /\ Avoids(s \o t, W)
<1> DEFINE u == s \o t
<1>1. s \in Seq(Strings) /\ t \in Seq(Strings)
  BY DEF Lines
<1>2. /\ u \in Seq(Strings) /\ Len(u) = Len(s) + Len(t)
      /\ \A i \in 1..Len(s) : u[i] = s[i]
      /\ \A i \in 1..Len(t) : u[Len(s) + i] = t[i]
  BY <1>1, ConcatIs
<1>3. Len(s) \in Nat /\ Len(t) \in Nat
  BY <1>1
<1> HIDE DEF u
<1>4. ASSUME NEW i \in 1..Len(u) PROVE u[i] \notin W
  <2>1. i \in 1..Len(s) \/ (i - Len(s) \in 1..Len(t) /\ i = Len(s) + (i - Len(s)))
    BY <1>2, <1>3
  <2>2. CASE i \in 1..Len(s)
    BY <1>2, <2>2 DEF Avoids
  <2>3. CASE i - Len(s) \in 1..Len(t) /\ i = Len(s) + (i - Len(s))
    <3> DEFINE m == i - Len(s)
    <3> HIDE DEF m
    <3> QED BY <1>2, <2>3 DEF Avoids, m
  <2> QED BY <2>1, <2>2, <2>3
<1> QED BY <1>2, <1>4 DEF Avoids, Lines, u

Marks == {"[MASK]", "[SEP]"}

\* The words of a row from its h-th on: the spans, and the end behind them.
SpansAt(ids, h, ss) ==
    /\ h \in Nat /\ Len(ids) \in Nat /\ h + Len(FlattenSeq(ss)) + 1 <= Len(ids)
    /\ \A k \in 1..Len(FlattenSeq(ss)) : ids[h + k] = FlattenSeq(ss)[k]
    /\ ids[h + Len(FlattenSeq(ss)) + 1] = "[SEP]"

\* A span is a marker and a text.
Marked(ss, K, texts) ==
    \A j \in 1..K : /\ Len(ss[j]) = Len(texts[j]) + 1 /\ Len(texts[j]) \in Nat
                    /\ ss[j][1] = "[MASK]"
                    /\ \A m \in 1..Len(texts[j]) : ss[j][m + 1] = texts[j][m]

AtMarker(ids, marker, text) ==
    /\ marker \in 1..Len(ids) /\ marker + Len(text) + 1 \in 1..Len(ids)
    /\ \A m \in 1..Len(text) : marker + m \in 1..Len(ids) /\ ids[marker + m] = text[m]
    /\ ids[marker + Len(text) + 1] \in Marks

\* The place behind a span: the next marker, or the end.
LEMMA BehindSpan ==
    ASSUME NEW K \in Nat, NEW ss \in [1..K -> Seq(Strings)], NEW texts, Marked(ss, K, texts),
           NEW ids, NEW h, SpansAt(ids, h, ss), NEW j \in 1..K
    PROVE  AtMarker(ids, h + Offset(ss, j) + 1, texts[j])
<1> DEFINE F == FlattenSeq(ss)
           o == Offset(ss, j)
           n == Len(texts[j])
           L == Len(ss[j])
<1>0. BlocksIn(Strings, K, ss)
  BY BlocksAre
<1>1. /\ F \in Seq(Strings)
      /\ Offset(ss, K + 1) = Len(F)
      /\ o \in Nat /\ Offset(ss, j + 1) = o + L
      /\ \A m \in 1..L : o + m \in 1..Len(F) /\ F[o + m] = ss[j][m]
  BY <1>0 DEF BlocksIn
<1>2. /\ n \in Nat /\ L = n + 1
      /\ \A m \in 1..n : ss[j][m + 1] = texts[j][m]
  BY DEF Marked
<1>3. /\ h \in Nat /\ Len(ids) \in Nat /\ h + Len(F) + 1 <= Len(ids)
      /\ \A k \in 1..Len(F) : ids[h + k] = F[k]
      /\ ids[h + Len(F) + 1] = "[SEP]"
  BY DEF SpansAt
<1>4. Len(F) \in Nat
  BY <1>1
<1> DEFINE marker == h + o + 1
<1>5. ids[marker + n + 1] \in Marks /\ marker + n + 1 <= h + Len(F) + 1
  <2>1. marker + n + 1 = h + Offset(ss, j + 1) + 1
    <3>1. o \in Nat /\ n \in Nat /\ h \in Nat /\ Offset(ss, j + 1) = o + (n + 1)
      BY <1>1, <1>2, <1>3
    <3> HIDE DEF o, n
    <3> QED BY <3>1
  <2>2. CASE j = K
    <3>1. marker + n + 1 = h + Len(F) + 1
      BY <1>1, <2>1, <2>2
    <3> HIDE DEF marker, F, n
    <3> QED BY <1>3, <1>4, <3>1 DEF Marks
  <2>3. CASE j # K
    <3> DEFINE i == j + 1
               oi == Offset(ss, i)
    <3>1. i \in 1..K
      BY <2>3
    <3> HIDE DEF i
    <3>0. Len(ss[i]) = Len(texts[i]) + 1 /\ Len(texts[i]) \in Nat /\ ss[i][1] = "[MASK]"
      BY <3>1 DEF Marked
    <3>2. 1 \in 1..Len(ss[i])
      BY <3>0
    <3>3. oi \in Nat /\ oi + 1 \in 1..Len(F) /\ F[oi + 1] = ss[i][1]
      BY <1>0, <3>1, <3>2 DEF BlocksIn
    <3>4. marker + n + 1 = h + oi + 1
      BY <2>1 DEF i
    <3> HIDE DEF oi, marker, F, n, o
    <3> QED BY <3>4, <1>3, <1>4, <3>0, <3>3 DEF Marks
  <2> QED BY <2>2, <2>3
<1>6. ASSUME NEW m \in 1..n PROVE ids[marker + m] = texts[j][m]
  <2>1. m + 1 \in 1..L
    BY <1>2
  <2>4. h + (o + (m + 1)) = marker + m
    BY <1>1, <1>2, <1>3
  <2> QED BY <2>4, <1>3, <1>1, <1>2, <2>1
<1> HIDE DEF F, n, o
<1>7. marker \in 1..Len(ids) /\ marker + n + 1 \in 1..Len(ids) /\ \A m \in 1..n : marker + m \in 1..Len(ids)
  <2>1. h \in Nat /\ o \in Nat /\ n \in Nat /\ Len(ids) \in Nat /\ marker + n + 1 <= Len(ids)
    BY <1>1, <1>2, <1>3, <1>4, <1>5
  <2> QED BY <2>1
<1> QED BY <1>5, <1>6, <1>7 DEF AtMarker, n, o

Counted(N) == [n \in 1..N |-> n]

\* What stands between a marker and the next is the option's text.
LEMMA MarkedIsBetween ==
    ASSUME NEW ids, Len(ids) \in Nat, DOMAIN ids = 1..Len(ids), NEW text \in Lines,
           Avoids(text, Marks), NEW marker,
           AtMarker(ids, marker, text)
    PROVE  LET from == Placed(ids)
           IN  Between(from, marker, Min({n \in Places(from, Marks) : n > marker})) = text
<1> DEFINE N == Len(ids)
           at == Counted(N)
           V == View(ids, at, N)
           l == Len(text)
           P == Places(V, Marks)
           U == {n \in P : n > marker}
<1>a. /\ marker \in 1..N /\ marker + l + 1 \in 1..N
      /\ \A m \in 1..l : marker + m \in 1..N /\ ids[marker + m] = text[m]
      /\ ids[marker + l + 1] \in Marks
  BY DEF AtMarker
<1>0. l \in Nat /\ marker \in Nat /\ N \in Nat
  BY <1>a DEF Lines
<1>1. \A n \in 1..N : at[n] = n
  BY DEF Counted
<1>2. Placed(ids) = V
  BY <1>1 DEF Placed, View
<1>3. DistinctAt(at, N)
  BY <1>1 DEF DistinctAt
<1> HIDE DEF at, V
<1>4. /\ \A n \in 1..N : ids[n] \in Marks => at[n] \in P
      /\ \A x \in P : \E n \in 1..N : ids[n] \in Marks /\ x = at[n]
  <2> HIDE DEF N
  <2> QED BY <1>0, PlacesAt DEF V
<1> HIDE DEF P, N
<1>5. marker + l + 1 \in U
  BY <1>0, <1>a, <1>1, <1>4
<1>6. ASSUME NEW x \in U PROVE x \in Int /\ marker + l + 1 <= x
  <2>1. PICK n \in 1..N : ids[n] \in Marks /\ x = n
    BY <1>1, <1>4
  <2>3. \A m \in 1..l : n # marker + m
    BY <1>a, <2>1 DEF Avoids
  <2> QED BY <2>1, <2>3, <1>0
<1>7. Min(U) = marker + l + 1
  <2> DEFINE k == marker + l + 1
  <2> HIDE DEF k, U
  <2> QED BY Least, <1>5, <1>6 DEF k
<1>8. Spread(ids, at, N, marker, text)
  BY <1>a, <1>1 DEF Spread, l
<1>9. Between(V, marker, marker + l + 1) = text
  BY <1>0, <1>3, <1>8, BetweenIs DEF Lines, l, V
<1> QED BY <1>2, <1>7, <1>9, Zenon DEF U, P

\* A part behind a head stays where it is, whatever follows.
LEMMA LaidIs ==
    ASSUME NEW head \in Lines, NEW ss, FlattenSeq(ss) \in Lines, NEW state \in Lines, NEW ids,
           ids = head \o FlattenSeq(ss) \o <<"[SEP]">> \o state \o <<"[SEP]">>
    PROVE  SpansAt(ids, Len(head), ss) /\ DOMAIN ids = 1..Len(ids)
<1> DEFINE F == FlattenSeq(ss)
           z == <<"[SEP]">>
           a == head \o F
           b == a \o z
           c == b \o state
           d == c \o z
           h == Len(head)
<1>1. z \in Lines /\ Len(z) = 1 /\ z[1] = "[SEP]"
  BY DEF Lines, Strings
<1>2. \A s, t \in Lines : /\ s \o t \in Lines /\ Len(s \o t) = Len(s) + Len(t)
                          /\ \A i \in 1..Len(s) : (s \o t)[i] = s[i]
                          /\ \A i \in 1..Len(t) : (s \o t)[Len(s) + i] = t[i]
  BY ConcatIs DEF Lines
<1>3. \A s \in Lines : Len(s) \in Nat /\ DOMAIN s = 1..Len(s)
  BY DEF Lines
<1>4. ids = d
  BY Zenon
<1>f. F \in Lines
  OBVIOUS
<1> HIDE DEF F, z, d
<1>5. /\ a \in Lines /\ Len(a) = h + Len(F)
      /\ \A i \in 1..Len(F) : a[h + i] = F[i]
  BY <1>2, <1>f
<1> HIDE DEF a
<1>6. /\ b \in Lines /\ Len(b) = Len(a) + 1
      /\ \A i \in 1..Len(a) : b[i] = a[i]
      /\ b[Len(a) + 1] = "[SEP]"
  <2>2. /\ a \o z \in Lines /\ Len(a \o z) = Len(a) + Len(z)
        /\ \A i \in 1..Len(a) : (a \o z)[i] = a[i]
        /\ \A i \in 1..Len(z) : (a \o z)[Len(a) + i] = z[i]
    BY <1>1, <1>2, <1>5, Zenon
  <2> QED BY <1>1, <2>2
<1> HIDE DEF b
<1>7. /\ c \in Lines /\ Len(c) = Len(b) + Len(state)
      /\ \A i \in 1..Len(b) : c[i] = b[i]
  BY <1>2, <1>6
<1> HIDE DEF c
<1>8. /\ d \in Lines /\ Len(d) = Len(c) + 1
      /\ \A i \in 1..Len(c) : d[i] = c[i]
  <2>2. /\ c \o z \in Lines /\ Len(c \o z) = Len(c) + Len(z)
        /\ \A i \in 1..Len(c) : (c \o z)[i] = c[i]
    BY <1>1, <1>2, <1>7, Zenon
  <2> QED BY <1>1, <2>2 DEF d
<1> HIDE DEF h
<1>9. /\ h \in Nat /\ Len(F) \in Nat /\ Len(a) \in Nat /\ Len(b) \in Nat /\ Len(c) \in Nat
      /\ Len(d) \in Nat /\ Len(state) \in Nat
  BY <1>f, <1>3, <1>5, <1>6, <1>7, <1>8 DEF h
<1>10. \A i \in 1..Len(b) : d[i] = b[i]
  BY <1>7, <1>9, <1>8
<1>11. \A k \in 1..Len(F) : d[h + k] = F[k]
  <2> TAKE k \in 1..Len(F)
  <2> QED BY <1>5, <1>6, <1>10, <1>9
<1>13. DOMAIN d = 1..Len(d)
  BY <1>3, <1>8
<1> QED BY <1>4, <1>9, <1>11, <1>13, <1>5, <1>6, <1>7, <1>8, <1>10 DEF SpansAt, F, h

\* What an option's text avoids when its name and its description do.
OptionAvoids(o, words) == o.name \notin words /\ Avoids(o.description, words)

\* laya: an option is shown by name and description, which only a score's level
\* and a bare noul add words to.
LEMMA LayaSays ==
    ASSUME NEW p, NEW q, GoodPrepared(p, q), Renders(p, q), NEW i \in 1..Len(p.options),
           OptionAvoids(p.options[i], Marks)
    PROVE  /\ Says(RenderOptions(Internal(p))[i], p.options[i], p.type)
           /\ Avoids(RenderOptions(Internal(p))[i], Marks)
<1> DEFINE o == p.options[i]
           c == Internal(p).crit[i]
           t == p.type
           text == RenderOptions(Internal(p))[i]
           d == o.description
           n == o.name
<1>1. /\ Len(p.options) \in Nat /\ DOMAIN p.options = 1..Len(p.options)
      /\ n \in Strings /\ d \in Lines
      /\ t \in {"noul", "choice", "score"}
  BY Zenon DEF GoodPrepared
<1>3. DOMAIN Internal(p).crit = 1..Len(p.options)
      /\ c = IF t # "score" /\ d = <<>> THEN Option(n, None) ELSE o
  BY <1>1 DEF Internal
<1>4. text =
        CASE t = "score" -> <<"level", c.name, ":">> \o c.description
          [] t = "noul" /\ c.description = None -> <<c.name, ":", "statement">>
          [] OTHER -> IF c.description = None THEN <<c.name>> ELSE <<c.name, ":">> \o c.description
  BY <1>3 DEF RenderOptions, Internal
<1>5. c.name = n /\ (t = "score" => c.description = d)
      /\ (c.description # None => c.description = d)
      /\ (t # "score" /\ c.description = None => d = <<>> \/ d = None)
  <2>1. Option(n, None).name = n /\ Option(n, None).description = None
    BY DEF Option
  <2> HIDE DEF c, t
  <2> QED BY <1>3, <2>1
<1>6. n \notin Marks /\ Avoids(d, Marks)
  BY DEF OptionAvoids
<1>7. d = None => d = <<>>
  BY DEF Renders, Render
<1> HIDE DEF n, d, c, t, text
<1> DEFINE level == <<"level", n, ":">>
           statement == <<n, ":", "statement">>
           word == <<n>>
           named == <<n, ":">>
<1>8. level \in Lines /\ statement \in Lines /\ word \in Lines /\ named \in Lines /\ <<>> \in Lines
  BY <1>1 DEF Strings, Lines
<1>9. Avoids(level, Marks) /\ Avoids(statement, Marks) /\ Avoids(word, Marks) /\ Avoids(named, Marks)
  BY <1>6 DEF Marks, Avoids
<1>10. CASE t = "score"
  <2>1. text = level \o d
    BY <1>4, <1>5, <1>10
  <2> HIDE DEF level
  <2>3. Ends(text, d)
    BY <1>8, <2>1 DEF Ends
  <2> QED BY <1>10, <2>3, <1>1, <1>6, <1>8, <1>9, <2>1, AvoidsBoth DEF Says, d, t, text
<1>11. CASE t = "noul"
  <2>1. CASE c.description = None
    <3>1. text = statement /\ d = <<>>
      BY <1>4, <1>5, <1>7, <1>11, <2>1
    <3> HIDE DEF statement
    <3> QED BY <1>8, <1>9, <1>11, <3>1 DEF Says, d, t, text, Ends, Lines
  <2>2. CASE c.description # None
    <3>1. text = named \o d
      BY <1>4, <1>5, <1>11, <2>2
    <3> HIDE DEF named
    <3>3. Ends(text, d)
      BY <1>8, <3>1 DEF Ends
    <3> QED BY <1>11, <3>3, <1>1, <1>6, <1>8, <1>9, <3>1, AvoidsBoth DEF Says, d, t, text
  <2> QED BY <2>1, <2>2
<1>12. CASE t = "choice"
  <2>1. CASE c.description = None
    <3>1. text = word /\ d = <<>>
      BY <1>4, <1>5, <1>7, <1>12, <2>1
    <3> HIDE DEF word
    <3>2. word \o <<>> = word
      BY <1>8 DEF Lines
    <3>3. Ends(text, d) /\ Begins(text, word)
      BY <1>8, <3>1, <3>2 DEF Ends, Begins
    <3> QED BY <1>8, <1>9, <1>12, <3>1, <3>3 DEF Says, d, t, text, word, n
  <2>2. CASE c.description # None
    <3>1. text = named \o d
      BY <1>4, <1>5, <1>12, <2>2
    <3>2. named = word \o <<":">> /\ <<":">> \in Lines
      BY DEF Lines, Strings
    <3> DEFINE e == <<":">>
    <3> HIDE DEF named, word, e
    <3>3. text \in Lines /\ Avoids(text, Marks)
      BY <1>1, <1>6, <1>8, <1>9, <3>1, AvoidsBoth
    <3>4. e \o d \in Lines /\ (word \o e) \o d = word \o (e \o d)
      BY <1>1, <1>8, <3>2 DEF Lines, e
    <3>5. Begins(text, word)
      BY <3>1, <3>2, <3>4 DEF Begins, e
    <3> QED BY <1>12, <3>3, <3>5, <1>8, <3>1 DEF Says, d, t, text, word, n, Ends
  <2> QED BY <2>1, <2>2
<1> QED BY <1>1, <1>10, <1>11, <1>12 DEF t, text

\* laya: what is found at an option's marker is the option.
LEMMA LayaReadWhereShown ==
    ASSUME NEW state \in Lines, NEW p, NEW q, GoodPrepared(p, q), Renders(p, q),
           \A i \in 1..Len(p.options) : OptionAvoids(p.options[i], Marks),
           NEW j \in 1..Len(p.options), engine = "laya"
    PROVE  ReadWhereShown(p, j, LayaAlone(state, p, j))
<1> DEFINE int == Internal(p)
           K == Len(p.options)
           texts == RenderOptions(int)
           spans == [i \in DOMAIN int.crit |-> <<"[MASK]">> \o RenderOptions(int)[i]]
           head == <<"[CLS]", int.t, "question:">> \o int.ins \o <<"[SEP]">>
           marks == [i \in DOMAIN spans |->
                          Len(head) + Len(FlattenSeq(SubSeq(spans, 1, i - 1))) + 1]
           ids == head \o FlattenSeq(spans) \o <<"[SEP]">> \o state \o <<"[SEP]">>
           row == BuildSequence(state, int)
           read == LayaAlone(state, p, j)
           o == p.options[j]
<1>1. row = [ids |-> ids, markers |-> marks, qtype |-> int.t]
  BY Zenon DEF BuildSequence
<1>2. /\ K \in Nat /\ DOMAIN p.options = 1..K /\ p.type \in {"noul", "choice", "score"}
      /\ p.instructions \in Lines /\ o.name \in Strings /\ o.description \in Lines
  BY DEF GoodPrepared
<1>3. int.t = p.type /\ int.ins = p.instructions /\ DOMAIN int.crit = 1..K
  BY <1>2 DEF Internal
<1>4. <<"[MASK]">> \in Lines /\ <<"[SEP]">> \in Lines /\ <<"[CLS]", int.t, "question:">> \in Lines
  <2>1. {"[MASK]", "[SEP]", "[CLS]", "question:", "noul", "choice", "score"} \subseteq Strings
    BY DEF Strings
  <2>2. int.t \in Strings
    BY <1>2, <1>3, <2>1
  <2> HIDE DEF int
  <2> QED BY <2>1, <2>2 DEF Lines
<1>5. \A i \in 1..K : Says(texts[i], p.options[i], p.type) /\ Avoids(texts[i], Marks) /\ texts[i] \in Lines
  BY LayaSays DEF Says
<1> HIDE DEF K, texts
<1>6. \A i \in 1..K : spans[i] = <<"[MASK]">> \o texts[i]
  BY <1>3 DEF texts
<1>7. \A i \in 1..K : /\ spans[i] \in Lines /\ Len(spans[i]) = Len(texts[i]) + 1 /\ Len(texts[i]) \in Nat
                      /\ spans[i][1] = "[MASK]"
                      /\ \A m \in 1..Len(texts[i]) : spans[i][m + 1] = texts[i][m]
  <2> TAKE i \in 1..K
  <2> DEFINE z == <<"[MASK]">>
             t == texts[i]
  <2>1. z \in Seq(Strings) /\ t \in Seq(Strings) /\ Len(z) = 1 /\ z[1] = "[MASK]" /\ Len(t) \in Nat
    BY <1>4, <1>5 DEF Lines
  <2> HIDE DEF z, t, spans
  <2>2. /\ z \o t \in Seq(Strings) /\ Len(z \o t) = 1 + Len(t)
        /\ \A m \in 1..Len(z) : (z \o t)[m] = z[m]
        /\ \A m \in 1..Len(t) : (z \o t)[1 + m] = t[m]
    <3>0. z \in Seq(Strings) /\ t \in Seq(Strings)
      BY <2>1
    <3>1. /\ z \o t \in Seq(Strings) /\ Len(z \o t) = Len(z) + Len(t)
          /\ \A m \in 1..Len(z) : (z \o t)[m] = z[m]
          /\ \A m \in 1..Len(t) : (z \o t)[Len(z) + m] = t[m]
      BY <3>0, ConcatIs
    <3> QED BY <2>1, <3>1, Zenon
  <2>5. spans[i] = z \o t
    BY <1>6 DEF z, t
  <2> QED BY <2>1, <2>2, <2>5, SMTT(40) DEF t, Lines
<1>8. spans \in [1..K -> Seq(Strings)] /\ DOMAIN spans = 1..K
  <2>1. DOMAIN spans = 1..K /\ spans = [i \in 1..K |-> spans[i]]
    BY <1>3
  <2> HIDE DEF spans
  <2> QED BY <1>7, <2>1 DEF Lines
<1> HIDE DEF spans
<1>9. Marked(spans, K, texts)
  BY <1>7 DEF Marked
<1>10. head \in Lines
  <2> HIDE DEF int
  <2> QED BY <1>4, TextConcat, <1>2, <1>3
<1>11. FlattenSeq(spans) \in Lines
  BY <1>2, <1>8, FlattenType DEF Lines
<1> DEFINE h == Len(head)
<1>12. marks[j] = h + Offset(spans, j) + 1
  <2>1. marks[j] = h + Len(FlattenSeq(SubSeq(spans, 1, j - 1))) + 1
    <3> HIDE DEF head
    <3> QED BY <1>8 DEF K
  <2>2. SubSeq(spans, 1, j - 1) = Prefix(spans, j - 1)
    <3>1. spans \in Seq(Seq(Strings)) /\ Len(spans) = K
      BY <1>2, <1>8
    <3>2. j - 1 \in 0..Len(spans)
      BY <1>2, <3>1 DEF K
    <3> DEFINE T == Seq(Strings)
    <3> HIDE DEF T
    <3> QED BY <3>2, PrefixIs, <3>1 DEF T
  <2> QED BY <2>1, <2>2, Zenon DEF Offset
<1> HIDE DEF head, marks
<1>13. SpansAt(ids, h, spans) /\ DOMAIN ids = 1..Len(ids)
  BY <1>10, <1>11, LaidIs
<1> HIDE DEF ids
<1> DEFINE marker == marks[j]
<1>14. AtMarker(ids, marker, texts[j])
  <2>1. j \in 1..K
    BY DEF K
  <2> HIDE DEF h
  <2>2. AtMarker(ids, h + Offset(spans, j) + 1, texts[j])
    BY <1>2, <1>8, <1>9, <1>13, <2>1, BehindSpan
  <2> QED BY <1>12, <2>2, Zenon
<1>15. LET from == Placed(ids)
       IN  Between(from, marker, Min({m \in Places(from, Marks) : m > marker})) = texts[j]
  <2>1. texts[j] \in Lines /\ Avoids(texts[j], Marks) /\ Len(ids) \in Nat
    BY <1>5, <1>13 DEF K, SpansAt
  <2> HIDE DEF marker
  <2> QED BY <1>13, <1>14, <2>1, MarkedIsBetween
<1>16. read.marker = marker /\ read.from = Placed(ids)
  <2> DEFINE r == [ids |-> ids, markers |-> marks, qtype |-> int.t]
  <2>1. read = [marker |-> row.markers[j], from |-> Placed(row.ids),
                temperature |-> <<p.type, Len(p.options)>>]
    BY Zenon DEF LayaAlone
  <2> HIDE DEF read, row
  <2> QED BY <2>1, <1>1
<1> HIDE DEF read, marker
<1>17. Shown(read) = texts[j]
  BY <1>15, <1>16 DEF Shown, IsKev, Marks
<1>18. Says(texts[j], o, p.type)
  BY <1>5 DEF K
<1> HIDE DEF o
<1> QED BY <1>17, <1>2, <1>18, SaysIs DEF ReadWhereShown, read, o, Spelled, IsKev

-----------------------------------------------------------------------------
(* jeff: an option is shown behind its code, up to the next or to the end.  *)

CodeWords == Range(Codes) \cup {"Return"}

\* A span is a code, a colon and a text.
Coded(ss, K, texts) ==
    \A j \in 1..K : /\ Len(ss[j]) = Len(texts[j]) + 2 /\ Len(texts[j]) \in Nat
                    /\ ss[j][1] = Codes[j] /\ ss[j][2] = ":"
                    /\ \A m \in 1..Len(texts[j]) : ss[j][m + 2] = texts[j][m]
                    /\ Avoids(texts[j], CodeWords)

\* Codes that differ from each other, and from the words of the layout.
CodesDiffer ==
    /\ \A i, j \in 1..Len(Codes) : Codes[i] = Codes[j] => i = j
    /\ Range(Codes) \cap {"State:", "Question:", "Options:", ":", "Return", "choose", "No", "Yes"} = {}

\* A prompt: no code up to its h-th word, then the spans, then one word more.
Coding(prompt, h, ss) ==
    /\ h \in Nat /\ Len(prompt) = h + Len(FlattenSeq(ss)) + 1
    /\ \A i \in 1..h : prompt[i] \notin Range(Codes)
    /\ \A k \in 1..Len(FlattenSeq(ss)) : prompt[h + k] = FlattenSeq(ss)[k]
    /\ prompt[h + Len(FlattenSeq(ss)) + 1] = "Return"

\* A code at its only place, its text, and the code behind it or the end.
AtCode(prompt, c, code, text) ==
    /\ c \in 1..Len(prompt) /\ c + Len(text) + 2 \in 1..Len(prompt)
    /\ prompt[c] = code /\ \A i \in 1..Len(prompt) : prompt[i] = code => i = c
    /\ prompt[c + 1] \notin CodeWords
    /\ \A m \in 1..Len(text) : c + 1 + m \in 1..Len(prompt) /\ prompt[c + 1 + m] = text[m]
    /\ prompt[c + Len(text) + 2] \in CodeWords

\* The codes that a prompt shows.
LEMMA ShownCodes ==
    ASSUME NEW K \in Nat, K <= Len(Codes)
    PROVE  \A k \in 1..K : k \in 1..Len(Codes) /\ Codes[k] \in Range(Codes) /\ Codes[k] \in Strings
<1> TAKE k \in 1..K
<1> QED BY NamesAssumption DEF Range, Texts, Strings

\* The place of a code in its prompt.
LEMMA CodePlace ==
    ASSUME CodesDiffer, NEW K \in Nat, K <= Len(Codes), NEW ss \in [1..K -> Seq(Strings)], NEW texts,
           Coded(ss, K, texts), NEW prompt, NEW h, Coding(prompt, h, ss), NEW j \in 1..K
    PROVE  AtCode(prompt, h + Offset(ss, j) + 1, Codes[j], texts[j])
<1> DEFINE F == FlattenSeq(ss)
           N == Len(F)
           o == Offset(ss, j)
           n == Len(texts[j])
           L == Len(ss[j])
           c == h + o + 1
           P == Len(prompt)
<1>0. BlocksIn(Strings, K, ss) /\ Covered(ss, K)
  BY BlocksAre, BlocksCover
<1>1. /\ F \in Seq(Strings)
      /\ Offset(ss, K + 1) = N
      /\ o \in Nat /\ Offset(ss, j + 1) = o + L
      /\ \A k \in 1..K : Offset(ss, k) \in Nat
      /\ \A k \in 1..K : \A m \in 1..Len(ss[k]) : Offset(ss, k) + m \in 1..N /\ F[Offset(ss, k) + m] = ss[k][m]
  BY <1>0 DEF BlocksIn
<1>2. /\ n \in Nat /\ L = n + 2
      /\ ss[j][1] = Codes[j] /\ ss[j][2] = ":"
      /\ \A m \in 1..n : ss[j][m + 2] = texts[j][m]
  BY DEF Coded
<1>3. /\ h \in Nat /\ P = h + N + 1
      /\ \A i \in 1..h : prompt[i] \notin Range(Codes)
      /\ \A k \in 1..N : prompt[h + k] = F[k]
      /\ prompt[h + N + 1] = "Return"
  BY DEF Coding
<1>4. N \in Nat
  BY <1>1
<1>5. \A k \in 1..K : k \in 1..Len(Codes) /\ Codes[k] \in Range(Codes)
  BY ShownCodes
<1>6. ":" \notin Range(Codes) /\ "Return" \notin Range(Codes) /\ ":" \notin CodeWords
  BY DEF CodesDiffer, CodeWords
<1> HIDE DEF F, N, P
<1>a. o \in Nat /\ n \in Nat /\ h \in Nat /\ L = n + 2
  BY <1>1, <1>2, <1>3
<1>b. Offset(ss, j + 1) = o + L
  BY <1>1
<1>7. ASSUME NEW k \in 1..K, NEW m \in 1..Len(ss[k])
      PROVE  /\ h + Offset(ss, k) + m \in 1..P
             /\ prompt[h + Offset(ss, k) + m] = ss[k][m]
  <2> DEFINE x == Offset(ss, k) + m
  <2>1. x \in 1..N /\ F[x] = ss[k][m]
    BY <1>1
  <2>3. h + x = h + Offset(ss, k) + m
    BY <1>3, <1>1 DEF Coded
  <2> HIDE DEF x
  <2> QED BY <2>1, <2>3, <1>3, <1>4
<1>8. c \in 1..P /\ prompt[c] = Codes[j]
  <2>1. 1 \in 1..Len(ss[j])
    BY <1>2
  <2> QED BY <1>2, <1>7, <2>1
<1>9. prompt[c + 1] = ":"
  <2>1. 2 \in 1..L /\ c + 1 = h + o + 2
    <3> HIDE DEF o, n, L
    <3> QED BY <1>a
  <2> HIDE DEF c
  <2> QED BY <1>2, <1>7, <2>1
<1>10. ASSUME NEW m \in 1..n PROVE c + 1 + m \in 1..P /\ prompt[c + 1 + m] = texts[j][m]
  <2>1. m + 2 \in 1..L /\ h + o + (m + 2) = c + 1 + m
    <3> HIDE DEF o, n, L
    <3> QED BY <1>a
  <2>2. h + o + (m + 2) \in 1..P /\ prompt[h + o + (m + 2)] = ss[j][m + 2]
    BY <1>7, <2>1
  <2> HIDE DEF c
  <2> QED BY <1>2, <2>1, <2>2
<1>11. c + n + 2 \in 1..P /\ prompt[c + n + 2] \in CodeWords
  <2>1. c + n + 2 = h + Offset(ss, j + 1) + 1
    <3> HIDE DEF o, n, L
    <3> QED BY <1>a, <1>b
  <2>2. CASE j = K
    <3>1. c + n + 2 = h + N + 1
      BY <1>1, <2>1, <2>2
    <3>2. h + N + 1 \in 1..P
      BY <1>3, <1>4
    <3> HIDE DEF c, n
    <3> QED BY <1>3, <3>1, <3>2 DEF CodeWords
  <2>3. CASE j # K
    <3> DEFINE i == j + 1
    <3>1. i \in 1..K
      BY <2>3
    <3> HIDE DEF i
    <3>2. Len(ss[i]) = Len(texts[i]) + 2 /\ Len(texts[i]) \in Nat /\ ss[i][1] = Codes[i]
      BY <3>1 DEF Coded
    <3>3. 1 \in 1..Len(ss[i])
      BY <3>2
    <3>4. h + Offset(ss, i) + 1 \in 1..P /\ prompt[h + Offset(ss, i) + 1] = Codes[i]
      BY <1>7, <3>1, <3>2, <3>3
    <3>5. Codes[i] \in CodeWords
      BY <1>5, <3>1 DEF CodeWords
    <3>6. c + n + 2 = h + Offset(ss, i) + 1
      BY <2>1 DEF i
    <3> HIDE DEF c, n
    <3> QED BY <3>4, <3>5, <3>6
  <2> QED BY <2>2, <2>3
<1>12. ASSUME NEW i \in 1..P, prompt[i] = Codes[j] PROVE i = c
  <2>1. j \in 1..Len(Codes) /\ Codes[j] \in Range(Codes)
    BY <1>5
  <2>2. i \in h+1..h+N
    <3>2. i # h + N + 1
      BY <1>3, <1>6, <1>12, <2>1
    <3> QED BY <1>3, <1>4, <3>2, <1>12, <2>1
  <2> DEFINE x == i - h
  <2>3. x \in 1..N /\ i = h + x
    BY <1>3, <1>4, <2>2
  <2> HIDE DEF x
  <2>4. PICK k \in 1..K : \E m \in 1..Len(ss[k]) : x = Offset(ss, k) + m
    BY <1>0, <2>3 DEF Covered, N, F
  <2>5. PICK m \in 1..Len(ss[k]) : x = Offset(ss, k) + m
    BY <2>4
  <2>6. Offset(ss, k) \in Nat /\ Len(ss[k]) = Len(texts[k]) + 2 /\ Len(texts[k]) \in Nat
    BY <1>1 DEF Coded
  <2>7. i = h + Offset(ss, k) + m
    BY <1>3, <2>3, <2>5, <2>6
  <2>8. ss[k][m] = Codes[j]
    BY <1>7, <1>12, <2>7
  <2>9. m = 1
    <3>1. m # 2
      BY <1>6, <2>1, <2>8 DEF Coded
    <3>2. \A l \in 1..Len(texts[k]) : m # l + 2
      <4> TAKE l \in 1..Len(texts[k])
      <4>1. ss[k][l + 2] = texts[k][l] /\ texts[k][l] \notin CodeWords
        BY DEF Coded, Avoids
      <4> QED BY <2>1, <2>8, <4>1 DEF CodeWords
    <3> QED BY <3>1, <3>2, <2>6
  <2>11. k = j
    BY <2>1, <1>5, <2>8, <2>9 DEF CodesDiffer, Coded
  <2> QED BY <2>7, <2>9, <2>11
<1> HIDE DEF c, n
<1> QED BY <1>6, <1>8, <1>9, <1>10, <1>11, <1>12 DEF AtCode, c, n, P

EndDistance(L) == [n \in 1..L |-> L - n]

\* How the words behind a code are found.
CodeText(from, code) ==
    LET place == CHOOSE n \in Places(from, {code}) : TRUE
        stop == Max({n \in Places(from, CodeWords) : n < place})
    IN  [n \in 1..(place - stop - 2) |-> Word(from, place - 1 - n)]

\* What stands behind a code, up to the next, is the option's text.
LEMMA CodeIsBetween ==
    ASSUME NEW prompt, Len(prompt) \in Nat, DOMAIN prompt = 1..Len(prompt),
           NEW text \in Lines, Avoids(text, CodeWords), NEW c, NEW code, AtCode(prompt, c, code, text)
    PROVE  CodeText(Distances(prompt), code) = text
<1> DEFINE L == Len(prompt)
           at == EndDistance(L)
           V == View(prompt, at, L)
           l == Len(text)
           a == L - c
           e == c + l + 2
           A == Places(V, {code})
           P == Places(V, CodeWords)
           U == {n \in P : n < a}
<1>1. /\ c \in 1..L /\ e \in 1..L
      /\ prompt[c] = code /\ \A i \in 1..L : prompt[i] = code => i = c
      /\ prompt[c + 1] \notin CodeWords
      /\ \A m \in 1..l : c + 1 + m \in 1..L /\ prompt[c + 1 + m] = text[m] /\ text[m] \notin CodeWords
      /\ prompt[e] \in CodeWords
  BY DEF AtCode, Avoids
<1>2. l \in Nat /\ L \in Nat /\ c \in Nat
  BY <1>1 DEF Lines
<1> HIDE DEF L
<1>3. \A n \in 1..L : at[n] = L - n
  BY DEF EndDistance
<1>4. Distances(prompt) = V
  <2>1. \A n \in 1..L : <<prompt[n], L - n>> = <<prompt[n], at[n]>>
    BY <1>3
  <2>2. Distances(prompt) = {<<prompt[n], L - n>> : n \in 1..L}
    BY Zenon DEF Distances, L
  <2> HIDE DEF at
  <2> QED BY <2>1, <2>2 DEF View
<1>5. DistinctAt(at, L)
  BY <1>2, <1>3 DEF DistinctAt
<1> HIDE DEF at
<1>6. /\ \A n \in 1..L : prompt[n] \in CodeWords => at[n] \in P
      /\ \A x \in P : \E n \in 1..L : prompt[n] \in CodeWords /\ x = at[n]
  BY <1>2, PlacesAt
<1>7. /\ \A n \in 1..L : prompt[n] \in {code} => at[n] \in A
      /\ \A x \in A : \E n \in 1..L : prompt[n] \in {code} /\ x = at[n]
  BY <1>2, PlacesAt
<1> HIDE DEF V, P, A, e
<1>8. (CHOOSE n \in A : TRUE) = a
  <2>1. a \in A
    BY <1>1, <1>3, <1>7
  <2>2. \A x \in A : x = a
    BY <1>1, <1>3, <1>7
  <2> HIDE DEF a
  <2> QED BY <2>1, <2>2
<1>e. e = c + l + 2
  BY DEF e
<1>9. L - e \in U
  <2>1. L - e < a
    BY <1>1, <1>2, <1>e
  <2>2. L - e \in P
    BY <1>1, <1>3, <1>6
  <2> HIDE DEF a
  <2> QED BY <2>1, <2>2
<1>10. ASSUME NEW x \in U PROVE x \in Int /\ x <= L - e
  <2>1. PICK i \in 1..L : prompt[i] \in CodeWords /\ x = L - i
    BY <1>3, <1>6
  <2>2. i > c
    BY <2>1, <1>2
  <2>3. i # c + 1 /\ \A m \in 1..l : i # c + 1 + m
    BY <1>1, <2>1
  <2>5. i >= c + l + 2
    BY <2>3, <1>2, <2>2
  <2> QED BY <1>1, <1>2, <1>e, <2>1, <2>5
<1>11. Max(U) = L - e
  <2> DEFINE k == L - e
  <2> HIDE DEF k, U
  <2> QED BY Largest, <1>9, <1>10 DEF k
<1>12. a - (L - e) - 2 = l
  BY <1>1, <1>2, <1>e
<1>13. ASSUME NEW n \in 1..l PROVE Word(V, a - 1 - n) = text[n]
  <2> DEFINE i == c + 1 + n
  <2>1. i \in 1..L /\ prompt[i] = text[n]
    BY <1>1
  <2>2. a - 1 - n = L - i
    BY <1>2
  <2> HIDE DEF i, a
  <2> QED BY <1>3, <2>1, <2>2, <1>2, <1>5, WordAt DEF V
<1>14. text = [n \in 1..l |-> text[n]]
  BY DEF Lines
<1> HIDE DEF l
<1>15. [n \in 1..(a - (L - e) - 2) |-> Word(V, a - 1 - n)] = text
  BY <1>12, <1>13, <1>14
<1> HIDE DEF a
<1> DEFINE from == Distances(prompt)
           place == CHOOSE n \in Places(from, {code}) : TRUE
           stop == Max({n \in Places(from, CodeWords) : n < place})
<1>16. from = V
  BY <1>4
<1>17. place = a
  BY <1>8, <1>16, Zenon DEF A
<1> HIDE DEF from, place
<1>18. stop = L - e
  BY <1>11, <1>16, <1>17, Zenon DEF U, P
<1> HIDE DEF stop
<1>19. [n \in 1..(place - stop - 2) |-> Word(from, place - 1 - n)] = text
  BY <1>15, <1>16, <1>17, <1>18
<1> QED BY <1>19, Zenon DEF CodeText, stop, place, from

\* jeff: what the caller wrote stands at the end of the option that is shown, a
\* choice's name at its start.
LEMMA JeffSays ==
    ASSUME NEW p, NEW q, GoodQuestion(q), GoodPrepared(p, q), Renders(p, q), NEW i \in 1..Len(p.options)
    PROVE  Says(Jeff!Options(q)[i], p.options[i], p.type)
<1> DEFINE cs == q.criteria
           K == Len(cs)
           v == cs[i].value
           n == cs[i].name
           d == p.options[i].description
           text == Jeff!Options(q)[i]
           at(k) == CASE q.type = "choice" ->
                            <<cs[k].name>> \o
                            (IF cs[k].value = None THEN <<>> ELSE <<":">> \o cs[k].value)
                        [] q.type = "score" -> cs[k].value
                        [] OTHER -> Jeff!Or(cs[k].value, IF k = 1 THEN <<"No">> ELSE <<"Yes">>)
<1>1. /\ q.type \in {"noul", "choice", "score"} /\ p.type = q.type
      /\ K \in Nat /\ DOMAIN cs = 1..K /\ Len(p.options) = K
      /\ n \in Words /\ v \in {None} \cup Texts
      /\ q.type = "score" => v # None
      /\ d \in Lines
  BY DEF GoodQuestion, GoodPrepared
<1>2. text \in Lines
  BY <1>1, JeffOptions
<1>3. Jeff!Options(q) = [k \in DOMAIN cs |-> at(k)]
  BY Zenon DEF Jeff!Options
<1>4. text = at(i)
  <2>1. i \in DOMAIN cs
    BY <1>1
  <2> HIDE DEF at
  <2> QED BY <1>3, <2>1
<1>5. d = Render(v) /\ (q.type = "choice" => p.options[i].name = n)
  BY <1>1 DEF Renders
<1>6. d = <<>> \/ (d = v /\ v # None)
  BY <1>5 DEF Render
<1>7. <<>> \in Lines /\ \A s \in Lines : s \o <<>> = s /\ <<>> \o s = s
  BY DEF Lines
<1>8. CASE d = <<>>
  <2>1. Ends(text, d)
    <3> HIDE DEF text, d
    <3> QED BY <1>2, <1>7, <1>8 DEF Ends
  <2>2. ASSUME q.type = "choice" PROVE Begins(text, <<n>>)
    <3> DEFINE rest == IF v = None THEN <<>> ELSE <<":">> \o v
    <3>1. text = <<n>> \o rest
      BY <1>4, <2>2
    <3>2. rest \in Lines
      <4>1. <<":">> \in Lines /\ (v # None => v \in Lines)
        BY <1>1, TextIsLine DEF Lines, Strings
      <4> HIDE DEF v
      <4> QED BY <1>7, <4>1, TextConcat
    <3> HIDE DEF rest, text, n
    <3> QED BY <3>1, <3>2 DEF Begins
  <2> QED BY <1>1, <1>2, <1>5, <2>1, <2>2, Zenon DEF Says
<1>9. CASE d # <<>>
  <2>0. d = v /\ v # None /\ v # <<>> /\ v \in Lines
    BY <1>1, <1>6, <1>9
  <2>1. CASE q.type = "choice"
    <3>1. text = <<n>> \o (<<":">> \o v)
      BY <1>4, <2>0, <2>1
    <3> DEFINE s == <<n>>
               e == <<":">>
    <3>2. s \in Lines /\ e \in Lines
      BY <1>1 DEF Lines, Strings
    <3> HIDE DEF s, e, text, d, v
    <3>3. e \o v \in Lines /\ s \o e \in Lines /\ (s \o e) \o v = s \o (e \o v)
      BY <2>0, <3>2 DEF Lines
    <3>4. Begins(text, s) /\ Ends(text, d)
      BY <2>0, <3>1, <3>3 DEF Begins, Ends, s, e
    <3> QED BY <1>1, <1>2, <1>5, <2>1, <3>4, Zenon DEF Says, s, text, d
  <2>2. CASE q.type # "choice"
    <3>1. text = v
      BY <1>1, <1>4, <2>0, <2>2 DEF Jeff!Or
    <3>2. Ends(text, d)
      <4> HIDE DEF text, d, v
      <4> QED BY <1>7, <2>0, <3>1 DEF Ends
    <3> QED BY <1>1, <1>2, <2>2, <3>2, Zenon DEF Says
  <2> QED BY <2>1, <2>2
<1> QED BY <1>8, <1>9

FreeOf(value, words) == value = None \/ Avoids(value, words)

\* What the caller wrote into a question, free of some words.
QuestionFreeOf(q, words) ==
    /\ FreeOf(q.instructions, words)
    /\ \A i \in 1..Len(q.criteria) : /\ q.criteria[i].name \notin words
                                     /\ FreeOf(q.criteria[i].value, words)

\* The words of the layout are no codes.
LEMMA LayoutAvoids ==
    ASSUME CodesDiffer
    PROVE  /\ \A w \in {"State:", "Question:", "Options:", ":", "choose", "No", "Yes"} :
                  <<w>> \in Lines /\ Avoids(<<w>>, CodeWords) /\ Avoids(<<w>>, Range(Codes))
           /\ <<"Return">> \in Lines
<1>1. "Return" \in Strings
      /\ {"State:", "Question:", "Options:", ":", "choose", "No", "Yes"} \subseteq Strings
  BY DEF Strings
<1>3. ASSUME NEW w \in {"State:", "Question:", "Options:", ":", "choose", "No", "Yes"}
      PROVE  <<w>> \in Lines /\ Avoids(<<w>>, CodeWords) /\ Avoids(<<w>>, Range(Codes))
  BY <1>1 DEF CodesDiffer, CodeWords, Lines, Avoids
<1> QED BY <1>3, <1>1 DEF Lines

\* What replaces a value that is missing is no code either.
LEMMA OrAvoids ==
    ASSUME NEW value \in {None} \cup Texts, NEW default \in Lines, NEW W,
           FreeOf(value, W), Avoids(default, W)
    PROVE  Jeff!Or(value, default) \in Lines /\ Avoids(Jeff!Or(value, default), W)
<1> QED BY OrIs DEF Jeff!Or, FreeOf

\* An option that is free of codes is shown without any.
LEMMA OptionsAvoid ==
    ASSUME CodesDiffer, NEW q, GoodQuestion(q), QuestionFreeOf(q, CodeWords), NEW i \in 1..Len(q.criteria)
    PROVE  Avoids(Jeff!Options(q)[i], CodeWords)
<1> DEFINE cs == q.criteria
           v == cs[i].value
           n == cs[i].name
           text == Jeff!Options(q)[i]
           at(k) == CASE q.type = "choice" ->
                            <<cs[k].name>> \o
                            (IF cs[k].value = None THEN <<>> ELSE <<":">> \o cs[k].value)
                        [] q.type = "score" -> cs[k].value
                        [] OTHER -> Jeff!Or(cs[k].value, IF k = 1 THEN <<"No">> ELSE <<"Yes">>)
<1>1. /\ q.type \in {"noul", "choice", "score"}
      /\ DOMAIN cs = 1..Len(cs)
      /\ n \in Words /\ v \in {None} \cup Texts
      /\ q.type = "score" => v # None
  BY DEF GoodQuestion
<1>2. n \notin CodeWords /\ FreeOf(v, CodeWords)
  BY DEF QuestionFreeOf
<1>3. Jeff!Options(q) = [k \in DOMAIN cs |-> at(k)]
  BY Zenon DEF Jeff!Options
<1>4. text = at(i)
  <2>1. i \in DOMAIN cs
    BY <1>1
  <2> HIDE DEF at
  <2> QED BY <1>3, <2>1
<1>5. CASE q.type = "choice"
  <2> DEFINE s == <<n>>
             e == <<":">>
             rest == IF v = None THEN <<>> ELSE e \o v
  <2>1. text = s \o rest
    BY <1>4, <1>5
  <2>2. s \in Lines /\ Avoids(s, CodeWords)
    BY <1>1, <1>2 DEF Strings, Lines, Avoids
  <2>3. e \in Lines /\ Avoids(e, CodeWords)
    BY LayoutAvoids
  <2>4. <<>> \in Lines /\ Avoids(<<>>, CodeWords)
    BY DEF Lines, Avoids
  <2>5. v # None => v \in Lines /\ Avoids(v, CodeWords)
    BY <1>1, <1>2, TextIsLine DEF FreeOf
  <2> HIDE DEF e, v, s, text
  <2>7. rest \in Lines /\ Avoids(rest, CodeWords)
    BY <2>4, <2>3, <2>5, AvoidsBoth
  <2> HIDE DEF rest
  <2> QED BY <2>1, <2>2, <2>7, AvoidsBoth DEF text
<1>6. CASE q.type = "score"
  BY <1>1, <1>4, <1>6, <1>2 DEF FreeOf
<1>7. CASE q.type = "noul"
  <2> DEFINE d == IF i = 1 THEN <<"No">> ELSE <<"Yes">>
  <2>1. text = Jeff!Or(v, d)
    BY <1>4, <1>7
  <2>2. d \in Lines /\ Avoids(d, CodeWords)
    BY LayoutAvoids
  <2> HIDE DEF d, v, text
  <2> QED BY <2>1, <1>1, <1>2, <2>2, OrAvoids DEF text
<1> QED BY <1>1, <1>5, <1>6, <1>7

JeffSpans(q) == [i \in DOMAIN Jeff!Options(q) |-> <<Codes[i], ":">> \o Jeff!Options(q)[i]]

\* The spans of a prompt.
LEMMA JeffSpansAre ==
    ASSUME CodesDiffer, NEW q, GoodQuestion(q), Jeff!HasCodes(q), QuestionFreeOf(q, CodeWords)
    PROVE  /\ Len(q.criteria) \in Nat /\ Len(q.criteria) <= Len(Codes)
           /\ JeffSpans(q) \in [1..Len(q.criteria) -> Seq(Strings)]
           /\ Coded(JeffSpans(q), Len(q.criteria), Jeff!Options(q))
<1> DEFINE opts == Jeff!Options(q)
           K == Len(q.criteria)
           ss == JeffSpans(q)
<1>1. /\ DOMAIN opts = 1..K /\ Len(opts) = K /\ K \in Nat
      /\ \A i \in 1..K : opts[i] \in Lines
  BY JeffOptions
<1>2. K <= Len(Codes)
  BY <1>1 DEF Jeff!HasCodes
<1>3. \A i \in 1..K : Avoids(opts[i], CodeWords)
  BY OptionsAvoid
<1> HIDE DEF K, opts
<1>4. DOMAIN ss = 1..K /\ \A i \in 1..K : ss[i] = <<Codes[i], ":">> \o opts[i]
  BY <1>1 DEF JeffSpans, opts
<1>5. ss = [i \in 1..K |-> ss[i]]
  BY <1>4 DEF JeffSpans
<1> HIDE DEF ss
<1>6. ASSUME NEW i \in 1..K
      PROVE  /\ ss[i] \in Seq(Strings)
             /\ Len(ss[i]) = Len(opts[i]) + 2 /\ Len(opts[i]) \in Nat
             /\ ss[i][1] = Codes[i] /\ ss[i][2] = ":"
             /\ \A m \in 1..Len(opts[i]) : ss[i][m + 2] = opts[i][m]
  <2> DEFINE z == <<Codes[i], ":">>
             t == opts[i]
  <2>2. z \in Seq(Strings) /\ Len(z) = 2 /\ z[1] = Codes[i] /\ z[2] = ":"
    BY <1>1, <1>2, ShownCodes DEF Strings
  <2>3. t \in Seq(Strings) /\ Len(t) \in Nat
    BY <1>1 DEF Lines
  <2> HIDE DEF z, t
  <2>4. z \in Seq(Strings) /\ t \in Seq(Strings)
    BY <2>2, <2>3
  <2>5. /\ z \o t \in Seq(Strings) /\ Len(z \o t) = Len(z) + Len(t)
        /\ \A m \in 1..Len(z) : (z \o t)[m] = z[m]
        /\ \A m \in 1..Len(t) : (z \o t)[Len(z) + m] = t[m]
    BY <2>4, ConcatIs
  <2>6. ss[i] = z \o t
    BY <1>4 DEF z, t
  <2> QED BY <2>2, <2>3, <2>5, <2>6 DEF t
<1> QED BY <1>1, <1>2, <1>5, <1>6, <1>3 DEF ss, K, opts, Coded

\* A prompt is what the caller asks, free of codes, then the spans, then the end.
LEMMA JeffCoding ==
    ASSUME CodesDiffer, NEW q, GoodQuestion(q), Jeff!HasCodes(q), QuestionFreeOf(q, CodeWords),
           NEW state \in Texts, Avoids(state, CodeWords), NEW row, row.state = state, row.question = q
    PROVE  /\ Jeff!Prompt(row) \in Lines
           /\ \E h \in Nat : Coding(Jeff!Prompt(row), h, JeffSpans(q))
<1> DEFINE ss == JeffSpans(q)
           F == FlattenSeq(ss)
           K == Len(q.criteria)
           instr == Jeff!Or(q.instructions, <<"choose">>)
           R == Range(Codes)
           r == <<"Return">>
           prompt == Jeff!Prompt(row)
<1>1. \A s : Avoids(s, CodeWords) => Avoids(s, R)
  BY DEF Avoids, CodeWords
<1>2. F \in Lines
  <2>1. K \in Nat /\ ss \in [1..K -> Seq(Strings)]
    BY JeffSpansAre
  <2> HIDE DEF ss, K
  <2> QED BY <2>1, FlattenType DEF Lines
<1>3. instr \in Lines /\ Avoids(instr, R)
  <2>1. q.instructions \in {None} \cup Texts
    BY Zenon DEF GoodQuestion
  <2>2. FreeOf(q.instructions, CodeWords)
    BY DEF QuestionFreeOf
  <2> DEFINE d == <<"choose">>
             v == q.instructions
  <2>3. d \in Lines /\ Avoids(d, CodeWords)
    BY LayoutAvoids
  <2> HIDE DEF d, v, instr
  <2> QED BY <1>1, <2>1, <2>2, <2>3, OrAvoids DEF instr, d, v
<1>4. state \in Lines /\ Avoids(state, R)
  BY <1>1, TextIsLine
<1>5. /\ <<"State:">> \in Lines /\ Avoids(<<"State:">>, R)
      /\ <<"Question:">> \in Lines /\ Avoids(<<"Question:">>, R)
      /\ <<"Options:">> \in Lines /\ Avoids(<<"Options:">>, R)
      /\ r \in Lines
  BY LayoutAvoids
<1>6. prompt = <<"State:">> \o state \o <<"Question:">> \o instr \o <<"Options:">> \o F \o r
  BY SameFlatten DEF Jeff!Prompt, JeffSpans
<1> DEFINE a1 == <<"State:">> \o state
           a2 == a1 \o <<"Question:">>
           a3 == a2 \o instr
           a4 == a3 \o <<"Options:">>
           a5 == a4 \o F
<1> HIDE DEF instr, ss, F, R, r, prompt
<1>7. a1 \in Lines /\ Avoids(a1, R)
  BY <1>4, <1>5, AvoidsBoth
<1> HIDE DEF a1
<1>8. a2 \in Lines /\ Avoids(a2, R)
  BY <1>5, <1>7, AvoidsBoth
<1> HIDE DEF a2
<1>9. a3 \in Lines /\ Avoids(a3, R)
  BY <1>3, <1>8, AvoidsBoth
<1> HIDE DEF a3
<1>10. a4 \in Lines /\ Avoids(a4, R)
  BY <1>5, <1>9, AvoidsBoth
<1> HIDE DEF a4
<1>11. prompt = a5 \o r
  BY <1>6, Zenon DEF a1, a2, a3, a4, a5
<1> DEFINE h == Len(a4)
           N == Len(F)
<1>12. a4 \in Seq(Strings) /\ F \in Seq(Strings) /\ r \in Seq(Strings)
  BY <1>2, <1>5, <1>10 DEF Lines
<1>13. /\ a5 \in Seq(Strings) /\ Len(a5) = h + N
       /\ \A i \in 1..h : a5[i] = a4[i]
       /\ \A i \in 1..N : a5[h + i] = F[i]
  BY <1>12, ConcatIs
<1> HIDE DEF a5
<1>14. /\ prompt \in Seq(Strings) /\ Len(prompt) = Len(a5) + Len(r)
       /\ \A i \in 1..Len(a5) : prompt[i] = a5[i]
       /\ \A i \in 1..Len(r) : prompt[Len(a5) + i] = r[i]
  <2>1. a5 \in Seq(Strings) /\ r \in Seq(Strings)
    BY <1>12, <1>13
  <2>2. /\ a5 \o r \in Seq(Strings) /\ Len(a5 \o r) = Len(a5) + Len(r)
        /\ \A i \in 1..Len(a5) : (a5 \o r)[i] = a5[i]
        /\ \A i \in 1..Len(r) : (a5 \o r)[Len(a5) + i] = r[i]
    BY <2>1, ConcatIs
  <2> QED BY <1>11, <2>2, Zenon
<1>15. Len(r) = 1 /\ r[1] = "Return" /\ h \in Nat /\ N \in Nat
  BY <1>12 DEF r
<1> HIDE DEF h, N
<1>18. \A k \in 1..N : prompt[h + k] = F[k]
  BY <1>13, <1>15, <1>14
<1>19. Coding(prompt, h, ss)
  BY <1>15, <1>18, <1>13, <1>14, <1>10 DEF Coding, N, F, R, Avoids, h
<1> QED BY <1>15, <1>19, <1>14 DEF ss, prompt, Lines

\* jeff: what is found at an option's code is the option.
LEMMA JeffReadWhereShown ==
    ASSUME CodesDiffer, NEW q, GoodQuestion(q), Jeff!HasCodes(q), QuestionFreeOf(q, CodeWords),
           NEW state \in Texts, Avoids(state, CodeWords), NEW p, GoodPrepared(p, q), Renders(p, q),
           NEW j \in 1..Len(p.options), engine = "jeff"
    PROVE  ReadWhereShown(p, j, JeffAlone(state, p, j))
<1> DEFINE row == [state |-> state, question |-> q]
           prompt == Jeff!Prompt(row)
           K == Len(q.criteria)
           ss == JeffSpans(q)
           texts == Jeff!Options(q)
           o == p.options[j]
           read == JeffAlone(state, p, j)
<1>1. p.raw = q /\ Len(p.options) = K /\ o.name \in Strings /\ o.description \in Lines
  BY DEF GoodPrepared
<1>2. row.state = state /\ row.question = q
  OBVIOUS
<1> HIDE DEF row
<1>3. prompt \in Lines /\ \E h \in Nat : Coding(prompt, h, ss)
  BY <1>2, JeffCoding
<1>4. K \in Nat /\ K <= Len(Codes) /\ ss \in [1..K -> Seq(Strings)] /\ Coded(ss, K, texts)
  BY JeffSpansAre
<1>5. j \in 1..K /\ texts[j] \in Lines
  BY <1>1, JeffOptions
<1>6. Says(texts[j], o, p.type)
  BY JeffSays
<1>7. read = [code |-> Codes[j], from |-> Distances(prompt)]
  BY <1>1, Zenon DEF JeffAlone, Distances, row
<1> HIDE DEF prompt, K, ss, texts, o, read
<1>8. PICK h \in Nat : Coding(prompt, h, ss)
  BY <1>3
<1> DEFINE c == h + Offset(ss, j) + 1
<1>9. AtCode(prompt, c, Codes[j], texts[j])
  BY <1>4, <1>5, <1>8, CodePlace
<1>10. Avoids(texts[j], CodeWords) /\ Len(prompt) \in Nat /\ DOMAIN prompt = 1..Len(prompt)
  BY <1>3, <1>4, <1>5 DEF Coded, Lines
<1> HIDE DEF c
<1>11. CodeText(Distances(prompt), Codes[j]) = texts[j]
  BY <1>5, <1>9, <1>10, CodeIsBetween
<1>13. Shown(read) = texts[j]
  BY <1>11, <1>7 DEF Shown, IsKev, CodeText, CodeWords
<1> QED BY <1>13, <1>1, <1>6, SaysIs DEF ReadWhereShown, read, o, Spelled, IsKev

-----------------------------------------------------------------------------
(* laya and jeff: when no text is spelled like what their layouts part the  *)
(* options with.                                                            *)

Unambiguous ==
    LET content == call.content
        FreeQuestions(words) ==
            \A i \in 1..Len(content.questions) : QuestionFreeOf(content.questions[i], words)
    IN  /\ engine = "laya" => Avoids(Levels, Marks) /\ FreeQuestions(Marks)
        /\ engine = "jeff" => CodesDiffer /\ Avoids(content.state, CodeWords) /\ FreeQuestions(CodeWords)

\* laya: what is shown of an option avoids the markers if what was written does.
LEMMA OptionFree ==
    ASSUME NEW q, GoodQuestion(q), NEW p, GoodPrepared(p, q), Renders(p, q),
           Avoids(Levels, Marks), QuestionFreeOf(q, Marks), NEW i \in 1..Len(p.options)
    PROVE  OptionAvoids(p.options[i], Marks)
<1>1. /\ p.type = q.type /\ q.type \in {"noul", "choice", "score"}
      /\ i \in 1..Len(q.criteria)
      /\ q.type = "score" => Len(q.criteria) \in 1..Len(Levels)
  BY DEF GoodPrepared, GoodQuestion
<1>2. /\ p.options[i].description = Render(q.criteria[i].value)
      /\ p.type = "choice" => p.options[i].name = q.criteria[i].name
      /\ p.type = "score" => p.options[i].name = Levels[i]
      /\ p.type = "noul" => p.options[i].name \in {"false", "true"}
  BY DEF Renders
<1>3. q.criteria[i].name \notin Marks /\ FreeOf(q.criteria[i].value, Marks)
  BY <1>1 DEF QuestionFreeOf
<1>4. p.options[i].name \notin Marks
  <2>1. CASE p.type = "noul"
    BY <1>2, <2>1 DEF Marks
  <2>2. CASE p.type = "choice"
    BY <1>2, <1>3, <2>2
  <2>3. CASE p.type = "score"
    BY NamesAssumption, <1>1, <2>3, <1>2 DEF Texts, Avoids
  <2> QED BY <1>1, <2>1, <2>2, <2>3
<1>5. Avoids(Render(q.criteria[i].value), Marks)
  <2> DEFINE v == q.criteria[i].value
  <2>1. Avoids(<<>>, Marks)
    BY DEF Avoids
  <2>2. FreeOf(v, Marks)
    BY <1>3
  <2> HIDE DEF v
  <2> QED BY <2>1, <2>2 DEF v, FreeOf, Render
<1> QED BY <1>2, <1>4, <1>5 DEF OptionAvoids

\* Every engine reads an option where it is shown.
LEMMA UnderItsKeyInvariant == IInv => (Answered /\ Unambiguous => ReadUnderItsKey)
<1> SUFFICES ASSUME IInv, Answered, Unambiguous PROVE ReadUnderItsKey
  OBVIOUS
<1>1. CASE IsKev
  BY <1>1, KevUnderItsKeyIs
<1>2. CASE ~IsKev
  <2>1. PICK content \in Contents : Admitted(content) /\ \E predicted : Answers(content, predicted)
    BY AnsweredIs
  <2>2. call.content = content
    BY <2>1, Zenon DEF Answers, IsCall
  <2>3. GoodContent(content)
    BY ContentIs
  <2>4. engine \in {"laya", "jeff"}
    BY <1>2 DEF IInv, Engines, IsKev
  <2>5. ASSUME NEW i \in 1..Len(content.questions), NEW j \in ShownOf(Items(content)[i])
        PROVE  ReadWhereShown(Items(content)[i], j, ReadAlone(Items(content)[i], j))
    <3> DEFINE p == Items(content)[i]
               q == content.questions[i]
               state == Render(content.state)
    <3>1. GoodPrepared(p, q) /\ GoodQuestion(q) /\ p = PrepareQuestion(q)
          /\ DOMAIN Items(content) = 1..Len(content.questions)
      BY <2>3, ItemsAre
    <3>2. Renders(p, q)
      <4> HIDE DEF p, q
      <4> QED BY <3>1, RendersIs
    <3>3. content.state \in Texts
      BY <2>3, Zenon DEF GoodContent
    <3>4. j \in 1..Len(p.options)
      BY <3>1 DEF ShownOf, GoodPrepared
    <3>5. CASE engine = "laya"
      <4>1. state \in Lines
        BY <3>3, RenderIs
      <4>2. Avoids(Levels, Marks) /\ QuestionFreeOf(q, Marks)
        BY <2>2, <3>5 DEF Unambiguous
      <4>3. ReadAlone(p, j) = LayaAlone(state, p, j)
        <5> HIDE DEF p
        <5> QED BY <2>2, <3>5 DEF ReadAlone, IsKev
      <4> HIDE DEF p, q, state
      <4> QED BY <4>3, <3>1, <3>2, <3>4, <3>5, <4>1, LayaReadWhereShown, <4>2, OptionFree DEF p
    <3>6. CASE engine = "jeff"
      <4>1. CodesDiffer /\ Avoids(content.state, CodeWords) /\ QuestionFreeOf(q, CodeWords)
        BY <2>2, <3>6 DEF Unambiguous
      <4>2. Jeff!HasCodes(q)
        BY <3>1, <2>1, <3>6 DEF Admitted, Items, GoodPrepared
      <4>3. ReadAlone(p, j) = JeffAlone(content.state, p, j)
        <5> HIDE DEF p
        <5> QED BY <2>2, <3>6 DEF ReadAlone, IsKev
      <4> HIDE DEF p, q
      <4> QED BY <4>3, <3>1, <3>2, <3>3, <3>4, <3>6, <4>1, <4>2, JeffReadWhereShown DEF p
    <3> QED BY <2>4, <3>5, <3>6
  <2>6. AllWhereShown(content)
    BY <2>5, Zenon DEF AllWhereShown
  <2> QED BY <2>2, <2>6, UnderItsKeyIs
<1> QED BY <1>1, <1>2

\* Every engine: what is published under a wire key was read at the words the caller
\* wrote for it, through names, levels, "no" and "yes", markers and answer codes, as
\* far as the texts let one see where an option ends (answers.py:30-36,
\* laya.py:556-574, _jeff_vendor/model.py:50-57).
THEOREM UnderItsKey == Spec => [](Answered /\ Unambiguous => ReadUnderItsKey)
BY Inductive, UnderItsKeyInvariant, PTL
=============================================================================
