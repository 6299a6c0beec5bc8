----------------------------- MODULE CodexProofs -----------------------------
(***************************************************************************)
(* Theorems about module CodexSession, for any subagents, starters, cap    *)
(* and bounds.                                                             *)
(*                                                                         *)
(* The first part is what the operators of the model compute: a fold's     *)
(* recursive function is shown to exist, and the smallest set or number    *)
(* that would refute a claim stands in for an induction. The second is a   *)
(* file: what the reader has made of its first lines. The third is the     *)
(* invariant and its steps.                                                *)
(***************************************************************************)
EXTENDS CodexSession, TLAPS, FiniteSetTheorems, WellFoundedInduction

(* A nonempty set of numbers has a least one. *)
LEMMA LeastNumber ==
  ASSUME NEW T, T \subseteq Nat, T # {}
  PROVE  \E x \in T : \A y \in T : x <= y
<1> DEFINE R == OpToRel(<, Nat)
<1>1. IsWellFoundedOn(R, Nat)
  BY NatLessThanWellFounded
<1>2. \A a, b \in Nat : a < b => <<a, b>> \in R
  BY DEF OpToRel
<1> HIDE DEF R
<1>3. PICK x \in T : \A y \in T : ~ (<<y, x>> \in R)
  BY <1>1, WFMin
<1>4. \A y \in T : ~(y < x)
  BY <1>2, <1>3
<1> QED BY <1>3, <1>4

(* Some subset of a finite set with a property has no smaller one with it. *)
LEMMA SmallestSet ==
  ASSUME NEW K, IsFiniteSet(K), NEW B, B \subseteq SUBSET K, B # {}
  PROVE  \E s \in B : \A t \in SUBSET s : t # s => t \notin B
<1> DEFINE Sizes == {Cardinality(s) : s \in B}
<1>1. \A s \in B : IsFiniteSet(s) /\ Cardinality(s) \in Nat
  BY FS_Subset, FS_CardinalityType
<1>2. Sizes \subseteq Nat /\ Sizes # {}
  BY <1>1
<1>3. PICK n \in Sizes : \A m \in Sizes : n <= m
  <2> HIDE DEF Sizes
  <2> QED BY <1>2, LeastNumber
<1>4. PICK s \in B : n = Cardinality(s)
  OBVIOUS
<1>5. ASSUME NEW t \in SUBSET s, t # s, t \in B PROVE FALSE
  <2>1. Cardinality(t) < Cardinality(s)
    BY <1>1, <1>5, FS_Subset
  <2>2. Cardinality(s) <= Cardinality(t)
    BY <1>3, <1>4, <1>5
  <2> QED BY <2>1, <2>2, <1>1, <1>5
<1> QED BY <1>5

(* A fold of h over the subsets of K, which takes next[s] out of a set s.  *)
Folds(h, base0, next, K, p) ==
  /\ DOMAIN p = SUBSET K
  /\ \A s \in SUBSET K : p[s] = IF s = {} THEN base0 ELSE h[next[s]][p[s \ {next[s]}]]

(* Two such folds agree where both are. *)
LEMMA FoldsAgree ==
  ASSUME NEW h, NEW base0, NEW next, NEW A, NEW B, NEW p, NEW q,
         Folds(h, base0, next, A, p), Folds(h, base0, next, B, q),
         NEW u, u \subseteq A, u \subseteq B, IsFiniteSet(u),
         \A s \in SUBSET u : s # {} => next[s] \in s
  PROVE  p[u] = q[u]
<1> DEFINE Bad == {s \in SUBSET u : p[s] # q[s]}
<1> SUFFICES ASSUME u \in Bad PROVE FALSE
  OBVIOUS
<1>1. PICK s \in Bad : \A t \in SUBSET s : t # s => t \notin Bad
  <2>1. Bad \subseteq SUBSET u /\ Bad # {}
    OBVIOUS
  <2> HIDE DEF Bad
  <2> QED BY <2>1, SmallestSet
<1>2. s # {}
  BY DEF Folds
<1>3. next[s] \in s
  BY <1>2
<1>4. p[s \ {next[s]}] = q[s \ {next[s]}]
  BY <1>1, <1>3
<1> QED BY <1>2, <1>4 DEF Folds

(* There is one for every finite set. *)
LEMMA FoldExists ==
  ASSUME NEW K, IsFiniteSet(K), NEW V, NEW base0 \in V, NEW h \in [K -> [V -> V]],
         NEW next, \A s \in SUBSET K : s # {} => next[s] \in s
  PROVE  \E p \in [SUBSET K -> V] : Folds(h, base0, next, K, p)
<1> DEFINE Good(s, p) == p \in [SUBSET s -> V] /\ Folds(h, base0, next, s, p)
           Bad == {s \in SUBSET K : ~\E p : Good(s, p)}
<1> SUFFICES ASSUME K \in Bad PROVE FALSE
  OBVIOUS
<1>1. PICK s \in Bad : \A t \in SUBSET s : t # s => t \notin Bad
  <2>1. Bad \subseteq SUBSET K /\ Bad # {}
    OBVIOUS
  <2> HIDE DEF Bad
  <2> QED BY <2>1, SmallestSet
<1>2. s # {}
  <2> SUFFICES ASSUME s = {} PROVE FALSE
    OBVIOUS
  <2> DEFINE z == [t \in SUBSET s |-> base0]
  <2>1. z \in [SUBSET s -> V]
    OBVIOUS
  <2>2. Folds(h, base0, next, s, z)
    BY DEF Folds
  <2> HIDE DEF z
  <2> QED BY <2>1, <2>2, <1>1
<1> DEFINE P == [x \in s |-> CHOOSE p : Good(s \ {x}, p)]
<1>3. \A x \in s : P[x] \in [SUBSET (s \ {x}) -> V] /\ Folds(h, base0, next, s \ {x}, P[x])
  <2> TAKE x \in s
  <2>1. s \ {x} \in SUBSET K /\ s \ {x} \notin Bad
    <3>1. s \ {x} \in SUBSET s /\ s \ {x} # s
      OBVIOUS
    <3>2. s \ {x} \notin Bad
      BY <1>1, <3>1
    <3>3. s \in SUBSET K
      BY <1>1
    <3> QED BY <3>1, <3>2, <3>3
  <2>2. \E p : Good(s \ {x}, p)
    BY <2>1
  <2> HIDE DEF Good
  <2>3. Good(s \ {x}, CHOOSE p : Good(s \ {x}, p))
    BY <2>2
  <2>4. Good(s \ {x}, P[x])
    BY <2>3
  <2> QED BY <2>4 DEF Good
<1> HIDE DEF P
<1>4. IsFiniteSet(s)
  BY FS_Subset
<1>5. \A x, y \in s : \A u \in SUBSET s : x \notin u /\ y \notin u => P[x][u] = P[y][u]
  <2> TAKE x \in s, y \in s
  <2> TAKE u \in SUBSET s
  <2> HAVE x \notin u /\ y \notin u
  <2>1. IsFiniteSet(u) /\ \A v \in SUBSET u : v # {} => next[v] \in v
    BY <1>4, FS_Subset
  <2>2. u \subseteq s \ {x} /\ u \subseteq s \ {y}
    OBVIOUS
  <2>3. Folds(h, base0, next, s \ {x}, P[x]) /\ Folds(h, base0, next, s \ {y}, P[y])
    BY <1>3
  <2> QED BY <2>1, <2>2, <2>3, FoldsAgree
<1> DEFINE n == next[s]
           Left(t) == CHOOSE x \in s : x \notin t
           q == [t \in SUBSET s |-> IF t = s THEN h[n][P[n][s \ {n}]] ELSE P[Left(t)][t]]
<1>6. n \in s
  BY <1>2
<1>7. \A t \in SUBSET s : t # s => Left(t) \in s /\ Left(t) \notin t
  OBVIOUS
<1> HIDE DEF Left, n
<1>8. q \in [SUBSET s -> V]
  <2>1. ASSUME NEW t \in SUBSET s, t # s PROVE P[Left(t)][t] \in V
    <3>1. Left(t) \in s /\ t \in SUBSET (s \ {Left(t)})
      BY <1>7, <2>1
    <3>2. P[Left(t)] \in [SUBSET (s \ {Left(t)}) -> V]
      BY <1>3, <3>1
    <3> QED BY <3>1, <3>2
  <2>2. P[n][s \ {n}] \in V
    <3>1. P[n] \in [SUBSET (s \ {n}) -> V]
      BY <1>3, <1>6
    <3> QED BY <3>1
  <2>3. h[n][P[n][s \ {n}]] \in V
    BY <2>2, <1>6
  <2> QED BY <2>1, <2>3
<1>9. \A x \in s : \A u \in SUBSET s : x \notin u => q[u] = P[x][u]
  <2> TAKE x \in s
  <2> TAKE u \in SUBSET s
  <2> HAVE x \notin u
  <2>1. q[u] = P[Left(u)][u]
    OBVIOUS
  <2>2. Left(u) \in s /\ Left(u) \notin u
    BY <1>7
  <2> QED BY <2>1, <2>2, <1>5
<1>10. q[s] = h[n][q[s \ {n}]]
  <2>1. q[s] = h[n][P[n][s \ {n}]]
    OBVIOUS
  <2> HIDE DEF q
  <2> QED BY <2>1, <1>6, <1>9
<1>11. DOMAIN q = SUBSET s
  OBVIOUS
<1> HIDE DEF q
<1>12. Folds(h, base0, next, s, q)
  <2> SUFFICES ASSUME NEW t \in SUBSET s
               PROVE  q[t] = IF t = {} THEN base0 ELSE h[next[t]][q[t \ {next[t]}]]
    BY <1>11 DEF Folds
  <2>1. CASE t = s
    BY <2>1, <1>2, <1>10 DEF n
  <2>2. CASE t # s
    <3>1. PICK x \in s : x \notin t
      BY <2>2
    <3>2. P[x][t] = IF t = {} THEN base0 ELSE h[next[t]][P[x][t \ {next[t]}]]
      <4>1. Folds(h, base0, next, s \ {x}, P[x])
        BY <1>3
      <4>2. t \in SUBSET (s \ {x})
        BY <3>1
      <4> QED BY <4>1, <4>2 DEF Folds
    <3>3. q[t] = P[x][t] /\ q[t \ {next[t]}] = P[x][t \ {next[t]}]
      BY <1>9, <3>1
    <3> QED BY <3>2, <3>3
  <2> QED BY <2>1, <2>2
<1>13. Good(s, q)
  BY <1>8, <1>12
<1> QED BY <1>1, <1>13

-----------------------------------------------------------------------------
(* Sums.                                                                   *)

LEMMA ThreadsFinite == IsFiniteSet(Thread)
BY CodexSessionAssumption, FS_Singleton, FS_Union DEF Thread

(* A sum over the threads is a number, and any of them may be taken out of it first. *)
Sums(f, p) ==
  /\ p \in [SUBSET Thread -> Nat] /\ p[{}] = 0
  /\ \A S \in SUBSET Thread : \A x \in S : p[S] = f[x] + p[S \ {x}]

LEMMA SumExists ==
  ASSUME NEW f \in [Thread -> Nat]
  PROVE  \E p : Sums(f, p) /\ \A S \in SUBSET Thread : SumFunctionOnSet(f, S) = p[S]
<1> DEFINE h == [x \in Thread |-> [v \in Nat |-> f[x] + v]]
           one(s) == CHOOSE x \in s : TRUE
           next == [s \in SUBSET Thread |-> one(s)]
<1>1. h \in [Thread -> [Nat -> Nat]] /\ \A x \in Thread : \A v \in Nat : h[x][v] = f[x] + v
  OBVIOUS
<1>2. \A s \in SUBSET Thread : s # {} => next[s] \in s
  OBVIOUS
<1>3. PICK p \in [SUBSET Thread -> Nat] : Folds(h, 0, next, Thread, p)
  <2> HIDE DEF h, next
  <2> QED BY <1>1, <1>2, ThreadsFinite, FoldExists
<1>4. \A s \in SUBSET Thread : p[s] = IF s = {} THEN 0 ELSE f[next[s]] + p[s \ {next[s]}]
  <2> TAKE s \in SUBSET Thread
  <2>1. p[s] = IF s = {} THEN 0 ELSE h[next[s]][p[s \ {next[s]}]]
    BY <1>3 DEF Folds
  <2>2. p[s \ {next[s]}] \in Nat
    OBVIOUS
  <2> HIDE DEF h, next
  <2> QED BY <2>1, <2>2, <1>1, <1>2
<1>5. ASSUME NEW S \in SUBSET Thread PROVE SumFunctionOnSet(f, S) = p[S]
  <2> DEFINE F(it) == [s \in SUBSET S |-> IF s = {} THEN 0 ELSE f[one(s)] + it[s \ {one(s)}]]
             g == CHOOSE it : it = F(it)
  <2>1. SumFunctionOnSet(f, S) = g[S]
    BY DEF SumFunctionOnSet, FoldFunctionOnSet, MapThenFoldSet
  <2>2. \E it : it = F(it)
    <3> DEFINE q == [s \in SUBSET S |-> p[s]]
    <3>1. \A s \in SUBSET S : q[s] = IF s = {} THEN 0 ELSE f[one(s)] + q[s \ {one(s)}]
      BY <1>4
    <3>2. q = F(q)
      BY <3>1
    <3> QED BY <3>2
  <2>3. g = F(g)
    <3> HIDE DEF F
    <3> QED BY <2>2
  <2> HIDE DEF g
  <2> DEFINE Bad == {s \in SUBSET S : g[s] # p[s]}
  <2>4. Bad = {}
    <3> SUFFICES ASSUME Bad # {} PROVE FALSE
      OBVIOUS
    <3>1. IsFiniteSet(S)
      BY ThreadsFinite, FS_Subset
    <3>2. PICK s \in Bad : \A t \in SUBSET s : t # s => t \notin Bad
      <4>1. Bad \subseteq SUBSET S
        OBVIOUS
      <4> HIDE DEF Bad
      <4> QED BY <3>1, <4>1, SmallestSet
    <3>3. g[s] = IF s = {} THEN 0 ELSE f[one(s)] + g[s \ {one(s)}]
      BY <2>3
    <3>4. p[s] = IF s = {} THEN 0 ELSE f[one(s)] + p[s \ {one(s)}]
      BY <1>4
    <3>5. s # {} => g[s \ {one(s)}] = p[s \ {one(s)}]
      BY <3>2
    <3> QED BY <3>3, <3>4, <3>5
  <2> QED BY <2>1, <2>4
<1>6. p[{}] = 0
  BY <1>4
<1> DEFINE Odd == {S \in SUBSET Thread : \E x \in S : p[S] # f[x] + p[S \ {x}]}
<1>7. Odd = {}
  <2> SUFFICES ASSUME Odd # {} PROVE FALSE
    OBVIOUS
  <2>1. PICK s \in Odd : \A t \in SUBSET s : t # s => t \notin Odd
    <3>1. Odd \subseteq SUBSET Thread
      OBVIOUS
    <3> HIDE DEF Odd
    <3> QED BY <3>1, ThreadsFinite, SmallestSet
  <2>2. PICK x \in s : p[s] # f[x] + p[s \ {x}]
    OBVIOUS
  <2> DEFINE y == next[s]
  <2>3. y \in s /\ p[s] = f[y] + p[s \ {y}]
    <3>1. y \in s
      BY <1>2
    <3> HIDE DEF next
    <3> QED BY <3>1, <1>4
  <2> HIDE DEF y
  <2>4. x # y
    BY <2>2, <2>3
  <2>5. p[s \ {y}] = f[x] + p[(s \ {y}) \ {x}]
    <3>1. s \ {y} \in SUBSET s /\ s \ {y} # s /\ s \ {y} \in SUBSET Thread /\ x \in s \ {y}
      BY <2>3, <2>4
    <3> QED BY <2>1, <3>1
  <2>6. p[s \ {x}] = f[y] + p[(s \ {x}) \ {y}]
    <3>1. s \ {x} \in SUBSET s /\ s \ {x} # s /\ s \ {x} \in SUBSET Thread /\ y \in s \ {x}
      BY <2>3, <2>4
    <3> QED BY <2>1, <3>1
  <2>7. (s \ {y}) \ {x} = (s \ {x}) \ {y}
    OBVIOUS
  <2> DEFINE a == f[x]
             b == f[y]
             c == p[(s \ {x}) \ {y}]
  <2>8. p[s] = b + (a + c)
    BY <2>3, <2>5, <2>7
  <2>9. p[s \ {x}] = b + c
    BY <2>6
  <2>10. a \in Nat /\ b \in Nat /\ c \in Nat
    BY <2>3
  <2>11. p[s] # a + p[s \ {x}]
    BY <2>2
  <2> HIDE DEF a, b, c
  <2> QED BY <2>8, <2>9, <2>10, <2>11
<1>8. Sums(f, p)
  BY <1>6, <1>7 DEF Sums
<1> QED BY <1>5, <1>8

(* A sum over more threads, each at least as large, is at least as large. *)
LEMMA SumGrows ==
  ASSUME NEW f \in [Thread -> Nat], NEW g \in [Thread -> Nat],
         NEW S, NEW T, S \subseteq T, T \subseteq Thread, \A x \in S : f[x] <= g[x]
  PROVE  /\ SumFunctionOnSet(f, S) <= SumFunctionOnSet(g, T)
         /\ SumFunctionOnSet(f, S) \in Nat /\ SumFunctionOnSet(g, T) \in Nat
<1>1. PICK p : Sums(f, p) /\ \A U \in SUBSET Thread : SumFunctionOnSet(f, U) = p[U]
  BY SumExists
<1>2. PICK q : Sums(g, q) /\ \A U \in SUBSET Thread : SumFunctionOnSet(g, U) = q[U]
  BY SumExists
<1> DEFINE Bad == {t \in SUBSET T : ~(p[S \cap t] <= q[t])}
<1>3. Bad = {}
  <2> SUFFICES ASSUME Bad # {} PROVE FALSE
    OBVIOUS
  <2>1. PICK t \in Bad : \A u \in SUBSET t : u # t => u \notin Bad
    <3>1. Bad \subseteq SUBSET T /\ IsFiniteSet(T)
      BY ThreadsFinite, FS_Subset
    <3> HIDE DEF Bad
    <3> QED BY <3>1, SmallestSet
  <2>2. p[{}] = 0 /\ q[{}] = 0
    BY <1>1, <1>2 DEF Sums
  <2>3. PICK x \in t : TRUE
    <3>1. S \cap {} = {}
      OBVIOUS
    <3>2. p[S \cap {}] <= q[{}]
      BY <2>2, <3>1
    <3>3. t # {}
      BY <3>2
    <3> QED BY <3>3
  <2> DEFINE u == t \ {x}
  <2>4. p[S \cap u] <= q[u]
    <3>1. u \in SUBSET t /\ u # t /\ u \in SUBSET T
      OBVIOUS
    <3> QED BY <2>1, <3>1
  <2>5. t \in SUBSET Thread /\ S \cap u \in SUBSET Thread /\ u \in SUBSET Thread
    OBVIOUS
  <2>6. q[t] = g[x] + q[u]
    BY <1>2, <2>5 DEF Sums
  <2>7. p[S \cap u] \in Nat /\ q[u] \in Nat /\ f[x] \in Nat /\ g[x] \in Nat
    BY <1>1, <1>2, <2>5 DEF Sums
  <2>8. CASE x \in S
    <3>1. S \cap t \in SUBSET Thread /\ x \in S \cap t /\ (S \cap t) \ {x} = S \cap u
      BY <2>8
    <3>2. p[S \cap t] = f[x] + p[S \cap u]
      <4>1. p[S \cap t] = f[x] + p[(S \cap t) \ {x}]
        BY <3>1, <1>1 DEF Sums
      <4> QED BY <3>1, <4>1
    <3>3. f[x] <= g[x]
      BY <2>8
    <3> HIDE DEF u
    <3>4. p[S \cap t] <= q[t]
      BY <2>4, <2>6, <2>7, <3>2, <3>3
    <3> QED BY <2>1, <3>4
  <2>9. CASE x \notin S
    <3>1. p[S \cap t] = p[S \cap u]
      <4>1. S \cap t = S \cap u
        BY <2>9
      <4> QED BY <4>1
    <3> HIDE DEF u
    <3>2. p[S \cap t] <= q[t]
      BY <2>4, <2>6, <2>7, <3>1
    <3> QED BY <2>1, <3>2
  <2> QED BY <2>8, <2>9
<1>4. p[S \cap T] <= q[T]
  BY <1>3
<1>5. S \cap T = S /\ S \in SUBSET Thread /\ T \in SUBSET Thread
  OBVIOUS
<1>6. p[S] \in Nat /\ q[T] \in Nat
  BY <1>1, <1>2, <1>5 DEF Sums
<1> QED BY <1>1, <1>2, <1>4, <1>5, <1>6

(* Threads that add nothing may be left out of a sum. *)
LEMMA SumDropsZeros ==
  ASSUME NEW f \in [Thread -> Nat], NEW g \in [Thread -> Nat], NEW S, NEW T, S \subseteq T, T \subseteq Thread,
         \A x \in S : f[x] = g[x], \A x \in T \ S : g[x] = 0
  PROVE  SumFunctionOnSet(f, S) = SumFunctionOnSet(g, T)
<1>1. PICK p : Sums(f, p) /\ \A U \in SUBSET Thread : SumFunctionOnSet(f, U) = p[U]
  BY SumExists
<1>2. PICK q : Sums(g, q) /\ \A U \in SUBSET Thread : SumFunctionOnSet(g, U) = q[U]
  BY SumExists
<1> DEFINE Bad == {t \in SUBSET T : p[S \cap t] # q[t]}
<1>3. Bad = {}
  <2> SUFFICES ASSUME Bad # {} PROVE FALSE
    OBVIOUS
  <2>1. PICK t \in Bad : \A u \in SUBSET t : u # t => u \notin Bad
    <3>1. Bad \subseteq SUBSET T /\ IsFiniteSet(T)
      BY ThreadsFinite, FS_Subset
    <3> HIDE DEF Bad
    <3> QED BY <3>1, SmallestSet
  <2>2. p[{}] = 0 /\ q[{}] = 0
    BY <1>1, <1>2 DEF Sums
  <2>3. PICK x \in t : TRUE
    <3>1. S \cap {} = {}
      OBVIOUS
    <3>2. t # {}
      BY <2>2, <3>1
    <3> QED BY <3>2
  <2> DEFINE u == t \ {x}
  <2>4. p[S \cap u] = q[u]
    <3>1. u \in SUBSET t /\ u # t /\ u \in SUBSET T
      OBVIOUS
    <3> QED BY <2>1, <3>1
  <2>5. t \in SUBSET Thread /\ S \cap u \in SUBSET Thread /\ u \in SUBSET Thread
    OBVIOUS
  <2>6. q[t] = g[x] + q[u]
    BY <1>2, <2>5 DEF Sums
  <2>7. q[u] \in Nat
    BY <1>2, <2>5 DEF Sums
  <2>8. CASE x \in S
    <3>1. S \cap t \in SUBSET Thread /\ x \in S \cap t /\ (S \cap t) \ {x} = S \cap u
      BY <2>8
    <3>2. p[S \cap t] = f[x] + p[S \cap u]
      <4>1. p[S \cap t] = f[x] + p[(S \cap t) \ {x}]
        BY <3>1, <1>1 DEF Sums
      <4> QED BY <3>1, <4>1
    <3>3. f[x] = g[x]
      BY <2>8
    <3> HIDE DEF u
    <3>4. p[S \cap t] = q[t]
      BY <2>4, <2>6, <3>2, <3>3
    <3> QED BY <2>1, <3>4
  <2>9. CASE x \notin S
    <3>1. p[S \cap t] = p[S \cap u]
      <4>1. S \cap t = S \cap u
        BY <2>9
      <4> QED BY <4>1
    <3>2. g[x] = 0
      BY <2>9
    <3> HIDE DEF u
    <3>3. p[S \cap t] = q[t]
      BY <2>4, <2>6, <2>7, <3>1, <3>2
    <3> QED BY <2>1, <3>3
  <2> QED BY <2>8, <2>9
<1>4. p[S \cap T] = q[T]
  BY <1>3
<1>5. S \cap T = S /\ S \in SUBSET Thread /\ T \in SUBSET Thread
  OBVIOUS
<1> QED BY <1>1, <1>2, <1>4, <1>5

(* Nothing in a sum of 0 is more than 0. *)
LEMMA SumZero ==
  ASSUME NEW f \in [Thread -> Nat], NEW S \in SUBSET Thread, SumFunctionOnSet(f, S) = 0, NEW x \in S
  PROVE  f[x] = 0
<1>1. PICK p : Sums(f, p) /\ \A U \in SUBSET Thread : SumFunctionOnSet(f, U) = p[U]
  BY SumExists
<1>2. p[S] = f[x] + p[S \ {x}] /\ p[S \ {x}] \in Nat /\ f[x] \in Nat
  BY <1>1 DEF Sums
<1>3. p[S] = 0
  BY <1>1
<1> HIDE DEF Sums
<1> QED BY <1>2, <1>3

-----------------------------------------------------------------------------
(* The fold of a log over lines.                                           *)

(* A set of numbers that holds 0 and the next of each holds all up to n. *)
LEMMA Upward ==
  ASSUME NEW n \in Nat, NEW P, 0 \in P, \A k \in 1..n : k - 1 \in P => k \in P
  PROVE  \A k \in 0..n : k \in P
<1> DEFINE Bad == {k \in 0..n : k \notin P}
<1> SUFFICES ASSUME Bad # {} PROVE FALSE
  OBVIOUS
<1>1. PICK k \in Bad : \A m \in Bad : k <= m
  <2>1. Bad \subseteq Nat
    OBVIOUS
  <2> HIDE DEF Bad
  <2> QED BY <2>1, LeastNumber
<1>2. k \in 1..n
  OBVIOUS
<1>3. k - 1 \in 0..n /\ ~(k <= k - 1)
  BY <1>2
<1>4. k - 1 \in P
  BY <1>1, <1>3
<1> QED BY <1>2, <1>4

AnyLine == [kind : {"meta", "task", "tool", "usage", "bad"}, total : Nat]
AnyLog == [version : BOOLEAN, tasks : Nat, settled : Nat, requests : Nat, problem : BOOLEAN, sent : BOOLEAN]

LEMMA ApplyType == ASSUME NEW l \in AnyLog, NEW x \in AnyLine PROVE apply(l, x) \in AnyLog
<1> USE DEF AnyLog, AnyLine
<1>1. CASE l.problem
  BY <1>1 DEF apply
<1>2. CASE ~l.problem /\ x.kind = "usage"
  <2>1. apply(l, x) = settle(l, x.total)
    BY <1>2 DEF apply
  <2>2. settle(l, x.total) \in AnyLog
    <3>1. CASE ~l.version
      BY <3>1 DEF settle, refuse
    <3>2. CASE l.version /\ x.total = l.settled
      BY <3>2 DEF settle, refuse
    <3>3. CASE l.version /\ x.total = l.settled + 1
      <4>1. x.total # l.settled /\ l.settled + 1 \in Nat /\ l.requests + 1 \in Nat
        BY <3>3
      <4>2. settle(l, x.total) = [l EXCEPT !.settled = x.total, !.requests = @ + 1, !.sent = FALSE]
        BY <3>3, <4>1 DEF settle
      <4> QED BY <4>1, <4>2
    <3>4. CASE l.version /\ x.total # l.settled /\ x.total # l.settled + 1
      BY <3>4 DEF settle, refuse
    <3> QED BY <3>1, <3>2, <3>3, <3>4
  <2> QED BY <2>1, <2>2
<1>3. CASE ~l.problem /\ x.kind # "usage"
  <2>1. x.kind \in {"meta", "task", "tool", "bad"}
    BY <1>3
  <2>2. CASE x.kind = "meta"
    BY <1>3, <2>2 DEF apply
  <2>3. CASE x.kind = "task"
    <3>1. l.tasks + 1 \in Nat
      OBVIOUS
    <3>2. apply(l, x) = [l EXCEPT !.tasks = @ + 1, !.sent = TRUE]
      BY <1>3, <2>3 DEF apply
    <3> QED BY <3>1, <3>2
  <2>4. CASE x.kind = "tool"
    BY <1>3, <2>4 DEF apply
  <2>5. CASE x.kind = "bad"
    BY <1>3, <2>5 DEF apply, refuse
  <2> QED BY <2>1, <2>2, <2>3, <2>4, <2>5
<1> QED BY <1>1, <1>2, <1>3

(* r is the log after each line of s. *)
Logs(l, s, r) ==
  /\ r \in [0..Len(s) -> AnyLog] /\ r[0] = l
  /\ \A k \in 1..Len(s) : r[k] = apply(r[k - 1], s[k])

LEMMA FoldLogs ==
  ASSUME NEW l \in AnyLog, NEW s \in Seq(AnyLine)
  PROVE  \E r : Logs(l, s, r) /\ FoldLeft(apply, l, s) = r[Len(s)]
<1> DEFINE n == Len(s)
           K == 1..n
           h == [i \in K |-> [v \in AnyLog |-> apply(v, s[i])]]
           next == [t \in SUBSET K |-> Max(t)]
<1>1. n \in Nat /\ IsFiniteSet(K) /\ K \subseteq Nat /\ DOMAIN s = K
  BY FS_Interval
<1>2. \A i \in K : s[i] \in AnyLine
  OBVIOUS
<1>3. h \in [K -> [AnyLog -> AnyLog]] /\ \A i \in K : \A v \in AnyLog : h[i][v] = apply(v, s[i])
  BY <1>2, ApplyType
<1>4. \A t \in SUBSET K : t # {} => Max(t) \in t
  <2> TAKE t \in SUBSET K
  <2> HAVE t # {}
  <2> DEFINE T == {n - i : i \in t}
  <2>1. T \subseteq Nat /\ T # {}
    <3>1. \A i \in t : n - i \in Nat
      BY <1>1
    <3> QED BY <3>1
  <2>2. PICK x \in T : \A y \in T : x <= y
    <3> HIDE DEF T
    <3> QED BY <2>1, LeastNumber
  <2>3. PICK m \in t : x = n - m
    OBVIOUS
  <2>4. \A i \in t : n - m <= n - i
    BY <2>2, <2>3
  <2>5. \A i \in t : m >= i
    BY <2>4, <1>1
  <2> QED BY <2>3, <2>5 DEF Max
<1>5. \A t \in SUBSET K : t # {} => next[t] \in t
  BY <1>4
<1>6. PICK p \in [SUBSET K -> AnyLog] : Folds(h, l, next, K, p)
  <2> HIDE DEF K, h, next
  <2> QED BY <1>1, <1>3, <1>5, FoldExists
<1> HIDE DEF h
<1>7. \A t \in SUBSET K : p[t] = IF t = {} THEN l ELSE apply(p[t \ {Max(t)}], s[Max(t)])
  <2> TAKE t \in SUBSET K
  <2>1. p[t] = IF t = {} THEN l ELSE h[Max(t)][p[t \ {Max(t)}]]
    BY <1>6 DEF Folds
  <2>2. p[t \ {Max(t)}] \in AnyLog
    OBVIOUS
  <2> QED BY <2>1, <2>2, <1>3, <1>4
<1>8. FoldLeft(apply, l, s) = p[K]
  <2> DEFINE F(it) == [t \in SUBSET K |-> IF t = {} THEN l ELSE apply(it[t \ {Max(t)}], s[Max(t)])]
             g == CHOOSE it : it = F(it)
  <2>1. FoldLeft(apply, l, s) = g[K]
    BY <1>1 DEF FoldLeft, MapThenFoldSet
  <2>2. p = F(p)
    BY <1>7
  <2>3. g = F(g)
    <3> HIDE DEF F
    <3> QED BY <2>2
  <2> HIDE DEF g
  <2> DEFINE Bad == {t \in SUBSET K : g[t] # p[t]}
  <2>4. Bad = {}
    <3> SUFFICES ASSUME Bad # {} PROVE FALSE
      OBVIOUS
    <3>1. PICK t \in Bad : \A u \in SUBSET t : u # t => u \notin Bad
      <4>1. Bad \subseteq SUBSET K
        OBVIOUS
      <4> HIDE DEF Bad, K
      <4> QED BY <1>1, <4>1, SmallestSet
    <3>2. g[t] = IF t = {} THEN l ELSE apply(g[t \ {Max(t)}], s[Max(t)])
      BY <2>3
    <3>3. p[t] = IF t = {} THEN l ELSE apply(p[t \ {Max(t)}], s[Max(t)])
      BY <1>7
    <3>4. t # {} => g[t \ {Max(t)}] = p[t \ {Max(t)}]
      BY <3>1, <1>4
    <3> QED BY <3>2, <3>3, <3>4
  <2> QED BY <2>1, <2>4
<1> DEFINE r == [k \in 0..n |-> p[1..k]]
<1>9. r \in [0..n -> AnyLog]
  <2>1. \A k \in 0..n : 1..k \in SUBSET K
    BY <1>1
  <2> HIDE DEF K
  <2> QED BY <2>1
<1>10. r[0] = l
  <2>1. 1..0 = {} /\ 0 \in 0..n
    BY <1>1
  <2> QED BY <2>1, <1>7
<1>11. ASSUME NEW k \in 1..n PROVE r[k] = apply(r[k - 1], s[k])
  <2>1. 1..k \in SUBSET K /\ k \in 1..k /\ k \in 0..n /\ k - 1 \in 0..n
    BY <1>1
  <2>2. Max(1..k) = k
    BY <2>1 DEF Max
  <2>3. (1..k) \ {k} = 1..(k - 1)
    BY <2>1
  <2>4. 1..k # {}
    BY <2>1
  <2>5. p[1..k] = apply(p[(1..k) \ {k}], s[k])
    BY <2>1, <2>2, <2>4, <1>7
  <2>6. p[1..k] = apply(p[1..(k - 1)], s[k])
    BY <2>3, <2>5
  <2> QED BY <2>1, <2>6
<1>12. n \in 0..n /\ r[n] = p[K]
  BY <1>1
<1> HIDE DEF r
<1>13. Logs(l, s, r)
  BY <1>9, <1>10, <1>11 DEF Logs
<1> QED BY <1>8, <1>12, <1>13

(* Two such folds agree on lines they share. *)
LEMMA LogsAgree ==
  ASSUME NEW l, NEW s, NEW t, NEW r, NEW q, Logs(l, s, r), Logs(l, t, q),
         NEW n \in Nat, n <= Len(s), n <= Len(t), Len(s) \in Nat, Len(t) \in Nat, \A k \in 1..n : s[k] = t[k]
  PROVE  \A k \in 0..n : r[k] = q[k]
<1> DEFINE P == {k \in 0..n : r[k] = q[k]}
<1>1. 0 \in P
  BY DEF Logs
<1>2. ASSUME NEW k \in 1..n, k - 1 \in P PROVE k \in P
  <2>1. r[k - 1] = q[k - 1]
    BY <1>2
  <2>2. r[k] = apply(r[k - 1], s[k]) /\ q[k] = apply(q[k - 1], t[k]) /\ s[k] = t[k]
    BY DEF Logs
  <2> QED BY <2>1, <2>2
<1> HIDE DEF P
<1>3. \A k \in 0..n : k \in P
  BY <1>1, <1>2, Upward
<1> QED BY <1>3 DEF P

(* What the reader has made of the first k lines of a file. *)
LogAt(f, k) == FoldLeft(apply, NewLog, SubSeq(f, 1, k))

LEMMA LogAtSteps ==
  ASSUME NEW f \in Seq(AnyLine)
  PROVE  /\ LogAt(f, 0) = NewLog
         /\ \A k \in 0..Len(f) : LogAt(f, k) \in AnyLog
         /\ \A k \in 1..Len(f) : LogAt(f, k) = apply(LogAt(f, k - 1), f[k])
<1>1. NewLog \in AnyLog
  BY DEF NewLog, AnyLog
<1>2. PICK r : Logs(NewLog, f, r)
  BY <1>1, FoldLogs
<1>3. ASSUME NEW k \in 0..Len(f) PROVE LogAt(f, k) = r[k]
  <2> DEFINE s == SubSeq(f, 1, k)
  <2>1. s \in Seq(AnyLine) /\ Len(s) = k /\ \A i \in 1..k : s[i] = f[i]
    OBVIOUS
  <2> HIDE DEF s
  <2>2. PICK q : Logs(NewLog, s, q) /\ FoldLeft(apply, NewLog, s) = q[Len(s)]
    BY <1>1, <2>1, FoldLogs
  <2>3. k \in Nat /\ k <= Len(f) /\ k <= Len(s) /\ Len(f) \in Nat /\ Len(s) \in Nat /\ k \in 0..k
    BY <2>1
  <2>4. \A i \in 0..k : q[i] = r[i]
    BY <1>2, <2>1, <2>2, <2>3, LogsAgree
  <2>5. LogAt(f, k) = q[k]
    BY <2>1, <2>2 DEF LogAt, s
  <2> QED BY <2>3, <2>4, <2>5
<1>4. 0 \in 0..Len(f) /\ \A k \in 1..Len(f) : k \in 0..Len(f) /\ k - 1 \in 0..Len(f)
  OBVIOUS
<1> QED BY <1>2, <1>3, <1>4 DEF Logs

(* A line written to a file changes nothing before it. *)
LEMMA LogAtPrefix ==
  ASSUME NEW f \in Seq(AnyLine), NEW x \in AnyLine, NEW k \in 0..Len(f)
  PROVE  LogAt(Append(f, x), k) = LogAt(f, k)
<1>1. SubSeq(Append(f, x), 1, k) = SubSeq(f, 1, k)
  OBVIOUS
<1> QED BY <1>1 DEF LogAt

(* The lines a file gained bring its log to where it is. *)
LEMMA LogAtGained ==
  ASSUME NEW f \in Seq(AnyLine), NEW u \in 0..Len(f), NEW p \in 0..u
  PROVE  FoldLeft(apply, LogAt(f, p), SubSeq(f, p + 1, u)) = LogAt(f, u)
<1> DEFINE s == SubSeq(f, p + 1, u)
           n == u - p
<1>1. s \in Seq(AnyLine) /\ Len(s) = n /\ n \in Nat /\ \A i \in 1..n : s[i] = f[p + i]
  OBVIOUS
<1>2. p \in 0..Len(f) /\ LogAt(f, p) \in AnyLog
  BY LogAtSteps
<1> HIDE DEF s
<1>3. PICK r : Logs(LogAt(f, p), s, r) /\ FoldLeft(apply, LogAt(f, p), s) = r[Len(s)]
  BY <1>1, <1>2, FoldLogs
<1> DEFINE P == {k \in 0..n : r[k] = LogAt(f, p + k)}
<1>4. 0 \in P
  BY <1>1, <1>3 DEF Logs
<1>5. ASSUME NEW k \in 1..n, k - 1 \in P PROVE k \in P
  <2>1. r[k - 1] = LogAt(f, p + (k - 1))
    BY <1>5
  <2>2. r[k] = apply(r[k - 1], s[k])
    BY <1>1, <1>3 DEF Logs
  <2>3. s[k] = f[p + k]
    BY <1>1
  <2>4. p + k \in 1..Len(f) /\ p + k - 1 = p + (k - 1)
    BY <1>1
  <2>5. LogAt(f, p + k) = apply(LogAt(f, p + (k - 1)), f[p + k])
    BY <2>4, LogAtSteps
  <2> QED BY <2>1, <2>2, <2>3, <2>5
<1> HIDE DEF P
<1>6. \A k \in 0..n : k \in P
  BY <1>1, <1>4, <1>5, Upward
<1>7. n \in 0..n /\ p + n = u
  BY <1>1
<1>8. r[n] = LogAt(f, u)
  BY <1>6, <1>7 DEF P
<1> QED BY <1>1, <1>3, <1>8 DEF s

(* A log that met a problem stays as it is. *)
LEMMA ProblemStays ==
  ASSUME NEW l \in AnyLog, l.problem, NEW s \in Seq(AnyLine)
  PROVE  FoldLeft(apply, l, s) = l
<1>1. PICK r : Logs(l, s, r) /\ FoldLeft(apply, l, s) = r[Len(s)]
  BY FoldLogs
<1> DEFINE P == {k \in 0..Len(s) : r[k] = l}
<1>2. 0 \in P /\ Len(s) \in Nat /\ Len(s) \in 0..Len(s)
  BY <1>1 DEF Logs
<1>3. ASSUME NEW k \in 1..Len(s), k - 1 \in P PROVE k \in P
  <2>1. r[k - 1] = l
    BY <1>3
  <2>2. r[k] = apply(r[k - 1], s[k])
    BY <1>1 DEF Logs
  <2> QED BY <2>1, <2>2 DEF apply
<1> HIDE DEF P
<1>4. \A k \in 0..Len(s) : k \in P
  BY <1>2, <1>3, Upward
<1> QED BY <1>1, <1>2, <1>4 DEF P

-----------------------------------------------------------------------------
(* What a file says.                                                       *)

(* The totals its first k lines state, and whether they leave a request in flight. *)
TotalsOf(f, k) == {f[i].total : i \in {i \in 1..k : f[i].kind = "usage"}}
SentAt(f, k) ==
  \E i \in 1..k : f[i].kind \in {"task", "tool"} /\ \A j \in i + 1 .. k : f[j].kind # "usage"

(* The log of a file's first k lines counts each total they state once. *)
Tells(f, k) ==
  LET l == LogAt(f, k) IN
  /\ 1..l.requests \subseteq TotalsOf(f, k)
  /\ ~l.problem => /\ TotalsOf(f, k) = 1..l.settled /\ l.requests = l.settled
                   /\ l.sent <=> SentAt(f, k)

(* Line k states the next total, or the one the line before it states. *)
NextTotal(f, k) ==
  f[k].kind = "usage" /\ ~LogAt(f, k - 1).problem =>
    \/ f[k].total = LogAt(f, k - 1).settled + 1
    \/ k > 1 /\ f[k - 1].kind = "usage" /\ f[k].total = f[k - 1].total

LEMMA TellsNothing == ASSUME NEW f \in Seq(AnyLine) PROVE Tells(f, 0)
<1>1. LogAt(f, 0) = NewLog
  BY LogAtSteps
<1>2. TotalsOf(f, 0) = {} /\ ~SentAt(f, 0) /\ 1..0 = {}
  BY DEF TotalsOf, SentAt
<1>3. NewLog.requests = 0 /\ NewLog.settled = 0 /\ NewLog.sent = FALSE
  BY DEF NewLog
<1> HIDE DEF NewLog
<1> QED BY <1>1, <1>2, <1>3 DEF Tells

LEMMA TotalsStep ==
  ASSUME NEW f \in Seq(AnyLine), NEW k \in 1..Len(f)
  PROVE  TotalsOf(f, k) = TotalsOf(f, k - 1) \cup (IF f[k].kind = "usage" THEN {f[k].total} ELSE {})
<1>1. 1..k = (1..(k - 1)) \cup {k}
  OBVIOUS
<1> QED BY <1>1 DEF TotalsOf

LEMMA SentStep ==
  ASSUME NEW f \in Seq(AnyLine), NEW k \in 1..Len(f)
  PROVE  /\ f[k].kind \in {"task", "tool"} => SentAt(f, k)
         /\ f[k].kind = "usage" => ~SentAt(f, k)
         /\ f[k].kind \notin {"task", "tool", "usage"} => (SentAt(f, k) <=> SentAt(f, k - 1))
<1>1. k \in Nat /\ 1..k = (1..(k - 1)) \cup {k} /\ k + 1 .. k = {} /\ k \in 1..k
  OBVIOUS
<1>2. \A i \in 1..(k - 1) : i + 1 .. k = (i + 1 .. k - 1) \cup {k}
  BY <1>1
<1>3. f[k].kind \in {"task", "tool"} => SentAt(f, k)
  BY <1>1 DEF SentAt
<1>4. ASSUME f[k].kind = "usage", NEW i \in 1..k, f[i].kind \in {"task", "tool"},
             \A j \in i + 1 .. k : f[j].kind # "usage"
      PROVE  FALSE
  <2>1. i # k
    BY <1>4
  <2>2. k \in i + 1 .. k
    BY <1>1, <2>1
  <2> QED BY <1>4, <2>2
<1>5. ASSUME f[k].kind \notin {"task", "tool", "usage"}
      PROVE  SentAt(f, k) <=> SentAt(f, k - 1)
  <2>1. ASSUME NEW i \in 1..k, f[i].kind \in {"task", "tool"}, \A j \in i + 1 .. k : f[j].kind # "usage"
        PROVE  SentAt(f, k - 1)
    <3>1. i \in 1..(k - 1)
      BY <1>1, <1>5, <2>1
    <3>2. \A j \in i + 1 .. k - 1 : f[j].kind # "usage"
      BY <1>2, <2>1, <3>1
    <3> QED BY <2>1, <3>1, <3>2 DEF SentAt
  <2>2. ASSUME NEW i \in 1..(k - 1), f[i].kind \in {"task", "tool"}, \A j \in i + 1 .. k - 1 : f[j].kind # "usage"
        PROVE  SentAt(f, k)
    <3>1. i \in 1..k
      BY <1>1
    <3>2. \A j \in i + 1 .. k : f[j].kind # "usage"
      BY <1>2, <1>5, <2>2
    <3> QED BY <2>2, <3>1, <3>2 DEF SentAt
  <2> QED BY <2>1, <2>2 DEF SentAt
<1> QED BY <1>3, <1>4, <1>5 DEF SentAt

LEMMA TellsNext ==
  ASSUME NEW f \in Seq(AnyLine), NEW k \in 1..Len(f), Tells(f, k - 1), NextTotal(f, k)
  PROVE  Tells(f, k)
<1> DEFINE l == LogAt(f, k - 1)
           x == f[k]
           m == LogAt(f, k)
<1>1. m = apply(l, x) /\ l \in AnyLog /\ m \in AnyLog /\ x \in AnyLine
  <2>1. k - 1 \in 0..Len(f) /\ k \in 0..Len(f) /\ f[k] \in AnyLine
    OBVIOUS
  <2> QED BY <2>1, LogAtSteps
<1>2. /\ 1..l.requests \subseteq TotalsOf(f, k - 1)
      /\ ~l.problem => /\ TotalsOf(f, k - 1) = 1..l.settled /\ l.requests = l.settled
                       /\ l.sent <=> SentAt(f, k - 1)
  BY DEF Tells
<1>3. x.kind = "usage" /\ ~l.problem =>
        \/ x.total = l.settled + 1
        \/ k > 1 /\ f[k - 1].kind = "usage" /\ x.total = f[k - 1].total
  BY DEF NextTotal
<1>4. TotalsOf(f, k) = TotalsOf(f, k - 1) \cup (IF x.kind = "usage" THEN {x.total} ELSE {})
  BY TotalsStep
<1>5. /\ x.kind \in {"task", "tool"} => SentAt(f, k)
      /\ x.kind = "usage" => ~SentAt(f, k)
      /\ x.kind \notin {"task", "tool", "usage"} => (SentAt(f, k) <=> SentAt(f, k - 1))
  BY SentStep
<1> HIDE DEF m
<1> SUFFICES /\ 1..m.requests \subseteq TotalsOf(f, k)
             /\ ~m.problem => /\ TotalsOf(f, k) = 1..m.settled /\ m.requests = m.settled
                              /\ m.sent <=> SentAt(f, k)
  BY DEF Tells, m
<1>6. k > 1 /\ f[k - 1].kind = "usage" => ~SentAt(f, k - 1) /\ f[k - 1].total \in TotalsOf(f, k - 1)
  <2> SUFFICES ASSUME k > 1, f[k - 1].kind = "usage"
               PROVE  ~SentAt(f, k - 1) /\ f[k - 1].total \in TotalsOf(f, k - 1)
    OBVIOUS
  <2>1. k - 1 \in 1..Len(f) /\ k - 1 \in 1..(k - 1)
    OBVIOUS
  <2>2. ~SentAt(f, k - 1)
    BY <2>1, SentStep
  <2> QED BY <2>1, <2>2 DEF TotalsOf
<1> HIDE DEF l, x
<1>7. l.settled \in Nat /\ l.requests \in Nat
  BY <1>1 DEF AnyLog
<1>8. CASE l.problem
  <2>1. m = l
    BY <1>1, <1>8 DEF apply
  <2> QED BY <2>1, <1>2, <1>4, <1>8
<1>9. CASE ~l.problem /\ x.kind = "usage"
  <2>1. m = settle(l, x.total)
    BY <1>1, <1>9 DEF apply
  <2>2. CASE ~l.version
    <3>1. m.problem /\ m.requests = l.requests
      BY <2>1, <2>2, <1>1 DEF settle, refuse, AnyLog
    <3> QED BY <3>1, <1>2, <1>4
  <2>3. CASE l.version /\ x.total = l.settled
    <3>1. m = l
      BY <2>1, <2>3, <1>7 DEF settle
    <3>2. x.total # l.settled + 1
      BY <2>3, <1>7
    <3>3. k > 1 /\ f[k - 1].kind = "usage" /\ x.total = f[k - 1].total
      BY <3>2, <1>3, <1>9
    <3>4. TotalsOf(f, k) = TotalsOf(f, k - 1)
      BY <3>3, <1>4, <1>6
    <3> QED BY <3>1, <3>3, <3>4, <1>2, <1>5, <1>6, <1>9
  <2>4. CASE l.version /\ x.total = l.settled + 1
    <3>1. m = [l EXCEPT !.settled = x.total, !.requests = @ + 1, !.sent = FALSE]
      <4>1. x.total # l.settled
        BY <2>4, <1>7
      <4> QED BY <2>1, <2>4, <4>1 DEF settle
    <3>2. m.settled = l.settled + 1 /\ m.requests = l.requests + 1 /\ m.sent = FALSE
      BY <3>1, <2>4, <1>1 DEF AnyLog
    <3>3. TotalsOf(f, k - 1) = 1..l.settled /\ l.requests = l.settled
      BY <1>2, <1>9
    <3>4. TotalsOf(f, k) = (1..l.settled) \cup {l.settled + 1}
      BY <1>4, <1>9, <2>4, <3>3
    <3>5. (1..l.settled) \cup {l.settled + 1} = 1..(l.settled + 1)
      BY <1>7
    <3>6. TotalsOf(f, k) = 1..m.settled /\ m.requests = m.settled
      BY <3>2, <3>3, <3>4, <3>5
    <3> QED BY <3>2, <3>6, <1>5, <1>9
  <2>5. CASE l.version /\ x.total # l.settled /\ x.total # l.settled + 1
    <3>1. m.problem /\ m.requests = l.requests
      BY <2>1, <2>5, <1>1 DEF settle, refuse, AnyLog
    <3> QED BY <3>1, <1>2, <1>4
  <2> QED BY <2>2, <2>3, <2>4, <2>5
<1>10. CASE ~l.problem /\ x.kind # "usage"
  <2>1. TotalsOf(f, k) = TotalsOf(f, k - 1)
    BY <1>4, <1>10
  <2>2. x.kind \in {"meta", "task", "tool", "bad"}
    BY <1>1, <1>10 DEF AnyLine
  <2>3. CASE x.kind = "meta"
    <3>1. m = [l EXCEPT !.version = TRUE]
      BY <1>1, <1>10, <2>3 DEF apply
    <3>2. m.requests = l.requests /\ m.problem = l.problem /\ m.settled = l.settled /\ m.sent = l.sent
      BY <3>1, <1>1 DEF AnyLog
    <3> QED BY <3>2, <2>1, <2>3, <1>2, <1>5
  <2>4. CASE x.kind = "task"
    <3>1. m = [l EXCEPT !.tasks = @ + 1, !.sent = TRUE]
      BY <1>1, <1>10, <2>4 DEF apply
    <3>2. m.requests = l.requests /\ m.problem = l.problem /\ m.settled = l.settled /\ m.sent = TRUE
      BY <3>1, <1>1 DEF AnyLog
    <3> QED BY <3>2, <2>1, <2>4, <1>2, <1>5
  <2>5. CASE x.kind = "tool"
    <3>1. m = [l EXCEPT !.sent = TRUE]
      BY <1>1, <1>10, <2>5 DEF apply
    <3>2. m.requests = l.requests /\ m.problem = l.problem /\ m.settled = l.settled /\ m.sent = TRUE
      BY <3>1, <1>1 DEF AnyLog
    <3> QED BY <3>2, <2>1, <2>5, <1>2, <1>5
  <2>6. CASE x.kind = "bad"
    <3>1. m.problem /\ m.requests = l.requests
      BY <1>1, <1>10, <2>6 DEF apply, refuse, AnyLog
    <3> QED BY <3>1, <2>1, <1>2
  <2> QED BY <2>2, <2>3, <2>4, <2>5, <2>6
<1> QED BY <1>8, <1>9, <1>10

(* A line written to a file leaves what the lines before it say. *)
LEMMA TellsPrefix ==
  ASSUME NEW f \in Seq(AnyLine), NEW x \in AnyLine, NEW k \in 0..Len(f), Tells(f, k)
  PROVE  Tells(Append(f, x), k)
<1>1. LogAt(Append(f, x), k) = LogAt(f, k)
  BY LogAtPrefix
<1>2. \A i \in 1..k : Append(f, x)[i] = f[i]
  OBVIOUS
<1>3. TotalsOf(Append(f, x), k) = TotalsOf(f, k)
  BY <1>2 DEF TotalsOf
<1>4. SentAt(Append(f, x), k) <=> SentAt(f, k)
  <2>1. \A i \in 1..k : \A j \in i + 1 .. k : j \in 1..k
    OBVIOUS
  <2> QED BY <1>2, <2>1 DEF SentAt
<1> QED BY <1>1, <1>3, <1>4 DEF Tells

(* The totals of a file are finitely many, and their number is at least a log's requests. *)
LEMMA RequestsAreTotals ==
  ASSUME NEW f \in Seq(AnyLine), NEW k \in 0..Len(f), Tells(f, k)
  PROVE  /\ IsFiniteSet(TotalsOf(f, k)) /\ Cardinality(TotalsOf(f, k)) \in Nat
         /\ LogAt(f, k).requests <= Cardinality(TotalsOf(f, k))
         /\ ~LogAt(f, k).problem => LogAt(f, k).requests = Cardinality(TotalsOf(f, k))
<1> DEFINE n == LogAt(f, k).requests
           I == {i \in 1..k : f[i].kind = "usage"}
<1>1. n \in Nat
  BY LogAtSteps DEF AnyLog
<1>2. IsFiniteSet(TotalsOf(f, k))
  <2>1. IsFiniteSet(I)
    <3>1. IsFiniteSet(1..k) /\ I \subseteq 1..k
      BY FS_Interval
    <3> QED BY <3>1, FS_Subset
  <2> DEFINE g == [i \in I |-> f[i].total]
  <2>2. g \in Surjection(I, TotalsOf(f, k))
    BY DEF TotalsOf, Surjection
  <2> QED BY <2>1, <2>2, FS_Surjection
<1>3. Cardinality(1..n) = n
  BY <1>1, FS_Interval
<1>4. 1..n \subseteq TotalsOf(f, k)
  BY DEF Tells
<1>5. Cardinality(1..n) <= Cardinality(TotalsOf(f, k))
  BY <1>2, <1>4, FS_Subset
<1>6. ~LogAt(f, k).problem => TotalsOf(f, k) = 1..n
  BY DEF Tells
<1>7. Cardinality(TotalsOf(f, k)) \in Nat
  BY <1>2, FS_CardinalityType
<1> HIDE DEF n
<1> QED BY <1>1, <1>2, <1>3, <1>5, <1>6, <1>7 DEF n

-----------------------------------------------------------------------------
(* The threads a thread started.                                           *)

(* r holds what Main started of S in each number of steps up to n. *)
Reaches(S, n, r) ==
  /\ DOMAIN r = 0..n /\ r[0] = {Main}
  /\ \A k \in 1..n : r[k] = r[k - 1] \cup {s \in S : Starter[s] \in r[k - 1]}

LEMMA StartedReaches ==
  ASSUME NEW S \in SUBSET Sub
  PROVE  /\ Cardinality(Sub) \in Nat
         /\ \E r : Reaches(S, Cardinality(Sub), r) /\ Started(S) = r[Cardinality(Sub)]
<1> DEFINE N == Cardinality(Sub)
           F(it) == [n \in 0..N |-> IF n = 0 THEN {Main}
                                    ELSE it[n - 1] \cup {s \in S : Starter[s] \in it[n - 1]}]
           g == CHOOSE it : it = F(it)
<1>1. N \in Nat
  BY CodexSessionAssumption, FS_CardinalityType
<1>2. Started(S) = g[N]
  BY DEF Started
<1> DEFINE P == {n \in 0..N : \E r : Reaches(S, n, r)}
<1>3. 0 \in P
  <2> DEFINE z == [n \in 0..0 |-> {Main}]
  <2>1. Reaches(S, 0, z)
    BY DEF Reaches
  <2> HIDE DEF z
  <2> QED BY <1>1, <2>1
<1>4. ASSUME NEW n \in 1..N, n - 1 \in P PROVE n \in P
  <2>1. PICK r : Reaches(S, n - 1, r)
    BY <1>4
  <2> DEFINE q == [k \in 0..n |-> IF k = n THEN r[n - 1] \cup {s \in S : Starter[s] \in r[n - 1]} ELSE r[k]]
  <2>2. DOMAIN q = 0..n /\ q[0] = {Main} /\ q[n - 1] = r[n - 1]
    BY <1>1, <2>1 DEF Reaches
  <2>3. ASSUME NEW k \in 1..n PROVE q[k] = q[k - 1] \cup {s \in S : Starter[s] \in q[k - 1]}
    <3>1. CASE k = n
      BY <3>1, <2>2
    <3>2. CASE k # n
      <4>1. k \in 1..(n - 1) /\ k - 1 \in 0..n /\ k - 1 # n /\ k \in 0..n
        BY <3>2, <1>1
      <4>2. q[k] = r[k] /\ q[k - 1] = r[k - 1]
        BY <4>1, <3>2
      <4> QED BY <4>1, <4>2, <2>1 DEF Reaches
    <3> QED BY <3>1, <3>2
  <2> HIDE DEF q
  <2>4. Reaches(S, n, q)
    BY <2>2, <2>3 DEF Reaches
  <2>5. n \in 0..N
    BY <1>1
  <2> QED BY <2>4, <2>5
<1> HIDE DEF P
<1>5. \A n \in 0..N : n \in P
  BY <1>1, <1>3, <1>4, Upward
<1>6. PICK r : Reaches(S, N, r)
  <2>1. N \in 0..N
    BY <1>1
  <2> QED BY <1>5, <2>1 DEF P
<1> DEFINE h == [n \in 0..N |-> r[n]]
<1>7. h = F(h)
  <2>1. ASSUME NEW n \in 0..N
        PROVE  h[n] = IF n = 0 THEN {Main} ELSE h[n - 1] \cup {s \in S : Starter[s] \in h[n - 1]}
    <3>1. n # 0 => n \in 1..N /\ n - 1 \in 0..N
      BY <1>1
    <3> QED BY <3>1, <1>6 DEF Reaches
  <2> QED BY <2>1
<1> HIDE DEF h
<1>8. g = F(g)
  <2> HIDE DEF F
  <2> QED BY <1>7
<1> HIDE DEF g
<1>9. Reaches(S, N, g)
  <2>1. DOMAIN g = 0..N
    BY <1>8
  <2>2. g[0] = {Main}
    BY <1>1, <1>8
  <2>3. ASSUME NEW n \in 1..N PROVE g[n] = g[n - 1] \cup {s \in S : Starter[s] \in g[n - 1]}
    <3>1. n \in 0..N /\ n # 0
      BY <1>1
    <3> QED BY <1>8, <3>1
  <2> QED BY <2>1, <2>2, <2>3 DEF Reaches
<1> QED BY <1>1, <1>2, <1>9

(* They are threads of S, and more of S means more of them. *)
LEMMA StartedOf ==
  ASSUME NEW S \in SUBSET Sub
  PROVE  Main \in Started(S) /\ Started(S) \subseteq {Main} \cup S
<1> DEFINE N == Cardinality(Sub)
<1>1. N \in Nat
  BY StartedReaches
<1>2. PICK r : Reaches(S, N, r) /\ Started(S) = r[N]
  BY StartedReaches
<1> HIDE DEF N
<1> DEFINE P == {n \in 0..N : Main \in r[n] /\ r[n] \subseteq {Main} \cup S}
<1>3. 0 \in P
  BY <1>1, <1>2 DEF Reaches
<1>4. ASSUME NEW n \in 1..N, n - 1 \in P PROVE n \in P
  <2>1. r[n] = r[n - 1] \cup {s \in S : Starter[s] \in r[n - 1]}
    BY <1>2 DEF Reaches
  <2>2. n \in 0..N
    BY <1>1
  <2> QED BY <2>1, <2>2, <1>4
<1> HIDE DEF P
<1>5. \A n \in 0..N : n \in P
  BY <1>1, <1>3, <1>4, Upward
<1>6. N \in 0..N
  BY <1>1
<1> QED BY <1>2, <1>5, <1>6 DEF P

(* Where the threads of a set T start only after their starters, what a set  *)
(* of them reaches holds each of T that a larger one reaches.                *)
LEMMA StartedWithin ==
  ASSUME NEW S \in SUBSET Sub, NEW R \in SUBSET Sub, NEW T,
         \A s \in R \cap T : s \in S /\ (Starter[s] \in T \/ Starter[s] \notin {Main} \cup R)
  PROVE  \A s \in Started(R) \cap T : s \in Started(S)
<1> DEFINE N == Cardinality(Sub)
<1>1. N \in Nat
  BY StartedReaches
<1>2. PICK q : Reaches(S, N, q) /\ Started(S) = q[N]
  BY StartedReaches
<1>3. PICK r : Reaches(R, N, r) /\ Started(R) = r[N]
  BY StartedReaches
<1> HIDE DEF N
<1> DEFINE P == {n \in 0..N : r[n] \subseteq {Main} \cup R /\ \A s \in r[n] \cap T : s \in q[n]}
<1>4. 0 \in P
  BY <1>1, <1>2, <1>3 DEF Reaches
<1>5. ASSUME NEW n \in 1..N, n - 1 \in P PROVE n \in P
  <2>1. r[n] = r[n - 1] \cup {s \in R : Starter[s] \in r[n - 1]}
    BY <1>3 DEF Reaches
  <2>2. q[n] = q[n - 1] \cup {s \in S : Starter[s] \in q[n - 1]}
    BY <1>2 DEF Reaches
  <2>3. r[n - 1] \subseteq {Main} \cup R /\ \A s \in r[n - 1] \cap T : s \in q[n - 1]
    BY <1>5
  <2>4. n \in 0..N
    BY <1>1
  <2>5. ASSUME NEW s \in r[n] \cap T, s \notin r[n - 1] PROVE s \in q[n]
    <3>1. s \in R /\ Starter[s] \in r[n - 1]
      BY <2>1, <2>5
    <3>2. s \in S /\ Starter[s] \in T
      BY <3>1, <2>3, <2>5
    <3> QED BY <3>1, <3>2, <2>2, <2>3
  <2>6. r[n] \subseteq {Main} \cup R
    BY <2>1, <2>3
  <2>7. \A s \in r[n] \cap T : s \in q[n]
    BY <2>2, <2>3, <2>5
  <2> QED BY <2>4, <2>6, <2>7
<1> HIDE DEF P
<1>6. \A n \in 0..N : n \in P
  BY <1>1, <1>4, <1>5, Upward
<1>7. N \in 0..N
  BY <1>1
<1> QED BY <1>2, <1>3, <1>6, <1>7 DEF P

LEMMA OursAreThreads == Main \in Ours /\ Ours \subseteq Thread /\ Sub \subseteq Thread /\ Main \in Thread /\ Main \notin Sub
BY StartedOf, CodexSessionAssumption DEF Ours, Thread

(* The threads Main started of a set are among all it started. *)
LEMMA StartedGrows == ASSUME NEW S \in SUBSET Sub PROVE Started(S) \subseteq Ours
<1>1. \A s \in S \cap ({Main} \cup S) : s \in Sub /\ (Starter[s] \in {Main} \cup S \/ Starter[s] \notin {Main} \cup S)
  OBVIOUS
<1>2. \A s \in Started(S) \cap ({Main} \cup S) : s \in Started(Sub)
  BY <1>1, StartedWithin
<1> QED BY <1>2, StartedOf DEF Ours

-----------------------------------------------------------------------------
(* The invariant.                                                          *)

(* A file's lines say what the log of them counts. *)
FileInv ==
  /\ file \in [Thread -> Seq(AnyLine)]
  /\ \A t \in Thread : \A k \in 0..Len(file[t]) : Tells(file[t], k)
  /\ \A s \in Sub : file[s] # <<>> /\ Starter[s] \in Thread => file[Starter[s]] # <<>>

(* A file an earlier run left gains a task first. *)
BaseInv ==
  /\ base \in {0, 1}
  /\ base = 1 =>
       /\ Len(file[Main]) >= 3
       /\ Len(file[Main]) = 3 => file[Main] = Earlier
       /\ \A k \in 3..Len(file[Main]) :
            LogAt(file[Main], k).problem \/ LogAt(file[Main], k).tasks >= (IF k = 3 THEN 1 ELSE 2)

(* The stream is what is left of a thread line, a turn line and the turn's end. *)
Emitted == IF turn = "none" THEN 0 ELSE IF turn = "thread" THEN 1 ELSE IF turn = "open" THEN 2 ELSE 3
KindsAt(n) == IF n = 1 THEN {"thread"} ELSE IF n = 2 THEN {"turn"} ELSE {"completed", "unread"}
AnyEvent == [kind : {"thread", "turn", "completed", "unread"}, total : Nat]
AnySession == [thread : BOOLEAN, turnOpen : BOOLEAN, turnsStarted : Nat, turns : Nat,
               total : Nat, unreadTurn : BOOLEAN, opened : BOOLEAN, stale : BOOLEAN]

StreamInv ==
  /\ turn \in {"none", "thread", "open", "closed"}
  /\ stream \in Seq(AnyEvent) /\ session \in AnySession
  /\ Len(stream) <= Emitted
  /\ \A i \in 1..Len(stream) : stream[i].kind \in KindsAt(Emitted - Len(stream) + i)
  /\ session.turnsStarted <= IF Emitted - Len(stream) < 2 THEN 0 ELSE 1
  /\ Emitted - Len(stream) < 3 => session.turns = 0
  /\ session.turns = 0 => session.total = 0
  /\ session.turns # 0 => ~session.turnOpen

(* A log is what the lines applied say, but for a subagent's problem noted in the thread's. *)
ReadInv ==
  /\ pos \in [Thread -> Nat] /\ upto \in [Thread -> Nat]
  /\ \A t \in Thread : pos[t] <= upto[t] /\ upto[t] <= Len(file[t])
  /\ log \in [Thread -> AnyLog]
  /\ \A s \in Sub : log[s] = LogAt(file[s], pos[s])
  /\ \/ log[Main] = LogAt(file[Main], pos[Main])
     \/ log[Main].problem /\ log[Main].requests <= Total(Main)
  /\ taken \subseteq Ours \ {Main}

TailInv ==
  /\ agent \in {"running", "exited"} /\ watched \in BOOLEAN /\ final \in BOOLEAN
  /\ tail \in {"follow", "discover", "apply", "cap", "stop", "idle", "done"}
  /\ ~watched => tail = "done"
  /\ watched /\ tail = "done" => final
  /\ final => main # "read" /\ tail \in {"follow", "discover", "apply", "done"}
  /\ main \in {"read", "tail", "finish", "finished"}
  /\ main # "read" => agent = "exited"
  /\ main \in {"finish", "finished"} => tail = "done"
  /\ session.opened => session.thread /\ file[Main] # <<>>
  /\ tail \in {"discover", "apply"} => session.thread /\ file[Main] # <<>>

(* The last follow reads each of the run's files to its end. *)
WholeTaken == \A t \in Ours \ {Main} : t \in taken \/ file[t] = <<>>
FinalInv ==
  /\ tail = "discover" /\ final => upto[Main] = Len(file[Main])
  /\ tail = "apply" /\ final => WholeTaken /\ \A t \in {Main} \cup taken : upto[t] = Len(file[t])
  /\ watched /\ tail = "done" /\ session.opened =>
       /\ WholeTaken
       /\ \A t \in {Main} \cup taken : pos[t] = Len(file[t])
       /\ \A s \in taken : log[s].problem => log[Main].problem

(* A file not noted as an earlier run's was read past what that run left. *)
StaleInv ==
  base = 1 /\ ~session.stale =>
    /\ session.opened => pos[Main] >= 4
    /\ tail \in {"discover", "apply"} => upto[Main] >= 4

(* A thread settles no more than the requests it has. *)
BoundInv ==
  /\ bound \in Bounds
  /\ \A t \in Thread : /\ Total(t) <= bound.requests[t]
                       /\ InFlight(t) => Total(t) < bound.requests[t]

CapInv == found \in Nat /\ found <= Counted /\ StopIsAtCap

Inv ==
  /\ FileInv /\ BaseInv /\ BoundInv /\ StreamInv /\ ReadInv /\ TailInv
  /\ FinalInv /\ StaleInv /\ CapInv /\ ReportIsExact

-----------------------------------------------------------------------------
(* What a file's lines say of the state.                                   *)

Totals == [t \in Thread |-> Total(t)]

LEMMA TotalIs ==
  ASSUME FileInv, NEW t \in Thread
  PROVE  /\ Total(t) = Cardinality(TotalsOf(file[t], Len(file[t]))) /\ Total(t) \in Nat
         /\ InFlight(t) <=> SentAt(file[t], Len(file[t]))
<1>1. file[t] \in Seq(AnyLine) /\ DOMAIN file[t] = 1..Len(file[t]) /\ Len(file[t]) \in 0..Len(file[t])
  BY DEF FileInv
<1>2. Tells(file[t], Len(file[t]))
  BY <1>1 DEF FileInv
<1>3. Total(t) = Cardinality(TotalsOf(file[t], Len(file[t])))
  BY <1>1 DEF Total, TotalsOf
<1>4. InFlight(t) <=> SentAt(file[t], Len(file[t]))
  BY <1>1 DEF InFlight, SentAt
<1>5. Total(t) \in Nat
  BY <1>1, <1>2, <1>3, RequestsAreTotals
<1> QED BY <1>3, <1>4, <1>5

LEMMA CountedIs == ASSUME FileInv PROVE Totals \in [Thread -> Nat] /\ Counted = SumFunctionOnSet(Totals, Ours) /\ Counted \in Nat
<1>1. Totals \in [Thread -> Nat]
  BY TotalIs DEF Totals
<1>2. Counted = SumFunctionOnSet(Totals, Ours)
  BY DEF Counted, Totals
<1>3. SumFunctionOnSet(Totals, Ours) \in Nat
  BY <1>1, OursAreThreads, SumGrows
<1> QED BY <1>1, <1>2, <1>3

(* The requests a log counts of a file are its totals, where no problem stopped it. *)
LEMMA LogIsTotal ==
  ASSUME FileInv, NEW t \in Thread, NEW k \in 0..Len(file[t])
  PROVE  /\ LogAt(file[t], k).requests \in Nat
         /\ LogAt(file[t], k).requests <= Total(t)
         /\ k = Len(file[t]) /\ ~LogAt(file[t], k).problem =>
              /\ LogAt(file[t], k).requests = Total(t) /\ LogAt(file[t], k).settled = Total(t)
              /\ LogAt(file[t], k).sent <=> InFlight(t)
<1>1. file[t] \in Seq(AnyLine) /\ Len(file[t]) \in 0..Len(file[t])
  BY DEF FileInv
<1>2. Tells(file[t], k) /\ Tells(file[t], Len(file[t]))
  BY <1>1 DEF FileInv
<1> DEFINE n == LogAt(file[t], k).requests
           A == TotalsOf(file[t], k)
           B == TotalsOf(file[t], Len(file[t]))
<1>3. n <= Cardinality(A) /\ Cardinality(A) \in Nat /\ (~LogAt(file[t], k).problem => n = Cardinality(A))
  BY <1>1, <1>2, RequestsAreTotals
<1>4. IsFiniteSet(B) /\ Cardinality(B) \in Nat
  BY <1>1, <1>2, RequestsAreTotals
<1>5. A \subseteq B
  BY <1>1 DEF TotalsOf
<1>6. Cardinality(A) <= Cardinality(B)
  BY <1>4, <1>5, FS_Subset
<1>7. Total(t) = Cardinality(B) /\ (InFlight(t) <=> SentAt(file[t], Len(file[t])))
  BY TotalIs
<1>8. n \in Nat
  BY <1>1, LogAtSteps DEF AnyLog
<1>9. ASSUME k = Len(file[t]), ~LogAt(file[t], k).problem
      PROVE  /\ n = Total(t) /\ LogAt(file[t], k).settled = Total(t)
             /\ LogAt(file[t], k).sent <=> InFlight(t)
  <2>1. n = Cardinality(A) /\ A = B
    BY <1>3, <1>9
  <2>2. LogAt(file[t], k).settled = n /\ (LogAt(file[t], k).sent <=> SentAt(file[t], k))
    BY <1>2, <1>9 DEF Tells
  <2> QED BY <2>1, <2>2, <1>7, <1>9
<1> HIDE DEF A, B, n
<1>10. n <= Total(t)
  BY <1>3, <1>4, <1>6, <1>7, <1>8
<1> QED BY <1>8, <1>9, <1>10 DEF n

-----------------------------------------------------------------------------
(* Steps that write no file.                                               *)

LEMMA SameFiles ==
  ASSUME FileInv, BaseInv, BoundInv, file' = file, base' = base, bound' = bound
  PROVE  /\ FileInv' /\ BaseInv' /\ BoundInv'
         /\ Counted' = Counted /\ \A t \in Thread : InFlight(t)' <=> InFlight(t)
         /\ Total(Main)' = Total(Main)
<1>1. FileInv'
  BY DEF FileInv
<1>2. BaseInv'
  BY DEF BaseInv
<1>3. Counted' = Counted
  BY DEF Counted, Total
<1>4. \A t \in Thread : InFlight(t)' <=> InFlight(t)
  BY DEF InFlight
<1>5. \A t \in Thread : Total(t)' = Total(t)
  BY DEF Total
<1>6. BoundInv'
  BY <1>4, <1>5 DEF BoundInv
<1> QED BY <1>1, <1>2, <1>3, <1>4, <1>5, <1>6, OursAreThreads

LEMMA SameReport ==
  ASSUME FileInv, BaseInv, BoundInv, ReportIsExact,
         file' = file, base' = base, bound' = bound, main' = main, report' = report, watched' = watched
  PROVE  ReportIsExact'
<1>1. Counted' = Counted /\ \A t \in Thread : InFlight(t)' <=> InFlight(t)
  BY SameFiles
<1>2. {t \in Ours : InFlight(t)}' = {t \in Ours : InFlight(t)}
  BY <1>1, OursAreThreads
<1> QED BY <1>1, <1>2 DEF ReportIsExact, WatchedIsExact, UnrecordedIsExact

-----------------------------------------------------------------------------
(* The initial states.                                                     *)

LEMMA EarlierSays ==
  /\ Earlier \in Seq(AnyLine) /\ Len(Earlier) = 3
  /\ \A k \in 0..3 : Tells(Earlier, k)
  /\ LogAt(Earlier, 3).problem = FALSE /\ LogAt(Earlier, 3).requests = 1 /\ LogAt(Earlier, 3).tasks = 1
  /\ ~SentAt(Earlier, 3)
<1>1. /\ Earlier \in Seq(AnyLine) /\ Len(Earlier) = 3
      /\ Earlier[1] = Line("meta") /\ Earlier[2] = Line("task") /\ Earlier[3] = Usage(1)
  BY DEF Earlier, Line, Usage, AnyLine
<1>2. Earlier[1].kind = "meta" /\ Earlier[2].kind = "task" /\ Earlier[3].kind = "usage" /\ Earlier[3].total = 1
  BY <1>1 DEF Line, Usage
<1>3. 1 \in 1..Len(Earlier) /\ 2 \in 1..Len(Earlier) /\ 3 \in 1..Len(Earlier) /\ 1 - 1 = 0 /\ 2 - 1 = 1 /\ 3 - 1 = 2
  BY <1>1
<1> DEFINE a == LogAt(Earlier, 0)
           b == LogAt(Earlier, 1)
           c == LogAt(Earlier, 2)
           d == LogAt(Earlier, 3)
<1>4. a = NewLog
  BY <1>1, LogAtSteps
<1>5. b = apply(a, Earlier[1])
  BY <1>1, <1>3, LogAtSteps
<1>6. c = apply(b, Earlier[2])
  BY <1>1, <1>3, LogAtSteps
<1>7. d = apply(c, Earlier[3])
  BY <1>1, <1>3, LogAtSteps
<1> HIDE DEF a, b, c, d
<1>8. b = [NewLog EXCEPT !.version = TRUE]
  BY <1>2, <1>4, <1>5 DEF apply, NewLog
<1>9. b.version = TRUE /\ b.tasks = 0 /\ b.settled = 0 /\ b.requests = 0 /\ b.problem = FALSE
  BY <1>8 DEF NewLog
<1>10. c = [b EXCEPT !.tasks = @ + 1, !.sent = TRUE]
  BY <1>2, <1>6, <1>9 DEF apply
<1>11. c = [[NewLog EXCEPT !.version = TRUE] EXCEPT !.tasks = @ + 1, !.sent = TRUE]
  BY <1>8, <1>10
<1>12. c.version = TRUE /\ c.tasks = 1 /\ c.settled = 0 /\ c.requests = 0 /\ c.problem = FALSE
  BY <1>11 DEF NewLog
<1>13. d = settle(c, 1)
  BY <1>2, <1>7, <1>12 DEF apply
<1>14. d = [c EXCEPT !.settled = 1, !.requests = @ + 1, !.sent = FALSE]
  BY <1>12, <1>13 DEF settle
<1>15. d = [[[NewLog EXCEPT !.version = TRUE] EXCEPT !.tasks = @ + 1, !.sent = TRUE]
              EXCEPT !.settled = 1, !.requests = @ + 1, !.sent = FALSE]
  BY <1>11, <1>14
<1>16. d.problem = FALSE /\ d.requests = 1 /\ d.tasks = 1
  BY <1>15 DEF NewLog
<1>17. Tells(Earlier, 0)
  BY <1>1, TellsNothing
<1>18. Tells(Earlier, 1)
  <2>1. NextTotal(Earlier, 1)
    BY <1>2 DEF NextTotal
  <2> QED BY <2>1, <1>1, <1>3, <1>17, TellsNext
<1>19. Tells(Earlier, 2)
  <2>1. NextTotal(Earlier, 2)
    BY <1>2 DEF NextTotal
  <2> QED BY <2>1, <1>1, <1>3, <1>18, TellsNext
<1>20. Tells(Earlier, 3)
  <2>1. NextTotal(Earlier, 3)
    <3>1. Earlier[3].total = LogAt(Earlier, 3 - 1).settled + 1
      BY <1>2, <1>3, <1>12 DEF c
    <3> QED BY <3>1 DEF NextTotal
  <2> QED BY <2>1, <1>1, <1>3, <1>19, TellsNext
<1>21. ~SentAt(Earlier, 3)
  BY <1>1, <1>2, <1>3, SentStep
<1>22. \A k \in 0..3 : k = 0 \/ k = 1 \/ k = 2 \/ k = 3
  OBVIOUS
<1> QED BY <1>1, <1>16, <1>17, <1>18, <1>19, <1>20, <1>21, <1>22 DEF d

LEMMA InitInv == Init => Inv
<1> SUFFICES ASSUME Init PROVE Inv
  OBVIOUS
<1>1. /\ bound \in Bounds /\ agent = "running" /\ turn = "none" /\ stream = <<>> /\ watched \in BOOLEAN
      /\ base \in {0, 1} /\ (base = 1 => watched /\ bound.requests[Main] > 0)
      /\ file = [t \in Thread |-> IF t = Main /\ base = 1 THEN Earlier ELSE <<>>]
      /\ log = [t \in Thread |-> NewLog] /\ taken = {}
      /\ (watched => tail = "follow") /\ (~watched => tail = "done")
      /\ pos = [t \in Thread |-> 0] /\ upto = [t \in Thread |-> 0] /\ found = 0 /\ final = FALSE
      /\ main = "read" /\ ~budget
  BY DEF Init
<1>2. session = [thread |-> FALSE, turnOpen |-> FALSE, turnsStarted |-> 0, turns |-> 0, total |-> 0,
                unreadTurn |-> FALSE, opened |-> FALSE, stale |-> FALSE]
  BY DEF Init
<1>3. session \in AnySession
  BY <1>2 DEF AnySession
<1>4. ~session.opened /\ session.turnsStarted = 0 /\ session.turns = 0 /\ session.total = 0 /\ ~session.turnOpen
  BY <1>2
<1>5. <<>> \in Seq(AnyLine) /\ Len(<<>>) = 0
  OBVIOUS
<1>6. Main \in Thread /\ Main \notin Sub /\ Sub \subseteq Thread
  BY OursAreThreads
<1>7. file[Main] = (IF base = 1 THEN Earlier ELSE <<>>) /\ \A t \in Thread : t # Main \/ base = 0 => file[t] = <<>>
  BY <1>1, <1>6
<1>8. \A t \in Thread : file[t] \in Seq(AnyLine)
  BY <1>1, <1>5, EarlierSays
<1>9. FileInv
  <2>1. file \in [Thread -> Seq(AnyLine)]
    BY <1>1, <1>8
  <2>2. ASSUME NEW t \in Thread, NEW k \in 0..Len(file[t]) PROVE Tells(file[t], k)
    <3>1. CASE t = Main /\ base = 1
      <4>1. file[t] = Earlier /\ Len(file[t]) = 3
        BY <1>7, <3>1, EarlierSays
      <4> QED BY <4>1, EarlierSays
    <3>2. CASE ~(t = Main /\ base = 1)
      <4>1. file[t] = <<>> /\ k = 0
        BY <1>1, <1>5, <1>7, <3>2
      <4> QED BY <4>1, <1>5, TellsNothing
    <3> QED BY <3>1, <3>2
  <2>3. \A s \in Sub : file[s] = <<>>
    BY <1>6, <1>7
  <2> QED BY <2>1, <2>2, <2>3 DEF FileInv
<1>10. BaseInv
  <2> SUFFICES ASSUME base = 1
               PROVE  /\ Len(file[Main]) >= 3 /\ file[Main] = Earlier
                      /\ \A k \in 3..Len(file[Main]) :
                           LogAt(file[Main], k).problem \/ LogAt(file[Main], k).tasks >= (IF k = 3 THEN 1 ELSE 2)
    BY <1>1 DEF BaseInv
  <2>1. file[Main] = Earlier /\ Len(file[Main]) = 3
    BY <1>7, EarlierSays
  <2>2. \A k \in 3..3 : k = 3
    OBVIOUS
  <2>3. LogAt(file[Main], 3).tasks >= 1
    BY <2>1, EarlierSays
  <2> QED BY <2>1, <2>2, <2>3
<1>11. BoundInv
  <2> SUFFICES ASSUME NEW t \in Thread
               PROVE  Total(t) <= bound.requests[t] /\ (InFlight(t) => Total(t) < bound.requests[t])
    BY <1>1 DEF BoundInv
  <2>1. bound.requests[t] \in Nat
    BY <1>1, CodexSessionAssumption
  <2>2. CASE t = Main /\ base = 1
    <3>1. file[t] = Earlier /\ Len(file[t]) = 3 /\ 3 \in 0..Len(file[t])
      <4>1. file[t] = Earlier
        BY <1>7, <2>2
      <4>2. Len(file[t]) = 3
        BY <4>1, EarlierSays
      <4> QED BY <4>1, <4>2
    <3>2. Total(t) = 1
      <4>1. LogAt(file[t], 3).requests = 1 /\ ~LogAt(file[t], 3).problem
        BY <3>1, EarlierSays
      <4> QED BY <3>1, <4>1, <1>9, LogIsTotal
    <3>3. ~InFlight(t)
      BY <3>1, <1>9, EarlierSays, TotalIs
    <3> QED BY <3>2, <3>3, <2>1, <2>2, <1>1
  <2>3. CASE ~(t = Main /\ base = 1)
    <3>1. file[t] = <<>>
      BY <1>1, <1>7, <2>3
    <3>2. Total(t) = 0
      <4>1. {i \in DOMAIN file[t] : file[t][i].kind = "usage"} = {}
        BY <3>1
      <4>2. Total(t) = Cardinality({})
        BY <4>1 DEF Total
      <4> QED BY <4>2, FS_EmptySet
    <3>3. ~InFlight(t)
      BY <3>1 DEF InFlight
    <3> QED BY <3>2, <3>3, <2>1
  <2> QED BY <2>2, <2>3
<1>12. StreamInv
  <2>1. Emitted = 0
    BY <1>1 DEF Emitted
  <2>2. stream \in Seq(AnyEvent) /\ Len(stream) = 0
    BY <1>1
  <2> QED BY <2>1, <2>2, <1>1, <1>3, <1>4 DEF StreamInv
<1>13. ReadInv
  <2>1. NewLog \in AnyLog
    BY DEF NewLog, AnyLog
  <2>2. \A t \in Thread : log[t] = LogAt(file[t], pos[t])
    BY <1>1, <1>8, LogAtSteps
  <2>3. \A t \in Thread : Len(file[t]) \in Nat
    BY <1>8
  <2>4. log \in [Thread -> AnyLog] /\ pos \in [Thread -> Nat] /\ upto \in [Thread -> Nat]
    BY <1>1, <2>1
  <2>5. \A t \in Thread : pos[t] <= upto[t] /\ upto[t] <= Len(file[t])
    BY <1>1, <2>3
  <2> QED BY <2>2, <2>4, <2>5, <1>1, <1>6 DEF ReadInv
<1>14. TailInv
  BY <1>1, <1>4 DEF TailInv
<1>15. FinalInv
  BY <1>1, <1>4 DEF FinalInv
<1>16. StaleInv
  BY <1>1, <1>4 DEF StaleInv
<1>17. CapInv
  <2>1. Counted \in Nat
    BY <1>9, CountedIs
  <2> QED BY <2>1, <1>1 DEF CapInv, StopIsAtCap
<1>18. ReportIsExact
  BY <1>1 DEF ReportIsExact, WatchedIsExact, UnrecordedIsExact
<1> QED BY <1>9, <1>10, <1>11, <1>12, <1>13, <1>14, <1>15, <1>16, <1>17, <1>18 DEF Inv

-----------------------------------------------------------------------------
(* The agent writes a line.                                                *)

(* A task is counted, and no line takes one back. *)
LEMMA ApplyTasks ==
  ASSUME NEW l \in AnyLog, NEW x \in AnyLine
  PROVE  /\ apply(l, x).problem \/ apply(l, x).tasks >= l.tasks
         /\ l.problem => apply(l, x).problem
         /\ x.kind = "task" => apply(l, x).problem \/ apply(l, x).tasks = l.tasks + 1
<1> USE DEF AnyLog, AnyLine
<1>1. CASE l.problem
  BY <1>1 DEF apply
<1>2. CASE ~l.problem /\ x.kind = "usage"
  <2>1. apply(l, x) = settle(l, x.total)
    BY <1>2 DEF apply
  <2>2. settle(l, x.total).problem \/ settle(l, x.total).tasks = l.tasks
    <3>1. CASE ~l.version
      BY <3>1 DEF settle, refuse
    <3>2. CASE l.version /\ x.total = l.settled
      BY <3>2 DEF settle, refuse
    <3>3. CASE l.version /\ x.total = l.settled + 1
      <4>1. x.total # l.settled
        BY <3>3
      <4>2. settle(l, x.total) = [l EXCEPT !.settled = x.total, !.requests = @ + 1, !.sent = FALSE]
        BY <3>3, <4>1 DEF settle
      <4> QED BY <4>2
    <3>4. CASE l.version /\ x.total # l.settled /\ x.total # l.settled + 1
      BY <3>4 DEF settle, refuse
    <3> QED BY <3>1, <3>2, <3>3, <3>4
  <2> QED BY <2>1, <2>2, <1>2
<1>3. CASE ~l.problem /\ x.kind # "usage"
  <2>1. x.kind \in {"meta", "task", "tool", "bad"}
    BY <1>3
  <2>2. CASE x.kind = "meta"
    BY <1>3, <2>2 DEF apply
  <2>3. CASE x.kind = "task"
    <3>1. l.tasks \in Nat
      OBVIOUS
    <3>2. apply(l, x) = [l EXCEPT !.tasks = @ + 1, !.sent = TRUE]
      BY <1>3, <2>3 DEF apply
    <3>3. apply(l, x).tasks = l.tasks + 1
      BY <3>2
    <3> QED BY <3>1, <3>3, <1>3
  <2>4. CASE x.kind = "tool"
    BY <1>3, <2>4 DEF apply
  <2>5. CASE x.kind = "bad"
    BY <1>3, <2>5 DEF apply, refuse
  <2> QED BY <2>1, <2>2, <2>3, <2>4, <2>5
<1> QED BY <1>1, <1>2, <1>3

(* The lines a thread writes. *)
FitsFile(t, x) ==
  /\ x.kind = "usage" =>
       \/ InFlight(t) /\ x.total = Total(t) + 1
       \/ file[t] # <<>> /\ x = file[t][Len(file[t])]
  /\ x.kind \in {"task", "tool"} => Total(t) < bound.requests[t]
  /\ t = Main /\ base = 1 /\ Len(file[t]) = 3 => x.kind = "task"
  /\ t \in Sub /\ Starter[t] \in Thread => file[t] # <<>> \/ file[Starter[t]] # <<>>

LEMMA AppendIs ==
  ASSUME NEW f \in Seq(AnyLine), NEW x \in AnyLine
  PROVE  LET g == Append(f, x) IN
         /\ g \in Seq(AnyLine) /\ Len(g) = Len(f) + 1 /\ g[Len(f) + 1] = x /\ g # <<>>
         /\ \A k \in 1..Len(f) : g[k] = f[k]
<1> DEFINE g == Append(f, x)
<1>1. g \in Seq(AnyLine) /\ Len(g) = Len(f) + 1 /\ g[Len(f) + 1] = x /\ \A k \in 1..Len(f) : g[k] = f[k]
  OBVIOUS
<1>2. g # <<>>
  BY <1>1
<1> QED BY <1>1, <1>2

LEMMA WriteInv ==
  ASSUME Inv, NEW t \in Thread, NEW x \in AnyLine, Writes(t), Write(t, x), FitsFile(t, x)
  PROVE  Inv'
<1> DEFINE f == file[t]
           n == Len(f)
           f2 == Append(f, x)
<1>1. /\ file' = [file EXCEPT ![t] = f2] /\ bound' = bound /\ agent' = agent /\ turn' = turn /\ base' = base
      /\ stream' = stream /\ watched' = watched /\ session' = session /\ log' = log /\ taken' = taken
      /\ tail' = tail /\ pos' = pos /\ upto' = upto /\ found' = found /\ final' = final
      /\ main' = main /\ ended' = ended /\ budget' = budget /\ called' = called /\ report' = report
  BY DEF Write, readerVars, tailVars, mainVars
<1>2. FileInv /\ BaseInv /\ BoundInv /\ StreamInv /\ ReadInv /\ TailInv /\ FinalInv /\ StaleInv /\ CapInv /\ ReportIsExact
  BY DEF Inv
<1>3. file \in [Thread -> Seq(AnyLine)] /\ f \in Seq(AnyLine) /\ n \in Nat
  BY <1>2 DEF FileInv
<1>4. f2 \in Seq(AnyLine) /\ Len(f2) = n + 1 /\ f2[n + 1] = x /\ f2 # <<>> /\ \A k \in 1..n : f2[k] = f[k]
  BY <1>3, AppendIs
<1>5. /\ file'[t] = f2 /\ \A u \in Thread : u # t => file'[u] = file[u]
      /\ file' \in [Thread -> Seq(AnyLine)]
  BY <1>1, <1>3, <1>4
<1>6. main # "read" => t \notin Ours
  BY <1>2 DEF Writes, TailInv
<1>7. Main \in Ours /\ Main \in Thread /\ Main \notin Sub /\ Sub \subseteq Thread /\ Ours \subseteq Thread
  BY OursAreThreads
<1>8. main # "read" => \A u \in Ours : file'[u] = file[u] /\ u # t
  BY <1>5, <1>6, <1>7
<1> HIDE DEF f2
<1>9. Tells(f, n) /\ \A k \in 0..n : Tells(f, k)
  <2>1. n \in 0..n
    BY <1>3
  <2> QED BY <1>2, <2>1 DEF FileInv
<1>10. \A k \in 0..n : LogAt(f2, k) = LogAt(f, k) /\ Tells(f2, k)
  BY <1>3, <1>9, LogAtPrefix, TellsPrefix DEF f2
<1>11. n + 1 \in 1..Len(f2) /\ n + 1 - 1 = n /\ n \in 0..n /\ n \in 0..Len(f) /\ n + 1 \in 0..Len(f2)
  BY <1>3, <1>4
<1>12. NextTotal(f2, n + 1)
  <2> SUFFICES ASSUME x.kind = "usage", ~LogAt(f, n).problem
               PROVE  \/ x.total = LogAt(f, n).settled + 1
                      \/ n + 1 > 1 /\ f2[n].kind = "usage" /\ x.total = f2[n].total
    BY <1>4, <1>10, <1>11 DEF NextTotal
  <2>1. LogAt(f, n).settled = Total(t)
    BY <1>2, <1>11, LogIsTotal
  <2>2. CASE InFlight(t) /\ x.total = Total(t) + 1
    BY <2>1, <2>2
  <2>3. CASE f # <<>> /\ x = f[n]
    <3>1. n # 0
      BY <1>3, <2>3
    <3>2. n \in 1..n /\ n + 1 > 1
      BY <1>3, <3>1
    <3>3. f2[n] = f[n]
      BY <1>4, <3>2
    <3> QED BY <2>3, <3>2, <3>3
  <2> QED BY <2>2, <2>3 DEF FitsFile
<1>13. Tells(f2, n + 1)
  <2>1. Tells(f2, n + 1 - 1)
    BY <1>10, <1>11
  <2> QED BY <1>4, <1>11, <1>12, <2>1, TellsNext
<1>14. FileInv'
  <2>1. \A u \in Thread : \A k \in 0..Len(file'[u]) : Tells(file'[u], k)
    <3> TAKE u \in Thread
    <3> TAKE k \in 0..Len(file'[u])
    <3>1. CASE u = t
      <4>1. file'[u] = f2 /\ k \in 0..(n + 1)
        BY <1>4, <1>5, <3>1
      <4>2. k \in 0..n \/ k = n + 1
        BY <1>3, <4>1
      <4> QED BY <4>1, <4>2, <1>10, <1>13
    <3>2. CASE u # t
      <4>1. file'[u] = file[u]
        BY <1>5, <3>2
      <4> QED BY <4>1, <1>2 DEF FileInv
    <3> QED BY <3>1, <3>2
  <2>2. \A s \in Sub : file'[s] # <<>> /\ Starter[s] \in Thread => file'[Starter[s]] # <<>>
    <3> TAKE s \in Sub
    <3> HAVE file'[s] # <<>> /\ Starter[s] \in Thread
    <3>1. Starter[s] # s
      BY CodexSessionAssumption
    <3>2. CASE Starter[s] = t
      BY <3>2, <1>4, <1>5
    <3>3. CASE Starter[s] # t /\ s = t
      <4>1. f # <<>> \/ file[Starter[s]] # <<>>
        BY <3>3 DEF FitsFile
      <4>2. file[Starter[s]] # <<>>
        BY <4>1, <3>3, <1>2 DEF FileInv
      <4> QED BY <4>2, <1>5, <3>3
    <3>4. CASE Starter[s] # t /\ s # t
      <4>1. file'[s] = file[s] /\ file'[Starter[s]] = file[Starter[s]]
        BY <1>5, <1>7, <3>4
      <4> QED BY <4>1, <1>2 DEF FileInv
    <3> QED BY <3>2, <3>3, <3>4
  <2> QED BY <1>5, <2>1, <2>2 DEF FileInv
<1>15. /\ Total(t)' = Cardinality(TotalsOf(f2, n + 1)) /\ (InFlight(t)' <=> SentAt(f2, n + 1))
       /\ \A u \in Thread : u # t => Total(u)' = Total(u) /\ (InFlight(u)' <=> InFlight(u))
  <2>1. DOMAIN f2 = 1..(n + 1)
    BY <1>4
  <2>2. Total(t)' = Cardinality(TotalsOf(f2, n + 1))
    BY <1>5, <2>1 DEF Total, TotalsOf
  <2>3. InFlight(t)' <=> SentAt(f2, n + 1)
    BY <1>4, <1>5, <2>1 DEF InFlight, SentAt
  <2>4. \A u \in Thread : u # t => Total(u)' = Total(u)
    BY <1>5 DEF Total
  <2>5. \A u \in Thread : u # t => (InFlight(u)' <=> InFlight(u))
    BY <1>5 DEF InFlight
  <2> QED BY <2>2, <2>3, <2>4, <2>5
<1>16. Total(t) = Cardinality(TotalsOf(f, n)) /\ Total(t) \in Nat /\ (InFlight(t) <=> SentAt(f, n))
  BY <1>2, TotalIs
<1>17. /\ IsFiniteSet(TotalsOf(f2, n + 1)) /\ Cardinality(TotalsOf(f2, n + 1)) \in Nat
       /\ IsFiniteSet(TotalsOf(f, n))
  <2>1. IsFiniteSet(TotalsOf(f2, n + 1)) /\ Cardinality(TotalsOf(f2, n + 1)) \in Nat
    BY <1>4, <1>11, <1>13, RequestsAreTotals
  <2>2. IsFiniteSet(TotalsOf(f, n))
    BY <1>3, <1>9, <1>11, RequestsAreTotals
  <2> QED BY <2>1, <2>2
<1>18. TotalsOf(f2, n + 1) = TotalsOf(f, n) \cup (IF x.kind = "usage" THEN {x.total} ELSE {})
  <2>1. TotalsOf(f2, n + 1) = TotalsOf(f2, n) \cup (IF x.kind = "usage" THEN {x.total} ELSE {})
    BY <1>4, <1>11, TotalsStep
  <2>2. TotalsOf(f2, n) = TotalsOf(f, n)
    BY <1>4 DEF TotalsOf
  <2> QED BY <2>1, <2>2
<1>19. Total(t)' \in Nat /\ Total(t) <= Total(t)'
  <2>1. TotalsOf(f, n) \subseteq TotalsOf(f2, n + 1)
    BY <1>18
  <2>2. Cardinality(TotalsOf(f, n)) <= Cardinality(TotalsOf(f2, n + 1))
    BY <1>17, <2>1, FS_Subset
  <2> QED BY <2>2, <1>15, <1>16, <1>17
<1>20. BoundInv'
  <2>1. bound.requests[t] \in Nat
    BY <1>2, CodexSessionAssumption DEF BoundInv
  <2>2. Total(t) <= bound.requests[t] /\ (InFlight(t) => Total(t) < bound.requests[t])
    BY <1>2 DEF BoundInv
  <2>3. /\ x.kind \in {"task", "tool"} => SentAt(f2, n + 1)
        /\ x.kind = "usage" => ~SentAt(f2, n + 1)
        /\ x.kind \notin {"task", "tool", "usage"} => (SentAt(f2, n + 1) <=> SentAt(f2, n))
    BY <1>4, <1>11, SentStep
  <2>4. SentAt(f2, n) <=> SentAt(f, n)
    <3>1. \A i \in 1..n : \A j \in i + 1 .. n : j \in 1..n
      BY <1>3
    <3> QED BY <1>4, <3>1 DEF SentAt
  <2>5. x.kind # "usage" => Total(t)' = Total(t)
    BY <1>15, <1>16, <1>18
  <2>6. /\ Total(t)' <= bound.requests[t]
        /\ InFlight(t)' => Total(t)' < bound.requests[t]
    <3>1. CASE x.kind = "usage"
      <4>1. ~InFlight(t)'
        BY <3>1, <2>3, <1>15
      <4>2. CASE InFlight(t) /\ x.total = Total(t) + 1
        <5>1. Cardinality(TotalsOf(f, n) \cup {x.total}) <= Cardinality(TotalsOf(f, n)) + 1
          <6>1. Cardinality(TotalsOf(f, n) \cup {x.total}) =
                  IF x.total \in TotalsOf(f, n) THEN Cardinality(TotalsOf(f, n)) ELSE Cardinality(TotalsOf(f, n)) + 1
            BY <1>17, FS_AddElement
          <6> QED BY <6>1, <1>16
        <5>2. Total(t)' <= Total(t) + 1
          BY <5>1, <1>15, <1>16, <1>18, <3>1
        <5>3. Total(t) < bound.requests[t]
          BY <2>2, <4>2
        <5> QED BY <4>1, <5>2, <5>3, <2>1, <1>16, <1>19
      <4>3. CASE f # <<>> /\ x = f[n]
        <5>1. n \in 1..n
          BY <1>3, <4>3
        <5>2. x.total \in TotalsOf(f, n)
          BY <3>1, <4>3, <5>1 DEF TotalsOf
        <5>3. TotalsOf(f2, n + 1) = TotalsOf(f, n)
          BY <5>2, <1>18
        <5>4. Total(t)' = Total(t)
          BY <5>3, <1>15, <1>16
        <5> QED BY <4>1, <5>4, <2>2
      <4> QED BY <3>1, <4>2, <4>3 DEF FitsFile
    <3>2. CASE x.kind \in {"task", "tool"}
      <4>1. Total(t) < bound.requests[t] /\ Total(t)' = Total(t)
        BY <3>2, <2>5 DEF FitsFile
      <4> QED BY <4>1, <2>2
    <3>3. CASE x.kind \notin {"task", "tool", "usage"}
      <4>1. Total(t)' = Total(t) /\ (InFlight(t)' <=> InFlight(t))
        BY <3>3, <2>3, <2>4, <2>5, <1>15, <1>16
      <4> QED BY <4>1, <2>2
    <3> QED BY <3>1, <3>2, <3>3
  <2>7. \A u \in Thread : u # t => /\ Total(u)' <= bound.requests[u]
                                   /\ InFlight(u)' => Total(u)' < bound.requests[u]
    BY <1>2, <1>15 DEF BoundInv
  <2> QED BY <2>6, <2>7, <1>1, <1>2 DEF BoundInv
<1>21. BaseInv'
  <2> SUFFICES ASSUME base = 1
               PROVE  /\ Len(file'[Main]) >= 3
                      /\ Len(file'[Main]) = 3 => file'[Main] = Earlier
                      /\ \A k \in 3..Len(file'[Main]) :
                           LogAt(file'[Main], k).problem \/ LogAt(file'[Main], k).tasks >= (IF k = 3 THEN 1 ELSE 2)
    BY <1>1, <1>2 DEF BaseInv
  <2>1. CASE t # Main
    <3>1. file'[Main] = file[Main]
      BY <1>5, <1>7, <2>1
    <3> QED BY <3>1, <1>2 DEF BaseInv
  <2>2. CASE t = Main
    <3>1. n >= 3 /\ \A k \in 3..n : LogAt(f, k).problem \/ LogAt(f, k).tasks >= (IF k = 3 THEN 1 ELSE 2)
      BY <1>2, <2>2 DEF BaseInv
    <3>2. file'[Main] = f2 /\ Len(file'[Main]) = n + 1 /\ n + 1 >= 4
      BY <1>3, <1>4, <1>5, <2>2, <3>1
    <3> DEFINE l == LogAt(f, n)
               m == LogAt(f2, n + 1)
    <3>3. m = apply(l, x) /\ l \in AnyLog /\ m \in AnyLog
      <4>1. m = apply(LogAt(f2, n), x) /\ m \in AnyLog
        BY <1>4, <1>11, LogAtSteps
      <4>2. l \in AnyLog
        BY <1>3, <1>11, LogAtSteps
      <4> QED BY <4>1, <4>2, <1>10, <1>11
    <3>4. l.problem \/ l.tasks >= (IF n = 3 THEN 1 ELSE 2)
      <4>1. n \in 3..n
        BY <1>3, <3>1
      <4> QED BY <3>1, <4>1
    <3> HIDE DEF l, m
    <3>5. m.problem \/ m.tasks >= 2
      <4>1. /\ m.problem \/ m.tasks >= l.tasks
            /\ l.problem => m.problem
            /\ x.kind = "task" => m.problem \/ m.tasks = l.tasks + 1
        BY <3>3, ApplyTasks
      <4>2. n = 3 => x.kind = "task"
        BY <2>2 DEF FitsFile
      <4>3. l.tasks \in Nat /\ m.tasks \in Nat
        BY <3>3 DEF AnyLog
      <4>4. CASE n = 3
        BY <4>1, <4>2, <4>3, <4>4, <3>4
      <4>5. CASE n # 3
        BY <4>1, <4>3, <4>5, <3>4
      <4> QED BY <4>4, <4>5
    <3>6. ASSUME NEW k \in 3..(n + 1)
          PROVE  LogAt(f2, k).problem \/ LogAt(f2, k).tasks >= (IF k = 3 THEN 1 ELSE 2)
      <4>1. CASE k \in 3..n
        <5>1. k \in 0..n
          BY <4>1
        <5>2. LogAt(f2, k) = LogAt(f, k)
          BY <5>1, <1>10
        <5> QED BY <4>1, <5>2, <3>1
      <4>2. CASE k = n + 1
        <5>1. k # 3
          BY <4>2, <3>1, <1>3
        <5> QED BY <4>2, <5>1, <3>5 DEF m
      <4>3. k \in 3..n \/ k = n + 1
        BY <1>3
      <4> QED BY <4>1, <4>2, <4>3
    <3>7. Len(file'[Main]) >= 3 /\ Len(file'[Main]) # 3
      BY <3>2, <1>3
    <3> QED BY <3>2, <3>6, <3>7
  <2> QED BY <2>1, <2>2
<1>22. Counted' \in Nat /\ Counted <= Counted' /\ (main # "read" => Counted' = Counted)
  <2> DEFINE g == [u \in Thread |-> Total(u)']
  <2>1. Totals \in [Thread -> Nat] /\ Counted = SumFunctionOnSet(Totals, Ours) /\ Counted \in Nat
    BY <1>2, CountedIs
  <2>2. \A u \in Thread : Total(u)' \in Nat /\ Total(u) <= Total(u)'
    <3> TAKE u \in Thread
    <3>1. Total(u) \in Nat
      BY <1>2, TotalIs
    <3> QED BY <3>1, <1>15, <1>19
  <2>3. g \in [Thread -> Nat] /\ \A u \in Ours : Totals[u] <= g[u]
    BY <2>2, <1>7 DEF Totals
  <2>4. Counted' = SumFunctionOnSet(g, Ours)
    BY DEF Counted
  <2>5. main # "read" => \A u \in Ours : Totals[u] = g[u]
    BY <1>7, <1>8, <1>15 DEF Totals
  <2> HIDE DEF g
  <2>6. SumFunctionOnSet(Totals, Ours) <= SumFunctionOnSet(g, Ours) /\ SumFunctionOnSet(g, Ours) \in Nat
    BY <2>1, <2>3, <1>7, SumGrows
  <2>7. main # "read" => SumFunctionOnSet(Totals, Ours) = SumFunctionOnSet(g, Ours)
    <3>1. \A u \in Ours \ Ours : g[u] = 0
      OBVIOUS
    <3> QED BY <2>1, <2>3, <2>5, <3>1, <1>7, SumDropsZeros
  <2> QED BY <2>1, <2>4, <2>6, <2>7
<1>23. StreamInv'
  BY <1>1, <1>2 DEF StreamInv, Emitted
<1>24. ReadInv'
  <2>1. \A u \in Thread : Len(file[u]) \in Nat /\ Len(file[u]) <= Len(file'[u]) /\
           \A k \in 0..Len(file[u]) : LogAt(file'[u], k) = LogAt(file[u], k)
    <3> TAKE u \in Thread
    <3>1. Len(file[u]) \in Nat
      BY <1>3
    <3>2. CASE u = t
      BY <3>1, <3>2, <1>3, <1>4, <1>5, <1>10
    <3>3. CASE u # t
      BY <3>1, <3>3, <1>5
    <3> QED BY <3>2, <3>3
  <2>2. \A u \in Thread : pos[u] \in 0..Len(file[u]) /\ upto[u] \in Nat /\ upto[u] <= Len(file'[u])
    <3> TAKE u \in Thread
    <3>1. pos[u] \in Nat /\ upto[u] \in Nat /\ pos[u] <= upto[u] /\ upto[u] <= Len(file[u])
      BY <1>2 DEF ReadInv
    <3>2. Len(file[u]) \in Nat /\ Len(file[u]) <= Len(file'[u])
      BY <2>1
    <3>3. Len(file'[u]) \in Nat
      BY <1>5
    <3> QED BY <3>1, <3>2, <3>3
  <2>3. \A u \in Thread : LogAt(file'[u], pos[u]) = LogAt(file[u], pos[u])
    BY <2>1, <2>2
  <2>4. log[Main].requests <= Total(Main) => log[Main].requests <= Total(Main)'
    <3>1. log[Main].requests \in Nat
      BY <1>2, <1>7 DEF ReadInv, AnyLog
    <3>2. Total(Main) \in Nat
      BY <1>2, <1>7, TotalIs
    <3>3. Total(Main)' \in Nat /\ Total(Main) <= Total(Main)'
      BY <3>2, <1>7, <1>15, <1>19
    <3> QED BY <3>1, <3>2, <3>3
  <2> QED BY <2>2, <2>3, <2>4, <1>1, <1>2, <1>7 DEF ReadInv
<1>25. TailInv'
  <2>1. file[Main] # <<>> => file'[Main] # <<>>
    BY <1>4, <1>5, <1>7
  <2> QED BY <2>1, <1>1, <1>2 DEF TailInv
<1>26. FinalInv'
  <2>1. CASE main = "read"
    <3>1. ~final /\ ~(watched /\ tail = "done")
      BY <1>2, <2>1 DEF TailInv
    <3> QED BY <3>1, <1>1 DEF FinalInv
  <2>2. CASE main # "read"
    <3>1. \A u \in Ours : file'[u] = file[u]
      BY <1>8, <2>2
    <3>2. {Main} \cup taken \subseteq Ours
      BY <1>2, <1>7 DEF ReadInv
    <3>3. WholeTaken => WholeTaken'
      BY <1>1, <3>1 DEF WholeTaken
    <3>4. \A u \in {Main} \cup taken : file'[u] = file[u]
      BY <3>1, <3>2
    <3> QED BY <3>3, <3>4, <1>1, <1>2 DEF FinalInv
  <2> QED BY <2>1, <2>2
<1>27. StaleInv'
  BY <1>1, <1>2 DEF StaleInv
<1>28. CapInv'
  <2>1. Counted \in Nat
    BY <1>2, CountedIs
  <2>2. Budget \in Nat
    BY CodexSessionAssumption
  <2>3. found \in Nat /\ found <= Counted /\ (budget => Counted >= Budget)
    BY <1>2 DEF CapInv, StopIsAtCap
  <2>4. found <= Counted' /\ (budget => Counted' >= Budget)
    BY <2>1, <2>2, <2>3, <1>22
  <2> QED BY <2>3, <2>4, <1>1 DEF CapInv, StopIsAtCap
<1>29. ReportIsExact'
  <2>1. CASE main # "finished"
    BY <1>1, <2>1 DEF ReportIsExact, WatchedIsExact, UnrecordedIsExact
  <2>2. CASE main = "finished"
    <3>1. Counted' = Counted
      BY <1>22, <2>2
    <3>2. \A u \in Ours : InFlight(u)' <=> InFlight(u)
      BY <1>7, <1>8, <1>15, <2>2
    <3>3. {u \in Ours : InFlight(u)}' = {u \in Ours : InFlight(u)}
      BY <3>2
    <3> QED BY <3>1, <3>3, <1>1, <1>2 DEF ReportIsExact, WatchedIsExact, UnrecordedIsExact
  <2> QED BY <2>1, <2>2
<1> QED BY <1>14, <1>20, <1>21, <1>23, <1>24, <1>25, <1>26, <1>27, <1>28, <1>29 DEF Inv

(* The file an earlier run left has nothing in flight and no task of this run. *)
LEMMA EarlierIdle ==
  ASSUME Inv, base = 1, Len(file[Main]) = 3
  PROVE  ~InFlight(Main) /\ ~OnTask(Main)
<1>1. FileInv /\ Main \in Thread
  BY OursAreThreads DEF Inv
<1>2. file[Main] = Earlier
  BY DEF Inv, BaseInv
<1>3. ~InFlight(Main)
  BY <1>1, <1>2, TotalIs, EarlierSays
<1>4. {i \in DOMAIN Earlier : Earlier[i].kind = "task"} = {2}
  <2>1. DOMAIN Earlier = 1..3
    BY EarlierSays
  <2>2. Earlier[1].kind = "meta" /\ Earlier[2].kind = "task" /\ Earlier[3].kind = "usage"
    BY DEF Earlier, Line, Usage
  <2>3. \A i \in 1..3 : i = 1 \/ i = 2 \/ i = 3
    OBVIOUS
  <2>4. 2 \in 1..3
    OBVIOUS
  <2> HIDE DEF Earlier
  <2> QED BY <2>1, <2>2, <2>3, <2>4
<1>5. Count(Main, "task") = 1
  <2>1. Count(Main, "task") = Cardinality({2})
    BY <1>2, <1>4 DEF Count
  <2>2. Cardinality({2}) = 1
    BY FS_Singleton
  <2> QED BY <2>1, <2>2
<1>6. ~OnTask(Main)
  BY <1>5 DEF OnTask
<1> QED BY <1>3, <1>6

LEMMA CreateFileInv ==
  ASSUME Inv, NEW t \in Thread, CreateFile(t)
  PROVE  Inv'
<1>1. Writes(t) /\ Write(t, Line("meta")) /\ file[t] = <<>>
  BY DEF CreateFile
<1>2. t \in Sub => (Starter[t] \in Thread => file[Starter[t]] # <<>>)
  BY DEF CreateFile
<1>3. Line("meta") \in AnyLine /\ Line("meta").kind = "meta"
  BY DEF Line, AnyLine
<1>4. FitsFile(t, Line("meta"))
  <2>1. Len(file[t]) # 3
    BY <1>1
  <2> QED BY <2>1, <1>2, <1>3 DEF FitsFile
<1> QED BY <1>1, <1>3, <1>4, WriteInv

LEMMA StartTaskInv ==
  ASSUME Inv, NEW t \in Thread, StartTask(t)
  PROVE  Inv'
<1>1. Writes(t) /\ Write(t, Line("task")) /\ file[t] # <<>> /\ Total(t) < bound.requests[t]
  BY DEF StartTask
<1>2. Line("task") \in AnyLine /\ Line("task").kind = "task"
  BY DEF Line, AnyLine
<1>3. FitsFile(t, Line("task"))
  BY <1>1, <1>2 DEF FitsFile
<1> QED BY <1>1, <1>2, <1>3, WriteInv

LEMMA SettleRequestInv ==
  ASSUME Inv, NEW t \in Thread, SettleRequest(t)
  PROVE  Inv'
<1>1. Writes(t) /\ Write(t, Usage(Total(t) + 1)) /\ InFlight(t)
  BY DEF SettleRequest
<1>2. FileInv
  BY DEF Inv
<1>3. Total(t) \in Nat
  BY <1>2, TotalIs
<1>4. /\ Usage(Total(t) + 1) \in AnyLine
      /\ Usage(Total(t) + 1).kind = "usage" /\ Usage(Total(t) + 1).total = Total(t) + 1
  BY <1>3 DEF Usage, AnyLine
<1>5. file[t] # <<>>
  BY <1>1 DEF InFlight
<1>6. FitsFile(t, Usage(Total(t) + 1))
  BY <1>1, <1>4, <1>5, EarlierIdle DEF FitsFile
<1> QED BY <1>1, <1>4, <1>6, WriteInv

LEMMA RepeatTotalInv ==
  ASSUME Inv, NEW t \in Thread, RepeatTotal(t)
  PROVE  Inv'
<1>1. Writes(t) /\ Write(t, Last(file[t])) /\ OnTask(t) /\ Last(file[t]).kind = "usage"
  BY DEF RepeatTotal
<1>2. FileInv /\ file[t] \in Seq(AnyLine)
  BY DEF Inv, FileInv
<1>3. file[t] # <<>>
  <2> SUFFICES ASSUME file[t] = <<>> PROVE FALSE
    OBVIOUS
  <2>1. {i \in DOMAIN file[t] : file[t][i].kind = "task"} = {}
    OBVIOUS
  <2>2. Count(t, "task") = 0
    BY <2>1, FS_EmptySet DEF Count
  <2>3. base \in {0, 1}
    BY DEF Inv, BaseInv
  <2> QED BY <1>1, <2>2, <2>3 DEF OnTask
<1>4. Last(file[t]) = file[t][Len(file[t])] /\ Last(file[t]) \in AnyLine
  <2>1. Len(file[t]) \in 1..Len(file[t])
    BY <1>2, <1>3
  <2> QED BY <2>1, <1>2 DEF Last
<1>5. FitsFile(t, Last(file[t]))
  BY <1>1, <1>3, <1>4, EarlierIdle DEF FitsFile
<1> QED BY <1>1, <1>4, <1>5, WriteInv

LEMMA SendOutputInv ==
  ASSUME Inv, NEW t \in Thread, SendOutput(t)
  PROVE  Inv'
<1>1. Writes(t) /\ Write(t, Line("tool")) /\ OnTask(t) /\ Total(t) < bound.requests[t]
  BY DEF SendOutput
<1>2. Line("tool") \in AnyLine /\ Line("tool").kind = "tool"
  BY DEF Line, AnyLine
<1>3. file[t] # <<>>
  <2> SUFFICES ASSUME file[t] = <<>> PROVE FALSE
    OBVIOUS
  <2>1. {i \in DOMAIN file[t] : file[t][i].kind = "task"} = {}
    OBVIOUS
  <2>2. Count(t, "task") = 0
    BY <2>1, FS_EmptySet DEF Count
  <2>3. base \in {0, 1}
    BY DEF Inv, BaseInv
  <2> QED BY <1>1, <2>2, <2>3 DEF OnTask
<1>4. FitsFile(t, Line("tool"))
  BY <1>1, <1>2, <1>3, EarlierIdle DEF FitsFile
<1> QED BY <1>1, <1>2, <1>4, WriteInv

LEMMA WriteUnreadableInv ==
  ASSUME Inv, NEW t \in Thread, WriteUnreadable(t)
  PROVE  Inv'
<1>1. Writes(t) /\ Write(t, Line("bad")) /\ InFlight(t)
  BY DEF WriteUnreadable
<1>2. Line("bad") \in AnyLine /\ Line("bad").kind = "bad"
  BY DEF Line, AnyLine
<1>3. file[t] # <<>>
  BY <1>1 DEF InFlight
<1>4. FitsFile(t, Line("bad"))
  BY <1>1, <1>2, <1>3, EarlierIdle DEF FitsFile
<1> QED BY <1>1, <1>2, <1>4, WriteInv

-----------------------------------------------------------------------------
(* The agent's stream and exit.                                            *)

LEMMA EmitInv ==
  ASSUME Inv, NEW from, NEW to \in {"none", "thread", "open", "closed"}, NEW x \in AnyEvent, Emit(from, to, x),
         Emitted' = Emitted + 1, x.kind \in KindsAt(Emitted + 1)
  PROVE  Inv'
<1>1. /\ file' = file /\ bound' = bound /\ agent' = agent /\ turn' = to /\ base' = base
      /\ stream' = Append(stream, x) /\ watched' = watched /\ session' = session /\ log' = log /\ taken' = taken
      /\ tail' = tail /\ pos' = pos /\ upto' = upto /\ found' = found /\ final' = final
      /\ main' = main /\ budget' = budget /\ report' = report
  BY DEF Emit, readerVars, tailVars, mainVars
<1>2. FileInv /\ BaseInv /\ BoundInv /\ StreamInv /\ ReadInv /\ TailInv /\ FinalInv /\ StaleInv /\ CapInv /\ ReportIsExact
  BY DEF Inv
<1>3. FileInv' /\ BaseInv' /\ BoundInv' /\ Counted' = Counted /\ Total(Main)' = Total(Main)
  BY <1>1, <1>2, SameFiles
<1>4. StreamInv'
  <2>1. stream \in Seq(AnyEvent) /\ Len(stream) \in Nat /\ Emitted \in Nat /\ Len(stream) <= Emitted
    BY <1>2 DEF StreamInv, Emitted
  <2> DEFINE n == Len(stream)
             e == Emitted
  <2>2. /\ stream' \in Seq(AnyEvent) /\ Len(stream') = n + 1
        /\ stream'[n + 1] = x /\ \A i \in 1..n : stream'[i] = stream[i]
    BY <1>1, <2>1
  <2>3. Emitted' = e + 1 /\ (e + 1) - (n + 1) = e - n /\ n \in Nat /\ e \in Nat /\ n <= e
    BY <2>1
  <2>4. \A i \in 1..(n + 1) : stream'[i].kind \in KindsAt(e - n + i)
    <3> TAKE i \in 1..(n + 1)
    <3>1. CASE i \in 1..n
      <4>1. stream[i].kind \in KindsAt(e - n + i)
        BY <1>2, <3>1 DEF StreamInv
      <4> QED BY <4>1, <2>2, <3>1
    <3>2. CASE i = n + 1
      <4>1. e - n + i = e + 1
        BY <2>3, <3>2
      <4> QED BY <4>1, <2>2, <3>2
    <3>3. i \in 1..n \/ i = n + 1
      BY <2>3
    <3> QED BY <3>1, <3>2, <3>3
  <2>5. /\ session.turnsStarted <= IF e - n < 2 THEN 0 ELSE 1
        /\ e - n < 3 => session.turns = 0
        /\ session.turns = 0 => session.total = 0
        /\ session.turns # 0 => ~session.turnOpen
        /\ session \in AnySession
    BY <1>2 DEF StreamInv
  <2>6. Emitted' - Len(stream') = e - n /\ Len(stream') <= Emitted' /\ 1..Len(stream') = 1..(n + 1)
    BY <2>2, <2>3
  <2>7. \A i \in 1..Len(stream') : stream'[i].kind \in KindsAt(Emitted' - Len(stream') + i)
    BY <2>4, <2>6
  <2> HIDE DEF n, e
  <2>8. /\ session'.turnsStarted <= IF Emitted' - Len(stream') < 2 THEN 0 ELSE 1
        /\ Emitted' - Len(stream') < 3 => session'.turns = 0
    BY <2>5, <2>6, <1>1
  <2> QED BY <1>1, <2>2, <2>5, <2>6, <2>7, <2>8 DEF StreamInv, KindsAt
<1>5. ReadInv' /\ TailInv' /\ StaleInv'
  BY <1>1, <1>2, <1>3 DEF ReadInv, TailInv, StaleInv
<1>6. FinalInv'
  BY <1>1, <1>2 DEF FinalInv, WholeTaken
<1>7. CapInv'
  BY <1>1, <1>2, <1>3 DEF CapInv, StopIsAtCap
<1>8. ReportIsExact'
  BY <1>1, <1>2, SameReport
<1> QED BY <1>3, <1>4, <1>5, <1>6, <1>7, <1>8 DEF Inv

LEMMA EmitsInv ==
  ASSUME Inv,
         \/ Emit("none", "thread", Line("thread"))
         \/ Emit("thread", "open", Line("turn"))
         \/ EmitCompleted
         \/ Emit("open", "closed", Line("unread"))
  PROVE  Inv'
<1>1. CASE Emit("none", "thread", Line("thread"))
  <2>1. turn = "none" /\ turn' = "thread"
    BY <1>1 DEF Emit
  <2>2. Emitted = 0 /\ Emitted' = Emitted + 1
    BY <2>1 DEF Emitted
  <2>3. Line("thread") \in AnyEvent /\ Line("thread").kind \in KindsAt(Emitted + 1)
    BY <2>2 DEF Line, AnyEvent, KindsAt
  <2> QED BY <1>1, <2>2, <2>3, EmitInv
<1>2. CASE Emit("thread", "open", Line("turn"))
  <2>1. turn = "thread" /\ turn' = "open"
    BY <1>2 DEF Emit
  <2>2. Emitted = 1 /\ Emitted' = Emitted + 1
    BY <2>1 DEF Emitted
  <2>3. Line("turn") \in AnyEvent /\ Line("turn").kind \in KindsAt(Emitted + 1)
    BY <2>2 DEF Line, AnyEvent, KindsAt
  <2> QED BY <1>2, <2>2, <2>3, EmitInv
<1>3. CASE EmitCompleted
  <2> DEFINE own == Total(Main) + IF InFlight(Main) THEN 1 ELSE 0
  <2>1. PICK total \in {own, own + Counted - Total(Main)} :
           Emit("open", "closed", [kind |-> "completed", total |-> total])
    BY <1>3 DEF EmitCompleted
  <2>2. turn = "open" /\ turn' = "closed"
    BY <2>1 DEF Emit
  <2>3. Emitted = 2 /\ Emitted' = Emitted + 1
    BY <2>2 DEF Emitted
  <2>4. total \in Nat
    <3>1. FileInv /\ Main \in Thread
      BY OursAreThreads DEF Inv
    <3>2. Total(Main) \in Nat /\ Counted \in Nat
      BY <3>1, TotalIs, CountedIs
    <3>3. own \in Nat /\ Total(Main) <= own
      BY <3>2
    <3> HIDE DEF own
    <3> QED BY <3>2, <3>3
  <2> HIDE DEF own
  <2> DEFINE x == [kind |-> "completed", total |-> total]
  <2>5. x \in AnyEvent /\ x.kind \in KindsAt(Emitted + 1)
    BY <2>3, <2>4 DEF AnyEvent, KindsAt
  <2>6. Emit("open", "closed", x)
    BY <2>1
  <2> HIDE DEF x
  <2> QED BY <2>3, <2>5, <2>6, EmitInv
<1>4. CASE Emit("open", "closed", Line("unread"))
  <2>1. turn = "open" /\ turn' = "closed"
    BY <1>4 DEF Emit
  <2>2. Emitted = 2 /\ Emitted' = Emitted + 1
    BY <2>1 DEF Emitted
  <2>3. Line("unread") \in AnyEvent /\ Line("unread").kind \in KindsAt(Emitted + 1)
    BY <2>2 DEF Line, AnyEvent, KindsAt
  <2> QED BY <1>4, <2>2, <2>3, EmitInv
<1> QED BY <1>1, <1>2, <1>3, <1>4

LEMMA ExitInv ==
  ASSUME Inv, Exit
  PROVE  Inv'
<1>1. /\ file' = file /\ bound' = bound /\ agent' = "exited" /\ turn' = turn /\ base' = base
      /\ stream' = stream /\ watched' = watched /\ session' = session /\ log' = log /\ taken' = taken
      /\ tail' = tail /\ pos' = pos /\ upto' = upto /\ found' = found /\ final' = final
      /\ main' = main /\ budget' = budget /\ report' = report
  BY DEF Exit, readerVars, tailVars, mainVars
<1>2. FileInv /\ BaseInv /\ BoundInv /\ StreamInv /\ ReadInv /\ TailInv /\ FinalInv /\ StaleInv /\ CapInv /\ ReportIsExact
  BY DEF Inv
<1>3. FileInv' /\ BaseInv' /\ BoundInv' /\ Counted' = Counted /\ Total(Main)' = Total(Main)
  BY <1>1, <1>2, SameFiles
<1>4. StreamInv'
  BY <1>1, <1>2 DEF StreamInv, Emitted
<1>5. ReadInv' /\ TailInv' /\ StaleInv'
  BY <1>1, <1>2, <1>3 DEF ReadInv, TailInv, StaleInv
<1>6. FinalInv'
  BY <1>1, <1>2 DEF FinalInv, WholeTaken
<1>7. CapInv'
  BY <1>1, <1>2, <1>3 DEF CapInv, StopIsAtCap
<1>8. ReportIsExact'
  BY <1>1, <1>2, SameReport
<1> QED BY <1>3, <1>4, <1>5, <1>6, <1>7, <1>8 DEF Inv

-----------------------------------------------------------------------------
(* The stream is read.                                                     *)

LEMMA FeedInv ==
  ASSUME Inv, Feed
  PROVE  Inv'
<1> DEFINE x == Head(stream)
           n == Len(stream)
           c == Emitted - n
<1>1. /\ main = "read" /\ stream # <<>> /\ stream' = Tail(stream)
      /\ file' = file /\ bound' = bound /\ agent' = agent /\ turn' = turn /\ base' = base
      /\ watched' = watched /\ log' = log /\ taken' = taken
      /\ tail' = tail /\ pos' = pos /\ upto' = upto /\ found' = found /\ final' = final
      /\ main' = main /\ budget' = budget /\ report' = report
  BY DEF Feed, tailVars, mainVars
<1>2. FileInv /\ BaseInv /\ BoundInv /\ StreamInv /\ ReadInv /\ TailInv /\ FinalInv /\ StaleInv /\ CapInv /\ ReportIsExact
  BY DEF Inv
<1>3. FileInv' /\ BaseInv' /\ BoundInv' /\ Counted' = Counted /\ Total(Main)' = Total(Main)
  BY <1>1, <1>2, SameFiles
<1>4. /\ stream \in Seq(AnyEvent) /\ session \in AnySession /\ n <= Emitted
      /\ \A i \in 1..n : stream[i].kind \in KindsAt(c + i)
      /\ session.turnsStarted <= IF c < 2 THEN 0 ELSE 1
      /\ c < 3 => session.turns = 0
      /\ session.turns = 0 => session.total = 0
      /\ session.turns # 0 => ~session.turnOpen
  BY <1>2 DEF StreamInv
<1>5. /\ n \in Nat /\ n >= 1 /\ x = stream[1] /\ x \in AnyEvent
      /\ stream' \in Seq(AnyEvent) /\ Len(stream') = n - 1 /\ \A i \in 1..(n - 1) : stream'[i] = stream[i + 1]
  BY <1>1, <1>4
<1>6. Emitted \in 0..3 /\ Emitted' = Emitted
  BY <1>1 DEF Emitted
<1>7. c \in 0..2 /\ Emitted' - Len(stream') = c + 1
  BY <1>4, <1>5, <1>6
<1>8. x.kind \in KindsAt(c + 1)
  BY <1>4, <1>5
<1>9. \A i \in 1..Len(stream') : stream'[i].kind \in KindsAt(Emitted' - Len(stream') + i)
  <2> TAKE i \in 1..Len(stream')
  <2>1. i + 1 \in 1..n /\ i \in 1..(n - 1)
    BY <1>5
  <2>2. c + 1 + i = c + (i + 1)
    BY <1>7
  <2>3. stream[i + 1].kind \in KindsAt(c + (i + 1))
    BY <1>4, <2>1
  <2> QED BY <2>1, <2>2, <2>3, <1>5, <1>7
<1> HIDE DEF x, c, n
<1>10. /\ session' \in AnySession
       /\ session'.turnsStarted <= IF c + 1 < 2 THEN 0 ELSE 1
       /\ c + 1 < 3 => session'.turns = 0
       /\ session'.turns = 0 => session'.total = 0
       /\ session'.turns # 0 => ~session'.turnOpen
       /\ session'.opened = session.opened /\ session'.stale = session.stale
       /\ session.thread => session'.thread
  <2> USE DEF AnySession
  <2>1. session.turnsStarted \in Nat /\ session.turns \in Nat /\ session.total \in Nat
    BY <1>4
  <2>2. x.kind \in {"thread", "turn", "completed", "unread"} /\ x.total \in Nat
    BY <1>5 DEF AnyEvent
  <2>3. CASE x.kind = "thread"
    <3>1. session' = [session EXCEPT !.thread = TRUE]
      BY <2>3 DEF Feed, x
    <3>2. c = 0
      BY <1>7, <1>8, <2>3 DEF KindsAt
    <3>3. session' \in AnySession
      BY <3>1, <1>4
    <3>4. /\ session'.turnsStarted = session.turnsStarted /\ session'.turns = session.turns
          /\ session'.total = session.total /\ session'.turnOpen = session.turnOpen
          /\ session'.opened = session.opened /\ session'.stale = session.stale /\ session'.thread = TRUE
      BY <3>1, <1>4
    <3> QED BY <3>2, <3>3, <3>4, <2>1, <1>4
  <2>4. CASE x.kind = "turn"
    <3>1. session' = [session EXCEPT !.turnOpen = TRUE, !.turnsStarted = @ + 1]
      BY <2>4 DEF Feed, x
    <3>2. c = 1
      BY <1>7, <1>8, <2>4 DEF KindsAt
    <3>3. session.turnsStarted + 1 \in Nat
      BY <2>1
    <3>4. session' \in AnySession
      BY <3>1, <3>3, <1>4
    <3>5. /\ session'.turnsStarted = session.turnsStarted + 1 /\ session'.turns = session.turns
          /\ session'.total = session.total
          /\ session'.opened = session.opened /\ session'.stale = session.stale /\ session'.thread = session.thread
      BY <3>1, <1>4
    <3>6. session.turns = 0 /\ session.turnsStarted = 0
      BY <3>2, <2>1, <1>4
    <3> QED BY <3>2, <3>4, <3>5, <3>6, <1>4
  <2>5. CASE x.kind \in {"completed", "unread"}
    <3>1. c = 2
      BY <1>7, <1>8, <2>5 DEF KindsAt
    <3>2. session.turns = 0 /\ session.total = 0 /\ session.turnsStarted <= 1
      BY <3>1, <1>4
    <3>3. CASE x.kind = "completed" /\ ~session.unreadTurn
      <4>1. session' = completeTurn(x.total)
        BY <3>3 DEF Feed, x
      <4>2. session' = [session EXCEPT !.total = x.total, !.turnOpen = FALSE, !.turns = @ + 1]
        BY <4>1 DEF completeTurn
      <4>3. session.turns + 1 \in Nat
        BY <2>1
      <4>4. session' \in AnySession
        BY <4>2, <4>3, <2>2, <1>4
      <4>5. /\ session'.turnsStarted = session.turnsStarted /\ session'.turns = session.turns + 1
            /\ session'.turnOpen = FALSE
            /\ session'.opened = session.opened /\ session'.stale = session.stale /\ session'.thread = session.thread
        BY <4>2, <1>4
      <4> QED BY <4>4, <4>5, <3>1, <3>2
    <3>4. CASE x.kind = "completed" /\ session.unreadTurn
      <4>1. session' = session
        BY <3>4 DEF Feed, x
      <4> QED BY <4>1, <3>1, <3>2, <1>4
    <3>5. CASE x.kind = "unread"
      <4>1. session' = [session EXCEPT !.unreadTurn = TRUE]
        BY <3>5 DEF Feed, x
      <4>2. session' \in AnySession
        BY <4>1, <1>4
      <4>3. /\ session'.turnsStarted = session.turnsStarted /\ session'.turns = session.turns
            /\ session'.total = session.total /\ session'.turnOpen = session.turnOpen
            /\ session'.opened = session.opened /\ session'.stale = session.stale /\ session'.thread = session.thread
        BY <4>1, <1>4
      <4> QED BY <4>2, <4>3, <3>1, <3>2, <1>4
    <3> QED BY <2>5, <3>3, <3>4, <3>5
  <2> QED BY <2>2, <2>3, <2>4, <2>5
<1>11. StreamInv'
  <2>1. Len(stream') <= Emitted' /\ Emitted' - Len(stream') = c + 1
    BY <1>4, <1>5, <1>6, <1>7 DEF n
  <2>2. turn' \in {"none", "thread", "open", "closed"}
    BY <1>1, <1>2 DEF StreamInv
  <2> QED BY <2>1, <2>2, <1>5, <1>9, <1>10 DEF StreamInv, KindsAt
<1>12. ReadInv'
  BY <1>1, <1>2, <1>3 DEF ReadInv
<1>13. TailInv' /\ StaleInv'
  BY <1>1, <1>2, <1>10 DEF TailInv, StaleInv
<1>14. FinalInv'
  BY <1>1, <1>2, <1>10 DEF FinalInv, WholeTaken
<1>15. CapInv'
  BY <1>1, <1>2, <1>3 DEF CapInv, StopIsAtCap
<1>16. ReportIsExact'
  BY <1>1, <1>2, SameReport
<1> QED BY <1>3, <1>11, <1>12, <1>13, <1>14, <1>15, <1>16 DEF Inv

-----------------------------------------------------------------------------
(* The tail.                                                               *)

LEMMA FollowInv ==
  ASSUME Inv, Follow
  PROVE  Inv'
<1>1. /\ tail = "follow"
      /\ file' = file /\ bound' = bound /\ agent' = agent /\ turn' = turn /\ base' = base /\ stream' = stream
      /\ watched' = watched /\ log' = log /\ taken' = taken
      /\ pos' = pos /\ found' = found /\ final' = final
      /\ main' = main /\ budget' = budget /\ report' = report
  BY DEF Follow, agentVars, mainVars
<1>2. FileInv /\ BaseInv /\ BoundInv /\ StreamInv /\ ReadInv /\ TailInv /\ FinalInv /\ StaleInv /\ CapInv /\ ReportIsExact
  BY DEF Inv
<1>3. FileInv' /\ BaseInv' /\ BoundInv' /\ Counted' = Counted /\ Total(Main)' = Total(Main)
  BY <1>1, <1>2, SameFiles
<1>4. CapInv'
  BY <1>1, <1>2, <1>3 DEF CapInv, StopIsAtCap
<1>5. ReportIsExact'
  BY <1>1, <1>2, SameReport
<1>6. Emitted' = Emitted /\ Main \in Thread
  BY <1>1, OursAreThreads DEF Emitted
<1>7. watched /\ main \notin {"finish", "finished"}
  BY <1>1, <1>2 DEF TailInv
<1>8. CASE session.thread /\ file[Main] # <<>>
  <2> DEFINE st == IF session.opened THEN session.stale ELSE base = 1 /\ file[Main] = Earlier
  <2>1. /\ tail' = "discover" /\ upto' = [upto EXCEPT ![Main] = Len(file[Main])]
        /\ session' = [session EXCEPT !.stale = st]
    BY <1>8 DEF Follow
  <2>2. st \in BOOLEAN
    BY <1>2 DEF StreamInv, AnySession
  <2>3. session \in AnySession
    BY <1>2 DEF StreamInv
  <2> HIDE DEF st
  <2>4. /\ session' \in AnySession
        /\ session'.turnsStarted = session.turnsStarted /\ session'.turns = session.turns
        /\ session'.total = session.total /\ session'.turnOpen = session.turnOpen
        /\ session'.opened = session.opened /\ session'.stale = st /\ session'.thread = session.thread
    BY <2>1, <2>2, <2>3 DEF AnySession
  <2>5. StreamInv'
    BY <1>1, <1>2, <1>6, <2>4 DEF StreamInv, KindsAt
  <2>6. /\ pos \in [Thread -> Nat] /\ upto \in [Thread -> Nat]
        /\ \A t \in Thread : pos[t] <= upto[t] /\ upto[t] <= Len(file[t]) /\ Len(file[t]) \in Nat
    BY <1>2 DEF ReadInv, FileInv
  <2>7. upto'[Main] = Len(file[Main]) /\ upto' \in [Thread -> Nat] /\ \A t \in Thread : t # Main => upto'[t] = upto[t]
    BY <2>1, <2>6, <1>6
  <2>8. \A t \in Thread : pos[t] <= upto'[t] /\ upto'[t] <= Len(file[t])
    <3> TAKE t \in Thread
    <3>1. CASE t = Main
      BY <3>1, <2>6, <2>7
    <3>2. CASE t # Main
      BY <3>2, <2>6, <2>7
    <3> QED BY <3>1, <3>2
  <2>9. ReadInv'
    BY <1>1, <1>2, <1>3, <2>7, <2>8 DEF ReadInv
  <2>10. TailInv'
    BY <1>1, <1>2, <1>7, <1>8, <2>1, <2>4 DEF TailInv
  <2>11. FinalInv'
    BY <1>1, <2>1, <2>7 DEF FinalInv
  <2>12. StaleInv'
    <3> SUFFICES ASSUME base = 1, ~st
                 PROVE  (session.opened => pos[Main] >= 4) /\ upto'[Main] >= 4
      BY <1>1, <2>1, <2>4 DEF StaleInv
    <3>1. CASE session.opened
      <4>1. pos[Main] >= 4
        BY <3>1, <1>2 DEF st, StaleInv
      <4>2. pos[Main] \in Nat /\ pos[Main] <= upto'[Main] /\ upto'[Main] \in Nat
        BY <2>6, <2>7, <2>8, <1>6
      <4> QED BY <4>1, <4>2
    <3>2. CASE ~session.opened
      <4>1. file[Main] # Earlier
        BY <3>2 DEF st
      <4>2. Len(file[Main]) >= 3 /\ Len(file[Main]) # 3
        BY <4>1, <1>2 DEF BaseInv
      <4>3. Len(file[Main]) \in Nat
        BY <2>6, <1>6
      <4>4. \A n \in Nat : n >= 3 /\ n # 3 => n >= 4
        OBVIOUS
      <4>5. Len(file[Main]) >= 4
        BY <4>2, <4>3, <4>4
      <4> QED BY <4>5, <3>2, <2>7
    <3> QED BY <3>1, <3>2
  <2> QED BY <1>3, <1>4, <1>5, <2>5, <2>9, <2>10, <2>11, <2>12 DEF Inv
<1>9. CASE ~(session.thread /\ file[Main] # <<>>)
  <2>1. tail' = (IF final THEN "done" ELSE "idle") /\ upto' = upto /\ session' = session
    BY <1>9 DEF Follow
  <2>2. ~session.opened
    BY <1>2, <1>9 DEF TailInv
  <2>3. StreamInv' /\ ReadInv'
    BY <1>1, <1>2, <1>3, <1>6, <2>1 DEF StreamInv, ReadInv
  <2>4. TailInv'
    BY <1>1, <1>2, <1>7, <2>1 DEF TailInv
  <2>5. FinalInv' /\ StaleInv'
    BY <1>1, <2>1, <2>2 DEF FinalInv, StaleInv
  <2> QED BY <1>3, <1>4, <1>5, <2>3, <2>4, <2>5 DEF Inv
<1> QED BY <1>8, <1>9

LEMMA DiscoverInv ==
  ASSUME Inv, Discover
  PROVE  Inv'
<1> DEFINE NE == {s \in Sub : file[s] # <<>>}
<1>1. /\ tail = "discover" /\ tail' = "apply" /\ taken' = Started(NE) \ {Main}
      /\ upto' = [t \in Thread |-> IF t \in taken' THEN Len(file[t]) ELSE upto[t]]
      /\ file' = file /\ bound' = bound /\ agent' = agent /\ turn' = turn /\ base' = base /\ stream' = stream
      /\ watched' = watched /\ log' = log /\ session' = session
      /\ pos' = pos /\ found' = found /\ final' = final
      /\ main' = main /\ budget' = budget /\ report' = report
  BY DEF Discover, agentVars, mainVars
<1>2. FileInv /\ BaseInv /\ BoundInv /\ StreamInv /\ ReadInv /\ TailInv /\ FinalInv /\ StaleInv /\ CapInv /\ ReportIsExact
  BY DEF Inv
<1>3. FileInv' /\ BaseInv' /\ BoundInv' /\ Counted' = Counted /\ Total(Main)' = Total(Main)
  BY <1>1, <1>2, SameFiles
<1>4. CapInv'
  BY <1>1, <1>2, <1>3 DEF CapInv, StopIsAtCap
<1>5. ReportIsExact'
  BY <1>1, <1>2, SameReport
<1>6. Main \in Thread /\ Main \notin Sub /\ Sub \subseteq Thread /\ Ours \subseteq Thread
  BY OursAreThreads
<1>7. NE \in SUBSET Sub
  OBVIOUS
<1>8. Started(NE) \subseteq Ours /\ Started(NE) \subseteq {Main} \cup NE
  BY <1>7, StartedGrows, StartedOf
<1>9. StreamInv'
  BY <1>1, <1>2 DEF StreamInv, Emitted
<1>10. taken' \subseteq Ours \ {Main} /\ Main \notin taken'
  BY <1>1, <1>8
<1>11. /\ pos \in [Thread -> Nat] /\ upto \in [Thread -> Nat]
       /\ \A t \in Thread : pos[t] <= upto[t] /\ upto[t] <= Len(file[t]) /\ Len(file[t]) \in Nat
  BY <1>2 DEF ReadInv, FileInv
<1>12. \A t \in Thread : /\ upto'[t] = (IF t \in taken' THEN Len(file[t]) ELSE upto[t])
                         /\ upto'[t] \in Nat /\ pos[t] <= upto'[t] /\ upto'[t] <= Len(file[t])
  <2> TAKE t \in Thread
  <2>1. upto'[t] = (IF t \in taken' THEN Len(file[t]) ELSE upto[t])
    BY <1>1
  <2>2. pos[t] \in Nat /\ upto[t] \in Nat /\ pos[t] <= upto[t] /\ upto[t] <= Len(file[t]) /\ Len(file[t]) \in Nat
    BY <1>11
  <2> QED BY <2>1, <2>2
<1>13. upto' \in [Thread -> Nat]
  <2>1. DOMAIN upto' = Thread
    BY <1>1
  <2>2. upto' = [t \in Thread |-> upto'[t]]
    BY <1>1, <2>1
  <2> QED BY <2>2, <1>12
<1>14. ReadInv'
  BY <1>1, <1>2, <1>3, <1>10, <1>12, <1>13 DEF ReadInv
<1>15. TailInv' /\ StaleInv'
  <2>1. TailInv'
    BY <1>1, <1>2 DEF TailInv
  <2>2. upto'[Main] = upto[Main]
    BY <1>6, <1>10, <1>12
  <2>3. StaleInv'
    BY <1>1, <1>2, <2>2 DEF StaleInv
  <2> QED BY <2>1, <2>3
<1>16. WholeTaken'
  <2> DEFINE T == {t \in Thread : file[t] # <<>>}
  <2>1. \A s \in Sub \cap T : s \in NE /\ (Starter[s] \in T \/ Starter[s] \notin {Main} \cup Sub)
    BY <1>2 DEF FileInv, Thread
  <2>2. \A s \in Started(Sub) \cap T : s \in Started(NE)
    <3> HIDE DEF NE, T
    <3> QED BY <1>7, <2>1, StartedWithin
  <2>3. ASSUME NEW t \in Ours \ {Main}, file[t] # <<>> PROVE t \in taken'
    <3>1. t \in Started(Sub) \cap T
      BY <1>6, <2>3 DEF Ours
    <3> QED BY <3>1, <2>2, <1>1
  <2> QED BY <2>3, <1>1 DEF WholeTaken
<1>17. FinalInv'
  <2>1. final => \A t \in {Main} \cup taken' : upto'[t] = Len(file[t])
    <3> SUFFICES ASSUME final, NEW t \in {Main} \cup taken' PROVE upto'[t] = Len(file[t])
      OBVIOUS
    <3>1. t \in Thread
      BY <1>6, <1>10
    <3>2. CASE t \in taken'
      BY <3>1, <3>2, <1>12
    <3>3. CASE t \notin taken'
      <4>1. t = Main /\ upto[Main] = Len(file[Main])
        BY <3>3, <1>1, <1>2 DEF FinalInv
      <4> QED BY <3>1, <3>3, <4>1, <1>12
    <3> QED BY <3>2, <3>3
  <2> QED BY <2>1, <1>1, <1>16 DEF FinalInv
<1> QED BY <1>3, <1>4, <1>5, <1>9, <1>14, <1>15, <1>17 DEF Inv

LEMMA ApplyInv ==
  ASSUME Inv, Apply
  PROVE  Inv'
<1> DEFINE gained(t) == SubSeq(file[t], pos[t] + 1, upto[t])
           read == [t \in Thread |-> FoldLeft(apply, log[t], gained(t))]
           failed == \E s \in taken : read[s].problem
           working == session.turnOpen \/ session.turns = 0
<1>1. /\ tail = "apply" /\ pos' = upto /\ upto' = upto
      /\ session' = [session EXCEPT !.opened = TRUE]
      /\ file' = file /\ bound' = bound /\ agent' = agent /\ turn' = turn /\ base' = base /\ stream' = stream
      /\ watched' = watched /\ taken' = taken /\ final' = final
      /\ main' = main /\ budget' = budget /\ report' = report
  BY DEF Apply, agentVars, mainVars
<1>2. log' = [read EXCEPT ![Main].problem = @ \/ failed]
  BY DEF Apply
<1>3. \/ tail' = "cap" /\ found' = Requests(log', taken) /\ ~final
      \/ tail' = (IF final THEN "done" ELSE "idle") /\ found' = 0
  BY DEF Apply
<1>4. FileInv /\ BaseInv /\ BoundInv /\ StreamInv /\ ReadInv /\ TailInv /\ FinalInv /\ StaleInv /\ CapInv /\ ReportIsExact
  BY DEF Inv
<1>5. FileInv' /\ BaseInv' /\ BoundInv' /\ Counted' = Counted /\ Total(Main)' = Total(Main)
  BY <1>1, <1>4, SameFiles
<1>6. ReportIsExact'
  BY <1>1, <1>4, SameReport
<1>7. Main \in Thread /\ Main \notin Sub /\ Sub \subseteq Thread /\ Ours \subseteq Thread /\ Thread = {Main} \cup Sub
  BY OursAreThreads DEF Thread
<1>8. /\ session' \in AnySession
      /\ session'.turnsStarted = session.turnsStarted /\ session'.turns = session.turns
      /\ session'.total = session.total /\ session'.turnOpen = session.turnOpen
      /\ session'.opened = TRUE /\ session'.stale = session.stale /\ session'.thread = session.thread
  <2>1. session \in AnySession
    BY <1>4 DEF StreamInv
  <2> QED BY <2>1, <1>1 DEF AnySession
<1>9. StreamInv'
  BY <1>1, <1>4, <1>8 DEF StreamInv, Emitted, KindsAt
<1>10. \A t \in Thread : /\ file[t] \in Seq(AnyLine) /\ upto[t] \in 0..Len(file[t]) /\ pos[t] \in 0..upto[t]
                         /\ gained(t) \in Seq(AnyLine) /\ log[t] \in AnyLog /\ LogAt(file[t], upto[t]) \in AnyLog
  <2> TAKE t \in Thread
  <2>1. file[t] \in Seq(AnyLine) /\ log[t] \in AnyLog
    BY <1>4 DEF FileInv, ReadInv
  <2>2. pos[t] \in Nat /\ upto[t] \in Nat /\ pos[t] <= upto[t] /\ upto[t] <= Len(file[t])
    BY <1>4 DEF ReadInv
  <2>3. Len(file[t]) \in Nat
    BY <2>1
  <2>4. upto[t] \in 0..Len(file[t]) /\ pos[t] \in 0..upto[t]
    BY <2>2, <2>3
  <2>5. gained(t) \in Seq(AnyLine)
    BY <2>1, <2>2, <2>3
  <2>6. LogAt(file[t], upto[t]) \in AnyLog
    BY <2>1, <2>4, LogAtSteps
  <2> QED BY <2>1, <2>4, <2>5, <2>6
<1>11. \A t \in Thread : log[t] = LogAt(file[t], pos[t]) => read[t] = LogAt(file[t], upto[t])
  <2> SUFFICES ASSUME NEW t \in Thread, log[t] = LogAt(file[t], pos[t])
               PROVE  FoldLeft(apply, log[t], gained(t)) = LogAt(file[t], upto[t])
    OBVIOUS
  <2> QED BY <1>10, LogAtGained
<1>12. log[Main].problem => read[Main] = log[Main]
  <2> SUFFICES ASSUME log[Main].problem PROVE FoldLeft(apply, log[Main], gained(Main)) = log[Main]
    BY <1>7
  <2>1. log[Main] \in AnyLog /\ gained(Main) \in Seq(AnyLine)
    BY <1>7, <1>10
  <2> HIDE DEF gained
  <2> QED BY <2>1, ProblemStays
<1>13. \A s \in Sub : read[s] = LogAt(file[s], upto[s]) /\ read[s] \in AnyLog
  BY <1>4, <1>7, <1>10, <1>11 DEF ReadInv
<1>14. read[Main] = LogAt(file[Main], upto[Main]) \/ (read[Main] = log[Main] /\ log[Main].problem /\ log[Main].requests <= Total(Main))
  BY <1>4, <1>7, <1>11, <1>12 DEF ReadInv
<1>15. read[Main] \in AnyLog /\ DOMAIN read = Thread
  BY <1>7, <1>10, <1>14
<1> HIDE DEF read, failed
<1>16. failed \in BOOLEAN
  BY DEF failed
<1>17. /\ \A s \in Sub : log'[s] = read[s]
       /\ log'[Main] = [read[Main] EXCEPT !.problem = @ \/ failed]
       /\ DOMAIN log' = Thread
  BY <1>2, <1>7, <1>15
<1>18. /\ log'[Main] \in AnyLog /\ log'[Main].requests = read[Main].requests
       /\ (log'[Main].problem <=> read[Main].problem \/ failed)
       /\ (~failed => log'[Main] = read[Main])
  <2>1. log'[Main] \in AnyLog /\ log'[Main].requests = read[Main].requests
    BY <1>15, <1>16, <1>17 DEF AnyLog
  <2>2. log'[Main].problem <=> read[Main].problem \/ failed
    BY <1>15, <1>16, <1>17 DEF AnyLog
  <2>3. ASSUME ~failed PROVE log'[Main] = read[Main]
    <3>1. log'[Main] = [read[Main] EXCEPT !.problem = @]
      BY <1>15, <1>17, <2>3 DEF AnyLog
    <3> QED BY <3>1, <1>15 DEF AnyLog
  <2> QED BY <2>1, <2>2, <2>3
<1>19. \A t \in Thread : log'[t].requests \in Nat /\ log'[t].requests <= Total(t)
  <2>1. \A t \in Thread : LogAt(file[t], upto[t]).requests <= Total(t)
    BY <1>4, <1>10, LogIsTotal
  <2>2. \A s \in Sub : log'[s].requests \in Nat /\ log'[s].requests <= Total(s)
    BY <2>1, <1>7, <1>13, <1>17 DEF AnyLog
  <2>3. log'[Main].requests \in Nat /\ log'[Main].requests <= Total(Main)
    BY <2>1, <1>7, <1>14, <1>18 DEF AnyLog
  <2> QED BY <2>2, <2>3, <1>7
<1>20. ReadInv'
  <2>1. log' \in [Thread -> AnyLog]
    <3>1. \A t \in Thread : log'[t] \in AnyLog
      BY <1>7, <1>13, <1>17, <1>18
    <3>2. log' = [t \in Thread |-> log'[t]]
      BY <1>2, <1>15
    <3> QED BY <3>1, <3>2
  <2>2. \A s \in Sub : log'[s] = LogAt(file[s], upto[s])
    BY <1>13, <1>17
  <2>3. \/ log'[Main] = LogAt(file[Main], upto[Main])
        \/ log'[Main].problem /\ log'[Main].requests <= Total(Main)
    <3>1. CASE failed
      BY <3>1, <1>7, <1>18, <1>19
    <3>2. CASE ~failed
      BY <3>2, <1>14, <1>18
    <3> QED BY <3>1, <3>2
  <2>4. upto \in [Thread -> Nat] /\ \A t \in Thread : upto[t] <= upto[t] /\ upto[t] <= Len(file[t])
    BY <1>4 DEF ReadInv
  <2>5. taken \subseteq Ours \ {Main}
    BY <1>4 DEF ReadInv
  <2> QED BY <2>1, <2>2, <2>3, <2>4, <2>5, <1>1, <1>5 DEF ReadInv
<1>21. TailInv'
  BY <1>1, <1>3, <1>4, <1>8 DEF TailInv
<1>22. FinalInv'
  <2>1. tail' # "discover" /\ tail' # "apply" /\ (tail' = "done" => final)
    BY <1>3
  <2> SUFFICES ASSUME final
               PROVE  /\ WholeTaken' /\ \A t \in {Main} \cup taken : upto[t] = Len(file[t])
                      /\ \A s \in taken : log'[s].problem => log'[Main].problem
    BY <2>1, <1>1 DEF FinalInv
  <2>2. WholeTaken /\ \A t \in {Main} \cup taken : upto[t] = Len(file[t])
    BY <1>1, <1>4 DEF FinalInv
  <2>3. WholeTaken'
    BY <2>2, <1>1 DEF WholeTaken
  <2>4. ASSUME NEW s \in taken, log'[s].problem PROVE log'[Main].problem
    <3>1. s \in Sub
      BY <1>4, <1>7 DEF ReadInv
    <3>2. read[s].problem
      BY <3>1, <2>4, <1>17
    <3>3. failed
      BY <3>2 DEF failed
    <3> QED BY <3>3, <1>18
  <2> QED BY <2>2, <2>3, <2>4
<1>23. StaleInv'
  <2>1. tail' # "discover" /\ tail' # "apply"
    BY <1>3
  <2> QED BY <2>1, <1>1, <1>4, <1>8 DEF StaleInv
<1>24. CapInv'
  <2>1. Counted \in Nat /\ Totals \in [Thread -> Nat] /\ Counted = SumFunctionOnSet(Totals, Ours)
    BY <1>4, CountedIs
  <2> DEFINE g == [t \in Thread |-> log'[t].requests]
  <2>2. g \in [Thread -> Nat] /\ \A t \in Thread : g[t] <= Totals[t]
    BY <1>19 DEF Totals
  <2>3. Requests(log', taken) = SumFunctionOnSet(g, {Main} \cup taken)
    BY DEF Requests
  <2> HIDE DEF g
  <2>4. {Main} \cup taken \subseteq Ours /\ Ours \subseteq Thread
    BY <1>4, <1>7, OursAreThreads DEF ReadInv
  <2>5. \A t \in {Main} \cup taken : g[t] <= Totals[t]
    BY <2>2, <2>4
  <2>6. /\ SumFunctionOnSet(g, {Main} \cup taken) <= SumFunctionOnSet(Totals, Ours)
        /\ SumFunctionOnSet(g, {Main} \cup taken) \in Nat
    BY <2>1, <2>2, <2>4, <2>5, SumGrows
  <2>7. found' \in Nat /\ found' <= Counted
    BY <2>1, <2>3, <2>6, <1>3
  <2> QED BY <2>7, <1>1, <1>4, <1>5 DEF CapInv, StopIsAtCap
<1> QED BY <1>5, <1>6, <1>9, <1>20, <1>21, <1>22, <1>23, <1>24 DEF Inv

LEMMA checkCapInv ==
  ASSUME Inv, checkCap
  PROVE  Inv'
<1>1. /\ tail = "cap" /\ tail' \in {"stop", "idle"} /\ found' = 0
      /\ (budget' => budget \/ found >= Budget)
      /\ file' = file /\ bound' = bound /\ agent' = agent /\ turn' = turn /\ base' = base /\ stream' = stream
      /\ watched' = watched /\ session' = session /\ log' = log /\ taken' = taken
      /\ pos' = pos /\ upto' = upto /\ final' = final /\ main' = main /\ report' = report
  BY DEF checkCap, agentVars, readerVars
<1>2. FileInv /\ BaseInv /\ BoundInv /\ StreamInv /\ ReadInv /\ TailInv /\ FinalInv /\ StaleInv /\ CapInv /\ ReportIsExact
  BY DEF Inv
<1>3. FileInv' /\ BaseInv' /\ BoundInv' /\ Counted' = Counted /\ Total(Main)' = Total(Main)
  BY <1>1, <1>2, SameFiles
<1>4. StreamInv' /\ ReadInv'
  BY <1>1, <1>2, <1>3 DEF StreamInv, ReadInv, Emitted
<1>5. TailInv' /\ FinalInv' /\ StaleInv'
  BY <1>1, <1>2 DEF TailInv, FinalInv, StaleInv
<1>6. CapInv'
  <2>1. Counted \in Nat /\ Budget \in Nat
    BY <1>2, CountedIs, CodexSessionAssumption
  <2>2. found \in Nat /\ found <= Counted /\ (budget => Counted >= Budget)
    BY <1>2 DEF CapInv, StopIsAtCap
  <2>3. budget' => Counted >= Budget
    BY <2>1, <2>2, <1>1
  <2> QED BY <2>1, <2>3, <1>1, <1>3 DEF CapInv, StopIsAtCap
<1>7. ReportIsExact'
  BY <1>1, <1>2, SameReport
<1> QED BY <1>3, <1>4, <1>5, <1>6, <1>7 DEF Inv

LEMMA StopAgainInv ==
  ASSUME Inv, Stop \/ Again
  PROVE  Inv'
<1>1. /\ tail \in {"stop", "idle"} /\ tail' \in {"idle", "follow"} /\ found' = found
      /\ (final' => final \/ main = "tail") /\ final' \in BOOLEAN /\ (final' => tail' = "follow" \/ final)
      /\ file' = file /\ bound' = bound /\ agent' = agent /\ turn' = turn /\ base' = base /\ stream' = stream
      /\ watched' = watched /\ session' = session /\ log' = log /\ taken' = taken
      /\ pos' = pos /\ upto' = upto /\ main' = main /\ budget' = budget /\ report' = report
  <2>1. final \in BOOLEAN
    BY DEF Inv, TailInv
  <2>2. CASE Stop
    BY <2>1, <2>2 DEF Stop, agentVars, readerVars
  <2>3. CASE Again
    <3>1. /\ tail = "idle" /\ tail' = "follow" /\ found' = found
          /\ final' = FALSE \/ final' = (main = "tail")
          /\ UNCHANGED <<file, bound, agent, turn, base, stream, watched, session, log, taken>>
          /\ UNCHANGED <<pos, upto, main, budget, report>>
      BY <2>3 DEF Again, agentVars, readerVars, mainVars
    <3>2. final' \in BOOLEAN /\ (final' => main = "tail")
      BY <3>1
    <3> QED BY <3>1, <3>2
  <2> QED BY <2>2, <2>3
<1>2. FileInv /\ BaseInv /\ BoundInv /\ StreamInv /\ ReadInv /\ TailInv /\ FinalInv /\ StaleInv /\ CapInv /\ ReportIsExact
  BY DEF Inv
<1>3. FileInv' /\ BaseInv' /\ BoundInv' /\ Counted' = Counted /\ Total(Main)' = Total(Main)
  BY <1>1, <1>2, SameFiles
<1>4. StreamInv' /\ ReadInv'
  BY <1>1, <1>2, <1>3 DEF StreamInv, ReadInv, Emitted
<1>5. TailInv' /\ FinalInv' /\ StaleInv'
  BY <1>1, <1>2 DEF TailInv, FinalInv, StaleInv
<1>6. CapInv'
  BY <1>1, <1>2, <1>3 DEF CapInv, StopIsAtCap
<1>7. ReportIsExact'
  BY <1>1, <1>2, SameReport
<1> QED BY <1>3, <1>4, <1>5, <1>6, <1>7 DEF Inv

-----------------------------------------------------------------------------
(* The run ends.                                                           *)

LEMMA EndsInv ==
  ASSUME Inv, OutputEnds \/ FinishTail
  PROVE  Inv'
<1>1. /\ main \in {"read", "tail"} /\ main' \in {"tail", "finish"}
      /\ (main = "read" => agent = "exited") /\ (main' = "finish" => tail = "done")
      /\ file' = file /\ bound' = bound /\ agent' = agent /\ turn' = turn /\ base' = base /\ stream' = stream
      /\ watched' = watched /\ session' = session /\ log' = log /\ taken' = taken
      /\ tail' = tail /\ pos' = pos /\ upto' = upto /\ found' = found /\ final' = final
      /\ budget' = budget /\ report' = report
  BY DEF OutputEnds, FinishTail, agentVars, readerVars, tailVars
<1>2. FileInv /\ BaseInv /\ BoundInv /\ StreamInv /\ ReadInv /\ TailInv /\ FinalInv /\ StaleInv /\ CapInv /\ ReportIsExact
  BY DEF Inv
<1>3. FileInv' /\ BaseInv' /\ BoundInv' /\ Counted' = Counted /\ Total(Main)' = Total(Main)
  BY <1>1, <1>2, SameFiles
<1>4. StreamInv' /\ ReadInv' /\ StaleInv'
  BY <1>1, <1>2, <1>3 DEF StreamInv, ReadInv, StaleInv, Emitted
<1>5. TailInv'
  BY <1>1, <1>2 DEF TailInv
<1>6. FinalInv'
  BY <1>1, <1>2 DEF FinalInv, WholeTaken
<1>7. CapInv'
  BY <1>1, <1>2, <1>3 DEF CapInv, StopIsAtCap
<1>8. ReportIsExact'
  BY <1>1 DEF ReportIsExact, WatchedIsExact, UnrecordedIsExact
<1> QED BY <1>3, <1>4, <1>5, <1>6, <1>7, <1>8 DEF Inv

-----------------------------------------------------------------------------
(* What Finish reports.                                                    *)

(* A watched run whose files were read to their ends, and no problem found, *)
(* holds in its logs what the files hold.                                  *)
LEMMA ReadToTheEnd ==
  ASSUME Inv, main = "finish", watched, session.opened, ~log[Main].problem
  PROVE  /\ {Main} \cup taken \subseteq Ours
         /\ \A t \in {Main} \cup taken : /\ log[t].requests = Total(t) /\ log[t].settled = Total(t)
                                         /\ log[t].sent <=> InFlight(t)
         /\ \A t \in Ours \ ({Main} \cup taken) : Total(t) = 0 /\ ~InFlight(t)
<1>1. FileInv /\ ReadInv /\ TailInv /\ FinalInv
  BY DEF Inv
<1>2. tail = "done"
  BY <1>1 DEF TailInv
<1>3. /\ WholeTaken
      /\ \A t \in {Main} \cup taken : pos[t] = Len(file[t])
      /\ \A s \in taken : ~log[s].problem
  BY <1>1, <1>2 DEF FinalInv
<1>4. taken \subseteq Sub /\ taken \subseteq Ours \ {Main} /\ Main \in Ours /\ Ours \subseteq Thread
  BY <1>1, OursAreThreads DEF ReadInv, Thread
<1>5. ASSUME NEW t \in {Main} \cup taken
      PROVE  log[t].requests = Total(t) /\ log[t].settled = Total(t) /\ (log[t].sent <=> InFlight(t))
  <2>1. t \in Thread /\ ~log[t].problem
    BY <1>3, <1>4
  <2>2. log[t] = LogAt(file[t], pos[t])
    BY <1>1, <1>4, <2>1 DEF ReadInv
  <2>3. pos[t] = Len(file[t]) /\ Len(file[t]) \in 0..Len(file[t])
    BY <1>1, <1>3, <2>1 DEF FileInv
  <2> QED BY <1>1, <2>1, <2>2, <2>3, LogIsTotal
<1>6. ASSUME NEW t \in Ours \ ({Main} \cup taken) PROVE Total(t) = 0 /\ ~InFlight(t)
  <2>1. t \in Thread /\ file[t] = <<>>
    BY <1>3, <1>4 DEF WholeTaken
  <2>2. {file[t][i].total : i \in {i \in DOMAIN file[t] : file[t][i].kind = "usage"}} = {}
    BY <2>1
  <2>3. Total(t) = 0
    BY <2>2, FS_EmptySet DEF Total
  <2>4. ~InFlight(t)
    BY <2>1 DEF InFlight
  <2> QED BY <2>3, <2>4
<1> QED BY <1>4, <1>5, <1>6

LEMMA ReadIsCounted ==
  ASSUME Inv, main = "finish", watched, session.opened, ~log[Main].problem
  PROVE  /\ Requests(log, taken) = Counted /\ Counted \in Nat
         /\ inFlight = Cardinality({t \in Ours : InFlight(t)})
<1>1. FileInv /\ ReadInv
  BY DEF Inv
<1> DEFINE g == [t \in Thread |-> log[t].requests]
<1>2. g \in [Thread -> Nat]
  BY <1>1 DEF ReadInv, AnyLog
<1>3. Totals \in [Thread -> Nat] /\ Counted = SumFunctionOnSet(Totals, Ours) /\ Counted \in Nat
  BY <1>1, CountedIs
<1>4. {Main} \cup taken \subseteq Ours /\ Ours \subseteq Thread
  BY ReadToTheEnd, OursAreThreads
<1>5. \A t \in {Main} \cup taken : g[t] = Totals[t]
  BY <1>4, ReadToTheEnd DEF Totals
<1>6. \A t \in Ours \ ({Main} \cup taken) : Totals[t] = 0
  BY <1>4, ReadToTheEnd DEF Totals
<1>7. Requests(log, taken) = SumFunctionOnSet(g, {Main} \cup taken)
  BY DEF Requests
<1> HIDE DEF g
<1>8. SumFunctionOnSet(g, {Main} \cup taken) = SumFunctionOnSet(Totals, Ours)
  BY <1>2, <1>3, <1>4, <1>5, <1>6, SumDropsZeros
<1>9. {t \in {Main} \cup taken : log[t].sent} = {t \in Ours : InFlight(t)}
  BY <1>4, ReadToTheEnd
<1> QED BY <1>3, <1>7, <1>8, <1>9 DEF inFlight

(* A file that an earlier run left is named as one. *)
LEMMA EarlierIsNamed ==
  ASSUME Inv, session.opened, ~log[Main].problem, base # 0
  PROVE  rolloutPredates
<1>1. FileInv /\ BaseInv /\ StreamInv /\ ReadInv /\ StaleInv
  BY DEF Inv
<1>2. base = 1
  BY <1>1 DEF BaseInv
<1>3. CASE session.stale
  BY <1>3 DEF rolloutPredates
<1>4. CASE ~session.stale
  <2>1. pos[Main] \in Nat /\ pos[Main] >= 4 /\ pos[Main] <= Len(file[Main]) /\ Len(file[Main]) \in Nat
    <3>1. pos[Main] >= 4
      BY <1>1, <1>2, <1>4 DEF StaleInv
    <3>2. /\ pos[Main] \in Nat /\ upto[Main] \in Nat
          /\ pos[Main] <= upto[Main] /\ upto[Main] <= Len(file[Main]) /\ Len(file[Main]) \in Nat
      BY <1>1, OursAreThreads DEF ReadInv, FileInv
    <3> QED BY <3>1, <3>2
  <2>2. log[Main] = LogAt(file[Main], pos[Main])
    BY <1>1 DEF ReadInv
  <2>3. log[Main].tasks \in Nat
    BY <1>1, OursAreThreads DEF ReadInv, AnyLog
  <2>4. pos[Main] \in 3..Len(file[Main]) /\ pos[Main] # 3
    BY <2>1
  <2>5. log[Main].tasks >= 2
    BY <1>1, <1>2, <2>2, <2>4 DEF BaseInv
  <2>6. session.turnsStarted \in Nat /\ session.turnsStarted <= 1
    BY <1>1 DEF StreamInv, AnySession
  <2> QED BY <2>3, <2>5, <2>6 DEF rolloutPredates
<1> QED BY <1>3, <1>4

(* A judged run whose files show no request has none in its stream. *)
LEMMA NoneInTheStream ==
  ASSUME Inv, main = "finish", watched, session.opened, ~log[Main].problem, ~judgeRollout,
         Requests(log, taken) = 0
  PROVE  session.total = 0
<1>1. ReadInv /\ StreamInv
  BY DEF Inv
<1> DEFINE g == [t \in Thread |-> log[t].requests]
           h == [t \in Thread |-> log[t].settled]
           S == {Main} \cup taken
<1>2. g \in [Thread -> Nat] /\ h \in [Thread -> Nat]
  BY <1>1 DEF ReadInv, AnyLog
<1>3. S \subseteq Thread /\ Main \in S
  BY ReadToTheEnd, OursAreThreads
<1>4. \A t \in S : h[t] = g[t]
  BY <1>3, ReadToTheEnd
<1>5. SumFunctionOnSet(g, S) = 0
  BY DEF Requests
<1>6. h[Main] = log[Main].settled
  BY <1>3
<1>7. session.turnOpen \in BOOLEAN /\ session.turns \in Nat /\ session.turns # 0 => ~session.turnOpen
  BY <1>1 DEF StreamInv, AnySession
<1>8. session.turns # 0 => session.total \in {h[Main], SumFunctionOnSet(h, S)}
  <2>1. session.turns # 0 => ~session.turnOpen /\ session.turns > 0
    BY <1>1 DEF StreamInv, AnySession
  <2> QED BY <2>1, <1>6 DEF judgeRollout
<1> HIDE DEF g, h, S
<1>9. g[Main] = 0
  BY <1>2, <1>3, <1>5, SumZero
<1>10. SumFunctionOnSet(h, S) = SumFunctionOnSet(g, S)
  <2>1. \A x \in S \ S : g[x] = 0
    OBVIOUS
  <2> QED BY <1>2, <1>3, <1>4, <2>1, SumDropsZeros
<1>11. session.turns = 0 => session.total = 0
  BY <1>1 DEF StreamInv
<1> QED BY <1>3, <1>4, <1>5, <1>8, <1>9, <1>10, <1>11

LEMMA FinishInv ==
  ASSUME Inv, Finish
  PROVE  Inv'
<1>1. /\ main = "finish" /\ main' = "finished"
      /\ file' = file /\ bound' = bound /\ agent' = agent /\ turn' = turn /\ base' = base /\ stream' = stream
      /\ watched' = watched /\ session' = session /\ log' = log /\ taken' = taken
      /\ tail' = tail /\ pos' = pos /\ upto' = upto /\ found' = found /\ final' = final
      /\ budget' = budget
  BY DEF Finish, agentVars, readerVars, tailVars
<1>2. FileInv /\ BaseInv /\ BoundInv /\ StreamInv /\ ReadInv /\ TailInv /\ FinalInv /\ StaleInv /\ CapInv /\ ReportIsExact
  BY DEF Inv
<1>3. FileInv' /\ BaseInv' /\ BoundInv' /\ Counted' = Counted /\ Total(Main)' = Total(Main)
      /\ \A t \in Thread : InFlight(t)' <=> InFlight(t)
  BY <1>1, <1>2, SameFiles
<1>4. StreamInv' /\ ReadInv' /\ StaleInv'
  BY <1>1, <1>2, <1>3 DEF StreamInv, ReadInv, StaleInv, Emitted
<1>5. TailInv'
  BY <1>1, <1>2 DEF TailInv
<1>6. FinalInv'
  BY <1>1, <1>2 DEF FinalInv, WholeTaken
<1>7. CapInv'
  BY <1>1, <1>2, <1>3 DEF CapInv, StopIsAtCap
<1> DEFINE refused == ~session.thread \/ session.unreadTurn
           problem == log[Main].problem \/ rolloutPredates \/ (watched /\ judgeRollout)
           requests == Requests(log, taken)
           inside == session.turnOpen \/ session.turns = 0
<1>8. CASE refused
  <2>1. report' = [NoReport EXCEPT !.refused = TRUE]
    BY <1>8 DEF Finish
  <2>2. report'.refused /\ report'.grade = "none"
    BY <2>1 DEF NoReport
  <2>3. ReportIsExact'
    BY <2>2 DEF ReportIsExact, WatchedIsExact, UnrecordedIsExact
  <2> QED BY <2>3, <1>3, <1>4, <1>5, <1>6, <1>7 DEF Inv
<1>9. CASE ~refused
  <2>1. /\ report'.grade = IF watched /\ ~problem THEN "wrapper-watchdog" ELSE "none"
        /\ report'.requests = IF requests > 0 /\ (~problem \/ session.turns = 0) THEN requests ELSE session.total
        /\ report'.unrecorded = IF inside /\ session.opened /\ ~problem THEN inFlight ELSE 0
        /\ report'.inside = inside
        /\ report'.problem = problem
    BY <1>9 DEF Finish
  <2>2. watched /\ ~problem => session.opened /\ ~log[Main].problem /\ ~judgeRollout /\ ~rolloutPredates
    BY DEF judgeRollout
  <2>3. WatchedIsExact'
    <3> SUFFICES ASSUME watched, ~problem
                 PROVE  report'.requests = Counted /\ base = 0
      BY <2>1, <1>1, <1>3 DEF WatchedIsExact
    <3>1. session.opened /\ ~log[Main].problem /\ ~judgeRollout /\ ~rolloutPredates
      BY <2>2
    <3>2. base = 0
      BY <3>1, EarlierIsNamed
    <3>3. requests = Counted /\ Counted \in Nat
      BY <3>1, <1>1, ReadIsCounted
    <3>4. requests = 0 => session.total = 0
      BY <3>1, <1>1, NoneInTheStream
    <3>5. report'.requests = IF requests > 0 THEN requests ELSE session.total
      BY <2>1
    <3> HIDE DEF requests, problem
    <3>6. report'.requests = Counted
      BY <3>3, <3>4, <3>5
    <3> QED BY <3>2, <3>6
  <2>4. UnrecordedIsExact'
    <3> SUFFICES ASSUME watched, ~problem, inside
                 PROVE  report'.unrecorded = Cardinality({t \in Ours : InFlight(t)}')
      BY <2>1, <1>1 DEF UnrecordedIsExact
    <3>1. session.opened /\ ~log[Main].problem
      BY <2>2
    <3>2. inFlight = Cardinality({t \in Ours : InFlight(t)})
      BY <3>1, <1>1, ReadIsCounted
    <3>3. {t \in Ours : InFlight(t)}' = {t \in Ours : InFlight(t)}
      BY <1>3, OursAreThreads
    <3>4. report'.unrecorded = inFlight
      BY <2>1, <3>1
    <3> QED BY <3>2, <3>3, <3>4
  <2>5. ReportIsExact'
    BY <2>3, <2>4 DEF ReportIsExact
  <2> QED BY <2>5, <1>3, <1>4, <1>5, <1>6, <1>7 DEF Inv
<1> QED BY <1>8, <1>9

-----------------------------------------------------------------------------
(* The specification.                                                      *)

LEMMA StutterInv == ASSUME Inv, UNCHANGED vars PROVE Inv'
<1>1. /\ file' = file /\ bound' = bound /\ agent' = agent /\ turn' = turn /\ base' = base /\ stream' = stream
      /\ watched' = watched /\ session' = session /\ log' = log /\ taken' = taken
      /\ tail' = tail /\ pos' = pos /\ upto' = upto /\ found' = found /\ final' = final
      /\ main' = main /\ budget' = budget /\ report' = report
  BY DEF vars
<1>2. FileInv /\ BaseInv /\ BoundInv /\ StreamInv /\ ReadInv /\ TailInv /\ FinalInv /\ StaleInv /\ CapInv /\ ReportIsExact
  BY DEF Inv
<1>3. FileInv' /\ BaseInv' /\ BoundInv' /\ Counted' = Counted /\ Total(Main)' = Total(Main)
  BY <1>1, <1>2, SameFiles
<1>4. StreamInv' /\ ReadInv'
  BY <1>1, <1>2, <1>3 DEF StreamInv, ReadInv, Emitted
<1>5. TailInv' /\ FinalInv' /\ StaleInv'
  BY <1>1, <1>2 DEF TailInv, FinalInv, StaleInv, WholeTaken
<1>6. CapInv'
  BY <1>1, <1>2, <1>3 DEF CapInv, StopIsAtCap
<1>7. ReportIsExact'
  BY <1>1, <1>2, SameReport
<1> QED BY <1>3, <1>4, <1>5, <1>6, <1>7 DEF Inv

LEMMA NextInv == Inv /\ [Next]_vars => Inv'
<1> SUFFICES ASSUME Inv, [Next]_vars PROVE Inv'
  OBVIOUS
<1>1. CASE Agent
  <2>1. ASSUME NEW t \in Thread, CreateFile(t) \/ StartTask(t) \/ SettleRequest(t) PROVE Inv'
    BY <2>1, CreateFileInv, StartTaskInv, SettleRequestInv
  <2>2. ASSUME NEW t \in Thread, RepeatTotal(t) \/ SendOutput(t) \/ WriteUnreadable(t) PROVE Inv'
    BY <2>2, RepeatTotalInv, SendOutputInv, WriteUnreadableInv
  <2>3. \/ \E t \in Thread : \/ CreateFile(t) \/ StartTask(t) \/ SettleRequest(t)
                             \/ RepeatTotal(t) \/ SendOutput(t) \/ WriteUnreadable(t)
        \/ Emit("none", "thread", Line("thread")) \/ Emit("thread", "open", Line("turn"))
        \/ EmitCompleted \/ Emit("open", "closed", Line("unread"))
        \/ Exit
    BY <1>1 DEF Agent
  <2> QED BY <2>1, <2>2, <2>3, EmitsInv, ExitInv
<1>2. CASE Tailing
  BY <1>2, FollowInv, DiscoverInv, ApplyInv, checkCapInv, StopAgainInv DEF Tailing
<1>3. CASE Executing
  BY <1>3, FeedInv, EndsInv, FinishInv DEF Executing
<1>4. CASE UNCHANGED vars
  BY <1>4, StutterInv
<1> QED BY <1>1, <1>2, <1>3, <1>4 DEF Next, Finished

LEMMA InvTypeOK == Inv => TypeOK
<1> SUFFICES ASSUME Inv PROVE TypeOK
  OBVIOUS
<1>1. FileInv /\ BoundInv /\ StreamInv /\ ReadInv /\ TailInv
  BY DEF Inv
<1>2. \A t \in Thread : pos[t] \in 0..upto[t] /\ upto[t] \in 0..Len(file[t])
  <2> TAKE t \in Thread
  <2>1. file[t] \in Seq(AnyLine)
    BY <1>1 DEF FileInv
  <2>2. Len(file[t]) \in Nat /\ pos[t] \in Nat /\ upto[t] \in Nat /\ pos[t] <= upto[t] /\ upto[t] <= Len(file[t])
    BY <1>1, <2>1 DEF ReadInv
  <2> QED BY <2>2
<1>3. \A t \in Thread : log[t].requests \in 0..bound.requests[t]
  <2> TAKE t \in Thread
  <2>1. log[t].requests \in Nat /\ log[t].requests <= Total(t)
    <3>1. log[t].requests \in Nat
      BY <1>1 DEF ReadInv, AnyLog
    <3>2. pos[t] \in 0..Len(file[t])
      BY <1>2
    <3>3. log[t] = LogAt(file[t], pos[t]) => log[t].requests <= Total(t)
      BY <1>1, <3>2, LogIsTotal
    <3>4. log[t] = LogAt(file[t], pos[t]) \/ log[t].requests <= Total(t)
      BY <1>1 DEF ReadInv, Thread
    <3> QED BY <3>1, <3>3, <3>4
  <2>2. Total(t) \in Nat
    BY <1>1, TotalIs
  <2>3. Total(t) <= bound.requests[t] /\ bound.requests[t] \in Nat
    BY <1>1, CodexSessionAssumption DEF BoundInv
  <2> QED BY <2>1, <2>2, <2>3
<1>4. taken \subseteq Sub
  BY <1>1, OursAreThreads DEF ReadInv, Thread
<1> QED BY <1>1, <1>2, <1>3, <1>4 DEF TypeOK, TailInv, StreamInv

(* The state has its type: Tail applies no line it did not read, reads     *)
(* none a file lacks, and counts no request twice (follow, apply, settle). *)
THEOREM SpecTypeOK == Spec => []TypeOK
BY InitInv, NextInv, InvTypeOK, PTL DEF Spec

LEMMA InvStopIsAtCap == Inv => StopIsAtCap
BY DEF Inv, CapInv

(* A run is stopped only when the files it wrote hold as many requests as  *)
(* its budget, for any number of threads, files, lines and repeated        *)
(* totals (settle, Tail and checkCap).                                     *)
THEOREM SpecStopIsAtCap == Spec => []StopIsAtCap
BY InitInv, NextInv, InvStopIsAtCap, PTL DEF Spec

LEMMA InvReportIsExact == Inv => ReportIsExact
BY DEF Inv

(* A run graded wrapper-watchdog reports each request its thread and its   *)
(* subagents settled, and none of an earlier run's; one that ended inside  *)
(* its turn states how many were in flight (Tail's last follow,            *)
(* rolloutPredates, judgeRollout and Finish).                              *)
THEOREM SpecReportIsExact == Spec => []ReportIsExact
BY InitInv, NextInv, InvReportIsExact, PTL DEF Spec
=============================================================================
