----------------------------- MODULE RulesProofs -----------------------------
(***************************************************************************)
(* Theorems about modules Verdict and Reconcile, for any kinds of row,     *)
(* settings files, histories, requests, ranges and prices.                 *)
(*                                                                         *)
(* The first part is what a sum over a finite set is: the fold's recursive *)
(* function is shown to exist, and with the smallest set that would refute *)
(* a claim stands in for an induction. The second and third are Verdict:   *)
(* the rules of the pack, then its conclusions. The fourth flattens        *)
(* sequences of pages in the same way, and the last ones are Reconcile.    *)
(***************************************************************************)
EXTENDS Verdict, Reconcile, TLAPS, FiniteSetTheorems, WellFoundedInduction

(* A nonempty set of numbers has a least one. *)
LEMMA LeastNumber ==
  ASSUME NEW T, T \subseteq Nat, T # {}
  PROVE  \E x \in T : \A y \in T : x <= y
<1> DEFINE R == OpToRel(<, Nat)
<1>1. IsWellFoundedOn(R, Nat)
  BY NatLessThanWellFounded
<1>2. \A a, b \in Nat : a < b => <<a, b>> \in R
  BY DEF OpToRel
<1> HIDE DEF R
<1>3. PICK x \in T : \A y \in T : ~ (<<y, x>> \in R)
  BY <1>1, WFMin
<1>4. \A y \in T : ~(y < x)
  BY <1>2, <1>3
<1> QED BY <1>3, <1>4

(* Some subset of a finite set with a property has no smaller one with it. *)
LEMMA SmallestSet ==
  ASSUME NEW K, IsFiniteSet(K), NEW B, B \subseteq SUBSET K, B # {}
  PROVE  \E s \in B : \A t \in SUBSET s : t # s => t \notin B
<1> DEFINE Sizes == {Cardinality(s) : s \in B}
<1>1. \A s \in B : IsFiniteSet(s) /\ Cardinality(s) \in Nat
  BY FS_Subset, FS_CardinalityType
<1>2. Sizes \subseteq Nat /\ Sizes # {}
  BY <1>1
<1>3. PICK n \in Sizes : \A m \in Sizes : n <= m
  <2> HIDE DEF Sizes
  <2> QED BY <1>2, LeastNumber
<1>4. PICK s \in B : n = Cardinality(s)
  OBVIOUS
<1>5. ASSUME NEW t \in SUBSET s, t # s, t \in B PROVE FALSE
  <2>1. Cardinality(t) < Cardinality(s)
    BY <1>1, <1>5, FS_Subset
  <2>2. Cardinality(s) <= Cardinality(t)
    BY <1>3, <1>4, <1>5
  <2> QED BY <2>1, <2>2, <1>1, <1>5
<1> QED BY <1>5

(* The fold behind SumFunctionOnSet takes a set's elements one by one. *)
One(s) == CHOOSE x \in s : TRUE
Folds(f, S, p) ==
  \A s \in SUBSET S : p[s] = IF s = {} THEN 0 ELSE f[One(s)] + p[s \ {One(s)}]

LEMMA OneOf == ASSUME NEW s, s # {} PROVE One(s) \in s
BY DEF One

(* Two such folds agree where both are. *)
LEMMA FoldsAgree ==
  ASSUME NEW f, NEW A, NEW B, NEW p, NEW q, Folds(f, A, p), Folds(f, B, q),
         NEW u, u \subseteq A, u \subseteq B, IsFiniteSet(u)
  PROVE  p[u] = q[u]
<1> DEFINE Bad == {s \in SUBSET u : p[s] # q[s]}
<1> SUFFICES ASSUME u \in Bad PROVE FALSE
  OBVIOUS
<1>1. PICK s \in Bad : \A t \in SUBSET s : t # s => t \notin Bad
  <2>1. Bad \subseteq SUBSET u /\ Bad # {}
    OBVIOUS
  <2> HIDE DEF Bad
  <2> QED BY <2>1, SmallestSet
<1>2. s # {}
  BY DEF Folds
<1>3. One(s) \in s
  BY <1>2, OneOf
<1>4. p[s \ {One(s)}] = q[s \ {One(s)}]
  BY <1>1, <1>3
<1> QED BY <1>2, <1>4 DEF Folds

(* There is one for every finite set. *)
LEMMA FoldExists ==
  ASSUME NEW K, IsFiniteSet(K), NEW f \in [K -> Nat]
  PROVE  \E p \in [SUBSET K -> Nat] : Folds(f, K, p)
<1> DEFINE Good(s, p) == p \in [SUBSET s -> Nat] /\ Folds(f, s, p)
           Bad == {s \in SUBSET K : ~\E p : Good(s, p)}
<1> SUFFICES ASSUME K \in Bad PROVE FALSE
  OBVIOUS
<1>1. PICK s \in Bad : \A t \in SUBSET s : t # s => t \notin Bad
  <2>1. Bad \subseteq SUBSET K /\ Bad # {}
    OBVIOUS
  <2> HIDE DEF Bad
  <2> QED BY <2>1, SmallestSet
<1>2. s # {}
  <2> SUFFICES ASSUME s = {} PROVE FALSE
    OBVIOUS
  <2> DEFINE z == [t \in SUBSET s |-> 0]
  <2>1. z \in [SUBSET s -> Nat]
    OBVIOUS
  <2>2. Folds(f, s, z)
    BY DEF Folds
  <2> HIDE DEF z
  <2> QED BY <2>1, <2>2, <1>1
<1> DEFINE P == [x \in s |-> CHOOSE p : Good(s \ {x}, p)]
<1>3. \A x \in s : P[x] \in [SUBSET (s \ {x}) -> Nat] /\ Folds(f, s \ {x}, P[x])
  <2> TAKE x \in s
  <2>1. s \ {x} \in SUBSET K /\ s \ {x} \notin Bad
    BY <1>1
  <2>2. \E p : Good(s \ {x}, p)
    BY <2>1
  <2> HIDE DEF Good
  <2>3. Good(s \ {x}, CHOOSE p : Good(s \ {x}, p))
    BY <2>2
  <2>4. Good(s \ {x}, P[x])
    BY <2>3
  <2> QED BY <2>4 DEF Good
<1> HIDE DEF P
<1>4. IsFiniteSet(s)
  BY FS_Subset
<1>5. \A x, y \in s : \A u \in SUBSET s : x \notin u /\ y \notin u => P[x][u] = P[y][u]
  <2> TAKE x \in s, y \in s
  <2> TAKE u \in SUBSET s
  <2> HAVE x \notin u /\ y \notin u
  <2>1. IsFiniteSet(u)
    BY <1>4, FS_Subset
  <2>2. u \subseteq s \ {x} /\ u \subseteq s \ {y}
    OBVIOUS
  <2>3. Folds(f, s \ {x}, P[x]) /\ Folds(f, s \ {y}, P[y])
    BY <1>3
  <2> QED BY <2>1, <2>2, <2>3, FoldsAgree
<1> DEFINE Left(t) == CHOOSE x \in s : x \notin t
           q == [t \in SUBSET s |-> IF t = s THEN f[One(s)] + P[One(s)][s \ {One(s)}] ELSE P[Left(t)][t]]
<1>6. One(s) \in s
  BY <1>2, OneOf
<1>7. \A t \in SUBSET s : t # s => Left(t) \in s /\ Left(t) \notin t
  OBVIOUS
<1> HIDE DEF Left
<1>8. q \in [SUBSET s -> Nat]
  <2>1. ASSUME NEW t \in SUBSET s, t # s PROVE P[Left(t)][t] \in Nat
    <3>1. Left(t) \in s /\ t \in SUBSET (s \ {Left(t)})
      BY <1>7, <2>1
    <3>2. P[Left(t)] \in [SUBSET (s \ {Left(t)}) -> Nat]
      BY <1>3, <3>1
    <3> QED BY <3>1, <3>2
  <2>2. f[One(s)] \in Nat /\ P[One(s)][s \ {One(s)}] \in Nat
    BY <1>3, <1>6
  <2> QED BY <2>1, <2>2
<1>9. \A x \in s : \A u \in SUBSET s : x \notin u => q[u] = P[x][u]
  BY <1>5, <1>7
<1>10. q[s] = f[One(s)] + q[s \ {One(s)}]
  BY <1>6, <1>9
<1> HIDE DEF q
<1>11. Folds(f, s, q)
  <2> SUFFICES ASSUME NEW t \in SUBSET s
               PROVE  q[t] = IF t = {} THEN 0 ELSE f[One(t)] + q[t \ {One(t)}]
    BY DEF Folds
  <2>1. CASE t = s
    BY <2>1, <1>2, <1>10
  <2>2. CASE t # s
    <3>1. PICK x \in s : x \notin t
      BY <2>2
    <3>2. P[x][t] = IF t = {} THEN 0 ELSE f[One(t)] + P[x][t \ {One(t)}]
      <4>1. Folds(f, s \ {x}, P[x])
        BY <1>3
      <4>2. t \in SUBSET (s \ {x})
        BY <3>1
      <4> QED BY <4>1, <4>2 DEF Folds
    <3>3. q[t] = P[x][t] /\ q[t \ {One(t)}] = P[x][t \ {One(t)}]
      BY <1>9, <3>1
    <3> QED BY <3>2, <3>3
  <2> QED BY <2>1, <2>2
<1>12. Good(s, q)
  BY <1>8, <1>11
<1> QED BY <1>1, <1>12

LEMMA SumIsFold ==
  ASSUME NEW K, IsFiniteSet(K), NEW f \in [K -> Nat], NEW S \in SUBSET K,
         NEW p, Folds(f, K, p)
  PROVE  SumFunctionOnSet(f, S) = p[S]
<1> DEFINE F(it) == [s \in SUBSET S |-> IF s = {} THEN 0 ELSE f[CHOOSE x \in s : TRUE] + it[s \ {CHOOSE x \in s : TRUE}]]
           g == CHOOSE it : it = F(it)
<1>1. SumFunctionOnSet(f, S) = g[S]
  BY DEF SumFunctionOnSet, FoldFunctionOnSet, MapThenFoldSet
<1>2. IsFiniteSet(S)
  BY FS_Subset
<1>3. \E it : it = F(it)
  <2> DEFINE h == [s \in SUBSET S |-> p[s]]
  <2>1. \A s \in SUBSET S : h[s] = IF s = {} THEN 0 ELSE f[CHOOSE x \in s : TRUE] + h[s \ {CHOOSE x \in s : TRUE}]
    BY DEF Folds, One
  <2>2. h = F(h)
    BY <2>1
  <2> QED BY <2>2
<1>4. g = F(g)
  <2> HIDE DEF F
  <2> QED BY <1>3
<1> HIDE DEF g
<1>5. Folds(f, S, g)
  BY <1>4 DEF Folds, One
<1> QED BY <1>1, <1>2, <1>5, FoldsAgree
(* A sum is a number, and any element may be taken out of it first. *)
LEMMA SumTakes ==
  ASSUME NEW K, IsFiniteSet(K), NEW f \in [K -> Nat]
  PROVE  /\ SumFunctionOnSet(f, {}) = 0
         /\ \A S \in SUBSET K :
              /\ SumFunctionOnSet(f, S) \in Nat
              /\ \A x \in S : SumFunctionOnSet(f, S) = f[x] + SumFunctionOnSet(f, S \ {x})
<1>1. PICK p \in [SUBSET K -> Nat] : Folds(f, K, p)
  BY FoldExists
<1>2. \A S \in SUBSET K : SumFunctionOnSet(f, S) = p[S]
  BY <1>1, SumIsFold
<1>3. p[{}] = 0
  BY <1>1 DEF Folds
<1> DEFINE Bad == {S \in SUBSET K : \E x \in S : p[S] # f[x] + p[S \ {x}]}
<1>4. Bad = {}
  <2> SUFFICES ASSUME Bad # {} PROVE FALSE
    OBVIOUS
  <2>1. PICK s \in Bad : \A t \in SUBSET s : t # s => t \notin Bad
    <3>1. Bad \subseteq SUBSET K
      OBVIOUS
    <3> HIDE DEF Bad
    <3> QED BY <3>1, SmallestSet
  <2>2. PICK x \in s : p[s] # f[x] + p[s \ {x}]
    OBVIOUS
  <2> DEFINE y == One(s)
  <2>3. y \in s /\ p[s] = f[y] + p[s \ {y}]
    <3>1. y \in s
      BY OneOf
    <3> QED BY <3>1, <1>1 DEF Folds
  <2> HIDE DEF y
  <2>4. x # y
    BY <2>2, <2>3
  <2>5. p[s \ {y}] = f[x] + p[(s \ {y}) \ {x}]
    <3>1. s \ {y} \in SUBSET s /\ s \ {y} # s /\ s \ {y} \in SUBSET K /\ x \in s \ {y}
      BY <2>3, <2>4
    <3> QED BY <2>1, <3>1
  <2>6. p[s \ {x}] = f[y] + p[(s \ {x}) \ {y}]
    <3>1. s \ {x} \in SUBSET s /\ s \ {x} # s /\ s \ {x} \in SUBSET K /\ y \in s \ {x}
      BY <2>3, <2>4
    <3> QED BY <2>1, <3>1
  <2>7. (s \ {y}) \ {x} = (s \ {x}) \ {y}
    OBVIOUS
  <2>8. f[x] \in Nat /\ f[y] \in Nat /\ p[(s \ {x}) \ {y}] \in Nat
    BY <1>1, <2>3
  <2>9. p[s] = f[x] + p[s \ {x}]
    <3> DEFINE a == f[x]
               b == f[y]
               c == p[(s \ {x}) \ {y}]
    <3>1. p[s] = b + (a + c)
      BY <2>3, <2>5, <2>7
    <3>2. p[s \ {x}] = b + c
      BY <2>6
    <3>3. a \in Nat /\ b \in Nat /\ c \in Nat
      BY <2>8
    <3> HIDE DEF a, b, c
    <3>4. p[s] = a + p[s \ {x}]
      BY <3>1, <3>2, <3>3
    <3> QED BY <3>4 DEF a
  <2> QED BY <2>2, <2>9
<1>5. \A S \in SUBSET K : p[S] \in Nat /\ \A x \in S : p[S] = f[x] + p[S \ {x}]
  BY <1>1, <1>4
<1> HIDE DEF Bad
<1>6. ASSUME NEW S \in SUBSET K, NEW x \in S PROVE SumFunctionOnSet(f, S \ {x}) = p[S \ {x}]
  BY <1>2
<1> QED BY <1>2, <1>3, <1>5, <1>6

(* A sum over more elements, each at least as large, is at least as large. *)
LEMMA SumGrows ==
  ASSUME NEW K, IsFiniteSet(K), NEW f \in [K -> Nat], NEW g \in [K -> Nat],
         NEW S, NEW T, S \subseteq T, T \subseteq K, \A x \in S : f[x] <= g[x]
  PROVE  SumFunctionOnSet(f, S) <= SumFunctionOnSet(g, T)
<1> DEFINE Bad == {t \in SUBSET T : ~(SumFunctionOnSet(f, S \cap t) <= SumFunctionOnSet(g, t))}
<1> SUFFICES ASSUME Bad # {} PROVE FALSE
  <2>1. T \notin Bad
    OBVIOUS
  <2>2. S \cap T = S
    OBVIOUS
  <2> QED BY <2>1, <2>2
<1>1. PICK t \in Bad : \A u \in SUBSET t : u # t => u \notin Bad
  <2>1. Bad \subseteq SUBSET T /\ IsFiniteSet(T)
    BY FS_Subset
  <2> HIDE DEF Bad
  <2> QED BY <2>1, SmallestSet
<1>2. SumFunctionOnSet(f, {}) = 0 /\ SumFunctionOnSet(g, {}) = 0
  BY SumTakes
<1>3. t # {}
  BY <1>2
<1>4. PICK x \in t : TRUE
  BY <1>3
<1> DEFINE u == t \ {x}
<1>5. SumFunctionOnSet(f, S \cap u) <= SumFunctionOnSet(g, u)
  <2>1. u \in SUBSET t /\ u # t /\ u \in SUBSET T
    OBVIOUS
  <2> QED BY <1>1, <2>1
<1>6. SumFunctionOnSet(g, t) = g[x] + SumFunctionOnSet(g, u)
  <2>1. t \in SUBSET K
    OBVIOUS
  <2> QED BY <2>1, SumTakes
<1>7. /\ SumFunctionOnSet(f, S \cap u) \in Nat /\ SumFunctionOnSet(g, u) \in Nat
      /\ f[x] \in Nat /\ g[x] \in Nat
  <2>1. S \cap u \in SUBSET K /\ u \in SUBSET K
    OBVIOUS
  <2> QED BY <2>1, SumTakes
<1>8. CASE x \in S
  <2>1. S \cap t \in SUBSET K /\ x \in S \cap t /\ (S \cap t) \ {x} = S \cap u
    BY <1>8
  <2>2. SumFunctionOnSet(f, S \cap t) = f[x] + SumFunctionOnSet(f, S \cap u)
    BY <2>1, SumTakes
  <2>3. f[x] <= g[x]
    BY <1>8
  <2> HIDE DEF u
  <2>4. SumFunctionOnSet(f, S \cap t) <= SumFunctionOnSet(g, t)
    BY <1>5, <1>6, <1>7, <2>2, <2>3
  <2> QED BY <1>1, <2>4
<1>9. CASE x \notin S
  <2>1. S \cap t = S \cap u
    BY <1>9
  <2> HIDE DEF u
  <2>2. SumFunctionOnSet(f, S \cap t) <= SumFunctionOnSet(g, t)
    BY <1>5, <1>6, <1>7, <2>1
  <2> QED BY <1>1, <2>2
<1> QED BY <1>8, <1>9

(* A sum is 0 exactly when every element is. *)
LEMMA SumIsZero ==
  ASSUME NEW K, IsFiniteSet(K), NEW f \in [K -> Nat], NEW S \in SUBSET K
  PROVE  SumFunctionOnSet(f, S) = 0 <=> \A x \in S : f[x] = 0
<1>1. ASSUME NEW x \in S, f[x] # 0 PROVE SumFunctionOnSet(f, S) # 0
  <2>1. SumFunctionOnSet(f, S) = f[x] + SumFunctionOnSet(f, S \ {x})
    BY SumTakes
  <2>2. f[x] \in Nat /\ SumFunctionOnSet(f, S \ {x}) \in Nat
    <3>1. S \ {x} \in SUBSET K
      OBVIOUS
    <3> QED BY <3>1, SumTakes
  <2> QED BY <1>1, <2>1, <2>2
<1>2. ASSUME \A x \in S : f[x] = 0 PROVE SumFunctionOnSet(f, S) = 0
  <2> DEFINE Bad == {s \in SUBSET S : SumFunctionOnSet(f, s) # 0}
  <2> SUFFICES ASSUME Bad # {} PROVE FALSE
    OBVIOUS
  <2>1. PICK s \in Bad : \A t \in SUBSET s : t # s => t \notin Bad
    <3>1. Bad \subseteq SUBSET K
      OBVIOUS
    <3> HIDE DEF Bad
    <3> QED BY <3>1, SmallestSet
  <2>2. s # {}
    BY SumTakes
  <2>3. PICK x \in s : TRUE
    BY <2>2
  <2>4. s \in SUBSET K /\ s \ {x} \in SUBSET s /\ s \ {x} # s /\ s \ {x} \in SUBSET S
    OBVIOUS
  <2>5. SumFunctionOnSet(f, s) = f[x] + SumFunctionOnSet(f, s \ {x})
    BY <2>4, SumTakes
  <2>6. SumFunctionOnSet(f, s \ {x}) = 0
    BY <2>1, <2>4
  <2>7. f[x] = 0
    BY <1>2
  <2> QED BY <2>1, <2>5, <2>6, <2>7
<1> QED BY <1>1, <1>2

-----------------------------------------------------------------------------
(* The pack's conclusion, from the outcome of each rule.                   *)

LEMMA Concludes ==
  ASSUME NEW results
  PROVE  /\ conclusion(results) = "failure" <=> \E key \in DOMAIN results : results[key].outcome = "fail"
         /\ conclusion(results) = "success" <=>
              DOMAIN results # {} /\ \A key \in DOMAIN results : results[key].outcome = "pass"
BY DEF conclusion

LEMMA Demotes ==
  ASSUME NEW results, NEW vouched \in BOOLEAN, NEW d, d = demoteUnmeasured(results, vouched)
  PROVE  /\ DOMAIN d = DOMAIN results
         /\ \A key \in DOMAIN results :
              /\ d[key].outcome = "fail" <=> results[key].outcome = "fail"
              /\ d[key].outcome = "pass" <=> vouched /\ results[key].outcome = "pass"
<1>1. Unproven("unmeasured_spend").outcome = "unproven"
  BY DEF Unproven
<1> QED BY <1>1 DEF demoteUnmeasured

(* The conclusion c on the results in pack, when withheld says whether a   *)
(* rule that is set was left out.                                          *)
Concluded(c, file, withheld, vouched, pack) ==
  /\ c = "failure" <=> readableConfig(file) /\ \E key \in DOMAIN pack : pack[key].outcome = "fail"
  /\ c = "success" <=>
       /\ readableConfig(file) /\ ~withheld /\ vouched
       /\ DOMAIN pack # {} /\ \A key \in DOMAIN pack : pack[key].outcome = "pass"

LEMMA ScopedConcludes ==
  ASSUME NEW q, NEW file, NEW ledger \in BOOLEAN, NEW vouched \in BOOLEAN,
         NEW set, set = IF ledger THEN withoutRunRules(q.settings) ELSE q.settings,
         NEW pack, pack = evaluatePack([q EXCEPT !.settings = set])
  PROVE  Concluded(evaluateScoped(q, file, ledger, vouched), file,
                   DOMAIN q.settings.amounts # DOMAIN set.amounts, vouched, pack)
<1> DEFINE results == demoteUnmeasured(pack, vouched)
           decided == CHOOSE c \in {conclusion(r) : r \in {results}} : TRUE
<1>1. decided = conclusion(results)
  <2> HIDE DEF results
  <2>1. {conclusion(r) : r \in {results}} = {conclusion(results)}
    OBVIOUS
  <2> QED BY <2>1
<1>2. evaluateScoped(q, file, ledger, vouched) =
        IF ~readableConfig(file) THEN "neutral"
        ELSE IF decided = "success" /\ DOMAIN q.settings.amounts # DOMAIN set.amounts THEN "neutral" ELSE decided
  BY DEF evaluateScoped
<1>3. /\ decided = "failure" <=> \E key \in DOMAIN results : results[key].outcome = "fail"
      /\ decided = "success" <=>
           DOMAIN results # {} /\ \A key \in DOMAIN results : results[key].outcome = "pass"
  <2> HIDE DEF results, decided
  <2> QED BY <1>1, Concludes
<1>4. /\ DOMAIN results = DOMAIN pack
      /\ \A key \in DOMAIN pack :
           /\ results[key].outcome = "fail" <=> pack[key].outcome = "fail"
           /\ results[key].outcome = "pass" <=> vouched /\ pack[key].outcome = "pass"
  BY Demotes
<1> HIDE DEF results, decided
<1> QED BY <1>2, <1>3, <1>4 DEF Concluded

(* What makes a rule of a limit fail. *)
Exceeds(q, key) ==
  \/ /\ key \in {"run_budget_usd", "max_run_cost_usd"}
     /\ q.usage.inUSD /\ q.usage.usd > q.settings.amounts[key]
  \/ /\ key \in {"max_increase_usd", "max_increase_percent"}
     /\ q.baseline.runs >= MinBaselineRuns /\ q.usage.inUSD /\ q.usage.usd > reach(q, key)
  \/ /\ key = "pr_budget_usd"
     /\ q.lifetime.known /\ ~q.lifetime.mayRepeat /\ lifetimeTotal(q) > q.settings.amounts[key]

Booleans(q) ==
  /\ q.warnOnly \in BOOLEAN /\ q.verified \in BOOLEAN /\ q.usage.inUSD \in BOOLEAN /\ q.usage.other \in BOOLEAN
  /\ q.usage.unreadable \in BOOLEAN /\ q.baseline.verified \in BOOLEAN
  /\ q.lifetime.known \in BOOLEAN /\ q.lifetime.mayRepeat \in BOOLEAN /\ q.lifetime.verified \in BOOLEAN
  /\ q.lifetime.other \in BOOLEAN

(* Of the results of a rule only a broken one fails, and one that passes   *)
(* stands on verified and attributed rows.                                 *)
LEMMA Kept ==
  ASSUME NEW q, NEW verified \in BOOLEAN, NEW result
  PROVE  /\ kept(q, verified, result).outcome = "fail" => result.outcome = "fail"
         /\ kept(q, verified, result).outcome = "pass" =>
              verified /\ ~(q.usage.unattributed > 0) /\ result.outcome = "pass"
<1>1. Unproven("unverified_rows").outcome = "unproven" /\ Unproven("unattributed_rows").outcome = "unproven"
  BY DEF Unproven
<1> QED BY <1>1 DEF kept

LEMMA Broken ==
  ASSUME NEW q, q.warnOnly \in BOOLEAN, NEW reason
  PROVE  /\ broken(q, reason).outcome = "fail" <=> ~q.warnOnly
         /\ broken(q, reason).outcome # "pass"
BY DEF broken

LEMMA WithinLimit ==
  ASSUME NEW other \in BOOLEAN
  PROVE  within_limit(other).outcome # "fail" /\ (within_limit(other).outcome = "pass" => ~other)
BY DEF within_limit, Unproven

LEMMA RunHeld ==
  ASSUME NEW q, Booleans(q), NEW limit, NEW reason, NEW verified \in BOOLEAN
  PROVE  /\ run_held(q, limit, reason, verified).outcome = "fail" <=>
              ~q.warnOnly /\ q.usage.inUSD /\ q.usage.usd > limit
         /\ run_held(q, limit, reason, verified).outcome = "pass" => verified
<1>1. Unproven("no_rows").outcome = "unproven"
  BY DEF Unproven
<1>2. /\ broken(q, reason).outcome = "fail" <=> ~q.warnOnly
      /\ broken(q, reason).outcome # "pass"
  BY Broken DEF Booleans
<1> DEFINE k == kept(q, verified, within_limit(q.usage.other))
<1>3. k.outcome # "fail" /\ (k.outcome = "pass" => verified)
  BY Kept, WithinLimit DEF Booleans
<1>4. run_held(q, limit, reason, verified) =
        IF q.usage.inUSD /\ q.usage.usd > limit THEN broken(q, reason)
        ELSE IF q.usage.rows = 0 THEN Unproven("no_rows") ELSE k
  BY DEF run_held
<1> HIDE DEF k
<1> QED BY <1>1, <1>2, <1>3, <1>4 DEF Booleans

LEMMA PullRequestRule ==
  ASSUME NEW q, Booleans(q), NEW limit
  PROVE  /\ pull_request(q, limit).outcome = "fail" <=>
              ~q.warnOnly /\ q.lifetime.known /\ ~q.lifetime.mayRepeat /\ lifetimeTotal(q) > limit
         /\ pull_request(q, limit).outcome = "pass" =>
              /\ q.verified /\ ~(q.usage.unattributed > 0) /\ q.usage.rows # 0
              /\ ~(lifetimeTotal(q) > limit) /\ ~q.lifetime.other
<1>1. /\ Unproven("no_rows").outcome = "unproven" /\ Unproven("no_lifetime").outcome = "unproven"
      /\ Unproven("repeat_possible").outcome = "unproven"
  BY DEF Unproven
<1>2. /\ broken(q, "over_limit").outcome = "fail" <=> ~q.warnOnly
      /\ broken(q, "over_limit").outcome # "pass"
  BY Broken DEF Booleans
<1> DEFINE both == q.verified /\ q.lifetime.verified
           k == kept(q, both, within_limit(q.lifetime.other))
<1>3. k.outcome # "fail" /\ (k.outcome = "pass" => both /\ ~(q.usage.unattributed > 0) /\ ~q.lifetime.other)
  <2>1. both \in BOOLEAN
    BY DEF Booleans
  <2> HIDE DEF both
  <2> QED BY <2>1, Kept, WithinLimit DEF Booleans
<1>4. pull_request(q, limit) =
        IF ~q.lifetime.known THEN Unproven("no_lifetime")
        ELSE IF q.lifetime.mayRepeat THEN Unproven("repeat_possible")
        ELSE IF lifetimeTotal(q) > limit THEN broken(q, "over_limit")
        ELSE IF q.usage.rows = 0 THEN Unproven("no_rows") ELSE k
  BY DEF pull_request
<1> HIDE DEF k
<1> QED BY <1>1, <1>2, <1>3, <1>4 DEF Booleans

(* A model that the list leaves out. *)
ModelOutside(q) == \E m \in q.usage.models : ~allows(q.settings, m)

LEMMA AllowlistRule ==
  ASSUME NEW q, Booleans(q)
  PROVE  /\ allowlist(q).outcome = "fail" <=> ~q.warnOnly /\ ModelOutside(q)
         /\ allowlist(q).outcome = "pass" =>
              /\ q.verified /\ ~(q.usage.unattributed > 0) /\ q.usage.rows # 0
              /\ ~ModelOutside(q) /\ ~q.usage.unreadable
<1>1. Unproven("no_rows").outcome = "unproven" /\ Unproven("unreadable_model").outcome = "unproven"
  BY DEF Unproven
<1> DEFINE why == "model_outside_allowlist"
<1>2. broken(q, why).outcome = "fail" <=> ~q.warnOnly
  BY Broken DEF Booleans
<1>3. broken(q, why).outcome # "pass"
  BY Broken DEF Booleans
<1> DEFINE on == [outcome |-> "pass", reason |-> "models_on_allowlist"]
           k == kept(q, q.verified, on)
<1>4. k.outcome # "fail" /\ (k.outcome = "pass" => q.verified /\ ~(q.usage.unattributed > 0))
  <2>1. on.outcome = "pass"
    OBVIOUS
  <2> HIDE DEF on
  <2> QED BY <2>1, Kept DEF Booleans
<1>5. allowlist(q) =
        IF ModelOutside(q) THEN broken(q, why)
        ELSE IF q.usage.rows = 0 THEN Unproven("no_rows")
        ELSE IF q.usage.unreadable THEN Unproven("unreadable_model") ELSE k
  BY DEF allowlist, ModelOutside
<1>6. ModelOutside(q) \in BOOLEAN
  BY DEF ModelOutside
<1> HIDE DEF k
<1> QED BY <1>1, <1>2, <1>3, <1>4, <1>5, <1>6 DEF Booleans

LEMMA LimitRule ==
  ASSUME NEW q, Booleans(q), NEW key \in Keys
  PROVE  /\ rule(q, key).outcome = "fail" <=> ~q.warnOnly /\ Exceeds(q, key)
         /\ rule(q, key).outcome = "pass" => q.verified /\ key # "monthly_budget_usd"
         /\ key = "pr_budget_usd" /\ rule(q, key).outcome = "pass" =>
              /\ ~(q.usage.unattributed > 0) /\ q.usage.rows # 0
              /\ ~(lifetimeTotal(q) > q.settings.amounts[key]) /\ ~q.lifetime.other
<1> DEFINE limit == q.settings.amounts[key]
<1>1. CASE key \in {"run_budget_usd", "max_run_cost_usd"}
  <2>1. rule(q, key) = run_held(q, limit, "over_limit", q.verified)
    BY <1>1 DEF rule
  <2>2. q.verified \in BOOLEAN
    BY DEF Booleans
  <2>3. Exceeds(q, key) <=> q.usage.inUSD /\ q.usage.usd > limit
    BY <1>1 DEF Exceeds
  <2> HIDE DEF limit
  <2>4. /\ rule(q, key).outcome = "fail" <=> ~q.warnOnly /\ q.usage.inUSD /\ q.usage.usd > limit
        /\ rule(q, key).outcome = "pass" => q.verified
    BY <2>1, <2>2, RunHeld
  <2> QED BY <1>1, <2>3, <2>4 DEF Booleans
<1>2. CASE key \in {"max_increase_usd", "max_increase_percent"}
  <2> DEFINE known == q.baseline.runs >= MinBaselineRuns
             both == q.verified /\ q.baseline.verified
             r == run_held(q, reach(q, key), "over_baseline", both)
  <2>1. rule(q, key) = IF known THEN r ELSE Unproven("no_baseline")
    BY <1>2 DEF rule, increase
  <2>2. both \in BOOLEAN /\ (both => q.verified)
    BY DEF Booleans
  <2>3. Exceeds(q, key) <=> known /\ q.usage.inUSD /\ q.usage.usd > reach(q, key)
    BY <1>2 DEF Exceeds
  <2>4. /\ r.outcome = "fail" <=> ~q.warnOnly /\ q.usage.inUSD /\ q.usage.usd > reach(q, key)
        /\ r.outcome = "pass" => both
    <3> HIDE DEF both
    <3> QED BY <2>2, RunHeld
  <2>5. Unproven("no_baseline").outcome = "unproven"
    BY DEF Unproven
  <2>6. known \in BOOLEAN
    OBVIOUS
  <2> HIDE DEF r, both, known
  <2> QED BY <1>2, <2>1, <2>2, <2>3, <2>4, <2>5, <2>6 DEF Booleans
<1>3. CASE key = "pr_budget_usd"
  <2>1. rule(q, key) = pull_request(q, limit)
    BY <1>3 DEF rule
  <2>2. Exceeds(q, key) <=> q.lifetime.known /\ ~q.lifetime.mayRepeat /\ lifetimeTotal(q) > limit
    BY <1>3 DEF Exceeds
  <2> HIDE DEF limit
  <2>3. /\ rule(q, key).outcome = "fail" <=>
              ~q.warnOnly /\ q.lifetime.known /\ ~q.lifetime.mayRepeat /\ lifetimeTotal(q) > limit
        /\ rule(q, key).outcome = "pass" =>
              /\ q.verified /\ ~(q.usage.unattributed > 0) /\ q.usage.rows # 0
              /\ ~(lifetimeTotal(q) > limit) /\ ~q.lifetime.other
    BY <2>1, PullRequestRule
  <2>4. limit = q.settings.amounts[key]
    BY DEF limit
  <2> QED BY <1>3, <2>2, <2>3, <2>4 DEF Booleans
<1>4. CASE key = "monthly_budget_usd"
  <2>1. rule(q, key).outcome = "unproven"
    BY <1>4 DEF rule, Unproven
  <2> QED BY <1>4, <2>1 DEF Exceeds
<1> QED BY <1>1, <1>2, <1>3, <1>4 DEF Keys

(* What the whole pack fails on, and what it takes for all of it to pass.  *)
LEMMA PackOutcomes ==
  ASSUME NEW q, Booleans(q), NEW A, A = DOMAIN q.settings.amounts, A \subseteq Keys,
         NEW pack, pack = evaluatePack(q)
  PROVE  /\ (\E key \in DOMAIN pack : pack[key].outcome = "fail") <=>
              ~q.warnOnly /\ ((q.settings.models # {} /\ ModelOutside(q)) \/ \E key \in A : Exceeds(q, key))
         /\ DOMAIN pack # {} /\ (\A key \in DOMAIN pack : pack[key].outcome = "pass") =>
              /\ q.verified /\ "monthly_budget_usd" \notin A
              /\ A # {} \/ q.settings.models # {}
              /\ "pr_budget_usd" \in A \/ q.settings.models # {} =>
                   ~(q.usage.unattributed > 0) /\ q.usage.rows # 0
              /\ "pr_budget_usd" \in A =>
                   ~(lifetimeTotal(q) > q.settings.amounts["pr_budget_usd"]) /\ ~q.lifetime.other
              /\ q.settings.models # {} => ~ModelOutside(q) /\ ~q.usage.unreadable
<1> DEFINE some == q.settings.models # {}
           joins == q.usage.joinable > 0
           M == IF some THEN {"models"} ELSE {}
           J == IF joins THEN {"attribution"} ELSE {}
<1>1. DOMAIN pack = A \cup M \cup J
  BY DEF evaluatePack
<1>2. "models" \notin A /\ "attribution" \notin A
  BY DEF Keys
<1>3. \A key \in A : pack[key] = rule(q, key)
  BY <1>2 DEF evaluatePack
<1>4. some => pack["models"] = allowlist(q)
  BY DEF evaluatePack
<1>5. joins => pack["attribution"].outcome = "warn"
  BY DEF evaluatePack
<1>6. \A key \in A :
        /\ pack[key].outcome = "fail" <=> ~q.warnOnly /\ Exceeds(q, key)
        /\ pack[key].outcome = "pass" => q.verified /\ key # "monthly_budget_usd"
        /\ key = "pr_budget_usd" /\ pack[key].outcome = "pass" =>
              /\ ~(q.usage.unattributed > 0) /\ q.usage.rows # 0
              /\ ~(lifetimeTotal(q) > q.settings.amounts[key]) /\ ~q.lifetime.other
  BY <1>3, LimitRule
<1>7. some => /\ pack["models"].outcome = "fail" <=> ~q.warnOnly /\ ModelOutside(q)
              /\ pack["models"].outcome = "pass" =>
                   /\ q.verified /\ ~(q.usage.unattributed > 0) /\ q.usage.rows # 0
                   /\ ~ModelOutside(q) /\ ~q.usage.unreadable
  BY <1>4, AllowlistRule
<1>8. some \in BOOLEAN /\ joins \in BOOLEAN /\ (some <=> q.settings.models # {})
  OBVIOUS
<1>9. /\ \A key \in DOMAIN pack : key \in A \/ (key = "models" /\ some) \/ (key = "attribution" /\ joins)
      /\ \A key \in A : key \in DOMAIN pack
      /\ some => "models" \in DOMAIN pack
      /\ joins => "attribution" \in DOMAIN pack
  BY <1>1
<1> HIDE DEF some, joins, M, J
<1>10. (\E key \in DOMAIN pack : pack[key].outcome = "fail") <=>
         ~q.warnOnly /\ ((some /\ ModelOutside(q)) \/ \E key \in A : Exceeds(q, key))
  BY <1>5, <1>6, <1>7, <1>8, <1>9 DEF Booleans
<1>11. ASSUME DOMAIN pack # {}, \A key \in DOMAIN pack : pack[key].outcome = "pass"
       PROVE  /\ q.verified /\ "monthly_budget_usd" \notin A
              /\ A # {} \/ some
              /\ "pr_budget_usd" \in A \/ some => ~(q.usage.unattributed > 0) /\ q.usage.rows # 0
              /\ "pr_budget_usd" \in A =>
                   ~(lifetimeTotal(q) > q.settings.amounts["pr_budget_usd"]) /\ ~q.lifetime.other
              /\ some => ~ModelOutside(q) /\ ~q.usage.unreadable
  <2>1. ~joins
    BY <1>5, <1>9, <1>11
  <2>2. A # {} \/ some
    BY <1>9, <1>11, <2>1
  <2>3. q.verified /\ "monthly_budget_usd" \notin A
    BY <1>6, <1>7, <1>8, <1>9, <1>11, <2>2
  <2>4. "pr_budget_usd" \in A =>
           /\ ~(q.usage.unattributed > 0) /\ q.usage.rows # 0
           /\ ~(lifetimeTotal(q) > q.settings.amounts["pr_budget_usd"]) /\ ~q.lifetime.other
    BY <1>6, <1>9, <1>11
  <2>5. some => /\ ~(q.usage.unattributed > 0) /\ q.usage.rows # 0
                /\ ~ModelOutside(q) /\ ~q.usage.unreadable
    BY <1>7, <1>9, <1>11
  <2> QED BY <2>2, <2>3, <2>4, <2>5
<1> QED BY <1>8, <1>10, <1>11

-----------------------------------------------------------------------------
(* The conclusions, in terms of the state.                                 *)

VerdictInv ==
  /\ base \in ConfigFiles /\ head \in ConfigFiles /\ past \in Histories
  /\ day \in Nat /\ pulls \in Nat /\ measured \in Nat /\ rows \in [Kinds -> Nat]
  /\ evidence \in {"agent_counts", "gateway_measured"}
  /\ check = BothConclusions

InUsd == {k \in Held : k.currency = "USD"} # {}

(* A row of a readable model that the base's list leaves out. *)
Outside == IsSet("models") /\ \E k \in Held : k.model \notin Admitted \cup {"unreadable"}

(* Over, as the pack computes it: in whole amounts, with enough earlier    *)
(* runs, and a lifetime that is known and repeats no row.                  *)
Beyond(key) ==
  \/ /\ key \in {"run_budget_usd", "max_run_cost_usd"}
     /\ InUsd /\ UsdCost > Limit(key)
  \/ /\ key = "max_increase_usd" /\ past.baseline.runs >= MinBaselineRuns
     /\ InUsd /\ UsdCost > past.baseline.median + Limit(key)
  \/ /\ key = "max_increase_percent" /\ past.baseline.runs >= MinBaselineRuns
     /\ InUsd /\ UsdCost > (past.baseline.median * (100 + Limit(key))) \div 100
  \/ /\ key = "pr_budget_usd" /\ past.lifetime.known /\ ~past.lifetime.mayRepeat
     /\ past.lifetime.usd + UsdCost > Limit(key)

ReportFails ==
  /\ readableConfig(base) /\ WarnOnlyEnded
  /\ Outside \/ \E key \in Keys : IsSet(key) /\ Beyond(key)

LedgerFails ==
  /\ readableConfig(base) /\ WarnOnlyEnded
  /\ Outside \/ (IsSet("pr_budget_usd") /\ Most > Limit("pr_budget_usd"))

(* U is what the rows show, with those in un unattributed. *)
Reads(U, un) ==
  /\ U.usd = UsdCost /\ U.unattributed = SumFunctionOnSet(rows, un)
  /\ U.inUSD = InUsd
  /\ U.other = (\E k \in Held : k.currency # "USD")
  /\ U.models = {k.model : k \in {k \in Held : k.model # "unreadable"}}
  /\ U.unreadable = (\E k \in Held : k.model = "unreadable")
  /\ U.inUSD \in BOOLEAN /\ U.other \in BOOLEAN /\ U.unreadable \in BOOLEAN

LEMMA UsageFacts ==
  ASSUME NEW un, NEW jo, NEW U, U = Usage(rows, un, jo)
  PROVE  Reads(U, un)
<1> DEFINE usd == {k \in Kinds : k.currency = "USD" /\ rows[k] > 0}
           held == {k \in Kinds : rows[k] > 0}
           cost == [k \in Kinds |-> rows[k] * k.cost]
<1>1. held = Held /\ usd = {k \in Held : k.currency = "USD"}
  BY DEF Held
<1>2. UsdCost = SumFunctionOnSet(cost, usd)
  BY <1>1 DEF UsdCost
<1> HIDE DEF usd, held, cost
<1>3. /\ U.usd = SumFunctionOnSet(cost, usd)
      /\ U.unattributed = SumFunctionOnSet(rows, un)
      /\ U.inUSD = (usd # {})
      /\ U.other = (held \ usd # {})
      /\ U.models = {k.model : k \in {k \in held : k.model # "unreadable"}}
      /\ U.unreadable = (\E k \in held : k.model = "unreadable")
  BY DEF Usage, usd, held, cost
<1>4. (held \ usd # {}) <=> \E k \in Held : k.currency # "USD"
  BY <1>1
<1> QED BY <1>1, <1>2, <1>3, <1>4 DEF InUsd, Reads

(* What settings a file that can be read gives. *)
LEMMA SettledFacts ==
  ASSUME readableConfig(base), NEW S, S = Settled(base)
  PROVE  /\ DOMAIN S.amounts = Keys \cap DOMAIN base.policy
         /\ \A key \in Keys \cap DOMAIN base.policy : S.amounts[key] = Limit(key)
         /\ S.models # {} <=> IsSet("models")
         /\ IsSet("models") => S.models = base.policy["models"].list
         /\ S.enforce = (IsSet("enforce") /\ base.policy["enforce"].n = 1)
         /\ DOMAIN base.policy \subseteq Keys \cup {"models", "enforce"}
<1>1. S = ParseSettings(base)
  BY DEF Settled
<1>2. /\ S.amounts = [key \in Keys \cap DOMAIN base.policy |-> base.policy[key].n]
      /\ S.models = IF "models" \in DOMAIN base.policy THEN base.policy["models"].list ELSE {}
      /\ S.enforce = ("enforce" \in DOMAIN base.policy /\ base.policy["enforce"].n = 1)
  BY <1>1 DEF ParseSettings
<1>3. \A key \in DOMAIN base.policy : wellFormed(key, base.policy[key])
  BY DEF readableConfig
<1>4. \A key \in DOMAIN base.policy : key \in Keys \cup {"models", "enforce"}
  BY <1>3 DEF wellFormed
<1>5. IsSet("models") => base.policy["models"].list # {}
  BY <1>3 DEF wellFormed, IsSet, Keys
<1> QED BY <1>2, <1>4, <1>5 DEF Limit, IsSet

LEMMA EndOfWarnOnly ==
  ASSUME VerdictInv, NEW e, e = (IsSet("enforce") /\ base.policy["enforce"].n = 1)
  PROVE  /\ warnOnly(e, past.start, day, pulls) \in BOOLEAN
         /\ ~warnOnly(e, past.start, day, pulls) <=> WarnOnlyEnded
<1> DEFINE known == past.start.known
           at == past.start.day
<1>1. known \in BOOLEAN /\ at \in Nat /\ day \in Nat /\ pulls \in Nat
  BY VerdictAssumption DEF VerdictInv
<1>2. WarnOnlyPeriod \in Nat /\ WarnOnlyPullRequests \in Nat
  BY VerdictAssumption
<1>3. warnOnly(e, past.start, day, pulls) <=>
        ~e /\ (known => day < at + WarnOnlyPeriod) /\ pulls < WarnOnlyPullRequests
  BY DEF warnOnly
<1>4. WarnOnlyEnded <=> e \/ (known /\ day >= at + WarnOnlyPeriod) \/ pulls >= WarnOnlyPullRequests
  BY DEF WarnOnlyEnded
<1>5. warnOnly(e, past.start, day, pulls) \in BOOLEAN
  BY DEF warnOnly
<1> HIDE DEF known, at
<1> QED BY <1>1, <1>2, <1>3, <1>4, <1>5

(* The pack's rule on models, over the base's list. *)
LEMMA OutsideFacts ==
  ASSUME readableConfig(base), NEW q, q.usage.models = {k.model : k \in {k \in Held : k.model # "unreadable"}},
         q.settings.models # {} <=> IsSet("models"),
         IsSet("models") => q.settings.models = base.policy["models"].list
  PROVE  q.settings.models # {} /\ ModelOutside(q) <=> Outside
<1>1. CASE ~IsSet("models")
  BY <1>1 DEF Outside
<1>2. CASE IsSet("models")
  <2>1. \A k \in Held : k.model \in Admitted <=> allows(q.settings, k.model)
    BY <1>2 DEF Admitted, allows
  <2>2. ModelOutside(q) <=> \E k \in Held : k.model # "unreadable" /\ ~allows(q.settings, k.model)
    BY DEF ModelOutside
  <2> QED BY <1>2, <2>1, <2>2 DEF Outside
<1> QED BY <1>1, <1>2

(* Facts about amounts that the arithmetic below stands on. *)
LEMMA AmountTypes ==
  ASSUME VerdictInv
  PROVE  /\ UsdCost \in Nat /\ past.baseline.median \in Nat /\ past.baseline.runs \in Nat
         /\ past.lifetime.usd \in Nat /\ MinBaselineRuns \in Nat
         /\ \A key \in DOMAIN base.policy : Limit(key) \in Nat
<1> DEFINE cost == [k \in Kinds |-> rows[k] * k.cost]
           S == {k \in Held : k.currency = "USD"}
<1>1. \A k \in Kinds : rows[k] \in Nat /\ k.cost \in Nat
  BY VerdictAssumption DEF VerdictInv
<1>2. cost \in [Kinds -> Nat]
  BY <1>1
<1>3. S \in SUBSET Kinds
  BY DEF Held
<1>4. UsdCost = SumFunctionOnSet(cost, S)
  BY DEF UsdCost
<1>5. SumFunctionOnSet(cost, S) \in Nat
  <2> HIDE DEF cost, S
  <2> QED BY <1>2, <1>3, SumTakes, VerdictAssumption
<1> QED BY <1>4, <1>5, VerdictAssumption DEF VerdictInv, Limit

(* The report's verdict never succeeds, and fails for the reasons above.   *)
LEMMA ReportConcludes ==
  ASSUME VerdictInv
  PROVE  check.report # "success" /\ (check.report = "failure" <=> ReportFails)
<1> DEFINE S == Settled(base)
           w == warnOnly(S.enforce, past.start, day, pulls)
           U == ReadUsage(rows)
           q == [usage |-> U, verified |-> FALSE, settings |-> S, baseline |-> past.baseline,
                 lifetime |-> past.lifetime, warnOnly |-> w]
           pack == evaluatePack([q EXCEPT !.settings = q.settings])
<1>1. check.report = Evaluate(q, base)
  BY DEF VerdictInv, BothConclusions, decideVerdict, ReadConfig
<1>2. Evaluate(q, base) = evaluateScoped(q, base, FALSE, TRUE)
  <2> HIDE DEF q
  <2>1. {evaluateScoped(p, base, FALSE, TRUE) : p \in {q}} = {evaluateScoped(q, base, FALSE, TRUE)}
    OBVIOUS
  <2> QED BY <2>1 DEF Evaluate
<1>3. /\ check.report = "failure" <=> readableConfig(base) /\ \E key \in DOMAIN pack : pack[key].outcome = "fail"
      /\ check.report = "success" =>
           readableConfig(base) /\ DOMAIN pack # {} /\ \A key \in DOMAIN pack : pack[key].outcome = "pass"
  <2> HIDE DEF q
  <2> DEFINE set == q.settings
             no == FALSE
             yes == TRUE
  <2>1. set = IF no THEN withoutRunRules(q.settings) ELSE q.settings
    OBVIOUS
  <2>2. pack = evaluatePack([q EXCEPT !.settings = set])
    OBVIOUS
  <2>3. no \in BOOLEAN /\ yes \in BOOLEAN
    OBVIOUS
  <2>4. check.report = evaluateScoped(q, base, no, yes)
    BY <1>1, <1>2
  <2> HIDE DEF set, pack, no, yes
  <2>5. Concluded(evaluateScoped(q, base, no, yes), base,
                  DOMAIN q.settings.amounts # DOMAIN set.amounts, yes, pack)
    BY <2>1, <2>2, <2>3, ScopedConcludes
  <2> QED BY <2>4, <2>5 DEF Concluded
<1>4. /\ [q EXCEPT !.settings = q.settings] = q
      /\ q.usage = U /\ q.verified = FALSE /\ q.settings = S /\ q.baseline = past.baseline
      /\ q.lifetime = past.lifetime /\ q.warnOnly = w
  <2> HIDE DEF U, S, w
  <2> QED OBVIOUS
<1>5. CASE ~readableConfig(base)
  BY <1>3, <1>5 DEF ReportFails
<1>6. CASE readableConfig(base)
  <2>1. /\ DOMAIN S.amounts = Keys \cap DOMAIN base.policy
        /\ \A key \in Keys \cap DOMAIN base.policy : S.amounts[key] = Limit(key)
        /\ S.models # {} <=> IsSet("models")
        /\ IsSet("models") => S.models = base.policy["models"].list
        /\ S.enforce = (IsSet("enforce") /\ base.policy["enforce"].n = 1)
    BY <1>6, SettledFacts
  <2>2. /\ U.usd = UsdCost /\ U.inUSD = InUsd
        /\ U.models = {k.model : k \in {k \in Held : k.model # "unreadable"}}
        /\ U.inUSD \in BOOLEAN /\ U.other \in BOOLEAN /\ U.unreadable \in BOOLEAN
    <3> DEFINE jo == {k \in Kinds : k.joinable}
    <3>1. U = Usage(rows, Kinds, jo)
      BY DEF ReadUsage
    <3> HIDE DEF U, jo
    <3>2. Reads(U, Kinds)
      BY <3>1, UsageFacts
    <3> QED BY <3>2 DEF Reads
  <2>3. w \in BOOLEAN /\ (~w <=> WarnOnlyEnded)
    <3> HIDE DEF S
    <3> QED BY <2>1, EndOfWarnOnly
  <2>4. Booleans(q)
    <3>1. /\ past.baseline.verified \in BOOLEAN /\ past.lifetime.known \in BOOLEAN
          /\ past.lifetime.mayRepeat \in BOOLEAN /\ past.lifetime.verified \in BOOLEAN
          /\ past.lifetime.other \in BOOLEAN
      BY VerdictAssumption DEF VerdictInv
    <3> HIDE DEF q, U, S, w
    <3> QED BY <1>4, <2>2, <2>3, <3>1 DEF Booleans
  <2>5. q.settings.models # {} /\ ModelOutside(q) <=> Outside
    <3> HIDE DEF q, U, S, w
    <3> QED BY <1>4, <1>6, <2>1, <2>2, OutsideFacts
  <2>6. \A key \in Keys \cap DOMAIN base.policy : Exceeds(q, key) <=> Beyond(key)
    <3> HIDE DEF q, U, S, w
    <3> TAKE key \in Keys \cap DOMAIN base.policy
    <3>1. q.settings.amounts[key] = Limit(key) /\ q.usage.usd = UsdCost /\ q.usage.inUSD = InUsd
      BY <1>4, <2>1, <2>2
    <3>2. /\ key = "max_increase_usd" => reach(q, key) = past.baseline.median + Limit(key)
          /\ key = "max_increase_percent" => reach(q, key) = (past.baseline.median * (100 + Limit(key))) \div 100
      BY <1>4, <3>1 DEF reach
    <3>3. lifetimeTotal(q) = past.lifetime.usd + UsdCost
      BY <1>4, <3>1 DEF lifetimeTotal
    <3> QED BY <1>4, <3>1, <3>2, <3>3 DEF Exceeds, Beyond
  <2>7. pack = evaluatePack(q)
    <3> HIDE DEF q
    <3> QED BY <1>4
  <2> HIDE DEF q, U, S, w, pack
  <2>8. DOMAIN q.settings.amounts = Keys \cap DOMAIN base.policy
    BY <1>4, <2>1
  <2>9. Keys \cap DOMAIN base.policy \subseteq Keys
    OBVIOUS
  <2>10. /\ (\E key \in DOMAIN pack : pack[key].outcome = "fail") <=>
              ~q.warnOnly /\ ((q.settings.models # {} /\ ModelOutside(q))
                              \/ \E key \in Keys \cap DOMAIN base.policy : Exceeds(q, key))
         /\ DOMAIN pack # {} /\ (\A key \in DOMAIN pack : pack[key].outcome = "pass") => q.verified
    BY <2>4, <2>7, <2>8, <2>9, PackOutcomes
  <2>11. check.report # "success"
    BY <1>3, <1>4, <2>10
  <2>12. (\E key \in DOMAIN pack : pack[key].outcome = "fail") <=>
           WarnOnlyEnded /\ (Outside \/ \E key \in Keys \cap DOMAIN base.policy : Beyond(key))
    BY <1>4, <2>3, <2>5, <2>6, <2>10
  <2> QED BY <1>3, <1>6, <2>11, <2>12 DEF ReportFails, IsSet
<1> QED BY <1>5, <1>6

(* What a success of the ledger's verdict shows. *)
LedgerProven ==
  /\ base.read /\ Held # {} /\ evidence # "agent_counts"
  /\ \A k \in Held : k.verified /\ k.attributed
  /\ DOMAIN base.policy \subseteq {"pr_budget_usd", "models", "enforce"}
  /\ IsSet("pr_budget_usd") => Most <= Limit("pr_budget_usd") /\ \A k \in Held : k.currency = "USD"
  /\ IsSet("models") => \A k \in Held : k.model \in Admitted
  /\ IsSet("pr_budget_usd") \/ IsSet("models")

(* Rows that hold no unattributed one. *)
LEMMA AllAttributed ==
  ASSUME VerdictInv, ~(SumFunctionOnSet(rows, {k \in Kinds : ~k.attributed}) > 0)
  PROVE  \A k \in Held : k.attributed
<1> DEFINE un == {k \in Kinds : ~k.attributed}
           n == SumFunctionOnSet(rows, un)
<1>1. un \in SUBSET Kinds /\ rows \in [Kinds -> Nat] /\ IsFiniteSet(Kinds)
  BY VerdictAssumption DEF VerdictInv
<1>2. n \in Nat /\ (n = 0 <=> \A x \in un : rows[x] = 0)
  <2> HIDE DEF un
  <2> QED BY <1>1, SumTakes, SumIsZero
<1>3. n = 0
  <2>1. ~(n > 0)
    OBVIOUS
  <2> HIDE DEF n
  <2> QED BY <1>2, <2>1
<1>4. \A k \in Kinds : k.attributed \in BOOLEAN
  BY VerdictAssumption
<1> QED BY <1>2, <1>3, <1>4 DEF Held

LEMMA LedgerConcludes ==
  ASSUME VerdictInv
  PROVE  (check.ledger = "failure" <=> LedgerFails) /\ (check.ledger = "success" => LedgerProven)
<1> DEFINE S == Settled(base)
           w == warnOnly(S.enforce, past.start, day, pulls)
           U == ledgerUsage(rows)
           verified == Held # {} /\ \A k \in Held : k.verified
           above == IF evidence = "gateway_measured" /\ measured > U.usd THEN measured - U.usd ELSE 0
           vouched == verified => evidence \in {"gateway_measured", "reconciled"}
           life == [known |-> TRUE, usd |-> above, verified |-> verified, mayRepeat |-> FALSE, other |-> U.other]
           q == [usage |-> U, verified |-> verified, settings |-> S, baseline |-> NoBaseline,
                 lifetime |-> life, warnOnly |-> w]
           set == withoutRunRules(S)
           p == [q EXCEPT !.settings = set]
           pack == evaluatePack(p)
           A == (Keys \cap DOMAIN base.policy) \ RunKeys
<1>1. check.ledger = CHOOSE c \in {evaluateScoped(r, base, TRUE, vouched) : r \in {q}} : TRUE
  BY DEF VerdictInv, BothConclusions, handleVerdict, EvaluateLedger, ReadConfig, Held
<1>2. check.ledger = evaluateScoped(q, base, TRUE, vouched)
  <2> HIDE DEF q, vouched
  <2>1. {evaluateScoped(r, base, TRUE, vouched) : r \in {q}} = {evaluateScoped(q, base, TRUE, vouched)}
    OBVIOUS
  <2> QED BY <1>1, <2>1
<1>3. /\ q.settings = S
      /\ p.usage = U /\ p.verified = verified /\ p.settings = set
      /\ p.baseline = NoBaseline /\ p.lifetime = life /\ p.warnOnly = w
  <2> HIDE DEF U, S, w, verified, life, set
  <2> QED OBVIOUS
<1>4. vouched \in BOOLEAN /\ verified \in BOOLEAN
  OBVIOUS
<1>5. /\ check.ledger = "failure" <=> readableConfig(base) /\ \E key \in DOMAIN pack : pack[key].outcome = "fail"
      /\ check.ledger = "success" =>
           /\ readableConfig(base) /\ DOMAIN S.amounts = DOMAIN set.amounts /\ vouched
           /\ DOMAIN pack # {} /\ \A key \in DOMAIN pack : pack[key].outcome = "pass"
  <2> DEFINE yes == TRUE
  <2>1. set = IF yes THEN withoutRunRules(q.settings) ELSE q.settings
    <3> HIDE DEF q, S
    <3> QED BY <1>3
  <2>2. pack = evaluatePack([q EXCEPT !.settings = set])
    <3> HIDE DEF q, set
    <3> QED OBVIOUS
  <2>3. yes \in BOOLEAN
    OBVIOUS
  <2>4. check.ledger = evaluateScoped(q, base, yes, vouched)
    <3> HIDE DEF q, vouched
    <3> QED BY <1>2
  <2> HIDE DEF q, p, S, set, pack, yes, vouched
  <2>5. Concluded(evaluateScoped(q, base, yes, vouched), base,
                  DOMAIN q.settings.amounts # DOMAIN set.amounts, vouched, pack)
    BY <1>4, <2>1, <2>2, <2>3, ScopedConcludes
  <2> QED BY <1>3, <2>4, <2>5 DEF Concluded
<1>6. CASE ~readableConfig(base)
  <2> HIDE DEF pack, S, set, vouched
  <2> QED BY <1>5, <1>6 DEF LedgerFails
<1>7. CASE readableConfig(base)
  <2>1. /\ DOMAIN S.amounts = Keys \cap DOMAIN base.policy
        /\ \A key \in Keys \cap DOMAIN base.policy : S.amounts[key] = Limit(key)
        /\ S.models # {} <=> IsSet("models")
        /\ IsSet("models") => S.models = base.policy["models"].list
        /\ S.enforce = (IsSet("enforce") /\ base.policy["enforce"].n = 1)
        /\ DOMAIN base.policy \subseteq Keys \cup {"models", "enforce"}
    BY <1>7, SettledFacts
  <2>2. /\ DOMAIN set.amounts = A /\ set.models = S.models
        /\ \A key \in A : set.amounts[key] = Limit(key)
    <3>1. S = ParseSettings(base)
      BY <1>7 DEF Settled
    <3>2. /\ set.models = S.models
          /\ set.amounts = [key \in DOMAIN S.amounts \ RunKeys |-> S.amounts[key]]
      BY <3>1 DEF withoutRunRules, ParseSettings
    <3> HIDE DEF S, set
    <3> QED BY <2>1, <3>2
  <2>3. /\ U.usd = UsdCost /\ U.unattributed = SumFunctionOnSet(rows, {k \in Kinds : ~k.attributed})
        /\ U.other = (\E k \in Held : k.currency # "USD")
        /\ U.models = {k.model : k \in {k \in Held : k.model # "unreadable"}}
        /\ U.unreadable = (\E k \in Held : k.model = "unreadable")
        /\ U.inUSD \in BOOLEAN /\ U.other \in BOOLEAN /\ U.unreadable \in BOOLEAN
    <3> DEFINE un == {k \in Kinds : ~k.attributed}
               jo == {}
    <3>1. U = Usage(rows, un, jo)
      BY DEF ledgerUsage
    <3> HIDE DEF U, jo, un
    <3>2. Reads(U, un)
      BY <3>1, UsageFacts
    <3> QED BY <3>2 DEF un, Reads
  <2>4. w \in BOOLEAN /\ (~w <=> WarnOnlyEnded)
    <3> HIDE DEF S
    <3> QED BY <2>1, EndOfWarnOnly
  <2>5. life.known = TRUE /\ life.usd = above /\ life.verified = verified /\ life.mayRepeat = FALSE /\ life.other = U.other
    <3> HIDE DEF above, verified, U
    <3> QED OBVIOUS
  <2>6. above + UsdCost = Most /\ Most \in Nat
    <3> DEFINE u == UsdCost
    <3>1. u \in Nat /\ measured \in Nat /\ U.usd = u
      BY <2>3, AmountTypes DEF VerdictInv
    <3>2. Most = IF evidence = "gateway_measured" /\ measured > u THEN measured ELSE u
      BY DEF Most
    <3>3. above = IF evidence = "gateway_measured" /\ measured > u THEN measured - u ELSE 0
      BY <3>1
    <3> HIDE DEF u, above
    <3>4. above + u = Most /\ Most \in Nat
      BY <3>1, <3>2, <3>3
    <3> QED BY <3>4 DEF u
  <2> HIDE DEF q, p, U, S, w, set, pack, life, above, verified, vouched
  <2>7. Booleans(p)
    <3>1. NoBaseline.verified \in BOOLEAN
      BY DEF NoBaseline
    <3> QED BY <1>3, <1>4, <2>3, <2>4, <2>5, <3>1 DEF Booleans
  <2>8. p.settings.models # {} /\ ModelOutside(p) <=> Outside
    <3>1. /\ p.usage.models = {k.model : k \in {k \in Held : k.model # "unreadable"}}
          /\ p.settings.models # {} <=> IsSet("models")
          /\ IsSet("models") => p.settings.models = base.policy["models"].list
      BY <1>3, <2>1, <2>2, <2>3
    <3> QED BY <1>7, <3>1, OutsideFacts
  <2>9. lifetimeTotal(p) = Most
    BY <1>3, <2>3, <2>5, <2>6 DEF lifetimeTotal
  <2>10. \A key \in A : Exceeds(p, key) <=> key = "pr_budget_usd" /\ Most > Limit(key)
    <3> TAKE key \in A
    <3>1. p.settings.amounts[key] = Limit(key)
      BY <1>3, <2>2
    <3>2. key \notin {"run_budget_usd", "max_run_cost_usd", "max_increase_usd", "max_increase_percent"}
      BY DEF RunKeys
    <3> QED BY <1>3, <2>5, <2>9, <3>1, <3>2 DEF Exceeds
  <2>11. DOMAIN p.settings.amounts = A /\ A \subseteq Keys /\ pack = evaluatePack(p)
    BY <1>3, <2>2 DEF pack
  <2>12. IsSet("pr_budget_usd") <=> "pr_budget_usd" \in A
    BY DEF IsSet, Keys, RunKeys
  <2> HIDE DEF A
  <2>13. /\ (\E key \in DOMAIN pack : pack[key].outcome = "fail") <=>
              ~p.warnOnly /\ ((p.settings.models # {} /\ ModelOutside(p)) \/ \E key \in A : Exceeds(p, key))
         /\ DOMAIN pack # {} /\ (\A key \in DOMAIN pack : pack[key].outcome = "pass") =>
              /\ p.verified /\ "monthly_budget_usd" \notin A
              /\ A # {} \/ p.settings.models # {}
              /\ "pr_budget_usd" \in A \/ p.settings.models # {} =>
                   ~(p.usage.unattributed > 0) /\ p.usage.rows # 0
              /\ "pr_budget_usd" \in A =>
                   ~(lifetimeTotal(p) > p.settings.amounts["pr_budget_usd"]) /\ ~p.lifetime.other
              /\ p.settings.models # {} => ~ModelOutside(p) /\ ~p.usage.unreadable
    BY <2>7, <2>11, PackOutcomes
  <2>14. check.ledger = "failure" <=> LedgerFails
    <3>1. (\E key \in A : Exceeds(p, key)) <=> IsSet("pr_budget_usd") /\ Most > Limit("pr_budget_usd")
      BY <2>10, <2>12
    <3> QED BY <1>3, <1>5, <1>7, <2>4, <2>8, <2>13, <3>1 DEF LedgerFails
  <2>15. ASSUME check.ledger = "success" PROVE LedgerProven
    <3>1. /\ verified /\ vouched /\ "monthly_budget_usd" \notin A
          /\ A # {} \/ p.settings.models # {}
          /\ "pr_budget_usd" \in A \/ p.settings.models # {} => ~(U.unattributed > 0)
          /\ "pr_budget_usd" \in A => ~(Most > p.settings.amounts["pr_budget_usd"]) /\ ~U.other
          /\ p.settings.models # {} => ~ModelOutside(p) /\ ~U.unreadable
      BY <1>3, <1>5, <2>5, <2>9, <2>13, <2>15
    <3>2. Keys \cap DOMAIN base.policy = A
      BY <1>5, <2>1, <2>2, <2>15
    <3>3. A \subseteq {"pr_budget_usd"}
      BY <3>1 DEF A, Keys, RunKeys
    <3>4. p.settings.models # {} <=> IsSet("models")
      BY <1>3, <2>1, <2>2
    <3>5. base.read /\ Held # {} /\ evidence # "agent_counts" /\ \A k \in Held : k.verified
      BY <1>7, <3>1 DEF readableConfig, verified, vouched
    <3>6. \A k \in Held : k.attributed
      BY <2>3, <3>1, <3>3, AllAttributed
    <3>7. DOMAIN base.policy \subseteq {"pr_budget_usd", "models", "enforce"}
      BY <2>1, <3>2, <3>3
    <3>8. IsSet("pr_budget_usd") \/ IsSet("models")
      BY <2>12, <3>1, <3>3, <3>4
    <3>9. ASSUME IsSet("pr_budget_usd")
          PROVE  Most <= Limit("pr_budget_usd") /\ \A k \in Held : k.currency = "USD"
      <4>1. p.settings.amounts["pr_budget_usd"] = Limit("pr_budget_usd")
        BY <1>3, <2>2, <2>12, <3>9
      <4>2. Limit("pr_budget_usd") \in Nat
        BY <3>9, AmountTypes DEF IsSet
      <4>3. ~(Most > Limit("pr_budget_usd"))
        BY <2>12, <3>1, <3>9, <4>1
      <4>4. Most <= Limit("pr_budget_usd")
        BY <2>6, <4>2, <4>3
      <4> QED BY <2>3, <2>12, <3>1, <3>9, <4>4
    <3>10. ASSUME IsSet("models") PROVE \A k \in Held : k.model \in Admitted
      BY <2>3, <2>8, <3>1, <3>4, <3>10 DEF Outside
    <3> QED BY <3>5, <3>6, <3>7, <3>8, <3>9, <3>10 DEF LedgerProven
  <2> QED BY <2>14, <2>15
<1> QED BY <1>6, <1>7

-----------------------------------------------------------------------------
(* The invariant, and the theorems.                                        *)

LEMMA VerdictInvInit == VerdictInit => VerdictInv
BY DEF VerdictInit, VerdictInv

(* What a step leaves of the state the verdicts read. *)
Forward ==
  /\ past' = past /\ day' >= day /\ pulls' >= pulls /\ measured' >= measured
  /\ \A k \in Kinds : rows'[k] >= rows[k]
  /\ evidence' \in {evidence, "agent_counts", "gateway_measured"}

LEMMA VerdictStep ==
  ASSUME VerdictInv, [VerdictNext]_verdictVars
  PROVE  VerdictInv' /\ Forward
<1> USE DEF VerdictInv
<1>1. \A k \in Kinds : rows[k] \in Nat
  OBVIOUS
<1>2. ASSUME NEW k \in Kinds, StoreRow(k), check' = BothConclusions' PROVE VerdictInv' /\ Forward
  <2>1. rows' = [rows EXCEPT ![k] = @ + 1] /\ evidence' = "agent_counts"
    BY <1>2 DEF StoreRow
  <2>2. UNCHANGED <<base, head, past, day, pulls, measured>>
    BY <1>2 DEF StoreRow
  <2>3. rows' \in [Kinds -> Nat] /\ \A j \in Kinds : rows'[j] >= rows[j]
    BY <1>1, <2>1
  <2> QED BY <1>2, <2>1, <2>2, <2>3 DEF Forward
<1>3. ASSUME NEW n \in 0 .. MaxMeasured, GatewayCounts(n), check' = BothConclusions' PROVE VerdictInv' /\ Forward
  <2>1. n \in Nat /\ n >= measured
    BY <1>3 DEF GatewayCounts
  <2> QED BY <1>1, <1>3, <2>1 DEF GatewayCounts, Forward
<1>4. ASSUME TimePasses, check' = BothConclusions' PROVE VerdictInv' /\ Forward
  BY <1>1, <1>4 DEF TimePasses, Forward
<1>5. ASSUME MergeSettings, check' = BothConclusions' PROVE VerdictInv' /\ Forward
  BY <1>1, <1>5 DEF MergeSettings, Forward
<1>6. ASSUME NEW file \in ConfigFiles, PushSettings(file), check' = BothConclusions' PROVE VerdictInv' /\ Forward
  BY <1>1, <1>6 DEF PushSettings, Forward
<1>7. ASSUME UNCHANGED verdictVars PROVE VerdictInv' /\ Forward
  <2>1. UNCHANGED <<base, head, past, day, pulls, rows, measured, evidence, check>>
    BY <1>7 DEF verdictVars
  <2>2. BothConclusions' = BothConclusions
    BY <2>1 DEF BothConclusions, decideVerdict, handleVerdict, ReadConfig, EvaluateLedger, warnOnly
  <2> QED BY <1>1, <2>1, <2>2 DEF Forward
<1> QED BY <1>2, <1>3, <1>4, <1>5, <1>6, <1>7 DEF VerdictNext

(* The state with its conclusions explained. *)
Explained ==
  /\ VerdictInv
  /\ check.report # "success" /\ (check.report = "failure" <=> ReportFails)
  /\ (check.ledger = "failure" <=> LedgerFails) /\ (check.ledger = "success" => LedgerProven)

LEMMA ConclusionsExplained == VerdictInv => Explained
BY ReportConcludes, LedgerConcludes DEF Explained

LEMMA SpecExplained == VerdictSpec => []Explained
<1>1. VerdictInv /\ [VerdictNext]_verdictVars => VerdictInv'
  BY VerdictStep
<1> QED BY <1>1, VerdictInvInit, ConclusionsExplained, PTL DEF VerdictSpec

(* Whole hundredths: past the quotient is past the product. *)
LEMMA PastHundredth ==
  ASSUME NEW u \in Nat, NEW x \in Nat, u > x \div 100
  PROVE  u * 100 > x
OBVIOUS

LEMMA BeyondIsOver ==
  ASSUME VerdictInv, NEW key \in Keys, IsSet(key), Beyond(key)
  PROVE  Over(key)
<1> DEFINE u == UsdCost
           m == past.baseline.median
           n == Limit(key)
<1>1. u \in Nat /\ m \in Nat /\ n \in Nat
  BY AmountTypes DEF IsSet
<1>2. CASE key = "max_increase_percent"
  <2>1. u > (m * (100 + n)) \div 100
    BY <1>2 DEF Beyond
  <2>2. Over(key) <=> u * 100 > m * (100 + n)
    BY <1>2 DEF Over
  <2> DEFINE x == m * (100 + n)
  <2> HIDE DEF u, m, n
  <2>3. x \in Nat
    BY <1>1
  <2>4. u > x \div 100
    BY <2>1
  <2> HIDE DEF x
  <2>5. u * 100 > x
    BY <1>1, <2>3, <2>4, PastHundredth
  <2> QED BY <2>2, <2>5 DEF x
<1>3. CASE key # "max_increase_percent"
  BY <1>3 DEF Beyond, Over
<1> QED BY <1>2, <1>3

(* In every reachable state a success of the report's check is ruled out,  *)
(* a success of the ledger's stands on verified, attributed, measured rows *)
(* within the limits, and a failure on a broken limit or a model outside   *)
(* the list, past the warn-only period: for any rows, settings files and   *)
(* histories (Evaluate, EvaluateLedger, the default pack).                 *)
THEOREM SpecConclusionIsProven == VerdictSpec => []ConclusionIsProven
<1>1. Explained => ConclusionIsProven
  <2> SUFFICES ASSUME Explained PROVE ConclusionIsProven
    OBVIOUS
  <2>1. VerdictInv /\ check.report # "success"
    BY DEF Explained
  <2>2. ASSUME check.report = "failure"
        PROVE  base.read /\ WarnOnlyEnded /\ (Outside \/ \E key \in Keys : IsSet(key) /\ Over(key))
    BY <2>1, <2>2, BeyondIsOver DEF Explained, ReportFails, readableConfig
  <2>3. ASSUME check.ledger = "failure"
        PROVE  base.read /\ WarnOnlyEnded /\ (Outside \/ (IsSet("pr_budget_usd") /\ Most > Limit("pr_budget_usd")))
    BY <2>3 DEF Explained, LedgerFails, readableConfig
  <2>4. check.ledger = "success" => LedgerProven
    BY DEF Explained
  <2> QED BY <2>1, <2>2, <2>3, <2>4 DEF ConclusionIsProven, LedgerProven, Outside
<1> QED BY <1>1, SpecExplained, PTL

(* More rows never cost less. *)
LEMMA CostGrows ==
  ASSUME VerdictInv, VerdictInv', Forward
  PROVE  UsdCost \in Nat /\ UsdCost' \in Nat /\ UsdCost <= UsdCost' /\ Held \subseteq Held' /\ (InUsd => InUsd')
<1> DEFINE f == [k \in Kinds |-> rows[k] * k.cost]
           g == [k \in Kinds |-> rows'[k] * k.cost]
           S == {k \in Held : k.currency = "USD"}
           T == {k \in Held' : k.currency = "USD"}
<1>1. \A k \in Kinds : rows[k] \in Nat /\ rows'[k] \in Nat /\ k.cost \in Nat /\ rows[k] <= rows'[k]
  BY VerdictAssumption DEF VerdictInv, Forward
<1>2. Held \subseteq Held' /\ Held' \subseteq Kinds
  BY <1>1 DEF Held
<1>3. f \in [Kinds -> Nat] /\ g \in [Kinds -> Nat]
  BY <1>1
<1>4. \A x \in S : f[x] <= g[x]
  <2> TAKE x \in S
  <2> DEFINE a == rows[x]
             b == rows'[x]
             c == x.cost
  <2>1. x \in Kinds /\ a \in Nat /\ b \in Nat /\ c \in Nat /\ a <= b
    BY <1>1 DEF Held
  <2>2. f[x] = a * c /\ g[x] = b * c
    BY <2>1
  <2> HIDE DEF a, b, c, f, g
  <2>3. a * c <= b * c
    BY <2>1
  <2> QED BY <2>2, <2>3
<1>5. S \subseteq T /\ T \subseteq Kinds /\ S \in SUBSET Kinds /\ T \in SUBSET Kinds
  BY <1>2
<1>6. UsdCost = SumFunctionOnSet(f, S) /\ UsdCost' = SumFunctionOnSet(g, T)
  BY DEF UsdCost
<1>7. IsFiniteSet(Kinds)
  BY VerdictAssumption
<1>8. InUsd = (S # {}) /\ InUsd' = (T # {})
  BY DEF InUsd
<1> HIDE DEF f, g, S, T
<1>9. SumFunctionOnSet(f, S) <= SumFunctionOnSet(g, T)
  BY <1>3, <1>4, <1>5, <1>7, SumGrows
<1>10. SumFunctionOnSet(f, S) \in Nat /\ SumFunctionOnSet(g, T) \in Nat
  BY <1>3, <1>5, <1>7, SumTakes
<1> QED BY <1>2, <1>5, <1>6, <1>8, <1>9, <1>10

(* While the base's settings stay, what ended the warn-only period, what   *)
(* is outside the list and what is beyond a limit stay too.                *)
LEMMA ReasonsStand ==
  ASSUME VerdictInv, VerdictInv', Forward, base' = base
  PROVE  /\ readableConfig(base)' = readableConfig(base)
         /\ \A key : IsSet(key)' = IsSet(key) /\ Limit(key)' = Limit(key)
         /\ WarnOnlyEnded => WarnOnlyEnded'
         /\ Outside => Outside'
         /\ \A key \in Keys : IsSet(key) /\ Beyond(key) => Beyond(key)'
<1>1. readableConfig(base)' = readableConfig(base)
  BY DEF readableConfig, wellFormed
<1>2. \A key : IsSet(key)' = IsSet(key) /\ Limit(key)' = Limit(key)
  BY DEF IsSet, Limit
<1>3. WarnOnlyEnded => WarnOnlyEnded'
  <2> DEFINE at == past.start.day
             e == IsSet("enforce") /\ base.policy["enforce"].n = 1
             known == past.start.known
  <2>1. at \in Nat /\ day \in Nat /\ day' \in Nat /\ pulls \in Nat /\ pulls' \in Nat
    BY VerdictAssumption DEF VerdictInv
  <2>2. WarnOnlyPeriod \in Nat /\ WarnOnlyPullRequests \in Nat
    BY VerdictAssumption
  <2>3. day' >= day /\ pulls' >= pulls
    BY DEF Forward
  <2>4. WarnOnlyEnded <=> e \/ (known /\ day >= at + WarnOnlyPeriod) \/ pulls >= WarnOnlyPullRequests
    BY DEF WarnOnlyEnded
  <2>5. WarnOnlyEnded' <=> e \/ (known /\ day' >= at + WarnOnlyPeriod) \/ pulls' >= WarnOnlyPullRequests
    BY <1>2 DEF WarnOnlyEnded, Forward
  <2> HIDE DEF at, e, known
  <2> QED BY <2>1, <2>2, <2>3, <2>4, <2>5
<1>4. UsdCost \in Nat /\ UsdCost' \in Nat /\ UsdCost <= UsdCost' /\ Held \subseteq Held' /\ (InUsd => InUsd')
  BY CostGrows
<1>5. Outside => Outside'
  <2>1. \A k \in Held : k.model \in Admitted' => k.model \in Admitted
    BY <1>4 DEF Admitted
  <2> QED BY <1>2, <1>4, <2>1 DEF Outside
<1>6. ASSUME NEW key \in Keys, IsSet(key), Beyond(key) PROVE Beyond(key)'
  <2> DEFINE u == UsdCost
             v == UsdCost'
             m == past.baseline.median
             n == Limit(key)
             l == past.lifetime.usd
             more == past.baseline.runs >= MinBaselineRuns
             part == (m * (100 + n)) \div 100
             life == past.lifetime.known /\ ~past.lifetime.mayRepeat
             some == InUsd
             any == InUsd'
  <2>1. past' = past /\ Limit(key)' = n
    BY <1>2 DEF Forward
  <2>2. u \in Nat /\ v \in Nat /\ u <= v /\ m \in Nat /\ n \in Nat /\ l \in Nat /\ (some => any)
    BY <1>4, <1>6, AmountTypes DEF IsSet
  <2>3. part \in Int
    <3> HIDE DEF m, n
    <3>1. m * (100 + n) \in Nat
      BY <2>2
    <3> QED BY <3>1
  <2>4. \/ key \in {"run_budget_usd", "max_run_cost_usd"} /\ some /\ u > n
        \/ key = "max_increase_usd" /\ more /\ some /\ u > m + n
        \/ key = "max_increase_percent" /\ more /\ some /\ u > part
        \/ key = "pr_budget_usd" /\ life /\ l + u > n
    BY <1>6 DEF Beyond
  <2>5. \/ key \in {"run_budget_usd", "max_run_cost_usd"} /\ any /\ v > n
        \/ key = "max_increase_usd" /\ more /\ any /\ v > m + n
        \/ key = "max_increase_percent" /\ more /\ any /\ v > part
        \/ key = "pr_budget_usd" /\ life /\ l + v > n
        => Beyond(key)'
    BY <2>1 DEF Beyond
  <2> HIDE DEF u, v, m, n, l, more, part, life, some, any
  <2> QED BY <2>2, <2>3, <2>4, <2>5
<1> QED BY <1>1, <1>2, <1>3, <1>5, <1>6

(* No step but a change of the base's settings takes back a failure of the *)
(* report's check; nor of the ledger's, unless the gateway's figure is     *)
(* what is over the limit and a row it does not cover takes its place:     *)
(* for any rows, settings and histories (ReadConfig, EvaluateLedger).      *)
THEOREM SpecFailureStands == VerdictSpec => FailureStands
<1> DEFINE Stands == base' = base =>
              /\ check.report = "failure" => check'.report = "failure"
              /\ check.ledger = "failure" /\ (evidence' = evidence \/ UsdCost >= measured) =>
                   check'.ledger = "failure"
<1>1. Explained /\ Explained' /\ [VerdictNext]_verdictVars => [Stands]_verdictVars
  <2> SUFFICES ASSUME Explained, Explained', [VerdictNext]_verdictVars, base' = base
               PROVE  /\ check.report = "failure" => check'.report = "failure"
                      /\ check.ledger = "failure" /\ (evidence' = evidence \/ UsdCost >= measured) =>
                           check'.ledger = "failure"
    OBVIOUS
  <2>1. VerdictInv /\ VerdictInv' /\ Forward
    BY VerdictStep DEF Explained
  <2>2. /\ readableConfig(base)' = readableConfig(base)
        /\ \A key : IsSet(key)' = IsSet(key) /\ Limit(key)' = Limit(key)
        /\ WarnOnlyEnded => WarnOnlyEnded'
        /\ Outside => Outside'
        /\ \A key \in Keys : IsSet(key) /\ Beyond(key) => Beyond(key)'
    BY <2>1, ReasonsStand
  <2>3. ReportFails => ReportFails'
    BY <2>2 DEF ReportFails
  <2>4. ASSUME LedgerFails, evidence' = evidence \/ UsdCost >= measured PROVE LedgerFails'
    <3>1. CASE Outside
      BY <2>2, <2>4, <3>1 DEF LedgerFails
    <3>2. CASE IsSet("pr_budget_usd") /\ Most > Limit("pr_budget_usd")
      <4> DEFINE u == UsdCost
                 v == UsdCost'
                 n == Limit("pr_budget_usd")
      <4>1. u \in Nat /\ v \in Nat /\ u <= v /\ measured \in Nat /\ measured' \in Nat /\ measured' >= measured
        BY <2>1, CostGrows DEF VerdictInv, Forward
      <4>2. n \in Nat
        BY <2>1, <3>2, AmountTypes DEF IsSet
      <4>3. Most = IF evidence = "gateway_measured" /\ measured > u THEN measured ELSE u
        BY DEF Most
      <4>4. Most' = IF evidence' = "gateway_measured" /\ measured' > v THEN measured' ELSE v
        BY DEF Most
      <4>5. Most > n /\ (evidence' = evidence \/ u >= measured)
        BY <2>4, <3>2
      <4> HIDE DEF u, v, n
      <4>6. Most' > n
        BY <4>1, <4>2, <4>3, <4>4, <4>5
      <4>7. IsSet("pr_budget_usd")' /\ Limit("pr_budget_usd")' = n
        BY <2>2, <3>2 DEF n
      <4> QED BY <2>2, <2>4, <4>6, <4>7 DEF LedgerFails
    <3> QED BY <2>4, <3>1, <3>2 DEF LedgerFails
  <2> QED BY <2>3, <2>4 DEF Explained
<1>2. VerdictSpec => []Explained
  BY SpecExplained
<1> QED BY <1>1, <1>2, PTL DEF VerdictSpec, FailureStands

-----------------------------------------------------------------------------
(* Reconcile. A comparison reads nothing of the state but its source.      *)

(* A comparison of the same rows and lines is the same in the next state. *)
LEMMA CompareStable ==
  ASSUME source' = source, NEW CONSTANT m, NEW CONSTANT t
  PROVE  compareTokens(m, t)' = compareTokens(m, t)
BY DEF compareTokens, Total, joined, MapThenSumSet, MapThenFoldSet

(* So is the walk from the ledger's cost to the bill. *)
LEMMA DollarsStable ==
  ASSUME source' = source, NEW CONSTANT m, NEW CONSTANT t, NEW CONSTANT c, NEW CONSTANT k
  PROVE  dollars(m, t, c, k)' = dollars(m, t, c, k)
BY DEF dollars, price, Total, tiered, served, MapThenSumSet, MapThenFoldSet

-----------------------------------------------------------------------------
(* Flattened sequences.                                                    *)

(* g flattens the first n sequences of seqs. *)
Flattens(seqs, n, g) ==
  g = [i \in 1 .. n |-> IF i = 1 THEN seqs[i] ELSE g[i - 1] \o seqs[i]]

(* What the flattening of the first i holds. *)
Gathered(seqs, i) == UNION {Range(seqs[j]) : j \in 1 .. i}

(* A concatenation holds what its parts hold. *)
LEMMA RangeOfJoin ==
  ASSUME NEW T, NEW s \in Seq(T), NEW t \in Seq(T)
  PROVE  s \o t \in Seq(T) /\ Range(s \o t) = Range(s) \cup Range(t)
<1>1. s \o t \in Seq(T) /\ Len(s \o t) = Len(s) + Len(t) /\ Len(s) \in Nat /\ Len(t) \in Nat
  OBVIOUS
<1>2. \A i \in 1 .. Len(s) : (s \o t)[i] = s[i]
  OBVIOUS
<1>3. \A i \in 1 .. Len(t) : (s \o t)[Len(s) + i] = t[i]
  OBVIOUS
<1>4. ASSUME NEW x \in Range(s \o t) PROVE x \in Range(s) \cup Range(t)
  <2>1. PICK i \in 1 .. Len(s) + Len(t) : x = (s \o t)[i]
    BY <1>1, <1>4 DEF Range
  <2>2. CASE i <= Len(s)
    BY <1>2, <2>1, <2>2 DEF Range
  <2>3. CASE i > Len(s)
    <3>1. i - Len(s) \in 1 .. Len(t) /\ i = Len(s) + (i - Len(s))
      BY <1>1, <2>1, <2>3
    <3> QED BY <1>3, <2>1, <3>1 DEF Range
  <2> QED BY <1>1, <2>1, <2>2, <2>3
<1>5. ASSUME NEW x \in Range(s) PROVE x \in Range(s \o t)
  <2>1. PICK i \in 1 .. Len(s) : x = s[i]
    BY <1>5 DEF Range
  <2>2. i \in 1 .. Len(s) + Len(t)
    BY <1>1, <2>1
  <2> QED BY <1>1, <1>2, <2>1, <2>2 DEF Range
<1>6. ASSUME NEW x \in Range(t) PROVE x \in Range(s \o t)
  <2>1. PICK i \in 1 .. Len(t) : x = t[i]
    BY <1>6 DEF Range
  <2>2. Len(s) + i \in 1 .. Len(s) + Len(t)
    BY <1>1, <2>1
  <2>3. Len(s) + i \in DOMAIN (s \o t)
    BY <1>1, <2>2
  <2>4. (s \o t)[Len(s) + i] = x
    BY <1>3, <2>1
  <2> QED BY <2>3, <2>4 DEF Range
<1> QED BY <1>1, <1>4, <1>5, <1>6

(* A flattening of the first n exists. *)
LEMMA FlatteningExists ==
  ASSUME NEW seqs, NEW n \in Nat
  PROVE  \E g : Flattens(seqs, n, g)
<1> DEFINE Bad == {m \in Nat : ~\E g : Flattens(seqs, m, g)}
<1> SUFFICES ASSUME Bad # {} PROVE FALSE
  OBVIOUS
<1>1. PICK m \in Bad : \A k \in Bad : m <= k
  BY LeastNumber
<1>2. m # 0
  <2> DEFINE e == [i \in 1 .. 0 |-> IF i = 1 THEN seqs[i] ELSE seqs[i]]
  <2>1. Flattens(seqs, 0, e)
    BY DEF Flattens
  <2> QED BY <1>1, <2>1
<1>3. m - 1 \in Nat /\ m - 1 \notin Bad
  BY <1>1, <1>2
<1>4. PICK g : Flattens(seqs, m - 1, g)
  BY <1>3
<1> DEFINE h == [i \in 1 .. m |-> IF i = 1 THEN seqs[i] ELSE g[i - 1] \o seqs[i]]
<1>5. \A i \in 1 .. m - 1 : h[i] = g[i]
  <2>1. \A i \in 1 .. m - 1 : g[i] = IF i = 1 THEN seqs[i] ELSE g[i - 1] \o seqs[i]
    BY <1>4 DEF Flattens
  <2> QED BY <1>3, <2>1
<1>6. \A i \in 1 .. m : i # 1 => i - 1 \in 1 .. m - 1
  BY <1>3
<1>7. Flattens(seqs, m, h)
  BY <1>5, <1>6 DEF Flattens
<1> QED BY <1>1, <1>7

(* A flattened sequence holds what its sequences hold. *)
LEMMA FlattenHolds ==
  ASSUME NEW T, NEW seqs \in Seq(Seq(T))
  PROVE  FlattenSeq(seqs) \in Seq(T) /\ Range(FlattenSeq(seqs)) = UNION {Range(seqs[i]) : i \in DOMAIN seqs}
<1>1. CASE Len(seqs) = 0
  <2>1. FlattenSeq(seqs) = seqs /\ seqs = <<>>
    BY <1>1 DEF FlattenSeq
  <2> QED BY <2>1 DEF Range
<1>2. CASE Len(seqs) # 0
  <2> DEFINE n == Len(seqs)
             g == CHOOSE it : it = [i \in 1 .. n |-> IF i = 1 THEN seqs[i] ELSE it[i - 1] \o seqs[i]]
  <2>1. FlattenSeq(seqs) = g[n]
    BY <1>2 DEF FlattenSeq
  <2>2. n \in Nat /\ n >= 1 /\ DOMAIN seqs = 1 .. n
    BY <1>2
  <2>3. Flattens(seqs, n, g)
    <3>1. \E it : Flattens(seqs, n, it)
      BY <2>2, FlatteningExists
    <3> QED BY <3>1 DEF Flattens
  <2>4. \A i \in 1 .. n : g[i] = IF i = 1 THEN seqs[i] ELSE g[i - 1] \o seqs[i]
    <3> HIDE DEF g
    <3> QED BY <2>3 DEF Flattens
  <2> HIDE DEF g
  <2> DEFINE Bad == {i \in 1 .. n : ~(g[i] \in Seq(T) /\ Range(g[i]) = Gathered(seqs, i))}
  <2>5. Bad = {}
    <3> SUFFICES ASSUME Bad # {} PROVE FALSE
      OBVIOUS
    <3>1. PICK i \in Bad : \A k \in Bad : i <= k
      <4>1. Bad \subseteq Nat
        OBVIOUS
      <4> HIDE DEF Bad
      <4> QED BY <4>1, LeastNumber
    <3>2. seqs[i] \in Seq(T) /\ i \in 1 .. n
      BY <2>2, <3>1
    <3>3. CASE i = 1
      <4>1. g[i] = seqs[i]
        BY <2>4, <3>2, <3>3
      <4>2. Gathered(seqs, i) = Range(seqs[i])
        BY <3>3 DEF Gathered
      <4> QED BY <3>1, <3>2, <4>1, <4>2
    <3>4. CASE i # 1
      <4>1. i - 1 \in 1 .. n /\ i - 1 \notin Bad
        BY <2>2, <3>1, <3>2, <3>4
      <4>2. g[i - 1] \in Seq(T) /\ Range(g[i - 1]) = Gathered(seqs, i - 1)
        BY <4>1
      <4>3. g[i] = g[i - 1] \o seqs[i]
        BY <2>4, <3>2, <3>4
      <4>4. g[i] \in Seq(T) /\ Range(g[i]) = Range(g[i - 1]) \cup Range(seqs[i])
        BY <3>2, <4>2, <4>3, RangeOfJoin
      <4>5. \A j : j \in 1 .. i <=> (j \in 1 .. i - 1 \/ j = i)
        BY <3>2, <4>1
      <4>6. Gathered(seqs, i) = Gathered(seqs, i - 1) \cup Range(seqs[i])
        <5>1. \A x : x \in Gathered(seqs, i) <=> \E j \in 1 .. i : x \in Range(seqs[j])
          BY DEF Gathered
        <5>2. \A x : x \in Gathered(seqs, i - 1) <=> \E j \in 1 .. i - 1 : x \in Range(seqs[j])
          BY DEF Gathered
        <5> QED BY <4>5, <5>1, <5>2
      <4> QED BY <3>1, <4>2, <4>4, <4>6
    <3> QED BY <3>3, <3>4
  <2>6. g[n] \in Seq(T) /\ Range(g[n]) = Gathered(seqs, n)
    BY <2>2, <2>5
  <2> QED BY <2>1, <2>2, <2>6 DEF Gathered
<1> QED BY <1>1, <1>2

(* The sequence of a finite set holds its elements. *)
LEMMA SequenceOfSet ==
  ASSUME NEW S, IsFiniteSet(S)
  PROVE  SetToSeq(S) \in Seq(S) /\ Range(SetToSeq(S)) = S
<1> DEFINE n == Cardinality(S)
           f == SetToSeq(S)
<1>1. n \in Nat /\ ExistsBijection(1 .. n, S)
  BY FS_CardinalityType
<1>2. PICK b : b \in Bijection(1 .. n, S)
  BY <1>1 DEF ExistsBijection
<1>3. b \in [1 .. n -> S] /\ IsInjective(b)
  BY <1>2 DEF Bijection, Injection, IsInjective
<1>4. f \in [1 .. n -> S] /\ IsInjective(f)
  <2>1. f = CHOOSE g \in [1 .. n -> S] : IsInjective(g)
    BY DEF SetToSeq
  <2> HIDE DEF f
  <2> QED BY <1>3, <2>1
<1> HIDE DEF f
<1>5. f \in Injection(1 .. n, S)
  BY <1>4 DEF Injection, IsInjective
<1>6. IsFiniteSet(1 .. n) /\ Cardinality(1 .. n) = n
  BY <1>1, FS_Interval
<1>7. f \in Surjection(1 .. n, S)
  BY <1>5, <1>6, FS_Injection
<1> QED BY <1>1, <1>4, <1>7 DEF Surjection, Range, f

-----------------------------------------------------------------------------
(* The pages of a report cover its days.                                   *)

(* The whole quotient is the one number that fits. *)
LEMMA Quotient ==
  ASSUME NEW x \in Nat, NEW n \in Nat \ {0}
  PROVE  /\ x \div n \in Nat
         /\ \A q \in Nat : x \div n = q <=> q * n <= x /\ x < q * n + n
<1> DEFINE d == x \div n
<1>1. d \in Int /\ n \in Nat /\ n > 0
  OBVIOUS
<1>2. n * d <= x /\ x < n * d + n
  OBVIOUS
<1> HIDE DEF d
<1>3. d >= 0
  <2> SUFFICES ASSUME d <= -1 PROVE FALSE
    BY <1>1
  <2>1. n * d <= -n
    BY <1>1
  <2> QED BY <1>1, <1>2, <2>1
<1>4. ASSUME NEW q \in Nat, d = q PROVE q * n <= x /\ x < q * n + n
  BY <1>1, <1>2, <1>4
<1>5. ASSUME NEW q \in Nat, q * n <= x, x < q * n + n PROVE d = q
  <2>1. CASE d >= q + 1
    <3>1. n * d >= n * (q + 1)
      BY <1>1, <1>2, <2>1
    <3> QED BY <1>1, <1>2, <1>5, <3>1
  <2>2. CASE d <= q - 1
    <3>1. n * d <= n * (q - 1)
      BY <1>1, <1>2, <2>2
    <3> QED BY <1>1, <1>2, <1>5, <3>1
  <2> QED BY <1>1, <1>2, <2>1, <2>2
<1> QED BY <1>1, <1>3, <1>4, <1>5 DEF d

(* The least number and the size of an interval. *)
LEMMA IntervalMin ==
  ASSUME NEW a \in Nat, NEW b \in Nat, a <= b
  PROVE  Min(a .. b) = a /\ Cardinality(a .. b) = b - a + 1
<1>1. Min(a .. b) = CHOOSE x \in a .. b : \A y \in a .. b : x <= y
  BY DEF Min
<1>2. a \in a .. b /\ \A y \in a .. b : a <= y
  OBVIOUS
<1>3. \A x \in a .. b : (\A y \in a .. b : x <= y) => x = a
  OBVIOUS
<1>4. Min(a .. b) = a
  BY <1>1, <1>2, <1>3
<1>5. Cardinality(a .. b) = b - a + 1
  BY FS_Interval
<1> QED BY <1>4, <1>5

(* An interval of numbers that is not empty. *)
Interval(span) == \E a, b \in Nat : a <= b /\ span = a .. b

PageOf(kind, grain, span, d) == [kind |-> kind, grain |-> grain, span |-> span, day |-> d]

(* A span has a page for each of its days. *)
LEMMA PagesOfSpan ==
  ASSUME NEW kind, NEW grain, NEW span, Interval(span),
         NEW T, \A d \in span : PageOf(kind, grain, span, d) \in T
  PROVE  /\ pagesOf(kind, grain, span) \in Seq(T)
         /\ Range(pagesOf(kind, grain, span)) = {PageOf(kind, grain, span, d) : d \in span}
<1>1. PICK a \in Nat, b \in Nat : a <= b /\ span = a .. b
  BY DEF Interval
<1>2. Min(span) = a /\ Cardinality(span) = b - a + 1
  BY <1>1, IntervalMin
<1> DEFINE n == b - a + 1
           s == pagesOf(kind, grain, span)
<1>3. s = [i \in 1 .. n |-> PageOf(kind, grain, span, a + i - 1)]
  BY <1>2 DEF pagesOf, PageOf
<1>4. n \in Nat
  BY <1>1
<1>5. \A i \in 1 .. n : a + i - 1 \in span
  BY <1>1
<1>6. \A d \in span : d - a + 1 \in 1 .. n /\ a + (d - a + 1) - 1 = d
  BY <1>1
<1> HIDE DEF s, n
<1>7. s \in Seq(T) /\ DOMAIN s = 1 .. n
  BY <1>3, <1>4, <1>5
<1>8. \A i \in 1 .. n : s[i] = PageOf(kind, grain, span, a + i - 1)
  BY <1>3
<1>9. Range(s) = {PageOf(kind, grain, span, d) : d \in span}
  <2>1. ASSUME NEW i \in 1 .. n PROVE s[i] \in {PageOf(kind, grain, span, d) : d \in span}
    BY <1>5, <1>8
  <2>2. ASSUME NEW d \in span PROVE \E i \in 1 .. n : s[i] = PageOf(kind, grain, span, d)
    <3>1. d - a + 1 \in 1 .. n /\ s[d - a + 1] = PageOf(kind, grain, span, a + (d - a + 1) - 1)
      BY <1>6, <1>8
    <3> QED BY <1>6, <3>1
  <2> QED BY <1>7, <2>1, <2>2 DEF Range
<1> QED BY <1>7, <1>9 DEF s

(* The windows of a range are intervals, and every day is in one. *)
LEMMA WindowsCover ==
  ASSUME NEW days, Interval(days), NEW n \in Nat \ {0}
  PROVE  /\ windows(days, n) \in Seq(SUBSET days)
         /\ \A i \in DOMAIN windows(days, n) : Interval(windows(days, n)[i])
         /\ \A d \in days : \E i \in DOMAIN windows(days, n) : d \in windows(days, n)[i]
<1>1. PICK a \in Nat, b \in Nat : a <= b /\ days = a .. b
  BY DEF Interval
<1>2. Min(days) = a /\ Cardinality(days) = b - a + 1
  BY <1>1, IntervalMin
<1> DEFINE w == windows(days, n)
           last == (b - a) \div n
           Of(i) == {d \in days : (d - a) \div n = i - 1}
<1>3. last \in Nat /\ last * n <= b - a
  <2>1. b - a \in Nat
    BY <1>1
  <2>2. last \in Nat /\ \A q \in Nat : last = q <=> q * n <= b - a /\ b - a < q * n + n
    BY <2>1, Quotient
  <2> QED BY <2>2
<1>4. w = [i \in 1 .. last + 1 |-> Of(i)]
  <2>1. (Cardinality(days) - 1) \div n = last
    <3>1. Cardinality(days) - 1 = b - a
      BY <1>1, <1>2
    <3> QED BY <3>1
  <2> QED BY <1>2, <2>1 DEF windows
<1> HIDE DEF w, last
<1>5. ASSUME NEW i \in 1 .. last + 1 PROVE Interval(Of(i))
  <2> DEFINE q == i - 1
             lo == a + q * n
             hi == IF a + q * n + n - 1 <= b THEN a + q * n + n - 1 ELSE b
  <2>1. q \in Nat /\ q <= last
    BY <1>3, <1>5
  <2> DEFINE p == q * n
  <2>2. p \in Nat /\ p <= last * n
    BY <1>3, <2>1
  <2>3. \A d \in days : (d - a) \div n = q <=> p <= d - a /\ d - a < p + n
    <3> TAKE d \in days
    <3>1. d - a \in Nat
      BY <1>1
    <3> QED BY <2>1, <3>1, Quotient
  <2> HIDE DEF p
  <2>4. lo \in Nat /\ hi \in Nat /\ lo <= hi /\ lo = a + p /\ hi <= b /\ hi <= lo + n - 1
    BY <1>1, <1>3, <2>2 DEF p
  <2>5. \A d \in Int : d \in lo .. hi <=> d \in days /\ p <= d - a /\ d - a < p + n
    BY <1>1, <2>2 DEF p
  <2>6. Of(i) = lo .. hi
    <3> HIDE DEF lo, hi
    <3>1. \A d : d \in Of(i) <=> d \in days /\ (d - a) \div n = q
      OBVIOUS
    <3>2. days \subseteq Int /\ lo .. hi \subseteq Int
      BY <1>1, <2>4
    <3> HIDE DEF Of
    <3> QED BY <2>3, <2>5, <3>1, <3>2
  <2> QED BY <2>4, <2>6 DEF Interval
<1>6. ASSUME NEW d \in days PROVE \E i \in 1 .. last + 1 : d \in Of(i)
  <2> DEFINE q == (d - a) \div n
  <2>1. d - a \in Nat /\ d - a <= b - a /\ b - a \in Nat
    BY <1>1
  <2>2. q \in Nat /\ q * n <= d - a
    <3>1. q \in Nat /\ \A x \in Nat : q = x <=> x * n <= d - a /\ d - a < x * n + n
      BY <2>1, Quotient
    <3> QED BY <3>1
  <2>3. q <= last
    <3>1. last \in Nat /\ b - a < last * n + n
      <4>1. \A x \in Nat : (b - a) \div n = x <=> x * n <= b - a /\ b - a < x * n + n
        BY <2>1, Quotient
      <4> QED BY <1>3, <4>1 DEF last
    <3> HIDE DEF q
    <3> SUFFICES ASSUME q >= last + 1 PROVE FALSE
      BY <2>2, <3>1
    <3>2. q * n >= (last + 1) * n
      BY <2>2, <3>1
    <3> QED BY <2>1, <2>2, <3>1, <3>2
  <2>4. q + 1 \in 1 .. last + 1 /\ (q + 1) - 1 = q
    BY <1>3, <2>2, <2>3
  <2>5. d \in Of(q + 1)
    BY <2>4
  <2> QED BY <2>4, <2>5
<1>7. w \in Seq(SUBSET days) /\ DOMAIN w = 1 .. last + 1
  <2>1. \A i \in 1 .. last + 1 : Of(i) \in SUBSET days
    OBVIOUS
  <2> HIDE DEF Of
  <2> QED BY <1>3, <1>4, <2>1
<1> HIDE DEF Of
<1> QED BY <1>4, <1>5, <1>6, <1>7 DEF w

Reports == {"usage", "cost"}
Grains(credentials) == {grainOf(c) : c \in credentials}

(* The pages of a report over these days, and that one is among them. *)
Pages(days, grains) ==
  {p \in [kind : Reports, grain : grains, span : SUBSET days, day : days] : p.day \in p.span}

HasPage(pages, kind, grain, d) ==
  \E p \in Range(pages) : p.kind = kind /\ p.grain = grain /\ p.day = d

(* The pages in s cover a span of the days by one grain. *)
Spanned(s, days, grains, grain, span) ==
  /\ s \in Seq(Pages(days, grains))
  /\ \A kind \in Reports, d \in span : HasPage(s, kind, grain, d)

(* Usage and cost of a span: both kinds of page for each day. *)
LEMMA SpanPages ==
  ASSUME NEW days, NEW grains, NEW grain \in grains, NEW span, span \subseteq days, Interval(span),
         NEW s, s = pagesOf("usage", grain, span) \o pagesOf("cost", grain, span)
  PROVE  Spanned(s, days, grains, grain, span)
<1> DEFINE T == Pages(days, grains)
           u == pagesOf("usage", grain, span)
           c == pagesOf("cost", grain, span)
<1>1. \A kind \in Reports, d \in span : PageOf(kind, grain, span, d) \in T
  BY DEF Pages, PageOf
<1>2. "usage" \in Reports /\ "cost" \in Reports
  BY DEF Reports
<1> HIDE DEF T
<1>3. u \in Seq(T) /\ Range(u) = {PageOf("usage", grain, span, d) : d \in span}
  BY <1>1, <1>2, PagesOfSpan
<1>4. c \in Seq(T) /\ Range(c) = {PageOf("cost", grain, span, d) : d \in span}
  BY <1>1, <1>2, PagesOfSpan
<1> HIDE DEF u, c
<1>5. u \o c \in Seq(T) /\ Range(u \o c) = Range(u) \cup Range(c)
  BY <1>3, <1>4, RangeOfJoin
<1>6. s = u \o c
  BY DEF u, c
<1>7. ASSUME NEW kind \in Reports, NEW d \in span PROVE HasPage(s, kind, grain, d)
  <2>1. PageOf(kind, grain, span, d) \in Range(s)
    BY <1>3, <1>4, <1>5, <1>6 DEF Reports
  <2> QED BY <2>1 DEF HasPage, PageOf
<1> QED BY <1>5, <1>6, <1>7 DEF T, Spanned

(* Both providers' reports by one grain cover the range. *)
LEMMA GrainPages ==
  ASSUME source \in {"anthropic", "openai"}, NEW days, Interval(days), NEW grains, NEW grain \in grains,
         NEW s, s = IF source = "anthropic" THEN anthropicFetch(days, grain) ELSE openAIFetch(days, grain)
  PROVE  /\ s \in Seq(Pages(days, grains))
         /\ \A kind \in Reports, d \in days : HasPage(s, kind, grain, d)
<1>1. CASE source # "anthropic"
  <2>1. s = pagesOf("usage", grain, days) \o pagesOf("cost", grain, days)
    BY <1>1 DEF openAIFetch
  <2> QED BY <2>1, SpanPages DEF Spanned
<1>2. CASE source = "anthropic"
  <2> DEFINE w == windows(days, MaxSpan)
             Of(i) == pagesOf("usage", grain, w[i]) \o pagesOf("cost", grain, w[i])
             seqs == [i \in DOMAIN w |-> Of(i)]
             T == Pages(days, grains)
  <2>1. s = FlattenSeq(seqs)
    BY <1>2 DEF anthropicFetch
  <2>2. /\ w \in Seq(SUBSET days)
        /\ \A i \in DOMAIN w : Interval(w[i])
        /\ \A d \in days : \E i \in DOMAIN w : d \in w[i]
    <3>1. MaxSpan \in Nat \ {0}
      BY ReconcileAssumption
    <3> QED BY <3>1, WindowsCover
  <2> HIDE DEF w
  <2>3. \A i \in DOMAIN w : w[i] \subseteq days
    BY <2>2
  <2>4. ASSUME NEW i \in DOMAIN w
        PROVE  Of(i) \in Seq(T) /\ \A kind \in Reports, d \in w[i] : HasPage(Of(i), kind, grain, d)
    <3> DEFINE span == w[i]
               o == pagesOf("usage", grain, span) \o pagesOf("cost", grain, span)
    <3>1. span \subseteq days /\ Interval(span)
      BY <2>2, <2>3
    <3> HIDE DEF span
    <3>2. o = pagesOf("usage", grain, span) \o pagesOf("cost", grain, span)
      OBVIOUS
    <3> HIDE DEF o
    <3>3. Spanned(o, days, grains, grain, span)
      BY <3>1, <3>2, SpanPages
    <3> QED BY <3>3 DEF span, o, Spanned
  <2> HIDE DEF Of, T
  <2>5. seqs \in Seq(Seq(T)) /\ DOMAIN seqs = DOMAIN w /\ \A i \in DOMAIN w : seqs[i] = Of(i)
    BY <2>2, <2>4
  <2> HIDE DEF seqs
  <2>6. s \in Seq(T) /\ Range(s) = UNION {Range(seqs[i]) : i \in DOMAIN seqs}
    BY <2>1, <2>5, FlattenHolds
  <2>7. ASSUME NEW kind \in Reports, NEW d \in days PROVE HasPage(s, kind, grain, d)
    <3>1. PICK i \in DOMAIN w : d \in w[i]
      BY <2>2
    <3>2. HasPage(seqs[i], kind, grain, d)
      BY <2>4, <2>5, <3>1
    <3>3. Range(seqs[i]) \subseteq Range(s)
      BY <2>5, <2>6
    <3> QED BY <3>2, <3>3 DEF HasPage
  <2> QED BY <2>6, <2>7 DEF T
<1> QED BY <1>1, <1>2

(* A pass sets out to read, of each kind and grain, a page for every day. *)
LEMMA FetchCovers ==
  ASSUME source \in {"anthropic", "openai"}, NEW days, Interval(days), NEW credentials
  PROVE  /\ Fetch(days, credentials) \in Seq(Pages(days, Grains(credentials)))
         /\ \A kind \in Reports, g \in Grains(credentials), d \in days :
              HasPage(Fetch(days, credentials), kind, g, d)
<1> DEFINE G == Grains(credentials)
           grains == SetToSeq(G)
           Of(g) == IF source = "anthropic" THEN anthropicFetch(days, g) ELSE openAIFetch(days, g)
           seqs == [i \in DOMAIN grains |-> Of(grains[i])]
           T == Pages(days, G)
           s == Fetch(days, credentials)
<1>1. s = FlattenSeq(seqs)
  BY DEF Fetch, Grains
<1>2. IsFiniteSet(G)
  <2>1. G \subseteq {"scope", "key"}
    BY DEF Grains, grainOf
  <2>2. IsFiniteSet({"scope"} \cup {"key"})
    BY FS_Singleton, FS_AddElement
  <2>3. G \in SUBSET ({"scope"} \cup {"key"})
    BY <2>1
  <2> QED BY <2>2, <2>3, FS_Subset
<1>3. grains \in Seq(G) /\ Range(grains) = G
  BY <1>2, SequenceOfSet
<1>4. ASSUME NEW g \in G PROVE Of(g) \in Seq(T) /\ \A kind \in Reports, d \in days : HasPage(Of(g), kind, g, d)
  <2> DEFINE o == Of(g)
  <2>1. o = IF source = "anthropic" THEN anthropicFetch(days, g) ELSE openAIFetch(days, g)
    OBVIOUS
  <2> HIDE DEF o, G
  <2>2. o \in Seq(Pages(days, G)) /\ \A kind \in Reports, d \in days : HasPage(o, kind, g, d)
    BY <1>4, <2>1, GrainPages
  <2> QED BY <2>2 DEF o
<1> HIDE DEF grains, Of, T, G, s
<1>5. seqs \in Seq(Seq(T)) /\ DOMAIN seqs = DOMAIN grains /\ \A i \in DOMAIN grains : seqs[i] = Of(grains[i])
  <2>1. \A i \in DOMAIN grains : Of(grains[i]) \in Seq(T)
    BY <1>3, <1>4
  <2>2. DOMAIN grains = 1 .. Len(grains) /\ Len(grains) \in Nat
    BY <1>3
  <2> QED BY <2>1, <2>2
<1> HIDE DEF seqs
<1>6. s \in Seq(T) /\ Range(s) = UNION {Range(seqs[i]) : i \in DOMAIN seqs}
  BY <1>1, <1>5, FlattenHolds
<1>7. ASSUME NEW kind \in Reports, NEW g \in G, NEW d \in days PROVE HasPage(s, kind, g, d)
  <2>1. PICK i \in DOMAIN grains : grains[i] = g
    BY <1>3 DEF Range
  <2>2. HasPage(seqs[i], kind, g, d)
    BY <1>4, <1>5, <2>1
  <2>3. Range(seqs[i]) \subseteq Range(s)
    BY <1>5, <1>6, <2>1
  <2> QED BY <2>2, <2>3 DEF HasPage
<1> QED BY <1>6, <1>7 DEF T, G, s

(* A sequence holds its head and what its tail holds. *)
LEMMA RangeOfTail ==
  ASSUME NEW T, NEW s \in Seq(T), s # <<>>
  PROVE  /\ Head(s) \in T /\ Tail(s) \in Seq(T) /\ Range(s) = {Head(s)} \cup Range(Tail(s))
<1>1. Len(s) \in Nat \ {0} /\ Head(s) = s[1] /\ Len(Tail(s)) = Len(s) - 1
  OBVIOUS
<1>2. \A i \in 1 .. Len(s) - 1 : Tail(s)[i] = s[i + 1]
  OBVIOUS
<1>3. Tail(s) \in Seq(T) /\ DOMAIN Tail(s) = 1 .. Len(s) - 1 /\ DOMAIN s = 1 .. Len(s)
  BY <1>1
<1>4. \A i \in 1 .. Len(s) : i = 1 \/ (i - 1 \in 1 .. Len(s) - 1 /\ s[i] = Tail(s)[i - 1])
  BY <1>1, <1>2
<1>5. \A i \in 1 .. Len(s) - 1 : i + 1 \in 1 .. Len(s)
  BY <1>1
<1>6. \A x : x \in Range(s) <=> \E i \in 1 .. Len(s) : s[i] = x
  BY <1>3 DEF Range
<1>7. \A x : x \in Range(Tail(s)) <=> \E i \in 1 .. Len(s) - 1 : Tail(s)[i] = x
  BY <1>3 DEF Range
<1>8. 1 \in 1 .. Len(s)
  BY <1>1
<1>9. \A x : x \in Range(s) <=> x = Head(s) \/ x \in Range(Tail(s))
  BY <1>1, <1>2, <1>4, <1>5, <1>6, <1>7, <1>8
<1>10. Head(s) \in T
  BY <1>1, <1>8
<1> QED BY <1>3, <1>9, <1>10

-----------------------------------------------------------------------------
(* The invariant of Reconcile: what provider and clock have promised, what *)
(* a pass holds of each day it has read, and that every row judged on a    *)
(* closed month is the one its day's requests and figures alone give.      *)

Closed == MonthEnd + RerunDays
Delay == IF source = "openai" THEN Lag ELSE 0

UsageLine(c, r, n) ==
  [credential |-> c, request |-> r, tokens |-> n, region |-> IF source = "anthropic" THEN r.region ELSE "global"]
CostLine(c, r) == IF source = "anthropic" THEN anthropicCost(c, r) ELSE openAICost(c, r)

(* What the provider and the clock have promised each other.               *)
Promised ==
  /\ source \in {"anthropic", "openai"} /\ now \in Nat /\ refreshed \in Nat /\ refreshed <= now
  /\ sent \subseteq Requests /\ reported \subseteq sent /\ restated \subseteq reported
  /\ \A r \in sent : r.day <= now
  /\ source = "anthropic" => \A r \in sent : r.day < refreshed => r \in reported
  /\ source = "openai" => \A r \in sent : now >= r.day + 1 + Lag => r \in reported
  /\ now >= Closed => \A r \in sent : r.day < MonthEnd /\ r.first # r.tokens => r \in restated

IsPass(p) ==
  /\ p = [step |-> "fetch", at |-> p.at, ledger |-> p.ledger, pages |-> p.pages,
          usage |-> p.usage, costs |-> p.costs, unsettled |-> p.unsettled]
  /\ p.at \in Nat /\ p.at <= now

(* The ledger's rows as they were when the pass began. *)
LedgerRead(p, days) ==
  /\ \A r \in p.ledger : r \in sent /\ inScope(r, days)
  /\ \A r \in sent : inScope(r, days) /\ r.day < p.at => r \in p.ledger
  /\ "" \notin Credentials(p.ledger)

PassGrains(p) == Grains(Credentials(p.ledger))

(* Every line is one of a request. *)
IsUsage(p, days, u, g, r) ==
  /\ r.day \in days /\ ~r.tool /\ named(g, r) # ""
  /\ \E n \in {r.tokens, r.first} : u = UsageLine(named(g, r), r, n) /\ (isFinal(p) => n = r.tokens)

IsCost(days, u, g, r) == r.day \in days /\ named(g, r) # "" /\ u = CostLine(named(g, r), r)

LinesSound(p, days) ==
  /\ \A u \in p.usage : \E g \in PassGrains(p), r \in sent : IsUsage(p, days, u, g, r)
  /\ \A u \in p.costs : \E g \in PassGrains(p), r \in sent : IsCost(days, u, g, r)

(* The request's lines of this kind, by this grain. *)
HasLine(p, kind, g, r) ==
  /\ kind = "usage" /\ ~r.tool =>
       \E n \in {r.tokens, r.first} : UsageLine(named(g, r), r, n) \in p.usage /\ (isFinal(p) => n = r.tokens)
  /\ kind = "cost" => CostLine(named(g, r), r) \in p.costs

(* What a day's page showed: of a settled day, every request. *)
Fetched(p, kind, g, d) ==
  /\ source = "anthropic" => d \in p.unsettled \/ refreshed >= d + 1
  /\ settled(p, d) => \A r \in sent : r.day = d /\ named(g, r) # "" => HasLine(p, kind, g, r)

Covered(p, days) ==
  \A kind \in Reports, g \in PassGrains(p), d \in days :
    HasPage(p.pages, kind, g, d) \/ Fetched(p, kind, g, d)

PassOf(p, days) ==
  /\ IsPass(p) /\ LedgerRead(p, days) /\ LinesSound(p, days) /\ Covered(p, days)
  /\ p.pages \in Seq(Pages(days, PassGrains(p)))

PassSound == pass = Idle \/ \E days \in Ranges : PassOf(pass, days)

(* The row of a day that nothing moves any more. *)
Named(key) == {r \in sent : r.day = key.day /\ named(grainOf(key.credential), r) = key.credential}
Mine(key) == {r \in sent : r.row # "none" /\ r.day = key.day /\ r.credential = key.credential}
Theirs(key) == {UsageLine(key.credential, r, r.tokens) : r \in {r \in Named(key) : ~r.tool}}
Costs(key) == {CostLine(key.credential, r) : r \in Named(key)}

RowOf(mine, theirs, costs) ==
  [state |-> IF \A t \in compareTokens(mine, theirs) : t.within THEN "matched" ELSE "tokens_miss",
   final |-> TRUE, tokens |-> compareTokens(mine, theirs),
   dollars |-> dollars(mine, theirs, costs, compareTokens(mine, theirs)),
   seen |-> {r \in {u.request : u \in costs} : r.tool \/ r \in {u.request : u \in theirs}}]

FinalRow(key) == RowOf(Mine(key), Theirs(key), Costs(key))

Judged(key) == stored[key].state # "pending"

StoredSound ==
  \A key \in DOMAIN stored :
    /\ key.day \in Nat /\ key.credential # ""
    /\ Judged(key) => stored[key].seen = Named(key)
    /\ Judged(key) => now >= key.day + 1 + Delay /\ (source = "anthropic" => refreshed >= key.day + 1)
    /\ stored[key].final => now >= Closed
    /\ Judged(key) /\ stored[key].final => stored[key] = FinalRow(key)

(* A pass knows at least what the pass before it knew. *)
PassFollows ==
  pass # Idle => \A key \in DOMAIN stored :
    /\ Judged(key) => settled(pass, key.day)
    /\ stored[key].final => isFinal(pass)

ReconcileInv == Promised /\ PassSound /\ StoredSound /\ PassFollows


-----------------------------------------------------------------------------
(* What no step takes back.                                                *)

Grows ==
  /\ source' = source /\ now \in Nat /\ now' \in Nat /\ now <= now' /\ refreshed \in Nat /\ refreshed' \in Nat /\ refreshed <= refreshed'
  /\ sent \subseteq sent' /\ \A r \in sent' \ sent : r.day = now

(* The figures of a day that is over stand. *)
LEMMA DayStands ==
  ASSUME Grows, NEW CONSTANT key, key.day < now
  PROVE  Named(key)' = Named(key) /\ Mine(key)' = Mine(key)
<1>1. source' = source /\ now \in Nat /\ sent \subseteq sent' /\ \A r \in sent' \ sent : r.day = now
  BY DEF Grows
<1>2. \A r \in sent' : r.day = key.day => r \in sent
  BY <1>1
<1>3. {r \in sent' : r.day = key.day /\ named(grainOf(key.credential), r) = key.credential}
        = {r \in sent : r.day = key.day /\ named(grainOf(key.credential), r) = key.credential}
  BY <1>1, <1>2
<1>4. {r \in sent' : r.row # "none" /\ r.day = key.day /\ r.credential = key.credential}
        = {r \in sent : r.row # "none" /\ r.day = key.day /\ r.credential = key.credential}
  BY <1>1, <1>2
<1> QED BY <1>3, <1>4 DEF Named, Mine

(* The row of a day that is over and closed stands. *)
LEMMA FinalRowStands ==
  ASSUME Grows, NEW CONSTANT key, key.day < now
  PROVE  FinalRow(key)' = FinalRow(key)
<1>1. source' = source
  BY DEF Grows
<1>2. Named(key)' = Named(key) /\ Mine(key)' = Mine(key)
  BY DayStands
<1>3. Theirs(key)' = Theirs(key)
  BY <1>1, <1>2 DEF Theirs, UsageLine
<1>4. Costs(key)' = Costs(key)
  BY <1>1, <1>2 DEF Costs, CostLine, anthropicCost, openAICost
<1>5. PICK m : m = Mine(key)
  OBVIOUS
<1>6. PICK t : t = Theirs(key)
  OBVIOUS
<1>7. PICK c : c = Costs(key)
  OBVIOUS
<1>8. PICK k : k = compareTokens(m, t)
  OBVIOUS
<1>9. compareTokens(m, t)' = k
  BY <1>1, <1>8, CompareStable
<1>10. dollars(m, t, c, k)' = dollars(m, t, c, k)
  BY <1>1, DollarsStable
<1>11. RowOf(m, t, c)' = RowOf(m, t, c)
  BY <1>8, <1>9, <1>10 DEF RowOf
<1>12. FinalRow(key) = RowOf(m, t, c)
  BY <1>5, <1>6, <1>7 DEF FinalRow
<1>13. FinalRow(key)' = RowOf(m, t, c)'
  BY <1>2, <1>3, <1>4, <1>5, <1>6, <1>7 DEF FinalRow
<1> QED BY <1>11, <1>12, <1>13

(* The constants of time, and what a range of days is. *)
LEMMA Calendar ==
  /\ MonthEnd \in Nat /\ RerunDays \in Nat /\ Lag \in Nat /\ MaxSpan \in Nat \ {0} /\ Closed \in Nat
  /\ \A days \in Ranges : Interval(days) /\ days \subseteq Nat /\ \A d \in days : d < MonthEnd
<1>1. MonthEnd \in Nat /\ RerunDays \in Nat /\ Lag \in Nat /\ MaxSpan \in Nat \ {0}
  BY ReconcileAssumption
<1>2. ASSUME NEW days \in Ranges
      PROVE  Interval(days) /\ days \subseteq Nat /\ \A d \in days : d < MonthEnd
  <2>1. PICK a \in 0 .. MonthEnd - 1, b \in 0 .. MonthEnd - 1 : a <= b /\ days = a .. b
    BY ReconcileAssumption
  <2> QED BY <1>1, <2>1 DEF Interval
<1> QED BY <1>1, <1>2 DEF Closed

(* Steps that leave the rows file alone keep what it says true. *)
LEMMA StoredStands ==
  ASSUME StoredSound, Grows, Delay \in Nat, stored' = stored
  PROVE  StoredSound'
<1>1. source' = source /\ now \in Nat /\ now' \in Nat /\ now <= now' /\ refreshed \in Nat
        /\ refreshed' \in Nat /\ refreshed <= refreshed'
  BY DEF Grows
<1>2. Delay' = Delay /\ Closed' = Closed
  BY <1>1 DEF Delay, Closed
<1>3. Closed \in Nat
  BY Calendar
<1> SUFFICES ASSUME NEW CONSTANT key \in DOMAIN stored
             PROVE  /\ key.day \in Nat /\ key.credential # ""
                    /\ Judged(key) => stored[key].seen = Named(key)'
                    /\ Judged(key) => now' >= key.day + 1 + Delay /\ (source = "anthropic" => refreshed' >= key.day + 1)
                    /\ stored[key].final => now' >= Closed
                    /\ Judged(key) /\ stored[key].final => stored[key] = FinalRow(key)'
  BY <1>1, <1>2 DEF StoredSound, Judged
<1>4. /\ key.day \in Nat
      /\ Judged(key) => now >= key.day + 1 + Delay /\ (source = "anthropic" => refreshed >= key.day + 1)
      /\ stored[key].final => now >= Closed
      /\ Judged(key) /\ stored[key].final => stored[key] = FinalRow(key)
  BY DEF StoredSound
<1>5. key.day < now => FinalRow(key)' = FinalRow(key) /\ Named(key)' = Named(key)
  BY FinalRowStands, DayStands
<1>6. Judged(key) => key.day < now
  BY <1>1, <1>4
<1>7. Judged(key) => now' >= key.day + 1 + Delay
  BY <1>1, <1>4
<1>8. Judged(key) /\ source = "anthropic" => refreshed' >= key.day + 1
  BY <1>1, <1>4
<1>9. stored[key].final => now' >= Closed
  BY <1>1, <1>3, <1>4
<1>10. key.credential # "" /\ (Judged(key) => stored[key].seen = Named(key))
  BY DEF StoredSound
<1> QED BY <1>4, <1>5, <1>6, <1>7, <1>8, <1>9, <1>10

(* Steps that leave a pass alone keep what it has read true. *)
LEMMA PassOfStands ==
  ASSUME NEW CONSTANT p, NEW CONSTANT days \in Ranges, PassOf(p, days), Grows
  PROVE  PassOf(p, days)'
<1>2. days \subseteq Nat
  BY Calendar
<1>3. source' = source /\ now \in Nat /\ now' \in Nat /\ now <= now' /\ refreshed \in Nat /\ refreshed' \in Nat
        /\ refreshed <= refreshed' /\ sent \subseteq sent' /\ \A r \in sent' \ sent : r.day = now
  BY DEF Grows
<1>4. IsPass(p)'
  BY <1>3 DEF PassOf, IsPass
<1>5. p.at \in Nat /\ p.at <= now
  BY DEF PassOf, IsPass
<1>6. LedgerRead(p, days)'
  <2>1. \A r \in sent' : r.day < p.at => r \in sent
    BY <1>3, <1>5
  <2> QED BY <1>3, <2>1 DEF PassOf, LedgerRead
<1>7. LinesSound(p, days)'
  <2>1. PassGrains(p)' = PassGrains(p)
    BY DEF PassGrains
  <2>2. ASSUME NEW CONSTANT u, NEW CONSTANT g, NEW CONSTANT r, IsUsage(p, days, u, g, r)
        PROVE  IsUsage(p, days, u, g, r)'
    BY <1>3, <2>2 DEF IsUsage, UsageLine, isFinal
  <2>3. ASSUME NEW CONSTANT u, NEW CONSTANT g, NEW CONSTANT r, IsCost(days, u, g, r)
        PROVE  IsCost(days, u, g, r)'
    BY <1>3, <2>3 DEF IsCost, CostLine, anthropicCost, openAICost
  <2>4. LinesSound(p, days)
    BY DEF PassOf
  <2> QED BY <1>3, <2>1, <2>2, <2>3, <2>4 DEF LinesSound
<1>8. ASSUME NEW kind \in Reports, NEW g \in PassGrains(p), NEW d \in days, Fetched(p, kind, g, d)
      PROVE  Fetched(p, kind, g, d)'
  <2>1. source = "anthropic" => d \in p.unsettled \/ refreshed' >= d + 1
    <3>1. source = "anthropic" => d \in p.unsettled \/ refreshed >= d + 1
      BY <1>8 DEF Fetched
    <3>2. d \in Nat
      BY <1>2
    <3> QED BY <1>3, <3>1, <3>2
  <2>2. settled(p, d)' = settled(p, d)
    BY <1>3 DEF settled
  <2>3. settled(p, d) => d < now
    <3>1. Lag \in Nat /\ d \in Nat
      BY <1>2, Calendar
    <3> QED BY <1>3, <1>5, <3>1 DEF settled
  <2>4. settled(p, d) => \A r \in sent' : r.day = d => r \in sent
    BY <1>3, <2>3
  <2>5. \A r : HasLine(p, kind, g, r)' = HasLine(p, kind, g, r)
    BY <1>3 DEF HasLine, UsageLine, CostLine, anthropicCost, openAICost, isFinal
  <2> QED BY <1>3, <1>8, <2>1, <2>2, <2>4, <2>5 DEF Fetched
<1>9. Covered(p, days)'
  <2>1. \A kind \in Reports, g \in PassGrains(p), d \in days :
          HasPage(p.pages, kind, g, d) \/ Fetched(p, kind, g, d)
    BY DEF PassOf, Covered
  <2>2. PassGrains(p)' = PassGrains(p)
    BY DEF PassGrains
  <2>3. \A kind, g, d : HasPage(p.pages, kind, g, d)' = HasPage(p.pages, kind, g, d)
    BY DEF HasPage
  <2> QED BY <1>8, <2>1, <2>2, <2>3 DEF Covered
<1>10. (p.pages \in Seq(Pages(days, PassGrains(p))))'
  BY DEF PassOf, PassGrains
<1> QED BY <1>4, <1>6, <1>7, <1>9, <1>10 DEF PassOf

(* The same of the running pass. *)
LEMMA PassStands ==
  ASSUME PassSound, Grows, pass' = pass
  PROVE  PassSound'
<1>1. CASE pass = Idle
  BY <1>1 DEF PassSound
<1>2. CASE pass # Idle
  <2>1. PICK days \in Ranges : PassOf(pass, days)
    BY <1>2 DEF PassSound
  <2>2. PICK p : p = pass
    OBVIOUS
  <2>3. PassOf(p, days)
    BY <2>1, <2>2
  <2>4. PassOf(p, days)'
    BY <2>3, PassOfStands
  <2> QED BY <2>2, <2>4 DEF PassSound
<1> QED BY <1>1, <1>2

-----------------------------------------------------------------------------
(* What a pass compares in the end.                                        *)

(* The fields of a usage line. *)
LEMMA UsageFields ==
  ASSUME NEW c, NEW r, NEW n
  PROVE  UsageLine(c, r, n).credential = c /\ UsageLine(c, r, n).request = r /\ UsageLine(c, r, n).tokens = n
BY DEF UsageLine

(* The fields of a cost line. *)
LEMMA CostFields ==
  ASSUME NEW c, NEW r
  PROVE  CostLine(c, r).credential = c /\ CostLine(c, r).request = r
BY DEF CostLine, anthropicCost, openAICost

(* Whose a usage line is. *)
LEMMA UsageIs ==
  ASSUME NEW p, NEW days, NEW u, NEW g, NEW r, IsUsage(p, days, u, g, r)
  PROVE  /\ r.day \in days /\ ~r.tool /\ named(g, r) # ""
         /\ u.credential = named(g, r) /\ u.request = r
<1>1. r.day \in days /\ ~r.tool /\ named(g, r) # ""
  BY DEF IsUsage
<1>2. PICK n \in {r.tokens, r.first} : u = UsageLine(named(g, r), r, n) /\ (isFinal(p) => n = r.tokens)
  BY DEF IsUsage
<1>3. u.credential = named(g, r) /\ u.request = r
  BY <1>2, UsageFields
<1> QED BY <1>1, <1>2, <1>3

(* Whose a cost line is. *)
LEMMA CostIs ==
  ASSUME NEW days, NEW u, NEW g, NEW r, IsCost(days, u, g, r)
  PROVE  /\ r.day \in days /\ named(g, r) # "" /\ u = CostLine(named(g, r), r)
         /\ u.credential = named(g, r) /\ u.request = r
<1>1. r.day \in days /\ named(g, r) # "" /\ u = CostLine(named(g, r), r)
  BY DEF IsCost
<1> QED BY <1>1, CostFields

(* Only a credential's own grain can name it. *)
LEMMA OwnGrain ==
  ASSUME sent \subseteq Requests, NEW r \in sent, NEW g \in {"scope", "key"}, NEW c,
         c # "", named(g, r) = c
  PROVE  g = grainOf(c)
<1>1. r.key \notin Scopes /\ r.scope \in Scopes \cup {""}
  BY ReconcileAssumption
<1> QED BY <1>1 DEF named, grainOf

(* A key of a pass is of a day of its range and of a credential it fetched. *)
LEMMA KeyOfPass ==
  ASSUME Promised, NEW days \in Ranges, PassOf(pass, days), NEW key \in keysOf(pass)
  PROVE  /\ key.day \in days /\ key.credential \in Credentials(pass.ledger) /\ key.credential # ""
         /\ grainOf(key.credential) \in PassGrains(pass)
<1>1. CASE \E r \in pass.ledger : key = [credential |-> r.credential, day |-> r.day]
  <2>1. PICK r \in pass.ledger : key = [credential |-> r.credential, day |-> r.day]
    BY <1>1
  <2>2. r.day \in days /\ "" \notin Credentials(pass.ledger)
    BY <2>1 DEF PassOf, LedgerRead, inScope
  <2>3. r.credential \in Credentials(pass.ledger)
    BY <2>1 DEF Credentials
  <2> QED BY <2>1, <2>2, <2>3 DEF PassGrains, Grains
<1>2. CASE \E u \in pass.usage \cup pass.costs :
             u.credential \in Credentials(pass.ledger) /\ key = [credential |-> u.credential, day |-> u.request.day]
  <2>1. PICK u \in pass.usage \cup pass.costs :
          u.credential \in Credentials(pass.ledger) /\ key = [credential |-> u.credential, day |-> u.request.day]
    BY <1>2
  <2>2. u.request.day \in days
    <3>1. LinesSound(pass, days)
      BY DEF PassOf
    <3>2. CASE u \in pass.usage
      <4>1. PICK g \in PassGrains(pass), r \in sent : IsUsage(pass, days, u, g, r)
        BY <3>1, <3>2 DEF LinesSound
      <4> QED BY <4>1, UsageIs
    <3>3. CASE u \in pass.costs
      <4>1. PICK g \in PassGrains(pass), r \in sent : IsCost(days, u, g, r)
        BY <3>1, <3>3 DEF LinesSound
      <4> QED BY <4>1, CostIs
    <3> QED BY <2>1, <3>2, <3>3
  <2> QED BY <2>1, <2>2 DEF PassOf, LedgerRead, PassGrains, Grains
<1> QED BY <1>1, <1>2 DEF keysOf

(* A pass that has read every page holds every line of a settled day. *)
LEMMA PassLines ==
  ASSUME Promised, NEW days \in Ranges, PassOf(pass, days), pass.pages = <<>>,
         NEW key \in keysOf(pass), settled(pass, key.day)
  PROVE  LET g == grainOf(key.credential) IN
         /\ key.credential # "" /\ g \in {"scope", "key"} /\ PassGrains(pass) \subseteq {"scope", "key"}
         /\ sent \subseteq Requests /\ LinesSound(pass, days)
         /\ groupOf(pass.ledger, key) = Mine(key)
         /\ \A kind \in Reports : \A r \in sent : r.day = key.day /\ named(g, r) # "" => HasLine(pass, kind, g, r)
<1> DEFINE g == grainOf(key.credential)
<1>1. /\ key.day \in days /\ key.credential \in Credentials(pass.ledger) /\ key.credential # ""
      /\ g \in PassGrains(pass) /\ g \in {"scope", "key"}
  BY KeyOfPass DEF grainOf
<1>2. PassGrains(pass) \subseteq {"scope", "key"}
  BY DEF PassGrains, Grains, grainOf
<1>3. sent \subseteq Requests
  BY DEF Promised
<1>4. LedgerRead(pass, days) /\ LinesSound(pass, days) /\ Covered(pass, days) /\ pass.at \in Nat
  BY DEF PassOf, IsPass
<1>5. key.day \in Nat /\ key.day < pass.at
  <2>1. key.day \in Nat /\ Lag \in Nat
    BY <1>1, Calendar
  <2> QED BY <1>4, <2>1 DEF settled
<1>6. groupOf(pass.ledger, key) = Mine(key)
  BY <1>1, <1>4, <1>5 DEF groupOf, Mine, LedgerRead, inScope
<1>7. \A kind \in Reports : \A r \in sent : r.day = key.day /\ named(g, r) # "" => HasLine(pass, kind, g, r)
  <2> TAKE kind \in Reports
  <2>1. ~HasPage(pass.pages, kind, g, key.day)
    BY DEF HasPage, Range
  <2>2. Fetched(pass, kind, g, key.day)
    BY <1>1, <1>4, <2>1 DEF Covered
  <2> QED BY <2>2 DEF Fetched
<1> QED BY <1>1, <1>2, <1>3, <1>4, <1>6, <1>7

(* The row of a settled day saw every request of the credential that day. *)
LEMMA PassSeen ==
  ASSUME Promised, NEW days \in Ranges, PassOf(pass, days), pass.pages = <<>>,
         NEW key \in keysOf(pass), settled(pass, key.day)
  PROVE  Row(pass, key).seen = Named(key)
<1> DEFINE g == grainOf(key.credential)
           theirs == usageOf(pass.usage, key)
           costs == usageOf(pass.costs, key)
<1>1. /\ key.credential # "" /\ g \in {"scope", "key"} /\ PassGrains(pass) \subseteq {"scope", "key"}
      /\ sent \subseteq Requests /\ LinesSound(pass, days)
      /\ \A kind \in Reports : \A r \in sent : r.day = key.day /\ named(g, r) # "" => HasLine(pass, kind, g, r)
  BY PassLines
<1>2. ASSUME NEW r \in Named(key) PROVE r \in {u.request : u \in costs}
  <2>1. r \in sent /\ r.day = key.day /\ named(g, r) = key.credential
    BY <1>2 DEF Named
  <2>2. HasLine(pass, "cost", g, r)
    BY <1>1, <2>1 DEF Reports
  <2>3. CostLine(named(g, r), r) \in pass.costs
    BY <2>2 DEF HasLine
  <2>4. PICK u \in pass.costs : u.credential = key.credential /\ u.request = r
    BY <2>1, <2>3, CostFields
  <2> QED BY <2>1, <2>4 DEF usageOf
<1>3. ASSUME NEW r \in Named(key), ~r.tool PROVE r \in {u.request : u \in theirs}
  <2>1. r \in sent /\ r.day = key.day /\ named(g, r) = key.credential
    BY <1>3 DEF Named
  <2>2. HasLine(pass, "usage", g, r)
    BY <1>1, <2>1 DEF Reports
  <2>3. PICK n : UsageLine(named(g, r), r, n) \in pass.usage
    BY <1>3, <2>2 DEF HasLine
  <2>4. PICK u \in pass.usage : u.credential = key.credential /\ u.request = r
    BY <2>1, <2>3, UsageFields
  <2> QED BY <2>1, <2>4 DEF usageOf
<1>4. ASSUME NEW u \in costs PROVE u.request \in Named(key)
  <2>1. u \in pass.costs /\ u.credential = key.credential /\ u.request.day = key.day
    BY <1>4 DEF usageOf
  <2>2. PICK h \in PassGrains(pass), r \in sent : IsCost(days, u, h, r)
    BY <1>1, <2>1 DEF LinesSound
  <2>3. u.credential = named(h, r) /\ u.request = r
    BY <2>2, CostIs
  <2>4. named(h, r) = key.credential /\ r.day = key.day
    BY <2>1, <2>3
  <2>5. h = g
    BY <1>1, <2>2, <2>4, OwnGrain
  <2> QED BY <2>3, <2>4, <2>5 DEF Named
<1>5. Row(pass, key).seen = {r \in {u.request : u \in costs} : r.tool \/ r \in {u.request : u \in theirs}}
  BY DEF Row
<1> HIDE DEF theirs, costs
<1> QED BY <1>2, <1>3, <1>4, <1>5

(* In a closed month that row is the one nothing moves any more. *)
LEMMA PassRow ==
  ASSUME Promised, NEW days \in Ranges, PassOf(pass, days), pass.pages = <<>>,
         NEW key \in keysOf(pass), settled(pass, key.day), isFinal(pass)
  PROVE  Row(pass, key) = FinalRow(key)
<1> DEFINE g == grainOf(key.credential)
<1>1. /\ key.credential # "" /\ g \in {"scope", "key"} /\ PassGrains(pass) \subseteq {"scope", "key"}
      /\ sent \subseteq Requests /\ LinesSound(pass, days)
      /\ groupOf(pass.ledger, key) = Mine(key)
      /\ \A kind \in Reports : \A r \in sent : r.day = key.day /\ named(g, r) # "" => HasLine(pass, kind, g, r)
  BY PassLines
<1>2. usageOf(pass.usage, key) = Theirs(key)
  <2>1. ASSUME NEW u \in pass.usage, u.credential = key.credential, u.request.day = key.day
        PROVE  u \in Theirs(key)
    <3>1. PICK h \in PassGrains(pass), r \in sent : IsUsage(pass, days, u, h, r)
      BY <1>1 DEF LinesSound
    <3>2. named(h, r) = key.credential /\ r.day = key.day /\ ~r.tool
            /\ u = UsageLine(key.credential, r, r.tokens)
      <4>1. ~r.tool /\ u.credential = named(h, r) /\ u.request = r
        BY <3>1, UsageIs
      <4>2. named(h, r) = key.credential /\ r.day = key.day
        BY <2>1, <4>1
      <4>3. PICK n \in {r.tokens, r.first} : u = UsageLine(named(h, r), r, n) /\ (isFinal(pass) => n = r.tokens)
        BY <3>1 DEF IsUsage
      <4> QED BY <4>1, <4>2, <4>3
    <3>3. h = g
      BY <1>1, <3>2, OwnGrain
    <3> QED BY <3>2, <3>3 DEF Theirs, Named
  <2>2. ASSUME NEW u \in Theirs(key)
        PROVE  u \in pass.usage /\ u.credential = key.credential /\ u.request.day = key.day
    <3>1. PICK r \in sent : r.day = key.day /\ named(g, r) = key.credential /\ ~r.tool
                              /\ u = UsageLine(key.credential, r, r.tokens)
      BY <2>2 DEF Theirs, Named
    <3>2. HasLine(pass, "usage", g, r)
      BY <1>1, <3>1 DEF Reports
    <3>3. UsageLine(named(g, r), r, r.tokens) \in pass.usage
      BY <3>1, <3>2 DEF HasLine
    <3> QED BY <3>1, <3>3, UsageFields
  <2> QED BY <2>1, <2>2 DEF usageOf
<1>3. usageOf(pass.costs, key) = Costs(key)
  <2>1. ASSUME NEW u \in pass.costs, u.credential = key.credential, u.request.day = key.day
        PROVE  u \in Costs(key)
    <3>1. PICK h \in PassGrains(pass), r \in sent : IsCost(days, u, h, r)
      BY <1>1 DEF LinesSound
    <3>2. named(h, r) = key.credential /\ r.day = key.day /\ u = CostLine(key.credential, r)
      <4>1. u.credential = named(h, r) /\ u.request = r /\ u = CostLine(named(h, r), r)
        BY <3>1, CostIs
      <4>2. named(h, r) = key.credential /\ r.day = key.day
        BY <2>1, <4>1
      <4> QED BY <4>1, <4>2
    <3>3. h = g
      BY <1>1, <3>2, OwnGrain
    <3> QED BY <3>2, <3>3 DEF Costs, Named
  <2>2. ASSUME NEW u \in Costs(key)
        PROVE  u \in pass.costs /\ u.credential = key.credential /\ u.request.day = key.day
    <3>1. PICK r \in sent : r.day = key.day /\ named(g, r) = key.credential /\ u = CostLine(key.credential, r)
      BY <2>2 DEF Costs, Named
    <3>2. HasLine(pass, "cost", g, r)
      BY <1>1, <3>1 DEF Reports
    <3>3. CostLine(named(g, r), r) \in pass.costs
      BY <3>2 DEF HasLine
    <3> QED BY <3>1, <3>3, CostFields
  <2> QED BY <2>1, <2>2 DEF usageOf
<1>4. Row(pass, key) = RowOf(Mine(key), Theirs(key), Costs(key))
  BY <1>1, <1>2, <1>3 DEF Row, RowOf
<1> QED BY <1>4 DEF FinalRow

-----------------------------------------------------------------------------
(* The provider's steps and the clock.                                     *)

LEMMA DelayIsNat == Delay \in Nat
BY Calendar DEF Delay

(* A step of the provider or of the clock leaves the passes what they are. *)
Elsewhere == pass' = pass /\ stored' = stored /\ Promised' /\ Grows

(* A request sent today is of a day no pass has settled. *)
LEMMA SendIsElsewhere ==
  ASSUME Promised, NEW r \in Requests, Send(r)
  PROVE  Elsewhere
<1>1. /\ r.day = now /\ sent' = sent \cup {r} /\ source' = source /\ now' = now /\ reported' = reported
      /\ restated' = restated /\ refreshed' = refreshed /\ pass' = pass /\ stored' = stored
  BY DEF Send
<1>2. /\ source \in {"anthropic", "openai"} /\ now \in Nat /\ refreshed \in Nat /\ refreshed <= now
      /\ sent \subseteq Requests /\ reported \subseteq sent /\ restated \subseteq reported
      /\ \A q \in sent : q.day <= now
      /\ source = "anthropic" => \A q \in sent : q.day < refreshed => q \in reported
      /\ source = "openai" => \A q \in sent : now >= q.day + 1 + Lag => q \in reported
      /\ now >= Closed => \A q \in sent : q.day < MonthEnd /\ q.first # q.tokens => q \in restated
  BY DEF Promised
<1>3. Grows
  BY <1>1, <1>2 DEF Grows
<1>4. Lag \in Nat /\ MonthEnd \in Nat /\ RerunDays \in Nat /\ Closed = MonthEnd + RerunDays /\ Closed' = Closed
  BY Calendar DEF Closed
<1>5. ~(r.day < refreshed) /\ ~(now >= r.day + 1 + Lag) /\ ~(now >= Closed /\ r.day < MonthEnd)
  BY <1>1, <1>2, <1>4
<1>6. \A q \in sent' : q \in sent \/ q = r
  BY <1>1
<1>7. sent' \subseteq Requests /\ reported' \subseteq sent' /\ \A q \in sent' : q.day <= now'
  BY <1>1, <1>2, <1>6
<1>8. source' = "anthropic" => \A q \in sent' : q.day < refreshed' => q \in reported'
  BY <1>1, <1>2, <1>5, <1>6
<1>9. source' = "openai" => \A q \in sent' : now' >= q.day + 1 + Lag => q \in reported'
  BY <1>1, <1>2, <1>5, <1>6
<1>10. now' >= Closed => \A q \in sent' : q.day < MonthEnd /\ q.first # q.tokens => q \in restated'
  BY <1>1, <1>2, <1>5, <1>6
<1>11. Promised'
  BY <1>1, <1>2, <1>4, <1>7, <1>8, <1>9, <1>10 DEF Promised
<1> QED BY <1>1, <1>3, <1>11 DEF Elsewhere

(* The provider's counts and corrections. *)
LEMMA ReportIsElsewhere ==
  ASSUME Promised, NEW r \in Requests, Report(r) \/ Restate(r) \/ Refresh
  PROVE  Elsewhere
<1>1. CASE Report(r)
  BY <1>1 DEF Report, Elsewhere, Promised, Grows, Closed
<1>2. CASE Restate(r)
  BY <1>2 DEF Restate, Elsewhere, Promised, Grows, Closed
<1>3. CASE Refresh
  BY <1>3 DEF Refresh, Elsewhere, Promised, Grows, Closed
<1> QED BY <1>1, <1>2, <1>3

(* A day begins once the provider has kept its promises for it. *)
LEMMA TickIsElsewhere ==
  ASSUME Promised, Tick
  PROVE  Elsewhere
<1>1. /\ now' = now + 1 /\ source' = source /\ sent' = sent /\ reported' = reported
      /\ restated' = restated /\ refreshed' = refreshed /\ pass' = pass /\ stored' = stored
      /\ source = "openai" => \A q \in sent \ reported : now + 1 < q.day + 1 + Lag
      /\ now + 1 = Closed => \A q \in sent : q.first # q.tokens => q \in restated
  BY DEF Tick, Closed
<1>2. /\ source \in {"anthropic", "openai"} /\ now \in Nat /\ refreshed \in Nat /\ refreshed <= now
      /\ sent \subseteq Requests /\ reported \subseteq sent /\ restated \subseteq reported
      /\ \A q \in sent : q.day <= now
      /\ source = "anthropic" => \A q \in sent : q.day < refreshed => q \in reported
      /\ source = "openai" => \A q \in sent : now >= q.day + 1 + Lag => q \in reported
      /\ now >= Closed => \A q \in sent : q.day < MonthEnd /\ q.first # q.tokens => q \in restated
  BY DEF Promised
<1>3. Grows
  BY <1>1, <1>2 DEF Grows
<1>4. Lag \in Nat /\ Closed \in Nat /\ Closed' = Closed
  BY Calendar DEF Closed
<1>5. \A q \in sent : q.day \in Nat
  BY <1>2, ReconcileAssumption
<1>6. \A q \in sent' : q.day <= now'
  BY <1>1, <1>2, <1>5
<1>7. source' = "openai" => \A q \in sent' : now' >= q.day + 1 + Lag => q \in reported'
  BY <1>1, <1>2, <1>4, <1>5
<1>8. now' >= Closed => \A q \in sent' : q.day < MonthEnd /\ q.first # q.tokens => q \in restated'
  BY <1>1, <1>2, <1>4
<1>9. refreshed' <= now' /\ now' \in Nat
  BY <1>1, <1>2
<1>10. Promised'
  BY <1>1, <1>2, <1>4, <1>6, <1>7, <1>8, <1>9 DEF Promised
<1> QED BY <1>1, <1>3, <1>10 DEF Elsewhere

(* None of these steps disturbs the invariant. *)
LEMMA ElsewhereStep ==
  ASSUME ReconcileInv, Elsewhere
  PROVE  ReconcileInv' /\ \A key \in DOMAIN stored : stored'[key] = stored[key]
<1>1. Promised /\ PassSound /\ StoredSound /\ PassFollows
  BY DEF ReconcileInv
<1>2. pass' = pass /\ stored' = stored /\ Promised' /\ Grows
  BY DEF Elsewhere
<1>3. PassSound'
  BY <1>1, <1>2, PassStands
<1>4. StoredSound'
  BY <1>1, <1>2, StoredStands, DelayIsNat
<1>5. PassFollows'
  BY <1>1, <1>2 DEF PassFollows, Grows, Judged, settled, isFinal
<1> QED BY <1>2, <1>3, <1>4, <1>5 DEF ReconcileInv

-----------------------------------------------------------------------------
(* The steps of a pass.                                                    *)

(* Only the pass moves. *)
PassMoves ==
  /\ source' = source /\ now' = now /\ sent' = sent /\ reported' = reported /\ restated' = restated
  /\ refreshed' = refreshed

(* A step of the pass leaves the provider and the clock alone. *)
LEMMA PassMovesGrows ==
  ASSUME Promised, PassMoves
  PROVE  Promised' /\ Grows
<1>1. Promised'
  BY DEF Promised, PassMoves, Closed
<1>2. Grows
  BY DEF Promised, PassMoves, Grows
<1> QED BY <1>1, <1>2

(* A pass begins with every page to read, and knows what the file knows. *)
LEMMA StartStep ==
  ASSUME ReconcileInv, NEW days \in Ranges, Start(days)
  PROVE  ReconcileInv' /\ stored' = stored
<1>1. Promised /\ StoredSound
  BY DEF ReconcileInv
<1> DEFINE taken == ReadLedger(days)
           pages == Fetch(days, Credentials(taken))
<1>2. /\ PassMoves /\ stored' = stored /\ "" \notin Credentials(taken)
      /\ pass' = [step |-> "fetch", at |-> now, ledger |-> taken, pages |-> pages,
                  usage |-> {}, costs |-> {}, unsettled |-> {}]
  BY DEF Start, PassMoves
<1>3. Promised' /\ Grows /\ now \in Nat /\ source \in {"anthropic", "openai"}
  BY <1>1, <1>2, PassMovesGrows DEF Promised
<1>4. StoredSound'
  BY <1>1, <1>2, <1>3, StoredStands, DelayIsNat
<1>5. PICK p : p = pass'
  OBVIOUS
<1>6. /\ p.at = now /\ p.ledger = taken /\ p.pages = pages /\ p.usage = {} /\ p.costs = {} /\ p.unsettled = {}
      /\ p.step = "fetch" /\ p # Idle
      /\ p = [step |-> "fetch", at |-> p.at, ledger |-> p.ledger, pages |-> p.pages,
              usage |-> p.usage, costs |-> p.costs, unsettled |-> p.unsettled]
  <2> HIDE DEF taken, pages
  <2> QED BY <1>2, <1>5 DEF Idle
<1>7. IsPass(p)'
  <2>1. p.at \in Nat /\ p.at <= now'
    <3>1. now' = now
      BY <1>2 DEF PassMoves
    <3>2. p.at = now
      BY <1>6
    <3> QED BY <1>3, <3>1, <3>2
  <2>2. p = [step |-> "fetch", at |-> p.at, ledger |-> p.ledger, pages |-> p.pages,
             usage |-> p.usage, costs |-> p.costs, unsettled |-> p.unsettled]
    BY <1>6
  <2> QED BY <2>1, <2>2, Zenon DEF IsPass
<1>8. LedgerRead(p, days)'
  <2>1. \A r \in taken : r \in sent /\ inScope(r, days)
    BY DEF ReadLedger
  <2>2. \A r \in sent : inScope(r, days) => r \in taken
    BY DEF ReadLedger
  <2> HIDE DEF taken
  <2> QED BY <1>2, <1>6, <2>1, <2>2 DEF LedgerRead, PassMoves, inScope
<1>9. LinesSound(p, days)'
  BY <1>6 DEF LinesSound
<1>10. pages \in Seq(Pages(days, PassGrains(p)))
       /\ \A kind \in Reports, g \in PassGrains(p), d \in days : HasPage(pages, kind, g, d)
  <2> HIDE DEF taken
  <2>1. Interval(days)
    BY Calendar
  <2>2. PassGrains(p) = Grains(Credentials(taken))
    BY <1>6 DEF PassGrains
  <2> QED BY <1>3, <2>1, <2>2, FetchCovers
<1>11. Covered(p, days)'
  BY <1>6, <1>10 DEF Covered
<1>12. PassOf(p, days)'
  BY <1>6, <1>7, <1>8, <1>9, <1>10, <1>11 DEF PassOf
<1>13. PassSound'
  BY <1>5, <1>12 DEF PassSound
<1>14. PassFollows'
  <2> SUFFICES ASSUME NEW CONSTANT key \in DOMAIN stored
               PROVE  /\ Judged(key) => settled(p, key.day)'
                      /\ stored[key].final => isFinal(p)
    BY <1>2, <1>5 DEF PassFollows, Judged, isFinal
  <2>1. /\ key.day \in Nat
        /\ Judged(key) => now >= key.day + 1 + Delay
        /\ stored[key].final => now >= Closed
    BY <1>1 DEF StoredSound
  <2> QED BY <1>2, <1>6, <2>1 DEF settled, isFinal, Delay, Closed, PassMoves
<1> QED BY <1>2, <1>3, <1>4, <1>13, <1>14 DEF ReconcileInv

(* A failed pass leaves the file as it was. *)
LEMMA FailStep ==
  ASSUME ReconcileInv, Fail
  PROVE  ReconcileInv' /\ stored' = stored
<1>1. Promised /\ StoredSound
  BY DEF ReconcileInv
<1>2. PassMoves /\ stored' = stored /\ pass' = Idle
  BY DEF Fail, PassMoves
<1>3. Promised' /\ Grows
  BY <1>1, <1>2, PassMovesGrows
<1>4. StoredSound'
  BY <1>1, <1>2, <1>3, StoredStands, DelayIsNat
<1>5. PassSound' /\ PassFollows'
  BY <1>2 DEF PassSound, PassFollows
<1> QED BY <1>2, <1>3, <1>4, <1>5 DEF ReconcileInv

(* The lines of a page, as the pass holds them. *)
LEMMA PageLines ==
  ASSUME Promised, NEW days \in Ranges, NEW p, p.at <= now, p.at \in Nat,
         NEW G, NEW page \in Pages(days, G)
  PROVE  /\ page.kind = "usage" => \A u \in lines(page) : \E r \in sent : IsUsage(p, days, u, page.grain, r)
         /\ page.kind = "cost" => \A u \in lines(page) : \E r \in sent : IsCost(days, u, page.grain, r)
         /\ \A r \in reported : r.day = page.day /\ named(page.grain, r) # "" =>
              /\ page.kind = "usage" /\ ~r.tool =>
                   \E n \in {r.tokens, r.first} :
                     UsageLine(named(page.grain, r), r, n) \in lines(page) /\ (isFinal(p) => n = r.tokens)
              /\ page.kind = "cost" => CostLine(named(page.grain, r), r) \in lines(page)
<1> DEFINE g == page.grain
<1>1. page.kind \in {"usage", "cost"} /\ page.day \in days
  BY DEF Pages, Reports
<1>2. /\ reported \subseteq sent
      /\ now >= Closed => \A q \in sent : q.day < MonthEnd /\ q.first # q.tokens => q \in restated
      /\ now \in Nat
  BY DEF Promised
<1>3. \A d \in days : d < MonthEnd
  BY Calendar
<1>4. \A r : figure(r) \in {r.tokens, r.first}
  BY DEF figure
<1>5. isFinal(p) => now >= Closed
  BY <1>2, Calendar DEF isFinal, Closed
<1>6. \A r \in sent : r.day \in days /\ isFinal(p) => figure(r) = r.tokens
  BY <1>2, <1>3, <1>5 DEF figure
<1>7. \A r, c : line("usage", c, r) = UsageLine(c, r, figure(r))
  BY DEF line, UsageLine, anthropicUsage, openAIUsage
<1>8. \A r, c : line("cost", c, r) = CostLine(c, r)
  BY DEF line, CostLine
<1>9. lines(page) = {line(page.kind, named(g, r), r) :
                       r \in {r \in reported : /\ r.day = page.day /\ named(g, r) # ""
                                               /\ r.tool => page.kind = "cost"}}
  BY DEF lines
<1>10. ASSUME page.kind = "usage", NEW u \in lines(page)
       PROVE  \E r \in sent : IsUsage(p, days, u, g, r)
  <2>1. PICK r \in reported : /\ r.day = page.day /\ named(g, r) # "" /\ ~r.tool
                              /\ u = line("usage", named(g, r), r)
    BY <1>9, <1>10
  <2>2. u = UsageLine(named(g, r), r, figure(r)) /\ r \in sent /\ r.day \in days
    BY <1>1, <1>2, <1>7, <2>1
  <2>3. figure(r) \in {r.tokens, r.first} /\ (isFinal(p) => figure(r) = r.tokens)
    BY <1>4, <1>6, <2>2
  <2> QED BY <2>1, <2>2, <2>3 DEF IsUsage
<1>11. ASSUME page.kind = "cost", NEW u \in lines(page)
       PROVE  \E r \in sent : IsCost(days, u, g, r)
  <2>1. PICK r \in reported : /\ r.day = page.day /\ named(g, r) # ""
                              /\ u = line("cost", named(g, r), r)
    BY <1>9, <1>11
  <2>2. u = CostLine(named(g, r), r) /\ r \in sent /\ r.day \in days
    BY <1>1, <1>2, <1>8, <2>1
  <2> QED BY <2>1, <2>2 DEF IsCost
<1>12. ASSUME NEW r \in reported, r.day = page.day, named(g, r) # "", page.kind = "usage", ~r.tool
       PROVE  \E n \in {r.tokens, r.first} :
                UsageLine(named(g, r), r, n) \in lines(page) /\ (isFinal(p) => n = r.tokens)
  <2>1. line("usage", named(g, r), r) \in lines(page)
    BY <1>9, <1>12
  <2>2. UsageLine(named(g, r), r, figure(r)) \in lines(page)
    BY <1>7, <2>1
  <2>3. figure(r) \in {r.tokens, r.first} /\ (isFinal(p) => figure(r) = r.tokens)
    BY <1>1, <1>2, <1>4, <1>6, <1>12
  <2> QED BY <2>2, <2>3
<1>13. ASSUME NEW r \in reported, r.day = page.day, named(g, r) # "", page.kind = "cost"
       PROVE  CostLine(named(g, r), r) \in lines(page)
  <2>1. line("cost", named(g, r), r) \in lines(page)
    BY <1>9, <1>13
  <2> QED BY <1>8, <2>1
<1> QED BY <1>10, <1>11, <1>12, <1>13

(* A page read settles its day or marks it unsettled. *)
LEMMA FetchPageStep ==
  ASSUME ReconcileInv, FetchPage
  PROVE  ReconcileInv' /\ stored' = stored
<1>1. Promised /\ StoredSound /\ PassSound /\ PassFollows
  BY DEF ReconcileInv
<1> DEFINE page == Head(pass.pages)
<1>2. /\ PassMoves /\ stored' = stored /\ pass.step = "fetch" /\ pass.pages # <<>>
      /\ pass' = [pass EXCEPT !.pages = Tail(@), !.unsettled = stamp(@, page),
                              !.usage = IF page.kind = "usage" THEN @ \cup lines(page) ELSE @,
                              !.costs = IF page.kind = "cost" THEN @ \cup lines(page) ELSE @]
  BY DEF FetchPage, PassMoves
<1>3. Promised' /\ Grows /\ now \in Nat /\ refreshed \in Nat
  BY <1>1, <1>2, PassMovesGrows DEF Promised
<1>4. StoredSound'
  BY <1>1, <1>2, <1>3, StoredStands, DelayIsNat
<1>5. pass # Idle
  BY <1>2 DEF Idle
<1>6. PICK days \in Ranges : PassOf(pass, days)
  BY <1>1, <1>5 DEF PassSound
<1> DEFINE G == PassGrains(pass)
<1>7. /\ pass = [step |-> "fetch", at |-> pass.at, ledger |-> pass.ledger, pages |-> pass.pages,
                 usage |-> pass.usage, costs |-> pass.costs, unsettled |-> pass.unsettled]
      /\ pass.at \in Nat /\ pass.at <= now
      /\ LedgerRead(pass, days) /\ LinesSound(pass, days) /\ Covered(pass, days)
      /\ pass.pages \in Seq(Pages(days, G))
  BY <1>6 DEF PassOf, IsPass
<1>8. PICK p : p = pass'
  OBVIOUS
<1>9. /\ p.at = pass.at /\ p.ledger = pass.ledger /\ p.pages = Tail(pass.pages)
      /\ p.unsettled = stamp(pass.unsettled, page)
      /\ p.usage = (IF page.kind = "usage" THEN pass.usage \cup lines(page) ELSE pass.usage)
      /\ p.costs = (IF page.kind = "cost" THEN pass.costs \cup lines(page) ELSE pass.costs)
      /\ p.step = "fetch"
      /\ p = [step |-> "fetch", at |-> p.at, ledger |-> p.ledger, pages |-> p.pages,
              usage |-> p.usage, costs |-> p.costs, unsettled |-> p.unsettled]
  <2> DEFINE t == Tail(pass.pages)
             x == stamp(pass.unsettled, page)
             y == IF page.kind = "usage" THEN pass.usage \cup lines(page) ELSE pass.usage
             z == IF page.kind = "cost" THEN pass.costs \cup lines(page) ELSE pass.costs
  <2>1. pass' = [pass EXCEPT !.pages = t, !.unsettled = x, !.usage = y, !.costs = z]
    BY <1>2
  <2> HIDE DEF t, x, y, z
  <2>2. pass' = [step |-> "fetch", at |-> pass.at, ledger |-> pass.ledger, pages |-> t,
                 usage |-> y, costs |-> z, unsettled |-> x]
    <3> DEFINE p1 == [pass EXCEPT !.pages = t]
               p2 == [p1 EXCEPT !.unsettled = x]
               p3 == [p2 EXCEPT !.usage = y]
    <3>1. pass' = [p3 EXCEPT !.costs = z]
      BY <2>1
    <3>2. p1 = [step |-> "fetch", at |-> pass.at, ledger |-> pass.ledger, pages |-> t,
                usage |-> pass.usage, costs |-> pass.costs, unsettled |-> pass.unsettled]
      BY <1>7
    <3> HIDE DEF p1
    <3>3. p2 = [step |-> "fetch", at |-> pass.at, ledger |-> pass.ledger, pages |-> t,
                usage |-> pass.usage, costs |-> pass.costs, unsettled |-> x]
      BY <3>2
    <3> HIDE DEF p2
    <3>4. p3 = [step |-> "fetch", at |-> pass.at, ledger |-> pass.ledger, pages |-> t,
                usage |-> y, costs |-> pass.costs, unsettled |-> x]
      BY <3>3
    <3> HIDE DEF p3
    <3> QED BY <3>1, <3>4
  <2>3. p = [step |-> "fetch", at |-> pass.at, ledger |-> pass.ledger, pages |-> t,
             usage |-> y, costs |-> z, unsettled |-> x]
    BY <1>8, <2>2
  <2>4. p.at = pass.at /\ p.ledger = pass.ledger /\ p.pages = t /\ p.unsettled = x /\ p.usage = y /\ p.costs = z
          /\ p.step = "fetch"
    BY <2>3
  <2> QED BY <2>3, <2>4 DEF t, x, y, z
<1>10. page \in Pages(days, G) /\ Tail(pass.pages) \in Seq(Pages(days, G))
       /\ Range(pass.pages) = {page} \cup Range(Tail(pass.pages))
  <2> DEFINE T == Pages(days, G)
  <2>1. pass.pages \in Seq(T) /\ pass.pages # <<>>
    BY <1>2, <1>7
  <2> HIDE DEF T
  <2>2. Head(pass.pages) \in T /\ Tail(pass.pages) \in Seq(T)
        /\ Range(pass.pages) = {Head(pass.pages)} \cup Range(Tail(pass.pages))
    BY <2>1, RangeOfTail
  <2> QED BY <2>2 DEF T
<1> HIDE DEF page
<1>11. PassGrains(p) = G /\ isFinal(p) = isFinal(pass)
  BY <1>9 DEF PassGrains, isFinal
<1>12. pass.unsettled \subseteq p.unsettled /\ pass.usage \subseteq p.usage /\ pass.costs \subseteq p.costs
  BY <1>9 DEF stamp
<1>13. source' = source /\ sent' = sent /\ refreshed' = refreshed /\ now' = now
  BY <1>2 DEF PassMoves
<1>14. days \subseteq Nat
  BY Calendar
<1>15. page.kind \in {"usage", "cost"} /\ page.grain \in G /\ page.day \in days /\ page.day \in page.span
       /\ page.span \subseteq days
  BY <1>10 DEF Pages, Reports
<1>16. /\ page.kind = "usage" => \A u \in lines(page) : \E r \in sent : IsUsage(p, days, u, page.grain, r)
       /\ page.kind = "cost" => \A u \in lines(page) : \E r \in sent : IsCost(days, u, page.grain, r)
       /\ \A r \in reported : r.day = page.day /\ named(page.grain, r) # "" =>
            /\ page.kind = "usage" /\ ~r.tool =>
                 \E n \in {r.tokens, r.first} :
                   UsageLine(named(page.grain, r), r, n) \in lines(page) /\ (isFinal(p) => n = r.tokens)
            /\ page.kind = "cost" => CostLine(named(page.grain, r), r) \in lines(page)
  <2>1. p.at <= now /\ p.at \in Nat
    BY <1>7, <1>9
  <2> HIDE DEF G
  <2> QED BY <1>1, <1>10, <2>1, PageLines
<1>17. LinesSound(p, days)
  <2>1. ASSUME NEW u \in p.usage PROVE \E g \in G, r \in sent : IsUsage(p, days, u, g, r)
    <3>1. CASE u \in pass.usage
      <4>1. PICK g \in G, r \in sent : IsUsage(pass, days, u, g, r)
        BY <1>7, <3>1 DEF LinesSound
      <4>2. IsUsage(p, days, u, g, r)
        BY <1>11, <4>1 DEF IsUsage
      <4> QED BY <4>2
    <3>2. CASE page.kind = "usage" /\ u \in lines(page)
      BY <1>15, <1>16, <3>2
    <3> QED BY <1>9, <2>1, <3>1, <3>2
  <2>2. ASSUME NEW u \in p.costs PROVE \E g \in G, r \in sent : IsCost(days, u, g, r)
    <3>1. CASE u \in pass.costs
      BY <1>7, <3>1 DEF LinesSound
    <3>2. CASE page.kind = "cost" /\ u \in lines(page)
      BY <1>15, <1>16, <3>2
    <3> QED BY <1>9, <2>2, <3>1, <3>2
  <2> QED BY <1>11, <2>1, <2>2 DEF LinesSound
<1>18. ASSUME NEW kind \in Reports, NEW g \in G, NEW d \in days, Fetched(pass, kind, g, d)
       PROVE  Fetched(p, kind, g, d)
  <2>1. source = "anthropic" => d \in p.unsettled \/ refreshed >= d + 1
    BY <1>12, <1>18 DEF Fetched
  <2>2. settled(p, d) => settled(pass, d)
    BY <1>9, <1>12 DEF settled
  <2>3. \A r \in sent : HasLine(pass, kind, g, r) => HasLine(p, kind, g, r)
    BY <1>11, <1>12 DEF HasLine
  <2> QED BY <1>18, <2>1, <2>2, <2>3 DEF Fetched
<1>19. Fetched(p, page.kind, page.grain, page.day)
  <2>1. source = "anthropic" => page.day \in p.unsettled \/ refreshed >= page.day + 1
    <3>1. page.day \in Nat
      BY <1>14, <1>15
    <3> QED BY <1>3, <1>9, <1>15, <3>1 DEF stamp
  <2>2. ASSUME settled(p, page.day), NEW r \in sent, r.day = page.day, named(page.grain, r) # ""
        PROVE  HasLine(p, page.kind, page.grain, r)
    <3>1. r \in reported
      <4>1. page.day \in Nat /\ Lag \in Nat /\ source \in {"anthropic", "openai"}
        BY <1>1, <1>14, <1>15, Calendar DEF Promised
      <4>2. r.day = page.day /\ r.day \in Nat
        BY <2>2, <4>1
      <4>3. CASE source = "anthropic"
        <5>1. refreshed >= r.day + 1
          BY <2>1, <2>2, <4>3 DEF settled
        <5>2. r.day < refreshed
          BY <1>3, <4>2, <5>1
        <5> QED BY <1>1, <4>3, <5>2 DEF Promised
      <4>4. CASE source = "openai"
        <5>1. pass.at >= r.day + 1 + Lag
          BY <1>9, <2>2, <4>4 DEF settled
        <5>2. now >= r.day + 1 + Lag
          BY <1>3, <1>7, <4>1, <4>2, <5>1
        <5> QED BY <1>1, <4>4, <5>2 DEF Promised
      <4> QED BY <4>1, <4>3, <4>4
    <3>2. page.kind = "usage" /\ ~r.tool =>
            \E n \in {r.tokens, r.first} :
              UsageLine(named(page.grain, r), r, n) \in p.usage /\ (isFinal(p) => n = r.tokens)
      <4>1. page.kind = "usage" => lines(page) \subseteq p.usage
        BY <1>9
      <4> QED BY <1>16, <2>2, <3>1, <4>1
    <3>3. page.kind = "cost" => CostLine(named(page.grain, r), r) \in p.costs
      <4>1. page.kind = "cost" => lines(page) \subseteq p.costs
        BY <1>9
      <4> QED BY <1>16, <2>2, <3>1, <4>1
    <3> QED BY <3>2, <3>3 DEF HasLine
  <2> QED BY <2>1, <2>2 DEF Fetched
<1>20. Covered(p, days)
  <2> SUFFICES ASSUME NEW kind \in Reports, NEW g \in G, NEW d \in days
               PROVE  HasPage(p.pages, kind, g, d) \/ Fetched(p, kind, g, d)
    BY <1>11 DEF Covered
  <2>1. CASE Fetched(pass, kind, g, d)
    BY <1>18, <2>1
  <2>2. CASE HasPage(pass.pages, kind, g, d)
    <3>1. PICK q \in Range(pass.pages) : q.kind = kind /\ q.grain = g /\ q.day = d
      BY <2>2 DEF HasPage
    <3>2. CASE q = page
      BY <1>19, <3>1, <3>2
    <3>3. CASE q \in Range(p.pages)
      BY <3>1, <3>3 DEF HasPage
    <3> QED BY <1>9, <1>10, <3>1, <3>2, <3>3
  <2> QED BY <1>7, <2>1, <2>2 DEF Covered
<1>21. PassOf(p, days)
  <2>1. p.at \in Nat /\ p.at <= now
    BY <1>7, <1>9
  <2>2. IsPass(p)
    <3>1. p = [step |-> "fetch", at |-> p.at, ledger |-> p.ledger, pages |-> p.pages,
               usage |-> p.usage, costs |-> p.costs, unsettled |-> p.unsettled]
      BY <1>9
    <3> QED BY <2>1, <3>1, Zenon DEF IsPass
  <2>3. LedgerRead(p, days)
    BY <1>7, <1>9 DEF LedgerRead
  <2>4. p.pages \in Seq(Pages(days, PassGrains(p)))
    BY <1>9, <1>10, <1>11
  <2> QED BY <1>17, <1>20, <2>2, <2>3, <2>4 DEF PassOf
<1>22. PassOf(p, days)'
  BY <1>3, <1>21, PassOfStands
<1>23. PassSound'
  BY <1>8, <1>22 DEF PassSound
<1>24. PassFollows'
  <2> SUFFICES ASSUME NEW CONSTANT key \in DOMAIN stored
               PROVE  /\ Judged(key) => settled(p, key.day)'
                      /\ stored[key].final => isFinal(p)
    BY <1>2, <1>8 DEF PassFollows, Judged, isFinal
  <2>1. /\ key.day \in Nat
        /\ Judged(key) /\ source = "anthropic" => refreshed >= key.day + 1
    BY <1>1 DEF StoredSound
  <2>2. /\ Judged(key) => settled(pass, key.day)
        /\ stored[key].final => isFinal(pass)
    BY <1>1, <1>5 DEF PassFollows
  <2>3. Judged(key) => key.day \notin p.unsettled
    BY <1>3, <1>9, <2>1, <2>2 DEF settled, stamp
  <2> QED BY <1>9, <1>11, <1>13, <2>2, <2>3 DEF settled
<1> QED BY <1>2, <1>3, <1>4, <1>23, <1>24 DEF ReconcileInv

(* The merge: a fresh row in place of a judged one is judged, and of a final one is the same. *)
LEMMA StoreStep ==
  ASSUME ReconcileInv, storeRows
  PROVE  /\ ReconcileInv'
         /\ \A key \in DOMAIN stored :
              /\ key \in DOMAIN stored'
              /\ Judged(key) => Judged(key)'
              /\ stored[key].final /\ Judged(key) => stored'[key] = stored[key]
<1>1. Promised /\ StoredSound /\ PassSound /\ PassFollows
  BY DEF ReconcileInv
<1>2. PassMoves /\ stored' = Merge(stored, pass) /\ pass' = Idle /\ pass.step = "fetch" /\ pass.pages = <<>>
  BY DEF storeRows, PassMoves
<1>3. Promised' /\ Grows
  BY <1>1, <1>2, PassMovesGrows
<1>4. pass # Idle
  BY <1>2 DEF Idle
<1>5. PICK days \in Ranges : PassOf(pass, days)
  BY <1>1, <1>4 DEF PassSound
<1>6. /\ source' = source /\ now' = now /\ refreshed' = refreshed /\ now \in Nat /\ refreshed \in Nat
      /\ source \in {"anthropic", "openai"} /\ pass.at \in Nat /\ pass.at <= now /\ Covered(pass, days)
  BY <1>1, <1>2, <1>5 DEF PassMoves, Promised, PassOf, IsPass
<1>7. /\ DOMAIN stored' = DOMAIN stored \cup keysOf(pass)
      /\ \A key \in keysOf(pass) : stored'[key] = Row(pass, key)
      /\ \A key \in DOMAIN stored \ keysOf(pass) : stored'[key] = stored[key]
  BY <1>2 DEF Merge
<1>8. /\ \A key : Row(pass, key).state # "pending" <=> settled(pass, key.day)
      /\ \A key : Row(pass, key).final = isFinal(pass)
  BY DEF Row
<1>9. ASSUME NEW CONSTANT key \in keysOf(pass)
      PROVE  /\ key.day \in Nat /\ key.credential # ""
             /\ settled(pass, key.day) => Row(pass, key).seen = Named(key)
             /\ settled(pass, key.day) =>
                  now >= key.day + 1 + Delay /\ (source = "anthropic" => refreshed >= key.day + 1)
             /\ isFinal(pass) => now >= Closed
             /\ settled(pass, key.day) /\ isFinal(pass) => Row(pass, key) = FinalRow(key)
  <2>1. key.day \in days /\ grainOf(key.credential) \in PassGrains(pass) /\ key.credential # ""
    BY <1>1, <1>5, KeyOfPass
  <2>2. key.day \in Nat /\ Lag \in Nat /\ Delay \in Nat /\ Closed \in Nat
    BY <2>1, Calendar, DelayIsNat
  <2>3. Fetched(pass, "usage", grainOf(key.credential), key.day)
    <3>1. ~HasPage(pass.pages, "usage", grainOf(key.credential), key.day)
      BY <1>2 DEF HasPage, Range
    <3> QED BY <1>6, <2>1, <3>1 DEF Covered, Reports
  <2>4. settled(pass, key.day) => pass.at >= key.day + 1 + Delay /\ key.day \notin pass.unsettled
    BY DEF settled, Delay
  <2>5. settled(pass, key.day) => now >= key.day + 1 + Delay
    BY <1>6, <2>2, <2>4
  <2>6. settled(pass, key.day) /\ source = "anthropic" => refreshed >= key.day + 1
    BY <2>3, <2>4 DEF Fetched
  <2>7. isFinal(pass) => now >= Closed
    BY <1>6, <2>2 DEF isFinal, Closed
  <2>8. settled(pass, key.day) /\ isFinal(pass) => Row(pass, key) = FinalRow(key)
    BY <1>1, <1>2, <1>5, PassRow
  <2>9. settled(pass, key.day) => Row(pass, key).seen = Named(key)
    BY <1>1, <1>2, <1>5, PassSeen
  <2> QED BY <2>1, <2>2, <2>5, <2>6, <2>7, <2>8, <2>9
<1>10. ASSUME NEW CONSTANT key, key.day \in Nat, now >= key.day + 1 + Delay
       PROVE  FinalRow(key)' = FinalRow(key) /\ Named(key)' = Named(key)
  <2>1. key.day < now
    BY <1>6, <1>10, DelayIsNat
  <2> QED BY <1>3, <2>1, FinalRowStands, DayStands
<1>12. StoredSound'
  <2> SUFFICES ASSUME NEW CONSTANT key \in DOMAIN stored'
               PROVE  /\ key.day \in Nat /\ key.credential # ""
                      /\ stored'[key].state # "pending" => stored'[key].seen = Named(key)'
                      /\ stored'[key].state # "pending" =>
                           now >= key.day + 1 + Delay /\ (source = "anthropic" => refreshed >= key.day + 1)
                      /\ stored'[key].final => now >= Closed
                      /\ stored'[key].state # "pending" /\ stored'[key].final => stored'[key] = FinalRow(key)'
    BY <1>6 DEF StoredSound, Judged, Delay, Closed
  <2>1. CASE key \in keysOf(pass)
    BY <1>7, <1>8, <1>9, <1>10, <2>1
  <2>2. CASE key \notin keysOf(pass)
    <3>1. key \in DOMAIN stored /\ stored'[key] = stored[key]
      BY <1>7, <2>2
    <3>2. /\ key.day \in Nat /\ key.credential # ""
          /\ Judged(key) => stored[key].seen = Named(key)
          /\ Judged(key) => now >= key.day + 1 + Delay /\ (source = "anthropic" => refreshed >= key.day + 1)
          /\ stored[key].final => now >= Closed
          /\ Judged(key) /\ stored[key].final => stored[key] = FinalRow(key)
      BY <1>1, <3>1 DEF StoredSound
    <3> QED BY <1>10, <3>1, <3>2 DEF Judged
  <2> QED BY <2>1, <2>2
<1>13. PassSound' /\ PassFollows'
  BY <1>2 DEF PassSound, PassFollows
<1>14. ASSUME NEW CONSTANT key \in DOMAIN stored
       PROVE  /\ key \in DOMAIN stored'
              /\ Judged(key) => stored'[key].state # "pending"
              /\ stored[key].final /\ Judged(key) => stored'[key] = stored[key]
  <2>1. /\ Judged(key) => settled(pass, key.day)
        /\ stored[key].final => isFinal(pass)
    BY <1>1, <1>4 DEF PassFollows
  <2>2. Judged(key) /\ stored[key].final => stored[key] = FinalRow(key)
    BY <1>1 DEF StoredSound
  <2>3. CASE key \in keysOf(pass)
    BY <1>7, <1>8, <1>9, <2>1, <2>2, <2>3
  <2>4. CASE key \notin keysOf(pass)
    BY <1>7, <2>4 DEF Judged
  <2> QED BY <2>3, <2>4
<1>15. ReconcileInv'
  BY <1>3, <1>12, <1>13 DEF ReconcileInv
<1> QED BY <1>14, <1>15 DEF Judged

(* The initial state. *)
LEMMA ReconcileInitInv ==
  ASSUME ReconcileInit PROVE ReconcileInv
<1>1. Closed \in Nat
  BY Calendar
<1>2. Promised /\ PassSound
  BY <1>1 DEF ReconcileInit, Promised, PassSound
<1>3. StoredSound /\ PassFollows
  BY DEF ReconcileInit, StoredSound, PassFollows
<1> QED BY <1>2, <1>3 DEF ReconcileInv

(* What a step may do to the stored rows. *)
MovesForward ==
  \A key \in DOMAIN stored :
    /\ key \in DOMAIN stored'
    /\ stored[key].state # "pending" => stored'[key].state # "pending"
    /\ stored[key].final /\ stored[key].state # "pending" => stored'[key] = stored[key]

(* Every step keeps the invariant and moves the file forward. *)
LEMMA ReconcileStep ==
  ASSUME ReconcileInv, [ReconcileNext]_reconcileVars
  PROVE  ReconcileInv' /\ MovesForward
<1>1. Promised
  BY DEF ReconcileInv
<1>2. CASE UNCHANGED reconcileVars
  <2>1. Elsewhere
    BY <1>1, <1>2 DEF Elsewhere, reconcileVars, Grows, Promised, Closed
  <2> QED BY <2>1, ElsewhereStep DEF MovesForward, Elsewhere
<1>3. ASSUME NEW r \in Requests, Send(r) \/ Report(r) \/ Restate(r) PROVE ReconcileInv' /\ MovesForward
  <2>1. Elsewhere
    BY <1>1, <1>3, SendIsElsewhere, ReportIsElsewhere
  <2> QED BY <2>1, ElsewhereStep DEF MovesForward, Elsewhere
<1>4. CASE Refresh
  <2>1. Elsewhere
    BY <1>1, <1>4 DEF Refresh, Elsewhere, Promised, Grows, Closed
  <2> QED BY <2>1, ElsewhereStep DEF MovesForward, Elsewhere
<1>5. CASE Tick
  <2>1. Elsewhere
    BY <1>1, <1>5, TickIsElsewhere
  <2> QED BY <2>1, ElsewhereStep DEF MovesForward, Elsewhere
<1>6. ASSUME NEW days \in Ranges, Start(days) PROVE ReconcileInv' /\ MovesForward
  BY <1>6, StartStep DEF MovesForward
<1>7. CASE FetchPage
  BY <1>7, FetchPageStep DEF MovesForward
<1>8. CASE Fail
  BY <1>8, FailStep DEF MovesForward
<1>9. CASE storeRows
  BY <1>9, StoreStep DEF MovesForward, Judged
<1> QED BY <1>2, <1>3, <1>4, <1>5, <1>6, <1>7, <1>8, <1>9 DEF ReconcileNext

(* Every judged row was compared on a complete report. *)
AllSeen == \A key \in DOMAIN stored : stored[key].state # "pending" => stored[key].seen = Made(key)

(* The requests a credential names are those made on it. *)
LEMMA InvAllSeen ==
  ASSUME ReconcileInv PROVE AllSeen
<1>1. StoredSound /\ sent \subseteq Requests
  BY DEF ReconcileInv, Promised
<1> SUFFICES ASSUME NEW key \in DOMAIN stored PROVE Judged(key) => stored[key].seen = Made(key)
  BY DEF AllSeen, Judged
<1>2. key.credential # "" /\ (Judged(key) => stored[key].seen = Named(key))
  BY <1>1 DEF StoredSound
<1>3. \A r \in sent : named(grainOf(key.credential), r) = key.credential <=> key.credential \in {r.key, r.scope}
  <2> TAKE r \in sent
  <2>1. r.key \notin Scopes /\ r.scope \in Scopes \cup {""}
    BY <1>1, ReconcileAssumption
  <2> QED BY <1>2, <2>1 DEF named, grainOf
<1>4. Named(key) = Made(key)
  BY <1>3 DEF Named, Made
<1> QED BY <1>2, <1>4

(* A day is judged only on a complete report: whenever pages, counts and   *)
(* corrections come in, the requests a judged row was compared on are all  *)
(* those made on its credential that day (settled, stamp, Fetch).          *)
THEOREM SpecJudgedIsComplete == ReconcileSpec => []AllSeen
<1>1. ReconcileInit => ReconcileInv
  BY ReconcileInitInv
<1>2. ReconcileInv /\ [ReconcileNext]_reconcileVars => ReconcileInv'
  BY ReconcileStep
<1>3. ReconcileInv => AllSeen
  BY InvAllSeen
<1> QED BY <1>1, <1>2, <1>3, PTL DEF ReconcileSpec

(* A rerun only moves forward: no key leaves the file, no judged day is    *)
(* pending again, and a row judged after the month has closed stands       *)
(* through every later pass (Merge, storeRows, isFinal).                   *)
THEOREM SpecStoredMovesForward == ReconcileSpec => StoredMovesForward
<1>1. ReconcileInit => ReconcileInv
  BY ReconcileInitInv
<1>2. ReconcileInv /\ [ReconcileNext]_reconcileVars => ReconcileInv' /\ MovesForward
  BY ReconcileStep
<1> QED BY <1>1, <1>2, PTL DEF ReconcileSpec, StoredMovesForward, MovesForward
=============================================================================
