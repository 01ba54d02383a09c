--------------------------- MODULE LearningProofs ----------------------------
(***************************************************************************)
(* Proofs about computations over any finite set of data: the trades and   *)
(* the portfolio the scanner chooses (AutoSelection.tla,                   *)
(* GreedyPortfolio.tla), the executions matched into trades                *)
(* (TradeImport.tla) and their snapshots (TradeEnrichment.tla), the chart  *)
(* of a strategy's returns (StrategyHealth.tla), and the correction of a   *)
(* week's p-values (PatternMining.tla).                                    *)
(*                                                                         *)
(* They sum, sort and recurse.  The first two parts say what a sum over a  *)
(* finite set and a sort are, by induction on the size of the set: the     *)
(* sizes a fact holds for are a set, and a set with 0 and every successor  *)
(* holds all of Nat (Induction).                                           *)
(***************************************************************************)
EXTENDS AutoSelection, GreedyPortfolio, TradeImport, TradeEnrichment, StrategyHealth,
        PatternMining, FiniteSetTheorems, WellFoundedInduction, TLAPS

-----------------------------------------------------------------------------
(* Induction, and sums over finite sets.                                   *)

\* Induction over the natural numbers, said of a set.
LEMMA Induction ==
    ASSUME NEW S, 0 \in S, \A n \in Nat : n \in S => n + 1 \in S
    PROVE  Nat \subseteq S
<1> SUFFICES ASSUME Nat \ S # {} PROVE FALSE
  OBVIOUS
<1> DEFINE R == {ss \in Nat \X Nat : ss[1] < ss[2]}
<1>1. IsWellFoundedOn(R, Nat)
  BY NatLessThanWellFounded DEF OpToRel
<1>2. PICK m \in Nat \ S : \A k \in Nat \ S : ~(<<k, m>> \in R)
  <2> HIDE DEF R
  <2> QED BY <1>1, WFMin
<1>3. m # 0 /\ m - 1 \in Nat
  OBVIOUS
<1>4. m - 1 \in S
  <2>1. <<m - 1, m>> \in R  BY <1>3
  <2> QED BY <1>2, <1>3, <2>1
<1> QED BY <1>3, <1>4

\* The element a fold takes next, and the finite sets a sum is taken over.
Taken(s) == CHOOSE x \in s : TRUE
SmallSets(D, n) == {s \in SUBSET D : IsFiniteSet(s) /\ Cardinality(s) <= n}

\* A function of sets that adds up f.
Adds(g, f, F) == g = [s \in F |-> IF s = {} THEN 0 ELSE f[Taken(s)] + g[s \ {Taken(s)}]]

LEMMA Smaller ==
    ASSUME NEW s, IsFiniteSet(s), s # {}
    PROVE  /\ Taken(s) \in s
           /\ \A x \in s : /\ IsFiniteSet(s \ {x}) /\ Cardinality(s \ {x}) = Cardinality(s) - 1
                           /\ Cardinality(s) \in Nat /\ Cardinality(s) # 0
<1>1. Taken(s) \in s
  BY DEF Taken
<1>2. ASSUME NEW x \in s
      PROVE  /\ IsFiniteSet(s \ {x}) /\ Cardinality(s \ {x}) = Cardinality(s) - 1
             /\ Cardinality(s) \in Nat /\ Cardinality(s) # 0
  BY FS_RemoveElement, FS_CardinalityType, FS_EmptySet
<1> QED
  BY <1>1, <1>2

LEMMA AdderExists ==
    ASSUME NEW D, NEW f
    PROVE  \A n \in Nat : \E g : Adds(g, f, SmallSets(D, n))
<1> DEFINE Good == {n \in Nat : \E g : Adds(g, f, SmallSets(D, n))}
<1>1. 0 \in Good
  <2> DEFINE g == [s \in SmallSets(D, 0) |-> 0]
  <2>1. \A s \in SmallSets(D, 0) : s = {}
    BY FS_EmptySet, FS_CardinalityType DEF SmallSets
  <2>2. Adds(g, f, SmallSets(D, 0))
    BY <2>1 DEF Adds
  <2> QED
    BY <2>2
<1>2. ASSUME NEW n \in Nat, n \in Good PROVE n + 1 \in Good
  <2>1. PICK g : Adds(g, f, SmallSets(D, n))
    BY <1>2
  <2> DEFINE h == [s \in SmallSets(D, n + 1) |-> IF s = {} THEN 0 ELSE f[Taken(s)] + g[s \ {Taken(s)}]]
  <2>2. ASSUME NEW s \in SmallSets(D, n + 1), s # {}
        PROVE  h[s \ {Taken(s)}] = g[s \ {Taken(s)}]
    <3> DEFINE r == s \ {Taken(s)}
    <3>1. r \in SmallSets(D, n) /\ r \in SmallSets(D, n + 1)
      <4>1. s \in SUBSET D /\ IsFiniteSet(s) /\ Cardinality(s) <= n + 1
        BY <2>2 DEF SmallSets
      <4>2. IsFiniteSet(r) /\ Cardinality(r) = Cardinality(s) - 1 /\ Cardinality(s) \in Nat
        BY <2>2, <4>1, Smaller
      <4>3. r \in SUBSET D /\ Cardinality(r) <= n
        BY <4>1, <4>2
      <4> HIDE DEF r
      <4> QED
        BY <4>2, <4>3 DEF SmallSets
    <3>2. g[r] = IF r = {} THEN 0 ELSE f[Taken(r)] + g[r \ {Taken(r)}]
      <4> HIDE DEF r
      <4> QED BY <2>1, <3>1 DEF Adds
    <3>3. h[r] = IF r = {} THEN 0 ELSE f[Taken(r)] + g[r \ {Taken(r)}]
      <4> HIDE DEF r
      <4> QED BY <3>1
    <3> QED
      BY <3>2, <3>3
  <2>3. Adds(h, f, SmallSets(D, n + 1))
    <3>1. h = [s \in SmallSets(D, n + 1) |-> IF s = {} THEN 0 ELSE f[Taken(s)] + g[s \ {Taken(s)}]]
      OBVIOUS
    <3> HIDE DEF h
    <3> QED
      BY <2>2, <3>1 DEF Adds
  <2> QED
    <3> HIDE DEF h
    <3> QED BY <2>3
<1> HIDE DEF Good
<1>3. Nat \subseteq Good
  BY <1>1, <1>2, Induction
<1> QED
  BY <1>3 DEF Good

\* Two such functions agree where both are defined.
LEMMA AddersAgree ==
    ASSUME NEW D, NEW E, NEW f, NEW g, NEW h, Adds(g, f, SUBSET D), Adds(h, f, SUBSET E),
           NEW t, t \subseteq D, t \subseteq E, IsFiniteSet(t)
    PROVE  g[t] = h[t]
<1> DEFINE Good == {n \in Nat : \A s \in SUBSET D : s \subseteq E /\ IsFiniteSet(s) /\ Cardinality(s) = n => g[s] = h[s]}
<1>0. ASSUME NEW s \in SUBSET D, s \subseteq E
      PROVE  /\ g[s] = IF s = {} THEN 0 ELSE f[Taken(s)] + g[s \ {Taken(s)}]
             /\ h[s] = IF s = {} THEN 0 ELSE f[Taken(s)] + h[s \ {Taken(s)}]
  BY <1>0 DEF Adds
<1>1. 0 \in Good
  <2>1. ASSUME NEW s \in SUBSET D, s \subseteq E, IsFiniteSet(s), Cardinality(s) = 0 PROVE g[s] = h[s]
    <3>1. s = {}
      BY <2>1, FS_EmptySet
    <3> QED
      BY <1>0, <2>1, <3>1
  <2> QED
    BY <2>1
<1>2. ASSUME NEW n \in Nat, n \in Good PROVE n + 1 \in Good
  <2>1. ASSUME NEW s \in SUBSET D, s \subseteq E, IsFiniteSet(s), Cardinality(s) = n + 1 PROVE g[s] = h[s]
    <3>1. s # {}
      BY <2>1, FS_EmptySet
    <3> DEFINE r == s \ {Taken(s)}
    <3>2. r \in SUBSET D /\ r \subseteq E /\ IsFiniteSet(r) /\ Cardinality(r) = n
      BY <2>1, <3>1, Smaller
    <3>3. g[r] = h[r]
      <4> HIDE DEF r
      <4> QED BY <1>2, <3>2
    <3> QED
      BY <1>0, <2>1, <3>1, <3>3
  <2> QED
    BY <2>1
<1> HIDE DEF Good
<1>3. Nat \subseteq Good
  BY <1>1, <1>2, Induction
<1> QED
  BY <1>3, FS_CardinalityType DEF Good

\* What the community modules call the sum of f over a set.
LEMMA SumIsAdded ==
    ASSUME NEW f, NEW S, IsFiniteSet(S)
    PROVE  \E g : Adds(g, f, SUBSET S) /\ SumFunctionOnSet(f, S) = g[S]
<1>1. Cardinality(S) \in Nat /\ SmallSets(S, Cardinality(S)) = SUBSET S
  BY FS_CardinalityType, FS_Subset DEF SmallSets
<1>2. PICK h : Adds(h, f, SUBSET S)
  <2>1. \E h : Adds(h, f, SmallSets(S, Cardinality(S)))
    BY <1>1, AdderExists
  <2> QED
    BY <1>1, <2>1
<1> DEFINE g == CHOOSE i : i = [s \in SUBSET S |-> IF s = {} THEN 0 ELSE f[CHOOSE x \in s : TRUE] + i[s \ {CHOOSE x \in s : TRUE}]]
<1>3. g = [s \in SUBSET S |-> IF s = {} THEN 0 ELSE f[CHOOSE x \in s : TRUE] + g[s \ {CHOOSE x \in s : TRUE}]]
  BY <1>2 DEF Adds, Taken
<1>4. SumFunctionOnSet(f, S) = g[S]
  BY DEF SumFunctionOnSet, FoldFunctionOnSet, MapThenFoldSet
<1>5. Adds(g, f, SUBSET S)
  <2> HIDE DEF g
  <2> QED BY <1>3 DEF Adds, Taken
<1> QED
  <2> HIDE DEF g
  <2> QED BY <1>4, <1>5

\* A sum over nothing is nothing.
LEMMA EmptySum == ASSUME NEW f PROVE SumFunctionOnSet(f, {}) = 0
<1>1. IsFiniteSet({})
  BY FS_EmptySet
<1>2. PICK g : Adds(g, f, SUBSET {}) /\ SumFunctionOnSet(f, {}) = g[{}]
  BY <1>1, SumIsAdded
<1> QED
  BY <1>2 DEF Adds

\* The fold takes one element off.
LEMMA FirstTerm ==
    ASSUME NEW f, NEW S, IsFiniteSet(S), S # {}
    PROVE  SumFunctionOnSet(f, S) = f[Taken(S)] + SumFunctionOnSet(f, S \ {Taken(S)})
<1> DEFINE R == S \ {Taken(S)}
<1>1. PICK g : Adds(g, f, SUBSET S) /\ SumFunctionOnSet(f, S) = g[S]
  BY SumIsAdded
<1>2. IsFiniteSet(R)
  BY Smaller
<1>3. PICK h : Adds(h, f, SUBSET R) /\ SumFunctionOnSet(f, R) = h[R]
  <2> HIDE DEF R
  <2> QED BY <1>2, SumIsAdded
<1>4. g[R] = h[R]
  <2>1. R \subseteq S /\ R \subseteq R
    OBVIOUS
  <2> HIDE DEF R
  <2> QED BY <1>1, <1>2, <1>3, <2>1, AddersAgree, Z3
<1>5. g[S] = f[Taken(S)] + g[R]
  BY <1>1 DEF Adds
<1> QED
  BY <1>1, <1>3, <1>4, <1>5

\* A sum of integers is one.
LEMMA SumIsNumber ==
    ASSUME NEW f, NEW S, IsFiniteSet(S), \A x \in S : f[x] \in Int
    PROVE  SumFunctionOnSet(f, S) \in Int
<1> DEFINE Good == {n \in Nat : \A T \in SUBSET S :
                      IsFiniteSet(T) /\ Cardinality(T) = n => SumFunctionOnSet(f, T) \in Int}
<1>1. 0 \in Good
  <2>1. ASSUME NEW T \in SUBSET S, IsFiniteSet(T), Cardinality(T) = 0
        PROVE  SumFunctionOnSet(f, T) \in Int
    <3>1. T = {}
      BY <2>1, FS_EmptySet
    <3> QED
      BY <3>1, EmptySum
  <2> QED
    BY <2>1
<1>2. ASSUME NEW n \in Nat, n \in Good PROVE n + 1 \in Good
  <2>1. ASSUME NEW T \in SUBSET S, IsFiniteSet(T), Cardinality(T) = n + 1
        PROVE  SumFunctionOnSet(f, T) \in Int
    <3>1. T # {}
      BY <2>1, FS_EmptySet
    <3>2. PICK c \in T : SumFunctionOnSet(f, T) = f[c] + SumFunctionOnSet(f, T \ {c})
      BY <2>1, <3>1, FirstTerm, Smaller
    <3>3. IsFiniteSet(T \ {c}) /\ Cardinality(T \ {c}) = n
      <4>1. /\ IsFiniteSet(T \ {c}) /\ Cardinality(T \ {c}) = Cardinality(T) - 1
            /\ Cardinality(T) \in Nat
        BY <2>1, <3>1, Smaller
      <4> QED
        BY ONLY <2>1, <4>1, n \in Nat
    <3>4. SumFunctionOnSet(f, T \ {c}) \in Int
      BY <1>2, <3>3
    <3> QED
      BY <3>2, <3>4
  <2> QED
    BY <2>1
<1> HIDE DEF Good
<1>3. Nat \subseteq Good
  BY <1>1, <1>2, Induction
<1> QED
  BY <1>3, FS_CardinalityType DEF Good

\* Any element may be taken off first.
LEMMA AnyTerm ==
    ASSUME NEW f, NEW S, IsFiniteSet(S), \A x \in S : f[x] \in Int
    PROVE  \A x \in S : SumFunctionOnSet(f, S) = f[x] + SumFunctionOnSet(f, S \ {x})
<1> DEFINE Fine(T) == \A x \in T : SumFunctionOnSet(f, T) = f[x] + SumFunctionOnSet(f, T \ {x})
           Good == {n \in Nat : \A T \in SUBSET S : IsFiniteSet(T) /\ Cardinality(T) = n => Fine(T)}
<1>0. ASSUME NEW T \in SUBSET S, IsFiniteSet(T) PROVE SumFunctionOnSet(f, T) \in Int
  BY <1>0, SumIsNumber
<1>1. 0 \in Good
  BY FS_EmptySet
<1>2. ASSUME NEW n \in Nat, n \in Good PROVE n + 1 \in Good
  <2>1. ASSUME NEW T \in SUBSET S, IsFiniteSet(T), Cardinality(T) = n + 1, NEW x \in T
        PROVE  SumFunctionOnSet(f, T) = f[x] + SumFunctionOnSet(f, T \ {x})
    <3>1. T # {} /\ Taken(T) \in T
      BY <2>1, Smaller
    <3> DEFINE c == Taken(T)
    <3>2. SumFunctionOnSet(f, T) = f[c] + SumFunctionOnSet(f, T \ {c})
      BY <2>1, <3>1, FirstTerm
    <3>3. CASE x = c
      BY <3>2, <3>3
    <3>4. CASE x # c
      <4> DEFINE R == (T \ {x}) \ {c}
      <4>1. /\ T \ {c} \in SUBSET S /\ IsFiniteSet(T \ {c}) /\ Cardinality(T \ {c}) = n
            /\ T \ {x} \in SUBSET S /\ IsFiniteSet(T \ {x}) /\ Cardinality(T \ {x}) = n
        BY <2>1, <3>1, Smaller
      <4>2. R = (T \ {c}) \ {x} /\ x \in T \ {c} /\ c \in T \ {x}
        BY <3>1, <3>4
      <4>3. Fine(T \ {c}) /\ Fine(T \ {x})
        <5> HIDE DEF Fine
        <5> QED BY <1>2, <4>1
      <4>4. /\ SumFunctionOnSet(f, T \ {c}) = f[x] + SumFunctionOnSet(f, R)
            /\ SumFunctionOnSet(f, T \ {x}) = f[c] + SumFunctionOnSet(f, R)
        BY <4>2, <4>3
      <4>5. SumFunctionOnSet(f, R) \in Int
        <5>1. R \in SUBSET S /\ IsFiniteSet(R)
          BY <4>1, FS_Subset
        <5> HIDE DEF R
        <5> QED BY <1>0, <5>1
      <4>6. f[x] \in Int /\ f[c] \in Int
        BY <3>1
      <4> HIDE DEF c, R
      <4> QED
        BY <3>2, <4>4, <4>5, <4>6
    <3> QED
      BY <3>3, <3>4
  <2> QED
    BY <2>1
<1> HIDE DEF Good
<1>3. Nat \subseteq Good
  <2> HIDE DEF Fine
  <2> QED BY <1>1, <1>2, Induction
<1> QED
  BY <1>3, FS_CardinalityType DEF Good

\* One more element adds its value.
LEMMA OneMoreTerm ==
    ASSUME NEW f, NEW S, IsFiniteSet(S), NEW x, x \notin S, \A y \in S \cup {x} : f[y] \in Int
    PROVE  SumFunctionOnSet(f, S \cup {x}) = f[x] + SumFunctionOnSet(f, S)
<1>1. IsFiniteSet(S \cup {x})
  BY FS_AddElement
<1>2. (S \cup {x}) \ {x} = S
  OBVIOUS
<1> DEFINE T == S \cup {x}
<1>3. x \in T /\ \A y \in T : f[y] \in Int
  OBVIOUS
<1> HIDE DEF T
<1>4. SumFunctionOnSet(f, T) = f[x] + SumFunctionOnSet(f, T \ {x})
  BY <1>1, <1>3, AnyTerm DEF T
<1> QED
  BY <1>2, <1>4 DEF T

-----------------------------------------------------------------------------
(* Sorts.                                                                  *)

\* What makes pairs an order that sorts S.
Orders(before, S) ==
    /\ \A d \in S : <<d, d>> \notin before
    /\ \A c, d, e \in S : <<c, d>> \in before /\ <<d, e>> \in before => <<c, e>> \in before
    /\ \A d, e \in S : d # e => <<d, e>> \in before \/ <<e, d>> \in before

\* A sort lists every element once, smaller ones first.
LEMMA SortedIsList ==
    ASSUME NEW S, IsFiniteSet(S), NEW before, Orders(before, S)
    PROVE  /\ Sorted(S, before) \in [1..Cardinality(S) -> S]
           /\ \A e \in S : \E n \in 1..Cardinality(S) : Sorted(S, before)[n] = e
           /\ \A i, j \in 1..Cardinality(S) :
                 i < j => <<Sorted(S, before)[i], Sorted(S, before)[j]>> \in before
<1> DEFINE Below(e) == {d \in S : <<d, e>> \in before}
           place == [e \in S |-> Cardinality(Below(e)) + 1]
           C == Cardinality(S)
           s == Sorted(S, before)
<1>0. C \in Nat
  BY FS_CardinalityType
<1>1. ASSUME NEW e \in S
      PROVE  IsFiniteSet(Below(e)) /\ Cardinality(Below(e)) \in Nat /\ Cardinality(Below(e)) + 1 <= C
  <2>1. e \notin Below(e) /\ Below(e) \subseteq S \ {e}
    BY DEF Orders
  <2>2. IsFiniteSet(S \ {e}) /\ Cardinality(S \ {e}) = C - 1
    BY FS_RemoveElement
  <2>3. IsFiniteSet(Below(e)) /\ Cardinality(Below(e)) <= C - 1
    <3> HIDE DEF Below, C
    <3> QED BY <2>1, <2>2, FS_Subset
  <2>4. Cardinality(Below(e)) \in Nat
    BY <2>3, FS_CardinalityType
  <2> HIDE DEF Below, C
  <2> QED
    BY <1>0, <2>3, <2>4
<1>2. place \in [S -> 1..C]
  <2> HIDE DEF Below, C
  <2> QED BY <1>0, <1>1
<1>3. ASSUME NEW d \in S, NEW e \in S, <<d, e>> \in before PROVE place[d] < place[e]
  <2>1. Below(d) \cup {d} \subseteq Below(e) /\ d \notin Below(d)
    BY <1>3 DEF Orders
  <2>2. IsFiniteSet(Below(d) \cup {d}) /\ Cardinality(Below(d) \cup {d}) = Cardinality(Below(d)) + 1
    <3> HIDE DEF Below
    <3> QED BY <1>1, <2>1, FS_AddElement
  <2>3. Cardinality(Below(d)) + 1 <= Cardinality(Below(e))
    <3> HIDE DEF Below
    <3>1. IsFiniteSet(Below(e))
      BY <1>1
    <3> QED BY <2>1, <2>2, <3>1, FS_Subset
  <2> HIDE DEF Below
  <2> QED
    BY <1>1, <2>3
<1>4. \A d, e \in S : place[d] = place[e] => d = e
  <2>1. \A e \in S : place[e] \in Int
    <3> HIDE DEF place
    <3> QED BY <1>0, <1>2
  <2>2. \A d, e \in S : <<d, e>> \in before => place[d] < place[e]
    BY <1>3
  <2> HIDE DEF place
  <2>3. ASSUME NEW d \in S, NEW e \in S, place[d] = place[e], d # e PROVE FALSE
    <3>1. place[d] < place[e] \/ place[e] < place[d]
      BY <2>2, <2>3 DEF Orders
    <3> QED
      BY <2>1, <2>3, <3>1
  <2> QED
    BY <2>3
<1>5. \A n \in 1..C : \E e \in S : place[e] = n
  <2>1. IsFiniteSet(1..C) /\ Cardinality(1..C) = C
    BY <1>0, FS_Interval
  <2>2. place \in Injection(S, 1..C)
    BY <1>2, <1>4 DEF Injection, IsInjective
  <2>3. place \in Surjection(S, 1..C)
    <3> HIDE DEF place
    <3> QED BY <2>1, <2>2, FS_Injection
  <2> HIDE DEF place
  <2> QED
    BY <2>3 DEF Surjection
<1>6. ASSUME NEW n \in 1..C PROVE s[n] \in S /\ place[s[n]] = n
  <2>1. s[n] = CHOOSE e \in S : Cardinality(Below(e)) = n - 1
    BY DEF Sorted
  <2>2. \E e \in S : Cardinality(Below(e)) = n - 1
    <3>1. PICK e \in S : place[e] = n
      BY <1>5
    <3>2. Cardinality(Below(e)) + 1 = n /\ Cardinality(Below(e)) \in Nat /\ n \in Int
      <4> HIDE DEF C
      <4>1. n \in Int
        BY <1>0
      <4> QED BY <1>1, <3>1, <4>1
    <3> HIDE DEF Below
    <3> QED BY <3>2
  <2>3. s[n] \in S /\ Cardinality(Below(s[n])) = n - 1
    <3> HIDE DEF Below, s
    <3> QED BY <2>1, <2>2
  <2>4. n \in Int
    <3> HIDE DEF C
    <3> QED BY <1>0
  <2> HIDE DEF Below, s
  <2> QED
    BY <2>3, <2>4
<1>7. s \in [1..C -> S]
  <2>1. s = [n \in 1..C |-> CHOOSE e \in S : Cardinality({d \in S : <<d, e>> \in before}) = n - 1]
    BY DEF Sorted
  <2> HIDE DEF s, place
  <2> QED
    BY <1>6, <2>1
<1>8. \A e \in S : \E n \in 1..C : s[n] = e
  <2> HIDE DEF s, place, C
  <2> QED
    BY <1>2, <1>4, <1>6
<1>9. ASSUME NEW i \in 1..C, NEW j \in 1..C, i < j PROVE <<s[i], s[j]>> \in before
  <2> HIDE DEF s, place
  <2>1. s[i] \in S /\ s[j] \in S /\ place[s[i]] = i /\ place[s[j]] = j
    BY <1>6
  <2>2. i \in Int /\ j \in Int
    <3> HIDE DEF C
    <3> QED BY <1>0
  <2>3. CASE <<s[j], s[i]>> \in before
    BY <1>3, <1>9, <2>1, <2>2, <2>3
  <2>4. CASE s[i] = s[j]
    BY <1>9, <2>1, <2>2, <2>4
  <2> QED
    BY <2>1, <2>3, <2>4 DEF Orders
<1> QED
  BY <1>7, <1>8, <1>9

-----------------------------------------------------------------------------
(* The puts of a chain.                                                    *)

\* A table answers with the tier of the highest bound that is reached.
LEMMA TierReached ==
    ASSUME NEW x, NEW T, NEW o, \A u \in T : u[1] \in Int, NEW t \in T, x >= t[1],
           \A u \in T : x >= u[1] => t[1] >= u[1] /\ (u[1] = t[1] => u[2] = t[2])
    PROVE  Tier(x, T, o) = t[2]
<1> DEFINE reached == {u \in T : x >= u[1]}
           top == CHOOSE u \in reached : \A v \in reached : u[1] >= v[1]
<1>1. t \in reached /\ \A v \in reached : t[1] >= v[1]
  OBVIOUS
<1>2. Tier(x, T, o) = top[2]
  BY <1>1 DEF Tier
<1>3. top \in reached /\ \A v \in reached : top[1] >= v[1]
  <2> HIDE DEF reached
  <2> QED BY <1>1
<1>4. top \in T /\ x >= top[1] /\ top[1] >= t[1]
  BY <1>1, <1>3
<1> HIDE DEF reached, top
<1>5. top[1] \in Int /\ t[1] \in Int /\ t[1] >= top[1]
  BY <1>4
<1> QED
  BY <1>2, <1>4, <1>5

LEMMA NoTierReached ==
    ASSUME NEW x, NEW T, NEW o, \A u \in T : ~(x >= u[1])
    PROVE  Tier(x, T, o) = o
BY DEF Tier

\* A table of four bounds, or of three with the last one twice, is a staircase.
Stairs(x, a, va, b, vb, c, vc, d, vd, o) ==
    IF x >= a THEN va ELSE IF x >= b THEN vb ELSE IF x >= c THEN vc ELSE IF x >= d THEN vd ELSE o

LEMMA TierIsStaircase ==
    ASSUME NEW x \in Int, NEW a \in Int, NEW b \in Int, NEW c \in Int, NEW d \in Int,
           NEW va, NEW vb, NEW vc, NEW vd, NEW o, a > b, b > c, c > d \/ (c = d /\ vc = vd)
    PROVE  Tier(x, {<<a, va>>, <<b, vb>>, <<c, vc>>, <<d, vd>>}, o) = Stairs(x, a, va, b, vb, c, vc, d, vd, o)
<1> DEFINE A == <<a, va>>
           B == <<b, vb>>
           C == <<c, vc>>
           D == <<d, vd>>
           T == {A, B, C, D}
<1>1. A[1] = a /\ A[2] = va /\ B[1] = b /\ B[2] = vb /\ C[1] = c /\ C[2] = vc /\ D[1] = d /\ D[2] = vd
  OBVIOUS
<1>2. A \in T /\ B \in T /\ C \in T /\ D \in T /\ \A u \in T : u = A \/ u = B \/ u = C \/ u = D
  OBVIOUS
<1>3. Tier(x, T, o) = Stairs(x, a, va, b, vb, c, vc, d, vd, o)
  <2> HIDE DEF T, A, B, C, D
  <2>0. \A u \in T : u[1] \in Int
    BY <1>1, <1>2
  <2>1. CASE x >= a
    <3>1. \A u \in T : x >= u[1] => A[1] >= u[1] /\ (u[1] = A[1] => u[2] = A[2])
      BY <1>1, <1>2, <2>1
    <3>2. Tier(x, T, o) = A[2]
      BY <1>1, <1>2, <2>0, <2>1, <3>1, TierReached
    <3> QED BY <1>1, <2>1, <3>2 DEF Stairs
  <2>2. CASE x < a /\ x >= b
    <3>1. \A u \in T : x >= u[1] => B[1] >= u[1] /\ (u[1] = B[1] => u[2] = B[2])
      BY <1>1, <1>2, <2>2
    <3>2. Tier(x, T, o) = B[2]
      BY <1>1, <1>2, <2>0, <2>2, <3>1, TierReached
    <3> QED BY <1>1, <2>2, <3>2 DEF Stairs
  <2>3. CASE x < b /\ x >= c
    <3>1. \A u \in T : x >= u[1] => C[1] >= u[1] /\ (u[1] = C[1] => u[2] = C[2])
      BY <1>1, <1>2, <2>3
    <3>2. Tier(x, T, o) = C[2]
      BY <1>1, <1>2, <2>0, <2>3, <3>1, TierReached
    <3> QED BY <1>1, <2>3, <3>2 DEF Stairs
  <2>4. CASE x < c /\ x >= d
    <3>1. \A u \in T : x >= u[1] => D[1] >= u[1] /\ (u[1] = D[1] => u[2] = D[2])
      BY <1>1, <1>2, <2>4
    <3>2. Tier(x, T, o) = D[2]
      BY <1>1, <1>2, <2>0, <2>4, <3>1, TierReached
    <3> QED BY <1>1, <2>4, <3>2 DEF Stairs
  <2>5. CASE x < d
    <3>1. \A u \in T : ~(x >= u[1])
      BY <1>1, <1>2, <2>5
    <3> QED BY <2>5, <3>1, NoTierReached DEF Stairs
  <2> QED
    BY <2>1, <2>2, <2>3, <2>4, <2>5
<1> QED
  BY <1>3

\* The tables of the scores do not fall as their argument grows.
OtmScore(x) == Tier(x, {<<20, 100>>, <<15, 80>>, <<10, 50>>, <<5, 30>>}, 10)
InterestScore(x) == Tier(x, {<<1000, 100>>, <<500, 70>>, <<100, 40>>}, 10)
SpreadScore(x) == Tier(x, {<<-5, 100>>, <<-10, 70>>, <<-20, 40>>}, 10)
VolumeScore(x) == Tier(x, {<<500, 100>>, <<100, 60>>, <<1, 30>>}, 10)
ReturnScore(x) == Tier(x, {<<30, 100>>, <<20, 80>>, <<10, 60>>, <<5, 40>>}, 20)

LEMMA ScoresRise ==
    ASSUME NEW x \in Int, NEW y \in Int, x >= y
    PROVE  /\ OtmScore(x) \in 10..100 /\ OtmScore(y) \in 10..100 /\ OtmScore(x) >= OtmScore(y)
           /\ InterestScore(x) \in 10..100 /\ InterestScore(y) \in 10..100 /\ InterestScore(x) >= InterestScore(y)
           /\ SpreadScore(x) \in 10..100 /\ SpreadScore(y) \in 10..100 /\ SpreadScore(x) >= SpreadScore(y)
           /\ VolumeScore(x) \in 10..100 /\ VolumeScore(y) \in 10..100 /\ VolumeScore(x) >= VolumeScore(y)
           /\ ReturnScore(x) \in 20..100 /\ ReturnScore(y) \in 20..100 /\ ReturnScore(x) >= ReturnScore(y)
<1>1. ASSUME NEW z \in Int PROVE OtmScore(z) = Stairs(z, 20, 100, 15, 80, 10, 50, 5, 30, 10)
  BY TierIsStaircase DEF OtmScore
<1>2. ASSUME NEW z \in Int PROVE ReturnScore(z) = Stairs(z, 30, 100, 20, 80, 10, 60, 5, 40, 20)
  BY TierIsStaircase DEF ReturnScore
<1>3. ASSUME NEW z \in Int PROVE InterestScore(z) = Stairs(z, 1000, 100, 500, 70, 100, 40, 100, 40, 10)
  <2>1. {<<1000, 100>>, <<500, 70>>, <<100, 40>>} = {<<1000, 100>>, <<500, 70>>, <<100, 40>>, <<100, 40>>}
    OBVIOUS
  <2> QED
    BY <2>1, TierIsStaircase DEF InterestScore
<1>4. ASSUME NEW z \in Int PROVE SpreadScore(z) = Stairs(z, -5, 100, -10, 70, -20, 40, -20, 40, 10)
  <2>1. {<<-5, 100>>, <<-10, 70>>, <<-20, 40>>} = {<<-5, 100>>, <<-10, 70>>, <<-20, 40>>, <<-20, 40>>}
    OBVIOUS
  <2> QED
    BY <2>1, TierIsStaircase DEF SpreadScore
<1>5. ASSUME NEW z \in Int PROVE VolumeScore(z) = Stairs(z, 500, 100, 100, 60, 1, 30, 1, 30, 10)
  <2>1. {<<500, 100>>, <<100, 60>>, <<1, 30>>} = {<<500, 100>>, <<100, 60>>, <<1, 30>>, <<1, 30>>}
    OBVIOUS
  <2> QED
    BY <2>1, TierIsStaircase DEF VolumeScore
<1> QED
  BY <1>1, <1>2, <1>3, <1>4, <1>5 DEF Stairs

\* A quotient does not fall when the other one, multiplied out, is not larger.
LEMMA QuotientsRise ==
    ASSUME NEW a \in Nat, NEW c \in Nat, NEW b \in Nat \ {0}, NEW d \in Nat \ {0}, a * d >= c * b
    PROVE  a \div b >= c \div d /\ a \div b \in Nat /\ c \div d \in Nat
<1>1. PICK k \in Nat : k = c \div d /\ d * k <= c
  OBVIOUS
<1>2. PICK l \in Nat : l = a \div b /\ a < b * l + b
  OBVIOUS
<1>3. ASSUME l < k PROVE FALSE
  <2>1. b * (l + 1) <= b * k
    BY <1>3
  <2>2. a < b * k
    BY <1>2, <2>1
  <2>3. a * d < (b * k) * d
    BY <2>2
  <2>4. (b * k) * d = b * (d * k)
    OBVIOUS
  <2>5. b * (d * k) <= b * c
    BY <1>1
  <2> QED
    BY <2>3, <2>4, <2>5
<1> QED
  BY <1>1, <1>2, <1>3

LEMMA QuoteTypes ==
    ASSUME NEW p \in PutQuote
    PROVE  /\ p.delta \in Nat /\ p.otm \in Nat /\ p.interest \in Nat /\ p.volume \in Nat
           /\ p.bid \in Nat /\ p.ask \in Nat /\ p.dte \in Nat /\ p.strike \in Nat
           /\ p.stock \in Nat /\ p.margin \in Nat
BY DEF PutQuote

LEMMA MarginIsNumber == \A p \in PutQuote : PutMargin(p) \in Nat
<1> SUFFICES ASSUME NEW p \in PutQuote PROVE PutMargin(p) \in Nat
  OBVIOUS
<1>1. PICK m \in Nat, st \in Nat, k \in Nat, b \in Nat :
        m = p.margin /\ st = p.stock /\ k = p.strike /\ b = p.bid
  BY QuoteTypes
<1>2. (20 * st) \div 100 \in Int /\ Positive(st - k) \in Int /\ b \div 100 \in Int /\ st \div 10 \in Nat
  BY DEF Positive
<1>3. \A x \in Int, y \in Nat : Greatest(x, y) * 100 \in Nat
  BY DEF Greatest
<1>4. (20 * st) \div 100 - Positive(st - k) + b \div 100 \in Int
  BY <1>2
<1>5. RegT(p) \in Nat
  BY <1>1, <1>2, <1>3, <1>4 DEF RegT
<1> QED
  BY <1>1, <1>5 DEF PutMargin

LEMMA SpreadIsNumber == \A p \in PutQuote : SpreadPercent(p) \in Int
<1> SUFFICES ASSUME NEW p \in PutQuote PROVE SpreadPercent(p) \in Int
  OBVIOUS
<1>1. PICK a \in Nat, b \in Nat : a = p.ask /\ b = p.bid
  BY QuoteTypes
<1>2. b > 0 /\ a > 0 => (200 * (a - b)) \div (a + b) \in Int
  OBVIOUS
<1> QED
  BY <1>1, <1>2 DEF SpreadPercent

\* The three parts of a score.
LEMMA SafetyRises ==
    ASSUME NEW p \in PutQuote, NEW q \in PutQuote, Dominates(p, q), p.delta >= DeltaMin
    PROVE  /\ SafetyScore(p) \in Nat /\ SafetyScore(q) \in Nat
           /\ SafetyScore(p) >= SafetyScore(q) + 60
<1> DEFINE near(a) == Positive(100 - (100 * a) \div 300)
           part(r) == IF r.delta > 200 THEN Least(near(Away(r)), 30) ELSE near(Away(r))
<1>1. \A r : SafetyScore(r) = 60 * part(r) + 40 * OtmScore(r.otm)
  BY DEF SafetyScore, Away, Greatest, DeltaTarget, OtmScore
<1>2. PICK a \in Nat, b \in Nat : a = Away(p) /\ b = Away(q) /\ a + 3 <= b /\ a <= 135
  BY QuoteTypes DEF Dominates, Away, Positive, DeltaTarget, DeltaMin
<1>3. near(a) \in Nat /\ near(b) \in Nat /\ near(a) >= near(b) + 1
  BY <1>2 DEF Positive
<1>4. part(p) = near(a)
  <2>1. p.delta \in Nat /\ ~(p.delta > 200)
    BY QuoteTypes DEF Dominates
  <2> QED
    BY <1>2, <2>1
<1>5. part(q) \in Nat /\ part(q) <= near(b)
  <2>1. part(q) = near(b) \/ part(q) = Least(near(b), 30)
    BY <1>2
  <2> HIDE DEF near, part
  <2> QED
    BY <1>3, <2>1 DEF Least
<1>6. /\ OtmScore(p.otm) \in Nat /\ OtmScore(q.otm) \in Nat
      /\ OtmScore(p.otm) >= OtmScore(q.otm)
  <2>1. p.otm \in Int /\ q.otm \in Int /\ p.otm >= q.otm
    BY QuoteTypes DEF Dominates
  <2>2. OtmScore(p.otm) \in 10..100 /\ OtmScore(q.otm) \in 10..100 /\ OtmScore(p.otm) >= OtmScore(q.otm)
    BY <2>1, ScoresRise, Z3
  <2> QED
    BY <2>2
<1> HIDE DEF near, part
<1> QED
  BY <1>1, <1>3, <1>4, <1>5, <1>6

LEMMA LiquidityRises ==
    ASSUME NEW p \in PutQuote, NEW q \in PutQuote, Dominates(p, q)
    PROVE  /\ LiquidityScore(p) \in Nat /\ LiquidityScore(q) \in Nat
           /\ LiquidityScore(p) >= LiquidityScore(q)
<1>1. \A r : LiquidityScore(r) =
         (100 * (InterestScore(r.interest) + SpreadScore(-SpreadPercent(r)) + VolumeScore(r.volume))) \div 3
  BY DEF LiquidityScore, InterestScore, SpreadScore, VolumeScore
<1>2. PICK i \in Nat, j \in Nat : i = InterestScore(p.interest) /\ j = InterestScore(q.interest) /\ i >= j
  <2>1. p.interest \in Int /\ q.interest \in Int /\ p.interest >= q.interest
    BY QuoteTypes DEF Dominates
  <2>2. /\ InterestScore(p.interest) \in 10..100 /\ InterestScore(q.interest) \in 10..100
        /\ InterestScore(p.interest) >= InterestScore(q.interest)
    BY <2>1, ScoresRise, Z3
  <2> QED
    BY <2>2
<1>3. PICK v \in Nat, w \in Nat : v = VolumeScore(p.volume) /\ w = VolumeScore(q.volume) /\ v >= w
  <2>1. p.volume \in Int /\ q.volume \in Int /\ p.volume >= q.volume
    BY QuoteTypes DEF Dominates
  <2>2. /\ VolumeScore(p.volume) \in 10..100 /\ VolumeScore(q.volume) \in 10..100
        /\ VolumeScore(p.volume) >= VolumeScore(q.volume)
    BY <2>1, ScoresRise, Z3
  <2> QED
    BY <2>2
<1>4. PICK s \in Nat, t \in Nat :
        s = SpreadScore(-SpreadPercent(p)) /\ t = SpreadScore(-SpreadPercent(q)) /\ s >= t
  <2>1. /\ -SpreadPercent(p) \in Int /\ -SpreadPercent(q) \in Int
        /\ -SpreadPercent(p) >= -SpreadPercent(q)
    BY SpreadIsNumber DEF Dominates
  <2>2. /\ SpreadScore(-SpreadPercent(p)) \in 10..100 /\ SpreadScore(-SpreadPercent(q)) \in 10..100
        /\ SpreadScore(-SpreadPercent(p)) >= SpreadScore(-SpreadPercent(q))
    BY <2>1, ScoresRise, Z3
  <2> QED
    BY <2>2
<1>5. (100 * (i + s + v)) \div 3 >= (100 * (j + t + w)) \div 3
  BY <1>2, <1>3, <1>4
<1> QED
  BY <1>1, <1>2, <1>3, <1>4, <1>5

LEMMA EfficiencyRises ==
    ASSUME NEW p \in PutQuote, NEW q \in PutQuote, Dominates(p, q)
    PROVE  /\ EfficiencyScore(p) \in Nat /\ EfficiencyScore(q) \in Nat
           /\ EfficiencyScore(p) >= EfficiencyScore(q)
<1> DEFINE rate(r) == (r.bid * 36500) \div (PutMargin(r) * r.dte)
<1>1. \A r \in PutQuote :
         EfficiencyScore(r) = IF HasReturn(r) THEN 100 * ReturnScore(rate(r)) ELSE 0
  BY MarginIsNumber, QuoteTypes DEF EfficiencyScore, ReturnScore, HasReturn
<1>2. ASSUME NEW r \in PutQuote, HasReturn(r) PROVE PutMargin(r) * r.dte \in Nat \ {0} /\ rate(r) \in Nat
  <2>1. PICK m \in Nat \ {0}, d \in Nat \ {0}, b \in Nat : m = PutMargin(r) /\ d = r.dte /\ b = r.bid
    BY <1>2, MarginIsNumber, QuoteTypes DEF HasReturn
  <2>2. m * d \in Nat \ {0}
    OBVIOUS
  <2>3. PICK e \in Nat \ {0} : e = m * d
    BY <2>2
  <2>4. (b * 36500) \div e \in Nat
    OBVIOUS
  <2> QED
    BY <2>1, <2>2, <2>3, <2>4
<1>3. ASSUME NEW r \in PutQuote PROVE EfficiencyScore(r) \in Nat
  <2>1. HasReturn(r) => ReturnScore(rate(r)) \in Nat
    BY <1>2, ScoresRise
  <2> HIDE DEF rate
  <2> QED
    BY <1>1, <2>1
<1>4. CASE ~HasReturn(q)
  <2>1. EfficiencyScore(q) = 0
    BY <1>1, <1>4
  <2> QED
    BY <1>3, <2>1
<1>5. CASE HasReturn(q)
  <2>1. HasReturn(p) /\ p.bid * (PutMargin(q) * q.dte) >= q.bid * (PutMargin(p) * p.dte)
    BY <1>5 DEF Dominates, ReturnsAsMuch
  <2>2. PICK b \in Nat \ {0}, d \in Nat \ {0}, x \in Nat, y \in Nat :
           /\ b = PutMargin(p) * p.dte /\ d = PutMargin(q) * q.dte /\ x = p.bid /\ y = q.bid
           /\ x * d >= y * b
    BY <1>2, <1>5, <2>1, QuoteTypes
  <2>3. (x * 36500) * d >= (y * 36500) * b
    <3>1. \A m, n \in Nat : m >= n => m * 36500 >= n * 36500
      OBVIOUS
    <3>2. x * d \in Nat /\ y * b \in Nat
      OBVIOUS
    <3>3. (x * d) * 36500 >= (y * b) * 36500
      BY <2>2, <3>1, <3>2
    <3>4. (x * d) * 36500 = (x * 36500) * d /\ (y * b) * 36500 = (y * 36500) * b
      OBVIOUS
    <3> QED
      BY <3>3, <3>4
  <2>4. PICK u \in Nat, v \in Nat : u = x * 36500 /\ v = y * 36500
    OBVIOUS
  <2>5. u \div b >= v \div d /\ u \div b \in Nat /\ v \div d \in Nat
    <3>1. u * d >= v * b
      BY <2>3, <2>4
    <3>2. \A i, j \in Nat, k, l \in Nat \ {0} :
            i * l >= j * k => i \div k >= j \div l /\ i \div k \in Nat /\ j \div l \in Nat
      BY QuotientsRise
    <3>3. b \in Nat \ {0} /\ d \in Nat \ {0} /\ u \in Nat /\ v \in Nat
      OBVIOUS
    <3> HIDE DEF rate
    <3> QED
      BY ONLY <3>1, <3>2, <3>3, Zenon
  <2>6. rate(p) = u \div b /\ rate(q) = v \div d
    BY <2>2, <2>4
  <2>7. PICK g \in Nat, h \in Nat : g = ReturnScore(rate(p)) /\ h = ReturnScore(rate(q)) /\ g >= h
    <3>1. PICK k \in Nat, l \in Nat : k = rate(p) /\ l = rate(q) /\ k >= l
      <4> HIDE DEF rate
      <4> QED BY <2>5, <2>6
    <3>2. ReturnScore(k) \in 20..100 /\ ReturnScore(l) \in 20..100 /\ ReturnScore(k) >= ReturnScore(l)
      BY <3>1, ScoresRise, Z3
    <3> HIDE DEF rate
    <3> QED BY <3>1, <3>2
  <2> HIDE DEF rate
  <2> QED
    BY <1>1, <1>5, <2>1, <2>7
<1> QED
  BY <1>4, <1>5

LEMMA CompositeRises ==
    ASSUME NEW p \in PutQuote, NEW q \in PutQuote, Dominates(p, q), p.delta >= DeltaMin
    PROVE  Composite(p) > Composite(q)
<1>1. PICK a \in Nat, b \in Nat, c \in Nat : a = SafetyScore(p) /\ b = LiquidityScore(p) /\ c = EfficiencyScore(p)
  BY SafetyRises, LiquidityRises, EfficiencyRises
<1>2. PICK d \in Nat, e \in Nat, f \in Nat :
        /\ d = SafetyScore(q) /\ e = LiquidityScore(q) /\ f = EfficiencyScore(q)
        /\ a >= d + 60 /\ b >= e /\ c >= f
  BY <1>1, SafetyRises, LiquidityRises, EfficiencyRises
<1>3. (40 * a + 30 * b + 10 * c) \div 80 > (40 * d + 30 * e + 10 * f) \div 80
  BY <1>2
<1>4. /\ Composite(p) = (40 * a + 30 * b + 10 * c) \div (40 + 30 + 10)
      /\ Composite(q) = (40 * d + 30 * e + 10 * f) \div (40 + 30 + 10)
  BY <1>1, <1>2 DEF Composite, Weights
<1> QED
  BY <1>3, <1>4

\* A finite set of puts has one with the highest score.
LEMMA BestExists ==
    ASSUME NEW S, IsFiniteSet(S), S # {}, \A r \in S : Composite(r) \in Int
    PROVE  \E r \in S : \A u \in S : Composite(u) <= Composite(r)
<1> DEFINE Good == {n \in Nat : \A T \in SUBSET S : IsFiniteSet(T) /\ Cardinality(T) = n /\ T # {} =>
                        \E r \in T : \A u \in T : Composite(u) <= Composite(r)}
<1>1. 0 \in Good
  BY FS_EmptySet
<1>2. ASSUME NEW n \in Nat, n \in Good PROVE n + 1 \in Good
  <2>1. ASSUME NEW T \in SUBSET S, IsFiniteSet(T), Cardinality(T) = n + 1, T # {}
        PROVE  \E r \in T : \A u \in T : Composite(u) <= Composite(r)
    <3> DEFINE t == Taken(T)
               R == T \ {t}
    <3>1. t \in T /\ IsFiniteSet(R) /\ Cardinality(R) = n
      BY <2>1, Smaller
    <3>2. CASE R = {}
      BY <3>1, <3>2
    <3>3. CASE R # {}
      <4>1. PICK r \in R : \A u \in R : Composite(u) <= Composite(r)
        <5> HIDE DEF R, t
        <5>1. R \in SUBSET S
          BY DEF R
        <5> QED BY <1>2, <3>1, <3>3, <5>1
      <4>2. Composite(r) \in Int /\ Composite(t) \in Int /\ r \in T
        BY <3>1
      <4>3. \A u \in T : Composite(u) \in Int /\ (u = t \/ u \in R)
        OBVIOUS
      <4> HIDE DEF R, t
      <4>4. CASE Composite(t) <= Composite(r)
        BY <4>1, <4>2, <4>3, <4>4
      <4>5. CASE Composite(r) <= Composite(t)
        BY <3>1, <4>1, <4>2, <4>3, <4>5
      <4> QED
        BY <4>2, <4>4, <4>5
    <3> QED
      BY <3>2, <3>3
  <2> QED
    BY <2>1
<1> HIDE DEF Good
<1>3. Nat \subseteq Good
  BY <1>1, <1>2, Induction
<1>4. Cardinality(S) \in Nat
  BY FS_CardinalityType
<1> QED
  BY <1>3, <1>4 DEF Good

\* Any put has a rival of the shortest term.
LEMMA ShortestExists ==
    ASSUME NEW S, S # {}, \A r \in S : r.dte \in Nat
    PROVE  \E r \in S : \A u \in S : r.dte <= u.dte
<1> DEFINE Terms == {r.dte : r \in S}
           Good == {n \in Nat : \A k \in Terms : n <= k}
<1> SUFFICES ASSUME ~\E r \in S : \A u \in S : r.dte <= u.dte PROVE FALSE
  OBVIOUS
<1>1. Terms \subseteq Nat /\ Terms # {} /\ \A k \in Terms : \E m \in Terms : ~(k <= m)
  OBVIOUS
<1> HIDE DEF Terms
<1>2. 0 \in Good
  BY <1>1
<1>3. ASSUME NEW n \in Nat, n \in Good PROVE n + 1 \in Good
  <2>1. \A k \in Terms : n <= k /\ k \in Nat
    BY <1>1, <1>3
  <2>2. n \notin Terms
    BY <1>1, <2>1
  <2> QED
    BY <2>1, <2>2
<1>4. PICK k \in Terms : TRUE
  BY <1>1
<1> HIDE DEF Good
<1>5. k + 1 \in Good
  BY <1>1, <1>2, <1>3, Induction
<1> QED
  BY <1>1, <1>4, <1>5 DEF Good


\* Every put has a score.
LEMMA TableScores ==
    \A x \in Int : /\ OtmScore(x) \in Nat /\ InterestScore(x) \in Nat /\ SpreadScore(x) \in Nat
                   /\ VolumeScore(x) \in Nat /\ ReturnScore(x) \in Nat
<1> SUFFICES ASSUME NEW x \in Int
             PROVE  /\ OtmScore(x) \in Nat /\ InterestScore(x) \in Nat /\ SpreadScore(x) \in Nat
                    /\ VolumeScore(x) \in Nat /\ ReturnScore(x) \in Nat
  OBVIOUS
<1>1. /\ OtmScore(x) \in 10..100 /\ InterestScore(x) \in 10..100 /\ SpreadScore(x) \in 10..100
      /\ VolumeScore(x) \in 10..100 /\ ReturnScore(x) \in 20..100
  BY ScoresRise, Z3
<1> QED
  BY <1>1

LEMMA EfficiencyIsNumber == \A r \in PutQuote : EfficiencyScore(r) \in Nat
<1> SUFFICES ASSUME NEW r \in PutQuote PROVE EfficiencyScore(r) \in Nat
  OBVIOUS
<1>1. PICK m \in Nat, d \in Nat, b \in Nat : m = PutMargin(r) /\ d = r.dte /\ b = r.bid
  BY MarginIsNumber, QuoteTypes
<1>2. CASE m = 0 \/ d = 0
  BY <1>1, <1>2 DEF EfficiencyScore
<1>3. CASE m # 0 /\ d # 0
  <2>1. m * d \in Nat \ {0}
    BY <1>3
  <2>2. (b * 36500) \div (m * d) \in Int
    <3>1. PICK e \in Nat \ {0} : e = m * d
      BY <2>1
    <3>2. (b * 36500) \div e \in Int
      OBVIOUS
    <3> QED
      BY <3>1, <3>2
  <2>3. ReturnScore((b * 36500) \div (m * d)) \in Nat
    BY <2>2, TableScores
  <2>4. EfficiencyScore(r) = 100 * ReturnScore((b * 36500) \div (m * d))
    BY <1>1, <1>3 DEF EfficiencyScore, ReturnScore
  <2> QED
    BY <2>3, <2>4
<1> QED
  BY <1>2, <1>3

LEMMA ScoresAreNumbers == \A p \in PutQuote : Composite(p) \in Nat
<1> SUFFICES ASSUME NEW p \in PutQuote PROVE Composite(p) \in Nat
  OBVIOUS
<1>1. PICK a \in Nat : a = SafetyScore(p)
  <2> DEFINE near == Positive(100 - (100 * Away(p)) \div 300)
             part == IF p.delta > 200 THEN Least(near, 30) ELSE near
  <2>1. SafetyScore(p) = 60 * part + 40 * OtmScore(p.otm)
    BY DEF SafetyScore, Away, Greatest, DeltaTarget, OtmScore
  <2>2. Away(p) \in Nat
    BY QuoteTypes DEF Away, Positive, DeltaTarget
  <2>3. near \in Nat
    BY <2>2 DEF Positive
  <2>4. part \in Nat
    <3> HIDE DEF near
    <3> QED BY <2>3 DEF Least
  <2>5. OtmScore(p.otm) \in Nat
    BY QuoteTypes, TableScores
  <2> HIDE DEF part, near
  <2> QED
    BY <2>1, <2>4, <2>5
<1>2. PICK b \in Nat : b = LiquidityScore(p)
  <2>1. LiquidityScore(p) =
          (100 * (InterestScore(p.interest) + SpreadScore(-SpreadPercent(p)) + VolumeScore(p.volume))) \div 3
    BY DEF LiquidityScore, InterestScore, SpreadScore, VolumeScore
  <2>2. PICK i \in Nat, j \in Nat, k \in Nat :
          i = InterestScore(p.interest) /\ j = SpreadScore(-SpreadPercent(p)) /\ k = VolumeScore(p.volume)
    <3>1. p.interest \in Int /\ -SpreadPercent(p) \in Int /\ p.volume \in Int
      BY QuoteTypes, SpreadIsNumber
    <3>2. /\ InterestScore(p.interest) \in Nat /\ SpreadScore(-SpreadPercent(p)) \in Nat
          /\ VolumeScore(p.volume) \in Nat
      BY <3>1, TableScores
    <3> QED
      BY <3>2
  <2> QED
    BY <2>1, <2>2
<1>3. PICK c \in Nat : c = EfficiencyScore(p)
  BY EfficiencyIsNumber
<1>4. (40 * a + 30 * b + 10 * c) \div 80 \in Nat
  OBVIOUS
<1> QED
  BY <1>1, <1>2, <1>3, <1>4 DEF Composite, Weights

-----------------------------------------------------------------------------
(* The put picked.                                                         *)

LEMMA SomeBest ==
    ASSUME NEW puts \in SUBSET PutQuote, IsFiniteSet(puts), puts # {}
    PROVE  BestOf(puts) # {}
<1>1. Contenders(puts) # {}
  BY ShortestExists, QuoteTypes DEF Contenders
<1>2. Contenders(puts) \subseteq puts
  BY DEF Contenders
<1>3. IsFiniteSet(Contenders(puts)) /\ \A r \in Contenders(puts) : Composite(r) \in Int
  BY <1>2, FS_Subset, ScoresAreNumbers
<1> QED
  BY <1>1, <1>3, BestExists DEF BestOf

\* A put that dominates another is in its way.
LEMMA BestStandsAlone ==
    ASSUME NEW s, NEW puts \in SUBSET PutQuote, NEW q \in BestOf(Candidates(s, puts)),
           NEW p \in Candidates(s, puts)
    PROVE  ~Dominates(p, q)
<1> SUFFICES ASSUME Dominates(p, q) PROVE FALSE
  OBVIOUS
<1> DEFINE C == Candidates(s, puts)
<1>1. p \in PutQuote /\ p.delta >= DeltaMin /\ C \subseteq PutQuote
  BY QuoteTypes DEF Candidates, DeltaMin
<1>2. q \in Contenders(C) /\ \A u \in Contenders(C) : Composite(u) <= Composite(q)
  BY DEF BestOf
<1>3. q \in C /\ q \in PutQuote
  BY <1>1, <1>2 DEF Contenders
<1>4. p \in Contenders(C)
  <2>1. ASSUME NEW u \in C, Shortest PROVE p.dte <= u.dte
    <3>1. p.dte <= q.dte /\ q.dte <= u.dte
      BY <1>2, <2>1 DEF Contenders, Dominates
    <3>2. p.dte \in Nat /\ q.dte \in Nat /\ u.dte \in Nat
      BY <1>1, <1>3, QuoteTypes
    <3> QED
      BY <3>1, <3>2
  <2> QED
    BY <2>1 DEF Contenders
<1>5. Composite(p) > Composite(q)
  BY <1>1, <1>3, CompositeRises
<1>6. Composite(p) \in Nat /\ Composite(q) \in Nat /\ Composite(p) <= Composite(q)
  BY <1>1, <1>2, <1>3, <1>4, ScoresAreNumbers
<1> QED
  BY <1>5, <1>6

\* The put picked is one of the best of the chain it was picked from.
PickedFromChain ==
    /\ chain \in [Scanned -> SUBSET ChainPuts]
    /\ DOMAIN best = Scanned
    /\ \A s \in Scanned : best[s] = Unpicked \/ best[s].put \in BestOf(Candidates(s, chain[s]))

LEMMA PickKeepsBest ==
    ASSUME PickedFromChain, NEW s \in Scanned, Pick(s)
    PROVE  PickedFromChain'
<1>1. PICK puts \in SUBSET ChainPuts, ai \in AiScores, vix \in Vixes :
        /\ chain' = [chain EXCEPT ![s] = puts]
        /\ best' = [best EXCEPT ![s] =
                      IF Candidates(s, puts) = {} THEN Unpicked
                      ELSE LET p == CHOOSE q \in BestOf(Candidates(s, puts)) : TRUE
                           IN [put |-> p, contracts |-> SizedContracts(p, vix),
                               score |-> Composite4(p, ai)]]
  BY DEF Pick
<1>2. chain' \in [Scanned -> SUBSET ChainPuts] /\ DOMAIN best' = Scanned
  BY <1>1 DEF PickedFromChain
<1>3. best'[s] = Unpicked \/ best'[s].put \in BestOf(Candidates(s, puts))
  <2>1. CASE Candidates(s, puts) = {}
    BY <1>1, <2>1 DEF PickedFromChain
  <2>2. CASE Candidates(s, puts) # {}
    <3>1. Candidates(s, puts) \in SUBSET PutQuote /\ IsFiniteSet(Candidates(s, puts))
      BY SelectionBounds, FS_Subset DEF Candidates
    <3>2. BestOf(Candidates(s, puts)) # {}
      BY <2>2, <3>1, SomeBest
    <3>3. best'[s].put = CHOOSE q \in BestOf(Candidates(s, puts)) : TRUE
      BY <1>1, <2>2 DEF PickedFromChain
    <3> QED
      BY <3>2, <3>3
  <2> QED
    BY <2>1, <2>2
<1>4. \A o \in Scanned : o # s => best'[o] = best[o] /\ chain'[o] = chain[o]
  BY <1>1 DEF PickedFromChain
<1>5. chain'[s] = puts
  BY <1>1 DEF PickedFromChain
<1>6. ASSUME NEW o \in Scanned
      PROVE  best'[o] = Unpicked \/ best'[o].put \in BestOf(Candidates(o, chain'[o]))
  BY <1>3, <1>4, <1>5 DEF PickedFromChain
<1> QED
  BY <1>2, <1>6 DEF PickedFromChain, BestOf, Contenders, Candidates

\* No put that the filters let through is passed over for one that is farther from the
\* target delta and no better in any respect a score looks at, whatever the chains
\* (auto_selector.py:select_best_per_symbol).
THEOREM BestPutsAreUndominated == SelectionSpec => []BestIsUndominated
<1>1. SelectionInit => PickedFromChain
  BY DEF SelectionInit, PickedFromChain
<1>2. PickedFromChain /\ [SelectionNext]_selectionVars => PickedFromChain'
  <2>1. ASSUME PickedFromChain, NEW s \in Scanned, Pick(s) PROVE PickedFromChain'
    BY <2>1, PickKeepsBest
  <2>2. ASSUME PickedFromChain, UNCHANGED selectionVars PROVE PickedFromChain'
    BY <2>2 DEF PickedFromChain, selectionVars, BestOf, Contenders, Candidates
  <2> QED
    BY <2>1, <2>2 DEF SelectionNext
<1>3. PickedFromChain => BestIsUndominated
  <2>1. ASSUME PickedFromChain, NEW s \in Scanned, best[s] # Unpicked,
               NEW p \in Candidates(s, chain[s])
        PROVE  ~Dominates(p, best[s].put)
    <3>1. chain[s] \in SUBSET PutQuote
      BY <2>1, SelectionBounds DEF PickedFromChain
    <3>2. best[s].put \in BestOf(Candidates(s, chain[s]))
      BY <2>1 DEF PickedFromChain
    <3> QED
      BY <2>1, <3>1, <3>2, BestStandsAlone
  <2> QED
    BY <2>1 DEF BestIsUndominated
<1> QED
  BY <1>1, <1>2, <1>3, PTL DEF SelectionSpec

-----------------------------------------------------------------------------
(* The portfolio.                                                          *)

\* The margins of all the offers, as one function.
Totals == [o \in Offers |-> TotalMargin(o)]
OfSector(S, s) == {o \in S : OfferSector[o] = s}

\* The counters of the loop say what is true of the trades chosen, and none that
\* was passed over would fit now.
GreedySafe ==
    /\ GreedyTypeOK
    /\ chosen \cap passed = {} /\ (chosen \cup passed) \cap ahead = {}
    /\ ahead = Offers => chosen = {} /\ passed = {}
    /\ count = Cardinality(chosen)
    /\ \A s \in Sectors : sectorCount[s] = Cardinality(OfSector(chosen, s))
    /\ seen = {OfferSymbol[o] : o \in chosen}
    /\ committed = SumFunctionOnSet(Totals, chosen)
    /\ \A o, p \in chosen : o # p => OfferSymbol[o] # OfferSymbol[p]
    /\ count <= MaxTrades /\ committed <= TradeBudget
    /\ \A s \in Sectors : sectorCount[s] <= MaxInSector
    /\ \A o \in passed : ~Fits(o)

LEMMA TotalsAreNumbers ==
    ASSUME GreedyTypeOK
    PROVE  \A o \in Offers : TotalMargin(o) \in Nat /\ Totals[o] = TotalMargin(o)
<1> SUFFICES ASSUME NEW o \in Offers PROVE TotalMargin(o) \in Nat /\ Totals[o] = TotalMargin(o)
  OBVIOUS
<1>1. Effective(o) \in Nat /\ Amount[o] \in Nat
  BY OfferFacts DEF GreedyTypeOK, Effective
<1>2. \A a, b \in Nat : a * b \in Nat
  OBVIOUS
<1> QED
  BY <1>1, <1>2 DEF TotalMargin, Totals

LEMMA GreedyStart == GreedyInit => GreedySafe
<1> SUFFICES ASSUME GreedyInit PROVE GreedySafe
  OBVIOUS
<1>1. GreedyTypeOK
  BY OfferFacts DEF GreedyInit, GreedyTypeOK
<1>2. \A s \in Sectors : sectorCount[s] = 0 /\ OfSector(chosen, s) = {}
  BY DEF GreedyInit, OfSector
<1>3. chosen = {} /\ passed = {} /\ count = 0 /\ committed = 0 /\ seen = {}
  BY DEF GreedyInit
<1>4. Cardinality({}) = 0 /\ SumFunctionOnSet(Totals, {}) = 0
  BY FS_EmptySet, EmptySum
<1> QED
  BY <1>1, <1>2, <1>3, <1>4, OfferFacts DEF GreedySafe

\* One more trade, of a set that counts rightly.
LEMMA OneMoreTrade ==
    ASSUME NEW S \in SUBSET Offers, NEW o \in Offers, o \notin S, GreedyTypeOK
    PROVE  /\ Cardinality(S \cup {o}) = Cardinality(S) + 1 /\ Cardinality(S) \in Nat
           /\ \A s \in Sectors :
                 Cardinality(OfSector(S \cup {o}, s)) =
                    Cardinality(OfSector(S, s)) + IF s = OfferSector[o] THEN 1 ELSE 0
           /\ \A s \in Sectors : Cardinality(OfSector(S, s)) \in Nat
           /\ SumFunctionOnSet(Totals, S \cup {o}) = SumFunctionOnSet(Totals, S) + TotalMargin(o)
           /\ SumFunctionOnSet(Totals, S) \in Int
<1>1. IsFiniteSet(S)
  BY OfferFacts, FS_Subset
<1>2. Cardinality(S \cup {o}) = Cardinality(S) + 1 /\ Cardinality(S) \in Nat
  BY <1>1, FS_AddElement, FS_CardinalityType
<1>3. ASSUME NEW s \in Sectors
      PROVE  /\ Cardinality(OfSector(S, s)) \in Nat
             /\ Cardinality(OfSector(S \cup {o}, s)) =
                   Cardinality(OfSector(S, s)) + IF s = OfferSector[o] THEN 1 ELSE 0
  <2>1. IsFiniteSet(OfSector(S, s)) /\ o \notin OfSector(S, s)
    BY <1>1, FS_Subset DEF OfSector
  <2>2. OfSector(S \cup {o}, s) = IF s = OfferSector[o] THEN OfSector(S, s) \cup {o} ELSE OfSector(S, s)
    BY DEF OfSector
  <2> QED
    BY <2>1, <2>2, FS_AddElement, FS_CardinalityType
<1>4. \A p \in S \cup {o} : Totals[p] \in Int /\ Totals[o] = TotalMargin(o) /\ TotalMargin(o) \in Int
  BY TotalsAreNumbers
<1>5. SumFunctionOnSet(Totals, S) \in Int
  BY <1>1, <1>4, SumIsNumber
<1>6. SumFunctionOnSet(Totals, S \cup {o}) = Totals[o] + SumFunctionOnSet(Totals, S)
  BY <1>1, <1>4, OneMoreTerm
<1> QED
  BY <1>2, <1>3, <1>4, <1>5, <1>6

LEMMA GreedyStep == GreedySafe /\ [GreedyNext]_greedyVars => GreedySafe'
<1> SUFFICES ASSUME GreedySafe, [GreedyNext]_greedyVars PROVE GreedySafe'
  OBVIOUS
<1> USE DEF GreedySafe
<1>1. CASE UNCHANGED greedyVars
  BY <1>1 DEF greedyVars, GreedyTypeOK, Totals, TotalMargin, Effective, Fits
<1>2. ASSUME NEW o \in Offers, AskMargin(o) PROVE GreedySafe'
  <2>1. GreedyTypeOK'
    <3>1. Round \in 0..1
      BY DEF Round
    <3>2. PICK a \in Answers : margin' = [margin EXCEPT ![o] = IF a < Floor[o] THEN 0 ELSE a]
      BY <1>2 DEF AskMargin
    <3>3. margin' \in [Offers -> Nat]
      BY <3>2, OfferFacts DEF GreedyTypeOK
    <3>4. timesAsked' \in [Offers -> 0..2]
      BY <1>2, <3>1 DEF AskMargin, GreedyTypeOK
    <3> QED
      BY <1>2, <3>3, <3>4 DEF AskMargin, GreedyTypeOK
  <2>2. /\ ahead' = Offers /\ chosen' = {} /\ passed' = {} /\ chosen = {}
        /\ count' = count /\ sectorCount' = sectorCount /\ seen' = seen /\ committed' = committed
    BY <1>2 DEF AskMargin
  <2>3. SumFunctionOnSet(Totals, {}) = 0 /\ SumFunctionOnSet(Totals', {}) = 0
    BY EmptySum
  <2> QED
    BY <2>1, <2>2, <2>3
<1>3. ASSUME NEW o \in Offers, Reach(o) PROVE GreedySafe'
  <2>1. /\ o \in ahead /\ ahead' = ahead \ {o} /\ o \notin chosen /\ o \notin passed
        /\ weekly' = weekly /\ timesAsked' = timesAsked /\ margin' = margin
    BY <1>3 DEF Reach
  <2>2. Totals' = Totals /\ \A p : TotalMargin(p)' = TotalMargin(p)
    BY <2>1 DEF Totals, TotalMargin, Effective
  <2>3. /\ GreedyTypeOK /\ chosen \in SUBSET Offers /\ OfferSector[o] \in Sectors
        /\ \A p \in Offers : TotalMargin(p) \in Nat
    BY TotalsAreNumbers DEF GreedyTypeOK, Sectors
  <2>4. CASE Take(o)
    <3>1. GreedyTypeOK'
      <4>1. committed' \in Nat /\ count' \in Nat
        BY <2>3, <2>4 DEF Take, GreedyTypeOK
      <4>2. sectorCount' \in [Sectors -> Nat]
        BY <2>3, <2>4 DEF Take, GreedyTypeOK
      <4>3. seen' \subseteq STRING
        BY <2>4, OfferFacts DEF Take, GreedyTypeOK
      <4> QED
        BY <2>1, <2>4, <4>1, <4>2, <4>3 DEF Take, GreedyTypeOK
    <3>2. count' = Cardinality(chosen') /\ committed' = SumFunctionOnSet(Totals, chosen')
      BY <2>1, <2>3, <2>4, OneMoreTrade DEF Take, GreedyTypeOK
    <3>3. \A s \in Sectors : /\ sectorCount'[s] = sectorCount[s] + IF s = OfferSector[o] THEN 1 ELSE 0
                             /\ sectorCount[s] \in Nat
      BY <2>3, <2>4 DEF Take, GreedyTypeOK
    <3>4. \A s \in Sectors : sectorCount'[s] = Cardinality(OfSector(chosen', s))
      <4>1. ASSUME NEW s \in Sectors PROVE sectorCount'[s] = Cardinality(OfSector(chosen', s))
        <5>1. chosen' = chosen \cup {o}
          BY <2>4 DEF Take
        <5>2. Cardinality(OfSector(chosen \cup {o}, s)) =
                 Cardinality(OfSector(chosen, s)) + IF s = OfferSector[o] THEN 1 ELSE 0
          BY <2>1, <2>3, OneMoreTrade
        <5> QED
          BY <3>3, <5>1, <5>2
      <4> QED
        BY <4>1
    <3>5. seen' = {OfferSymbol[p] : p \in chosen'}
      BY <2>4 DEF Take
    <3>6. \A p, q \in chosen' : p # q => OfferSymbol[p] # OfferSymbol[q]
      BY <2>4 DEF Take, Fits
    <3>7. /\ count' <= MaxTrades /\ committed' <= TradeBudget
          /\ \A s \in Sectors : sectorCount'[s] <= MaxInSector
      BY <2>3, <2>4, <3>3, OfferFacts DEF Take, Fits, GreedyTypeOK
    <3>8. ASSUME NEW p \in passed' PROVE ~Fits(p)'
      <4>1. p \in Offers /\ ~Fits(p) /\ OfferSector[p] \in Sectors /\ TotalMargin(p)' = TotalMargin(p) /\ TotalMargin(p) \in Nat /\ TotalMargin(o) \in Nat
        BY <2>2, <2>3, <2>4, <3>8 DEF Take, GreedyTypeOK, Sectors
      <4>2. /\ count' >= count /\ seen \subseteq seen' /\ committed' >= committed
            /\ sectorCount'[OfferSector[p]] >= sectorCount[OfferSector[p]]
        BY <2>3, <2>4, <3>3, <4>1 DEF Take, GreedyTypeOK
      <4>3. /\ count \in Nat /\ committed \in Nat /\ count' \in Nat /\ committed' \in Nat
            /\ sectorCount[OfferSector[p]] \in Nat /\ sectorCount'[OfferSector[p]] \in Nat
        BY <3>1, <4>1 DEF GreedyTypeOK
      <4> QED
        BY <4>1, <4>2, <4>3, OfferFacts DEF Fits
    <3>9. /\ chosen' \cap passed' = {} /\ (chosen' \cup passed') \cap ahead' = {}
          /\ ahead' # Offers
      BY <2>1, <2>4 DEF Take
    <3> QED
      BY <2>2, <3>1, <3>2, <3>4, <3>5, <3>6, <3>7, <3>8, <3>9
  <2>5. CASE Pass(o)
    <3>1. GreedyTypeOK'
      BY <2>1, <2>5 DEF Pass, GreedyTypeOK
    <3>2. ASSUME NEW p \in passed' PROVE ~Fits(p)'
      BY <2>2, <2>5, <3>2 DEF Pass, Fits
    <3> QED
      BY <2>1, <2>2, <2>5, <3>1, <3>2 DEF Pass
  <2> QED
    BY <1>3, <2>4, <2>5 DEF Reach
<1> QED
  BY <1>1, <1>2, <1>3 DEF GreedyNext

\* The limits, in the terms of the counters.
LEMMA LimitsKept ==
    ASSUME NEW S
    PROVE  KeepsLimits(S) <=>
               /\ Cardinality(S) <= MaxTrades
               /\ \A p, q \in S : p # q => OfferSymbol[p] # OfferSymbol[q]
               /\ \A s \in Sectors : Cardinality(OfSector(S, s)) <= MaxInSector
               /\ SumFunctionOnSet(Totals, S) <= TradeBudget
BY DEF KeepsLimits, OfSector, Totals

LEMMA SafeIsMaximal == GreedySafe => PortfolioIsMaximal
<1> SUFFICES ASSUME GreedySafe PROVE PortfolioIsMaximal
  OBVIOUS
<1> USE DEF GreedySafe
<1>1. KeepsLimits(chosen)
  <2>1. \A s \in Sectors : Cardinality(OfSector(chosen, s)) <= MaxInSector
    OBVIOUS
  <2> QED
    BY <2>1, LimitsKept
<1>2. ASSUME NEW o \in passed, KeepsLimits(chosen \cup {o}) PROVE FALSE
  <2>1. o \in Offers /\ o \notin chosen /\ chosen \in SUBSET Offers /\ OfferSector[o] \in Sectors
    BY DEF GreedyTypeOK, Sectors
  <2>2. /\ Cardinality(chosen \cup {o}) <= MaxTrades
        /\ \A p, q \in chosen \cup {o} : p # q => OfferSymbol[p] # OfferSymbol[q]
        /\ \A s \in Sectors : Cardinality(OfSector(chosen \cup {o}, s)) <= MaxInSector
        /\ SumFunctionOnSet(Totals, chosen \cup {o}) <= TradeBudget
    <3>1. PICK T : T = chosen \cup {o}
      OBVIOUS
    <3>2. KeepsLimits(T)
      BY <1>2, <3>1
    <3>3. /\ Cardinality(T) <= MaxTrades
          /\ \A p, q \in T : p # q => OfferSymbol[p] # OfferSymbol[q]
          /\ \A s \in Sectors : Cardinality(OfSector(T, s)) <= MaxInSector
          /\ SumFunctionOnSet(Totals, T) <= TradeBudget
      BY ONLY <3>2, LimitsKept
    <3> QED
      BY <3>1, <3>3
  <2>3. count < MaxTrades
    <3>1. Cardinality(chosen \cup {o}) = Cardinality(chosen) + 1 /\ Cardinality(chosen) \in Nat
      BY <2>1, OneMoreTrade
    <3>2. count = Cardinality(chosen)
      OBVIOUS
    <3>3. MaxTrades \in Nat
      BY ONLY OfferFacts
    <3>4. Cardinality(chosen \cup {o}) <= MaxTrades
      BY ONLY <2>2
    <3> QED
      BY ONLY <3>1, <3>2, <3>3, <3>4
  <2>4. OfferSymbol[o] \notin seen
    BY <2>1, <2>2
  <2>5. sectorCount[OfferSector[o]] < MaxInSector
    <3>1. PICK s \in Sectors : s = OfferSector[o]
      BY <2>1
    <3>2. Cardinality(OfSector(chosen \cup {o}, s)) = Cardinality(OfSector(chosen, s)) + 1
      BY <2>1, <3>1, OneMoreTrade
    <3>3. sectorCount[s] \in Nat /\ sectorCount[s] = Cardinality(OfSector(chosen, s))
      BY DEF GreedyTypeOK
    <3> QED
      BY <2>2, <3>1, <3>2, <3>3, OfferFacts
  <2>6. committed + TotalMargin(o) <= TradeBudget
    <3>1. SumFunctionOnSet(Totals, chosen \cup {o}) = SumFunctionOnSet(Totals, chosen) + TotalMargin(o)
      BY <2>1, OneMoreTrade
    <3>2. committed = SumFunctionOnSet(Totals, chosen)
      OBVIOUS
    <3> QED
      BY ONLY <2>2, <3>1, <3>2
  <2> QED
    BY <2>3, <2>4, <2>5, <2>6 DEF Fits
<1> QED
  BY <1>1, <1>2 DEF PortfolioIsMaximal

\* For any offers, scores, margins and answers of the broker: the trades chosen keep
\* the limits together, and none that was passed over could be added to them.
THEOREM PortfoliosAreMaximal == GreedySpec => []PortfolioIsMaximal
BY GreedyStart, GreedyStep, SafeIsMaximal, PTL DEF GreedySpec

-----------------------------------------------------------------------------
(* Executions matched into trades.                                         *)

\* Adding up what a function takes from another set of indices gives no more.
LEMMA ImageSum ==
    ASSUME NEW S, IsFiniteSet(S), NEW f, NEW g, NEW h, \A x \in S : f[x] \in Nat /\ g[h[x]] = f[x]
    PROVE  /\ IsFiniteSet({h[x] : x \in S})
           /\ SumFunctionOnSet(f, S) \in Nat
           /\ SumFunctionOnSet(g, {h[x] : x \in S}) \in Nat
           /\ SumFunctionOnSet(g, {h[x] : x \in S}) <= SumFunctionOnSet(f, S)
<1> DEFINE Im(R) == {h[x] : x \in R}
           Fine(R) == /\ IsFiniteSet(Im(R)) /\ SumFunctionOnSet(f, R) \in Nat
                      /\ SumFunctionOnSet(g, Im(R)) \in Nat
                      /\ SumFunctionOnSet(g, Im(R)) <= SumFunctionOnSet(f, R)
           Good == {n \in Nat : \A R \in SUBSET S : IsFiniteSet(R) /\ Cardinality(R) = n => Fine(R)}
<1>1. 0 \in Good
  <2>1. ASSUME NEW R \in SUBSET S, IsFiniteSet(R), Cardinality(R) = 0 PROVE Fine(R)
    <3>1. R = {} /\ Im(R) = {}
      BY <2>1, FS_EmptySet
    <3>2. SumFunctionOnSet(f, R) = 0 /\ SumFunctionOnSet(g, Im(R)) = 0
      BY <3>1, EmptySum
    <3> HIDE DEF Im
    <3> QED
      BY <3>1, <3>2, FS_EmptySet
  <2> QED
    BY <2>1
<1>2. ASSUME NEW n \in Nat, n \in Good PROVE n + 1 \in Good
  <2>1. ASSUME NEW R \in SUBSET S, IsFiniteSet(R), Cardinality(R) = n + 1 PROVE Fine(R)
    <3> DEFINE t == Taken(R)
               Q == R \ {t}
    <3>1. t \in R /\ IsFiniteSet(Q) /\ Cardinality(Q) = n
      <4>1. R # {}
        BY <2>1, FS_EmptySet
      <4> QED BY <2>1, <4>1, Smaller
    <3>2. Fine(Q)
      <4>1. Q \in SUBSET S
        OBVIOUS
      <4> HIDE DEF Q, Fine
      <4> QED BY <1>2, <3>1, <4>1
    <3>3. Im(R) = Im(Q) \cup {h[t]}
      BY <3>1
    <3>4. SumFunctionOnSet(f, R) = f[t] + SumFunctionOnSet(f, Q)
      <4>1. \A x \in R : f[x] \in Int
        OBVIOUS
      <4> HIDE DEF t
      <4> QED BY <2>1, <3>1, <4>1, AnyTerm
    <3>5. \A y \in Im(R) : g[y] \in Int
      OBVIOUS
    <3>6. f[t] \in Nat /\ g[h[t]] = f[t]
      BY <3>1
    <3> HIDE DEF Im, Q, t
    <3>7. CASE h[t] \in Im(Q)
      <4>1. Im(R) = Im(Q)
        BY <3>3, <3>7
      <4> QED
        BY <3>2, <3>4, <3>6, <4>1
    <3>8. CASE h[t] \notin Im(Q)
      <4>1. SumFunctionOnSet(g, Im(R)) = g[h[t]] + SumFunctionOnSet(g, Im(Q))
        <5>1. \A y \in Im(Q) \cup {h[t]} : g[y] \in Int
          BY <3>3, <3>5
        <5>2. IsFiniteSet(Im(Q))
          BY <3>2
        <5> QED BY <3>3, <3>8, <5>1, <5>2, OneMoreTerm
      <4>2. IsFiniteSet(Im(R))
        BY <3>2, <3>3, FS_AddElement
      <4> QED
        BY <3>2, <3>4, <3>6, <4>1, <4>2
    <3> QED
      BY <3>7, <3>8
  <2> HIDE DEF Fine
  <2> QED
    BY <2>1
<1> HIDE DEF Good, Fine
<1>3. Nat \subseteq Good
  BY <1>1, <1>2, Induction
<1>4. Cardinality(S) \in Nat
  BY FS_CardinalityType
<1>5. Fine(S)
  BY <1>3, <1>4 DEF Good
<1> QED
  BY <1>5 DEF Fine

-----------------------------------------------------------------------------
(* The walk over sales and purchases.                                      *)

\* What the pairs take from an execution.
Triples == Execs \X (Execs \cup {NoClose}) \X Nat
Third == [p \in Triples |-> p[3]]
Taking(pairs, e) == {p \in pairs : e = p[1] \/ e = p[2]}
TakenFrom(pairs, e) == SumFunctionOnSet(Third, Taking(pairs, e))

\* What the pairs took and what is left fit in the execution.
WithinQuantities(w) ==
    /\ w.left \in [Execs -> Nat]
    /\ w.pairs \subseteq Triples /\ IsFiniteSet(w.pairs)
    /\ \A e \in Execs : TakenFrom(w.pairs, e) + w.left[e] <= Exec[e].qty

LEMMA TakenIsNumber ==
    ASSUME NEW pairs, pairs \subseteq Triples, IsFiniteSet(pairs), NEW e
    PROVE  IsFiniteSet(Taking(pairs, e)) /\ TakenFrom(pairs, e) \in Int
<1>1. IsFiniteSet(Taking(pairs, e))
  BY FS_Subset DEF Taking
<1>2. \A p \in Taking(pairs, e) : Third[p] \in Int
  BY DEF Taking, Third, Triples
<1> QED
  BY <1>1, <1>2, SumIsNumber DEF TakenFrom

\* One more pair takes its contracts from its two executions and nothing from others.
LEMMA OnePairMore ==
    ASSUME NEW pairs, pairs \subseteq Triples, IsFiniteSet(pairs), NEW t \in Triples, NEW e
    PROVE  /\ e = t[1] \/ e = t[2] => TakenFrom(pairs \cup {t}, e) <= TakenFrom(pairs, e) + t[3]
           /\ ~(e = t[1] \/ e = t[2]) => TakenFrom(pairs \cup {t}, e) = TakenFrom(pairs, e)
<1> DEFINE S == Taking(pairs, e)
<1>1. IsFiniteSet(S) /\ TakenFrom(pairs, e) \in Int /\ S \subseteq Triples
  BY TakenIsNumber DEF Taking
<1>2. t[3] \in Nat /\ Third[t] = t[3]
  BY DEF Third, Triples
<1>3. CASE ~(e = t[1] \/ e = t[2])
  <2>1. Taking(pairs \cup {t}, e) = Taking(pairs, e)
    BY <1>3 DEF Taking
  <2> QED
    BY <1>3, <2>1 DEF TakenFrom
<1>4. CASE (e = t[1] \/ e = t[2]) /\ t \in pairs
  <2>1. pairs \cup {t} = pairs
    BY <1>4
  <2>2. TakenFrom(pairs \cup {t}, e) = TakenFrom(pairs, e)
    BY <2>1
  <2> HIDE DEF S
  <2> QED
    BY <1>1, <1>2, <1>4, <2>2
<1>5. CASE (e = t[1] \/ e = t[2]) /\ t \notin pairs
  <2>1. Taking(pairs \cup {t}, e) = S \cup {t} /\ t \notin S
    BY <1>5 DEF Taking
  <2>2. \A p \in S \cup {t} : Third[p] \in Int
    BY <1>1 DEF Third, Triples
  <2>3. SumFunctionOnSet(Third, S \cup {t}) = Third[t] + SumFunctionOnSet(Third, S)
    <3> HIDE DEF S
    <3> QED BY <1>1, <2>1, <2>2, OneMoreTerm
  <2>4. TakenFrom(pairs \cup {t}, e) = SumFunctionOnSet(Third, S \cup {t})
    BY <2>1 DEF TakenFrom
  <2>5. TakenFrom(pairs, e) = SumFunctionOnSet(Third, S)
    BY DEF TakenFrom
  <2> HIDE DEF S
  <2> QED
    BY ONLY <1>1, <1>2, <1>5, <2>3, <2>4, <2>5
<1> QED
  BY <1>3, <1>4, <1>5

LEMMA PairFits ==
    ASSUME NEW w, WithinQuantities(w), NEW sale \in Execs, NEW purchase \in Execs, sale # purchase
    PROVE  WithinQuantities(MatchPair(sale, purchase, w))
<1> DEFINE n == IF w.left[sale] < w.left[purchase] THEN w.left[sale] ELSE w.left[purchase]
           t == <<sale, purchase, n>>
           v == MatchPair(sale, purchase, w)
           kept == [w.left EXCEPT ![sale] = @ - n, ![purchase] = @ - n]
<1>1. w.left[sale] \in Nat /\ w.left[purchase] \in Nat /\ n \in Nat
      /\ n <= w.left[sale] /\ n <= w.left[purchase]
  BY DEF WithinQuantities
<1>2. t \in Triples /\ t[1] = sale /\ t[2] = purchase /\ t[3] = n
  <2> HIDE DEF n
  <2> QED BY <1>1 DEF Triples
<1>3. v.left = kept /\ v.pairs = w.pairs \cup {t}
  BY DEF MatchPair
<1> HIDE DEF n, t, v
<1>4. /\ kept \in [Execs -> Nat] /\ kept[sale] = w.left[sale] - n /\ kept[purchase] = w.left[purchase] - n
      /\ \A e \in Execs \ {sale, purchase} : kept[e] = w.left[e]
  BY <1>1 DEF WithinQuantities
<1> HIDE DEF kept
<1>5. v.pairs \subseteq Triples /\ IsFiniteSet(v.pairs)
  BY <1>2, <1>3, FS_AddElement DEF WithinQuantities
<1>6. ASSUME NEW e \in Execs PROVE TakenFrom(v.pairs, e) + kept[e] <= Exec[e].qty
  <2>0. TakenFrom(w.pairs, e) \in Int /\ TakenFrom(v.pairs, e) \in Int
    BY <1>5, TakenIsNumber DEF WithinQuantities
  <2>1. kept[e] \in Int /\ w.left[e] \in Int /\ Exec[e].qty \in Int
    BY <1>4, ImportFacts DEF WithinQuantities, RawImport
  <2>2. TakenFrom(w.pairs, e) + w.left[e] <= Exec[e].qty
    BY DEF WithinQuantities
  <2>3. CASE e \in {sale, purchase}
    <3>1. TakenFrom(v.pairs, e) <= TakenFrom(w.pairs, e) + n
      BY <1>2, <1>3, <2>3, OnePairMore DEF WithinQuantities
    <3>2. kept[e] = w.left[e] - n
      BY <1>4, <2>3
    <3> QED
      BY <1>1, <2>0, <2>1, <2>2, <3>1, <3>2
  <2>4. CASE e \notin {sale, purchase}
    <3>1. TakenFrom(v.pairs, e) = TakenFrom(w.pairs, e)
      BY <1>2, <1>3, <2>4, OnePairMore DEF WithinQuantities
    <3>2. kept[e] = w.left[e]
      BY <1>4, <2>4
    <3> QED
      BY <2>0, <2>1, <2>2, <3>1, <3>2
  <2> QED
    BY <2>3, <2>4
<1>7. WithinQuantities(v)
  BY <1>3, <1>4, <1>5, <1>6 DEF WithinQuantities
<1> QED
  BY <1>7 DEF v

LEMMA StartFits == WithinQuantities(WalkStart)
<1>1. ASSUME NEW e \in Execs PROVE TakenFrom({}, e) = 0
  <2>1. Taking({}, e) = {}
    BY DEF Taking
  <2> QED
    BY <2>1, EmptySum DEF TakenFrom
<1>2. WalkStart.left = [e \in Execs |-> Exec[e].qty] /\ WalkStart.pairs = {}
  BY DEF WalkStart
<1>3. \A e \in Execs : Exec[e].qty \in Nat
  BY ImportFacts DEF RawImport
<1> QED
  BY <1>1, <1>2, <1>3, FS_EmptySet DEF WithinQuantities

\* A list of executions.
ListOf(S, seq) == \E n \in Nat : seq \in [1..n -> S]

LEMMA ListLength ==
    ASSUME NEW S, NEW seq, ListOf(S, seq)
    PROVE  Len(seq) \in Nat /\ \A n \in 1..Len(seq) : seq[n] \in S
<1>1. PICK n \in Nat : seq \in [1..n -> S]
  BY DEF ListOf
<1>2. seq \in Seq(S) /\ Len(seq) = n
  BY <1>1
<1> QED
  BY <1>1, <1>2

\* Places in the lists are numbers, and the walk keeps to the lists and the quantities.
WalkFits(w, S, P) ==
    /\ w.pairs \subseteq S \X P \X Nat
    /\ DOMAIN w = {"i", "j", "left", "pairs"}
    /\ w.i \in Nat \ {0} /\ w.j \in Nat \ {0} /\ WithinQuantities(w)

LEMMA TurnFits ==
    ASSUME NEW S \in SUBSET Execs, NEW P \in SUBSET Execs, S \cap P = {},
           NEW opens, NEW closes, ListOf(S, opens), ListOf(P, closes), NEW w, WalkFits(w, S, P)
    PROVE  WalkFits(WalkTurn(opens, closes, w), S, P)
<1>1. CASE w.i > Len(opens) \/ w.j > Len(closes)
  BY <1>1 DEF WalkTurn
<1>2. CASE ~(w.i > Len(opens) \/ w.j > Len(closes))
  <2>1. w.i \in 1..Len(opens) /\ w.j \in 1..Len(closes)
    BY <1>2, ListLength DEF WalkFits
  <2>2. PICK sale \in S, purchase \in P : sale = opens[w.i] /\ purchase = closes[w.j]
    BY <2>1, ListLength
  <2>3. CASE Exec[purchase].date < Exec[sale].date
    <3>1. WalkTurn(opens, closes, w) = [w EXCEPT !.j = @ + 1]
      BY <1>2, <2>2, <2>3 DEF WalkTurn
    <3> QED
      BY <3>1 DEF WalkFits, WithinQuantities
  <2>4. CASE ~(Exec[purchase].date < Exec[sale].date)
    <3>1. WalkTurn(opens, closes, w) = MatchPair(sale, purchase, w)
      BY <1>2, <2>2, <2>4 DEF WalkTurn
    <3>2. sale # purchase
      BY <2>2
    <3>3. WithinQuantities(MatchPair(sale, purchase, w))
      BY <3>2, PairFits DEF WalkFits
    <3>4. /\ DOMAIN MatchPair(sale, purchase, w) = {"i", "j", "left", "pairs"}
          /\ MatchPair(sale, purchase, w).i \in Nat \ {0}
          /\ MatchPair(sale, purchase, w).j \in Nat \ {0}
      BY DEF MatchPair, WalkFits
    <3>5. MatchPair(sale, purchase, w).pairs \subseteq S \X P \X Nat
      <4> DEFINE n == IF w.left[sale] < w.left[purchase] THEN w.left[sale] ELSE w.left[purchase]
      <4>1. n \in Nat
        BY DEF WalkFits, WithinQuantities
      <4>2. MatchPair(sale, purchase, w).pairs = w.pairs \cup {<<sale, purchase, n>>}
        BY DEF MatchPair
      <4> HIDE DEF n
      <4> QED
        BY <4>1, <4>2 DEF WalkFits
    <3> QED
      BY <3>1, <3>3, <3>4, <3>5 DEF WalkFits
  <2> QED
    BY <2>3, <2>4
<1> QED
  BY <1>1, <1>2

\* The loop of match_trades, as far as its first turns.
Walks(g, opens, closes, k) ==
    g = [n \in 0..k |-> IF n = 0 THEN WalkStart ELSE WalkTurn(opens, closes, g[n - 1])]

LEMMA LoopExists ==
    ASSUME NEW opens, NEW closes
    PROVE  \A k \in Nat : \E g : Walks(g, opens, closes, k)
<1> DEFINE Good == {k \in Nat : \E g : Walks(g, opens, closes, k)}
<1>1. 0 \in Good
  <2> DEFINE g == [n \in 0..0 |-> WalkStart]
  <2>1. g = [n \in 0..0 |-> IF n = 0 THEN WalkStart ELSE WalkTurn(opens, closes, g[n - 1])]
    OBVIOUS
  <2> HIDE DEF g
  <2> QED
    BY <2>1 DEF Walks
<1>2. ASSUME NEW k \in Nat, k \in Good PROVE k + 1 \in Good
  <2>1. PICK g : Walks(g, opens, closes, k)
    BY <1>2
  <2> DEFINE h == [n \in 0..(k + 1) |-> IF n = 0 THEN WalkStart ELSE WalkTurn(opens, closes, g[n - 1])]
  <2>2. ASSUME NEW n \in 0..k PROVE h[n] = g[n]
    <3>1. g[n] = IF n = 0 THEN WalkStart ELSE WalkTurn(opens, closes, g[n - 1])
      BY <2>1 DEF Walks
    <3>2. h[n] = IF n = 0 THEN WalkStart ELSE WalkTurn(opens, closes, g[n - 1])
      OBVIOUS
    <3> QED
      BY <3>1, <3>2
  <2>3. ASSUME NEW n \in 0..(k + 1)
        PROVE  h[n] = IF n = 0 THEN WalkStart ELSE WalkTurn(opens, closes, h[n - 1])
    <3>1. h[n] = IF n = 0 THEN WalkStart ELSE WalkTurn(opens, closes, g[n - 1])
      OBVIOUS
    <3>2. n # 0 => n - 1 \in 0..k
      OBVIOUS
    <3> HIDE DEF h
    <3> QED
      BY <2>2, <3>1, <3>2
  <2>4. h = [n \in 0..(k + 1) |-> h[n]]
    OBVIOUS
  <2>5. Walks(h, opens, closes, k + 1)
    <3> HIDE DEF h
    <3> QED BY <2>3, <2>4 DEF Walks
  <2> HIDE DEF h
  <2> QED
    BY <2>5
<1> HIDE DEF Good
<1>3. Nat \subseteq Good
  BY <1>1, <1>2, Induction
<1> QED
  BY <1>3 DEF Good

LEMMA WalkEndsFit ==
    ASSUME NEW S \in SUBSET Execs, NEW P \in SUBSET Execs, S \cap P = {},
           NEW opens, NEW closes, ListOf(S, opens), ListOf(P, closes)
    PROVE  WalkFits(Walk(opens, closes), S, P)
<1> DEFINE turns == Len(opens) + Len(closes)
           g == CHOOSE f : f = [n \in 0..turns |-> IF n = 0 THEN WalkStart ELSE WalkTurn(opens, closes, f[n - 1])]
<1>1. turns \in Nat
  BY ListLength
<1>2. Walks(g, opens, closes, turns)
  <2>1. \E f : Walks(f, opens, closes, turns)
    <3> HIDE DEF turns
    <3> QED BY <1>1, LoopExists
  <2> HIDE DEF turns
  <2> QED
    BY <2>1 DEF Walks
<1>3. Walk(opens, closes) = g[turns]
  BY DEF Walk
<1> HIDE DEF g, turns
<1> DEFINE Good == {n \in Nat : n <= turns => WalkFits(g[n], S, P)}
<1>4. 0 \in Good
  <2>1. g[0] = WalkStart
    BY <1>1, <1>2 DEF Walks
  <2>2. DOMAIN WalkStart = {"i", "j", "left", "pairs"} /\ WalkStart.i = 1 /\ WalkStart.j = 1
        /\ WalkStart.pairs = {}
    BY DEF WalkStart
  <2> QED
    BY <2>1, <2>2, StartFits DEF WalkFits
<1>5. ASSUME NEW n \in Nat, n \in Good PROVE n + 1 \in Good
  <2>1. SUFFICES ASSUME n + 1 <= turns PROVE WalkFits(g[n + 1], S, P)
    OBVIOUS
  <2>2. WalkFits(g[n], S, P)
    BY <1>1, <1>5, <2>1
  <2>3. n + 1 \in 0..turns /\ n + 1 # 0 /\ (n + 1) - 1 = n
    BY <1>1, <2>1
  <2>4. g[n + 1] = WalkTurn(opens, closes, g[n])
    BY <1>2, <2>3 DEF Walks
  <2> QED
    BY <2>2, <2>4, TurnFits
<1> HIDE DEF Good
<1>6. turns \in Good
  BY <1>1, <1>4, <1>5, Induction
<1>7. WalkFits(g[turns], S, P)
  BY <1>1, <1>6 DEF Good
<1> QED
  BY <1>3, <1>7

-----------------------------------------------------------------------------
(* Matching and importing.                                                 *)

LEMMA ByDateIsList ==
    ASSUME NEW rows, NEW S, IsFiniteSet(S), S \subseteq Range(rows), S \subseteq Execs,
           DOMAIN rows \subseteq Nat
    PROVE  ListOf(S, ByDate(rows, S))
<1> DEFINE before == {p \in S \X S : \/ Exec[p[1]].date < Exec[p[2]].date
                                     \/ /\ Exec[p[1]].date = Exec[p[2]].date
                                        /\ RowOf(rows, p[1]) < RowOf(rows, p[2])}
<1>1. \A e \in S : Exec[e].date \in Int
  BY ImportFacts DEF RawImport
<1>2. \A e \in S : RowOf(rows, e) \in Nat /\ rows[RowOf(rows, e)] = e
  BY DEF RowOf, Range
<1>3. ASSUME NEW d \in S, NEW e \in S
      PROVE  <<d, e>> \in before <=> \/ Exec[d].date < Exec[e].date
                                     \/ Exec[d].date = Exec[e].date /\ RowOf(rows, d) < RowOf(rows, e)
  OBVIOUS
<1> HIDE DEF before
<1>4. Orders(before, S)
  <2>1. \A d \in S : <<d, d>> \notin before
    BY <1>1, <1>2, <1>3
  <2>2. ASSUME NEW c \in S, NEW d \in S, NEW e \in S, <<c, d>> \in before, <<d, e>> \in before
        PROVE  <<c, e>> \in before
    BY <1>1, <1>2, <1>3, <2>2
  <2>3. ASSUME NEW d \in S, NEW e \in S, d # e PROVE <<d, e>> \in before \/ <<e, d>> \in before
    <3>1. RowOf(rows, d) # RowOf(rows, e)
      BY <1>2, <2>3
    <3> QED
      BY <1>1, <1>2, <1>3, <3>1
  <2> QED
    BY <2>1, <2>2, <2>3 DEF Orders
<1>5. Sorted(S, before) \in [1..Cardinality(S) -> S] /\ Cardinality(S) \in Nat
  BY <1>4, SortedIsList, FS_CardinalityType
<1>6. ByDate(rows, S) = Sorted(S, before)
  BY DEF ByDate, before
<1> QED
  BY <1>5, <1>6 DEF ListOf

\* Executions matched already stay out, and the others keep to their quantities.
LEMMA MatchesFit ==
    ASSUME NEW rows, DOMAIN rows \subseteq Nat, Range(rows) \subseteq Execs
    PROVE  /\ Matches(rows) \subseteq Triples /\ IsFiniteSet(Matches(rows))
           /\ \A t \in Matches(rows) : t[1] \in Execs \ matched /\ t[2] \in (Execs \ matched) \cup {NoClose}
           /\ \A e \in Execs : TakenFrom(Matches(rows), e) <= Exec[e].qty
<1> DEFINE free(kind) == {e \in Range(rows) \ matched : Exec[e].kind = kind}
           S == free("sto")
           P == free("btc")
           end == Walk(ByDate(rows, S), ByDate(rows, P))
           lapsed == {e \in S : end.left[e] > 0 /\ Exec[e].expiry < importDay}
           ends == {<<e, NoClose, end.left[e]>> : e \in lapsed}
<1>1. /\ S \in SUBSET Execs /\ P \in SUBSET Execs /\ S \cap P = {} /\ IsFiniteSet(S) /\ IsFiniteSet(P)
      /\ S \cap matched = {} /\ P \cap matched = {} /\ S \subseteq Range(rows) /\ P \subseteq Range(rows)
  BY ImportFacts, FS_Subset
<1>2. Matches(rows) = end.pairs \cup ends
  BY DEF Matches
<1> HIDE DEF S, P, end
<1>3. WalkFits(end, S, P)
  <2>1. ListOf(S, ByDate(rows, S)) /\ ListOf(P, ByDate(rows, P))
    BY <1>1, ByDateIsList
  <2> QED
    BY <1>1, <2>1, WalkEndsFit DEF end
<1>4. /\ end.left \in [Execs -> Nat] /\ IsFiniteSet(end.pairs)
      /\ end.pairs \subseteq S \X P \X Nat /\ end.pairs \subseteq Triples
      /\ \A e \in Execs : TakenFrom(end.pairs, e) + end.left[e] <= Exec[e].qty
  BY <1>3 DEF WalkFits, WithinQuantities
<1>5. IsFiniteSet(ends)
  <2> DEFINE h == [e \in lapsed |-> <<e, NoClose, end.left[e]>>]
  <2>1. IsFiniteSet(lapsed)
    BY <1>1, FS_Subset
  <2>2. h \in Surjection(lapsed, ends)
    BY DEF Surjection
  <2> HIDE DEF h, lapsed, ends
  <2> QED
    BY <2>1, <2>2, FS_Surjection
<1>6. ends \subseteq S \X {NoClose} \X Nat /\ ends \subseteq Triples
  BY <1>1, <1>4 DEF Triples
<1>7. Matches(rows) \subseteq Triples /\ IsFiniteSet(Matches(rows))
  <2> HIDE DEF ends
  <2>1. IsFiniteSet(end.pairs \cup ends)
    BY <1>4, <1>5, FS_Union
  <2> QED
    BY <1>2, <1>4, <1>6, <2>1
<1>8. ASSUME NEW t \in Matches(rows)
      PROVE  t[1] \in Execs \ matched /\ t[2] \in (Execs \ matched) \cup {NoClose}
  <2>1. t \in S \X P \X Nat \/ t \in S \X {NoClose} \X Nat
    <3> HIDE DEF ends
    <3> QED BY <1>2, <1>4, <1>6
  <2> QED
    BY <1>1, <2>1
<1>9. ASSUME NEW e \in Execs PROVE TakenFrom(Matches(rows), e) <= Exec[e].qty
  <2>0. /\ TakenFrom(end.pairs, e) \in Int /\ end.left[e] \in Nat /\ Exec[e].qty \in Nat
        /\ TakenFrom(end.pairs, e) + end.left[e] <= Exec[e].qty
    BY <1>4, TakenIsNumber, ImportFacts DEF RawImport
  <2>1. e # NoClose
    BY ImportFacts DEF NoClose
  <2> DEFINE t == <<e, NoClose, end.left[e]>>
  <2>2. CASE e \in lapsed
    <3>1. Taking(Matches(rows), e) = Taking(end.pairs \cup {t}, e)
      BY <1>2, <2>1, <2>2 DEF Taking
    <3>2. t \in Triples /\ t[1] = e /\ t[3] = end.left[e]
      BY <2>0 DEF Triples
    <3>3. TakenFrom(end.pairs \cup {t}, e) <= TakenFrom(end.pairs, e) + t[3]
      <4> HIDE DEF t
      <4> QED BY <1>4, <3>2, OnePairMore
    <3>4. TakenFrom(Matches(rows), e) = TakenFrom(end.pairs \cup {t}, e)
      BY <3>1 DEF TakenFrom
    <3>5. TakenFrom(end.pairs \cup {t}, e) \in Int
      <4>1. end.pairs \cup {t} \subseteq Triples /\ IsFiniteSet(end.pairs \cup {t})
        <5> HIDE DEF t
        <5> QED BY <1>4, <3>2, FS_AddElement
      <4> HIDE DEF t
      <4> QED BY <4>1, TakenIsNumber
    <3> HIDE DEF t
    <3> QED
      BY <2>0, <3>2, <3>3, <3>4, <3>5
  <2>3. CASE e \notin lapsed
    <3>1. Taking(Matches(rows), e) = Taking(end.pairs, e)
      BY <1>2, <2>1, <2>3 DEF Taking
    <3>2. TakenFrom(Matches(rows), e) = TakenFrom(end.pairs, e)
      BY <3>1 DEF TakenFrom
    <3> QED
      BY <2>0, <3>2
  <2> QED
    BY <2>2, <2>3
<1> QED
  BY <1>7, <1>8, <1>9

\* A report adds the executions that the table does not hold, each once.
LEMMA RowsStayDistinct ==
    ASSUME NEW file \in SUBSET Execs, raw \in Seq(Execs),
           \A n, k \in DOMAIN raw : raw[n] = raw[k] => n = k
    PROVE  /\ StoreNew(file) \in Seq(Execs)
           /\ \A n, k \in DOMAIN StoreNew(file) : StoreNew(file)[n] = StoreNew(file)[k] => n = k
<1> DEFINE new == file \ Stored
           before == {p \in new \X new : p[1] < p[2]}
           rows == Sorted(new, before)
           m == Cardinality(new)
<1>1. new \subseteq Execs /\ IsFiniteSet(new) /\ new \subseteq Nat /\ m \in Nat
  BY ImportFacts, FS_Subset, FS_CardinalityType
<1>2. \A d, e \in new : <<d, e>> \in before <=> d < e
  OBVIOUS
<1>3. Orders(before, new)
  <2> HIDE DEF before, new
  <2> QED BY <1>1, <1>2 DEF Orders
<1>4. /\ rows \in [1..m -> new]
      /\ \A i, j \in 1..m : i < j => <<rows[i], rows[j]>> \in before
  BY <1>1, <1>3, SortedIsList
<1>5. \A i, j \in 1..m : rows[i] = rows[j] => i = j
  <2>1. \A i, j \in 1..m : i < j => rows[i] < rows[j]
    <3> HIDE DEF before, new, rows, m
    <3> QED BY <1>2, <1>4
  <2>2. \A i \in 1..m : rows[i] \in Nat
    <3> HIDE DEF before, new, rows, m
    <3> QED BY <1>1, <1>4
  <2> HIDE DEF rows, m
  <2> QED
    BY <1>1, <2>1, <2>2
<1>6. rows \in Seq(Execs) /\ Len(rows) = m
  <2> HIDE DEF rows, m, new
  <2>1. rows \in [1..m -> Execs]
    BY <1>1, <1>4
  <2> QED
    BY <1>1, <2>1
<1>7. StoreNew(file) = raw \o rows
  BY DEF StoreNew
<1>8. \A i \in 1..m : rows[i] \notin Stored
  <2> HIDE DEF rows, m
  <2> QED BY <1>4
<1> HIDE DEF rows, m, new
<1>9. StoreNew(file) \in Seq(Execs)
  BY <1>6, <1>7
<1>10. /\ DOMAIN StoreNew(file) = 1..(Len(raw) + m) /\ Len(raw) \in Nat /\ DOMAIN raw = 1..Len(raw)
       /\ \A n \in 1..Len(raw) : StoreNew(file)[n] = raw[n]
       /\ \A n \in (Len(raw) + 1)..(Len(raw) + m) : StoreNew(file)[n] = rows[n - Len(raw)]
  <2>1. PICK l \in Nat : l = Len(raw) /\ DOMAIN raw = 1..l
    OBVIOUS
  <2>2. Len(raw \o rows) = l + m /\ DOMAIN (raw \o rows) = 1..(l + m)
    BY <1>6, <2>1
  <2>3. \A n \in 1..l : (raw \o rows)[n] = raw[n]
    BY <1>6, <2>1
  <2>4. \A n \in (l + 1)..(l + m) : (raw \o rows)[n] = rows[n - l]
    BY <1>1, <1>6, <2>1
  <2> QED
    BY <1>7, <2>1, <2>2, <2>3, <2>4
<1>11. ASSUME NEW n \in DOMAIN StoreNew(file), NEW k \in DOMAIN StoreNew(file),
              StoreNew(file)[n] = StoreNew(file)[k]
       PROVE  n = k
  <2>1. CASE n <= Len(raw) /\ k <= Len(raw)
    BY <1>1, <1>10, <1>11, <2>1
  <2>2. ASSUME NEW a \in 1..Len(raw), NEW b \in (Len(raw) + 1)..(Len(raw) + m),
               StoreNew(file)[a] = StoreNew(file)[b]
        PROVE  FALSE
    <3>1. raw[a] \in Stored
      BY <1>10 DEF Stored, Range
    <3>2. b - Len(raw) \in 1..m
      BY <1>1, <1>10
    <3> QED
      BY <1>8, <1>10, <2>2, <3>1, <3>2
  <2>3. CASE n > Len(raw) /\ k > Len(raw)
    <3>1. n - Len(raw) \in 1..m /\ k - Len(raw) \in 1..m
      BY <1>1, <1>10, <2>3
    <3>2. rows[n - Len(raw)] = rows[k - Len(raw)]
      BY <1>1, <1>10, <1>11, <2>3
    <3>3. n - Len(raw) = k - Len(raw)
      BY <1>5, <3>1, <3>2
    <3> QED
      BY <1>10, <3>1, <3>3
  <2>4. n \in Int /\ k \in Int /\ Len(raw) \in Int
    BY <1>1, <1>10
  <2> QED
    BY <1>1, <1>10, <1>11, <2>1, <2>2, <2>3, <2>4
<1> QED
  BY <1>9, <1>11

-----------------------------------------------------------------------------
(* The matching log.                                                       *)

MatchRow == [open : Execs, close : Execs \cup {NoClose}, qty : Nat, batch : Nat,
             trade : Execs \cup {NoClose}]

\* An execution that is not marked is in no match, and no match takes more than there is.
MatchedOnce ==
    /\ raw \in Seq(Execs) /\ \A n, k \in DOMAIN raw : raw[n] = raw[k] => n = k
    /\ imports \in Seq({RangeOf(file) : file \in SUBSET Execs})
    /\ matchLog \subseteq MatchRow /\ IsFiniteSet(matchLog)
    /\ \A m \in matchLog : m.open \in matched /\ m.close \in matched \cup {NoClose}
    /\ \A e \in Execs : Contracts(MatchesOf(e)) <= Exec[e].qty

LEMMA RowsAddUp ==
    ASSUME NEW log, log \subseteq MatchRow, IsFiniteSet(log)
    PROVE  Contracts(log) \in Nat
<1>1. PICK f : f = [m \in log |-> m.qty]
  OBVIOUS
<1>2. PICK h : h = [m \in log |-> m]
  OBVIOUS
<1>3. \A m \in log : f[m] \in Nat /\ f[h[m]] = f[m]
  BY <1>1, <1>2 DEF MatchRow
<1>4. SumFunctionOnSet(f, log) \in Nat /\ SumFunctionOnSet(f, {h[m] : m \in log}) \in Nat
  BY <1>3, ImageSum
<1> QED
  BY <1>1, <1>4 DEF Contracts

\* A set of rows made from others adds up to no more.
LEMMA RemadeRows ==
    ASSUME NEW log, log \subseteq MatchRow, IsFiniteSet(log), NEW h, \A m \in log : h[m].qty = m.qty
    PROVE  Contracts({h[m] : m \in log}) <= Contracts(log)
<1> DEFINE T == {h[m] : m \in log}
           f == [m \in log |-> m.qty]
           g == [m \in T |-> m.qty]
<1>1. \A m \in log : f[m] \in Nat /\ g[h[m]] = f[m]
  BY DEF MatchRow
<1>2. SumFunctionOnSet(g, T) <= SumFunctionOnSet(f, log)
  <2> HIDE DEF f, g
  <2> QED BY <1>1, ImageSum
<1> QED
  BY <1>2 DEF Contracts

\* What the matches of a walk take is what their rows take.
RowFor(t) == [open |-> t[1], close |-> t[2], qty |-> t[3], batch |-> Len(imports) + 1, trade |-> NoClose]

LEMMA NewRows ==
    ASSUME NEW matches, matches \subseteq Triples, IsFiniteSet(matches), NEW e
    PROVE  Contracts({RowFor(t) : t \in Taking(matches, e)}) <= TakenFrom(matches, e)
<1> DEFINE S == Taking(matches, e)
           h == [t \in S |-> RowFor(t)]
           T == {h[t] : t \in S}
           g == [m \in T |-> m.qty]
<1>1. IsFiniteSet(S)
  BY TakenIsNumber
<1>2. \A t \in S : Third[t] \in Nat /\ g[h[t]] = Third[t]
  BY DEF Taking, Third, Triples, RowFor
<1>3. SumFunctionOnSet(g, T) <= SumFunctionOnSet(Third, S)
  <2> HIDE DEF g, h, S
  <2> QED BY <1>1, <1>2, ImageSum
<1>4. T = {RowFor(t) : t \in S}
  OBVIOUS
<1> QED
  BY <1>3, <1>4 DEF Contracts, TakenFrom

LEMMA ImportKeepsMatchedOnce ==
    ASSUME MatchedOnce, NEW file \in SUBSET Execs, NEW matching \in BOOLEAN, FinishImport(file, matching)
    PROVE  MatchedOnce'
<1> DEFINE rows == StoreNew(file)
           mates == IF matching THEN Matches(rows) ELSE {}
<1>1. /\ raw' = rows /\ matched' = matched \cup Used(mates)
      /\ imports' = Append(imports, RangeOf(file))
      /\ matchLog' = matchLog \cup {RowFor(t) : t \in mates}
  BY DEF FinishImport, RowFor
<1>2. rows \in Seq(Execs) /\ \A n, k \in DOMAIN rows : rows[n] = rows[k] => n = k
  BY RowsStayDistinct DEF MatchedOnce
<1>3. DOMAIN rows \subseteq Nat /\ Range(rows) \subseteq Execs
  <2> HIDE DEF rows
  <2> QED BY <1>2 DEF Range
<1>4. /\ mates \subseteq Triples /\ IsFiniteSet(mates)
      /\ \A t \in mates : t[1] \in Execs \ matched /\ t[2] \in (Execs \ matched) \cup {NoClose}
      /\ \A e \in Execs : TakenFrom(mates, e) <= Exec[e].qty
  <2>1. CASE matching
    <3> HIDE DEF rows
    <3> QED BY <1>3, <2>1, MatchesFit
  <2>2. CASE ~matching
    <3>1. mates = {}
      BY <2>2
    <3>2. \A e : Taking({}, e) = {}
      BY DEF Taking
    <3>3. \A e \in Execs : TakenFrom({}, e) = 0 /\ Exec[e].qty \in Nat
      BY <3>2, EmptySum, ImportFacts DEF TakenFrom, RawImport
    <3> HIDE DEF mates
    <3> QED BY <3>1, <3>3, FS_EmptySet
  <2> QED
    BY <2>1, <2>2
<1> HIDE DEF rows, mates
<1>5. imports' \in Seq({RangeOf(f) : f \in SUBSET Execs}) /\ Len(imports) \in Nat
  BY <1>1 DEF MatchedOnce
<1>6. {RowFor(t) : t \in mates} \subseteq MatchRow /\ IsFiniteSet({RowFor(t) : t \in mates})
  <2>1. \A t \in mates : RowFor(t) \in MatchRow
    BY <1>4, <1>5 DEF RowFor, MatchRow, Triples
  <2> DEFINE h == [t \in mates |-> RowFor(t)]
  <2>2. h \in Surjection(mates, {RowFor(t) : t \in mates})
    BY DEF Surjection
  <2>3. IsFiniteSet({RowFor(t) : t \in mates})
    <3> HIDE DEF h
    <3> QED BY <1>4, <2>2, FS_Surjection
  <2> QED
    BY <2>1, <2>3
<1>7. matchLog' \subseteq MatchRow /\ IsFiniteSet(matchLog')
  BY <1>1, <1>6, FS_Union DEF MatchedOnce
<1>8. \A m \in matchLog' : m.open \in matched' /\ m.close \in matched' \cup {NoClose}
  BY <1>1 DEF Used, RowFor, MatchedOnce
<1>9. ASSUME NEW e \in Execs PROVE Contracts(MatchesOf(e)') <= Exec[e].qty
  <2>1. e # NoClose
    BY ImportFacts DEF NoClose
  <2>2. CASE e \in matched
    <3>1. MatchesOf(e)' = MatchesOf(e)
      BY <1>1, <1>4, <2>1, <2>2 DEF MatchesOf, RowFor
    <3> QED
      BY <3>1 DEF MatchedOnce
  <2>3. CASE e \notin matched
    <3>1. MatchesOf(e)' = {RowFor(t) : t \in Taking(mates, e)}
      BY <1>1, <2>1, <2>3 DEF MatchesOf, RowFor, Taking, MatchedOnce
    <3>2. Contracts(MatchesOf(e)') <= TakenFrom(mates, e)
      BY <1>4, <3>1, NewRows
    <3>3. MatchesOf(e)' \subseteq MatchRow /\ IsFiniteSet(MatchesOf(e)')
      BY <1>7, FS_Subset DEF MatchesOf
    <3>4. Contracts(MatchesOf(e)') \in Int /\ TakenFrom(mates, e) \in Int /\ Exec[e].qty \in Int
      BY <1>4, <3>3, RowsAddUp, TakenIsNumber, ImportFacts DEF RawImport
    <3> QED
      BY <1>4, <3>2, <3>4
  <2> QED
    BY <2>2, <2>3
<1>10. (\A e \in Execs : Contracts(MatchesOf(e)) <= Exec[e].qty)'
  BY <1>9 DEF Contracts
<1> QED
  BY <1>1, <1>2, <1>5, <1>7, <1>8, <1>10 DEF MatchedOnce

LEMMA PromoteKeepsMatchedOnce ==
    ASSUME MatchedOnce, Promote
    PROVE  MatchedOnce'
<1> DEFINE h == [m \in MatchRow |-> [m EXCEPT !.trade = m.open]]
<1>1. /\ matchLog' = {[m EXCEPT !.trade = m.open] : m \in matchLog}
      /\ UNCHANGED <<raw, matched, imports>>
  BY DEF Promote
<1>2. ASSUME NEW m \in MatchRow
      PROVE  /\ h[m] \in MatchRow /\ h[m].open = m.open /\ h[m].close = m.close /\ h[m].qty = m.qty
  BY DEF MatchRow
<1>3. matchLog' = {h[m] : m \in matchLog} /\ matchLog \subseteq MatchRow /\ IsFiniteSet(matchLog)
  BY <1>1 DEF MatchedOnce
<1> HIDE DEF h
<1>4. matchLog' \subseteq MatchRow /\ IsFiniteSet(matchLog')
  <2> DEFINE k == [m \in matchLog |-> h[m]]
  <2>1. k \in Surjection(matchLog, matchLog')
    BY <1>3 DEF Surjection
  <2> HIDE DEF k
  <2> QED
    BY <1>2, <1>3, <2>1, FS_Surjection
<1>5. \A m \in matchLog' : m.open \in matched' /\ m.close \in matched' \cup {NoClose}
  BY <1>1, <1>2, <1>3 DEF MatchedOnce
<1>6. ASSUME NEW e \in Execs PROVE Contracts(MatchesOf(e)') <= Exec[e].qty
  <2>1. MatchesOf(e) \subseteq MatchRow /\ IsFiniteSet(MatchesOf(e))
    BY <1>3, FS_Subset DEF MatchesOf
  <2>2. MatchesOf(e)' = {h[m] : m \in MatchesOf(e)}
    BY <1>2, <1>3 DEF MatchesOf
  <2>3. Contracts(MatchesOf(e)') <= Contracts(MatchesOf(e))
    <3>1. \A m \in MatchesOf(e) : h[m].qty = m.qty
      BY <1>2, <2>1
    <3> QED
      BY <2>1, <2>2, <3>1, RemadeRows
  <2>4. MatchesOf(e)' \subseteq MatchRow /\ IsFiniteSet(MatchesOf(e)')
    BY <1>4, FS_Subset DEF MatchesOf
  <2>5. Contracts(MatchesOf(e)') \in Int /\ Contracts(MatchesOf(e)) \in Int /\ Exec[e].qty \in Int
    BY <2>1, <2>4, RowsAddUp, ImportFacts DEF RawImport
  <2>6. Contracts(MatchesOf(e)) <= Exec[e].qty
    BY DEF MatchedOnce
  <2> QED
    BY <2>3, <2>5, <2>6
<1>7. (\A e \in Execs : Contracts(MatchesOf(e)) <= Exec[e].qty)'
  BY <1>6 DEF Contracts
<1> QED
  BY <1>1, <1>4, <1>5, <1>7 DEF MatchedOnce

LEMMA MatchedOnceHolds == ImportSpec => []MatchedOnce
<1>1. ImportInit => MatchedOnce
  <2> SUFFICES ASSUME ImportInit PROVE MatchedOnce
    OBVIOUS
  <2>1. raw = <<>> /\ matchLog = {} /\ imports = <<>>
    BY DEF ImportInit
  <2>2. ASSUME NEW e \in Execs PROVE Contracts(MatchesOf(e)) <= Exec[e].qty
    <3>1. MatchesOf(e) = {}
      BY <2>1 DEF MatchesOf
    <3>2. Contracts(MatchesOf(e)) = 0
      BY <3>1, EmptySum DEF Contracts
    <3>3. Exec[e].qty \in Nat
      BY ImportFacts DEF RawImport
    <3> QED
      BY <3>2, <3>3
  <2> QED
    BY <2>1, <2>2, FS_EmptySet DEF MatchedOnce
<1>2. MatchedOnce /\ [ImportNext]_importVars => MatchedOnce'
  <2> SUFFICES ASSUME MatchedOnce, [ImportNext]_importVars PROVE MatchedOnce'
    OBVIOUS
  <2>1. ASSUME UNCHANGED <<raw, matched, matchLog, imports>> PROVE MatchedOnce'
    BY <2>1 DEF MatchedOnce, Contracts, MatchesOf
  <2>2. ASSUME NEW file \in SUBSET Reported, NEW matching \in BOOLEAN,
               ImportReport(file, matching) \/ ImportFile(file, matching)
        PROVE  MatchedOnce'
    <3>1. file \in SUBSET Execs /\ FinishImport(file, matching)
      BY <2>2 DEF ImportReport, ImportFile, Reported
    <3> QED
      BY <3>1, ImportKeepsMatchedOnce
  <2>3. CASE Promote
    BY <2>3, PromoteKeepsMatchedOnce
  <2>4. CASE SendRequest \/ PollAgain \/ RequestFails \/ NewDate
    BY <2>1, <2>4 DEF SendRequest, PollAgain, RequestFails, NewDate
  <2>5. CASE UNCHANGED importVars
    BY <2>1, <2>5 DEF importVars
  <2> QED
    BY <2>2, <2>3, <2>4, <2>5 DEF ImportNext
<1> QED
  BY <1>1, <1>2, PTL DEF ImportSpec

\* However reports overlap, repeat or arrive out of order, and whenever matches are promoted,
\* the matches of an execution never use more contracts than it had, on either side
\* (importer.py:run_import, trade_matcher.py:match_trades).
THEOREM ContractsAreMatchedOnce == ImportSpec => []EachContractMatchedOnce
<1>1. MatchedOnce => EachContractMatchedOnce
  BY DEF MatchedOnce, EachContractMatchedOnce
<1> QED
  BY <1>1, MatchedOnceHolds, PTL

-----------------------------------------------------------------------------
(* Promotion.                                                              *)

\* Each opening sale has at most one trade, and a promoted match is linked to the trade of
\* its own sale, whatever the order of imports and promotions
\* (trade_promoter.py:promote_matches_to_trades).
THEOREM SalesHaveOneTrade == ImportSpec => []OneTradePerSale
<1>1. ImportInit => OneTradePerSale
  BY DEF ImportInit, OneTradePerSale
<1>2. MatchedOnce /\ MatchedOnce' /\ OneTradePerSale /\ [ImportNext]_importVars => OneTradePerSale'
  <2> SUFFICES ASSUME MatchedOnce, MatchedOnce', OneTradePerSale, [ImportNext]_importVars
               PROVE  OneTradePerSale'
    OBVIOUS
  <2>1. ASSUME UNCHANGED <<matchLog, tradeRows>> PROVE OneTradePerSale'
    BY <2>1 DEF OneTradePerSale
  <2>2. ASSUME NEW file \in SUBSET Reported, NEW matching \in BOOLEAN,
               ImportReport(file, matching) \/ ImportFile(file, matching)
        PROVE  OneTradePerSale'
    <3>1. tradeRows' = tradeRows /\ FinishImport(file, matching)
      BY <2>2 DEF ImportReport, ImportFile
    <3>2. \A m \in matchLog' : m \in matchLog \/ m.trade = NoClose
      BY <3>1 DEF FinishImport
    <3> QED
      BY <3>1, <3>2 DEF OneTradePerSale
  <2>3. CASE Promote
    <3> DEFINE opens == {m.open : m \in {n \in Unpromoted : Promotable(n)}}
    <3>1. PICK first \in [opens -> Unpromoted] :
            /\ \A o \in opens : first[o].open = o
            /\ tradeRows' = tradeRows \cup {TradeFrom(m) : m \in PromotedFrom(first)}
      BY <2>3 DEF Promote
    <3>2. matchLog' = {[m EXCEPT !.trade = m.open] : m \in matchLog}
      BY <2>3 DEF Promote
    <3>3. \A m : TradeFrom(m).open = m.open
      BY DEF TradeFrom
    <3>4. tradeRows' = tradeRows \cup {TradeFrom(first[o]) : o \in opens}
      BY <3>1 DEF PromotedFrom
    <3>5. \A t \in tradeRows : t.open \notin opens
      BY DEF Promotable
    <3>6. \A m \in matchLog : m.trade = NoClose /\ Promotable(m) => m.open \in opens
      BY DEF Unpromoted
    <3> HIDE DEF opens
    <3>7. ASSUME NEW t \in tradeRows', NEW u \in tradeRows', t.open = u.open PROVE t = u
      <4>1. CASE t \in tradeRows /\ u \in tradeRows
        BY <3>7, <4>1 DEF OneTradePerSale
      <4>2. ASSUME NEW o \in opens PROVE TradeFrom(first[o]).open = o
        BY <3>1, <3>3
      <4> QED
        BY <3>4, <3>5, <3>7, <4>1, <4>2
    <3>8. ASSUME NEW m \in matchLog PROVE \E t \in tradeRows' : t.open = m.open
      <4>1. CASE m.trade # NoClose
        BY <3>4, <4>1 DEF OneTradePerSale
      <4>2. CASE ~Promotable(m)
        BY <3>4, <4>2 DEF Promotable
      <4>3. CASE m.trade = NoClose /\ Promotable(m)
        <5>1. m.open \in opens
          BY <3>6, <4>3
        <5> QED
          BY <3>1, <3>3, <3>4, <5>1
      <4> QED
        BY <4>1, <4>2, <4>3
    <3>9. ASSUME NEW m \in matchLog' PROVE \E t \in tradeRows' : t.open = m.open
      <4>1. PICK n \in matchLog : m = [n EXCEPT !.trade = n.open]
        BY <3>2
      <4>2. m.open = n.open
        BY <4>1 DEF MatchedOnce, MatchRow
      <4> QED
        BY <3>8, <4>2
    <3> QED
      BY <3>7, <3>9 DEF OneTradePerSale
  <2>4. CASE SendRequest \/ PollAgain \/ RequestFails \/ NewDate
    BY <2>1, <2>4 DEF SendRequest, PollAgain, RequestFails, NewDate
  <2>5. CASE UNCHANGED importVars
    BY <2>1, <2>5 DEF importVars
  <2> QED
    BY <2>2, <2>3, <2>4, <2>5 DEF ImportNext
<1> QED
  BY <1>1, <1>2, MatchedOnceHolds, PTL DEF ImportSpec

-----------------------------------------------------------------------------
(* Snapshots of the market.                                                *)

EntryColumns == Groups \cup {"price"}

\* A snapshot has a value, or none, for each of its columns.
Columned(x, S) == x = [g \in S |-> x[g]]

\* A snapshot is none or complete.
Complete ==
    /\ DOMAIN entry = Recorded /\ DOMAIN exit = Recorded
    /\ \A t \in Recorded : entry[t] = NoEntry \/ Columned(entry[t], EntryColumns)
    /\ \A t \in Recorded : exit[t] = NoEntry \/ Columned(exit[t], ExitGroups)

\* What a run makes of one snapshot: it is complete, and has what the old one had.
Keeps(old, new, S) ==
    /\ Columned(new, S)
    /\ old # NoEntry => \A g \in S : old[g] # Missing => new[g] # Missing

LEMMA FreshIsComplete ==
    ASSUME NEW quotes, NEW up, NEW t, NEW start
    PROVE  /\ Columned(FreshEntry(t, quotes, up), EntryColumns)
           /\ FreshEntry(t, quotes, up)["margin"] = Missing
           /\ Columned(FreshExit(start, quotes, up), ExitGroups)
<1>1. Columned(FreshExit(start, quotes, up), ExitGroups)
  BY DEF FreshExit, Columned
<1>2. Columned(FreshEntry(t, quotes, up), EntryColumns)
  <2> DEFINE bar == Source(quotes, up, "bar")
             trend == Source(quotes, up, "bars")
             option == IF bar # Missing /\ t \in Solvable THEN bar ELSE Missing
             value(g) ==
               CASE g = "price" -> IF bar = Missing THEN Zero ELSE bar
                 [] g \in {"bar", "otm"} -> bar
                 [] g = "trend" -> trend
                 [] g = "context" -> Source(quotes, up, "context")
                 [] g = "option" -> option
                 [] g = "ratio" -> IF option = Missing \/ trend = Missing THEN Missing
                                   ELSE option \o trend
                 [] g = "margin" -> Missing
  <2>1. FreshEntry(t, quotes, up) = [g \in EntryColumns |-> value(g)]
    BY DEF FreshEntry, EntryColumns
  <2> HIDE DEF value
  <2> QED
    BY <2>1 DEF Columned
<1>3. FreshEntry(t, quotes, up)["margin"] = Missing
  BY DEF FreshEntry, Groups
<1> QED
  BY <1>1, <1>2, <1>3

\* A merge keeps every column it finds a value in, the price, and what the fresh
\* snapshot does not know.
LEMMA MergeKeeps ==
    ASSUME NEW S, NEW old, Columned(old, S), NEW fresh, NEW force \in BOOLEAN
    PROVE  /\ Columned(Merged(old, fresh, force), S)
           /\ \A g \in S : old[g] # Missing => Merged(old, fresh, force)[g] # Missing
           /\ "price" \in S => Merged(old, fresh, force)["price"] = old["price"]
           /\ \A g \in S : fresh[g] = Missing => Merged(old, fresh, force)[g] = old[g]
<1>1. DOMAIN old = S
  BY DEF Columned
<1> QED
  BY <1>1 DEF Merged, Columned

LEMMA EntryKept ==
    ASSUME Complete, NEW t \in Recorded, NEW quotes, NEW up, NEW force \in BOOLEAN
    PROVE  /\ Keeps(entry[t], NewEntry(t, quotes, up, force), EntryColumns)
           /\ entry[t] # NoEntry => /\ NewEntry(t, quotes, up, force)["price"] = entry[t]["price"]
                                    /\ NewEntry(t, quotes, up, force)["margin"] = entry[t]["margin"]
<1>1. CASE entry[t] = NoEntry
  BY <1>1, FreshIsComplete DEF NewEntry, Keeps
<1>2. CASE entry[t] # NoEntry
  <2>1. NewEntry(t, quotes, up, force) = Merged(entry[t], FreshEntry(t, quotes, up), force)
    BY <1>2 DEF NewEntry
  <2>2. Columned(entry[t], EntryColumns) /\ FreshEntry(t, quotes, up)["margin"] = Missing
    BY <1>2, FreshIsComplete DEF Complete
  <2>3. "price" \in EntryColumns /\ "margin" \in EntryColumns
    BY DEF EntryColumns, Groups
  <2> QED
    BY <2>1, <2>2, <2>3, MergeKeeps DEF Keeps
<1> QED
  BY <1>1, <1>2

LEMMA ExitKept ==
    ASSUME Complete, NEW t \in ended, t \in Recorded, NEW quotes, NEW up, NEW force \in BOOLEAN
    PROVE  Keeps(exit[t], NewExit(t, quotes, up, force), ExitGroups)
<1>1. CASE exit[t] = NoEntry
  BY <1>1, FreshIsComplete DEF NewExit, Keeps
<1>2. CASE exit[t] # NoEntry
  <2>1. NewExit(t, quotes, up, force) = Merged(exit[t], FreshExit(FreshEntry(t, quotes, up), quotes, up), force)
    BY <1>2 DEF NewExit
  <2>2. Columned(exit[t], ExitGroups)
    BY <1>2 DEF Complete
  <2> QED
    BY <2>1, <2>2, MergeKeeps DEF Keeps
<1> QED
  BY <1>1, <1>2

\* One trade, in any step: its snapshots stay or are those a run makes of them.
Step(t) ==
    /\ \/ entry'[t] = entry[t]
       \/ /\ Keeps(entry[t], entry'[t], EntryColumns)
          /\ entry[t] # NoEntry => /\ entry'[t]["price"] = entry[t]["price"]
                                   /\ entry'[t]["margin"] = entry[t]["margin"]
    /\ \/ exit'[t] = exit[t]
       \/ Keeps(exit[t], exit'[t], ExitGroups)

LEMMA EveryTradeSteps ==
    ASSUME Complete, [EnrichmentNext]_enrichmentVars
    PROVE  DOMAIN entry' = Recorded /\ DOMAIN exit' = Recorded /\ \A t \in Recorded : Step(t)
<1>1. CASE UNCHANGED enrichmentVars
  BY <1>1 DEF enrichmentVars, Complete, Step
<1>2. ASSUME NEW t \in Recorded, TradeEnds(t)
      PROVE  DOMAIN entry' = Recorded /\ DOMAIN exit' = Recorded /\ \A u \in Recorded : Step(u)
  BY <1>2 DEF TradeEnds, Complete, Step
<1>3. ASSUME NEW selected \in SUBSET Recorded, NEW quotes \in Chains, NEW force \in BOOLEAN, NEW up,
             Enrich(selected, quotes, up, force)
      PROVE  DOMAIN entry' = Recorded /\ DOMAIN exit' = Recorded /\ \A t \in Recorded : Step(t)
  <2>1. DOMAIN entry' = Recorded /\ DOMAIN exit' = Recorded
    BY <1>3 DEF Enrich
  <2>2. ASSUME NEW t \in Recorded PROVE Step(t)
    <3>1. CASE t \notin selected
      BY <1>3, <3>1 DEF Enrich, Step
    <3>2. CASE t \in selected
      <4>1. entry'[t] = NewEntry(t, quotes, up, force) /\ exit'[t] = NewExit(t, quotes, up, force)
        BY <1>3, <3>2 DEF Enrich
      <4>2. exit'[t] = exit[t] \/ Keeps(exit[t], exit'[t], ExitGroups)
        <5>1. CASE t \in ended
          BY <4>1, <5>1, ExitKept
        <5>2. CASE t \notin ended
          BY <4>1, <5>2 DEF NewExit
        <5> QED
          BY <5>1, <5>2
      <4> QED
        BY <4>1, <4>2, EntryKept DEF Step
    <3> QED
      BY <3>1, <3>2
  <2> QED
    BY <2>1, <2>2
<1> QED
  BY <1>1, <1>2, <1>3 DEF EnrichmentNext

LEMMA CompleteStart == EnrichmentInit => Complete
<1> SUFFICES ASSUME EnrichmentInit PROVE Complete
  OBVIOUS
<1>1. ASSUME NEW captured PROVE Live(captured) = NoEntry \/ Columned(Live(captured), EntryColumns)
  BY DEF Live, Columned, EntryColumns
<1>2. \A t \in Recorded : \E captured \in Captured : entry[t] = Live(captured)
  BY DEF EnrichmentInit
<1> QED
  BY <1>1, <1>2 DEF EnrichmentInit, Complete

LEMMA CompleteStep == Complete /\ [EnrichmentNext]_enrichmentVars => Complete'
<1> SUFFICES ASSUME Complete, [EnrichmentNext]_enrichmentVars PROVE Complete'
  OBVIOUS
<1> QED
  BY EveryTradeSteps DEF Complete, Step, Keeps

\* However often the command runs, with whatever providers answering and whichever
\* trades selected, no group of columns a snapshot has is lost, and the price and the
\* margin of an entry stay as they are (engine.py:_merge_snapshot_fields).
THEOREM SnapshotsOnlyGain == EnrichmentSpec => NothingKnownIsLost
<1>1. ASSUME Complete, [EnrichmentNext]_enrichmentVars, NEW t \in Recorded
      PROVE  /\ \A g \in DOMAIN entry[t] : entry[t][g] # Missing => entry'[t][g] # Missing
             /\ \A g \in DOMAIN exit[t] : exit[t][g] # Missing => exit'[t][g] # Missing
             /\ entry[t] # NoEntry => /\ entry'[t]["price"] = entry[t]["price"]
                                      /\ entry'[t]["margin"] = entry[t]["margin"]
  <2>1. Step(t)
    BY <1>1, EveryTradeSteps
  <2>2. /\ DOMAIN NoEntry = {}
        /\ \A x, S : Columned(x, S) => DOMAIN x = S
    BY DEF NoEntry, Columned
  <2>3. /\ DOMAIN entry[t] = {} \/ (entry[t] # NoEntry /\ DOMAIN entry[t] = EntryColumns)
        /\ DOMAIN exit[t] = {} \/ (exit[t] # NoEntry /\ DOMAIN exit[t] = ExitGroups)
    BY <1>1, <2>2 DEF Complete
  <2> QED
    BY <2>1, <2>3 DEF Step, Keeps
<1>2. Complete /\ [EnrichmentNext]_enrichmentVars
        => [\A t \in Recorded :
              /\ \A g \in DOMAIN entry[t] : entry[t][g] # Missing => entry'[t][g] # Missing
              /\ \A g \in DOMAIN exit[t] : exit[t][g] # Missing => exit'[t][g] # Missing
              /\ entry[t] # NoEntry => /\ entry'[t]["price"] = entry[t]["price"]
                                       /\ entry'[t]["margin"] = entry[t]["margin"]]_enrichmentVars
  BY <1>1
<1> QED
  BY CompleteStart, CompleteStep, <1>2, PTL DEF EnrichmentSpec, NothingKnownIsLost

-----------------------------------------------------------------------------
(* The chart of a strategy.                                                *)

\* The chart starts at zero and follows its rule.
LEMMA ChartExists ==
    ASSUME NEW m \in Nat, NEW f
    PROVE  \E g : g = [i \in 1..m |-> IF i = 1 THEN 0 ELSE Largest(0, g[i - 1] + f[i] - 1)]
<1> DEFINE Chart(g, n) == g = [i \in 1..n |-> IF i = 1 THEN 0 ELSE Largest(0, g[i - 1] + f[i] - 1)]
           Good == {n \in Nat : \E g : Chart(g, n)}
<1>1. 0 \in Good
  <2> DEFINE g == [i \in 1..0 |-> 0]
  <2>1. Chart(g, 0)
    OBVIOUS
  <2> QED
    BY <2>1
<1>2. ASSUME NEW n \in Nat, n \in Good PROVE n + 1 \in Good
  <2>1. PICK g : Chart(g, n)
    BY <1>2
  <2> DEFINE h == [i \in 1..(n + 1) |-> IF i = 1 THEN 0 ELSE Largest(0, g[i - 1] + f[i] - 1)]
  <2>2. ASSUME NEW i \in 1..(n + 1), i # 1 PROVE h[i - 1] = g[i - 1]
    <3>1. i - 1 \in 1..n /\ i - 1 \in 1..(n + 1)
      BY <2>2
    <3>2. PICK k \in 1..n : k = i - 1 /\ k \in 1..(n + 1)
      BY <3>1
    <3> QED
      BY <2>1, <3>2
  <2>3. h = [i \in 1..(n + 1) |-> IF i = 1 THEN 0 ELSE Largest(0, g[i - 1] + f[i] - 1)]
    OBVIOUS
  <2> HIDE DEF h
  <2>4. Chart(h, n + 1)
    BY <2>2, <2>3
  <2> QED
    BY <2>4
<1> HIDE DEF Good
<1>3. Nat \subseteq Good
  <2> HIDE DEF Chart
  <2> QED BY <1>1, <1>2, Induction
<1> QED
  BY <1>3 DEF Good

LEMMA ChartRule ==
    ASSUME NEW sign \in {-1, 1}, returns \in Seq(Int)
    PROVE  /\ \A i \in 1..Len(returns) : Sums(sign)[i] \in Nat
           /\ \A i \in 2..Len(returns) :
                 /\ Sums(sign)[i] = Largest(0, Sums(sign)[i - 1] + Drift(sign)[i])
                 /\ Drift(sign)[i] \in Int
           /\ 1 \in 1..Len(returns) => Sums(sign)[1] = 0
           /\ Len(returns) \in Nat
<1> DEFINE m == Len(returns)
           f == [i \in 1..m |-> sign * returns[i]]
<1>1. m \in Nat /\ DOMAIN returns = 1..m
  OBVIOUS
<1>2. \E g : g = [i \in 1..m |-> IF i = 1 THEN 0 ELSE Largest(0, g[i - 1] + f[i] - 1)]
  <2> HIDE DEF m, f
  <2> QED BY <1>1, ChartExists
<1>3. \E g : g = [i \in 1..Len(returns) |->
                    IF i = 1 THEN 0 ELSE Largest(0, g[i - 1] + sign * returns[i] - 1)]
  <2>1. PICK g : g = [i \in 1..m |-> IF i = 1 THEN 0 ELSE Largest(0, g[i - 1] + f[i] - 1)]
    BY <1>2
  <2>2. g = [i \in 1..m |-> IF i = 1 THEN 0 ELSE Largest(0, g[i - 1] + sign * returns[i] - 1)]
    BY <2>1
  <2> QED
    BY <2>2
<1> DEFINE s == CHOOSE g : g = [i \in 1..Len(returns) |->
                    IF i = 1 THEN 0 ELSE Largest(0, g[i - 1] + sign * returns[i] - 1)]
<1>4. s = [i \in 1..Len(returns) |-> IF i = 1 THEN 0 ELSE Largest(0, s[i - 1] + sign * returns[i] - 1)]
  BY <1>3
<1>5. s = Sums(sign)
  BY DEF Sums
<1> HIDE DEF s
<1> DEFINE Good == {n \in Nat : n + 1 \in 1..Len(returns) => s[n + 1] \in Nat}
<1>6. 0 \in Good
  BY <1>1, <1>4
<1>7. ASSUME NEW n \in Nat, n \in Good PROVE n + 1 \in Good
  <2>1. ASSUME n + 1 + 1 \in 1..Len(returns) PROVE s[n + 1 + 1] \in Nat
    <3>1. n + 1 \in 1..Len(returns) /\ s[n + 1] \in Nat /\ returns[n + 1 + 1] \in Int
      BY <1>1, <1>7, <2>1
    <3>2. PICK k \in 2..Len(returns) : k = n + 1 + 1 /\ k - 1 = n + 1
      BY <2>1
    <3>3. s[k] = Largest(0, s[k - 1] + sign * returns[k] - 1)
      BY <1>4, <3>2
    <3> QED
      BY <3>1, <3>2, <3>3 DEF Largest
  <2> QED
    BY <2>1
<1> HIDE DEF Good
<1>8. Nat \subseteq Good
  BY <1>6, <1>7, Induction
<1>9. ASSUME NEW i \in 1..Len(returns) PROVE s[i] \in Nat
  <2>1. i - 1 \in Good /\ i - 1 + 1 = i
    BY <1>8
  <2> QED
    BY <2>1 DEF Good
<1>10. ASSUME NEW i \in 2..Len(returns)
       PROVE  /\ s[i] = Largest(0, s[i - 1] + Drift(sign)[i])
              /\ Drift(sign)[i] \in Int
  <2>0. i \in 1..Len(returns) /\ i # 1
    BY <1>1
  <2>1. s[i] = Largest(0, s[i - 1] + sign * returns[i] - 1)
    BY <1>4, <2>0
  <2>2. Drift(sign)[i] = sign * returns[i] - 1 /\ returns[i] \in Int
    BY <1>1 DEF Drift
  <2>3. PICK k \in 1..Len(returns) : k = i - 1
    OBVIOUS
  <2>4. s[i - 1] \in Nat
    BY <1>9, <2>3
  <2> QED
    BY <2>1, <2>2, <2>4
<1>11. 1 \in 1..Len(returns) => s[1] = 0
  BY <1>4
<1> QED
  BY <1>1, <1>5, <1>9, <1>10, <1>11

\* What a run of returns that ends at i + 1 adds up to.
LEMMA LongerRun ==
    ASSUME NEW d, NEW k \in Nat, NEW i \in Nat, k <= i + 1, \A j \in k..(i + 1) : d[j] \in Int
    PROVE  SumFunctionOnSet(d, k..(i + 1)) = SumFunctionOnSet(d, k..i) + d[i + 1]
<1> DEFINE S == k..i
           x == i + 1
<1>1. IsFiniteSet(S) /\ x \notin S /\ k..(i + 1) = S \cup {x} /\ x \in k..(i + 1)
  BY FS_Interval
<1>2. \A y \in S \cup {x} : d[y] \in Int
  BY <1>1
<1>3. SumFunctionOnSet(d, S \cup {x}) = d[x] + SumFunctionOnSet(d, S) /\ SumFunctionOnSet(d, S) \in Int /\ d[x] \in Int
  <2> HIDE DEF S, x
  <2> QED BY <1>1, <1>2, OneMoreTerm, SumIsNumber
<1>4. SumFunctionOnSet(d, k..(i + 1)) = SumFunctionOnSet(d, S \cup {x})
  <2> HIDE DEF S, x
  <2> QED BY <1>1
<1> QED
  <2> HIDE DEF S
  <2> QED BY <1>3, <1>4 DEF S

\* The sums of the runs that end at i, and of the empty one.
RunSums(d, i) == {0} \cup {SumFunctionOnSet(d, k..i) : k \in 2..i}

\* An integer of a set that is below none of it.
IsGreatest(x, S) == x \in S /\ x \in Int /\ \A y \in S : y \in Int /\ y <= x

LEMMA GreatestIsMax ==
    ASSUME NEW S, NEW x, IsGreatest(x, S)
    PROVE  Max(S) = x
<1>1. \E y \in S : \A z \in S : y >= z
  BY DEF IsGreatest
<1>2. Max(S) \in S /\ \A z \in S : Max(S) >= z
  BY <1>1 DEF Max
<1>3. PICK y \in S : y = Max(S)
  BY <1>2
<1>4. y >= x /\ y <= x /\ y \in Int /\ x \in Int
  BY <1>2, <1>3 DEF IsGreatest
<1> QED
  BY <1>3, <1>4

LEMMA ChartIsGreatest ==
    ASSUME NEW sign \in {-1, 1}, returns \in Seq(Int)
    PROVE  \A i \in 1..Len(returns) : IsGreatest(Sums(sign)[i], RunSums(Drift(sign), i))
<1> DEFINE d == Drift(sign)
           s == Sums(sign)
           Good == {n \in Nat : n + 1 \in 1..Len(returns) => IsGreatest(s[n + 1], RunSums(d, n + 1))}
<1>1. /\ \A i \in 1..Len(returns) : s[i] \in Nat
      /\ \A i \in 2..Len(returns) : s[i] = Largest(0, s[i - 1] + d[i]) /\ d[i] \in Int
      /\ 1 \in 1..Len(returns) => s[1] = 0
      /\ Len(returns) \in Nat
  BY ChartRule
<1> HIDE DEF d, s
<1>2. 0 \in Good
  BY <1>1 DEF IsGreatest, RunSums
<1>3. ASSUME NEW n \in Nat, n \in Good PROVE n + 1 \in Good
  <2> SUFFICES ASSUME n + 1 + 1 \in 1..Len(returns)
               PROVE  IsGreatest(s[n + 1 + 1], RunSums(d, n + 1 + 1))
    OBVIOUS
  <2>1. PICK i \in 1..Len(returns) : i = n + 1
    BY <1>1
  <2>2. i + 1 \in 2..Len(returns) /\ i + 1 = n + 1 + 1 /\ i \in Nat
    BY <2>1
  <2>3. IsGreatest(s[i], RunSums(d, i)) /\ s[i] \in Nat
    BY <1>1, <1>3, <2>1
  <2>4. s[i + 1] = Largest(0, s[i] + d[i + 1]) /\ d[i + 1] \in Int
    <3>1. PICK j \in 2..Len(returns) : j = i + 1 /\ j - 1 = i
      BY <2>2
    <3> QED BY <1>1, <3>1
  <2>5. ASSUME NEW k \in 2..(i + 1)
        PROVE  SumFunctionOnSet(d, k..(i + 1)) = SumFunctionOnSet(d, k..i) + d[i + 1]
    <3>1. \A j \in k..(i + 1) : d[j] \in Int
      BY <1>1, <2>2
    <3> QED BY <2>2, <3>1, LongerRun
  <2>6. SumFunctionOnSet(d, (i + 1)..i) = 0
    <3>1. (i + 1)..i = {}
      BY <2>2
    <3> QED BY <3>1, EmptySum
  <2>7. RunSums(d, i + 1) = {0, d[i + 1]} \cup {SumFunctionOnSet(d, k..i) + d[i + 1] : k \in 2..i}
    <3>1. \A k \in 2..(i + 1) : k \in 2..i \/ k = i + 1
      BY <2>2
    <3>2. SumFunctionOnSet(d, (i + 1)..(i + 1)) = d[i + 1]
      <4>1. PICK k \in 2..(i + 1) : k = i + 1
        BY <2>2
      <4>2. SumFunctionOnSet(d, k..(i + 1)) = SumFunctionOnSet(d, k..i) + d[i + 1]
        BY <2>5
      <4> QED BY <2>4, <2>6, <4>1, <4>2
    <3>3. \A k \in 2..i : k \in 2..(i + 1)
      BY <2>2
    <3>4. i + 1 \in 2..(i + 1)
      BY <2>2
    <3> QED
      BY <2>5, <3>1, <3>2, <3>3, <3>4 DEF RunSums
  <2>8. /\ \A k \in 2..i : SumFunctionOnSet(d, k..i) \in Int /\ SumFunctionOnSet(d, k..i) <= s[i]
        /\ s[i] = 0 \/ \E k \in 2..i : s[i] = SumFunctionOnSet(d, k..i)
    BY <2>3 DEF IsGreatest, RunSums
  <2>9. IsGreatest(s[i + 1], RunSums(d, i + 1))
    <3>1. s[i + 1] \in RunSums(d, i + 1)
      BY <2>3, <2>4, <2>7, <2>8 DEF Largest
    <3>2. ASSUME NEW y \in RunSums(d, i + 1) PROVE y \in Int /\ y <= s[i + 1]
      <4>1. y \in {0, d[i + 1]} \/ \E k \in 2..i : y = SumFunctionOnSet(d, k..i) + d[i + 1]
        BY <2>7
      <4>2. CASE y \in {0, d[i + 1]}
        BY <2>3, <2>4, <4>2 DEF Largest
      <4>3. ASSUME NEW k \in 2..i, y = SumFunctionOnSet(d, k..i) + d[i + 1]
            PROVE  y \in Int /\ y <= s[i + 1]
        <5>1. \A a, b, c \in Int : a <= b => a + c \in Int /\ a + c <= Largest(0, b + c)
          BY DEF Largest
        <5>2. PICK a \in Int : a = SumFunctionOnSet(d, k..i) /\ a <= s[i]
          BY <2>8
        <5>3. PICK b \in Int, c \in Int : b = s[i] /\ c = d[i + 1]
          BY <2>3, <2>4
        <5>4. a + c \in Int /\ a + c <= Largest(0, b + c)
          BY <5>1, <5>2, <5>3
        <5>5. y = a + c /\ s[i + 1] = Largest(0, b + c)
          BY <2>4, <4>3, <5>2, <5>3
        <5> QED BY <5>4, <5>5
      <4> QED BY <4>1, <4>2, <4>3
    <3>3. s[i + 1] \in Int
      BY <2>3, <2>4 DEF Largest
    <3> QED
      BY <3>1, <3>2, <3>3 DEF IsGreatest
  <2> QED
    BY <2>2, <2>9
<1> HIDE DEF Good
<1>4. Nat \subseteq Good
  BY <1>2, <1>3, Induction
<1>5. ASSUME NEW i \in 1..Len(returns) PROVE IsGreatest(s[i], RunSums(d, i))
  <2>1. i - 1 \in Good /\ i - 1 + 1 = i
    BY <1>1, <1>4
  <2> QED
    BY <2>1 DEF Good
<1> QED
  BY <1>5 DEF d, s

Charted == returns \in Seq(Int)

LEMMA ReturnsAreNumbers == HealthSpec => []Charted
<1>1. HealthInit => Charted
  BY DEF HealthInit, Charted
<1>2. ASSUME Charted, [HealthNext]_healthVars PROVE Charted'
  <2>1. ASSUME NEW z \in Deviations, TradeReturns(z) PROVE Charted'
    BY <1>2, <2>1, HealthFacts DEF TradeReturns, Charted
  <2> QED
    BY <1>2, <2>1 DEF HealthNext, AnalyseDecay, healthVars, Charted
<1> QED
  BY <1>1, <1>2, PTL DEF HealthSpec

\* The chart is the greatest sum of a run of returns that ends there, for any returns,
\* of whatever number: no shift is hidden by good returns before it
\* (alpha_decay_monitor.py:_run_cusum).
THEOREM EveryRunIsSeen == HealthSpec => []ChartSeesEveryRun
<1>1. Charted => ChartSeesEveryRun
  <2> SUFFICES ASSUME Charted, NEW sign \in {-1, 1}, NEW i \in DOMAIN returns
               PROVE  Sums(sign)[i] = Max(RunSums(Drift(sign), i))
    BY DEF ChartSeesEveryRun, RunSums
  <2>1. i \in 1..Len(returns)
    BY DEF Charted
  <2> QED
    BY <2>1, ChartIsGreatest, GreatestIsMax DEF Charted
<1> QED
  BY <1>1, ReturnsAreNumbers, PTL

-----------------------------------------------------------------------------
(* The correction of p-values.                                             *)

\* A finite set can be numbered.
LEMMA PlacesNumber ==
    ASSUME NEW S, IsFiniteSet(S)
    PROVE  /\ Cardinality(S) \in Nat
           /\ Places(S) \in [S -> 1..Cardinality(S)]
           /\ \A a, b \in S : Places(S)[a] = Places(S)[b] => a = b
<1> DEFINE n == Cardinality(S)
<1>1. n \in Nat /\ IsFiniteSet(1..n) /\ Cardinality(1..n) = n
  BY FS_CardinalityType, FS_Interval
<1>2. ExistsBijection(S, 1..n)
  BY <1>1, FS_SameCardinalityBij
<1>3. \E place \in [S -> 1..n] : IsInjective(place)
  BY <1>2 DEF ExistsBijection, Bijection, Injection
<1>4. Places(S) \in [S -> 1..n] /\ IsInjective(Places(S))
  BY <1>3 DEF Places
<1> QED
  BY <1>1, <1>4 DEF IsInjective

\* What the correction starts from.
Measured == IsFiniteSet(DOMAIN found) /\ \A k \in DOMAIN found : found[k].p \in Nat

LEMMA AscendingIsSorted ==
    ASSUME Measured
    PROVE  LET m == Cardinality(DOMAIN found)
           IN /\ m \in Nat /\ Ascending \in [1..m -> DOMAIN found]
              /\ \A k \in DOMAIN found : \E i \in 1..m : Ascending[i] = k
              /\ \A i, j \in 1..m : i < j => /\ found[Ascending[i]].p <= found[Ascending[j]].p
                                             /\ Ascending[i] # Ascending[j]
<1> DEFINE keys == DOMAIN found
           place == Places(keys)
           before == {c \in keys \X keys : \/ found[c[1]].p < found[c[2]].p
                                           \/ found[c[1]].p = found[c[2]].p /\ place[c[1]] < place[c[2]]}
<1>1. IsFiniteSet(keys) /\ \A k \in keys : found[k].p \in Nat
  BY DEF Measured
<1>2. Ascending = Sorted(keys, before)
  BY DEF Ascending
<1>3. ASSUME NEW a \in keys, NEW b \in keys
      PROVE  <<a, b>> \in before <=> \/ found[a].p < found[b].p
                                     \/ found[a].p = found[b].p /\ place[a] < place[b]
  <2> HIDE DEF place, keys
  <2> QED OBVIOUS
<1> HIDE DEF keys, before
<1>4. /\ Cardinality(keys) \in Nat /\ \A k \in keys : place[k] \in Int
      /\ \A a, b \in keys : place[a] = place[b] => a = b
  BY <1>1, PlacesNumber
<1> HIDE DEF place
<1>5. Orders(before, keys)
  <2>1. \A a \in keys : <<a, a>> \notin before
    BY <1>1, <1>3, <1>4
  <2>2. ASSUME NEW a \in keys, NEW b \in keys, NEW c \in keys, <<a, b>> \in before, <<b, c>> \in before
        PROVE  <<a, c>> \in before
    BY <1>1, <1>3, <1>4, <2>2
  <2>3. ASSUME NEW a \in keys, NEW b \in keys, a # b PROVE <<a, b>> \in before \/ <<b, a>> \in before
    <3>1. place[a] # place[b] /\ place[a] \in Int /\ place[b] \in Int
      BY <1>4, <2>3
    <3> QED
      BY <1>1, <1>3, <3>1
  <2> QED
    BY <2>1, <2>2, <2>3 DEF Orders
<1> DEFINE m == Cardinality(keys)
<1>6. /\ Ascending \in [1..m -> keys]
      /\ \A k \in keys : \E i \in 1..m : Ascending[i] = k
      /\ \A i, j \in 1..m : i < j => <<Ascending[i], Ascending[j]>> \in before
  BY <1>1, <1>2, <1>5, SortedIsList
<1> HIDE DEF m
<1>7. ASSUME NEW i \in 1..m, NEW j \in 1..m, i < j
      PROVE  found[Ascending[i]].p <= found[Ascending[j]].p /\ Ascending[i] # Ascending[j]
  <2>1. Ascending[i] \in keys /\ Ascending[j] \in keys /\ <<Ascending[i], Ascending[j]>> \in before
    BY <1>6, <1>7
  <2>2. Ascending[i] # Ascending[j]
    BY <1>5, <2>1 DEF Orders
  <2> QED
    BY <1>1, <1>3, <2>1, <2>2
<1> QED
  BY <1>4, <1>6, <1>7 DEF keys, m

-----------------------------------------------------------------------------
(* The running minimum from the right.                                     *)

LEMMA LowerIsEither ==
    ASSUME NEW x \in CorrectedP, NEW y \in CorrectedP, NEW n \in Nat
    PROVE  /\ LowerQuotient(x, y) \in CorrectedP
           /\ AtMost(LowerQuotient(x, y), n) <=> AtMost(x, n) \/ AtMost(y, n)
<1>1. PICK a \in Nat, b \in Nat \ {0}, c \in Nat, d \in Nat \ {0} :
        a = x.of /\ b = x.over /\ c = y.of /\ d = y.over
  BY DEF CorrectedP
<1>2. ASSUME NEW i \in Nat, NEW j \in Nat \ {0}, NEW k \in Nat, NEW l \in Nat \ {0},
             i * l <= k * j, k <= n * l
      PROVE  i <= n * j
  <2>1. SUFFICES ASSUME i > n * j PROVE FALSE
    OBVIOUS
  <2>2. k * j <= (n * l) * j
    BY <1>2
  <2>3. (n * l) * j = (n * j) * l
    OBVIOUS
  <2>4. i * l > (n * j) * l
    BY <2>1
  <2> QED
    BY <1>2, <2>2, <2>3, <2>4
<1>3. CASE a * d <= c * b
  <2>1. LowerQuotient(x, y) = x
    BY <1>1, <1>3 DEF LowerQuotient
  <2>2. c <= n * d => a <= n * b
    BY <1>2, <1>3
  <2> QED
    BY <1>1, <2>1, <2>2 DEF AtMost
<1>4. CASE ~(a * d <= c * b)
  <2>1. LowerQuotient(x, y) = y
    BY <1>1, <1>4 DEF LowerQuotient
  <2>2. c * b <= a * d
    BY <1>4
  <2>3. a <= n * b => c <= n * d
    BY <1>2, <2>2
  <2> QED
    BY <1>1, <2>1, <2>3 DEF AtMost
<1> QED
  BY <1>3, <1>4

\* The last k + 1 corrected values.
FromRight(g, ps, k) ==
    g = [i \in (Len(ps) - k)..Len(ps) |->
            IF i = Len(ps) THEN Quotient(ps, i) ELSE LowerQuotient(Quotient(ps, i), g[i + 1])]

LEMMA StepUpExists ==
    ASSUME NEW ps, Len(ps) \in Nat
    PROVE  \A k \in Nat : \E g : FromRight(g, ps, k)
<1> DEFINE m == Len(ps)
           val(g, i) == IF i = m THEN Quotient(ps, i) ELSE LowerQuotient(Quotient(ps, i), g[i + 1])
           Good == {k \in Nat : \E g : FromRight(g, ps, k)}
<1>0. \A g, k : FromRight(g, ps, k) <=> g = [i \in (m - k)..m |-> val(g, i)]
  BY DEF FromRight
<1>1. 0 \in Good
  <2> DEFINE g == [i \in (m - 0)..m |-> Quotient(ps, m)]
  <2>1. \A i \in (m - 0)..m : i = m
    OBVIOUS
  <2>2. g = [i \in (m - 0)..m |-> IF i = m THEN Quotient(ps, i) ELSE LowerQuotient(Quotient(ps, i), g[i + 1])]
    <3>1. \A i \in (m - 0)..m :
             g[i] = IF i = m THEN Quotient(ps, i) ELSE LowerQuotient(Quotient(ps, i), g[i + 1])
      BY <2>1
    <3>2. g = [i \in (m - 0)..m |-> g[i]]
      OBVIOUS
    <3> HIDE DEF g, m
    <3> QED BY <3>1, <3>2
  <2>3. FromRight(g, ps, 0)
    <3> HIDE DEF g
    <3> QED BY <2>2 DEF FromRight
  <2> HIDE DEF g
  <2> QED
    BY <2>3
<1>2. ASSUME NEW k \in Nat, k \in Good PROVE k + 1 \in Good
  <2>1. PICK g : FromRight(g, ps, k)
    BY <1>2
  <2> DEFINE h == [i \in (m - (k + 1))..m |-> val(g, i)]
  <2>2. ASSUME NEW i \in (m - k)..m PROVE h[i] = g[i]
    <3>1. g[i] = val(g, i)
      BY <2>1 DEF FromRight
    <3>2. i \in (m - (k + 1))..m
      OBVIOUS
    <3>3. h[i] = val(g, i)
      BY <3>2
    <3> QED
      BY <3>1, <3>3
  <2>3. ASSUME NEW i \in (m - (k + 1))..m PROVE h[i] = val(h, i)
    <3>1. h[i] = val(g, i)
      OBVIOUS
    <3>2. i # m => i + 1 \in (m - k)..m
      OBVIOUS
    <3>3. i # m => h[i + 1] = g[i + 1]
      <4> HIDE DEF h
      <4> QED BY <2>2, <3>2
    <3> HIDE DEF h
    <3> QED
      BY <3>1, <3>3
  <2>4. h = [i \in (m - (k + 1))..m |-> h[i]]
    OBVIOUS
  <2>5. FromRight(h, ps, k + 1)
    <3> HIDE DEF h
    <3> QED BY <2>3, <2>4 DEF FromRight
  <2> HIDE DEF h
  <2> QED
    BY <2>5
<1> HIDE DEF Good
<1>3. Nat \subseteq Good
  BY <1>1, <1>2, Induction
<1> QED
  BY <1>3 DEF Good

\* A corrected value reaches a level when some quotient from its rank on does.
LEMMA StepUpIsMinimum ==
    ASSUME NEW m \in Nat \ {0}, NEW ps \in [1..m -> Nat], NEW level \in Nat
    PROVE  \A i \in 1..m : /\ StepUp(ps)[i] \in CorrectedP
                           /\ AtMost(StepUp(ps)[i], level) <=> \E j \in i..m : ps[j] * m <= level * j
<1> DEFINE low == CHOOSE g : g = [i \in 1..Len(ps) |->
                      IF i = Len(ps) THEN Quotient(ps, i) ELSE LowerQuotient(Quotient(ps, i), g[i + 1])]
<1>1. Len(ps) = m
  OBVIOUS
<1>2. low = [i \in 1..m |-> IF i = m THEN Quotient(ps, i) ELSE LowerQuotient(Quotient(ps, i), low[i + 1])]
  <2>1. PICK g : FromRight(g, ps, m - 1)
    BY <1>1, StepUpExists
  <2>2. m - (m - 1) = 1
    OBVIOUS
  <2>3. g = [i \in 1..Len(ps) |->
               IF i = Len(ps) THEN Quotient(ps, i) ELSE LowerQuotient(Quotient(ps, i), g[i + 1])]
    BY <1>1, <2>1, <2>2 DEF FromRight
  <2>4. low = [i \in 1..Len(ps) |->
               IF i = Len(ps) THEN Quotient(ps, i) ELSE LowerQuotient(Quotient(ps, i), low[i + 1])]
    BY <2>3
  <2> HIDE DEF low
  <2> QED
    BY <1>1, <2>4
<1>3. StepUp(ps) = low
  BY DEF StepUp
<1> HIDE DEF low
<1>4. ASSUME NEW i \in 1..m
      PROVE  Quotient(ps, i) \in CorrectedP /\ (AtMost(Quotient(ps, i), level) <=> ps[i] * m <= level * i)
  <2>1. PICK a \in Nat, b \in Nat \ {0} : a = ps[i] /\ b = i
    OBVIOUS
  <2>2. a * m \in Nat
    OBVIOUS
  <2> QED
    BY <1>1, <2>1, <2>2 DEF Quotient, CorrectedP, AtMost
<1> DEFINE Fine(i) == /\ low[i] \in CorrectedP
                      /\ AtMost(low[i], level) <=> \E j \in i..m : ps[j] * m <= level * j
           Good == {k \in Nat : k < m => Fine(m - k)}
<1>5. 0 \in Good
  <2>1. m - 0 = m /\ m \in 1..m /\ m..m = {m}
    OBVIOUS
  <2>2. low[m] = Quotient(ps, m)
    BY <1>2, <2>1
  <2>3. Fine(m)
    BY <1>4, <2>1, <2>2
  <2> HIDE DEF Fine
  <2> QED
    BY <2>1, <2>3
<1>6. ASSUME NEW k \in Nat, k \in Good PROVE k + 1 \in Good
  <2> SUFFICES ASSUME k + 1 < m PROVE Fine(m - (k + 1))
    OBVIOUS
  <2> DEFINE i == m - (k + 1)
  <2>1. i \in 1..m /\ i # m /\ i + 1 = m - k /\ i + 1 \in 1..m
    OBVIOUS
  <2>2. Fine(i + 1)
    <3> HIDE DEF Fine, i
    <3> QED BY <1>6, <2>1
  <2>3. low[i] = LowerQuotient(Quotient(ps, i), low[i + 1])
    <3> HIDE DEF i
    <3> QED BY <1>2, <2>1
  <2>4. /\ low[i] \in CorrectedP
        /\ AtMost(low[i], level) <=> AtMost(Quotient(ps, i), level) \/ AtMost(low[i + 1], level)
    <3>1. Quotient(ps, i) \in CorrectedP /\ low[i + 1] \in CorrectedP
      BY <1>4, <2>1, <2>2
    <3> HIDE DEF i
    <3> QED BY <2>3, <3>1, LowerIsEither
  <2>5. \A j : j \in i..m <=> j = i \/ j \in (i + 1)..m
    BY <2>1
  <2> HIDE DEF i
  <2>6. AtMost(Quotient(ps, i), level) <=> ps[i] * m <= level * i
    BY <1>4, <2>1
  <2>7. Fine(i)
    BY <2>2, <2>4, <2>5, <2>6
  <2> QED
    BY <2>7 DEF i
<1> HIDE DEF Good
<1>7. Nat \subseteq Good
  BY <1>5, <1>6, Induction
<1>8. ASSUME NEW i \in 1..m PROVE Fine(i)
  <2>1. m - i \in Nat /\ m - i < m /\ m - (m - i) = i
    OBVIOUS
  <2>2. m - i \in Good
    BY <1>7, <2>1
  <2> HIDE DEF Fine
  <2> QED
    BY <2>1, <2>2 DEF Good
<1> QED
  BY <1>3, <1>8

-----------------------------------------------------------------------------
(* The patterns up to a threshold.                                         *)

UpTo(t) == Cardinality({k \in DOMAIN found : found[k].p <= t})

\* In the order of the p-values the first ones are those up to a threshold.
LEMMA FirstOnes ==
    ASSUME Measured, NEW t \in Nat, NEW i \in 1..Cardinality(DOMAIN found)
    PROVE  UpTo(t) \in 0..Cardinality(DOMAIN found) /\ (found[Ascending[i]].p <= t <=> i <= UpTo(t))
<1> DEFINE keys == DOMAIN found
           m == Cardinality(keys)
           below == {k \in keys : found[k].p <= t}
<1>1. /\ m \in Nat /\ Ascending \in [1..m -> keys]
      /\ \A k \in keys : \E j \in 1..m : Ascending[j] = k
      /\ \A a, b \in 1..m : a < b => found[Ascending[a]].p <= found[Ascending[b]].p /\ Ascending[a] # Ascending[b]
  BY AscendingIsSorted
<1>2. IsFiniteSet(keys) /\ \A k \in keys : found[k].p \in Nat
  BY DEF Measured
<1>3. i \in Nat /\ i \in 1..m /\ i >= 1
  BY <1>1
<1>4. UpTo(t) = Cardinality(below)
  BY DEF UpTo
<1>5. IsFiniteSet(below) /\ Cardinality(below) \in Nat /\ Cardinality(below) <= m
  BY <1>2, FS_Subset, FS_CardinalityType
<1> HIDE DEF keys, m
<1>6. ASSUME found[Ascending[i]].p <= t PROVE i <= Cardinality(below)
  <2> DEFINE f == [n \in 1..i |-> Ascending[n]]
  <2>1. ASSUME NEW n \in 1..i PROVE Ascending[n] \in below
    <3>1. n \in 1..m /\ (n = i \/ n < i)
      BY <1>1, <1>3
    <3>2. Ascending[n] \in keys /\ found[Ascending[n]].p <= found[Ascending[i]].p
      BY <1>1, <1>2, <1>3, <3>1
    <3>3. found[Ascending[n]].p \in Nat /\ found[Ascending[i]].p \in Nat
      BY <1>1, <1>2, <1>3, <3>2
    <3> QED
      BY <1>6, <3>2, <3>3
  <2>2. f \in [1..i -> below]
    <3> HIDE DEF below
    <3> QED BY <2>1
  <2>3. \A a, b \in 1..i : f[a] = f[b] => a = b
    <3>1. \A a \in 1..i : a \in 1..m /\ a \in Int
      BY <1>1, <1>3
    <3>2. ASSUME NEW a \in 1..i, NEW b \in 1..i, a # b PROVE Ascending[a] # Ascending[b]
      <4>1. a < b \/ b < a
        BY <3>1, <3>2
      <4> QED
        BY <1>1, <3>1, <4>1
    <3> QED
      BY <3>2
  <2>4. f \in Injection(1..i, below)
    <3> HIDE DEF f, below
    <3> QED BY <2>2, <2>3 DEF Injection, IsInjective
  <2>5. Cardinality(1..i) = i
    BY <1>3, FS_Interval
  <2>6. Cardinality(1..i) <= Cardinality(below)
    <3> HIDE DEF f, below
    <3> QED BY <1>5, <2>4, FS_Injection
  <2> QED
    BY <2>5, <2>6
<1>7. ASSUME ~(found[Ascending[i]].p <= t) PROVE Cardinality(below) <= i - 1
  <2> DEFINE rank == [k \in below |-> CHOOSE j \in 1..m : Ascending[j] = k]
  <2>1. ASSUME NEW k \in below PROVE rank[k] \in 1..m /\ Ascending[rank[k]] = k
    BY <1>1
  <2>2. ASSUME NEW k \in below PROVE rank[k] \in 1..(i - 1)
    <3>1. rank[k] \in 1..m /\ Ascending[rank[k]] = k /\ found[k].p <= t /\ k \in keys
      BY <2>1
    <3>2. ASSUME i <= rank[k] PROVE FALSE
      <4>1. found[Ascending[i]].p <= found[k].p
        <5>1. i = rank[k] \/ i < rank[k]
          BY <1>1, <1>3, <3>1, <3>2
        <5>2. CASE i = rank[k]
          BY <1>2, <3>1, <5>2
        <5>3. CASE i < rank[k]
          <6> HIDE DEF rank
          <6> QED BY <1>1, <1>3, <3>1, <5>3
        <5> QED
          BY <5>1, <5>2, <5>3
      <4>2. found[Ascending[i]].p \in Nat /\ found[k].p \in Nat
        BY <1>1, <1>2, <1>3, <3>1
      <4> QED
        BY <1>7, <3>1, <4>1, <4>2
    <3> HIDE DEF rank
    <3> QED
      BY <1>1, <1>3, <3>1, <3>2
  <2>3. rank \in Injection(below, 1..(i - 1))
    <3>1. rank = [k \in below |-> rank[k]]
      OBVIOUS
    <3> HIDE DEF rank, below
    <3>2. rank \in [below -> 1..(i - 1)]
      BY <2>2, <3>1
    <3>3. \A a, b \in below : rank[a] = rank[b] => a = b
      BY <2>1
    <3> QED
      BY <3>2, <3>3 DEF Injection, IsInjective
  <2>4. IsFiniteSet(1..(i - 1)) /\ Cardinality(1..(i - 1)) = i - 1
    BY <1>3, FS_Interval
  <2>5. Cardinality(below) <= Cardinality(1..(i - 1))
    <3> HIDE DEF rank, below
    <3> QED BY <2>3, <2>4, FS_Injection
  <2> QED
    BY <2>4, <2>5
<1> HIDE DEF below
<1>8. UpTo(t) \in 0..m
  BY <1>1, <1>4, <1>5
<1> QED
  BY <1>3, <1>4, <1>5, <1>6, <1>7, <1>8 DEF keys, m

-----------------------------------------------------------------------------
(* The correction.                                                         *)

\* What CorrectPValues writes.
Corrected(k) ==
    LET order == Ascending
        low == StepUp([i \in 1..Len(order) |-> found[order[i]].p])
        rank(l) == CHOOSE i \in 1..Len(order) : order[i] = l
    IN IF Cardinality(DOMAIN found) < 2 THEN [of |-> found[k].p, over |-> 1]
       ELSE LowerQuotient(low[rank(k)], [of |-> 1000, over |-> 1])

\* The step-up procedure rejects a pattern.
Rejected(k) ==
    \E l \in DOMAIN found :
        /\ found[k].p <= found[l].p
        /\ Cardinality(DOMAIN found) * found[l].p <= Significance * UpTo(found[l].p)

LEMMA FewAreRejected ==
    ASSUME Measured, Cardinality(DOMAIN found) < 2, NEW k \in DOMAIN found
    PROVE  AtMost(Corrected(k), Significance) <=> Rejected(k)
<1>1. DOMAIN found = {k} /\ Cardinality(DOMAIN found) = 1
  <2>1. Cardinality(DOMAIN found) \in Nat /\ Cardinality(DOMAIN found) # 0
    BY FS_CardinalityType, FS_EmptySet DEF Measured
  <2>2. Cardinality(DOMAIN found) = 1
    BY <2>1
  <2>3. PICK x : DOMAIN found = {x}
    BY <2>2, FS_Singleton DEF Measured
  <2> QED
    BY <2>2, <2>3
<1>2. found[k].p \in Nat
  BY DEF Measured
<1>3. UpTo(found[k].p) = 1
  <2>1. {l \in DOMAIN found : found[l].p <= found[k].p} = {k}
    BY <1>1, <1>2
  <2> QED
    BY <2>1, FS_Singleton DEF UpTo
<1>4. Corrected(k) = [of |-> found[k].p, over |-> 1]
  BY DEF Corrected
<1> QED
  BY <1>1, <1>2, <1>3, <1>4 DEF Rejected, AtMost, Significance

LEMMA ManyAreRejected ==
    ASSUME Measured, ~(Cardinality(DOMAIN found) < 2), NEW k \in DOMAIN found
    PROVE  AtMost(Corrected(k), Significance) <=> Rejected(k)
<1> DEFINE keys == DOMAIN found
           m == Cardinality(keys)
           ps == [i \in 1..Len(Ascending) |-> found[Ascending[i]].p]
           r == CHOOSE i \in 1..Len(Ascending) : Ascending[i] = k
           P(l) == found[l].p
<1>1. /\ m \in Nat /\ Ascending \in [1..m -> keys]
      /\ \A l \in keys : \E j \in 1..m : Ascending[j] = l
      /\ \A a, b \in 1..m : a < b => P(Ascending[a]) <= P(Ascending[b])
  BY AscendingIsSorted
<1>2. \A l \in keys : P(l) \in Nat
  BY DEF Measured
<1>3. m \in Nat \ {0}
  BY <1>1
<1>4. Len(Ascending) = m
  <2> HIDE DEF m, keys
  <2> QED BY <1>1
<1>5. ps \in [1..m -> Nat] /\ \A j \in 1..m : ps[j] = P(Ascending[j])
  <2> HIDE DEF m, keys
  <2> QED BY <1>1, <1>2, <1>4
<1>6. r \in 1..m /\ Ascending[r] = k
  BY <1>1, <1>4
<1>7. Corrected(k) = LowerQuotient(StepUp(ps)[r], [of |-> 1000, over |-> 1])
  BY DEF Corrected
<1> HIDE DEF ps, r, m
<1>8. /\ StepUp(ps)[r] \in CorrectedP
      /\ AtMost(StepUp(ps)[r], Significance) <=> \E j \in r..m : ps[j] * m <= Significance * j
  BY <1>3, <1>5, <1>6, StepUpIsMinimum DEF Significance
<1>9. AtMost(Corrected(k), Significance) <=> \E j \in r..m : ps[j] * m <= Significance * j
  <2> DEFINE one == [of |-> 1000, over |-> 1]
  <2>1. one \in CorrectedP /\ ~AtMost(one, Significance) /\ Significance \in Nat
    BY DEF CorrectedP, AtMost, Significance
  <2> HIDE DEF one
  <2> QED
    BY <1>7, <1>8, <2>1, LowerIsEither DEF one
<1>10. \A t \in Nat, i \in 1..m : UpTo(t) \in 0..m /\ (P(Ascending[i]) <= t <=> i <= UpTo(t))
  BY FirstOnes DEF m
<1>13. P(k) = P(Ascending[r]) /\ P(k) \in Nat
  BY <1>2, <1>6
<1>15. Rejected(k) <=> \E l \in keys : P(k) <= P(l) /\ m * P(l) <= Significance * UpTo(P(l))
  BY DEF Rejected, m
<1> HIDE DEF P, keys
<1>11. ASSUME NEW j \in r..m, ps[j] * m <= Significance * j PROVE Rejected(k)
  <2> DEFINE l == Ascending[j]
  <2>1. j \in 1..m /\ r <= j /\ j \in Nat
    BY <1>1, <1>6
  <2>2. l \in keys /\ P(l) \in Nat /\ ps[j] = P(l)
    BY <1>1, <1>2, <1>5, <2>1
  <2>3. P(k) <= P(l)
    <3>1. r = j \/ r < j
      BY <1>6, <2>1
    <3> QED
      BY <1>1, <1>2, <1>6, <2>1, <2>2, <3>1
  <2> HIDE DEF l
  <2>4. j <= UpTo(P(l)) /\ UpTo(P(l)) \in Nat
    <3>1. UpTo(P(l)) \in 0..m /\ (P(Ascending[j]) <= P(l) <=> j <= UpTo(P(l)))
      BY <1>10, <2>1, <2>2
    <3>2. P(Ascending[j]) <= P(l)
      BY <2>2 DEF l
    <3> QED
      BY <1>1, <3>1, <3>2
  <2>5. m * P(l) <= Significance * UpTo(P(l))
    <3>1. PICK c \in Nat, p \in Nat : c = UpTo(P(l)) /\ p = P(l)
      BY <2>2, <2>4
    <3>2. p * m = m * p
      BY <1>1
    <3>3. 50 * j <= 50 * c
      BY <2>1, <2>4, <3>1
    <3>4. p * m <= 50 * j
      BY <1>11, <2>2, <3>1 DEF Significance
    <3>5. p * m \in Int
      BY <1>1
    <3> QED
      BY <2>1, <3>1, <3>2, <3>3, <3>4, <3>5 DEF Significance
  <2> QED
    BY <1>15, <2>2, <2>3, <2>5
<1>12. ASSUME NEW l \in keys, P(k) <= P(l), m * P(l) <= Significance * UpTo(P(l))
       PROVE  \E j \in r..m : ps[j] * m <= Significance * j
  <2>1. PICK c \in Nat, p \in Nat : c = UpTo(P(l)) /\ p = P(l) /\ c <= m
    <3>1. P(l) \in Nat
      BY <1>2
    <3>2. UpTo(P(l)) \in 0..m
      BY <1>6, <1>10, <3>1
    <3> QED
      BY <1>1, <3>1, <3>2
  <2>2. r <= c /\ c \in r..m /\ c \in 1..m
    <3>1. r <= c
      BY <1>6, <1>10, <1>12, <1>13, <2>1
    <3> QED
      BY <1>1, <1>6, <2>1, <3>1
  <2>3. PICK q \in Nat : q = ps[c] /\ q <= p
    <3>1. ps[c] = P(Ascending[c]) /\ ps[c] \in Nat
      BY <1>5, <2>2
    <3>2. P(Ascending[c]) <= p
      BY <1>10, <2>1, <2>2
    <3> QED
      BY <3>1, <3>2
  <2>4. q * m <= p * m
    BY <1>1, <2>3
  <2>5. p * m <= 50 * c
    <3>1. p * m = m * p
      BY <1>1
    <3> QED
      BY <1>12, <2>1, <3>1 DEF Significance
  <2>6. q * m <= 50 * c
    <3>1. q * m \in Int /\ p * m \in Int
      BY <1>1
    <3> QED
      BY <2>4, <2>5, <3>1
  <2> QED
    BY <2>2, <2>3, <2>6 DEF Significance
<1> QED
  BY <1>9, <1>11, <1>12, <1>15

-----------------------------------------------------------------------------
(* The learning cycle.                                                     *)

\* What the correction relies on, and what it leaves.
MiningSound ==
    /\ closed \subseteq Trades
    /\ "phase" \in DOMAIN cycle
    /\ Measured
    /\ SurvivorsAreStepUp

\* The survivors of a correction, pattern by pattern.
LEMMA SurvivorsAreRejected ==
    SurvivorsAreStepUp <=>
        (cycle.phase \in {"validate", "propose", "apply"} =>
            \A k \in DOMAIN found : AtMost(adjusted[k], Significance) <=> Rejected(k))
BY DEF SurvivorsAreStepUp, Rejected, UpTo

\* A cycle detects patterns of known trades only: finitely many.
LEMMA DetectedAreFinite ==
    ASSUME closed \subseteq Trades
    PROVE  IsFiniteSet(Detected)
<1> DEFINE all == UNION {GroupKeys(a, Trades) : a \in Analyses}
<1>1. IsFiniteSet(all)
  BY MiningFacts
<1>2. \A a \in Analyses : Sample(a) \subseteq Trades
  BY DEF Sample, Counted
<1>3. \A a \in Analyses : GroupKeys(a, Sample(a)) \subseteq GroupKeys(a, Trades)
  BY <1>2 DEF GroupKeys
<1>4. Detected \subseteq all
  BY <1>3 DEF Detected
<1> QED
  BY <1>1, <1>4, FS_Subset

\* A test gives a p-value.
LEMMA TestsMeasure ==
    ASSUME NEW key, NEW m \in TestResults(key)
    PROVE  m.p \in Nat
<1>1. CASE m \in Measures(Members(key))
  BY <1>1, MiningFacts DEF Measures
<1>2. CASE m.p = Untested
  BY <1>2 DEF Untested
<1> QED
  BY <1>1, <1>2 DEF TestResults

LEMMA StartKeepsSound ==
    ASSUME MiningSound, StartCycle
    PROVE  MiningSound'
<1> DEFINE keys == IF Cardinality(Counted) < MinSamples THEN {} ELSE Detected
<1>1. IsFiniteSet(keys)
  BY DetectedAreFinite, FS_EmptySet DEF MiningSound
<1>2. PICK ms \in [keys -> UNION {TestResults(k) : k \in keys}] :
          /\ \A k \in keys : ms[k] \in TestResults(k)
          /\ DOMAIN found' = keys
          /\ \A k \in keys : found'[k].p = ms[k].p
  BY DEF StartCycle
<1>3. cycle'.phase = "correct" /\ "phase" \in DOMAIN cycle' /\ closed' = closed
  BY DEF StartCycle
<1>4. \A k \in keys : ms[k].p \in Nat
  BY <1>2, TestsMeasure
<1> HIDE DEF keys
<1>5. Measured'
  BY <1>1, <1>2, <1>4 DEF Measured
<1>6. SurvivorsAreStepUp'
  BY <1>3 DEF SurvivorsAreStepUp
<1> QED
  BY <1>3, <1>5, <1>6 DEF MiningSound

LEMMA CorrectionKeepsSound ==
    ASSUME MiningSound, CorrectPValues
    PROVE  MiningSound'
<1>1. found' = found /\ closed' = closed /\ "phase" \in DOMAIN cycle' /\ Measured
  BY DEF CorrectPValues, MiningSound
<1>2. \A k \in DOMAIN found : adjusted'[k] = Corrected(k)
  BY DEF CorrectPValues, Corrected
<1>3. \A k \in DOMAIN found : AtMost(Corrected(k), Significance) <=> Rejected(k)
  BY <1>1, FewAreRejected, ManyAreRejected
<1>4. \A k \in DOMAIN found : AtMost(adjusted'[k], Significance) <=> Rejected(k)
  BY <1>2, <1>3
<1>5. SurvivorsAreStepUp'
  BY <1>1, <1>4 DEF SurvivorsAreStepUp, Rejected, UpTo
<1>6. Measured'
  BY <1>1 DEF Measured
<1> QED
  BY <1>1, <1>5, <1>6 DEF MiningSound

\* A step that leaves patterns and p-values alone, and does not come from before the
\* correction.
LEMMA JudgingKeepsSound ==
    ASSUME MiningSound, found' = found, adjusted' = adjusted, closed' \subseteq Trades,
           "phase" \in DOMAIN cycle',
           \/ cycle.phase \in {"validate", "propose", "apply"}
           \/ cycle'.phase \notin {"validate", "propose", "apply"}
    PROVE  MiningSound'
<1>1. Measured'
  BY DEF MiningSound, Measured
<1>2. SurvivorsAreStepUp'
  BY DEF MiningSound, SurvivorsAreStepUp
<1> QED
  BY <1>1, <1>2 DEF MiningSound

\* The end of a cycle forgets what it found.
LEMMA EndingKeepsSound ==
    ASSUME MiningSound, found' = NoFinding, closed' = closed, "phase" \in DOMAIN cycle',
           cycle'.phase = "idle"
    PROVE  MiningSound'
<1>1. Measured'
  BY FS_EmptySet DEF Measured, NoFinding
<1>2. SurvivorsAreStepUp'
  BY DEF SurvivorsAreStepUp
<1> QED
  BY <1>1, <1>2 DEF MiningSound

LEMMA MiningSoundHolds == MiningSpec => []MiningSound
<1>1. MiningInit => MiningSound
  BY FS_EmptySet DEF MiningInit, MiningSound, Measured, SurvivorsAreStepUp, NoFinding
<1>2. MiningSound /\ [MiningNext]_miningVars => MiningSound'
  <2> SUFFICES ASSUME MiningSound, [MiningNext]_miningVars PROVE MiningSound'
    OBVIOUS
  <2>1. ASSUME NEW t \in Trades, TradeCloses(t) \/ SharesSold(t) PROVE MiningSound'
    <3>1. /\ found' = found /\ adjusted' = adjusted /\ cycle' = cycle /\ cycle.phase = "idle"
          /\ closed' \subseteq closed \cup {t}
      BY <2>1 DEF TradeCloses, SharesSold
    <3> QED
      BY <3>1, JudgingKeepsSound DEF MiningSound
  <2>2. CASE StartCycle
    BY <2>2, StartKeepsSound
  <2>3. CASE CorrectPValues
    BY <2>3, CorrectionKeepsSound
  <2>4. ASSUME NEW k \in cycle.todo, NEW consistent \in BOOLEAN, Validate(k, consistent)
        PROVE  MiningSound'
    <3>1. /\ found' = found /\ adjusted' = adjusted /\ closed' = closed
          /\ cycle.phase = "validate" /\ "phase" \in DOMAIN cycle'
      BY <2>4 DEF Validate, MiningSound
    <3> QED
      BY <3>1, JudgingKeepsSound DEF MiningSound
  <2>5. CASE ValidationDone \/ Propose \/ ApplyNext
    <3>1. /\ found' = found /\ adjusted' = adjusted /\ closed' = closed
          /\ cycle.phase \in {"validate", "propose", "apply"} /\ "phase" \in DOMAIN cycle'
      BY <2>5 DEF ValidationDone, Propose, ApplyNext, MiningSound
    <3> QED
      BY <3>1, JudgingKeepsSound DEF MiningSound
  <2>6. CASE EndCycle \/ ProcessEnds
    <3>1. /\ found' = NoFinding /\ closed' = closed /\ "phase" \in DOMAIN cycle'
          /\ cycle'.phase = "idle"
      BY <2>6 DEF EndCycle, ProcessEnds, MiningSound
    <3> QED
      BY <3>1, EndingKeepsSound
  <2>7. CASE UNCHANGED miningVars
    <3>1. found' = found /\ adjusted' = adjusted /\ closed' = closed /\ cycle' = cycle
      BY <2>7 DEF miningVars
    <3> QED
      BY <3>1, JudgingKeepsSound DEF MiningSound
  <2> QED
    BY <2>1, <2>2, <2>3, <2>4, <2>5, <2>6, <2>7 DEF MiningNext
<1> QED
  BY <1>1, <1>2, PTL DEF MiningSpec

\* However many patterns a week finds and whatever their p-values, the correction keeps
\* exactly the ones the step-up procedure of Benjamini and Hochberg rejects
\* (statistical_validator.py:apply_fdr_correction).
THEOREM SurvivorsAreTheStepUp == MiningSpec => []SurvivorsAreStepUp
<1>1. MiningSound => SurvivorsAreStepUp
  BY DEF MiningSound
<1> QED
  BY <1>1, MiningSoundHolds, PTL

=============================================================================
