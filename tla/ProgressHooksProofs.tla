------------------------- MODULE ProgressHooksProofs -------------------------
(***************************************************************************)
(* Theorems about the observer hooks and the mirror of the live progress   *)
(* (ProgressHooks), for every number of agents and every size of the lists.*)
(*                                                                         *)
(* The sums and the lists come first: what one more call, or one more      *)
(* agent, does to a fold, and what the operations of LiveProgress do to    *)
(* the elements of a list.  The sum is over the agents without a session,  *)
(* finitely many at any time, and is reasoned about by a smallest set for  *)
(* which a claim fails.                                                    *)
(***************************************************************************)
EXTENDS ProgressHooks, FiniteSetTheorems, SequenceTheorems, WellFoundedInduction, TLAPS

-----------------------------------------------------------------------------
(* Sums over finite sets.                                                   *)

LEMMA LeastOfNumbers ==
  ASSUME NEW N \in SUBSET Nat, N # {}
  PROVE  \E m \in N : \A n \in N : m <= n
<1> DEFINE R == OpToRel(<, Nat)
<1>1. IsWellFoundedOn(R, Nat)
  BY NatLessThanWellFounded
<1>2. \A m, n \in Nat : n < m => <<n, m>> \in R
  BY DEF OpToRel
<1> HIDE DEF R
<1>3. PICK m \in N : \A n \in N : ~ (<<n, m>> \in R)
  BY <1>1, WFMin
<1>4. \A n \in N : m \in Nat /\ n \in Nat /\ ~ (n < m)
  BY <1>2, <1>3
<1>5. \A n \in N : m <= n
  BY <1>4
<1> QED
  BY <1>5

\* Of finite sets one is smallest: no proper subset of it is among them.
LEMMA SmallestOfSets ==
  ASSUME NEW F, F # {}, \A S \in F : IsFiniteSet(S)
  PROVE  \E S \in F : \A T \in F : T \subseteq S => T = S
<1> DEFINE N == {Cardinality(S) : S \in F}
<1>1. N \in SUBSET Nat /\ N # {}
  BY FS_CardinalityType
<1>2. PICK S \in F : \A T \in F : Cardinality(S) <= Cardinality(T)
  <2>1. PICK m \in N : \A n \in N : m <= n
    BY <1>1, LeastOfNumbers
  <2>2. PICK S \in F : m = Cardinality(S)
    OBVIOUS
  <2>3. \A T \in F : Cardinality(T) \in N
    OBVIOUS
  <2> QED
    BY <2>1, <2>2, <2>3
<1>3. ASSUME NEW T \in F, T \subseteq S PROVE T = S
  <2>1. Cardinality(T) <= Cardinality(S) /\ (Cardinality(S) = Cardinality(T) => S = T)
    BY <1>3, FS_Subset
  <2>2. Cardinality(S) \in Nat /\ Cardinality(T) \in Nat
    BY FS_CardinalityType
  <2> QED
    BY <1>2, <2>1, <2>2
<1> QED
  BY <1>3

Total(f, S) == FoldFunctionOnSet(+, 0, f, S)

Pick(S) == CHOOSE x \in S : TRUE

\* One pass of the fold, on a set of sets D, over what g has for smaller sets.
Pass(f, D, g) == [S \in D |-> IF S = {} THEN 0 ELSE f[Pick(S)] + g[S \ {Pick(S)}]]

LEMMA TotalIsFixpoint ==
  ASSUME NEW f, NEW S
  PROVE  Total(f, S) = (CHOOSE g : g = Pass(f, SUBSET S, g))[S]
  BY DEF Total, FoldFunctionOnSet, MapThenFoldSet, Pass, Pick

LEMMA Picked == ASSUME NEW S, S # {} PROVE Pick(S) \in S
  BY DEF Pick

\* The fold is defined: its equation has a solution.
LEMMA FixpointExists ==
  ASSUME NEW f, NEW S, IsFiniteSet(S)
  PROVE  \E g : g = Pass(f, SUBSET S, g)
<1> DEFINE D(n) == {T \in SUBSET S : Cardinality(T) <= n}
           Bad == {n \in Nat : ~ \E g : g = Pass(f, D(n), g)}
<1>0. \A T \in SUBSET S : IsFiniteSet(T) /\ Cardinality(T) \in Nat
                          /\ Cardinality(T) <= Cardinality(S)
  BY FS_Subset, FS_CardinalityType
<1>1. Bad = {}
  <2> SUFFICES ASSUME Bad # {} PROVE FALSE
    OBVIOUS
  <2>1. PICK n \in Bad : \A m \in Bad : n <= m
    BY LeastOfNumbers
  <2>2. n # 0
    <3> SUFFICES ASSUME n = 0 PROVE FALSE
      OBVIOUS
    <3>1. \A T \in D(0) : T = {}
      BY <1>0, FS_EmptySet
    <3> DEFINE h == [T \in D(0) |-> 0]
    <3>2. h = Pass(f, D(0), h)
      BY <3>1 DEF Pass
    <3> QED
      BY <2>1, <3>2
  <2>3. n - 1 \in Nat /\ n - 1 \notin Bad
    <3>1. n \in Nat /\ n # 0
      BY <2>2
    <3>2. n - 1 \in Nat /\ ~ (n <= n - 1)
      BY <3>1
    <3> HIDE DEF Bad
    <3> QED
      BY <2>1, <3>2
  <2>4. PICK g : g = Pass(f, D(n - 1), g)
    BY <2>3
  <2> DEFINE h == Pass(f, D(n), g)
  <2>5. ASSUME NEW T \in D(n), T # {} PROVE h[T \ {Pick(T)}] = g[T \ {Pick(T)}]
    <3> DEFINE R == T \ {Pick(T)}
    <3>1. Cardinality(R) = Cardinality(T) - 1 /\ R \in SUBSET S
      BY <1>0, <2>5, Picked, FS_RemoveElement
    <3>2. R \in D(n - 1) /\ R \in D(n)
      BY <1>0, <2>3, <3>1
    <3> HIDE DEF R, D
    <3>3. g[R] = IF R = {} THEN 0 ELSE f[Pick(R)] + g[R \ {Pick(R)}]
      BY <2>4, <3>2 DEF Pass
    <3>4. h[R] = IF R = {} THEN 0 ELSE f[Pick(R)] + g[R \ {Pick(R)}]
      BY <3>2 DEF Pass
    <3> QED
      BY <3>3, <3>4 DEF R
  <2>6. h = Pass(f, D(n), h)
    <3> HIDE DEF D
    <3>1. \A T \in D(n) :
             h[T] = IF T = {} THEN 0 ELSE f[Pick(T)] + g[T \ {Pick(T)}]
      BY DEF Pass
    <3>2. h = [T \in D(n) |-> h[T]]
      BY DEF Pass
    <3>3. \A T \in D(n) :
             h[T] = IF T = {} THEN 0 ELSE f[Pick(T)] + h[T \ {Pick(T)}]
      BY <2>5, <3>1
    <3> HIDE DEF h
    <3> QED
      BY <3>2, <3>3 DEF Pass
  <2> QED
    BY <2>1, <2>6
<1>2. Cardinality(S) \in Nat /\ D(Cardinality(S)) = SUBSET S
  BY <1>0, FS_CardinalityType
<1> QED
  BY <1>1, <1>2

Solves(f, S, g) == g = Pass(f, SUBSET S, g)

\* Solutions for a set and for a part of it agree on that part.
LEMMA FixpointsAgree ==
  ASSUME NEW f, NEW S, IsFiniteSet(S), NEW T \in SUBSET S,
         NEW g, Solves(f, S, g), NEW h, Solves(f, T, h)
  PROVE  g[T] = h[T]
<1>0. g = Pass(f, SUBSET S, g) /\ h = Pass(f, SUBSET T, h)
  BY DEF Solves
<1> DEFINE Bad == {R \in SUBSET T : g[R] # h[R]}
<1>1. Bad = {}
  <2> SUFFICES ASSUME Bad # {} PROVE FALSE
    OBVIOUS
  <2>1. \A R \in Bad : IsFiniteSet(R)
    BY FS_Subset
  <2>2. PICK R \in Bad : \A Q \in Bad : Q \subseteq R => Q = R
    <3> HIDE DEF Bad
    <3> QED
      BY <2>1, SmallestOfSets
  <2>3. /\ g[R] = IF R = {} THEN 0 ELSE f[Pick(R)] + g[R \ {Pick(R)}]
        /\ h[R] = IF R = {} THEN 0 ELSE f[Pick(R)] + h[R \ {Pick(R)}]
    <3>1. R \in SUBSET S /\ R \in SUBSET T
      BY <2>2
    <3> QED
      BY <1>0, <3>1 DEF Pass
  <2>4. R # {} /\ g[R] # h[R] /\ R \subseteq T
    BY <2>2, <2>3
  <2>5. R \ {Pick(R)} \in SUBSET T /\ R \ {Pick(R)} \subseteq R /\ R \ {Pick(R)} # R
    BY <2>4, Picked
  <2>6. R \ {Pick(R)} \notin Bad
    BY <2>2, <2>5
  <2>7. g[R \ {Pick(R)}] = h[R \ {Pick(R)}]
    BY <2>5, <2>6
  <2> QED
    BY <2>3, <2>4, <2>7
<1> QED
  BY <1>1

LEMMA TotalOfNone == ASSUME NEW f PROVE Total(f, {}) = 0
<1>1. PICK g : g = Pass(f, SUBSET {}, g)
  BY FixpointExists, FS_EmptySet
<1> DEFINE c == CHOOSE h : h = Pass(f, SUBSET {}, h)
<1>2. c = Pass(f, SUBSET {}, c)
  BY <1>1
<1>3. Total(f, {}) = c[{}]
  BY TotalIsFixpoint
<1> HIDE DEF c
<1> QED
  BY <1>2, <1>3 DEF Pass

LEMMA TotalSplits ==
  ASSUME NEW f, NEW S, IsFiniteSet(S), S # {}
  PROVE  Total(f, S) = f[Pick(S)] + Total(f, S \ {Pick(S)})
<1> DEFINE T == S \ {Pick(S)}
           g == CHOOSE h : h = Pass(f, SUBSET S, h)
           k == CHOOSE h : h = Pass(f, SUBSET T, h)
<1>1. IsFiniteSet(T) /\ T \in SUBSET S
  BY FS_Subset
<1>2. g = Pass(f, SUBSET S, g) /\ Total(f, S) = g[S]
  <2>1. \E h : h = Pass(f, SUBSET S, h)
    BY FixpointExists
  <2> QED
    BY <2>1, TotalIsFixpoint
<1>3. k = Pass(f, SUBSET T, k) /\ Total(f, T) = k[T]
  <2> HIDE DEF T
  <2>1. \E h : h = Pass(f, SUBSET T, h)
    BY <1>1, FixpointExists
  <2> QED
    BY <2>1, TotalIsFixpoint
<1>4. g[T] = k[T]
  <2> HIDE DEF T, g, k
  <2>1. Solves(f, S, g) /\ Solves(f, T, k)
    BY <1>2, <1>3 DEF Solves
  <2> QED
    BY <1>1, <2>1, FixpointsAgree
<1>5. g[S] = f[Pick(S)] + g[T]
  <2> HIDE DEF g
  <2> QED
    BY <1>2 DEF Pass
<1> QED
  BY <1>2, <1>3, <1>4, <1>5

\* Sums of numbers: any element may be taken out.
LEMMA TotalIsNumber ==
  ASSUME NEW D, NEW f \in [D -> Nat], NEW S \in SUBSET D, IsFiniteSet(S)
  PROVE  Total(f, S) \in Nat
<1> DEFINE Bad == {T \in SUBSET S : Total(f, T) \notin Nat}
<1>1. Bad = {}
  <2> SUFFICES ASSUME Bad # {} PROVE FALSE
    OBVIOUS
  <2>1. \A T \in Bad : IsFiniteSet(T)
    BY FS_Subset
  <2>2. PICK T \in Bad : \A Q \in Bad : Q \subseteq T => Q = T
    <3> HIDE DEF Bad
    <3> QED
      BY <2>1, SmallestOfSets
  <2>3. T # {}
    <3>1. Total(f, {}) \in Nat /\ Total(f, T) \notin Nat
      BY <2>2, TotalOfNone
    <3> QED
      BY <3>1, Zenon
  <2>4. /\ T \ {Pick(T)} \subseteq T /\ T \ {Pick(T)} # T /\ T \ {Pick(T)} \in SUBSET S
        /\ f[Pick(T)] \in Nat
    BY <2>2, <2>3, Picked
  <2>5. T \ {Pick(T)} \notin Bad
    BY <2>2, <2>4
  <2>6. Total(f, T \ {Pick(T)}) \in Nat
    BY <2>4, <2>5
  <2>7. Total(f, T) = f[Pick(T)] + Total(f, T \ {Pick(T)})
    BY <2>1, <2>3, TotalSplits
  <2>8. Total(f, T) \in Nat
    BY <2>4, <2>6, <2>7
  <2> QED
    BY <2>2, <2>8
<1> QED
  BY <1>1

LEMMA TotalTakesOut ==
  ASSUME NEW D, NEW f \in [D -> Nat], NEW S \in SUBSET D, IsFiniteSet(S), NEW x \in S
  PROVE  Total(f, S) = f[x] + Total(f, S \ {x})
<1> DEFINE Bad == {T \in SUBSET S : \E y \in T : Total(f, T) # f[y] + Total(f, T \ {y})}
<1>1. Bad = {}
  <2> SUFFICES ASSUME Bad # {} PROVE FALSE
    OBVIOUS
  <2>1. \A T \in Bad : IsFiniteSet(T)
    BY FS_Subset
  <2>2. PICK T \in Bad : \A Q \in Bad : Q \subseteq T => Q = T
    <3> HIDE DEF Bad
    <3> QED
      BY <2>1, SmallestOfSets
  <2>3. PICK y \in T : Total(f, T) # f[y] + Total(f, T \ {y})
    BY <2>2
  <2> DEFINE c == Pick(T)
             R == T \ {c, y}
  <2>4. /\ T \in SUBSET S /\ IsFiniteSet(T) /\ c \in T /\ f[c] \in Nat /\ f[y] \in Nat
        /\ Total(f, T) = f[c] + Total(f, T \ {c})
    BY <2>1, <2>2, <2>3, Picked, TotalSplits
  <2>5. c # y
    BY <2>3, <2>4
  <2> HIDE DEF c
  <2>6. ASSUME NEW z \in T, NEW w \in T \ {z}
        PROVE  Total(f, T \ {z}) = f[w] + Total(f, (T \ {z}) \ {w})
    <3>1. T \ {z} \in SUBSET S /\ T \ {z} \subseteq T /\ T \ {z} # T
      BY <2>4
    <3>2. T \ {z} \notin Bad
      BY <2>2, <3>1
    <3> QED
      BY <3>1, <3>2
  <2>7. (T \ {c}) \ {y} = R /\ (T \ {y}) \ {c} = R
    OBVIOUS
  <2>8. Total(f, T \ {c}) = f[y] + Total(f, R) /\ Total(f, T \ {y}) = f[c] + Total(f, R)
    <3>1. y \in T \ {c} /\ c \in T \ {y}
      BY <2>4, <2>5
    <3> QED
      BY <2>4, <2>6, <2>7, <3>1
  <2>9. Total(f, R) \in Nat
    <3>1. R \in SUBSET D /\ R \in SUBSET S
      BY <2>4
    <3> QED
      BY <3>1, FS_Subset, TotalIsNumber
  <2>10. Total(f, T) = f[y] + Total(f, T \ {y})
    <3> HIDE DEF R, Bad
    <3>1. Total(f, T) = f[c] + (f[y] + Total(f, R))
      BY <2>4, <2>8
    <3>2. f[c] + (f[y] + Total(f, R)) = f[y] + (f[c] + Total(f, R))
      BY <2>4, <2>9
    <3> QED
      BY <2>8, <3>1, <3>2
  <2> QED
    BY <2>3, <2>10
<1> QED
  BY <1>1

\* Only the values on the set count.
LEMMA TotalLooksInside ==
  ASSUME NEW D, NEW f \in [D -> Nat], NEW h \in [D -> Nat], NEW S \in SUBSET D,
         IsFiniteSet(S), \A x \in S : f[x] = h[x]
  PROVE  Total(f, S) = Total(h, S)
<1> DEFINE Bad == {T \in SUBSET S : Total(f, T) # Total(h, T)}
<1>1. Bad = {}
  <2> SUFFICES ASSUME Bad # {} PROVE FALSE
    OBVIOUS
  <2>1. \A T \in Bad : IsFiniteSet(T)
    BY FS_Subset
  <2>2. PICK T \in Bad : \A Q \in Bad : Q \subseteq T => Q = T
    <3> HIDE DEF Bad
    <3> QED
      BY <2>1, SmallestOfSets
  <2>3. T # {}
    <3>1. Total(f, {}) = 0 /\ Total(h, {}) = 0
      BY TotalOfNone
    <3> QED
      BY <2>2, <3>1
  <2>4. T \ {Pick(T)} \in SUBSET S /\ T \ {Pick(T)} # T /\ f[Pick(T)] = h[Pick(T)]
    BY <2>2, <2>3, Picked
  <2>5. Total(f, T \ {Pick(T)}) = Total(h, T \ {Pick(T)})
    BY <2>2, <2>4
  <2>6. /\ Total(f, T) = f[Pick(T)] + Total(f, T \ {Pick(T)})
        /\ Total(h, T) = h[Pick(T)] + Total(h, T \ {Pick(T)})
    BY <2>1, <2>3, TotalSplits
  <2> QED
    BY <2>2, <2>4, <2>5, <2>6
<1> QED
  BY <1>1

\* One more call: the sum grows by it if its maker is in the set.
LEMMA TotalGrows ==
  ASSUME NEW D, NEW f \in [D -> Nat], NEW S \in SUBSET D, IsFiniteSet(S), NEW x \in D,
         NEW h \in [D -> Nat], h[x] = f[x] + 1, \A y \in D \ {x} : h[y] = f[y]
  PROVE  Total(h, S) = IF x \in S THEN Total(f, S) + 1 ELSE Total(f, S)
<1>1. f[x] \in Nat /\ h[x] = f[x] + 1
  OBVIOUS
<1>2. Total(h, S \ {x}) = Total(f, S \ {x}) /\ Total(f, S \ {x}) \in Nat
  <2>1. S \ {x} \in SUBSET D /\ IsFiniteSet(S \ {x}) /\ \A y \in S \ {x} : h[y] = f[y]
    BY <1>1, FS_RemoveElement
  <2> QED
    BY <1>1, <2>1, TotalLooksInside, TotalIsNumber
<1>3. CASE x \in S
  <2>1. Total(f, S) = f[x] + Total(f, S \ {x}) /\ Total(h, S) = h[x] + Total(h, S \ {x})
    BY <1>1, <1>3, TotalTakesOut
  <2> QED
    BY <1>1, <1>2, <1>3, <2>1
<1>4. CASE x \notin S
  <2>1. S \ {x} = S
    BY <1>4
  <2> QED
    BY <1>2, <1>4, <2>1
<1> QED
  BY <1>3, <1>4

\* One more element without calls: the sum stays.
LEMMA TotalGains ==
  ASSUME NEW D, NEW f \in [D -> Nat], NEW S \in SUBSET D, IsFiniteSet(S),
         NEW x \in D, x \in S \/ f[x] = 0
  PROVE  Total(f, S \cup {x}) = Total(f, S) /\ IsFiniteSet(S \cup {x})
<1>1. IsFiniteSet(S \cup {x}) /\ S \cup {x} \in SUBSET D
  BY FS_AddElement
<1>2. CASE x \in S
  <2>1. S \cup {x} = S
    BY <1>2
  <2> QED
    BY <1>1, <2>1
<1>3. CASE x \notin S /\ f[x] = 0
  <2>1. (S \cup {x}) \ {x} = S
    BY <1>3
  <2>2. Total(f, S \cup {x}) = f[x] + Total(f, S)
    BY <1>1, <2>1, TotalTakesOut
  <2>3. Total(f, S) \in Nat
    BY TotalIsNumber
  <2> QED
    BY <1>1, <1>3, <2>2, <2>3
<1> QED
  BY <1>2, <1>3

-----------------------------------------------------------------------------
(* Lists.                                                                   *)

\* A list whose places are places of another one, in whatever order: it has
\* elements of the other, and each once if the other does.
LEMMA Places ==
  ASSUME NEW S, NEW s \in Seq(S), NEW t \in Seq(S), NEW k \in Int,
         \A i \in 1..Len(t) : i + k \in 1..Len(s) /\ t[i] = s[i + k]
  PROVE  /\ ToSet(t) \subseteq ToSet(s)
         /\ IsInjective(s) => IsInjective(t)
<1>1. DOMAIN s = 1..Len(s) /\ DOMAIN t = 1..Len(t)
  OBVIOUS
<1>2. ToSet(t) \subseteq ToSet(s)
  BY <1>1 DEF ToSet
<1>3. ASSUME IsInjective(s), NEW i \in 1..Len(t), NEW j \in 1..Len(t), t[i] = t[j]
      PROVE  i = j
  <2>1. i + k = j + k
    BY <1>1, <1>3 DEF IsInjective
  <2> QED
    BY <2>1
<1> QED
  BY <1>1, <1>2, <1>3 DEF IsInjective

LEMMA NewestStay ==
  ASSUME NEW S, NEW s \in Seq(S), NEW n \in Nat
  PROVE  /\ Newest(s, n) \in Seq(S) /\ Len(Newest(s, n)) <= n
         /\ ToSet(Newest(s, n)) \subseteq ToSet(s)
         /\ IsInjective(s) => IsInjective(Newest(s, n))
<1>0. Len(s) \in Nat /\ \A i \in 1..Len(s) : s[i] \in S
  BY ElementOfSeq
<1>1. CASE Len(s) > n
  <2> DEFINE t == SubSeq(s, Len(s) - n + 1, Len(s))
  <2>1. t \in Seq(S) /\ Len(t) = n /\ \A i \in 1..n : t[i] = s[i + (Len(s) - n)]
    BY <1>0, <1>1
  <2> HIDE DEF t
  <2>2. \A i \in 1..Len(t) : i + (Len(s) - n) \in 1..Len(s) /\ t[i] = s[i + (Len(s) - n)]
    BY <1>0, <1>1, <2>1
  <2>3. ToSet(t) \subseteq ToSet(s) /\ (IsInjective(s) => IsInjective(t))
    <3>1. Len(s) - n \in Int
      BY <1>0
    <3> QED
      BY <2>1, <2>2, <3>1, Places
  <2> QED
    BY <1>1, <2>1, <2>3 DEF Newest, t
<1>2. CASE ~ (Len(s) > n)
  BY <1>0, <1>2 DEF Newest
<1> QED
  BY <1>1, <1>2

LEMMA OldestStay ==
  ASSUME NEW S, NEW s \in Seq(S), NEW n \in Nat
  PROVE  /\ Oldest(s, n) \in Seq(S) /\ Len(Oldest(s, n)) <= n
         /\ ToSet(Oldest(s, n)) \subseteq ToSet(s)
         /\ IsInjective(s) => IsInjective(Oldest(s, n))
<1>0. Len(s) \in Nat /\ \A i \in 1..Len(s) : s[i] \in S
  BY ElementOfSeq
<1>1. CASE Len(s) > n
  <2> DEFINE t == SubSeq(s, 1, n)
  <2>1. t \in Seq(S) /\ Len(t) = n /\ \A i \in 1..n : t[i] = s[i]
    BY <1>0, <1>1
  <2> HIDE DEF t
  <2>2. ASSUME NEW k \in Int, k = 0
        PROVE  \A i \in 1..Len(t) : i + k \in 1..Len(s) /\ t[i] = s[i + k]
    BY <1>0, <1>1, <2>1, <2>2
  <2>3. ASSUME NEW k \in Int, k = 0
        PROVE  ToSet(t) \subseteq ToSet(s) /\ (IsInjective(s) => IsInjective(t))
    <3>1. \A i \in 1..Len(t) : i + k \in 1..Len(s) /\ t[i] = s[i + k]
      BY <2>2, <2>3
    <3> QED
      BY <2>1, <3>1, Places
  <2> QED
    BY <1>1, <2>1, <2>3 DEF Oldest, t
<1>2. CASE ~ (Len(s) > n)
  BY <1>0, <1>2 DEF Oldest
<1> QED
  BY <1>1, <1>2

\* One more at the end.
LEMMA OneMore ==
  ASSUME NEW S, NEW s \in Seq(S), NEW e \in S
  PROVE  /\ Append(s, e) \in Seq(S)
         /\ ToSet(Append(s, e)) = ToSet(s) \cup {e}
         /\ IsInjective(s) /\ e \notin ToSet(s) => IsInjective(Append(s, e))
<1>1. /\ Append(s, e) \in Seq(S) /\ Len(s) \in Nat
      /\ DOMAIN s = 1..Len(s) /\ DOMAIN Append(s, e) = 1..(Len(s) + 1)
      /\ \A i \in 1..Len(s) : Append(s, e)[i] = s[i]
      /\ Append(s, e)[Len(s) + 1] = e
  BY AppendProperties
<1>2. ToSet(Append(s, e)) = ToSet(s) \cup {e}
  <2>1. \A i \in DOMAIN Append(s, e) : Append(s, e)[i] \in ToSet(s) \cup {e}
    BY <1>1 DEF ToSet
  <2>2. \A i \in DOMAIN s : s[i] \in ToSet(Append(s, e))
    BY <1>1 DEF ToSet
  <2>3. e \in ToSet(Append(s, e))
    BY <1>1 DEF ToSet
  <2> QED
    BY <2>1, <2>2, <2>3 DEF ToSet
<1>3. ASSUME IsInjective(s), e \notin ToSet(s) PROVE IsInjective(Append(s, e))
  BY <1>1, <1>3 DEF IsInjective, ToSet
<1> QED
  BY <1>1, <1>2, <1>3

\* One more at the front.
LEMMA OneInFront ==
  ASSUME NEW S, NEW s \in Seq(S), NEW e \in S
  PROVE  /\ <<e>> \o s \in Seq(S)
         /\ ToSet(<<e>> \o s) = ToSet(s) \cup {e}
         /\ IsInjective(s) /\ e \notin ToSet(s) => IsInjective(<<e>> \o s)
<1> DEFINE t == <<e>> \o s
<1>1. /\ t \in Seq(S) /\ Len(s) \in Nat /\ DOMAIN s = 1..Len(s) /\ DOMAIN t = 1..(Len(s) + 1)
      /\ t[1] = e /\ \A i \in 2..(Len(s) + 1) : t[i] = s[i - 1]
  OBVIOUS
<1> HIDE DEF t
<1>2. \A i \in DOMAIN t : t[i] \in ToSet(s) \cup {e}
  <2> SUFFICES ASSUME NEW i \in DOMAIN t, i # 1 PROVE t[i] \in ToSet(s)
    BY <1>1
  <2>1. i \in 2..(Len(s) + 1) /\ i - 1 \in DOMAIN s
    BY <1>1
  <2> QED
    BY <1>1, <2>1 DEF ToSet
<1>3. \A i \in DOMAIN s : s[i] \in ToSet(t)
  <2> SUFFICES ASSUME NEW i \in DOMAIN s PROVE s[i] \in ToSet(t)
    OBVIOUS
  <2>1. i + 1 \in DOMAIN t /\ t[i + 1] = s[i]
    BY <1>1
  <2> QED
    BY <2>1 DEF ToSet
<1>4. e \in ToSet(t)
  BY <1>1 DEF ToSet
<1>5. ASSUME IsInjective(s), e \notin ToSet(s), NEW i \in DOMAIN t, NEW j \in DOMAIN t,
             t[i] = t[j]
      PROVE  i = j
  <2>1. \A l \in DOMAIN t : l # 1 => l - 1 \in DOMAIN s /\ t[l] = s[l - 1] /\ t[l] # e
    <3> SUFFICES ASSUME NEW l \in DOMAIN t, l # 1
                 PROVE  l - 1 \in DOMAIN s /\ t[l] = s[l - 1] /\ t[l] # e
      OBVIOUS
    <3>1. l - 1 \in DOMAIN s /\ t[l] = s[l - 1]
      BY <1>1
    <3> QED
      BY <1>5, <3>1 DEF ToSet
  <2>2. CASE i = 1 \/ j = 1
    BY <1>1, <1>5, <2>1, <2>2
  <2>3. CASE i # 1 /\ j # 1
    <3>1. i - 1 = j - 1
      BY <1>5, <2>1, <2>3 DEF IsInjective
    <3> QED
      BY <1>1, <3>1
  <2> QED
    BY <2>2, <2>3
<1> QED
  BY <1>1, <1>2, <1>3, <1>4, <1>5 DEF ToSet, IsInjective, t

\* One fewer: of a list without repetition nothing else goes.
LEMMA OneFewer ==
  ASSUME NEW S, NEW s \in Seq(S), IsInjective(s), NEW i \in DOMAIN s
  PROVE  /\ RemoveAt(s, i) \in Seq(S) /\ Len(RemoveAt(s, i)) = Len(s) - 1
         /\ ToSet(RemoveAt(s, i)) = ToSet(s) \ {s[i]}
         /\ IsInjective(RemoveAt(s, i))
<1> DEFINE a == SubSeq(s, 1, i - 1)
           b == SubSeq(s, i + 1, Len(s))
           r == a \o b
<1>0. DOMAIN s = 1..Len(s)
  OBVIOUS
<1>1. Len(s) \in Nat /\ i \in 1..Len(s) /\ \A j \in 1..Len(s) : s[j] \in S
  OBVIOUS
<1>2. a \in Seq(S) /\ Len(a) = i - 1 /\ \A j \in 1..(i - 1) : a[j] = s[j]
  BY <1>1
<1>3. /\ b \in Seq(S) /\ Len(b) = Len(s) - i
      /\ \A j \in 1..(Len(s) - i) : b[j] = s[i + j]
  BY <1>1
<1> HIDE DEF a, b
<1>4. r \in Seq(S) /\ Len(r) = Len(s) - 1 /\ DOMAIN r = 1..(Len(s) - 1)
  <2>1. r \in Seq(S) /\ Len(r) = Len(s) - 1
    BY <1>1, <1>2, <1>3
  <2> HIDE DEF r
  <2> QED
    BY <2>1
<1>5. \A j \in DOMAIN r : j < i => j \in DOMAIN s /\ r[j] = s[j]
  <2>1. \A j \in 1..(i - 1) : r[j] = s[j]
    BY <1>1, <1>2, <1>3
  <2> HIDE DEF r
  <2> QED
    BY <1>0, <1>1, <1>4, <2>1
<1>6. \A j \in DOMAIN r : ~ (j < i) => j + 1 \in DOMAIN s /\ r[j] = s[j + 1]
  <2> SUFFICES ASSUME NEW j \in i..(Len(s) - 1)
               PROVE  j + 1 \in DOMAIN s /\ r[j] = s[j + 1]
    <3> HIDE DEF r
    <3>1. \A j \in DOMAIN r : ~ (j < i) => j \in i..(Len(s) - 1)
      BY <1>1, <1>4
    <3> QED
      BY <3>1
  <2>1. j \in Int /\ i \in Int /\ Len(s) \in Int /\ i <= j /\ j <= Len(s) - 1
    BY <1>1
  <2>2. j - (i - 1) \in 1..(Len(s) - i) /\ i + (j - (i - 1)) = j + 1 /\ j + 1 \in DOMAIN s
    BY <1>0, <1>1, <2>1
  <2>3. j \in (Len(a) + 1)..(Len(a) + Len(b)) /\ j - Len(a) = j - (i - 1)
    BY <1>2, <1>3, <2>1
  <2>4. r[j] = b[j - Len(a)]
    BY <1>2, <1>3, <2>3
  <2> QED
    BY <1>3, <2>2, <2>3, <2>4
<1> HIDE DEF r
<1>7. \A j \in DOMAIN r : r[j] \in ToSet(s) \ {s[i]}
  <2> SUFFICES ASSUME NEW j \in DOMAIN r PROVE r[j] \in ToSet(s) \ {s[i]}
    OBVIOUS
  <2>1. CASE j < i
    BY <1>0, <1>1, <1>5, <2>1 DEF ToSet, IsInjective
  <2>2. CASE ~ (j < i)
    <3>1. j + 1 # i /\ j + 1 \in DOMAIN s /\ r[j] = s[j + 1]
      BY <1>0, <1>1, <1>4, <1>6, <2>2
    <3> QED
      BY <1>0, <1>1, <3>1 DEF ToSet, IsInjective
  <2> QED
    BY <2>1, <2>2
<1>8. \A j \in DOMAIN s : j # i => s[j] \in ToSet(r)
  <2> SUFFICES ASSUME NEW j \in DOMAIN s, j # i PROVE s[j] \in ToSet(r)
    OBVIOUS
  <2>1. CASE j < i
    <3>1. j \in DOMAIN r /\ r[j] = s[j]
      BY <1>0, <1>1, <1>4, <1>5, <2>1
    <3> QED
      BY <3>1 DEF ToSet
  <2>2. CASE ~ (j < i)
    <3>1. j - 1 \in DOMAIN r /\ ~ (j - 1 < i) /\ (j - 1) + 1 = j
      BY <1>0, <1>1, <1>4, <2>2
    <3>2. r[j - 1] = s[j]
      BY <1>6, <3>1
    <3> QED
      BY <3>1, <3>2 DEF ToSet
  <2> QED
    BY <2>1, <2>2
<1>9. ToSet(r) = ToSet(s) \ {s[i]}
  BY <1>7, <1>8 DEF ToSet
<1>10. ASSUME NEW j \in DOMAIN r, NEW l \in DOMAIN r, r[j] = r[l] PROVE j = l
  <2>1. CASE j < i /\ l < i
    BY <1>5, <1>10, <2>1 DEF IsInjective
  <2>2. CASE ~ (j < i) /\ ~ (l < i)
    <3>1. j + 1 = l + 1
      BY <1>6, <1>10, <2>2 DEF IsInjective
    <3> QED
      BY <1>4, <3>1
  <2>3. ASSUME NEW m \in DOMAIN r, NEW n \in DOMAIN r, m < i, ~ (n < i) PROVE r[m] # r[n]
    <3>1. m # n + 1 /\ m \in DOMAIN s /\ n + 1 \in DOMAIN s /\ r[m] = s[m] /\ r[n] = s[n + 1]
      BY <1>0, <1>1, <1>4, <1>5, <1>6, <2>3
    <3> QED
      BY <3>1 DEF IsInjective
  <2> QED
    BY <1>10, <2>1, <2>2, <2>3
<1>11. r = RemoveAt(s, i)
  BY DEF r, a, b, RemoveAt
<1> QED
  BY <1>4, <1>9, <1>10, <1>11 DEF IsInjective

\* Two lists without an element in common, one after the other.
LEMMA Disjoint ==
  ASSUME NEW S, NEW s \in Seq(S), NEW t \in Seq(S), IsInjective(s), IsInjective(t),
         ToSet(s) \cap ToSet(t) = {}
  PROVE  IsInjective(s \o t)
<1> DEFINE u == s \o t
<1>1. /\ Len(s) \in Nat /\ Len(t) \in Nat
      /\ DOMAIN s = 1..Len(s) /\ DOMAIN t = 1..Len(t) /\ DOMAIN u = 1..(Len(s) + Len(t))
      /\ \A i \in 1..(Len(s) + Len(t)) : u[i] = IF i <= Len(s) THEN s[i] ELSE t[i - Len(s)]
  BY ConcatProperties
<1> HIDE DEF u
<1>2. \A i \in DOMAIN u : i <= Len(s) => i \in DOMAIN s /\ u[i] = s[i]
  BY <1>1
<1>3. \A i \in DOMAIN u : ~ (i <= Len(s)) => i - Len(s) \in DOMAIN t /\ u[i] = t[i - Len(s)]
  BY <1>1
<1>4. ASSUME NEW i \in DOMAIN u, NEW j \in DOMAIN u, u[i] = u[j] PROVE i = j
  <2>1. CASE i <= Len(s) /\ j <= Len(s)
    BY <1>2, <1>4, <2>1 DEF IsInjective
  <2>2. CASE ~ (i <= Len(s)) /\ ~ (j <= Len(s))
    <3>1. i - Len(s) = j - Len(s)
      BY <1>3, <1>4, <2>2 DEF IsInjective
    <3> QED
      BY <1>1, <3>1
  <2>3. ASSUME NEW m \in DOMAIN u, NEW n \in DOMAIN u, m <= Len(s), ~ (n <= Len(s))
        PROVE  u[m] # u[n]
    <3>1. u[m] \in ToSet(s) /\ u[n] \in ToSet(t)
      BY <1>2, <1>3, <2>3 DEF ToSet
    <3> QED
      BY <3>1
  <2> QED
    BY <1>4, <2>1, <2>2, <2>3
<1> QED
  BY <1>4 DEF IsInjective, u

\* The earliest of a list are those at its first places.
LEMMA Earliest ==
  ASSUME NEW S, NEW s \in Seq(S), NEW n \in Nat
  PROVE  /\ \A j \in 1..Len(s) : j <= n => s[j] \in ToSet(Oldest(s, n))
         /\ \A v \in ToSet(Oldest(s, n)) : \E j \in 1..Len(s) : j <= n /\ v = s[j]
<1>0. Len(s) \in Nat /\ DOMAIN s = 1..Len(s) /\ \A j \in 1..Len(s) : s[j] \in S
  OBVIOUS
<1>1. CASE Len(s) > n
  <2> DEFINE t == SubSeq(s, 1, n)
  <2>1. t \in Seq(S) /\ Len(t) = n /\ DOMAIN t = 1..n /\ \A j \in 1..n : t[j] = s[j]
    BY <1>0, <1>1
  <2> HIDE DEF t
  <2>2. \A j \in 1..Len(s) : j <= n => j \in DOMAIN t /\ t[j] = s[j]
    BY <1>0, <1>1, <2>1
  <2>3. \A j \in DOMAIN t : j \in 1..Len(s) /\ j <= n /\ t[j] = s[j]
    BY <1>0, <1>1, <2>1
  <2>4. Oldest(s, n) = t
    BY <1>1 DEF Oldest, t
  <2> QED
    BY <2>2, <2>3, <2>4 DEF ToSet
<1>2. CASE ~ (Len(s) > n)
  <2>1. Oldest(s, n) = s /\ \A j \in 1..Len(s) : j <= n
    BY <1>0, <1>2 DEF Oldest
  <2> QED
    BY <1>0, <2>1 DEF ToSet
<1> QED
  BY <1>1, <1>2

\* A row more in the trail, wherever its time puts it: of the rows of others none
\* joins the earliest, though one may leave them.
LEMMA EarliestStay ==
  ASSUME NEW S, NEW s \in Seq(S), NEW e \in S, NEW i \in 1..(Len(s) + 1), NEW n \in Nat
  PROVE  /\ InsertAt(s, i, e) \in Seq(S)
         /\ ToSet(s) \subseteq ToSet(InsertAt(s, i, e))
         /\ ToSet(Oldest(InsertAt(s, i, e), n)) \subseteq ToSet(Oldest(s, n)) \cup {e}
<1> DEFINE a == SubSeq(s, 1, i - 1)
           b == SubSeq(s, i, Len(s))
           c == a \o <<e>>
           t == c \o b
<1>0. Len(s) \in Nat /\ DOMAIN s = 1..Len(s) /\ i \in Nat /\ i >= 1 /\ i <= Len(s) + 1
      /\ \A j \in 1..Len(s) : s[j] \in S
  OBVIOUS
<1>1. a \in Seq(S) /\ Len(a) = i - 1 /\ \A j \in 1..(i - 1) : a[j] = s[j]
  BY <1>0
<1>2. b \in Seq(S) /\ Len(b) = Len(s) - i + 1 /\ \A j \in 1..(Len(s) - i + 1) : b[j] = s[i + j - 1]
  BY <1>0
<1>3. InsertAt(s, i, e) = t
  BY DEF InsertAt, t, c, a, b
<1> HIDE DEF a, b
<1>4. /\ c \in Seq(S) /\ Len(c) = i
      /\ \A j \in 1..(i - 1) : c[j] = s[j]
      /\ c[i] = e
  BY <1>0, <1>1
<1> HIDE DEF c
<1>5. t \in Seq(S) /\ Len(t) = Len(s) + 1 /\ DOMAIN t = 1..(Len(s) + 1)
  <2>1. t \in Seq(S) /\ Len(t) = Len(c) + Len(b)
    BY <1>2, <1>4, ConcatProperties
  <2>2. Len(c) + Len(b) = Len(s) + 1
    <3> HIDE DEF t
    <3> QED
      BY <1>0, <1>2, <1>4
  <2> HIDE DEF t
  <2> QED
    BY <2>1, <2>2
<1>6. \A j \in 1..i : t[j] = c[j]
  BY <1>0, <1>2, <1>4
<1>7. ASSUME NEW j \in (i + 1)..(Len(s) + 1) PROVE t[j] = s[j - 1]
  <2>1. j - i \in 1..(Len(s) - i + 1) /\ i + (j - i) - 1 = j - 1
    BY <1>0
  <2>2. t[j] = b[j - i]
    BY <1>0, <1>2, <1>4
  <2> QED
    BY <1>2, <2>1, <2>2
<1> HIDE DEF t
<1>8. /\ \A j \in 1..(i - 1) : t[j] = s[j]
      /\ t[i] = e
  <2>1. i \in 1..i /\ \A j \in 1..(i - 1) : j \in 1..i
    BY <1>0
  <2> QED
    BY <1>4, <1>6, <2>1
<1>9. ToSet(s) \subseteq ToSet(t)
  <2> SUFFICES ASSUME NEW j \in 1..Len(s) PROVE s[j] \in ToSet(t)
    BY <1>0 DEF ToSet
  <2>1. CASE j < i
    BY <1>0, <1>5, <1>8, <2>1 DEF ToSet
  <2>2. CASE ~ (j < i)
    <3>1. j + 1 \in (i + 1)..(Len(s) + 1) /\ j + 1 \in DOMAIN t /\ (j + 1) - 1 = j
      BY <1>0, <1>5, <2>2
    <3>2. t[j + 1] = s[j]
      BY <1>7, <3>1
    <3> QED
      BY <3>1, <3>2 DEF ToSet
  <2> QED
    BY <2>1, <2>2
<1>10. ASSUME NEW v \in ToSet(Oldest(t, n)), v # e PROVE v \in ToSet(Oldest(s, n))
  <2>1. PICK j \in 1..Len(t) : j <= n /\ v = t[j]
    BY <1>5, Earliest
  <2>2. CASE j < i
    <3>1. j \in 1..Len(s) /\ v = s[j]
      BY <1>0, <1>8, <2>1, <2>2
    <3> QED
      BY <2>1, <3>1, Earliest
  <2>3. CASE ~ (j < i)
    <3>1. j # i
      BY <1>8, <1>10, <2>1
    <3>2. j \in (i + 1)..(Len(s) + 1) /\ j - 1 \in 1..Len(s) /\ j - 1 <= n
      BY <1>0, <1>5, <2>1, <2>3, <3>1
    <3>3. v = s[j - 1]
      BY <1>7, <2>1, <3>2
    <3> QED
      BY <3>2, <3>3, Earliest
  <2> QED
    BY <2>2, <2>3
<1> QED
  BY <1>3, <1>5, <1>9, <1>10

-----------------------------------------------------------------------------
(* The inductive invariant.                                                 *)

Place == {"idle", "plan", "test", "mark", "snapshot", "ask", "link", "put"}

ViewType == [active : SUBSET Agent, done : Seq(Agent), plan : SUBSET Item, linked : SUBSET Agent]

HooksTypeOK ==
    /\ active \in Seq(Agent) /\ done \in Seq(Agent) /\ trail \in Seq(Agent)
    /\ feed \in Seq([who : Actor, by : Actor])
    /\ plan \in SUBSET Item
    /\ bySession \in SUBSET Agent /\ sessionless \in SUBSET Agent
    /\ registry \in SUBSET Agent /\ listed \in SUBSET Agent
    /\ tools \in [Actor -> Nat] /\ made \in [Actor -> Nat]
    /\ life \in [Agent -> {"new", "running", "ended", "killed"}]
    /\ pc \in [Actor -> Place]
    /\ force \in [Actor -> BOOLEAN] /\ alone \in [Actor -> BOOLEAN]
    /\ recent \in BOOLEAN /\ flushed \in BOOLEAN /\ moved \in BOOLEAN
    /\ hand \in [Actor -> ViewType] /\ upsert \in ViewType /\ mirror \in ViewType

\* The lists: who is in which of them, and that nobody is new and in one.
Lists ==
    /\ IsInjective(active) /\ IsInjective(done) /\ ToSet(active) \cap ToSet(done) = {}
    /\ Len(active) <= MaxActive /\ Len(done) <= MaxDone /\ Len(feed) <= MaxFeed
    /\ \A a \in ToSet(active) : life[a] # "new" /\ (life[a] = "ended" => a \in sessionless)
    /\ \A a \in ToSet(done) : life[a] = "ended" /\ a \notin sessionless
    /\ \A a \in sessionless : life[a] # "new"
    /\ bySession = {a \in Agent \ sessionless : life[a] \in {"running", "killed"}}

\* The calls: nobody makes one before the start, and finitely many agents are
\* without a session, so that their calls have a sum.
Bookings ==
    /\ IsFiniteSet(sessionless)
    /\ \A a \in Agent : life[a] = "new" => made[a] = 0 /\ \A i \in DOMAIN feed : feed[i].by # a
    /\ \A a \in Agent \ sessionless : tools[a] = made[a]
    /\ tools[Orch] = Total(made, sessionless \cup {Orch})
    /\ \A i \in DOMAIN feed :
          feed[i].who = IF feed[i].by \in sessionless THEN Orch ELSE feed[i].by

\* What a hook holds is current: the tracked agents before it asks the registry, and
\* the agents that a view shows after it has.
Fresh(x) ==
    /\ pc[x] = "ask" => hand[x] = View(Snapshot, {})
    /\ pc[x] \in {"link", "put"} => ShowsNow(hand[x])

\* The views that are under way: what the hook that runs alone holds is current, and
\* once it has put it, so is what any other still holds and what the store keeps.
ViewsAreCurrent ==
    /\ flushed => /\ ShowsNow(mirror) /\ ShowsNow(upsert)
                  /\ \A x \in Actor : pc[x] # "plan" /\ Fresh(x)
    /\ \A x \in Actor : alone[x] =>
          /\ force[x] /\ pc[x] # "idle"
          /\ \A y \in Actor \ {x} : pc[y] = "idle"
          /\ Fresh(x)

\* A view links its agents, but for those whose row is not among the earliest.
Linked(view) ==
    /\ view.active \cap ToSet(Oldest(trail, RowLimit)) \subseteq view.linked
    /\ view.linked \subseteq view.active

\* The views know no agent but those released, whose rows the trail keeps.
ViewsAreLinked ==
    /\ ToSet(active) \subseteq ToSet(trail) /\ registry \subseteq ToSet(trail)
    /\ \A x \in Actor :
          /\ hand[x].active \subseteq ToSet(trail)
          /\ pc[x] = "put" => Linked(hand[x])
    /\ mirror.active \subseteq ToSet(trail) /\ Linked(mirror)
    /\ upsert.active \subseteq ToSet(trail) /\ Linked(upsert)

HooksInv == HooksTypeOK /\ Lists /\ Bookings /\ ViewsAreCurrent /\ ViewsAreLinked

-----------------------------------------------------------------------------
(* What the operations do to the lists.                                     *)

LEMMA ListGains ==
  ASSUME HooksTypeOK, Lists, NEW a \in Agent, life[a] = "new"
  PROVE  /\ Newest(Append(active, a), MaxActive) \in Seq(Agent)
         /\ Len(Newest(Append(active, a), MaxActive)) <= MaxActive
         /\ IsInjective(Newest(Append(active, a), MaxActive))
         /\ ToSet(Newest(Append(active, a), MaxActive)) \subseteq ToSet(active) \cup {a}
<1> DEFINE t == Append(active, a)
<1>1. active \in Seq(Agent) /\ IsInjective(active) /\ a \notin ToSet(active)
  BY DEF HooksTypeOK, Lists
<1>2. t \in Seq(Agent) /\ IsInjective(t) /\ ToSet(t) = ToSet(active) \cup {a}
  BY <1>1, OneMore
<1> HIDE DEF t
<1>3. /\ Newest(t, MaxActive) \in Seq(Agent) /\ Len(Newest(t, MaxActive)) <= MaxActive
      /\ ToSet(Newest(t, MaxActive)) \subseteq ToSet(t) /\ IsInjective(Newest(t, MaxActive))
  BY <1>2, NewestStay, ProgressAssumption
<1> QED
  BY <1>2, <1>3 DEF t

LEMMA ListLoses ==
  ASSUME HooksTypeOK, Lists, NEW a \in Agent, Unlist(a)
  PROVE  /\ active' \in Seq(Agent) /\ Len(active') <= MaxActive /\ IsInjective(active')
         /\ ToSet(active') = ToSet(active) \ {a}
<1>1. /\ active \in Seq(Agent) /\ IsInjective(active)
      /\ Len(active) \in Nat /\ Len(active) <= MaxActive /\ MaxActive \in Nat
  BY ProgressAssumption DEF HooksTypeOK, Lists
<1>2. CASE a \notin ToSet(active) /\ active' = active
  BY <1>1, <1>2
<1>3. ASSUME NEW i \in DOMAIN active, active[i] = a, active' = RemoveAt(active, i)
      PROVE  /\ active' \in Seq(Agent) /\ Len(active') = Len(active) - 1 /\ IsInjective(active')
             /\ ToSet(active') = ToSet(active) \ {a}
  BY <1>1, <1>3, OneFewer
<1>4. CASE \E i \in DOMAIN active : active[i] = a /\ active' = RemoveAt(active, i)
  <2>1. /\ active' \in Seq(Agent) /\ Len(active') = Len(active) - 1 /\ IsInjective(active')
        /\ ToSet(active') = ToSet(active) \ {a}
    BY <1>3, <1>4
  <2> QED
    BY <1>1, <2>1
<1> QED
  BY <1>2, <1>4 DEF Unlist

LEMMA DoneGains ==
  ASSUME HooksTypeOK, Lists, NEW a \in Agent, a \notin ToSet(done)
  PROVE  /\ Oldest(<<a>> \o done, MaxDone) \in Seq(Agent)
         /\ Len(Oldest(<<a>> \o done, MaxDone)) <= MaxDone
         /\ IsInjective(Oldest(<<a>> \o done, MaxDone))
         /\ ToSet(Oldest(<<a>> \o done, MaxDone)) \subseteq ToSet(done) \cup {a}
<1> DEFINE t == <<a>> \o done
<1>1. done \in Seq(Agent) /\ IsInjective(done)
  BY DEF HooksTypeOK, Lists
<1>2. t \in Seq(Agent) /\ IsInjective(t) /\ ToSet(t) = ToSet(done) \cup {a}
  BY <1>1, OneInFront
<1> HIDE DEF t
<1>3. /\ Oldest(t, MaxDone) \in Seq(Agent) /\ Len(Oldest(t, MaxDone)) <= MaxDone
      /\ ToSet(Oldest(t, MaxDone)) \subseteq ToSet(t) /\ IsInjective(Oldest(t, MaxDone))
  BY <1>2, OldestStay, ProgressAssumption
<1> QED
  BY <1>2, <1>3 DEF t

FeedEntry == [who : Actor, by : Actor]

LEMMA FeedGains ==
  ASSUME feed \in Seq(FeedEntry), NEW e \in FeedEntry
  PROVE  /\ Newest(Append(feed, e), MaxFeed) \in Seq(FeedEntry)
         /\ Len(Newest(Append(feed, e), MaxFeed)) <= MaxFeed
         /\ ToSet(Newest(Append(feed, e), MaxFeed)) \subseteq ToSet(feed) \cup {e}
<1> DEFINE t == Append(feed, e)
<1>1. t \in Seq(FeedEntry) /\ ToSet(t) = ToSet(feed) \cup {e}
  BY OneMore
<1> HIDE DEF t
<1>2. /\ Newest(t, MaxFeed) \in Seq(FeedEntry) /\ Len(Newest(t, MaxFeed)) <= MaxFeed
      /\ ToSet(Newest(t, MaxFeed)) \subseteq ToSet(t)
  BY <1>1, NewestStay, ProgressAssumption
<1> QED
  BY <1>1, <1>2 DEF t

\* A call is booked on its maker, unless that one is without a session.
LEMMA BookedOn ==
  ASSUME HooksTypeOK, Lists, NEW x \in Actor, x \in Agent => life[x] = "running"
  PROVE  Booked(x) = (IF x \in sessionless THEN Orch ELSE x) /\ Booked(x) \in Actor
<1>1. Orch \notin Agent
  BY ProgressAssumption
<1>2. CASE x = Orch
  BY <1>1, <1>2 DEF Booked, Actor, HooksTypeOK
<1>3. CASE x \in Agent
  BY <1>3 DEF Booked, Actor, Lists
<1> QED
  BY <1>2, <1>3 DEF Actor

-----------------------------------------------------------------------------
(* The steps, by what they touch.                                           *)

\* persist() touches nothing but the hook's own place, the store and the ghosts.
Persists(x) ==
    \/ Throttled(x) \/ NotThrottled(x) \/ MarkThrottle(x)
    \/ TakeSnapshot(x) \/ AskRegistry(x) \/ LinkDecisions(x)
    \/ PutSnapshot(x) \/ PersistRaises(x)

LEMMA HookSteps ==
  ASSUME HooksNext
  PROVE  \/ \E a \in Agent : Released(a)
         \/ \E a \in Agent : Registered(a) \/ Unregistered(a)
         \/ \E a \in Agent : Killed(a)
         \/ \E a \in Agent, hasSession \in BOOLEAN : OnSubagentStart(a, hasSession)
         \/ \E a \in Agent : OnSubagentStop(a)
         \/ \E x \in Actor : OnPostToolCall(x) \/ OnTodo(x)
         \/ \E x \in Actor, items \in SUBSET Item : WritePlan(x, items)
         \/ \E x \in Actor : Persists(x)
         \/ GateCommits
         \/ SecondPasses
  BY DEF HooksNext, Persists

LEMMA PersistsAside ==
  ASSUME NEW x \in Actor, Persists(x)
  PROVE  UNCHANGED <<active, bySession, tools, feed, done, plan,
                     trail, registry, listed, life, made, sessionless, moved>>
<1>1. CASE Throttled(x)
  BY <1>1 DEF Throttled, progressVars, agentVars
<1>2. CASE NotThrottled(x)
  BY <1>2 DEF NotThrottled, Persisting, progressVars, agentVars, ghostVars
<1>3. CASE MarkThrottle(x)
  BY <1>3 DEF MarkThrottle, Persisting, progressVars, agentVars, ghostVars
<1>4. CASE TakeSnapshot(x)
  BY <1>4 DEF TakeSnapshot, Persisting, progressVars, agentVars, ghostVars
<1>5. CASE AskRegistry(x)
  BY <1>5 DEF AskRegistry, Persisting, progressVars, agentVars, ghostVars
<1>6. CASE LinkDecisions(x)
  BY <1>6 DEF LinkDecisions, Persisting, progressVars, agentVars, ghostVars
<1>7. CASE PutSnapshot(x)
  BY <1>7 DEF PutSnapshot, progressVars, agentVars
<1>8. CASE PersistRaises(x)
  BY <1>8 DEF PersistRaises, progressVars, agentVars
<1> QED
  BY <1>1, <1>2, <1>3, <1>4, <1>5, <1>6, <1>7, <1>8 DEF Persists

\* The steps of persist() that go on: from where to where, and with what.
LEMMA GoesOn ==
  ASSUME HooksTypeOK, NEW x \in Actor,
         \/ NotThrottled(x) \/ MarkThrottle(x) \/ TakeSnapshot(x)
         \/ AskRegistry(x) \/ LinkDecisions(x)
  PROVE  \E from \in Place, to \in Place, view \in ViewType :
            /\ Persisting(x, from, to, view) /\ recent' \in BOOLEAN
            /\ \/ to \in {"mark", "snapshot"} /\ from \in {"test", "mark"} /\ view = Empty
               \/ from = "snapshot" /\ to = "ask" /\ view = View(Snapshot, {})
               \/ /\ from = "ask" /\ to = "link"
                  /\ view = [hand[x] EXCEPT !.active = IF registry = {} THEN @ ELSE registry]
               \/ /\ from = "link" /\ to = "put"
                  /\ view = View(hand[x], hand[x].active \cap ToSet(Oldest(trail, RowLimit)))
<1>0. /\ hand[x] \in ViewType /\ recent \in BOOLEAN
      /\ registry \in SUBSET Agent /\ plan \in SUBSET Item
      /\ active \in Seq(Agent) /\ done \in Seq(Agent)
  BY DEF HooksTypeOK
<1>1. Empty \in ViewType
  BY DEF Empty, ViewType
<1>2. View(Snapshot, {}) \in ViewType
  <2>1. ToSet(active) \in SUBSET Agent
    BY <1>0, ElementOfSeq DEF ToSet
  <2>2. Oldest(done, ShownDone) \in Seq(Agent)
    BY <1>0, OldestStay, ProgressAssumption
  <2> QED
    BY <1>0, <2>1, <2>2 DEF View, Snapshot, ViewType
<1>3. [hand[x] EXCEPT !.active = IF registry = {} THEN @ ELSE registry] \in ViewType
  BY <1>0 DEF ViewType
<1>4. View(hand[x], hand[x].active \cap ToSet(Oldest(trail, RowLimit))) \in ViewType
  BY <1>0 DEF View, ViewType
<1>5. CASE NotThrottled(x)
  <2>1. Persisting(x, "test", "mark", Empty) /\ recent' \in BOOLEAN
    BY <1>0, <1>5 DEF NotThrottled
  <2> QED
    BY <1>1, <2>1 DEF Place
<1>6. CASE MarkThrottle(x)
  <2>1. Persisting(x, "mark", "snapshot", Empty) /\ recent' \in BOOLEAN
    BY <1>6 DEF MarkThrottle
  <2> QED
    BY <1>1, <2>1 DEF Place
<1>7. CASE TakeSnapshot(x)
  <2>1. Persisting(x, "snapshot", "ask", View(Snapshot, {})) /\ recent' \in BOOLEAN
    BY <1>0, <1>7 DEF TakeSnapshot
  <2> QED
    BY <1>2, <2>1 DEF Place
<1>8. CASE AskRegistry(x)
  <2> DEFINE view == [hand[x] EXCEPT !.active = IF registry = {} THEN @ ELSE registry]
  <2>1. Persisting(x, "ask", "link", view) /\ recent' \in BOOLEAN
    BY <1>0, <1>8 DEF AskRegistry
  <2> QED
    BY <1>3, <2>1 DEF Place
<1>9. CASE LinkDecisions(x)
  <2> DEFINE view == View(hand[x], hand[x].active \cap ToSet(Oldest(trail, RowLimit)))
  <2>1. Persisting(x, "link", "put", view) /\ recent' \in BOOLEAN
    BY <1>0, <1>9 DEF LinkDecisions
  <2> QED
    BY <1>4, <2>1 DEF Place
<1> QED
  BY <1>5, <1>6, <1>7, <1>8, <1>9

LEMMA MovesOn ==
  ASSUME HooksTypeOK, NEW x \in Actor, NEW from \in Place, NEW to \in Place, NEW view \in ViewType,
         Persisting(x, from, to, view)
  PROVE  /\ pc[x] = from /\ pc' = [pc EXCEPT ![x] = to]
         /\ pc' \in [Actor -> Place] /\ hand' \in [Actor -> ViewType]
         /\ pc'[x] = to /\ hand'[x] = view
         /\ \A y \in Actor \ {x} : pc'[y] = pc[y] /\ hand'[y] = hand[y]
         /\ UNCHANGED <<active, done, plan, trail, registry, force, upsert, mirror,
                        alone, flushed, moved>>
  BY DEF Persisting, HooksTypeOK, progressVars, agentVars, storeVars, ghostVars

\* A hook that begins.
LEMMA Enters ==
  ASSUME HooksTypeOK, NEW x \in Actor, NEW forced \in BOOLEAN, NEW place \in {"test", "plan"},
         Enter(x, forced, place)
  PROVE  /\ UNCHANGED <<trail, registry, listed, recent, hand, upsert, mirror>>
         /\ pc' \in [Actor -> Place]
         /\ force' \in [Actor -> BOOLEAN] /\ alone' \in [Actor -> BOOLEAN]
         /\ flushed' \in BOOLEAN /\ moved' \in BOOLEAN
         /\ pc'[x] = place /\ force'[x] = forced
         /\ \A y \in Actor \ {x} : pc'[y] = pc[y] /\ force'[y] = force[y] /\ ~alone'[y]
         /\ alone'[x] => forced /\ \A z \in Actor \ {x} : pc[z] = "idle"
         /\ flushed' => flushed /\ ~forced
         /\ ~forced => moved' = moved
<1>1. /\ pc' = [pc EXCEPT ![x] = place] /\ force' = [force EXCEPT ![x] = forced]
      /\ UNCHANGED <<trail, registry, listed, recent, hand, upsert, mirror>>
      /\ flushed' = (flushed /\ ~forced) /\ moved' = (moved /\ ~forced)
      /\ alone' = [y \in Actor |-> y = x /\ forced /\ \A z \in Actor \ {x} : pc[z] = "idle"]
  BY DEF Enter, storeVars
<1>2. /\ pc' \in [Actor -> Place]
      /\ force' \in [Actor -> BOOLEAN]
      /\ pc'[x] = place /\ force'[x] = forced
      /\ \A y \in Actor \ {x} : pc'[y] = pc[y] /\ force'[y] = force[y]
  BY <1>1 DEF HooksTypeOK, Place
<1>3. alone' \in [Actor -> BOOLEAN] /\ flushed' \in BOOLEAN /\ moved' \in BOOLEAN
  BY <1>1 DEF HooksTypeOK
<1>4. /\ \A y \in Actor \ {x} : ~alone'[y]
      /\ alone'[x] => forced /\ \A z \in Actor \ {x} : pc[z] = "idle"
  BY <1>1
<1>5. flushed' => flushed /\ ~forced
  BY <1>1
<1>6. ~forced => moved' = moved
  <2>1. moved \in BOOLEAN
    BY DEF HooksTypeOK
  <2> QED
    BY <1>1, <2>1
<1> QED
  BY <1>1, <1>2, <1>3, <1>4, <1>5, <1>6

\* A hook that returns.
LEMMA Leaves ==
  ASSUME HooksTypeOK, NEW x \in Actor, Leave(x)
  PROVE  /\ pc' \in [Actor -> Place]
         /\ force' \in [Actor -> BOOLEAN] /\ alone' \in [Actor -> BOOLEAN]
         /\ hand' \in [Actor -> ViewType]
         /\ pc'[x] = "idle" /\ ~alone'[x] /\ hand'[x] = Empty
         /\ \A y \in Actor \ {x} : /\ pc'[y] = pc[y] /\ force'[y] = force[y]
                                   /\ hand'[y] = hand[y] /\ alone'[y] = alone[y]
<1>1. Empty \in ViewType
  BY DEF Empty, ViewType
<1> QED
  BY <1>1 DEF Leave, HooksTypeOK, Place

\* What a hook returns with: what it has put, what it leaves pending, or nothing.
LEMMA Returns ==
  ASSUME HooksTypeOK, ViewsAreCurrent, NEW x \in Actor,
         Throttled(x) \/ PutSnapshot(x) \/ PersistRaises(x)
  PROVE  /\ Leave(x) /\ recent' = recent
         /\ \/ UNCHANGED <<upsert, mirror, flushed>>
            \/ /\ pc[x] = "put" /\ upsert' = hand[x] /\ mirror' = hand[x]
               /\ flushed' = (flushed \/ alone[x])
            \/ pc[x] = "put" /\ upsert' = hand[x] /\ UNCHANGED <<mirror, flushed>>
<1>1. CASE Throttled(x)
  <2>1. Leave(x) /\ recent' = recent /\ UNCHANGED <<upsert, mirror>>
        /\ flushed' = (flushed \/ (HasStore /\ alone[x]))
        /\ (~HasStore \/ (~force[x] /\ recent))
    BY <1>1 DEF Throttled, storeVars
  <2>2. ~ (HasStore /\ alone[x])
    BY <2>1 DEF ViewsAreCurrent
  <2>3. flushed' = flushed
    <3>1. flushed \in BOOLEAN
      BY DEF HooksTypeOK
    <3> QED
      BY <2>1, <2>2, <3>1
  <2> QED
    BY <2>1, <2>3
<1>2. CASE PutSnapshot(x)
  BY <1>2 DEF PutSnapshot
<1>3. CASE PersistRaises(x)
  BY <1>3 DEF PersistRaises
<1> QED
  BY <1>1, <1>2, <1>3

LEMMA Typed ==
  ASSUME HooksTypeOK, Lists, ViewsAreCurrent, [HooksNext]_<<progressVars, hookVars>>
  PROVE  HooksTypeOK'
<1>1. CASE UNCHANGED <<progressVars, hookVars>>
  BY <1>1 DEF HooksTypeOK, progressVars, hookVars, agentVars, storeVars, ghostVars
<1>2. ASSUME NEW a \in Agent, Released(a) PROVE HooksTypeOK'
  <2>1. PICK i \in 1..(Len(trail) + 1) : trail' = InsertAt(trail, i, a)
    BY <1>2 DEF Released
  <2>2. trail' \in Seq(Agent)
    <3>1. trail \in Seq(Agent)
      BY DEF HooksTypeOK
    <3> QED
      BY <2>1, <3>1, EarliestStay, HooksAssumption
  <2> QED
    BY <1>2, <2>2 DEF Released, HooksTypeOK, progressVars, storeVars, ghostVars
<1>3. ASSUME NEW a \in Agent, Killed(a) PROVE HooksTypeOK'
  BY <1>3 DEF Killed, HooksTypeOK, progressVars, storeVars, ghostVars
<1>4. ASSUME NEW a \in Agent, NEW hasSession \in BOOLEAN, OnSubagentStart(a, hasSession)
      PROVE  HooksTypeOK'
  <2>1. /\ active' \in Seq(Agent) /\ life' \in [Agent -> {"new", "running", "ended", "killed"}]
        /\ bySession' \in SUBSET Agent /\ sessionless' \in SUBSET Agent
        /\ UNCHANGED <<tools, feed, done, plan, made>>
    BY <1>4, ListGains DEF OnSubagentStart, SubagentStarted, HooksTypeOK
  <2>2. Enter(a, TRUE, "test") /\ a \in Actor
    BY <1>4 DEF OnSubagentStart, Actor
  <2> QED
    BY <2>1, <2>2, Enters DEF HooksTypeOK
<1>5. ASSUME NEW a \in Agent, OnSubagentStop(a) PROVE HooksTypeOK'
  <2>1. /\ Enter(a, TRUE, "test") /\ a \in Actor
        /\ life' \in [Agent -> {"new", "running", "ended", "killed"}]
        /\ bySession' \in SUBSET Agent
        /\ UNCHANGED <<tools, feed, plan, made, sessionless>>
    BY <1>5 DEF OnSubagentStop, SubagentStopped, HooksTypeOK, Actor
  <2>2. active' \in Seq(Agent) /\ done' \in Seq(Agent)
    <3>1. CASE a \in bySession
      <4>1. Unlist(a) /\ done' = Oldest(<<a>> \o done, MaxDone)
        BY <1>5, <3>1 DEF OnSubagentStop, SubagentStopped
      <4>2. a \notin ToSet(done)
        BY <1>5 DEF OnSubagentStop, Lists
      <4> QED
        BY <4>1, <4>2, ListLoses, DoneGains
    <3>2. CASE a \notin bySession
      BY <1>5, <3>2 DEF OnSubagentStop, SubagentStopped, HooksTypeOK
    <3> QED
      BY <3>1, <3>2
  <2> QED
    BY <2>1, <2>2, Enters DEF HooksTypeOK
<1>6. ASSUME NEW x \in Actor, Calls(x)
      PROVE  /\ tools' \in [Actor -> Nat] /\ made' \in [Actor -> Nat]
             /\ feed' \in Seq([who : Actor, by : Actor])
             /\ UNCHANGED <<active, bySession, done, plan, life, sessionless>>
  <2>1. Booked(x) \in Actor
    BY <1>6, BookedOn DEF Calls
  <2>2. tools' \in [Actor -> Nat] /\ made' \in [Actor -> Nat]
    BY <1>6, <2>1 DEF Calls, ToolEvent, HooksTypeOK
  <2>3. feed' \in Seq(FeedEntry)
    <3>1. [who |-> Booked(x), by |-> x] \in FeedEntry /\ feed \in Seq(FeedEntry)
      BY <2>1 DEF FeedEntry, HooksTypeOK
    <3> QED
      BY <1>6, <3>1, FeedGains DEF Calls, ToolEvent
  <2> QED
    BY <1>6, <2>2, <2>3 DEF Calls, ToolEvent, FeedEntry
<1>7. ASSUME NEW x \in Actor, OnPostToolCall(x) \/ OnTodo(x) PROVE HooksTypeOK'
  <2>1. PICK forced \in BOOLEAN, place \in {"test", "plan"} : Calls(x) /\ Enter(x, forced, place)
    BY <1>7 DEF OnPostToolCall, OnTodo
  <2> QED
    BY <1>6, <2>1, Enters DEF HooksTypeOK
<1>8. ASSUME NEW x \in Actor, NEW items \in SUBSET Item, WritePlan(x, items) PROVE HooksTypeOK'
  <2>1. plan' \in SUBSET Item /\ pc' \in [Actor -> Place]
    BY <1>8 DEF WritePlan, SetPlan, HooksTypeOK, Place
  <2> QED
    BY <1>8, <2>1 DEF WritePlan, HooksTypeOK, agentVars, storeVars, ghostVars
<1>9. ASSUME NEW x \in Actor, Persists(x) PROVE HooksTypeOK'
  <2>0. UNCHANGED <<active, bySession, tools, feed, done, plan,
                    trail, registry, listed, life, made, sessionless, moved>>
    BY <1>9, PersistsAside
  <2>1. CASE Throttled(x) \/ PutSnapshot(x) \/ PersistRaises(x)
    <3>1. /\ Leave(x) /\ recent' = recent
          /\ upsert' \in {upsert, hand[x]} /\ mirror' \in {mirror, hand[x]}
          /\ flushed' = flushed \/ flushed' = (flushed \/ alone[x])
      BY <2>1, Returns
    <3>2. /\ recent' \in BOOLEAN /\ upsert' \in ViewType /\ mirror' \in ViewType
          /\ flushed' \in BOOLEAN
      BY <3>1 DEF HooksTypeOK
    <3> QED
      BY <2>0, <3>1, <3>2, Leaves DEF HooksTypeOK
  <2>2. CASE \/ NotThrottled(x) \/ MarkThrottle(x) \/ TakeSnapshot(x)
             \/ AskRegistry(x) \/ LinkDecisions(x)
    <3>1. PICK from \in Place, to \in Place, view \in ViewType :
             Persisting(x, from, to, view) /\ recent' \in BOOLEAN
      BY <2>2, GoesOn
    <3>2. /\ pc' \in [Actor -> Place] /\ hand' \in [Actor -> ViewType]
          /\ UNCHANGED <<force, upsert, mirror, alone, flushed>>
      BY <3>1, MovesOn
    <3> QED
      BY <2>0, <3>1, <3>2 DEF HooksTypeOK
  <2> QED
    BY <1>9, <2>1, <2>2 DEF Persists
<1>10. CASE SecondPasses
  BY <1>10 DEF SecondPasses, HooksTypeOK, progressVars, agentVars, storeVars, ghostVars
<1>11. CASE GateCommits
  BY <1>11 DEF GateCommits, HooksTypeOK, progressVars, agentVars, ghostVars
<1>12. ASSUME NEW a \in Agent, Registered(a) \/ Unregistered(a) PROVE HooksTypeOK'
  <2>1. registry' \in SUBSET Agent /\ listed' \in SUBSET Agent /\ RegistryMoves
    BY <1>12 DEF Registered, Unregistered, HooksTypeOK
  <2> QED
    BY <2>1 DEF RegistryMoves, HooksTypeOK, progressVars, storeVars
<1> QED
  BY <1>1, <1>2, <1>3, <1>4, <1>5, <1>7, <1>8, <1>9, <1>10, <1>11, <1>12, HookSteps

-----------------------------------------------------------------------------
(* The lists follow life.                                                   *)

\* Steps that touch neither the lists nor the lives.
LEMMA ListsStand ==
  ASSUME Lists,
         UNCHANGED <<active, done, bySession, life, sessionless>>, Len(feed') <= MaxFeed
  PROVE  Lists'
  BY DEF Lists

LEMMA ListsStep ==
  ASSUME HooksTypeOK, Lists, [HooksNext]_<<progressVars, hookVars>>
  PROVE  Lists'
<1>0. Len(feed) <= MaxFeed /\ feed \in Seq(FeedEntry)
  BY DEF Lists, HooksTypeOK, FeedEntry
<1>1. CASE UNCHANGED <<progressVars, hookVars>>
  BY <1>0, <1>1, ListsStand DEF progressVars, hookVars, agentVars
<1>2. ASSUME NEW a \in Agent, Released(a) \/ Registered(a) \/ Unregistered(a) PROVE Lists'
  BY <1>0, <1>2, ListsStand DEF Released, Registered, Unregistered, RegistryMoves, progressVars
<1>3. ASSUME NEW a \in Agent, Killed(a) PROVE Lists'
  <2>1. /\ life[a] = "running" /\ life'[a] = "killed"
        /\ \A b \in Agent \ {a} : life'[b] = life[b]
        /\ UNCHANGED <<active, bySession, done, feed, sessionless>>
    BY <1>3 DEF Killed, progressVars, HooksTypeOK
  <2>2. /\ ToSet(active) \subseteq Agent /\ ToSet(done) \subseteq Agent /\ sessionless \subseteq Agent
    BY ElementOfSeq DEF HooksTypeOK, ToSet
  <2>3. \A b \in Agent : (life'[b] \in {"running", "killed"}) <=> (life[b] \in {"running", "killed"})
    BY <2>1
  <2>4. bySession = {b \in Agent \ sessionless : life'[b] \in {"running", "killed"}}
    BY <2>3 DEF Lists
  <2>5. /\ \A b \in ToSet(active) : life'[b] # "new" /\ (life'[b] = "ended" => b \in sessionless)
        /\ \A b \in ToSet(done) : life'[b] = "ended" /\ b \notin sessionless
        /\ \A b \in sessionless : life'[b] # "new"
    BY <2>1, <2>2 DEF Lists
  <2> QED
    BY <2>1, <2>4, <2>5 DEF Lists
<1>4. ASSUME NEW a \in Agent, NEW hasSession \in BOOLEAN, OnSubagentStart(a, hasSession)
      PROVE  Lists'
  <2>1. /\ life[a] = "new" /\ life'[a] = "running"
        /\ \A b \in Agent \ {a} : life'[b] = life[b]
        /\ sessionless' = (IF hasSession THEN sessionless ELSE sessionless \cup {a})
        /\ bySession' = (IF hasSession THEN bySession \cup {a} ELSE bySession)
        /\ active' = Newest(Append(active, a), MaxActive)
        /\ UNCHANGED <<done, feed>>
    BY <1>4 DEF OnSubagentStart, SubagentStarted, HooksTypeOK
  <2>2. /\ ToSet(active) \subseteq Agent /\ ToSet(done) \subseteq Agent /\ sessionless \subseteq Agent
    BY ElementOfSeq DEF HooksTypeOK, ToSet
  <2>3. a \notin ToSet(done) /\ a \notin sessionless /\ a \notin bySession
    BY <2>1 DEF Lists
  <2>4. /\ IsInjective(active') /\ Len(active') <= MaxActive
        /\ ToSet(active') \subseteq ToSet(active) \cup {a}
    BY <2>1, ListGains
  <2>5. ToSet(active') \cap ToSet(done) = {}
    BY <2>3, <2>4 DEF Lists
  <2>6. \A b \in ToSet(active') : life'[b] # "new" /\ (life'[b] = "ended" => b \in sessionless')
    BY <2>1, <2>2, <2>4 DEF Lists
  <2>7. /\ \A b \in ToSet(done) : life'[b] = "ended" /\ b \notin sessionless'
        /\ \A b \in sessionless' : life'[b] # "new"
    BY <2>1, <2>2, <2>3 DEF Lists
  <2>8. bySession' = {b \in Agent \ sessionless' : life'[b] \in {"running", "killed"}}
    <3>1. \A b \in Agent : b \in bySession' <=> b \notin sessionless' /\ life'[b] \in {"running", "killed"}
      BY <2>1, <2>3 DEF Lists
    <3>2. bySession' \subseteq Agent
      BY <2>1 DEF HooksTypeOK
    <3> QED
      BY <3>1, <3>2
  <2> QED
    BY <2>1, <2>4, <2>5, <2>6, <2>7, <2>8 DEF Lists
<1>5. ASSUME NEW a \in Agent, OnSubagentStop(a) PROVE Lists'
  <2>1. /\ life[a] = "running" /\ life'[a] = "ended"
        /\ \A b \in Agent \ {a} : life'[b] = life[b]
        /\ bySession' = bySession \ {a}
        /\ UNCHANGED <<feed, sessionless>>
    BY <1>5 DEF OnSubagentStop, SubagentStopped, HooksTypeOK
  <2>2. /\ ToSet(active) \subseteq Agent /\ ToSet(done) \subseteq Agent /\ sessionless \subseteq Agent
    BY ElementOfSeq DEF HooksTypeOK, ToSet
  <2>3. a \notin ToSet(done) /\ (a \in bySession <=> a \notin sessionless)
    BY <2>1 DEF Lists
  <2>4. bySession' = {b \in Agent \ sessionless : life'[b] \in {"running", "killed"}}
    <3>1. \A b \in Agent : b \in bySession' <=> b \notin sessionless /\ life'[b] \in {"running", "killed"}
      BY <2>1 DEF Lists
    <3>2. bySession' \subseteq Agent
      BY <2>1 DEF HooksTypeOK
    <3> QED
      BY <3>1, <3>2
  <2>5. /\ IsInjective(active') /\ Len(active') <= MaxActive
        /\ ToSet(active') \subseteq ToSet(active)
        /\ a \in ToSet(active') => a \in sessionless
        /\ IsInjective(done') /\ Len(done') <= MaxDone
        /\ ToSet(done') \subseteq ToSet(done) \cup {a}
        /\ a \in ToSet(done') => a \notin ToSet(active') /\ a \notin sessionless
    <3>1. CASE a \in bySession
      <4>1. Unlist(a) /\ done' = Oldest(<<a>> \o done, MaxDone)
        BY <1>5, <3>1 DEF OnSubagentStop, SubagentStopped
      <4>2. /\ Len(active') <= MaxActive /\ IsInjective(active')
            /\ ToSet(active') = ToSet(active) \ {a}
        BY <4>1, ListLoses
      <4>3. /\ Len(done') <= MaxDone /\ IsInjective(done')
            /\ ToSet(done') \subseteq ToSet(done) \cup {a}
        BY <2>3, <4>1, DoneGains
      <4> QED
        BY <2>3, <3>1, <4>2, <4>3
    <3>2. CASE a \notin bySession
      <4>1. active' = active /\ done' = done
        BY <1>5, <3>2 DEF OnSubagentStop, SubagentStopped
      <4> QED
        BY <2>3, <3>2, <4>1 DEF Lists
    <3> QED
      BY <3>1, <3>2
  <2>6. ToSet(active') \cap ToSet(done') = {}
    BY <2>5 DEF Lists
  <2>7. \A b \in ToSet(active') : life'[b] # "new" /\ (life'[b] = "ended" => b \in sessionless)
    BY <2>1, <2>2, <2>5 DEF Lists
  <2>8. /\ \A b \in ToSet(done') : life'[b] = "ended" /\ b \notin sessionless
        /\ \A b \in sessionless : life'[b] # "new"
    BY <2>1, <2>2, <2>5 DEF Lists
  <2> QED
    BY <1>0, <2>1, <2>4, <2>5, <2>6, <2>7, <2>8 DEF Lists
<1>6. ASSUME NEW x \in Actor, Calls(x) PROVE Lists'
  <2>1. [who |-> Booked(x), by |-> x] \in FeedEntry
    BY <1>6, BookedOn DEF Calls, FeedEntry
  <2>2. Len(feed') <= MaxFeed
    BY <1>0, <1>6, <2>1, FeedGains DEF Calls, ToolEvent
  <2> QED
    BY <1>6, <2>2, ListsStand DEF Calls, ToolEvent
<1>7. ASSUME NEW x \in Actor, Persists(x) PROVE Lists'
  BY <1>0, <1>7, PersistsAside, ListsStand
<1>8. CASE SecondPasses \/ GateCommits
  BY <1>0, <1>8, ListsStand DEF SecondPasses, GateCommits, progressVars, agentVars
<1>9. ASSUME NEW x \in Actor, NEW items \in SUBSET Item, WritePlan(x, items) PROVE Lists'
  BY <1>0, <1>9, ListsStand DEF WritePlan, agentVars
<1> QED
  BY <1>1, <1>2, <1>3, <1>4, <1>5, <1>6, <1>7, <1>8, <1>9, HookSteps DEF OnPostToolCall, OnTodo

-----------------------------------------------------------------------------
(* The calls are booked.                                                    *)

\* Steps without a call, a start or a feed.
LEMMA BookingsStand ==
  ASSUME Bookings, UNCHANGED <<tools, made, feed, sessionless>>,
         \A a \in Agent : life'[a] = "new" => life[a] = "new"
  PROVE  Bookings'
  BY DEF Bookings

LEMMA BookingsStep ==
  ASSUME HooksTypeOK, Lists, Bookings, [HooksNext]_<<progressVars, hookVars>>
  PROVE  Bookings'
<1>0. /\ made \in [Actor -> Nat] /\ Orch \notin Agent /\ Orch \in Actor /\ Agent \subseteq Actor
      /\ IsFiniteSet(sessionless) /\ sessionless \cup {Orch} \in SUBSET Actor
      /\ IsFiniteSet(sessionless \cup {Orch})
  <2>1. IsFiniteSet(sessionless) /\ IsFiniteSet(sessionless \cup {Orch})
    BY FS_AddElement DEF Bookings
  <2> QED
    BY <2>1, ProgressAssumption DEF HooksTypeOK, Actor
<1>1. CASE UNCHANGED <<progressVars, hookVars>>
  BY <1>1, BookingsStand DEF progressVars, hookVars, agentVars
<1>2. ASSUME NEW a \in Agent, Released(a) \/ Registered(a) \/ Unregistered(a) PROVE Bookings'
  BY <1>2, BookingsStand DEF Released, Registered, Unregistered, RegistryMoves, progressVars
<1>3. ASSUME NEW a \in Agent, Killed(a) PROVE Bookings'
  <2>1. \A b \in Agent : life'[b] = "new" => life[b] = "new"
    BY <1>3 DEF Killed, HooksTypeOK
  <2> QED
    BY <1>3, <2>1, BookingsStand DEF Killed, progressVars
<1>4. ASSUME NEW a \in Agent, NEW hasSession \in BOOLEAN, OnSubagentStart(a, hasSession)
      PROVE  Bookings'
  <2>1. /\ life[a] = "new" /\ \A b \in Agent : life'[b] = "new" => life[b] = "new" /\ b # a
        /\ sessionless' = (IF hasSession THEN sessionless ELSE sessionless \cup {a})
        /\ UNCHANGED <<tools, made, feed>>
    BY <1>4 DEF OnSubagentStart, SubagentStarted, HooksTypeOK
  <2>2. CASE hasSession
    BY <2>1, <2>2, BookingsStand
  <2>3. CASE ~hasSession
    <3>1. made[a] = 0 /\ \A i \in DOMAIN feed : feed[i].by # a
      BY <2>1 DEF Bookings
    <3>2. IsFiniteSet(sessionless')
      BY <1>0, <2>1, <2>3, FS_AddElement
    <3>3. Total(made, (sessionless \cup {Orch}) \cup {a}) = Total(made, sessionless \cup {Orch})
      BY <1>0, <3>1, TotalGains
    <3>4. sessionless' \cup {Orch} = (sessionless \cup {Orch}) \cup {a}
      BY <2>1, <2>3
    <3>5. \A i \in DOMAIN feed : feed[i].by \in sessionless' <=> feed[i].by \in sessionless
      BY <2>1, <2>3, <3>1
    <3> QED
      BY <2>1, <2>3, <3>2, <3>3, <3>4, <3>5 DEF Bookings
  <2> QED
    BY <2>2, <2>3
<1>5. ASSUME NEW a \in Agent, OnSubagentStop(a) PROVE Bookings'
  <2>1. \A b \in Agent : life'[b] = "new" => life[b] = "new"
    BY <1>5 DEF OnSubagentStop, HooksTypeOK
  <2> QED
    BY <1>5, <2>1, BookingsStand DEF OnSubagentStop, SubagentStopped
<1>6. ASSUME NEW x \in Actor, Calls(x) PROVE Bookings'
  <2>1. /\ x \in Agent => life[x] = "running"
        /\ made' = [made EXCEPT ![x] = @ + 1] /\ tools' = [tools EXCEPT ![Booked(x)] = @ + 1]
        /\ feed' = Newest(Append(feed, [who |-> Booked(x), by |-> x]), MaxFeed)
        /\ UNCHANGED <<life, sessionless>>
    BY <1>6 DEF Calls, ToolEvent
  <2>2. Booked(x) = (IF x \in sessionless THEN Orch ELSE x) /\ Booked(x) \in Actor
    BY <2>1, BookedOn
  <2>3. /\ made' \in [Actor -> Nat]
        /\ made'[x] = made[x] + 1 /\ \A y \in Actor \ {x} : made'[y] = made[y]
        /\ tools'[Booked(x)] = tools[Booked(x)] + 1
        /\ \A y \in Actor \ {Booked(x)} : tools'[y] = tools[y]
    BY <2>1, <2>2 DEF HooksTypeOK
  <2>4. Total(made', sessionless \cup {Orch})
          = IF x \in sessionless \cup {Orch} THEN Total(made, sessionless \cup {Orch}) + 1
                                             ELSE Total(made, sessionless \cup {Orch})
    <3> DEFINE S == sessionless \cup {Orch}
    <3>1. made \in [Actor -> Nat] /\ S \in SUBSET Actor /\ IsFiniteSet(S)
      BY <1>0
    <3> HIDE DEF S
    <3>2. Total(made', S) = IF x \in S THEN Total(made, S) + 1 ELSE Total(made, S)
      BY <2>3, <3>1, TotalGrows
    <3> QED
      BY <3>2 DEF S
  <2>5. tools'[Orch] = Total(made', sessionless \cup {Orch})
    BY <1>0, <2>2, <2>3, <2>4 DEF Bookings
  <2>6. \A a \in Agent \ sessionless : tools'[a] = made'[a]
    BY <1>0, <2>2, <2>3 DEF Bookings
  <2>7. /\ feed \in Seq(FeedEntry) /\ [who |-> Booked(x), by |-> x] \in FeedEntry
    BY <2>2 DEF HooksTypeOK, FeedEntry
  <2>8. ToSet(feed') \subseteq ToSet(feed) \cup {[who |-> Booked(x), by |-> x]}
    BY <2>1, <2>7, FeedGains
  <2>9. \A i \in DOMAIN feed' :
           \/ \E j \in DOMAIN feed : feed'[i] = feed[j]
           \/ feed'[i] = [who |-> Booked(x), by |-> x]
    BY <2>8 DEF ToSet
  <2>10. \A i \in DOMAIN feed' :
            feed'[i].who = IF feed'[i].by \in sessionless THEN Orch ELSE feed'[i].by
    BY <2>2, <2>9 DEF Bookings
  <2>11. ASSUME NEW a \in Agent, life[a] = "new"
         PROVE  made'[a] = 0 /\ \A i \in DOMAIN feed' : feed'[i].by # a
    <3>1. a # x /\ made[a] = 0 /\ \A i \in DOMAIN feed : feed[i].by # a
      BY <2>1, <2>11 DEF Bookings
    <3> QED
      BY <1>0, <2>3, <2>9, <3>1
  <2> QED
    BY <1>0, <2>1, <2>5, <2>6, <2>10, <2>11 DEF Bookings
<1>7. ASSUME NEW x \in Actor, Persists(x) PROVE Bookings'
  BY <1>7, PersistsAside, BookingsStand
<1>8. CASE SecondPasses \/ GateCommits
  BY <1>8, BookingsStand DEF SecondPasses, GateCommits, progressVars, agentVars
<1>9. ASSUME NEW x \in Actor, NEW items \in SUBSET Item, WritePlan(x, items) PROVE Bookings'
  BY <1>9, BookingsStand DEF WritePlan, agentVars
<1> QED
  BY <1>1, <1>2, <1>3, <1>4, <1>5, <1>6, <1>7, <1>8, <1>9, HookSteps DEF OnPostToolCall, OnTodo

-----------------------------------------------------------------------------
(* The views.                                                               *)

\* What a view shows is what it will show, unless the registry moves; then the claim
\* on the agents lapses.
LEMMA StillShown ==
  ASSUME NEW view, ShowsNow(view), HooksTypeOK, UNCHANGED <<active, done, plan>>,
         moved' = TRUE \/ UNCHANGED <<registry, moved>>
  PROVE  /\ view.done = Snapshot'.done /\ view.plan = plan'
         /\ ~moved' => view.active = Shown'
  BY DEF ShowsNow, Snapshot, Shown

\* Nothing that the claim looks at has changed, but for the registry and what is
\* pending in the store.
LEMMA ViewsKeep ==
  ASSUME HooksTypeOK, ViewsAreCurrent,
         UNCHANGED <<active, done, plan, pc, force, hand, upsert, alone, flushed>>,
         mirror' = mirror \/ mirror' = upsert,
         moved' = TRUE \/ UNCHANGED <<registry, moved>>
  PROVE  ViewsAreCurrent'
<1>1. ASSUME NEW x \in Actor, Fresh(x) PROVE Fresh(x)'
  <2>1. pc'[x] = "ask" => hand'[x] = View(Snapshot, {})'
    BY <1>1 DEF Fresh, View, Snapshot
  <2>2. pc'[x] \in {"link", "put"} => ShowsNow(hand[x])'
    BY <1>1, StillShown DEF Fresh, ShowsNow
  <2> QED
    BY <2>1, <2>2 DEF Fresh
<1>2. flushed' => ShowsNow(mirror)' /\ ShowsNow(upsert)'
  <2> SUFFICES ASSUME flushed PROVE ShowsNow(mirror)' /\ ShowsNow(upsert)'
    OBVIOUS
  <2>1. ShowsNow(mirror) /\ ShowsNow(upsert)
    BY DEF ViewsAreCurrent
  <2> QED
    BY <2>1, StillShown DEF ShowsNow
<1>3. flushed' => \A x \in Actor : pc'[x] # "plan" /\ Fresh(x)'
  BY <1>1 DEF ViewsAreCurrent
<1>4. \A x \in Actor : alone'[x] => /\ force'[x] /\ pc'[x] # "idle"
                                    /\ \A y \in Actor \ {x} : pc'[y] = "idle"
                                    /\ Fresh(x)'
  BY <1>1 DEF ViewsAreCurrent
<1> QED
  BY <1>2, <1>3, <1>4 DEF ViewsAreCurrent

\* The hooks of tool calls leave the lists and the plan as they are.
LEMMA ViewsStand ==
  ASSUME HooksTypeOK, ViewsAreCurrent, UNCHANGED <<active, done, plan>>,
         NEW x \in Actor, Enter(x, FALSE, "test")
  PROVE  ViewsAreCurrent'
<1>1. /\ UNCHANGED <<hand, upsert, mirror, registry, moved>> /\ pc'[x] = "test"
      /\ \A y \in Actor \ {x} : pc'[y] = pc[y] /\ ~alone'[y]
      /\ ~alone'[x] /\ (flushed' => flushed)
  BY Enters
<1>2. ASSUME NEW y \in Actor, Fresh(y) PROVE Fresh(y)'
  BY <1>1, <1>2 DEF Fresh, ShowsNow, Shown, Snapshot, View
<1>3. flushed' => ShowsNow(mirror)' /\ ShowsNow(upsert)'
  BY <1>1 DEF ViewsAreCurrent, ShowsNow, Shown, Snapshot
<1>4. flushed' => \A y \in Actor : pc'[y] # "plan" /\ Fresh(y)'
  BY <1>1, <1>2 DEF ViewsAreCurrent
<1> QED
  BY <1>1, <1>3, <1>4 DEF ViewsAreCurrent

\* A lifecycle or plan hook begins: what was current may not be any more.
LEMMA ViewsAge ==
  ASSUME HooksTypeOK, NEW x \in Actor, NEW place \in {"test", "plan"}, Enter(x, TRUE, place)
  PROVE  ViewsAreCurrent'
<1>1. /\ pc'[x] = place /\ force'[x] /\ ~flushed'
      /\ \A y \in Actor \ {x} : pc'[y] = pc[y] /\ ~alone'[y]
      /\ alone'[x] => \A z \in Actor \ {x} : pc[z] = "idle"
  BY Enters
<1>2. Fresh(x)'
  BY <1>1 DEF Fresh
<1> QED
  BY <1>1, <1>2 DEF ViewsAreCurrent

\* The plan changes under a hook that has begun: nothing is claimed then.
LEMMA ViewsPlanned ==
  ASSUME HooksTypeOK, ViewsAreCurrent, NEW x \in Actor, NEW items \in SUBSET Item,
         WritePlan(x, items)
  PROVE  ViewsAreCurrent'
<1>1. /\ pc[x] = "plan" /\ pc'[x] = "test" /\ \A y \in Actor \ {x} : pc'[y] = pc[y]
      /\ UNCHANGED <<force, alone, flushed>>
  BY DEF WritePlan, HooksTypeOK, ghostVars
<1>2. ~flushed /\ \A y \in Actor \ {x} : ~alone[y]
  BY <1>1 DEF ViewsAreCurrent
<1>3. alone[x] => force[x] /\ \A y \in Actor \ {x} : pc[y] = "idle"
  BY DEF ViewsAreCurrent
<1>4. Fresh(x)'
  BY <1>1 DEF Fresh
<1> QED
  BY <1>1, <1>2, <1>3, <1>4 DEF ViewsAreCurrent

\* A step of persist() from one place to the next, with what the hook holds there.
LEMMA ViewsMove ==
  ASSUME HooksTypeOK, ViewsAreCurrent, NEW x \in Actor,
         NEW from \in Place, NEW to \in Place \ {"idle", "plan"}, NEW view \in ViewType,
         Persisting(x, from, to, view), from # "idle",
         alone[x] \/ flushed => /\ to = "ask" => view = View(Snapshot, {})
                                /\ to \in {"link", "put"} => ShowsNow(view)
  PROVE  ViewsAreCurrent'
<1>1. /\ pc[x] = from /\ pc'[x] = to /\ hand'[x] = view
      /\ \A y \in Actor \ {x} : pc'[y] = pc[y] /\ hand'[y] = hand[y]
      /\ UNCHANGED <<active, done, plan, registry, force, upsert, mirror, alone, flushed, moved>>
  BY MovesOn
<1>2. ASSUME NEW y \in Actor \ {x}, Fresh(y) PROVE Fresh(y)'
  BY <1>1, <1>2 DEF Fresh, ShowsNow, Shown, Snapshot, View
<1>3. alone[x] \/ flushed => Fresh(x)'
  BY <1>1 DEF Fresh, ShowsNow, Shown, Snapshot, View
<1>4. flushed' => ShowsNow(mirror)' /\ ShowsNow(upsert)'
  BY <1>1 DEF ViewsAreCurrent, ShowsNow, Shown, Snapshot
<1>5. flushed' => \A y \in Actor : pc'[y] # "plan" /\ Fresh(y)'
  <2> SUFFICES ASSUME flushed, NEW y \in Actor PROVE pc'[y] # "plan" /\ Fresh(y)'
    BY <1>1
  <2>1. pc[y] # "plan" /\ Fresh(y)
    BY DEF ViewsAreCurrent
  <2>2. CASE y = x
    BY <1>1, <1>3, <2>2
  <2>3. CASE y # x
    BY <1>1, <1>2, <2>1, <2>3
  <2> QED
    BY <2>2, <2>3
<1>6. ASSUME NEW y \in Actor, alone'[y]
      PROVE  /\ force'[y] /\ pc'[y] # "idle"
             /\ \A z \in Actor \ {y} : pc'[z] = "idle"
             /\ Fresh(y)'
  <2>1. alone[y]
    BY <1>1, <1>6
  <2>2. y = x
    BY <1>1, <2>1 DEF ViewsAreCurrent
  <2>3. force[x] /\ \A z \in Actor \ {x} : pc[z] = "idle"
    BY <2>1, <2>2 DEF ViewsAreCurrent
  <2> QED
    BY <1>1, <1>3, <2>1, <2>2, <2>3
<1> QED
  BY <1>4, <1>5, <1>6 DEF ViewsAreCurrent

\* A hook returns, with what it put or left pending in the store.
LEMMA ViewsEnd ==
  ASSUME HooksTypeOK, ViewsAreCurrent, NEW x \in Actor,
         Throttled(x) \/ PutSnapshot(x) \/ PersistRaises(x)
  PROVE  ViewsAreCurrent'
<1>1. /\ pc'[x] = "idle" /\ ~alone'[x]
      /\ \A y \in Actor \ {x} : /\ pc'[y] = pc[y] /\ force'[y] = force[y]
                                /\ hand'[y] = hand[y] /\ alone'[y] = alone[y]
  BY Returns, Leaves
<1>2. UNCHANGED <<active, done, plan, registry, moved>>
  BY PersistsAside DEF Persists
<1>3. ASSUME NEW y \in Actor \ {x}, Fresh(y) PROVE Fresh(y)'
  BY <1>1, <1>2, <1>3 DEF Fresh, ShowsNow, Shown, Snapshot, View
<1>4. Fresh(x)'
  BY <1>1 DEF Fresh
<1>5. ASSUME flushed PROVE ShowsNow(mirror)' /\ ShowsNow(upsert)'
  <2>1. ShowsNow(mirror) /\ ShowsNow(upsert) /\ (pc[x] = "put" => ShowsNow(hand[x]))
    BY <1>5 DEF ViewsAreCurrent, Fresh
  <2>2. ShowsNow(mirror') /\ ShowsNow(upsert')
    BY <2>1, Returns
  <2> QED
    BY <1>2, <2>2 DEF ShowsNow, Shown, Snapshot
<1>6. ASSUME alone[x], pc[x] = "put", mirror' = hand[x], upsert' = hand[x]
      PROVE  ShowsNow(mirror)' /\ ShowsNow(upsert)'
  <2>1. ShowsNow(mirror') /\ ShowsNow(upsert')
    BY <1>6 DEF ViewsAreCurrent, Fresh
  <2> QED
    BY <1>2, <2>1 DEF ShowsNow, Shown, Snapshot
<1>7. ASSUME flushed'
      PROVE  /\ ShowsNow(mirror)' /\ ShowsNow(upsert)'
             /\ \A y \in Actor : pc'[y] # "plan" /\ Fresh(y)'
  <2>1. CASE flushed
    <3>1. \A y \in Actor : pc[y] # "plan" /\ Fresh(y)
      BY <2>1 DEF ViewsAreCurrent
    <3> QED
      BY <1>1, <1>3, <1>4, <1>5, <2>1, <3>1
  <2>2. CASE ~flushed
    <3>1. alone[x] /\ pc[x] = "put" /\ mirror' = hand[x] /\ upsert' = hand[x]
      BY <1>7, <2>2, Returns
    <3>2. \A y \in Actor \ {x} : pc[y] = "idle"
      BY <3>1 DEF ViewsAreCurrent
    <3>3. \A y \in Actor \ {x} : pc'[y] = "idle" /\ Fresh(y)'
      BY <1>1, <3>2 DEF Fresh
    <3> QED
      BY <1>1, <1>4, <1>6, <3>1, <3>3
  <2> QED
    BY <2>1, <2>2
<1>8. ASSUME NEW y \in Actor, alone'[y]
      PROVE  /\ force'[y] /\ pc'[y] # "idle"
             /\ \A z \in Actor \ {y} : pc'[z] = "idle"
             /\ Fresh(y)'
  <2>1. y # x /\ alone[y]
    BY <1>1, <1>8
  <2>2. /\ force[y] /\ pc[y] # "idle" /\ \A z \in Actor \ {y} : pc[z] = "idle"
        /\ Fresh(y)
    BY <2>1 DEF ViewsAreCurrent
  <2> QED
    BY <1>1, <1>3, <2>1, <2>2
<1> QED
  BY <1>7, <1>8 DEF ViewsAreCurrent

LEMMA ViewsCurrentStep ==
  ASSUME HooksTypeOK, ViewsAreCurrent, [HooksNext]_<<progressVars, hookVars>>
  PROVE  ViewsAreCurrent'
<1>1. CASE UNCHANGED <<progressVars, hookVars>>
  BY <1>1, ViewsKeep DEF progressVars, hookVars, agentVars, storeVars, ghostVars
<1>2. ASSUME NEW a \in Agent, Released(a) \/ Killed(a) PROVE ViewsAreCurrent'
  BY <1>2, ViewsKeep DEF Released, Killed, progressVars, storeVars, ghostVars
<1>3. ASSUME NEW a \in Agent, Registered(a) \/ Unregistered(a) PROVE ViewsAreCurrent'
  BY <1>3, ViewsKeep DEF Registered, Unregistered, RegistryMoves, progressVars, storeVars
<1>4. ASSUME NEW a \in Agent, NEW hasSession \in BOOLEAN, OnSubagentStart(a, hasSession)
      PROVE  ViewsAreCurrent'
  BY <1>4, ViewsAge DEF OnSubagentStart, Actor
<1>5. ASSUME NEW a \in Agent, OnSubagentStop(a) PROVE ViewsAreCurrent'
  BY <1>5, ViewsAge DEF OnSubagentStop, Actor
<1>6. ASSUME NEW x \in Actor, OnPostToolCall(x) PROVE ViewsAreCurrent'
  BY <1>6, ViewsStand DEF OnPostToolCall, Calls, ToolEvent
<1>7. ASSUME NEW x \in Actor, OnTodo(x) PROVE ViewsAreCurrent'
  BY <1>7, ViewsAge DEF OnTodo
<1>8. ASSUME NEW x \in Actor, NEW items \in SUBSET Item, WritePlan(x, items)
      PROVE  ViewsAreCurrent'
  BY <1>8, ViewsPlanned
<1>9. ASSUME NEW x \in Actor, Persists(x) PROVE ViewsAreCurrent'
  <2>1. CASE Throttled(x) \/ PutSnapshot(x) \/ PersistRaises(x)
    BY <2>1, ViewsEnd
  <2>2. CASE \/ NotThrottled(x) \/ MarkThrottle(x) \/ TakeSnapshot(x)
             \/ AskRegistry(x) \/ LinkDecisions(x)
    <3>1. PICK from \in Place, to \in Place, view \in ViewType :
            /\ Persisting(x, from, to, view)
            /\ \/ to \in {"mark", "snapshot"} /\ from \in {"test", "mark"} /\ view = Empty
               \/ from = "snapshot" /\ to = "ask" /\ view = View(Snapshot, {})
               \/ /\ from = "ask" /\ to = "link"
                  /\ view = [hand[x] EXCEPT !.active = IF registry = {} THEN @ ELSE registry]
               \/ /\ from = "link" /\ to = "put"
                  /\ view = View(hand[x], hand[x].active \cap ToSet(Oldest(trail, RowLimit)))
      BY <2>2, GoesOn
    <3>2. pc[x] = from /\ from # "idle" /\ to \in Place \ {"idle", "plan"}
      BY <3>1, MovesOn
    <3>3. ASSUME from = "ask", to = "link", alone[x] \/ flushed,
                 view = [hand[x] EXCEPT !.active = IF registry = {} THEN @ ELSE registry]
          PROVE  ShowsNow(view)
      <4>1. hand[x] = View(Snapshot, {})
        BY <3>2, <3>3 DEF ViewsAreCurrent, Fresh
      <4>2. view.done = Snapshot.done /\ view.plan = plan /\ view.active = Shown
        BY <3>3, <4>1 DEF View, Snapshot, Shown
      <4> QED
        BY <4>2 DEF ShowsNow
    <3>4. ASSUME from = "link", to = "put", alone[x] \/ flushed,
                 view = View(hand[x], hand[x].active \cap ToSet(Oldest(trail, RowLimit)))
          PROVE  ShowsNow(view)
      <4>1. ShowsNow(hand[x])
        BY <3>2, <3>4 DEF ViewsAreCurrent, Fresh
      <4> QED
        BY <3>4, <4>1 DEF ShowsNow, View
    <3>5. alone[x] \/ flushed => /\ to = "ask" => view = View(Snapshot, {})
                                 /\ to \in {"link", "put"} => ShowsNow(view)
      BY <3>1, <3>3, <3>4
    <3> QED
      BY <3>1, <3>2, <3>5, ViewsMove
  <2> QED
    BY <1>9, <2>1, <2>2 DEF Persists
<1>10. CASE SecondPasses
  BY <1>10, ViewsKeep DEF SecondPasses, progressVars, agentVars, storeVars, ghostVars
<1>11. CASE GateCommits
  BY <1>11, ViewsKeep DEF GateCommits, progressVars, agentVars, ghostVars
<1> QED
  BY <1>1, <1>2, <1>3, <1>4, <1>5, <1>6, <1>7, <1>8, <1>9, <1>10, <1>11, HookSteps

-----------------------------------------------------------------------------
(* The links.                                                               *)

\* Neither the views nor the trail have changed, and no agent without a row joined.
LEMMA LinksStand ==
  ASSUME ViewsAreLinked, UNCHANGED <<trail, hand, upsert>>,
         mirror' = mirror \/ mirror' = upsert,
         ToSet(active') \subseteq ToSet(trail), registry' \subseteq ToSet(trail),
         \A x \in Actor : pc'[x] = "put" => pc[x] = "put"
  PROVE  ViewsAreLinked'
  BY DEF ViewsAreLinked, Linked

\* One hook took a step with a view whose agents are in the trail.
LEMMA LinksMove ==
  ASSUME ViewsAreLinked, UNCHANGED <<active, registry, trail>>, NEW x \in Actor,
         \A y \in Actor \ {x} : hand'[y] = hand[y] /\ pc'[y] = pc[y],
         hand'[x].active \subseteq ToSet(trail),
         pc'[x] = "put" => Linked(hand'[x]),
         mirror' = mirror \/ (pc[x] = "put" /\ mirror' = hand[x]),
         upsert' = upsert \/ (pc[x] = "put" /\ upsert' = hand[x])
  PROVE  ViewsAreLinked'
<1>1. ASSUME NEW y \in Actor
      PROVE  hand'[y].active \subseteq ToSet(trail) /\ (pc'[y] = "put" => Linked(hand'[y]))
  <2>1. CASE y = x
    BY <2>1
  <2>2. CASE y # x
    <3>1. hand'[y] = hand[y] /\ pc'[y] = pc[y]
      BY <2>2
    <3> QED
      BY <3>1 DEF ViewsAreLinked
  <2> QED
    BY <2>1, <2>2
<1>2. /\ mirror'.active \subseteq ToSet(trail) /\ Linked(mirror')
      /\ upsert'.active \subseteq ToSet(trail) /\ Linked(upsert')
  BY DEF ViewsAreLinked
<1>3. trail' = trail /\ ToSet(active') \subseteq ToSet(trail) /\ registry' \subseteq ToSet(trail)
  BY DEF ViewsAreLinked
<1> QED
  BY <1>1, <1>2, <1>3 DEF ViewsAreLinked, Linked

LEMMA ViewsLinkedStep ==
  ASSUME HooksTypeOK, Lists, ViewsAreCurrent, ViewsAreLinked,
         [HooksNext]_<<progressVars, hookVars>>
  PROVE  ViewsAreLinked'
<1>0. ToSet(active) \subseteq ToSet(trail) /\ registry \subseteq ToSet(trail)
  BY DEF ViewsAreLinked
<1>1. CASE UNCHANGED <<progressVars, hookVars>>
  BY <1>0, <1>1, LinksStand DEF progressVars, hookVars, agentVars, storeVars
<1>2. ASSUME NEW a \in Agent, Released(a) PROVE ViewsAreLinked'
  <2>1. /\ a \notin ToSet(trail) /\ trail \in Seq(Agent)
        /\ UNCHANGED <<active, registry, pc, hand, upsert, mirror>>
    BY <1>2 DEF Released, HooksTypeOK, progressVars, storeVars
  <2>2. PICK i \in 1..(Len(trail) + 1) : trail' = InsertAt(trail, i, a)
    BY <1>2 DEF Released
  <2>3. /\ ToSet(trail) \subseteq ToSet(trail')
        /\ ToSet(Oldest(trail', RowLimit)) \subseteq ToSet(Oldest(trail, RowLimit)) \cup {a}
    BY <2>1, <2>2, EarliestStay, HooksAssumption
  <2>4. ASSUME NEW view, view.active \subseteq ToSet(trail), Linked(view)
        PROVE  /\ view.active \cap ToSet(Oldest(trail', RowLimit)) \subseteq view.linked
               /\ view.linked \subseteq view.active
    BY <2>1, <2>3, <2>4 DEF Linked
  <2>5. ASSUME NEW x \in Actor
        PROVE  /\ hand[x].active \subseteq ToSet(trail')
               /\ pc[x] = "put" => Linked(hand[x])'
    <3>1. hand[x].active \subseteq ToSet(trail) /\ (pc[x] = "put" => Linked(hand[x]))
      BY DEF ViewsAreLinked
    <3> QED
      BY <2>1, <2>3, <2>4, <3>1 DEF Linked
  <2>6. /\ mirror.active \subseteq ToSet(trail) /\ Linked(mirror)
        /\ upsert.active \subseteq ToSet(trail) /\ Linked(upsert)
    BY DEF ViewsAreLinked
  <2>7. Linked(mirror)' /\ Linked(upsert)'
    BY <2>1, <2>4, <2>6 DEF Linked
  <2> QED
    BY <1>0, <2>1, <2>3, <2>5, <2>6, <2>7 DEF ViewsAreLinked
<1>3. ASSUME NEW a \in Agent, Killed(a) PROVE ViewsAreLinked'
  BY <1>0, <1>3, LinksStand DEF Killed, progressVars, storeVars
<1>4. ASSUME NEW x \in Actor, NEW forced \in BOOLEAN, NEW place \in {"test", "plan"},
             Enter(x, forced, place), ToSet(active') \subseteq ToSet(trail)
      PROVE  ViewsAreLinked'
  <2>1. /\ UNCHANGED <<trail, registry, hand, upsert, mirror>>
        /\ \A y \in Actor : pc'[y] = "put" => pc[y] = "put"
    BY <1>4, Enters
  <2> QED
    BY <1>0, <1>4, <2>1, LinksStand
<1>5. ASSUME NEW a \in Agent, NEW hasSession \in BOOLEAN, OnSubagentStart(a, hasSession)
      PROVE  ViewsAreLinked'
  <2>1. /\ life[a] = "new" /\ a \in ToSet(trail) /\ Enter(a, TRUE, "test") /\ a \in Actor
        /\ active' = Newest(Append(active, a), MaxActive)
    BY <1>5 DEF OnSubagentStart, SubagentStarted, Actor
  <2>2. ToSet(active') \subseteq ToSet(trail)
    BY <1>0, <2>1, ListGains
  <2> QED
    BY <1>4, <2>1, <2>2
<1>6. ASSUME NEW a \in Agent, OnSubagentStop(a) PROVE ViewsAreLinked'
  <2>1. Enter(a, TRUE, "test") /\ a \in Actor
    BY <1>6 DEF OnSubagentStop, Actor
  <2>2. ToSet(active') \subseteq ToSet(trail)
    BY <1>0, <1>6, ListLoses DEF OnSubagentStop, SubagentStopped
  <2> QED
    BY <1>4, <2>1, <2>2
<1>7. ASSUME NEW x \in Actor, OnPostToolCall(x) \/ OnTodo(x) PROVE ViewsAreLinked'
  BY <1>0, <1>4, <1>7 DEF OnPostToolCall, OnTodo, Calls, ToolEvent
<1>8. ASSUME NEW x \in Actor, NEW items \in SUBSET Item, WritePlan(x, items)
      PROVE  ViewsAreLinked'
  <2>1. /\ UNCHANGED <<active, registry, trail, hand, upsert, mirror>>
        /\ \A y \in Actor : pc'[y] = "put" => pc[y] = "put"
    BY <1>8 DEF WritePlan, HooksTypeOK, agentVars, storeVars
  <2> QED
    BY <1>0, <2>1, LinksStand
<1>9. ASSUME NEW x \in Actor, Persists(x) PROVE ViewsAreLinked'
  <2>0. UNCHANGED <<active, registry, trail>>
    BY <1>9, PersistsAside
  <2>1. CASE Throttled(x) \/ PutSnapshot(x) \/ PersistRaises(x)
    <3>1. /\ pc'[x] = "idle" /\ hand'[x] = Empty
          /\ \A y \in Actor \ {x} : hand'[y] = hand[y] /\ pc'[y] = pc[y]
      BY <2>1, Returns, Leaves
    <3>2. /\ mirror' = mirror \/ (pc[x] = "put" /\ mirror' = hand[x])
          /\ upsert' = upsert \/ (pc[x] = "put" /\ upsert' = hand[x])
      BY <2>1, Returns
    <3>3. hand'[x].active \subseteq ToSet(trail)
      BY <3>1 DEF Empty
    <3> QED
      BY <2>0, <3>1, <3>2, <3>3, LinksMove
  <2>2. CASE \/ NotThrottled(x) \/ MarkThrottle(x) \/ TakeSnapshot(x)
             \/ AskRegistry(x) \/ LinkDecisions(x)
    <3>1. PICK from \in Place, to \in Place, view \in ViewType :
            /\ Persisting(x, from, to, view)
            /\ \/ to \in {"mark", "snapshot"} /\ from \in {"test", "mark"} /\ view = Empty
               \/ from = "snapshot" /\ to = "ask" /\ view = View(Snapshot, {})
               \/ /\ from = "ask" /\ to = "link"
                  /\ view = [hand[x] EXCEPT !.active = IF registry = {} THEN @ ELSE registry]
               \/ /\ from = "link" /\ to = "put"
                  /\ view = View(hand[x], hand[x].active \cap ToSet(Oldest(trail, RowLimit)))
      BY <2>2, GoesOn
    <3>2. /\ pc'[x] = to /\ hand'[x] = view /\ UNCHANGED <<upsert, mirror>>
          /\ \A y \in Actor \ {x} : hand'[y] = hand[y] /\ pc'[y] = pc[y]
      BY <3>1, MovesOn
    <3>3. hand[x].active \subseteq ToSet(trail) /\ hand[x] \in ViewType
      BY DEF ViewsAreLinked, HooksTypeOK
    <3>4. view.active \subseteq ToSet(trail)
      <4>1. CASE view = Empty
        BY <4>1 DEF Empty
      <4>2. CASE view = View(Snapshot, {})
        BY <1>0, <4>2 DEF View, Snapshot
      <4>3. CASE view = [hand[x] EXCEPT !.active = IF registry = {} THEN @ ELSE registry]
        BY <1>0, <3>3, <4>3 DEF ViewType
      <4>4. CASE view = View(hand[x], hand[x].active \cap ToSet(Oldest(trail, RowLimit)))
        BY <3>3, <4>4 DEF View
      <4> QED
        BY <3>1, <4>1, <4>2, <4>3, <4>4
    <3>5. to = "put" => Linked(view)
      <4>1. to = "put" =>
              view = View(hand[x], hand[x].active \cap ToSet(Oldest(trail, RowLimit)))
        BY <3>1
      <4> QED
        BY <4>1 DEF View, Linked
    <3> QED
      BY <2>0, <3>2, <3>4, <3>5, LinksMove
  <2> QED
    BY <1>9, <2>1, <2>2 DEF Persists
<1>10. CASE SecondPasses
  BY <1>0, <1>10, LinksStand DEF SecondPasses, progressVars, agentVars, storeVars
<1>11. CASE GateCommits
  BY <1>0, <1>11, LinksStand DEF GateCommits, progressVars, agentVars
<1>12. ASSUME NEW a \in Agent, Registered(a) \/ Unregistered(a) PROVE ViewsAreLinked'
  <2>1. registry' \subseteq ToSet(trail) /\ RegistryMoves
    BY <1>0, <1>12 DEF Registered, Unregistered
  <2> QED
    BY <1>0, <2>1, LinksStand DEF RegistryMoves, progressVars, storeVars
<1> QED
  BY <1>1, <1>2, <1>3, <1>5, <1>6, <1>7, <1>8, <1>9, <1>10, <1>11, <1>12, HookSteps

-----------------------------------------------------------------------------
(* The theorems.                                                            *)

LEMMA HooksBegin == HooksInit => HooksInv
<1> SUFFICES ASSUME HooksInit PROVE HooksInv
  OBVIOUS
<1>1. /\ active = <<>> /\ bySession = {} /\ tools = [x \in Actor |-> 0]
      /\ feed = <<>> /\ done = <<>> /\ plan = {} /\ trail = <<>> /\ registry = {} /\ listed = {}
      /\ life = [a \in Agent |-> "new"] /\ made = [x \in Actor |-> 0] /\ sessionless = {}
      /\ pc = [x \in Actor |-> "idle"] /\ force = [x \in Actor |-> FALSE] /\ recent = FALSE
      /\ hand = [x \in Actor |-> Empty] /\ mirror = Empty /\ upsert = Empty
      /\ alone = [x \in Actor |-> FALSE] /\ flushed = TRUE /\ moved = FALSE
  BY DEF HooksInit, ProgressInit
<1>2. Empty \in ViewType
  BY DEF Empty, ViewType
<1>3. HooksTypeOK
  <2>1. /\ active \in Seq(Agent) /\ done \in Seq(Agent) /\ trail \in Seq(Agent)
        /\ feed \in Seq([who : Actor, by : Actor])
    BY <1>1
  <2>2. /\ plan \in SUBSET Item /\ bySession \in SUBSET Agent /\ sessionless \in SUBSET Agent
        /\ registry \in SUBSET Agent /\ listed \in SUBSET Agent
    BY <1>1
  <2>3. /\ tools \in [Actor -> Nat] /\ made \in [Actor -> Nat]
        /\ life \in [Agent -> {"new", "running", "ended", "killed"}]
        /\ pc \in [Actor -> Place]
    BY <1>1 DEF Place
  <2>4. /\ force \in [Actor -> BOOLEAN] /\ alone \in [Actor -> BOOLEAN]
        /\ recent \in BOOLEAN /\ flushed \in BOOLEAN /\ moved \in BOOLEAN
    BY <1>1
  <2>5. hand \in [Actor -> ViewType] /\ mirror \in ViewType /\ upsert \in ViewType
    BY <1>1, <1>2
  <2> QED
    BY <2>1, <2>2, <2>3, <2>4, <2>5 DEF HooksTypeOK
<1>4. ToSet(<<>>) = {} /\ IsInjective(<<>>) /\ Len(<<>>) = 0
  BY DEF ToSet, IsInjective
<1>5. Lists
  BY <1>1, <1>4, ProgressAssumption DEF Lists
<1>6. Bookings
  <2>1. Total(made, {} \cup {Orch}) = 0
    <3>1. /\ made \in [Actor -> Nat] /\ {} \in SUBSET Actor /\ IsFiniteSet({})
          /\ Orch \in Actor /\ made[Orch] = 0
      BY <1>1, FS_EmptySet DEF Actor
    <3> QED
      BY <3>1, TotalGains, TotalOfNone
  <2>2. Orch \in Actor /\ Agent \subseteq Actor /\ DOMAIN feed = {}
    BY <1>1 DEF Actor
  <2> QED
    BY <1>1, <2>1, <2>2, FS_EmptySet DEF Bookings
<1>7. ViewsAreCurrent
  <2>1. Oldest(<<>>, ShownDone) = <<>>
    BY <1>4, ProgressAssumption DEF Oldest
  <2>2. ShowsNow(mirror) /\ ShowsNow(upsert)
    BY <1>1, <1>4, <2>1 DEF ShowsNow, Shown, Snapshot, Empty
  <2> QED
    BY <1>1, <2>2 DEF ViewsAreCurrent, Fresh
<1>8. ViewsAreLinked
  BY <1>1, <1>4 DEF ViewsAreLinked, Linked, Empty
<1> QED
  BY <1>3, <1>5, <1>6, <1>7, <1>8 DEF HooksInv

\* HooksInv: the types, and the four layers of the argument, hold always.
THEOREM HooksInvariant == HooksSpec => []HooksInv
<1>1. HooksInv /\ [HooksNext]_<<progressVars, hookVars>> => HooksInv'
  BY Typed, ListsStep, BookingsStep, ViewsCurrentStep, ViewsLinkedStep DEF HooksInv
<1> QED
  BY HooksBegin, <1>1, PTL DEF HooksSpec

\* No agent is listed twice, or as finished while it runs, none with a session as
\* running after its end was reported, and none without one as finished; no list
\* outgrows its cap (LiveProgress, the lists it keeps).
THEOREM ListsTellTheTruth == HooksSpec => []ListsFollowLife
<1>1. HooksInv => ListsFollowLife
  <2> SUFFICES ASSUME HooksInv PROVE ListsFollowLife
    OBVIOUS
  <2>1. IsInjective(active \o done)
    BY Disjoint DEF HooksInv, HooksTypeOK, Lists
  <2> QED
    BY <2>1 DEF HooksInv, Lists, ListsFollowLife
<1> QED
  BY HooksInvariant, <1>1, PTL

\* Every tool call is booked on the agent that made it, or, without a session, on the
\* orchestrator, whose count is the sum of these calls and its own (on_tool_event).
THEOREM EveryCallIsBooked == HooksSpec => []CallsAreBooked
<1>1. HooksInv => CallsAreBooked
  BY DEF HooksInv, Bookings, CallsAreBooked, Total
<1> QED
  BY HooksInvariant, <1>1, PTL

\* What a lifecycle or plan hook that ran alone has put into the file stays the truth
\* until the next one begins, as to the agents until Hermes's registry moves (persist,
\* its throttle and its force).
THEOREM FlushedStays == HooksSpec => []FlushedMirrorIsCurrent
<1>1. HooksInv => FlushedMirrorIsCurrent
  BY DEF HooksInv, ViewsAreCurrent, FlushedMirrorIsCurrent
<1> QED
  BY HooksInvariant, <1>1, PTL

\* Every agent that the file shows is linked to its decision while that is among the
\* rows the enrichment reads, whatever was released meanwhile (gate_for).
THEOREM MirrorIsLinked == HooksSpec => []MirrorLinksDecisions
<1>1. HooksInv => MirrorLinksDecisions
  BY DEF HooksInv, ViewsAreLinked, Linked, MirrorLinksDecisions
<1> QED
  BY HooksInvariant, <1>1, PTL

=============================================================================
