-------------------------- MODULE TightenTextProofs --------------------------
(***************************************************************************)
(* Theorems about the ordered lists and the text of TightenText, for every *)
(* set of directives, lists and texts and every number of seams.           *)
(*                                                                         *)
(* The lists are folds.  A fold is defined by an equation on the sets of   *)
(* places; it has a solution (FoldExists), whose values on the places 1..n *)
(* are what the loop of the code has after its n-th element.               *)
(***************************************************************************)
EXTENDS TightenText, FiniteSetTheorems, SequenceTheorems, WellFoundedInduction, TLAPS

-----------------------------------------------------------------------------
(* Folds.                                                                   *)

\* A set of numbers that has 0 and, up to N, the successors of its members.
LEMMA UpTo ==
  ASSUME NEW N \in Nat, NEW G, 0 \in G, \A n \in 0..(N - 1) : n \in G => n + 1 \in G
  PROVE  \A n \in 0..N : n \in G
<1> DEFINE Bad == {n \in 0..N : n \notin G}
           R == OpToRel(<, Nat)
<1>1. IsWellFoundedOn(R, Nat)
  BY NatLessThanWellFounded
<1>2. \A m, n \in Nat : n < m => <<n, m>> \in R
  BY DEF OpToRel
<1>3. Bad \subseteq Nat
  OBVIOUS
<1> SUFFICES ASSUME Bad # {} PROVE FALSE
  OBVIOUS
<1>4. PICK m \in Bad : \A n \in Bad : ~ (<<n, m>> \in R)
  <2> HIDE DEF R, Bad
  <2> QED
    BY <1>1, <1>3, WFMin
<1>5. m \in 0..N /\ m \notin G /\ m # 0
  BY <1>4
<1>6. m - 1 \in 0..(N - 1) /\ m - 1 < m /\ (m - 1) + 1 = m /\ m - 1 \in 0..N
  BY <1>5
<1>7. m - 1 \notin Bad
  <2> HIDE DEF R, Bad
  <2> QED
    BY <1>2, <1>3, <1>4, <1>6
<1>8. m - 1 \in G
  BY <1>6, <1>7
<1> QED
  BY <1>5, <1>6, <1>8

LEMMA LastPlace ==
  ASSUME NEW n \in Nat, n # 0
  PROVE  Max(1..n) = n /\ (1..n) \ {n} = 1..(n - 1) /\ 1..n # {}
<1>1. n \in 1..n /\ \A y \in 1..n : n >= y
  OBVIOUS
<1>2. \A x \in 1..n : (\A y \in 1..n : x >= y) => x = n
  BY <1>1
<1>3. Max(1..n) = n
  BY <1>1, <1>2 DEF Max
<1> QED
  BY <1>1, <1>3

LEMMA LargestPlace ==
  ASSUME NEW N \in Nat, NEW S \in SUBSET (1..N), S # {}
  PROVE  Max(S) \in S
<1>1. \E x \in S : \A y \in S : x >= y
  <2> SUFFICES ASSUME \A x \in S : \E y \in S : y > x PROVE FALSE
    OBVIOUS
  <2> DEFINE G == {n \in Nat : \E y \in S : y >= n}
  <2>1. 0 \in G
    <3>1. PICK y \in S : TRUE
      OBVIOUS
    <3>2. y >= 0 /\ 0 \in Nat
      BY <3>1
    <3> QED
      BY <3>1, <3>2
  <2>2. ASSUME NEW n \in 0..(N + 1 - 1), n \in G PROVE n + 1 \in G
    <3>1. PICK y \in S : y >= n
      BY <2>2
    <3>2. PICK z \in S : z > y
      OBVIOUS
    <3>3. n \in Nat /\ y \in Nat /\ z \in Nat /\ z >= n + 1 /\ n + 1 \in Nat
      BY <3>1, <3>2
    <3> QED
      BY <3>2, <3>3
  <2>3. N + 1 \in Nat /\ N + 1 \in 0..(N + 1)
    OBVIOUS
  <2> HIDE DEF G
  <2>4. N + 1 \in G
    BY <2>1, <2>2, <2>3, UpTo
  <2>5. PICK y \in S : y >= N + 1
    BY <2>4 DEF G
  <2> QED
    BY <2>5
<1> QED
  BY <1>1 DEF Max

\* One pass over the sets of places in D: the step F[i] for the last place i of each.
Pass(F, b, D, g) == [S \in D |-> IF S = {} THEN b ELSE F[Max(S)][g[S \ {Max(S)}]]]

\* A fold of the steps F is defined: its equation has a solution.
Folds(F, b, N, W) ==
    \E g \in [SUBSET (1..N) -> W] : \A S \in SUBSET (1..N) :
        g[S] = IF S = {} THEN b ELSE F[Max(S)][g[S \ {Max(S)}]]

LEMMA FoldExists ==
  ASSUME NEW W, NEW N \in Nat, NEW b \in W, NEW F \in [1..N -> [W -> W]]
  PROVE  Folds(F, b, N, W)
<1> DEFINE D(n) == {S \in SUBSET (1..N) : Cardinality(S) <= n}
           G == {n \in Nat : \E g \in [D(n) -> W] : g = Pass(F, b, D(n), g)}
<1>0. IsFiniteSet(1..N) /\ Cardinality(1..N) = N
  <2>1. 1 \in Int /\ N \in Int
    OBVIOUS
  <2>2. IsFiniteSet(1..N) /\ Cardinality(1..N) = IF 1 > N THEN 0 ELSE N - 1 + 1
    BY <2>1, FS_Interval
  <2> QED
    BY <2>2
<1>1. \A S \in SUBSET (1..N) : IsFiniteSet(S) /\ Cardinality(S) \in Nat /\ Cardinality(S) <= N
  <2> SUFFICES ASSUME NEW S \in SUBSET (1..N)
               PROVE  IsFiniteSet(S) /\ Cardinality(S) \in Nat /\ Cardinality(S) <= N
    OBVIOUS
  <2>1. IsFiniteSet(S) /\ Cardinality(S) <= Cardinality(1..N)
    BY <1>0, FS_Subset
  <2> QED
    BY <1>0, <2>1, FS_CardinalityType
<1>2. 0 \in G
  <2>1. \A S \in D(0) : S = {}
    BY <1>1, FS_EmptySet
  <2> DEFINE h == [S \in D(0) |-> b]
  <2>2. h = Pass(F, b, D(0), h) /\ h \in [D(0) -> W]
    BY <2>1 DEF Pass
  <2> QED
    BY <2>2
<1>3. ASSUME NEW n \in 0..(N - 1), n \in G PROVE n + 1 \in G
  <2>1. PICK g \in [D(n) -> W] : g = Pass(F, b, D(n), g)
    BY <1>3
  <2> DEFINE E == D(n + 1)
             h == Pass(F, b, E, g)
  <2>2. ASSUME NEW S \in E, S # {}
        PROVE  /\ S \ {Max(S)} \in D(n) /\ S \ {Max(S)} \in E /\ Max(S) \in 1..N
    <3>1. Max(S) \in S
      BY <2>2, LargestPlace
    <3>2. Cardinality(S \ {Max(S)}) = Cardinality(S) - 1
      BY <1>1, <3>1, FS_RemoveElement
    <3>0. S \in SUBSET (1..N) /\ Cardinality(S) <= n + 1 /\ n \in Nat
      BY <1>3
    <3>3. S \ {Max(S)} \in SUBSET (1..N) /\ Max(S) \in 1..N
      BY <3>0, <3>1
    <3>4. Cardinality(S \ {Max(S)}) <= n
      BY <1>1, <3>0, <3>2
    <3>5. Cardinality(S \ {Max(S)}) <= n + 1
      BY <1>1, <3>0, <3>3, <3>4
    <3> QED
      BY <3>3, <3>4, <3>5
  <2> HIDE DEF D
  <2>3. \A R \in D(n) : g[R] = IF R = {} THEN b ELSE F[Max(R)][g[R \ {Max(R)}]]
    BY <2>1 DEF Pass
  <2>4. \A S \in E : h[S] = IF S = {} THEN b ELSE F[Max(S)][g[S \ {Max(S)}]]
    BY DEF Pass
  <2>5. h = [S \in E |-> h[S]]
    BY DEF Pass
  <2> HIDE DEF h, E
  <2>6. ASSUME NEW S \in E, S # {} PROVE h[S \ {Max(S)}] = g[S \ {Max(S)}]
    BY <2>2, <2>3, <2>4, <2>6
  <2>7. \A S \in E : h[S] = IF S = {} THEN b ELSE F[Max(S)][h[S \ {Max(S)}]]
    BY <2>4, <2>6
  <2>8. \A S \in E : h[S] \in W
    <3> SUFFICES ASSUME NEW S \in E, S # {} PROVE h[S] \in W
      BY <2>4
    <3>1. g[S \ {Max(S)}] \in W /\ Max(S) \in 1..N
      BY <2>1, <2>2
    <3>2. F[Max(S)] \in [W -> W]
      BY <3>1
    <3> QED
      BY <2>4, <3>1, <3>2
  <2>9. h \in [E -> W] /\ h = Pass(F, b, E, h)
    BY <2>5, <2>7, <2>8 DEF Pass
  <2> QED
    BY <2>9 DEF E
<1>4. N \in G
  <2> HIDE DEF G
  <2>1. \A n \in 0..N : n \in G
    BY <1>2, <1>3, UpTo
  <2> QED
    BY <2>1
<1>5. D(N) = SUBSET (1..N)
  BY <1>1
<1>6. PICK g \in [SUBSET (1..N) -> W] : g = Pass(F, b, SUBSET (1..N), g)
  BY <1>4, <1>5
<1>7. \A S \in SUBSET (1..N) : g[S] = IF S = {} THEN b ELSE F[Max(S)][g[S \ {Max(S)}]]
  BY <1>6 DEF Pass
<1> QED
  BY <1>7 DEF Folds

\* _merge_directives as a loop: what it has after each element of new.
LEMMA MergeLoop ==
  ASSUME NEW existing \in Seq(Directive), NEW new \in Seq(Directive)
  PROVE  \E m : /\ m[0] = existing
                /\ \A n \in 1..Len(new) :
                      m[n] = IF new[n] \in Blank \/ new[n] \in ToSet(m[n - 1]) THEN m[n - 1]
                             ELSE Append(m[n - 1], new[n])
                /\ MergeDirectives(existing, new) = m[Len(new)]
<1> DEFINE N == Len(new)
           W == Seq(Directive)
           Step(i, w) == IF new[i] \in Blank \/ new[i] \in ToSet(w) THEN w ELSE Append(w, new[i])
           P(g) == [S \in SUBSET DOMAIN new |->
                       IF S = {} THEN existing ELSE Step(Max(S), g[S \ {Max(S)}])]
           F == [i \in 1..N |-> [w \in W |-> Step(i, w)]]
           c == CHOOSE g : g = P(g)
           m == [n \in 0..N |-> c[1..n]]
<1>1. MergeDirectives(existing, new) = c[DOMAIN new]
  BY DEF MergeDirectives, FoldLeft, MapThenFoldSet
<1>2. DOMAIN new = 1..N /\ N \in Nat
  OBVIOUS
<1>3. F \in [1..N -> [W -> W]]
  <2>1. \A i \in 1..N, w \in W : Step(i, w) \in W
    OBVIOUS
  <2> QED
    BY <2>1
<1>4. \E g : g = P(g)
  <2>1. PICK g \in [SUBSET (1..N) -> W] : \A S \in SUBSET (1..N) :
           g[S] = IF S = {} THEN existing ELSE F[Max(S)][g[S \ {Max(S)}]]
    <3>1. existing \in W
      OBVIOUS
    <3> HIDE DEF F, W, N
    <3>2. Folds(F, existing, N, W)
      BY <1>2, <1>3, <3>1, FoldExists
    <3> QED
      BY <3>2 DEF Folds
  <2>2. ASSUME NEW S \in SUBSET (1..N), S # {}
        PROVE  F[Max(S)][g[S \ {Max(S)}]] = Step(Max(S), g[S \ {Max(S)}])
    <3>1. Max(S) \in 1..N /\ g[S \ {Max(S)}] \in W
      BY <1>2, <2>1, <2>2, LargestPlace
    <3> HIDE DEF W, N
    <3> QED
      BY <3>1
  <2> HIDE DEF Step, F, W, N
  <2>3. \A S \in SUBSET (1..N) :
           g[S] = IF S = {} THEN existing ELSE Step(Max(S), g[S \ {Max(S)}])
    BY <2>1, <2>2
  <2>4. g = [S \in SUBSET (1..N) |-> g[S]]
    BY <2>1
  <2>5. g = P(g)
    BY <1>2, <2>3, <2>4
  <2> QED
    BY <2>5
<1>5. c = P(c)
  BY <1>4
<1>6. \A S \in SUBSET (1..N) :
         c[S] = IF S = {} THEN existing ELSE Step(Max(S), c[S \ {Max(S)}])
  <2> HIDE DEF c, Step, N
  <2> QED
    BY <1>2, <1>5
<1> HIDE DEF c, Step, N
<1>7. m[0] = existing
  <2>1. 0 \in 0..N /\ 1..0 = {}
    BY <1>2
  <2> QED
    BY <1>6, <2>1
<1>8. ASSUME NEW n \in 1..N PROVE m[n] = Step(n, m[n - 1])
  <2>1. n \in Nat /\ n # 0 /\ n \in 0..N /\ n - 1 \in 0..N /\ 1..n \in SUBSET (1..N)
    BY <1>2
  <2>2. m[n] = c[1..n] /\ m[n - 1] = c[1..(n - 1)]
    BY <2>1
  <2>3. Max(1..n) = n /\ (1..n) \ {n} = 1..(n - 1) /\ 1..n # {}
    BY <2>1, LastPlace
  <2> QED
    BY <1>6, <2>1, <2>2, <2>3
<1>9. MergeDirectives(existing, new) = m[N]
  <2>1. N \in 0..N
    BY <1>2
  <2> QED
    BY <1>1, <1>2, <2>1
<1> HIDE DEF m
<1> QED
  BY <1>7, <1>8, <1>9 DEF Step, N

\* Dropping the blanks as a loop.
LEMMA CleanLoop ==
  ASSUME NEW ds \in Seq(Directive)
  PROVE  \E m : /\ m[0] = <<>>
                /\ \A n \in 1..Len(ds) :
                      m[n] = IF ds[n] \in Blank THEN m[n - 1] ELSE Append(m[n - 1], ds[n])
                /\ Cleaned(ds) = m[Len(ds)]
<1> DEFINE N == Len(ds)
           W == Seq(Directive)
           Step(i, w) == IF ds[i] \in Blank THEN w ELSE Append(w, ds[i])
           P(g) == [S \in SUBSET DOMAIN ds |->
                       IF S = {} THEN <<>> ELSE Step(Max(S), g[S \ {Max(S)}])]
           F == [i \in 1..N |-> [w \in W |-> Step(i, w)]]
           c == CHOOSE g : g = P(g)
           m == [n \in 0..N |-> c[1..n]]
<1>1. Cleaned(ds) = c[DOMAIN ds]
  BY DEF Cleaned, FoldLeft, MapThenFoldSet
<1>2. DOMAIN ds = 1..N /\ N \in Nat
  OBVIOUS
<1>3. F \in [1..N -> [W -> W]]
  <2>1. \A i \in 1..N, w \in W : Step(i, w) \in W
    OBVIOUS
  <2> QED
    BY <2>1
<1>4. \E g : g = P(g)
  <2>1. PICK g \in [SUBSET (1..N) -> W] : \A S \in SUBSET (1..N) :
           g[S] = IF S = {} THEN <<>> ELSE F[Max(S)][g[S \ {Max(S)}]]
    <3>1. <<>> \in W
      OBVIOUS
    <3> HIDE DEF F, W, N
    <3>2. Folds(F, <<>>, N, W)
      BY <1>2, <1>3, <3>1, FoldExists
    <3> QED
      BY <3>2 DEF Folds
  <2>2. ASSUME NEW S \in SUBSET (1..N), S # {}
        PROVE  F[Max(S)][g[S \ {Max(S)}]] = Step(Max(S), g[S \ {Max(S)}])
    <3>1. Max(S) \in 1..N /\ g[S \ {Max(S)}] \in W
      BY <1>2, <2>1, <2>2, LargestPlace
    <3> HIDE DEF W, N
    <3> QED
      BY <3>1
  <2> HIDE DEF Step, F, W, N
  <2>3. \A S \in SUBSET (1..N) :
           g[S] = IF S = {} THEN <<>> ELSE Step(Max(S), g[S \ {Max(S)}])
    BY <2>1, <2>2
  <2>4. g = [S \in SUBSET (1..N) |-> g[S]]
    BY <2>1
  <2>5. g = P(g)
    BY <1>2, <2>3, <2>4
  <2> QED
    BY <2>5
<1>5. c = P(c)
  BY <1>4
<1>6. \A S \in SUBSET (1..N) :
         c[S] = IF S = {} THEN <<>> ELSE Step(Max(S), c[S \ {Max(S)}])
  <2> HIDE DEF c, Step, N
  <2> QED
    BY <1>2, <1>5
<1> HIDE DEF c, Step, N
<1>7. m[0] = <<>>
  <2>1. 0 \in 0..N /\ 1..0 = {}
    BY <1>2
  <2> QED
    BY <1>6, <2>1
<1>8. ASSUME NEW n \in 1..N PROVE m[n] = Step(n, m[n - 1])
  <2>1. n \in Nat /\ n # 0 /\ n \in 0..N /\ n - 1 \in 0..N /\ 1..n \in SUBSET (1..N)
    BY <1>2
  <2>2. m[n] = c[1..n] /\ m[n - 1] = c[1..(n - 1)]
    BY <2>1
  <2>3. Max(1..n) = n /\ (1..n) \ {n} = 1..(n - 1) /\ 1..n # {}
    BY <2>1, LastPlace
  <2> QED
    BY <1>6, <2>1, <2>2, <2>3
<1>9. Cleaned(ds) = m[N]
  <2>1. N \in 0..N
    BY <1>2
  <2> QED
    BY <1>1, <1>2, <2>1
<1> HIDE DEF m
<1> QED
  BY <1>7, <1>8, <1>9 DEF Step, N

\* The header and the lines of the directives.
Lines(ds) == FoldLeft(LAMBDA out, d : out \o Line[d], <<HDR>>, ds)

\* Appending the lines of the block as a loop.
LEMMA LinesLoop ==
  ASSUME NEW ds \in Seq(Directive)
  PROVE  \E m : /\ m[0] = <<HDR>>
                /\ \A n \in 1..Len(ds) :
                      m[n] = m[n - 1] \o Line[ds[n]]
                /\ Lines(ds) = m[Len(ds)]
<1> DEFINE N == Len(ds)
           W == Seq(Token)
           Step(i, w) == w \o Line[ds[i]]
           P(g) == [S \in SUBSET DOMAIN ds |->
                       IF S = {} THEN <<HDR>> ELSE Step(Max(S), g[S \ {Max(S)}])]
           F == [i \in 1..N |-> [w \in W |-> Step(i, w)]]
           c == CHOOSE g : g = P(g)
           m == [n \in 0..N |-> c[1..n]]
<1>1. Lines(ds) = c[DOMAIN ds]
  BY DEF Lines, FoldLeft, MapThenFoldSet
<1>2. DOMAIN ds = 1..N /\ N \in Nat
  OBVIOUS
<1>3. F \in [1..N -> [W -> W]]
  <2>1. \A i \in 1..N, w \in W : Step(i, w) \in W
    BY TextAssumption
  <2> QED
    BY <2>1
<1>4. \E g : g = P(g)
  <2>1. PICK g \in [SUBSET (1..N) -> W] : \A S \in SUBSET (1..N) :
           g[S] = IF S = {} THEN <<HDR>> ELSE F[Max(S)][g[S \ {Max(S)}]]
    <3>1. <<HDR>> \in W
      BY TextAssumption
    <3> HIDE DEF F, W, N
    <3>2. Folds(F, <<HDR>>, N, W)
      BY <1>2, <1>3, <3>1, FoldExists
    <3> QED
      BY <3>2 DEF Folds
  <2>2. ASSUME NEW S \in SUBSET (1..N), S # {}
        PROVE  F[Max(S)][g[S \ {Max(S)}]] = Step(Max(S), g[S \ {Max(S)}])
    <3>1. Max(S) \in 1..N /\ g[S \ {Max(S)}] \in W
      BY <1>2, <2>1, <2>2, LargestPlace
    <3> HIDE DEF W, N
    <3> QED
      BY <3>1
  <2> HIDE DEF Step, F, W, N
  <2>3. \A S \in SUBSET (1..N) :
           g[S] = IF S = {} THEN <<HDR>> ELSE Step(Max(S), g[S \ {Max(S)}])
    BY <2>1, <2>2
  <2>4. g = [S \in SUBSET (1..N) |-> g[S]]
    BY <2>1
  <2>5. g = P(g)
    BY <1>2, <2>3, <2>4
  <2> QED
    BY <2>5
<1>5. c = P(c)
  BY <1>4
<1>6. \A S \in SUBSET (1..N) :
         c[S] = IF S = {} THEN <<HDR>> ELSE Step(Max(S), c[S \ {Max(S)}])
  <2> HIDE DEF c, Step, N
  <2> QED
    BY <1>2, <1>5
<1> HIDE DEF c, Step, N
<1>7. m[0] = <<HDR>>
  <2>1. 0 \in 0..N /\ 1..0 = {}
    BY <1>2
  <2> QED
    BY <1>6, <2>1
<1>8. ASSUME NEW n \in 1..N PROVE m[n] = Step(n, m[n - 1])
  <2>1. n \in Nat /\ n # 0 /\ n \in 0..N /\ n - 1 \in 0..N /\ 1..n \in SUBSET (1..N)
    BY <1>2
  <2>2. m[n] = c[1..n] /\ m[n - 1] = c[1..(n - 1)]
    BY <2>1
  <2>3. Max(1..n) = n /\ (1..n) \ {n} = 1..(n - 1) /\ 1..n # {}
    BY <2>1, LastPlace
  <2> QED
    BY <1>6, <2>1, <2>2, <2>3
<1>9. Lines(ds) = m[N]
  <2>1. N \in 0..N
    BY <1>2
  <2> QED
    BY <1>1, <1>2, <2>1
<1> HIDE DEF m
<1> QED
  BY <1>7, <1>8, <1>9 DEF Step, N

-----------------------------------------------------------------------------
(* What the folds are.                                                      *)

\* A list of directives that are not blank, each once.
Clean(ds) == ds \in Seq(Directive) /\ IsInjective(ds) /\ ToSet(ds) \cap Blank = {}

\* t is s with something after it.
Extends(s, t) == Len(s) <= Len(t) /\ \A i \in 1..Len(s) : t[i] = s[i]

LEMMA AppendClean ==
  ASSUME NEW ds, Clean(ds), NEW d \in Directive, d \notin Blank, d \notin ToSet(ds)
  PROVE  /\ Clean(Append(ds, d)) /\ ToSet(Append(ds, d)) = ToSet(ds) \cup {d}
         /\ Extends(ds, Append(ds, d))
<1> DEFINE t == Append(ds, d)
<1>1. /\ ds \in Seq(Directive) /\ t \in Seq(Directive) /\ Len(ds) \in Nat
      /\ Len(t) = Len(ds) + 1 /\ t[Len(ds) + 1] = d
      /\ \A i \in 1..Len(ds) : t[i] = ds[i]
      /\ DOMAIN ds = 1..Len(ds) /\ DOMAIN t = 1..(Len(ds) + 1)
  BY DEF Clean
<1> HIDE DEF t
<1>2. ToSet(t) = ToSet(ds) \cup {d}
  BY <1>1 DEF ToSet
<1>3. IsInjective(t)
  BY <1>1 DEF Clean, IsInjective, ToSet
<1>4. ToSet(t) \cap Blank = {}
  BY <1>2 DEF Clean
<1>5. Extends(ds, t)
  BY <1>1 DEF Extends
<1> QED
  BY <1>1, <1>2, <1>3, <1>4, <1>5 DEF Clean, t

LEMMA ExtendsTransitive ==
  ASSUME NEW r \in Seq(Directive), NEW s \in Seq(Directive), NEW t \in Seq(Directive),
         Extends(r, s), Extends(s, t)
  PROVE  Extends(r, t)
<1>1. Len(r) \in Nat /\ Len(s) \in Nat /\ Len(t) \in Nat
  OBVIOUS
<1>2. Len(r) <= Len(t) /\ \A i \in 1..Len(r) : i \in 1..Len(s)
  BY <1>1 DEF Extends
<1> QED
  BY <1>2 DEF Extends

\* The elements of a list up to its n-th.
First(ds, n) == {ds[i] : i \in 1..n}

LEMMA FirstGrows ==
  ASSUME NEW ds, NEW n \in Nat
  PROVE  First(ds, n + 1) = First(ds, n) \cup {ds[n + 1]}
<1>1. 1..(n + 1) = (1..n) \cup {n + 1}
  OBVIOUS
<1> QED
  BY <1>1 DEF First

\* Merging appends what is new, each once, and drops nothing but blanks and repeats.
LEMMA MergeAppends ==
  ASSUME NEW existing, Clean(existing), NEW new \in Seq(Directive)
  PROVE  LET merged == MergeDirectives(existing, new) IN
         /\ Clean(merged)
         /\ Extends(existing, merged)
         /\ ToSet(merged) = ToSet(existing) \cup (ToSet(new) \ Blank)
<1>1. existing \in Seq(Directive)
  BY DEF Clean
<1>2. PICK m : /\ m[0] = existing
               /\ \A n \in 1..Len(new) :
                     m[n] = IF new[n] \in Blank \/ new[n] \in ToSet(m[n - 1]) THEN m[n - 1]
                            ELSE Append(m[n - 1], new[n])
               /\ MergeDirectives(existing, new) = m[Len(new)]
  BY <1>1, MergeLoop
<1> DEFINE Good(n) == /\ Clean(m[n]) /\ Extends(existing, m[n])
                      /\ ToSet(m[n]) = ToSet(existing) \cup (First(new, n) \ Blank)
           G == {n \in Nat : Good(n)}
<1>3. Len(new) \in Nat /\ DOMAIN new = 1..Len(new)
  OBVIOUS
<1>4. 0 \in G
  <2>1. First(new, 0) = {}
    BY DEF First
  <2>2. Extends(existing, existing)
    BY <1>1 DEF Extends
  <2>3. Good(0)
    BY <1>2, <2>1, <2>2
  <2> QED
    BY <2>3
<1>5. ASSUME NEW n \in 0..(Len(new) - 1), n \in G PROVE n + 1 \in G
  <2>0. n \in Nat /\ n + 1 \in 1..Len(new) /\ (n + 1) - 1 = n /\ n + 1 \in Nat
    BY <1>3
  <2>1. Good(n)
    BY <1>5
  <2> DEFINE d == new[n + 1]
             s == m[n]
             t == m[n + 1]
  <2>2. t = IF d \in Blank \/ d \in ToSet(s) THEN s ELSE Append(s, d)
    BY <1>2, <2>0
  <2>3. d \in Directive
    BY <2>0
  <2>4. First(new, n + 1) = First(new, n) \cup {d}
    BY <2>0, FirstGrows
  <2>5. Clean(s) /\ Extends(existing, s)
        /\ ToSet(s) = ToSet(existing) \cup (First(new, n) \ Blank)
    BY <2>1
  <2> HIDE DEF s, t, d
  <2> DEFINE Result == /\ Clean(t) /\ Extends(existing, t)
                       /\ ToSet(t) = ToSet(existing) \cup (First(new, n + 1) \ Blank)
  <2>6. ASSUME d \in Blank \/ d \in ToSet(s) PROVE Result
    BY <2>2, <2>4, <2>5, <2>6
  <2>7. ASSUME d \notin Blank, d \notin ToSet(s) PROVE Result
    <3>1. /\ t = Append(s, d) /\ Clean(t) /\ ToSet(t) = ToSet(s) \cup {d} /\ Extends(s, t)
      BY <2>2, <2>3, <2>5, <2>7, AppendClean
    <3>2. Extends(existing, t)
      BY <1>1, <2>5, <3>1, ExtendsTransitive DEF Clean
    <3> QED
      BY <2>4, <2>5, <2>7, <3>1, <3>2
  <2> QED
    BY <2>0, <2>6, <2>7 DEF t, d, s
<1>6. \A n \in 0..Len(new) : n \in G
  <2> HIDE DEF G
  <2> QED
    BY <1>3, <1>4, <1>5, UpTo
<1>7. Good(Len(new))
  BY <1>3, <1>6
<1>8. First(new, Len(new)) = ToSet(new)
  BY <1>3 DEF First, ToSet
<1> QED
  BY <1>2, <1>7, <1>8

\* A list without blanks is its own clean one.
LEMMA CleanedOfClean ==
  ASSUME NEW ds, Clean(ds)
  PROVE  Cleaned(ds) = ds
<1>1. ds \in Seq(Directive) /\ Len(ds) \in Nat /\ DOMAIN ds = 1..Len(ds)
  BY DEF Clean
<1>2. PICK m : /\ m[0] = <<>>
               /\ \A n \in 1..Len(ds) :
                     m[n] = IF ds[n] \in Blank THEN m[n - 1] ELSE Append(m[n - 1], ds[n])
               /\ Cleaned(ds) = m[Len(ds)]
  BY <1>1, CleanLoop
<1> DEFINE Good(n) == /\ m[n] \in Seq(Directive) /\ Len(m[n]) = n
                      /\ \A i \in 1..n : m[n][i] = ds[i]
           G == {n \in Nat : Good(n)}
<1>3. 0 \in G
  <2>1. <<>> \in Seq(Directive) /\ Len(<<>>) = 0 /\ 1..0 = {}
    OBVIOUS
  <2>2. Good(0)
    BY <1>2, <2>1
  <2> QED
    BY <2>2
<1>4. ASSUME NEW n \in 0..(Len(ds) - 1), n \in G PROVE n + 1 \in G
  <2>0. n \in Nat /\ n + 1 \in 1..Len(ds) /\ (n + 1) - 1 = n /\ n + 1 \in Nat
    BY <1>1
  <2>1. Good(n)
    BY <1>4
  <2> DEFINE s == m[n]
             t == m[n + 1]
             d == ds[n + 1]
  <2>2. d \in Directive /\ d \notin Blank
    BY <1>1, <2>0 DEF Clean, ToSet
  <2>3. t = Append(s, d)
    BY <1>2, <2>0, <2>2
  <2>4. s \in Seq(Directive) /\ Len(s) = n /\ \A i \in 1..n : s[i] = ds[i]
    BY <2>1
  <2> HIDE DEF s, t
  <2>5. t \in Seq(Directive) /\ Len(t) = n + 1 /\ \A i \in 1..(n + 1) : t[i] = ds[i]
    <3>1. t[n + 1] = d /\ \A i \in 1..n : t[i] = s[i]
      BY <2>2, <2>3, <2>4
    <3>2. \A i \in 1..(n + 1) : i \in 1..n \/ i = n + 1
      BY <2>0
    <3> QED
      BY <2>2, <2>3, <2>4, <3>1, <3>2
  <2> QED
    BY <2>0, <2>5 DEF t
<1>5. \A n \in 0..Len(ds) : n \in G
  <2> HIDE DEF G
  <2> QED
    BY <1>1, <1>3, <1>4, UpTo
<1>6. Good(Len(ds))
  BY <1>1, <1>5
<1> QED
  BY <1>1, <1>2, <1>6, SeqEqual

\* The block begins with the header.
LEMMA BlockBegins ==
  ASSUME NEW ds \in Seq(Directive)
  PROVE  Lines(ds) \in Seq(Token) /\ Len(Lines(ds)) >= 1 /\ Lines(ds)[1] = HDR
<1>1. Len(ds) \in Nat
  OBVIOUS
<1>2. PICK m : /\ m[0] = <<HDR>>
               /\ \A n \in 1..Len(ds) : m[n] = m[n - 1] \o Line[ds[n]]
               /\ Lines(ds) = m[Len(ds)]
  BY LinesLoop
<1> DEFINE Good(n) == m[n] \in Seq(Token) /\ Len(m[n]) >= 1 /\ m[n][1] = HDR
           G == {n \in Nat : Good(n)}
<1>3. 0 \in G
  <2>1. <<HDR>> \in Seq(Token) /\ Len(<<HDR>>) >= 1 /\ <<HDR>>[1] = HDR
    BY TextAssumption
  <2>2. Good(0)
    BY <1>2, <2>1
  <2> QED
    BY <2>2
<1>4. ASSUME NEW n \in 0..(Len(ds) - 1), n \in G PROVE n + 1 \in G
  <2>0. n \in Nat /\ n + 1 \in 1..Len(ds) /\ (n + 1) - 1 = n /\ n + 1 \in Nat
    BY <1>1
  <2> DEFINE s == m[n]
             l == Line[ds[n + 1]]
  <2>1. s \in Seq(Token) /\ Len(s) >= 1 /\ s[1] = HDR
    BY <1>4
  <2>2. l \in Seq(Token)
    BY <2>0, TextAssumption
  <2>3. m[n + 1] = s \o l
    BY <1>2, <2>0
  <2> HIDE DEF s, l
  <2>4. s \o l \in Seq(Token) /\ Len(s \o l) >= 1 /\ (s \o l)[1] = HDR
    BY <2>1, <2>2
  <2> QED
    BY <2>0, <2>3, <2>4
<1>5. \A n \in 0..Len(ds) : n \in G
  <2> HIDE DEF G
  <2> QED
    BY <1>1, <1>3, <1>4, UpTo
<1> QED
  BY <1>1, <1>2, <1>5

-----------------------------------------------------------------------------
(* The lists of a review.                                                   *)

\* What was accumulated has no blanks and no repeats.
ListInv == seams \in Nat /\ Clean(accumulated)

LEMMA NothingIsClean == Clean(<<>>)
  BY DEF Clean, IsInjective, ToSet

\* A round of the review accumulates the merged list as it is.
LEMMA RoundMerges ==
  ASSUME ListInv, NEW new \in Lists, Round(new)
  PROVE  /\ accumulated' = MergeDirectives(accumulated, new)
         /\ Clean(accumulated') /\ Extends(accumulated, accumulated')
<1>1. new \in Seq(Directive)
  BY TextAssumption
<1> DEFINE merged == MergeDirectives(accumulated, new)
<1>2. Clean(merged) /\ Extends(accumulated, merged)
  BY <1>1, MergeAppends DEF ListInv
<1>3. accumulated' = Cleaned(merged)
  BY DEF Round
<1> HIDE DEF merged
<1>4. accumulated' = merged
  BY <1>2, <1>3, CleanedOfClean
<1> QED
  BY <1>2, <1>4 DEF merged

THEOREM ListInvariant == TextSpec => []ListInv
<1>1. TextInit => ListInv
  BY NothingIsClean DEF TextInit, ListInv
<1>2. ListInv /\ [TextNext]_textVars => ListInv'
  <2> SUFFICES ASSUME ListInv, [TextNext]_textVars PROVE ListInv'
    OBVIOUS
  <2>1. ASSUME NEW new \in Lists, Round(new) PROVE ListInv'
    BY <2>1, RoundMerges DEF ListInv, Round
  <2>2. ASSUME RewriteGoal PROVE ListInv'
    BY <2>2, NothingIsClean DEF ListInv, RewriteGoal
  <2>3. ASSUME UNCHANGED textVars PROVE ListInv'
    BY <2>3 DEF ListInv, textVars
  <2> QED
    BY <2>1, <2>2, <2>3 DEF TextNext
<1> QED
  BY <1>1, <1>2, PTL DEF TextSpec

\* A clean list is as long as its set is large.
LEMMA CleanCount ==
  ASSUME NEW ds, Clean(ds)
  PROVE  Len(ds) \in Nat /\ Cardinality(ToSet(ds)) = Len(ds)
<1>1. /\ Len(ds) \in Nat /\ DOMAIN ds = 1..Len(ds) /\ ds = [i \in 1..Len(ds) |-> ds[i]]
  BY DEF Clean
<1>2. ds \in Surjection(1..Len(ds), ToSet(ds))
  BY <1>1 DEF Surjection, ToSet
<1>3. ds \in Injection(1..Len(ds), ToSet(ds))
  <2>1. \A i, j \in 1..Len(ds) : ds[i] = ds[j] => i = j
    BY <1>1 DEF Clean, IsInjective
  <2> QED
    BY <1>2, <2>1 DEF Surjection, Injection, IsInjective
<1>4. IsFiniteSet(1..Len(ds)) /\ Cardinality(1..Len(ds)) = Len(ds)
  <2>1. 1 \in Int /\ Len(ds) \in Int
    BY <1>1
  <2>2. /\ IsFiniteSet(1..Len(ds))
        /\ Cardinality(1..Len(ds)) = IF 1 > Len(ds) THEN 0 ELSE Len(ds) - 1 + 1
    BY <2>1, FS_Interval
  <2> QED
    BY <1>1, <2>2
<1> QED
  BY <1>1, <1>2, <1>3, <1>4, FS_Surjection

\* A clean list validates when its set does.
LEMMA CleanValidates ==
  ASSUME NEW base, NEW ds, Clean(ds)
  PROVE  Validates(base, ds) <=> ValidTighten(base, ToSet(ds))
<1>1. Cleaned(ds) = ds
  BY CleanedOfClean
<1>2. Cardinality(ToSet(ds)) = Len(ds)
  BY CleanCount
<1>3. (\A d \in ToSet(ds) : d \notin Forbidden) <=> ToSet(ds) \cap Forbidden = {}
  OBVIOUS
<1> QED
  BY <1>1, <1>2, <1>3 DEF Validates, ValidTighten

\* The sets of Tightening say all that matters about the ordered lists: the merged list
\* has the merged set's elements, each once, and both validate alike, whatever the
\* answers are (_merge_directives and validate_tighten).
THEOREM SetsSayItAll == TextSpec => []SetViewIsExact
<1>1. ListInv => SetViewIsExact
  <2> SUFFICES ASSUME ListInv, NEW new \in Lists
               PROVE  LET merged == MergeDirectives(accumulated, new)
                          view   == Merge(ToSet(accumulated), ToSet(new) \ Blank)
                      IN  /\ ToSet(merged) = view
                          /\ IsInjective(merged)
                          /\ Validates(ExtractBase(text), merged)
                               <=> ValidTighten(ExtractBase(text), view)
    BY DEF SetViewIsExact
  <2> DEFINE merged == MergeDirectives(accumulated, new)
  <2>1. /\ Clean(merged)
        /\ ToSet(merged) = ToSet(accumulated) \cup (ToSet(new) \ Blank)
    BY TextAssumption, MergeAppends DEF ListInv
  <2>2. ToSet(merged) = Merge(ToSet(accumulated), ToSet(new) \ Blank)
    BY <2>1 DEF Merge
  <2> HIDE DEF merged
  <2>3. Validates(ExtractBase(text), merged)
           <=> ValidTighten(ExtractBase(text), ToSet(merged))
    BY <2>1, CleanValidates
  <2> QED
    BY <2>1, <2>2, <2>3 DEF Clean, merged
<1> QED
  BY <1>1, ListInvariant, PTL

\* A round only appends to the directives of the rounds before it.
THEOREM BlocksOnlyGrow == TextSpec => RoundsOnlyAppend
<1>1. ListInv /\ [TextNext]_textVars
        => [seams' = seams => IsPrefix(accumulated, accumulated')]_textVars
  <2> SUFFICES ASSUME ListInv, TextNext, seams' = seams
               PROVE  IsPrefix(accumulated, accumulated')
    OBVIOUS
  <2>1. ~ RewriteGoal
    BY DEF RewriteGoal, ListInv
  <2>2. PICK new \in Lists : Round(new)
    BY <2>1 DEF TextNext
  <2>3. Clean(accumulated) /\ Clean(accumulated') /\ Extends(accumulated, accumulated')
    BY <2>2, RoundMerges DEF ListInv
  <2> DEFINE s == accumulated
             t == accumulated'
  <2>4. s \in Seq(Directive) /\ t \in Seq(Directive) /\ Len(s) <= Len(t)
        /\ \A i \in 1..Len(s) : t[i] = s[i]
    BY <2>3 DEF Clean, Extends
  <2> HIDE DEF s, t
  <2>5. /\ SubSeq(s, 1, Len(s)) \in Seq(Directive) /\ Len(SubSeq(s, 1, Len(s))) = Len(s)
        /\ SubSeq(t, 1, Len(s)) \in Seq(Directive) /\ Len(SubSeq(t, 1, Len(s))) = Len(s)
        /\ \A i \in 1..Len(s) : SubSeq(s, 1, Len(s))[i] = s[i] /\ SubSeq(t, 1, Len(s))[i] = t[i]
    BY <2>4
  <2>6. SubSeq(s, 1, Len(s)) = SubSeq(t, 1, Len(s))
    BY <2>4, <2>5, SeqEqual
  <2> QED
    BY <2>4, <2>6 DEF IsPrefix, s, t
<1> QED
  BY <1>1, ListInvariant, PTL DEF TextSpec, RoundsOnlyAppend

-----------------------------------------------------------------------------
(* The text of a goal.                                                      *)

\* The text t is b, or b with a block after it.
Carries(b, t) ==
    /\ t \in Seq(Token)
    /\ \/ t = b
       \/ /\ Len(t) > Len(b)
          /\ \A i \in 1..Len(b) : t[i] = b[i]
          /\ t[Len(b) + 1] = HDR

LEMMA AssembledCarries ==
  ASSUME NEW b \in Seq(Token), NEW ds, Clean(ds)
  PROVE  Carries(b, AssembleDispatched(b, ds))
<1>1. Cleaned(ds) = ds /\ ds \in Seq(Directive)
  BY CleanedOfClean DEF Clean
<1>2. CASE ds = <<>>
  <2>1. AssembleDispatched(b, ds) = b
    <3>1. RenderDirectives(ds) = <<>>
      BY <1>1, <1>2 DEF RenderDirectives
    <3> QED
      BY <3>1, ConcatEmptySeq DEF AssembleDispatched
  <2> QED
    BY <2>1 DEF Carries
<1>3. CASE ds # <<>>
  <2> DEFINE block == Lines(ds)
  <2>1. AssembleDispatched(b, ds) = b \o block
    BY <1>1, <1>3 DEF AssembleDispatched, RenderDirectives, Lines
  <2>2. block \in Seq(Token) /\ Len(block) >= 1 /\ block[1] = HDR
    BY <1>1, BlockBegins
  <2> HIDE DEF block
  <2>3. /\ b \o block \in Seq(Token) /\ Len(b \o block) = Len(b) + Len(block)
        /\ \A i \in 1..Len(b) : (b \o block)[i] = b[i]
        /\ (b \o block)[Len(b) + 1] = block[1]
    BY <2>2
  <2> QED
    BY <2>1, <2>2, <2>3 DEF Carries
<1> QED
  BY <1>2, <1>3

LEMMA CarriedIsExtracted ==
  ASSUME NEW b \in Seq(Token), HDR \notin ToSet(b), NEW t, Carries(b, t)
  PROVE  ExtractBase(t) = b
<1> DEFINE at == {i \in DOMAIN t : t[i] = HDR}
           n == Len(b) + 1
<1>1. Len(b) \in Nat /\ DOMAIN b = 1..Len(b) /\ \A i \in 1..Len(b) : b[i] # HDR
  BY DEF ToSet
<1>2. CASE t = b
  <2>1. at = {}
    BY <1>1, <1>2
  <2> QED
    BY <1>2, <2>1 DEF ExtractBase
<1>3. CASE t # b
  <2>1. /\ t \in Seq(Token) /\ Len(t) > Len(b) /\ t[n] = HDR
        /\ \A i \in 1..Len(b) : t[i] = b[i]
    BY <1>3 DEF Carries
  <2>2. n \in at /\ \A j \in at : n <= j
    BY <1>1, <2>1
  <2>3. (CHOOSE i \in at : \A j \in at : i <= j) = n
    <3>1. at \subseteq Nat
      BY <2>1
    <3>2. \A i \in at : (\A j \in at : i <= j) => i = n
      <4> HIDE DEF at, n
      <4> QED
        BY <2>2, <3>1
    <3> HIDE DEF at, n
    <3> QED
      BY <2>2, <3>2
  <2>4. ExtractBase(t) = SubSeq(t, 1, n - 1)
    BY <2>2, <2>3 DEF ExtractBase
  <2>5. n - 1 = Len(b)
    BY <1>1
  <2>6. /\ SubSeq(t, 1, Len(b)) \in Seq(Token) /\ Len(SubSeq(t, 1, Len(b))) = Len(b)
        /\ \A i \in 1..Len(b) : SubSeq(t, 1, Len(b))[i] = b[i]
    BY <1>1, <2>1
  <2>7. SubSeq(t, 1, Len(b)) = b
    BY <2>6, SeqEqual
  <2> QED
    BY <2>4, <2>5, <2>7
<1> QED
  BY <1>2, <1>3

TextInv == original \in Base /\ Carries(original, text)

\* However often a goal passes a seam, with whatever blocks, also blocks that quote the
\* header, the base it is reviewed on is the one submitted, if that one does not quote
\* the header itself (_extract after assemble_dispatched_prompt).
THEOREM BaseStays ==
  ASSUME \A b \in Base : HDR \notin ToSet(b)
  PROVE  TextSpec => []BaseIsRecovered
<1>1. \A b \in Base : b \in Seq(Token)
  BY TextAssumption
<1>2. TextInv => BaseIsRecovered
  BY <1>1, CarriedIsExtracted DEF TextInv, BaseIsRecovered
<1>3. TextInit => TextInv
  BY <1>1 DEF TextInit, TextInv, Carries
<1>4. ListInv /\ TextInv /\ [TextNext]_textVars => TextInv'
  <2> SUFFICES ASSUME ListInv, TextInv, [TextNext]_textVars PROVE TextInv'
    OBVIOUS
  <2>1. ASSUME NEW new \in Lists, Round(new) PROVE TextInv'
    BY <2>1 DEF TextInv, Round
  <2>2. ASSUME RewriteGoal PROVE TextInv'
    <3>1. text' = AssembleDispatched(original, accumulated) /\ original' = original
      BY <1>2, <2>2 DEF RewriteGoal, BaseIsRecovered
    <3>2. Carries(original, AssembleDispatched(original, accumulated))
      BY <1>1, AssembledCarries DEF TextInv, ListInv
    <3> QED
      BY <3>1, <3>2 DEF TextInv
  <2>3. ASSUME UNCHANGED textVars PROVE TextInv'
    BY <2>3 DEF TextInv, textVars
  <2> QED
    BY <2>1, <2>2, <2>3 DEF TextNext
<1> QED
  BY <1>2, <1>3, <1>4, ListInvariant, PTL DEF TextSpec

=============================================================================
