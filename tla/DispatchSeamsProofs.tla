-------------------------- MODULE DispatchSeamsProofs --------------------------
(***************************************************************************)
(* Theorems about the two seams and their cache (DispatchSeams), for every *)
(* number of calls, tasks and threads and every size of the cache.         *)
(*                                                                         *)
(* The argument goes in layers: what the places of a call's thread are;    *)
(* whose decision a cache entry, a hand or a collected result is; how far  *)
(* the cache can grow; which keys stay in it until something is evicted;   *)
(* and, for a call with an id, what its reviews and rows are at each place.*)
(***************************************************************************)
EXTENDS DispatchSeams, FiniteSetTheorems, SequenceTheorems, TLAPS

Goal == Base \X SUBSET Directive

Decision ==
    [released : {FALSE}, base : Base, prompt : {NoPrompt}]
    \cup [released : {TRUE}, base : Base, prompt : Goal]

KeySet == ({""} \cup STRING) \X (Goal \cup {NoPrompt}) \X Nat

Entry == [key : KeySet, decision : Decision]

TaskOf(c) == DOMAIN Tasks[c]

SeamTypeOK ==
    /\ configured \in BOOLEAN /\ rewriting \in BOOLEAN /\ evicted \in BOOLEAN
    /\ origin \in [Call -> [id : STRING, command : BOOLEAN]]
    /\ \A c \in Call : origin[c] \in Origins[c]
    /\ seam \in [Call -> {"idle", "assert", "request", "check", "dispatched", "blocked",
                          "failed", "raised"}]
    /\ step \in [Call -> {"lookup", "touch", "review", "store", "place", "trim", "pop"}]
    /\ DOMAIN goals = Call /\ \A c \in Call : goals[c] \in [TaskOf(c) -> Goal]
    /\ got \in [Call -> Seq(Decision)] /\ \A c \in Call : Len(got[c]) <= Len(Tasks[c])
    /\ hand \in [Call -> Decision]
    /\ cache \in Seq(Entry)
    /\ DOMAIN reviews = Call /\ \A c \in Call : reviews[c] \in [TaskOf(c) -> Nat]
    /\ DOMAIN rows = Call /\ \A c \in Call : rows[c] \in [TaskOf(c) -> SUBSET Decision]
    /\ DOMAIN erred = Call /\ \A c \in Call : erred[c] \subseteq TaskOf(c)
    /\ robbed \subseteq Call

-----------------------------------------------------------------------------
(* The operators.                                                           *)

\* A call has tasks, and the task that is being decided is one of them.
LEMMA TasksThere ==
  ASSUME NEW c \in Call
  PROVE  /\ Tasks[c] \in Seq([base : Base, dict : BOOLEAN])
         /\ Len(Tasks[c]) \in Nat \ {0} /\ TaskOf(c) = 1..Len(Tasks[c])
         /\ \A i \in TaskOf(c) : Tasks[c][i].base \in Base /\ Tasks[c][i].dict \in BOOLEAN
         /\ c \notin Batch => Len(Tasks[c]) = 1
<1>1. Tasks[c] \in Seq([base : Base, dict : BOOLEAN]) /\ Tasks[c] # <<>>
  BY SeamAssumption
<1>2. Len(Tasks[c]) \in Nat \ {0} /\ TaskOf(c) = 1..Len(Tasks[c])
  BY <1>1 DEF TaskOf
<1>3. \A i \in TaskOf(c) : Tasks[c][i] \in [base : Base, dict : BOOLEAN]
  BY <1>1, <1>2, ElementOfSeq
<1> QED
  BY <1>1, <1>2, <1>3, SeamAssumption

LEMMA TaskInHand ==
  ASSUME SeamTypeOK, NEW c \in Call, Deciding(c)
  PROVE  /\ Index(c) \in TaskOf(c) /\ Index(c) = Len(got[c]) + 1
         /\ goals[c][Index(c)] \in Goal /\ Key(c) \in KeySet
         /\ seam[c] \in {"assert", "request", "check"}
<1>1. Len(got[c]) \in Nat /\ Index(c) = Len(got[c]) + 1
  BY DEF SeamTypeOK, Index
<1>2. Index(c) \in TaskOf(c)
  BY <1>1, TasksThere DEF Deciding
<1>3. goals[c][Index(c)] \in Goal /\ origin[c].id \in STRING
  BY <1>2 DEF SeamTypeOK
<1>4. Key(c) \in KeySet
  <2>1. Id(c) \in {""} \cup STRING
    BY <1>3 DEF Id
  <2>2. (IF Id(c) = "" THEN goals[c][Index(c)] ELSE NoPrompt) \in Goal \cup {NoPrompt}
    BY <1>3
  <2>3. (IF c \in Batch THEN Index(c) ELSE 0) \in Nat
    BY <1>1
  <2> QED
    BY <2>1, <2>2, <2>3 DEF Key, KeySet
<1> QED
  BY <1>1, <1>2, <1>3, <1>4 DEF Deciding

\* What a review may give for a base.
Fits(decision, base) ==
    decision = Held(base) \/ \E directives \in Tightenings : decision = ReleasedWith(base, directives)

LEMMA DecisionsAreTyped ==
  ASSUME NEW base \in Base, NEW decision, Fits(decision, base)
  PROVE  /\ decision \in Decision /\ decision.base = base
         /\ decision.released => decision.prompt \in Goal /\ decision.prompt[1] = base
<1>1. CASE decision = Held(base)
  BY <1>1 DEF Held, Decision
<1>2. ASSUME NEW directives \in Tightenings, decision = ReleasedWith(base, directives)
      PROVE  /\ decision \in Decision /\ decision.base = base
             /\ decision.prompt \in Goal /\ decision.prompt[1] = base
  <2>1. directives \in SUBSET Directive
    BY SeamAssumption
  <2>2. Assemble(base, directives) \in Goal /\ Assemble(base, directives)[1] = base
    BY <2>1 DEF Assemble, Goal
  <2> QED
    BY <1>2, <2>2 DEF ReleasedWith, Decision
<1> QED
  BY <1>1, <1>2 DEF Fits, Held

\* The key is in the cache.
HasKey(k) == \E e \in ToSet(cache) : e.key = k

UniqueKeys == \A i, j \in DOMAIN cache : cache[i].key = cache[j].key => i = j

LEMMA CachedIff ==
  ASSUME NEW k
  PROVE  /\ Cached(k) = {} <=> ~HasKey(k)
         /\ \A e \in Cached(k) : e \in ToSet(cache) /\ e.key = k
  BY DEF Cached, HasKey

\* move_to_end: an entry leaves its place and becomes the last; the others move up.
LEMMA MovedToEnd ==
  ASSUME NEW S, NEW s \in Seq(S), NEW i \in DOMAIN s
  PROVE  LET t == Append(RemoveAt(s, i), s[i]) IN
         /\ t \in Seq(S) /\ Len(t) = Len(s) /\ t[Len(s)] = s[i]
         /\ \A j \in 1..(i - 1) : t[j] = s[j]
         /\ \A j \in i..(Len(s) - 1) : t[j] = s[j + 1]
<1> DEFINE a == SubSeq(s, 1, i - 1)
           b == SubSeq(s, i + 1, Len(s))
<1>1. Len(s) \in Nat /\ i \in 1..Len(s) /\ \A j \in 1..Len(s) : s[j] \in S
  OBVIOUS
<1>2. a \in Seq(S) /\ Len(a) = i - 1 /\ \A j \in 1..(i - 1) : a[j] = s[j]
  BY <1>1
<1>3. /\ b \in Seq(S) /\ Len(b) = Len(s) - i
      /\ \A j \in 1..(Len(s) - i) : b[j] = s[i + j]
  BY <1>1
<1> HIDE DEF a, b
<1> DEFINE r == a \o b
<1>4. r \in Seq(S) /\ Len(r) = Len(s) - 1
  BY <1>1, <1>2, <1>3
<1>5. \A j \in 1..(i - 1) : r[j] = s[j]
  BY <1>1, <1>2, <1>3
<1>6. ASSUME NEW j \in i..(Len(s) - 1) PROVE r[j] = s[j + 1]
  <2>0. j \in Int /\ i \in Int /\ Len(s) \in Int /\ i <= j /\ j <= Len(s) - 1
    BY <1>1
  <2>1. j - (i - 1) \in 1..(Len(s) - i) /\ j \in i..(Len(s) - 1)
        /\ i + (j - (i - 1)) = j + 1
    BY <2>0
  <2>2. j \in (Len(a) + 1)..(Len(a) + Len(b)) /\ j - Len(a) = j - (i - 1)
    BY <1>2, <1>3, <2>0
  <2>3. r[j] = b[j - Len(a)]
    BY <1>2, <1>3, <2>2
  <2> QED
    BY <1>3, <2>1, <2>2, <2>3
<1>7. RemoveAt(s, i) = r
  BY DEF RemoveAt, a, b
<1> HIDE DEF r
<1> QED
  BY <1>1, <1>4, <1>5, <1>6, <1>7

\* What an operation of the cache does to its entries: it may add the one that is being
\* stored, drops none but by popitem, and leaves every key in one place.
CacheMoves(c) ==
    /\ cache' \in Seq(Entry) /\ UniqueKeys'
    /\ \A e \in ToSet(cache') :
          \/ e \in ToSet(cache)
          \/ Store(c) /\ e = [key |-> Key(c), decision |-> hand[c]]
    /\ Pop(c) \/ \A k : HasKey(k) => HasKey(k)'
    /\ Store(c) => \E e \in ToSet(cache') : e.key = Key(c)
    /\ Len(cache') <= Len(cache) \/ (Store(c) /\ Len(cache') <= Len(cache) + 1)

LEMMA CacheStands ==
  ASSUME SeamTypeOK, UniqueKeys, NEW c \in Call, cache' = cache, ~Store(c)
  PROVE  CacheMoves(c)
  BY DEF SeamTypeOK, CacheMoves, UniqueKeys, HasKey

\* Where the j-th of n entries was before the i-th went to the end.
PlaceBefore(n, i, j) == IF j < i THEN j ELSE IF j < n THEN j + 1 ELSE i

LEMMA PlacesInjective ==
  ASSUME NEW n \in Nat, NEW i \in 1..n, NEW j \in 1..n, NEW k \in 1..n,
         PlaceBefore(n, i, j) = PlaceBefore(n, i, k)
  PROVE  j = k
  BY DEF PlaceBefore

LEMMA PlacesOnto ==
  ASSUME NEW n \in Nat, NEW i \in 1..n, NEW k \in 1..n
  PROVE  \E j \in 1..n : PlaceBefore(n, i, j) = k
<1>1. CASE k < i
  BY <1>1 DEF PlaceBefore
<1>2. CASE k = i
  BY <1>2 DEF PlaceBefore
<1>3. CASE k > i
  <2>1. k - 1 \in 1..n /\ PlaceBefore(n, i, k - 1) = k
    BY <1>3 DEF PlaceBefore
  <2> QED
    BY <2>1
<1> QED
  BY <1>1, <1>2, <1>3

LEMMA MoveMoves ==
  ASSUME SeamTypeOK, UniqueKeys, NEW c \in Call, MoveToEnd(c), ~Store(c)
  PROVE  CacheMoves(c)
<1>1. PICK i \in DOMAIN cache : cache' = Append(RemoveAt(cache, i), cache[i])
  BY DEF MoveToEnd
<1>2. cache \in Seq(Entry) /\ Len(cache) \in Nat /\ DOMAIN cache = 1..Len(cache)
      /\ i \in 1..Len(cache)
  BY DEF SeamTypeOK
<1>3. /\ cache' \in Seq(Entry) /\ Len(cache') = Len(cache) /\ cache'[Len(cache)] = cache[i]
      /\ \A j \in 1..(i - 1) : cache'[j] = cache[j]
      /\ \A j \in i..(Len(cache) - 1) : cache'[j] = cache[j + 1]
  BY <1>1, <1>2, MovedToEnd
<1>4. DOMAIN cache' = 1..Len(cache)
  BY <1>2, <1>3
<1> DEFINE from(j) == PlaceBefore(Len(cache), i, j)
<1>5. \A j \in 1..Len(cache) : from(j) \in 1..Len(cache) /\ cache'[j] = cache[from(j)]
  BY <1>2, <1>3 DEF PlaceBefore
<1>6. \A j, k \in 1..Len(cache) : from(j) = from(k) => j = k
  BY <1>2, PlacesInjective
<1>7. \A k \in 1..Len(cache) : \E j \in 1..Len(cache) : from(j) = k
  BY <1>2, PlacesOnto
<1> HIDE DEF from
<1>8. ToSet(cache') = ToSet(cache)
  <2>1. \A j \in 1..Len(cache) : cache'[j] \in ToSet(cache)
    BY <1>2, <1>5 DEF ToSet
  <2>2. ASSUME NEW k \in 1..Len(cache) PROVE cache[k] \in ToSet(cache')
    <3>1. PICK j \in 1..Len(cache) : from(j) = k
      BY <1>7
    <3>2. j \in DOMAIN cache' /\ cache'[j] = cache[k]
      BY <1>4, <1>5, <3>1
    <3> QED
      BY <3>2 DEF ToSet
  <2> QED
    BY <1>2, <1>4, <2>1, <2>2 DEF ToSet
<1>9. UniqueKeys'
  BY <1>2, <1>4, <1>5, <1>6 DEF UniqueKeys
<1> QED
  BY <1>2, <1>3, <1>8, <1>9 DEF CacheMoves, HasKey

LEMMA StoreMoves ==
  ASSUME SeamTypeOK, UniqueKeys, NEW c \in Call, Store(c)
  PROVE  CacheMoves(c)
<1> DEFINE entry == [key |-> Key(c), decision |-> hand[c]]
<1>1. entry \in Entry /\ entry.key = Key(c)
  BY TaskInHand DEF Store, Entry, SeamTypeOK
<1>2. cache \in Seq(Entry) /\ Len(cache) \in Nat /\ DOMAIN cache = 1..Len(cache)
      /\ step[c] = "store"
  BY DEF SeamTypeOK, Store
<1>3. CASE Cached(Key(c)) = {}
  <2>1. cache' = Append(cache, entry)
    BY <1>3 DEF Store
  <2>2. /\ cache' \in Seq(Entry) /\ Len(cache') = Len(cache) + 1
        /\ DOMAIN cache' = 1..(Len(cache) + 1)
        /\ \A j \in 1..Len(cache) : cache'[j] = cache[j]
        /\ cache'[Len(cache) + 1] = entry
    BY <1>1, <1>2, <2>1
  <2>3. ToSet(cache') = ToSet(cache) \cup {entry}
    <3>1. \A j \in 1..(Len(cache) + 1) : j \in 1..Len(cache) \/ j = Len(cache) + 1
      BY <1>2
    <3>2. \A e \in ToSet(cache') : e \in ToSet(cache) \cup {entry}
      BY <1>2, <2>2, <3>1 DEF ToSet
    <3>3. \A e \in ToSet(cache) \cup {entry} : e \in ToSet(cache')
      BY <1>2, <2>2 DEF ToSet
    <3> QED
      BY <3>2, <3>3
  <2>4. \A j \in 1..Len(cache) : cache[j].key # Key(c)
    BY <1>2, <1>3, CachedIff DEF HasKey, ToSet
  <2>5. UniqueKeys'
    BY <1>1, <1>2, <2>2, <2>4 DEF UniqueKeys
  <2> QED
    BY <1>1, <1>2, <2>2, <2>3, <2>5 DEF CacheMoves, HasKey
<1>4. CASE Cached(Key(c)) # {}
  <2>1. cache' = [i \in DOMAIN cache |-> IF cache[i].key = Key(c) THEN entry ELSE cache[i]]
    BY <1>4 DEF Store
  <2>2. /\ DOMAIN cache' = 1..Len(cache)
        /\ \A j \in 1..Len(cache) :
              /\ cache'[j] = IF cache[j].key = Key(c) THEN entry ELSE cache[j]
              /\ cache'[j] \in Entry /\ cache'[j].key = cache[j].key
    BY <1>1, <1>2, <2>1
  <2>3. cache' \in Seq(Entry) /\ Len(cache') = Len(cache)
    BY <1>2, <2>1, <2>2, IsASeq
  <2>4. UniqueKeys'
    BY <1>2, <2>2 DEF UniqueKeys
  <2>5. \A e \in ToSet(cache') : e \in ToSet(cache) \/ e = entry
    BY <1>2, <2>2 DEF ToSet
  <2>6. \A k : HasKey(k) => HasKey(k)'
    BY <1>2, <2>2 DEF HasKey, ToSet
  <2>7. HasKey(Key(c))
    BY <1>4, CachedIff
  <2>8. \E e \in ToSet(cache') : e.key = Key(c)
    BY <1>2, <2>2, <2>7 DEF HasKey, ToSet
  <2> QED
    BY <1>2, <2>3, <2>4, <2>5, <2>6, <2>8 DEF CacheMoves
<1> QED
  BY <1>3, <1>4

LEMMA PopMoves ==
  ASSUME SeamTypeOK, UniqueKeys, NEW c \in Call, Pop(c)
  PROVE  CacheMoves(c) /\ Len(cache') = Len(cache) - 1
<1>1. /\ cache \in Seq(Entry) /\ cache # <<>> /\ cache' = Tail(cache) /\ step[c] = "pop"
      /\ DOMAIN cache = 1..Len(cache) /\ Len(cache) \in Nat
  BY DEF Pop, SeamTypeOK
<1>2. /\ cache' \in Seq(Entry) /\ Len(cache') = Len(cache) - 1
      /\ DOMAIN cache' = 1..(Len(cache) - 1)
      /\ \A j \in 1..(Len(cache) - 1) : cache'[j] = cache[j + 1] /\ j + 1 \in 1..Len(cache)
  BY <1>1
<1>3. UniqueKeys'
  <2> SUFFICES ASSUME NEW j \in DOMAIN cache', NEW k \in DOMAIN cache',
                      cache'[j].key = cache'[k].key
               PROVE  j = k
    BY DEF UniqueKeys
  <2>1. j + 1 = k + 1
    BY <1>1, <1>2 DEF UniqueKeys
  <2> QED
    BY <1>1, <1>2, <2>1
<1>4. \A e \in ToSet(cache') : e \in ToSet(cache)
  BY <1>1, <1>2 DEF ToSet
<1>5. Len(cache') <= Len(cache) /\ ~Store(c)
  BY <1>1, <1>2 DEF Store
<1> QED
  BY <1>2, <1>3, <1>4, <1>5 DEF CacheMoves

-----------------------------------------------------------------------------
(* A step is one thread's, and the places of a thread.                      *)

OthersStand(c) ==
    /\ UNCHANGED <<configured, rewriting, origin>>
    /\ \A d \in Call \ {c} :
          /\ seam'[d] = seam[d] /\ step'[d] = step[d] /\ goals'[d] = goals[d]
          /\ got'[d] = got[d] /\ hand'[d] = hand[d]
          /\ reviews'[d] = reviews[d] /\ rows'[d] = rows[d] /\ erred'[d] = erred[d]

\* The steps of a seam, by what they do to the thread's own variables.
Finishes(c) ==
    \/ BeginRequest(c) \/ BlockUnconfigured(c) \/ CommandFails(c)
    \/ AllowDispatch(c) \/ BlockDispatch(c)

Rewrites(c) == FinishAssert(c) \/ FinishRequest(c)

Reviews(c) ==
    \/ \E directives \in Tightenings : ReviewReleases(c, directives)
    \/ ReviewHolds(c) \/ ReviewRaises(c)

LEMMA StepKinds ==
  ASSUME NEW c \in Call, SeamStep(c)
  PROVE  \/ Finishes(c) \/ Rewrites(c) \/ Reviews(c)
         \/ LookupHit(c) \/ LookupMiss(c) \/ Touch(c) \/ CacheRaises(c)
         \/ Store(c) \/ Place(c) \/ TooMany(c) \/ Pop(c) \/ Trimmed(c)
  BY DEF SeamStep, Finishes, Rewrites, Reviews

\* A row joins those of the task in hand, or none does.
RowsGain(c, gained) ==
    /\ DOMAIN rows' = Call /\ \A d \in Call \ {c} : rows'[d] = rows[d]
    /\ rows'[c] \in [TaskOf(c) -> SUBSET Decision]
    /\ rows'[c][Index(c)] = rows[c][Index(c)] \cup gained
    /\ \A i \in TaskOf(c) \ {Index(c)} : rows'[c][i] = rows[c][i]

LEMMA GainsRow ==
  ASSUME SeamTypeOK, NEW c \in Call, Deciding(c), NEW decision \in Decision,
         rows' = [rows EXCEPT ![c][Index(c)] = @ \cup {decision}]
  PROVE  RowsGain(c, {decision})
<1>1. Index(c) \in TaskOf(c) /\ DOMAIN rows = Call /\ rows[c] \in [TaskOf(c) -> SUBSET Decision]
  BY TaskInHand DEF SeamTypeOK
<1>2. rows' = [rows EXCEPT ![c] = [rows[c] EXCEPT ![Index(c)] = @ \cup {decision}]]
  OBVIOUS
<1>3. /\ DOMAIN rows' = Call /\ \A d \in Call \ {c} : rows'[d] = rows[d]
      /\ rows'[c] = [rows[c] EXCEPT ![Index(c)] = @ \cup {decision}]
  BY <1>1, <1>2
<1> QED
  BY <1>1, <1>3 DEF RowsGain

\* The review gave the decision and its row, or it raised and the task is held.
Ends(c, decision, gained) ==
    \/ gained = {decision} /\ erred' = erred
    \/ ~decision.released /\ erred' = [erred EXCEPT ![c] = @ \cup {Index(c)}]

\* A review gives a decision on the base of the task.
ReviewGives(c, decision, gained) ==
    /\ decision \in Decision /\ Fits(decision, goals[c][Index(c)][1])
    /\ Reviewed(c, decision)
    /\ RowsGain(c, gained) /\ Ends(c, decision, gained)

LEMMA ReviewFits ==
  ASSUME SeamTypeOK, NEW c \in Call, Reviews(c)
  PROVE  /\ Deciding(c) /\ step[c] = "review"
         /\ \E decision, gained : ReviewGives(c, decision, gained)
<1>1. Deciding(c) /\ step[c] = "review"
  BY DEF Reviews, ReviewReleases, ReviewHolds, ReviewRaises, WithRow, Reviewed
<1>2. goals[c][Index(c)] \in Goal /\ goals[c][Index(c)][1] \in Base
  BY <1>1, TaskInHand DEF Goal
<1>3. ASSUME NEW decision, Fits(decision, goals[c][Index(c)][1]), WithRow(c, decision)
      PROVE  ReviewGives(c, decision, {decision})
  <2>1. decision \in Decision
    BY <1>2, <1>3, DecisionsAreTyped
  <2>2. RowsGain(c, {decision})
    BY <1>1, <1>3, <2>1, GainsRow DEF WithRow
  <2> QED
    BY <1>3, <2>1, <2>2 DEF WithRow, ReviewGives, Ends
<1>4. CASE ReviewHolds(c)
  <2>1. PICK decision : decision = Held(goals[c][Index(c)][1])
    OBVIOUS
  <2>2. Fits(decision, goals[c][Index(c)][1]) /\ WithRow(c, decision)
    BY <1>4, <2>1 DEF ReviewHolds, Fits, Extract
  <2> QED
    BY <1>1, <1>3, <2>2
<1>5. ASSUME NEW directives \in Tightenings, ReviewReleases(c, directives)
      PROVE  \E decision, gained : ReviewGives(c, decision, gained)
  <2>1. PICK decision : decision = ReleasedWith(goals[c][Index(c)][1], directives)
    OBVIOUS
  <2>2. Fits(decision, goals[c][Index(c)][1]) /\ WithRow(c, decision)
    BY <1>5, <2>1 DEF ReviewReleases, Fits, Extract
  <2> QED
    BY <1>3, <2>2
<1>6. CASE ReviewRaises(c)
  <2> DEFINE base == goals[c][Index(c)][1]
             decision == Held(base)
  <2>1. decision \in Decision /\ Fits(decision, base) /\ ~decision.released
    BY <1>2, DecisionsAreTyped DEF Fits, Held
  <2>2. /\ Reviewed(c, decision) /\ erred' = [erred EXCEPT ![c] = @ \cup {Index(c)}]
        /\ \/ rows' = rows
           \/ \E left \in Left(base) : rows' = [rows EXCEPT ![c][Index(c)] = @ \cup {left}]
    BY <1>6 DEF ReviewRaises, Extract
  <2>3. \A left \in Left(base) : left \in Decision
    BY <1>2, DecisionsAreTyped DEF Left, Fits
  <2> HIDE DEF decision, base
  <2>4. rows' = rows => RowsGain(c, {})
    BY <1>1, TaskInHand DEF RowsGain, SeamTypeOK
  <2>5. \A left \in Left(base) :
           rows' = [rows EXCEPT ![c][Index(c)] = @ \cup {left}] => RowsGain(c, {left})
    BY <1>1, <2>3, GainsRow
  <2>6. \E gained : RowsGain(c, gained)
    BY <2>2, <2>4, <2>5
  <2> QED
    BY <1>1, <2>1, <2>2, <2>6 DEF ReviewGives, Ends, base
<1> QED
  BY <1>1, <1>4, <1>5, <1>6 DEF Reviews

\* A review that raised is one more of its own call's.
LEMMA ErredGrows ==
  ASSUME SeamTypeOK, NEW c \in Call, Reviews(c)
  PROVE  /\ DOMAIN erred' = Call /\ \A d \in Call \ {c} : erred'[d] = erred[d]
         /\ \A i \in TaskOf(c) \ {Index(c)} : i \in erred'[c] <=> i \in erred[c]
         /\ \A d \in Call : erred'[d] \subseteq TaskOf(d)
         /\ robbed' = robbed /\ step[c] = "review"
<1>1. PICK decision, gained : ReviewGives(c, decision, gained)
  BY ReviewFits
<1>2. erred' = erred \/ erred' = [erred EXCEPT ![c] = @ \cup {Index(c)}]
  BY <1>1 DEF ReviewGives, Ends
<1>3. DOMAIN erred = Call /\ \A d \in Call : erred[d] \subseteq TaskOf(d)
  BY DEF SeamTypeOK
<1>4. Index(c) \in TaskOf(c) /\ robbed' = robbed /\ step[c] = "review"
  BY <1>1, TaskInHand DEF ReviewGives, Reviewed
<1>5. CASE erred' = erred
  BY <1>3, <1>4, <1>5
<1>6. CASE erred' = [erred EXCEPT ![c] = @ \cup {Index(c)}]
  BY <1>3, <1>4, <1>6
<1> QED
  BY <1>2, <1>5, <1>6

LEMMA OnlyItsOwn ==
  ASSUME SeamTypeOK, NEW c \in Call, SeamStep(c)
  PROVE  OthersStand(c)
<1> USE DEF SeamTypeOK, OthersStand
<1>1. CASE Finishes(c)
  BY <1>1 DEF Finishes, BeginRequest, BlockUnconfigured, CommandFails, AllowDispatch,
     BlockDispatch
<1>2. CASE Rewrites(c)
  BY <1>2 DEF Rewrites, FinishAssert, FinishRequest
<1>3. CASE Reviews(c)
  BY <1>3, ReviewFits, ErredGrows DEF ReviewGives, Reviewed, RowsGain
<1>4. CASE LookupHit(c)
  <2>1. PICK e \in Cached(Key(c)) : hand' = [hand EXCEPT ![c] = e.decision]
    BY <1>4 DEF LookupHit
  <2> QED
    BY <1>4, <2>1 DEF LookupHit
<1>7. CASE LookupMiss(c)
  BY <1>7 DEF LookupMiss
<1>5. CASE Touch(c) \/ Trimmed(c)
  BY <1>5 DEF Touch, Trimmed, Collect
<1>6. CASE CacheRaises(c) \/ Store(c) \/ Place(c) \/ TooMany(c) \/ Pop(c)
  BY <1>6 DEF CacheRaises, Store, Place, TooMany, Pop
<1> QED
  BY <1>1, <1>2, <1>3, <1>4, <1>5, <1>6, <1>7, StepKinds

LEMMA EveryCacheMove ==
  ASSUME SeamTypeOK, UniqueKeys, NEW c \in Call, SeamStep(c)
  PROVE  /\ CacheMoves(c)
         /\ evicted' = evicted \/ (evicted' = TRUE /\ TooMany(c))
<1>1. CASE \/ Finishes(c) \/ Rewrites(c) \/ LookupHit(c) \/ LookupMiss(c) \/ Reviews(c)
           \/ CacheRaises(c) \/ TooMany(c) \/ Trimmed(c)
  <2>1. cache' = cache /\ (evicted' = evicted \/ (evicted' = TRUE /\ TooMany(c)))
    BY <1>1, ReviewFits DEF Finishes, BeginRequest, BlockUnconfigured, CommandFails,
       AllowDispatch, BlockDispatch, Rewrites, FinishAssert, FinishRequest, LookupHit,
       LookupMiss, ReviewGives, Reviewed, CacheRaises, TooMany, Trimmed
  <2>2. CASE Store(c)
    BY <2>1, <2>2, StoreMoves DEF Store
  <2>3. CASE ~Store(c)
    BY <2>1, <2>3, CacheStands
  <2> QED
    BY <2>1, <2>2, <2>3
<1>2. CASE Touch(c) \/ Place(c)
  <2>1. MoveToEnd(c) /\ ~Store(c) /\ evicted' = evicted
    BY <1>2 DEF Touch, Place, Store
  <2> QED
    BY <2>1, MoveMoves
<1>3. CASE Store(c)
  BY <1>3, StoreMoves DEF Store
<1>4. CASE Pop(c)
  BY <1>4, PopMoves DEF Pop
<1> QED
  BY <1>1, <1>2, <1>3, <1>4, StepKinds

\* A decision is collected: the next task comes, if there is one.
LEMMA Collected ==
  ASSUME SeamTypeOK, NEW c \in Call, Deciding(c), Collect(c)
  PROVE  /\ got' \in [Call -> Seq(Decision)] /\ Len(got'[c]) = Len(got[c]) + 1
         /\ \A i \in 1..Len(got[c]) : got'[c][i] = got[c][i]
         /\ Index(c) = Len(got[c]) + 1 /\ got'[c][Index(c)] = hand[c]
         /\ hand' \in [Call -> Decision] /\ step'[c] = "lookup"
         /\ Len(got'[c]) <= Len(Tasks[c]) /\ Len(got[c]) \in Nat
<1>1. /\ got \in [Call -> Seq(Decision)] /\ hand \in [Call -> Decision]
      /\ got[c] \in Seq(Decision) /\ hand[c] \in Decision /\ Len(got[c]) \in Nat
  BY DEF SeamTypeOK
<1>2. /\ Append(got[c], hand[c]) \in Seq(Decision)
      /\ Len(Append(got[c], hand[c])) = Len(got[c]) + 1
      /\ \A i \in 1..Len(got[c]) : Append(got[c], hand[c])[i] = got[c][i]
      /\ Append(got[c], hand[c])[Len(got[c]) + 1] = hand[c]
  BY <1>1, AppendProperties
<1>3. got'[c] = Append(got[c], hand[c]) /\ got' \in [Call -> Seq(Decision)]
  BY <1>1, <1>2 DEF Collect
<1>4. Held(Tasks[c][1].base) \in Decision
  BY TasksThere, DecisionsAreTyped DEF Fits
<1>5. hand' \in [Call -> Decision] /\ step'[c] = "lookup"
  BY <1>1, <1>4 DEF Collect, SeamTypeOK
<1>6. Index(c) = Len(got[c]) + 1 /\ Len(got[c]) + 1 <= Len(Tasks[c])
  BY <1>1, TaskInHand DEF Deciding
<1> QED
  BY <1>1, <1>2, <1>3, <1>5, <1>6

\* The goals are rewritten: each released dict task's, to the prompt it was released with.
LEMMA RewrittenGoals ==
  ASSUME SeamTypeOK, NEW c \in Call, Decided(c)
  PROVE  /\ Rewritten(c) \in [TaskOf(c) -> Goal] /\ DOMAIN got[c] = TaskOf(c)
         /\ \A i \in TaskOf(c) :
               /\ got[c][i] \in Decision
               /\ Rewritten(c)[i] = IF Tasks[c][i].dict /\ got[c][i].released
                                    THEN got[c][i].prompt ELSE goals[c][i]
<1>1. got[c] \in Seq(Decision) /\ DOMAIN got[c] = TaskOf(c)
  BY TasksThere DEF SeamTypeOK, Decided
<1>2. \A i \in TaskOf(c) : got[c][i] \in Decision /\ goals[c][i] \in Goal
  BY <1>1 DEF SeamTypeOK
<1>3. \A i \in TaskOf(c) : got[c][i].released => got[c][i].prompt \in Goal
  BY <1>2 DEF Decision
<1>4. \A i \in TaskOf(c) :
         (IF Tasks[c][i].dict /\ got[c][i].released THEN got[c][i].prompt ELSE goals[c][i])
            \in Goal
  BY <1>2, <1>3
<1> QED
  BY <1>1, <1>2, <1>4 DEF Rewritten, TaskOf

LEMMA StepTypes ==
  ASSUME SeamTypeOK, UniqueKeys, NEW c \in Call, SeamStep(c)
  PROVE  SeamTypeOK'
<1>1. /\ cache' \in Seq(Entry) /\ evicted' \in BOOLEAN
      /\ UNCHANGED <<configured, rewriting, origin>>
  BY OnlyItsOwn, EveryCacheMove DEF CacheMoves, OthersStand, SeamTypeOK
<1>2. ASSUME got' = [got EXCEPT ![c] = <<>>]
      PROVE  got' \in [Call -> Seq(Decision)] /\ \A d \in Call : Len(got'[d]) <= Len(Tasks[d])
  <2>1. <<>> \in Seq(Decision) /\ Len(<<>>) = 0 /\ Len(Tasks[c]) \in Nat
    BY TasksThere
  <2> QED
    BY <1>2, <2>1 DEF SeamTypeOK
<1>3. CASE Finishes(c)
  <2>1. seam' \in [Call -> {"idle", "assert", "request", "check", "dispatched", "blocked",
                            "failed", "raised"}]
    BY <1>3 DEF SeamTypeOK, Finishes, BeginRequest, BlockUnconfigured, CommandFails,
       AllowDispatch, BlockDispatch, FirstSeam
  <2>2. /\ got' = got \/ got' = [got EXCEPT ![c] = <<>>]
        /\ UNCHANGED <<step, goals, hand, reviews, rows, erred, robbed>>
    BY <1>3 DEF Finishes, BeginRequest, BlockUnconfigured, CommandFails, AllowDispatch,
       BlockDispatch
  <2>3. got' \in [Call -> Seq(Decision)] /\ \A d \in Call : Len(got'[d]) <= Len(Tasks[d])
    BY <1>2, <2>2 DEF SeamTypeOK
  <2> QED
    BY <1>1, <2>1, <2>2, <2>3 DEF SeamTypeOK
<1>4. CASE Rewrites(c)
  <2>1. Decided(c) /\ goals' = [goals EXCEPT ![c] = Rewritten(c)]
    BY <1>4 DEF Rewrites, FinishAssert, FinishRequest
  <2>2. Rewritten(c) \in [TaskOf(c) -> Goal]
    BY <2>1, RewrittenGoals
  <2>3. DOMAIN goals' = Call /\ \A d \in Call : goals'[d] \in [TaskOf(d) -> Goal]
    BY <2>1, <2>2 DEF SeamTypeOK
  <2>4. seam' \in [Call -> {"idle", "assert", "request", "check", "dispatched", "blocked",
                            "failed", "raised"}]
    BY <1>4 DEF SeamTypeOK, Rewrites, FinishAssert, FinishRequest, FirstSeam
  <2>5. got' = [got EXCEPT ![c] = <<>>] /\ UNCHANGED <<step, hand, reviews, rows, erred, robbed>>
    BY <1>4 DEF Rewrites, FinishAssert, FinishRequest
  <2> QED
    BY <1>1, <1>2, <2>3, <2>4, <2>5 DEF SeamTypeOK
<1>5. CASE Reviews(c)
  <2>1. PICK decision, gained : ReviewGives(c, decision, gained)
    BY <1>5, ReviewFits
  <2>2. DOMAIN rows' = Call /\ \A d \in Call : rows'[d] \in [TaskOf(d) -> SUBSET Decision]
    BY <2>1 DEF ReviewGives, RowsGain, SeamTypeOK
  <2>4. DOMAIN erred' = Call /\ (\A d \in Call : erred'[d] \subseteq TaskOf(d)) /\ robbed' = robbed
    BY <1>5, ErredGrows
  <2> QED
    BY <1>1, <2>1, <2>2, <2>4 DEF SeamTypeOK, ReviewGives, Reviewed
<1>6. CASE LookupHit(c)
  <2>1. PICK e \in Cached(Key(c)) : hand' = [hand EXCEPT ![c] = e.decision]
    BY <1>6 DEF LookupHit
  <2>2. e \in Entry
    BY DEF Cached, ToSet, SeamTypeOK
  <2>3. hand' \in [Call -> Decision]
    BY <2>1, <2>2 DEF SeamTypeOK, Entry
  <2> QED
    BY <1>1, <1>6, <2>3 DEF SeamTypeOK, LookupHit
<1>7. CASE LookupMiss(c)
  <2>1. Index(c) \in TaskOf(c) /\ reviews[c] \in [TaskOf(c) -> Nat]
    BY <1>7, TaskInHand DEF LookupMiss, SeamTypeOK
  <2>2. reviews' = [reviews EXCEPT ![c] = [reviews[c] EXCEPT ![Index(c)] = @ + 1]]
    BY <1>7 DEF LookupMiss
  <2>3. [reviews[c] EXCEPT ![Index(c)] = @ + 1] \in [TaskOf(c) -> Nat]
    BY <2>1
  <2>4. DOMAIN reviews' = Call /\ \A d \in Call : reviews'[d] \in [TaskOf(d) -> Nat]
    BY <2>2, <2>3 DEF SeamTypeOK
  <2> QED
    BY <1>1, <1>7, <2>4 DEF SeamTypeOK, LookupMiss
<1>8. CASE Touch(c) \/ Trimmed(c)
  <2>1. Deciding(c) /\ Collect(c)
    BY <1>8 DEF Touch, Trimmed
  <2>2. \A d \in Call : Len(got'[d]) <= Len(Tasks[d])
    BY <2>1, Collected DEF SeamTypeOK, Collect
  <2>3. got' \in [Call -> Seq(Decision)] /\ hand' \in [Call -> Decision]
    BY <2>1, Collected
  <2> QED
    BY <1>1, <1>8, <2>1, <2>2, <2>3 DEF SeamTypeOK, Touch, Trimmed, Collect
<1>9. CASE CacheRaises(c) \/ Store(c) \/ Place(c) \/ TooMany(c) \/ Pop(c)
  <2>1. robbed' \subseteq Call
    BY <1>9 DEF SeamTypeOK, CacheRaises, Store, Place, TooMany, Pop, Between
  <2> QED
    BY <1>1, <1>9, <2>1 DEF SeamTypeOK, CacheRaises, Store, Place, TooMany, Pop
<1> QED
  BY <1>3, <1>4, <1>5, <1>6, <1>7, <1>8, <1>9, StepKinds

-----------------------------------------------------------------------------
(* The inductive invariant, layer by layer.                                 *)

\* The places of a thread: between two cache operations it is deciding a task, unless
\* the operation raised; only the command comes to assert_release; and a dispatched
\* call had each of its tasks released.
Placed(c) ==
    /\ step[c] # "lookup" => Deciding(c) \/ seam[c] = "raised"
    /\ seam[c] = "idle" => got[c] = <<>>
    /\ seam[c] = "assert" => origin[c].command
    /\ seam[c] = "dispatched" => Decided(c) /\ AllReleased(c)

\* The key of a task of a call with an id, at either seam.
OwnKey(c, i) == <<origin[c].id, NoPrompt, IF c \in Batch THEN i ELSE 0>>

\* An entry under a goal's hash, or under a task's own key, is a decision on that
\* goal's base, or on that task's.
Sound(e) ==
    /\ e.key[1] = "" => Fits(e.decision, e.key[2][1])
    /\ \A c \in Call : \A i \in TaskOf(c) :
           origin[c].id # "" /\ e.key = OwnKey(c, i) => Fits(e.decision, Tasks[c][i].base)

InHand(c) == Deciding(c) /\ step[c] \in {"store", "touch", "place", "trim", "pop"}

\* A goal keeps its base, and the decisions of a thread are about its tasks.
OwnDecisions(c) ==
    /\ \A i \in TaskOf(c) : goals[c][i][1] = Tasks[c][i].base
    /\ InHand(c) => Fits(hand[c], Tasks[c][Index(c)].base)
    /\ \A i \in DOMAIN got[c] : Fits(got[c][i], Tasks[c][i].base)

Bounded ==
    /\ UniqueKeys
    /\ IsFiniteSet(Storing)
    /\ Len(cache) <= CacheSize + Cardinality(Storing)

\* Until something is evicted, an entry that a thread found or stored is there.
Kept(c) ==
    /\ step[c] = "pop" => evicted
    /\ seam[c] = "raised" => evicted
    /\ ~evicted /\ Deciding(c) /\ step[c] \in {"touch", "place", "trim"} => HasKey(Key(c))

\* Between its operations on the cache a thread finds what it read or stored, and an
\* entry to pop, unless another one evicted something since.
Unrobbed(c) ==
    /\ c \notin robbed /\ Deciding(c) /\ step[c] \in {"touch", "place"} => HasKey(Key(c))
    /\ c \notin robbed /\ Deciding(c) /\ step[c] = "pop" => \E k : HasKey(k)
    /\ seam[c] = "raised" => c \in robbed

\* The rows of a task on which a review gave this decision, or raised.
RowsTell(found, raised, decision) ==
    IF raised THEN ~decision.released ELSE found = {decision}

UnderReview(c, i) == Deciding(c) /\ Index(c) = i /\ step[c] \in {"review", "store"}

\* What is known of a task of a tracked call: at most one review, whose decision is in
\* the cache once it is stored and is the one in every place that reads it, with the
\* one row the review left, or held when it raised; and after the seam that rewrites,
\* the goal that the row of a review that did not raise shows.
TaskTraced(c, i) ==
    /\ reviews[c][i] <= 1
    /\ reviews[c][i] = 0 => rows[c][i] = {} /\ i \notin erred[c]
    /\ reviews[c][i] = 1 => HasKey(OwnKey(c, i)) \/ UnderReview(c, i)
    /\ UnderReview(c, i) =>
           /\ reviews[c][i] = 1 /\ ~HasKey(OwnKey(c, i))
           /\ step[c] = "review" => rows[c][i] = {} /\ i \notin erred[c]
    /\ \A e \in ToSet(cache) :
           e.key = OwnKey(c, i) => RowsTell(rows[c][i], i \in erred[c], e.decision)
    /\ InHand(c) /\ Index(c) = i => RowsTell(rows[c][i], i \in erred[c], hand[c])
    /\ i \in DOMAIN got[c] =>
           HasKey(OwnKey(c, i)) /\ RowsTell(rows[c][i], i \in erred[c], got[c][i])
    /\ rewriting /\ seam[c] \in {"check", "dispatched"} =>
           /\ HasKey(OwnKey(c, i))
           /\ Tasks[c][i].dict /\ i \notin erred[c] =>
                  \A row \in rows[c][i] : row.released => goals[c][i] = row.prompt

Traced(c) ==
    /\ \A i \in TaskOf(c) : TaskTraced(c, i)
    /\ configured /\ seam[c] = "blocked" /\ erred[c] = {} =>
           \E i \in TaskOf(c) : \A row \in rows[c][i] : ~row.released

SeamInv ==
    /\ SeamTypeOK
    /\ \A c \in Call : Placed(c)
    /\ \A e \in ToSet(cache) : Sound(e)
    /\ \A c \in Call : OwnDecisions(c)
    /\ Bounded
    /\ \A c \in Call : Kept(c) /\ Unrobbed(c)
    /\ \A c \in Call : Tracked(c) => Traced(c)

-----------------------------------------------------------------------------
(* Every step keeps the invariant.                                          *)

\* What another thread's step leaves of the state that a thread reads.
LEMMA OthersKeepPlace ==
  ASSUME NEW c \in Call, OthersStand(c), NEW d \in Call \ {c}
  PROVE  /\ Index(d)' = Index(d) /\ Key(d)' = Key(d) /\ Deciding(d)' = Deciding(d)
         /\ InHand(d)' = InHand(d) /\ Decided(d)' = Decided(d)
         /\ Placed(d)' = Placed(d)
         /\ \A i : OwnKey(d, i)' = OwnKey(d, i) /\ UnderReview(d, i)' = UnderReview(d, i)
<1>1. /\ seam'[d] = seam[d] /\ step'[d] = step[d] /\ goals'[d] = goals[d]
      /\ got'[d] = got[d] /\ origin' = origin /\ rewriting' = rewriting
  BY DEF OthersStand
<1>2. Index(d)' = Index(d) /\ Decided(d)' = Decided(d)
  BY <1>1 DEF Index, Decided
<1>3. Key(d)' = Key(d) /\ Deciding(d)' = Deciding(d)
  BY <1>1, <1>2 DEF Key, Id, Deciding
<1>4. /\ Placed(d)' = Placed(d) /\ InHand(d)' = InHand(d)
      /\ \A i : OwnKey(d, i)' = OwnKey(d, i) /\ UnderReview(d, i)' = UnderReview(d, i)
  BY <1>1, <1>2, <1>3 DEF Placed, InHand, OwnKey, UnderReview, AllReleased
<1> QED
  BY <1>2, <1>3, <1>4

\* A seam ends only between two decisions.
LEMMA SeamsEndBetween ==
  ASSUME SeamTypeOK, NEW c \in Call, Placed(c), Finishes(c) \/ Rewrites(c)
  PROVE  step[c] = "lookup" /\ ~Deciding(c)
<1>1. \/ seam[c] = "idle"
      \/ seam[c] \in {"assert", "request", "check"} /\ Decided(c)
  BY DEF Finishes, Rewrites, BeginRequest, BlockUnconfigured, CommandFails, AllowDispatch,
     BlockDispatch, FinishAssert, FinishRequest
<1>2. ~Deciding(c)
  <2>1. Len(got[c]) \in Nat /\ Len(Tasks[c]) \in Nat
    BY TasksThere DEF SeamTypeOK
  <2> QED
    BY <1>1, <2>1 DEF Deciding, Decided, Index
<1> QED
  BY <1>1, <1>2 DEF Placed

LEMMA StepPlaces ==
  ASSUME SeamTypeOK, NEW c \in Call, Placed(c), SeamStep(c)
  PROVE  Placed(c)'
<1>1. UNCHANGED <<origin, rewriting>>
  BY OnlyItsOwn DEF OthersStand
<1>2. CASE Finishes(c) \/ Rewrites(c)
  <2>1. step[c] = "lookup" /\ step' = step
    BY <1>2, SeamsEndBetween DEF Finishes, BeginRequest, BlockUnconfigured, CommandFails,
       AllowDispatch, BlockDispatch, Rewrites, FinishAssert, FinishRequest
  <2>2. seam'[c] # "idle" /\ (seam'[c] = "assert" => origin[c].command)
    BY <1>2 DEF SeamTypeOK, Finishes, BeginRequest, BlockUnconfigured, CommandFails,
       AllowDispatch, BlockDispatch, Rewrites, FinishAssert, FinishRequest, FirstSeam
  <2>3. seam'[c] = "dispatched" => (Decided(c) /\ AllReleased(c))'
    BY <1>2 DEF SeamTypeOK, Finishes, BeginRequest, BlockUnconfigured, CommandFails,
       AllowDispatch, BlockDispatch, Rewrites, FinishAssert, FinishRequest, FirstSeam,
       Decided, AllReleased
  <2> QED
    BY <1>1, <2>1, <2>2, <2>3 DEF Placed
<1>3. CASE CacheRaises(c)
  BY <1>3 DEF CacheRaises, SeamTypeOK, Placed
<1>4. CASE Touch(c) \/ Trimmed(c)
  <2>1. Deciding(c) /\ Collect(c) /\ seam' = seam
    BY <1>4 DEF Touch, Trimmed
  <2>2. step'[c] = "lookup"
    BY <2>1, Collected
  <2> QED
    BY <1>1, <2>1, <2>2 DEF Placed, Deciding
<1>5. CASE \/ Reviews(c) \/ LookupHit(c) \/ LookupMiss(c)
           \/ Store(c) \/ Place(c) \/ TooMany(c) \/ Pop(c)
  <2>1. Deciding(c) /\ UNCHANGED <<seam, got>>
    BY <1>5, ReviewFits DEF ReviewGives, Reviewed, LookupHit, LookupMiss, Store, Place,
       TooMany, Pop
  <2> QED
    BY <1>1, <2>1 DEF Placed, Deciding, Index
<1> QED
  BY <1>2, <1>3, <1>4, <1>5, StepKinds

\* The key of the task in hand, and which tasks' own key it can be.
LEMMA KeyOfTask ==
  ASSUME SeamTypeOK, NEW c \in Call, Deciding(c)
  PROVE  /\ Key(c)[1] = "" => Key(c)[2] = goals[c][Index(c)]
         /\ Key(c)[1] # "" => origin[c].id # "" /\ Key(c) = OwnKey(c, Index(c))
         /\ origin[c].id # "" /\ seam[c] # "assert" => Key(c) = OwnKey(c, Index(c))
  BY DEF Key, Id, OwnKey

LEMMA OneTask ==
  ASSUME NEW c \in Call \ Batch, NEW i \in TaskOf(c)
  PROVE  i = 1
<1>1. TaskOf(c) = 1..Len(Tasks[c]) /\ Len(Tasks[c]) = 1
  BY TasksThere
<1> QED
  BY <1>1

LEMMA KeyParts ==
  ASSUME NEW c
  PROVE  Key(c)[1] = Id(c) /\ (c \in Batch => Key(c)[3] = Index(c))
  BY DEF Key

LEMMA OwnKeyParts ==
  ASSUME NEW c, NEW i
  PROVE  OwnKey(c, i)[1] = origin[c].id /\ (c \in Batch => OwnKey(c, i)[3] = i)
  BY DEF OwnKey

LEMMA KeyDetermines ==
  ASSUME SeamTypeOK, NEW c \in Call, Deciding(c), NEW d \in Call, NEW j \in TaskOf(d),
         origin[d].id # "", Key(c) = OwnKey(d, j)
  PROVE  c = d /\ j = Index(c)
<1>1. /\ Id(c) = origin[d].id
      /\ c \in Batch /\ d \in Batch => Index(c) = j
  <2>1. Key(c)[1] = Id(c) /\ (c \in Batch => Key(c)[3] = Index(c))
    BY KeyParts
  <2>2. OwnKey(d, j)[1] = origin[d].id /\ (d \in Batch => OwnKey(d, j)[3] = j)
    BY OwnKeyParts
  <2> QED
    BY <2>1, <2>2
<1>2. origin[c].id = origin[d].id
  BY <1>1 DEF Id
<1>3. origin[c] \in Origins[c] /\ origin[d] \in Origins[d]
  BY DEF SeamTypeOK
<1>4. c = d
  BY <1>2, <1>3, SeamAssumption
<1>5. CASE c \in Batch
  BY <1>1, <1>4, <1>5
<1>6. CASE c \notin Batch
  <2>1. Index(c) \in TaskOf(c) /\ j \in TaskOf(c)
    BY <1>4, TaskInHand
  <2>2. Index(c) = 1 /\ j = 1
    BY <1>6, <2>1, OneTask
  <2> QED
    BY <1>4, <2>2
<1> QED
  BY <1>4, <1>5, <1>6

\* Distinct tasks of a call have distinct keys.
LEMMA KeysDiffer ==
  ASSUME NEW c \in Call, NEW i \in TaskOf(c), NEW j \in TaskOf(c),
         OwnKey(c, i) = OwnKey(c, j)
  PROVE  i = j
<1>1. CASE c \in Batch
  BY <1>1, OwnKeyParts
<1>2. CASE c \notin Batch
  BY <1>2, TasksThere
<1> QED
  BY <1>1, <1>2

LEMMA HitFits ==
  ASSUME SeamTypeOK, NEW c \in Call, Deciding(c), OwnDecisions(c),
         NEW e, Sound(e), e.key = Key(c)
  PROVE  Fits(e.decision, Tasks[c][Index(c)].base)
<1>1. Index(c) \in TaskOf(c) /\ goals[c][Index(c)][1] = Tasks[c][Index(c)].base
  BY TaskInHand DEF OwnDecisions
<1>2. CASE Key(c)[1] = ""
  <2>1. Fits(e.decision, goals[c][Index(c)][1])
    BY <1>2, KeyOfTask DEF Sound
  <2> QED
    BY <1>1, <2>1
<1>3. CASE Key(c)[1] # ""
  <2>1. origin[c].id # "" /\ e.key = OwnKey(c, Index(c))
    BY <1>3, KeyOfTask
  <2> QED
    BY <1>1, <2>1 DEF Sound
<1> QED
  BY <1>2, <1>3

LEMMA StoredSound ==
  ASSUME SeamTypeOK, NEW c \in Call, InHand(c), OwnDecisions(c)
  PROVE  Sound([key |-> Key(c), decision |-> hand[c]])
<1> DEFINE e == [key |-> Key(c), decision |-> hand[c]]
<1>1. /\ Deciding(c) /\ Index(c) \in TaskOf(c) /\ Fits(hand[c], Tasks[c][Index(c)].base)
      /\ goals[c][Index(c)][1] = Tasks[c][Index(c)].base
  BY TaskInHand DEF InHand, OwnDecisions
<1>2. e.key = Key(c) /\ e.decision = hand[c]
  OBVIOUS
<1> HIDE DEF e
<1>3. e.key[1] = "" => Fits(e.decision, e.key[2][1])
  BY <1>1, <1>2, KeyOfTask
<1>4. ASSUME NEW d \in Call, NEW i \in TaskOf(d), origin[d].id # "", e.key = OwnKey(d, i)
      PROVE  Fits(e.decision, Tasks[d][i].base)
  <2>1. c = d /\ i = Index(c)
    BY <1>1, <1>2, <1>4, KeyDetermines
  <2> QED
    BY <1>1, <1>2, <2>1
<1>5. Sound(e)
  BY <1>3, <1>4 DEF Sound
<1> QED
  BY <1>5 DEF e

LEMMA StepSound ==
  ASSUME SeamTypeOK, UniqueKeys, NEW c \in Call, SeamStep(c), OwnDecisions(c),
         \A e \in ToSet(cache) : Sound(e)
  PROVE  (\A e \in ToSet(cache) : Sound(e))'
<1>1. CacheMoves(c) /\ origin' = origin
  BY EveryCacheMove, OnlyItsOwn DEF OthersStand
<1>2. ASSUME NEW e, Sound(e) PROVE Sound(e)'
  BY <1>1, <1>2 DEF Sound, OwnKey
<1>3. CASE ~Store(c)
  BY <1>1, <1>2, <1>3 DEF CacheMoves
<1>4. CASE Store(c)
  <2>1. Sound([key |-> Key(c), decision |-> hand[c]])
    BY <1>4, StoredSound DEF Store, InHand
  <2>2. ASSUME NEW e \in ToSet(cache') PROVE Sound(e)
    BY <1>1, <2>1, <2>2 DEF CacheMoves
  <2> QED
    BY <1>2, <2>2
<1> QED
  BY <1>3, <1>4

LEMMA StepOwns ==
  ASSUME SeamTypeOK, SeamTypeOK', NEW c \in Call, Placed(c), SeamStep(c), OwnDecisions(c),
         \A e \in ToSet(cache) : Sound(e)
  PROVE  OwnDecisions(c)'
<1>1. CASE Finishes(c)
  <2>1. step[c] = "lookup" /\ step' = step /\ goals' = goals
        /\ (got'[c] = got[c] \/ got'[c] = <<>>)
    BY <1>1, SeamsEndBetween DEF SeamTypeOK, Finishes, BeginRequest, BlockUnconfigured,
       CommandFails, AllowDispatch, BlockDispatch
  <2> QED
    BY <2>1 DEF OwnDecisions, InHand
<1>2. CASE Rewrites(c)
  <2>1. step[c] = "lookup" /\ step' = step /\ Decided(c)
        /\ got'[c] = <<>> /\ goals'[c] = Rewritten(c)
    BY <1>2, SeamsEndBetween DEF SeamTypeOK, Rewrites, FinishAssert, FinishRequest
  <2>2. ASSUME NEW i \in TaskOf(c) PROVE goals'[c][i][1] = Tasks[c][i].base
    <3>1. /\ i \in DOMAIN got[c] /\ Tasks[c][i].base \in Base
          /\ goals'[c][i] = IF Tasks[c][i].dict /\ got[c][i].released
                            THEN got[c][i].prompt ELSE goals[c][i]
      BY <2>1, RewrittenGoals, TasksThere
    <3>2. Fits(got[c][i], Tasks[c][i].base)
      BY <3>1 DEF OwnDecisions
    <3>3. got[c][i].released => got[c][i].prompt[1] = Tasks[c][i].base
      BY <3>1, <3>2, DecisionsAreTyped
    <3> QED
      BY <3>1, <3>3 DEF OwnDecisions
  <2> QED
    BY <2>1, <2>2 DEF OwnDecisions, InHand
<1>3. CASE Reviews(c)
  <2>1. PICK decision, gained : ReviewGives(c, decision, gained)
    BY <1>3, ReviewFits
  <2>2. Index(c) \in TaskOf(c) /\ Index(c)' = Index(c) /\ hand'[c] = decision
        /\ goals' = goals /\ got' = got
    BY <2>1, TaskInHand DEF ReviewGives, Reviewed, SeamTypeOK, Index
  <2>3. Fits(decision, Tasks[c][Index(c)].base)
    BY <2>1, <2>2 DEF ReviewGives, OwnDecisions
  <2> QED
    BY <2>2, <2>3 DEF OwnDecisions
<1>4. CASE LookupHit(c)
  <2>1. PICK e \in Cached(Key(c)) : hand' = [hand EXCEPT ![c] = e.decision]
    BY <1>4 DEF LookupHit
  <2>2. Fits(e.decision, Tasks[c][Index(c)].base)
    BY <1>4, HitFits, CachedIff DEF LookupHit
  <2>3. hand'[c] = e.decision /\ goals' = goals /\ got' = got /\ Index(c)' = Index(c)
    BY <1>4, <2>1 DEF LookupHit, SeamTypeOK, Index
  <2> QED
    BY <2>2, <2>3 DEF OwnDecisions
<1>5. CASE LookupMiss(c) \/ CacheRaises(c)
  <2>1. ~InHand(c)' /\ goals' = goals /\ got' = got
    BY <1>5 DEF LookupMiss, CacheRaises, InHand, Deciding, SeamTypeOK
  <2> QED
    BY <2>1 DEF OwnDecisions
<1>6. CASE Touch(c) \/ Trimmed(c)
  <2>1. InHand(c) /\ Deciding(c) /\ Collect(c) /\ goals' = goals
    BY <1>6 DEF Touch, Trimmed, InHand
  <2>2. /\ step'[c] = "lookup" /\ Len(got'[c]) = Len(got[c]) + 1 /\ Len(got[c]) \in Nat
        /\ \A i \in 1..Len(got[c]) : got'[c][i] = got[c][i]
        /\ Index(c) = Len(got[c]) + 1 /\ got'[c][Index(c)] = hand[c]
    BY <2>1, Collected
  <2>3. DOMAIN got[c] = 1..Len(got[c]) /\ DOMAIN got'[c] = 1..Len(got'[c])
    BY DEF SeamTypeOK
  <2>4. ASSUME NEW i \in DOMAIN got'[c] PROVE Fits(got'[c][i], Tasks[c][i].base)
    <3>1. i \in DOMAIN got[c] \/ i = Index(c)
      BY <2>2, <2>3
    <3> QED
      BY <2>1, <2>2, <2>3, <3>1 DEF OwnDecisions
  <2> QED
    BY <2>1, <2>2, <2>4 DEF OwnDecisions, InHand
<1>7. CASE Store(c) \/ Place(c) \/ TooMany(c) \/ Pop(c)
  <2>1. InHand(c) /\ goals' = goals /\ got' = got /\ hand' = hand /\ Index(c)' = Index(c)
    BY <1>7 DEF Store, Place, TooMany, Pop, InHand, Index
  <2> QED
    BY <2>1 DEF OwnDecisions
<1> QED
  BY <1>1, <1>2, <1>3, <1>4, <1>5, <1>6, <1>7, StepKinds

LEMMA OthersOwn ==
  ASSUME NEW c \in Call, OthersStand(c), NEW d \in Call \ {c}, OwnDecisions(d)
  PROVE  OwnDecisions(d)'
  BY OthersKeepPlace DEF OthersStand, OwnDecisions

\* A thread that stores adds one entry at most, and is counted until the cache is trimmed.
LEMMA StepBounded ==
  ASSUME SeamTypeOK, SeamTypeOK', NEW c \in Call, SeamStep(c), Bounded
  PROVE  Bounded'
<1> DEFINE Adding == {"place", "trim", "pop"}
<1>1. UniqueKeys' /\ (Len(cache') <= Len(cache) \/ (Store(c) /\ Len(cache') <= Len(cache) + 1))
  BY EveryCacheMove DEF Bounded, CacheMoves
<1>2. \A d \in Call \ {c} : step'[d] = step[d]
  BY OnlyItsOwn DEF Bounded, OthersStand
<1>3. /\ IsFiniteSet(Storing) /\ Cardinality(Storing) \in Nat /\ CacheSize \in Nat
      /\ Len(cache) \in Nat /\ Len(cache') \in Nat
      /\ Len(cache) <= CacheSize + Cardinality(Storing)
  <2>1. IsFiniteSet(Storing) /\ Len(cache) <= CacheSize + Cardinality(Storing)
    BY DEF Bounded
  <2>2. cache \in Seq(Entry) /\ cache' \in Seq(Entry)
    BY DEF SeamTypeOK
  <2>3. Len(cache) \in Nat /\ Len(cache') \in Nat
    BY <2>2
  <2> QED
    BY <2>1, <2>3, FS_CardinalityType, SeamAssumption
<1>4. CASE Store(c)
  <2>1. step[c] = "store" /\ step'[c] = "place"
    BY <1>4 DEF Store, SeamTypeOK
  <2>2. Storing' = Storing \cup {c} /\ c \notin Storing
    BY <1>2, <2>1 DEF Storing
  <2>3. IsFiniteSet(Storing') /\ Cardinality(Storing') = Cardinality(Storing) + 1
    BY <1>3, <2>2, FS_AddElement
  <2> QED
    BY <1>1, <1>3, <2>3 DEF Bounded
<1>5. CASE Trimmed(c)
  <2>1. step'[c] = "lookup" /\ Len(cache) <= CacheSize /\ cache' = cache
    BY <1>5, Collected DEF Trimmed
  <2>2. Storing' = Storing \ {c}
    BY <1>2, <2>1 DEF Storing
  <2>3. IsFiniteSet(Storing') /\ Cardinality(Storing') \in Nat
    BY <1>3, <2>2, FS_RemoveElement, FS_CardinalityType
  <2> QED
    BY <1>1, <1>3, <2>1, <2>3 DEF Bounded
<1>6. CASE ~Store(c) /\ ~Trimmed(c)
  <2>1. step'[c] \in Adding <=> step[c] \in Adding
    <3>1. \/ step' = step
          \/ step[c] \notin Adding /\ step'[c] \notin Adding
          \/ step[c] \in Adding /\ step'[c] \in Adding
      <4>1. CASE Finishes(c) \/ Rewrites(c) \/ CacheRaises(c)
        BY <4>1 DEF Finishes, BeginRequest, BlockUnconfigured, CommandFails,
           AllowDispatch, BlockDispatch, Rewrites, FinishAssert, FinishRequest, CacheRaises
      <4>2. CASE Reviews(c)
        BY <4>2, ReviewFits DEF ReviewGives, Reviewed, SeamTypeOK
      <4>3. CASE LookupHit(c) \/ LookupMiss(c)
        BY <4>3 DEF LookupHit, LookupMiss, SeamTypeOK
      <4>4. CASE Touch(c)
        BY <4>4, Collected DEF Touch
      <4>5. CASE Place(c) \/ TooMany(c) \/ Pop(c)
        BY <4>5 DEF Place, TooMany, Pop, SeamTypeOK
      <4> QED
        BY <1>6, <4>1, <4>2, <4>3, <4>4, <4>5, StepKinds
    <3> QED
      BY <3>1
  <2>2. Storing' = Storing
    BY <1>2, <2>1 DEF Storing
  <2> QED
    BY <1>1, <1>3, <1>6, <2>2 DEF Bounded
<1> QED
  BY <1>4, <1>5, <1>6

\* Nothing leaves the cache but by popitem, which comes after an overflow was seen.
LEMMA KeysStay ==
  ASSUME SeamTypeOK, UniqueKeys, NEW c \in Call, Kept(c), SeamStep(c), ~evicted'
  PROVE  ~evicted /\ ~Pop(c) /\ \A k : HasKey(k) => HasKey(k)'
<1>1. ~evicted
  BY EveryCacheMove
<1>2. ~Pop(c)
  BY <1>1 DEF Kept, Pop
<1> QED
  BY <1>1, <1>2, EveryCacheMove DEF CacheMoves

LEMMA StepKeeps ==
  ASSUME SeamTypeOK, SeamTypeOK', UniqueKeys, NEW c \in Call, Placed(c), Kept(c), SeamStep(c)
  PROVE  Kept(c)'
<1>1. evicted => evicted'
  BY EveryCacheMove
<1>2. ~evicted' => \A k : HasKey(k) => HasKey(k)'
  BY KeysStay
<1>3. CASE Finishes(c) \/ Rewrites(c)
  <2>1. step'[c] = "lookup" /\ seam'[c] # "raised"
    BY <1>3, SeamsEndBetween DEF Finishes, BeginRequest, BlockUnconfigured, CommandFails,
       AllowDispatch, BlockDispatch, Rewrites, FinishAssert, FinishRequest, FirstSeam,
       SeamTypeOK
  <2> QED
    BY <2>1 DEF Kept
<1>4. CASE Reviews(c) \/ LookupMiss(c)
  <2>1. step'[c] \in {"review", "store"} /\ seam' = seam
    BY <1>4, ReviewFits DEF ReviewGives, Reviewed, LookupMiss, SeamTypeOK
  <2> QED
    BY <1>1, <2>1 DEF Kept
<1>5. CASE LookupHit(c)
  <2>1. Cached(Key(c)) # {}
    BY <1>5 DEF LookupHit
  <2>2. /\ HasKey(Key(c)) /\ Key(c)' = Key(c) /\ seam' = seam /\ cache' = cache
        /\ step'[c] = "touch"
    BY <1>5, <2>1, CachedIff DEF LookupHit, SeamTypeOK, Key, Id, Index
  <2> QED
    BY <1>1, <2>2 DEF Kept, HasKey
<1>6. CASE Touch(c) \/ Trimmed(c)
  <2>1. step'[c] = "lookup" /\ seam' = seam
    BY <1>6, Collected DEF Touch, Trimmed
  <2> QED
    BY <1>1, <2>1 DEF Kept
<1>7. CASE CacheRaises(c)
  <2>1. evicted
    BY <1>7, CachedIff DEF CacheRaises, Kept
  <2> QED
    BY <1>1, <2>1 DEF Kept
<1>8. CASE Store(c)
  <2>1. HasKey(Key(c))'
    <3>1. Key(c)' = Key(c)
      BY <1>8 DEF Store, Key, Id, Index
    <3> QED
      BY <1>8, <3>1, EveryCacheMove DEF CacheMoves, HasKey
  <2>2. step'[c] = "place" /\ seam' = seam
    BY <1>8 DEF Store, SeamTypeOK
  <2> QED
    BY <1>1, <2>1, <2>2 DEF Kept
<1>9. CASE Place(c)
  <2>1. /\ Deciding(c) /\ step[c] = "place" /\ step'[c] = "trim" /\ seam' = seam
        /\ Key(c)' = Key(c)
    BY <1>9 DEF Place, SeamTypeOK, Key, Id, Index
  <2>2. ~evicted' => HasKey(Key(c))
    BY <1>1, <2>1 DEF Kept
  <2>3. ~evicted' => HasKey(Key(c))'
    BY <1>2, <2>1, <2>2 DEF HasKey
  <2> QED
    BY <1>1, <2>1, <2>3 DEF Kept
<1>10. CASE TooMany(c) \/ Pop(c)
  <2>1. evicted' /\ seam' = seam
    BY <1>1, <1>10 DEF TooMany, Pop, Kept
  <2> QED
    BY <2>1 DEF Kept
<1> QED
  BY <1>3, <1>4, <1>5, <1>6, <1>7, <1>8, <1>9, <1>10, StepKinds

LEMMA OthersKept ==
  ASSUME SeamTypeOK, UniqueKeys, NEW c \in Call, Kept(c), SeamStep(c),
         NEW d \in Call \ {c}, Kept(d)
  PROVE  Kept(d)'
<1>1. /\ OthersStand(c) /\ Key(d)' = Key(d) /\ Deciding(d)' = Deciding(d)
      /\ step'[d] = step[d] /\ seam'[d] = seam[d]
  BY OnlyItsOwn, OthersKeepPlace DEF OthersStand
<1>2. evicted => evicted'
  BY EveryCacheMove
<1>3. ~evicted' => \A k : HasKey(k) => HasKey(k)'
  BY KeysStay
<1>4. ~evicted' /\ HasKey(Key(d)) => HasKey(Key(d))'
  BY <1>1, <1>3 DEF HasKey
<1> QED
  BY <1>1, <1>2, <1>4 DEF Kept

-----------------------------------------------------------------------------
(* Who evicted while a thread was between two operations on the cache.      *)

LEMMA RobbedSteps ==
  ASSUME SeamTypeOK, NEW c \in Call, SeamStep(c)
  PROVE  /\ Pop(c) \/ robbed' = robbed \/ robbed' = robbed \ {c}
         /\ ~Touch(c) /\ ~Place(c) /\ ~Pop(c) => robbed' = robbed
         /\ Pop(c) => robbed' = (robbed \cup Between) \ {c}
<1>1. CASE Reviews(c)
  BY <1>1, ErredGrows DEF Touch, Place, Pop
<1>2. CASE ~Reviews(c)
  BY <1>2, StepKinds DEF Finishes, BeginRequest, BlockUnconfigured, CommandFails,
     AllowDispatch, BlockDispatch, Rewrites, FinishAssert, FinishRequest, LookupHit,
     LookupMiss, Touch, CacheRaises, Store, Place, TooMany, Pop, Trimmed
<1> QED
  BY <1>1, <1>2

LEMMA StepUnrobbed ==
  ASSUME SeamTypeOK, SeamTypeOK', UniqueKeys, NEW c \in Call, Placed(c), Unrobbed(c), SeamStep(c)
  PROVE  Unrobbed(c)'
<1>1. CASE Finishes(c) \/ Rewrites(c)
  <2>1. step'[c] = "lookup" /\ seam'[c] # "raised"
    BY <1>1, SeamsEndBetween DEF Finishes, BeginRequest, BlockUnconfigured, CommandFails,
       AllowDispatch, BlockDispatch, Rewrites, FinishAssert, FinishRequest, FirstSeam,
       SeamTypeOK
  <2> QED
    BY <2>1 DEF Unrobbed
<1>2. CASE Reviews(c) \/ LookupMiss(c)
  <2>1. step'[c] \in {"review", "store"} /\ seam' = seam /\ Deciding(c)
    BY <1>2, ReviewFits DEF ReviewGives, Reviewed, LookupMiss, SeamTypeOK
  <2> QED
    BY <2>1 DEF Unrobbed, Deciding
<1>3. CASE LookupHit(c)
  <2>1. Cached(Key(c)) # {}
    BY <1>3 DEF LookupHit
  <2>2. /\ HasKey(Key(c)) /\ Key(c)' = Key(c) /\ seam' = seam /\ cache' = cache
        /\ step'[c] = "touch" /\ Deciding(c)
    BY <1>3, <2>1, CachedIff DEF LookupHit, SeamTypeOK, Key, Id, Index
  <2> QED
    BY <2>2 DEF Unrobbed, HasKey, Deciding
<1>4. CASE Touch(c) \/ Trimmed(c)
  <2>1. step'[c] = "lookup" /\ seam' = seam /\ Deciding(c)
    BY <1>4, Collected DEF Touch, Trimmed
  <2> QED
    BY <2>1 DEF Unrobbed, Deciding
<1>5. CASE CacheRaises(c)
  <2>1. c \in robbed
    <3>1. CASE step[c] = "pop"
      <4>1. Deciding(c) /\ cache = <<>>
        BY <1>5, <3>1 DEF CacheRaises
      <4>2. \A k : ~HasKey(k)
        BY <4>1 DEF HasKey, ToSet
      <4> QED
        BY <3>1, <4>1, <4>2 DEF Unrobbed
    <3>2. CASE step[c] # "pop"
      BY <1>5, <3>2, CachedIff DEF CacheRaises, Unrobbed
    <3> QED
      BY <3>1, <3>2
  <2>2. robbed' = robbed /\ seam'[c] = "raised"
    BY <1>5 DEF CacheRaises, SeamTypeOK
  <2> QED
    BY <2>1, <2>2 DEF Unrobbed, Deciding
<1>6. CASE Store(c)
  <2>1. HasKey(Key(c))'
    <3>1. Key(c)' = Key(c)
      BY <1>6 DEF Store, Key, Id, Index
    <3> QED
      BY <1>6, <3>1, EveryCacheMove DEF CacheMoves, HasKey
  <2>2. step'[c] = "place" /\ seam' = seam /\ Deciding(c)
    BY <1>6 DEF Store, SeamTypeOK
  <2> QED
    BY <2>1, <2>2 DEF Unrobbed, Deciding
<1>7. CASE Place(c) \/ Pop(c)
  <2>1. step'[c] = "trim" /\ seam' = seam /\ Deciding(c)
    BY <1>7 DEF Place, Pop, SeamTypeOK
  <2> QED
    BY <2>1 DEF Unrobbed, Deciding
<1>8. CASE TooMany(c)
  <2>1. /\ step'[c] = "pop" /\ seam' = seam /\ cache' = cache /\ Deciding(c)
        /\ Len(cache) > CacheSize
    BY <1>8 DEF TooMany, SeamTypeOK
  <2>2. cache \in Seq(Entry) /\ CacheSize \in Nat
    BY SeamAssumption DEF SeamTypeOK
  <2>3. 1 \in DOMAIN cache
    BY <2>1, <2>2
  <2>4. \E k : HasKey(k)'
    BY <2>1, <2>3 DEF HasKey, ToSet
  <2> QED
    BY <2>1, <2>4 DEF Unrobbed, Deciding
<1> QED
  BY <1>1, <1>2, <1>3, <1>4, <1>5, <1>6, <1>7, <1>8, StepKinds

LEMMA OthersUnrobbed ==
  ASSUME SeamTypeOK, UniqueKeys, NEW c \in Call, SeamStep(c), NEW d \in Call \ {c}, Unrobbed(d)
  PROVE  Unrobbed(d)'
<1>1. /\ OthersStand(c) /\ Key(d)' = Key(d) /\ Deciding(d)' = Deciding(d)
      /\ step'[d] = step[d] /\ seam'[d] = seam[d]
  BY OnlyItsOwn, OthersKeepPlace DEF OthersStand
<1>2. d \in robbed => d \in robbed'
  BY RobbedSteps
<1>3. CASE Pop(c)
  <2>1. d \notin robbed' => d \notin Between
    BY <1>3, RobbedSteps
  <2> QED
    BY <1>1, <1>2, <2>1 DEF Unrobbed, Between
<1>4. CASE ~Pop(c)
  <2>1. \A k : HasKey(k) => HasKey(k)'
    BY <1>4, EveryCacheMove DEF CacheMoves
  <2>2. HasKey(Key(d)) => HasKey(Key(d))'
    BY <1>1, <2>1 DEF HasKey
  <2> QED
    BY <1>1, <1>2, <2>1, <2>2 DEF Unrobbed
<1> QED
  BY <1>3, <1>4

-----------------------------------------------------------------------------
(* A tracked call is followed by its own steps and by the others'.          *)

LEMMA OthersTraced ==
  ASSUME SeamTypeOK, UniqueKeys, NEW c \in Call, Kept(c), SeamStep(c), ~evicted',
         NEW d \in Call \ {c}, origin[d].id # "", Traced(d)
  PROVE  Traced(d)'
<1>1. /\ OthersStand(c) /\ Index(d)' = Index(d) /\ InHand(d)' = InHand(d)
      /\ \A i : OwnKey(d, i)' = OwnKey(d, i) /\ UnderReview(d, i)' = UnderReview(d, i)
  BY OnlyItsOwn, OthersKeepPlace
<1>2. \A k : HasKey(k) => HasKey(k)'
  BY KeysStay
<1>3. ASSUME NEW i \in TaskOf(d), NEW e \in ToSet(cache'), e.key = OwnKey(d, i)
      PROVE  e \in ToSet(cache)
  <2>1. CASE Store(c) /\ e = [key |-> Key(c), decision |-> hand[c]]
    <3>1. Deciding(c) /\ Key(c) = OwnKey(d, i)
      BY <1>3, <2>1 DEF Store
    <3> QED
      BY <3>1, KeyDetermines
  <2> QED
    BY <1>3, <2>1, EveryCacheMove DEF CacheMoves
<1>4. \A i \in TaskOf(d) : HasKey(OwnKey(d, i))' <=> HasKey(OwnKey(d, i))
  BY <1>1, <1>2, <1>3 DEF HasKey
<1>5. /\ reviews'[d] = reviews[d] /\ rows'[d] = rows[d] /\ hand'[d] = hand[d]
      /\ erred'[d] = erred[d]
      /\ got'[d] = got[d] /\ goals'[d] = goals[d] /\ step'[d] = step[d]
      /\ seam'[d] = seam[d] /\ rewriting' = rewriting /\ configured' = configured
  BY <1>1 DEF OthersStand
<1>6. ASSUME NEW i \in TaskOf(d) PROVE TaskTraced(d, i)'
  <2>1. TaskTraced(d, i)
    BY DEF Traced
  <2> QED
    BY <1>1, <1>3, <1>4, <1>5, <2>1 DEF TaskTraced, RowsTell
<1> QED
  BY <1>5, <1>6 DEF Traced, TaskOf

\* What holds at a step of a tracked call that leaves it tracked.
Follows(c) ==
    /\ SeamTypeOK /\ SeamTypeOK' /\ UniqueKeys
    /\ Placed(c) /\ Kept(c) /\ Tracked(c) /\ SeamStep(c) /\ ~evicted'

LEMMA OwnContext ==
  ASSUME NEW c \in Call, Follows(c)
  PROVE  /\ UNCHANGED <<configured, rewriting, origin>>
         /\ \A i : OwnKey(c, i)' = OwnKey(c, i)
         /\ seam[c] # "assert" /\ ~origin[c].command
         /\ Deciding(c) => Key(c) = OwnKey(c, Index(c)) /\ Index(c) \in TaskOf(c)
         /\ \A k : HasKey(k) => HasKey(k)'
         /\ ~Pop(c) /\ ~TooMany(c) /\ ~CacheRaises(c)
         /\ ~Store(c) => /\ \A e \in ToSet(cache') : e \in ToSet(cache)
                         /\ \A k : HasKey(k)' => HasKey(k)
<1>1. /\ SeamTypeOK /\ UniqueKeys /\ Placed(c) /\ Kept(c) /\ SeamStep(c) /\ ~evicted'
      /\ origin[c].id # "" /\ ~origin[c].command /\ ~evicted
  BY DEF Follows, Tracked
<1>2. UNCHANGED <<configured, rewriting, origin>>
  BY <1>1, OnlyItsOwn DEF OthersStand
<1>3. ~Pop(c) /\ \A k : HasKey(k) => HasKey(k)'
  BY <1>1, KeysStay
<1>4. ~TooMany(c)
  BY <1>1 DEF TooMany
<1>5. ~CacheRaises(c)
  BY <1>1, CachedIff DEF CacheRaises, Kept
<1>6. seam[c] # "assert"
  BY <1>1 DEF Placed
<1>7. Deciding(c) => Key(c) = OwnKey(c, Index(c)) /\ Index(c) \in TaskOf(c)
  BY <1>1, <1>6, KeyOfTask, TaskInHand
<1>8. ~Store(c) => \A e \in ToSet(cache') : e \in ToSet(cache)
  BY <1>1, EveryCacheMove DEF CacheMoves
<1>9. ~Store(c) => \A k : HasKey(k)' => HasKey(k)
  BY <1>8 DEF HasKey
<1> QED
  BY <1>1, <1>2, <1>3, <1>4, <1>5, <1>6, <1>7, <1>8, <1>9 DEF OwnKey

\* A seam begins or ends, or the call does, and the goals stay.
LEMMA FinishTraced ==
  ASSUME NEW c \in Call, Follows(c), Finishes(c), NEW i \in TaskOf(c), TaskTraced(c, i)
  PROVE  TaskTraced(c, i)'
<1>1. SeamTypeOK /\ Placed(c)
  BY DEF Follows
<1>2. /\ UNCHANGED <<step, goals, hand, cache, reviews, rows, erred, rewriting>>
      /\ step[c] = "lookup" /\ (got'[c] = got[c] \/ got'[c] = <<>>)
  BY <1>1, SeamsEndBetween, OwnContext DEF SeamTypeOK, Finishes, BeginRequest,
     BlockUnconfigured, CommandFails, AllowDispatch, BlockDispatch
<1>3. rewriting /\ seam'[c] \in {"check", "dispatched"} => seam[c] \in {"check", "dispatched"}
  BY OwnContext, <1>1 DEF SeamTypeOK, Finishes, BeginRequest, FirstSeam, BlockUnconfigured,
     CommandFails, AllowDispatch, BlockDispatch
<1>4. HasKey(OwnKey(c, i))' <=> HasKey(OwnKey(c, i))
  BY <1>2, OwnContext DEF HasKey
<1>5. ~UnderReview(c, i)' /\ ~InHand(c)' /\ ~UnderReview(c, i)
  BY <1>2 DEF UnderReview, InHand
<1>6. i \in DOMAIN got'[c] => i \in DOMAIN got[c] /\ got'[c][i] = got[c][i]
  BY <1>2
<1>7. OwnKey(c, i)' = OwnKey(c, i)
  BY OwnContext
<1> QED
  BY <1>2, <1>3, <1>4, <1>5, <1>6, <1>7 DEF TaskTraced, RowsTell

\* The seam that rewrites is over: every decision is cached, and the goals are the rows'.
LEMMA RequestTraced ==
  ASSUME NEW c \in Call, Follows(c), Rewrites(c), NEW i \in TaskOf(c), TaskTraced(c, i)
  PROVE  TaskTraced(c, i)'
<1>1. SeamTypeOK /\ Placed(c) /\ FinishRequest(c)
  BY OwnContext DEF Follows, Rewrites, FinishAssert
<1>2. /\ UNCHANGED <<step, hand, cache, reviews, rows, erred, rewriting>> /\ Decided(c)
      /\ step[c] = "lookup" /\ got'[c] = <<>> /\ goals'[c] = Rewritten(c)
  BY <1>1, SeamsEndBetween DEF SeamTypeOK, FinishRequest, Rewrites
<1>3. /\ i \in DOMAIN got[c]
      /\ goals'[c][i] = IF Tasks[c][i].dict /\ got[c][i].released
                        THEN got[c][i].prompt ELSE goals[c][i]
  BY <1>1, <1>2, RewrittenGoals
<1>4. HasKey(OwnKey(c, i)) /\ RowsTell(rows[c][i], i \in erred[c], got[c][i])
  BY <1>3 DEF TaskTraced
<1>5. Tasks[c][i].dict /\ i \notin erred[c] =>
         \A row \in rows[c][i] : row.released => goals'[c][i] = row.prompt
  BY <1>3, <1>4 DEF RowsTell
<1>6. HasKey(OwnKey(c, i))' /\ OwnKey(c, i)' = OwnKey(c, i)
  BY <1>2, <1>4, OwnContext DEF HasKey
<1>7. ~UnderReview(c, i)' /\ ~InHand(c)' /\ ~UnderReview(c, i) /\ i \notin DOMAIN got'[c]
  BY <1>2 DEF UnderReview, InHand
<1> QED
  BY <1>2, <1>5, <1>6, <1>7 DEF TaskTraced, RowsTell

LEMMA ReviewTraced ==
  ASSUME NEW c \in Call, Follows(c), Reviews(c), NEW i \in TaskOf(c), TaskTraced(c, i)
  PROVE  TaskTraced(c, i)'
<1>1. SeamTypeOK /\ Deciding(c) /\ step[c] = "review"
  BY ReviewFits DEF Follows
<1>2. PICK decision, gained : ReviewGives(c, decision, gained)
  BY <1>1, ReviewFits DEF Follows
<1>3. /\ UNCHANGED <<seam, got, goals, cache, reviews, rewriting>>
      /\ hand'[c] = decision /\ step'[c] = "store"
  BY <1>1, <1>2, OwnContext DEF ReviewGives, Reviewed, SeamTypeOK
<1>4. Index(c)' = Index(c) /\ Deciding(c)' /\ UnderReview(c, Index(c))
  BY <1>1, <1>3 DEF Index, Deciding, UnderReview
<1>5. HasKey(OwnKey(c, i))' <=> HasKey(OwnKey(c, i))
  BY <1>3, OwnContext DEF HasKey
<1>6. OwnKey(c, i)' = OwnKey(c, i)
  BY OwnContext
<1>7. CASE i = Index(c)
  <2>1. /\ rows[c][i] = {} /\ ~HasKey(OwnKey(c, i)) /\ i \notin DOMAIN got[c]
        /\ i \notin erred[c]
    BY <1>1, <1>4, <1>7 DEF TaskTraced
  <2>2. RowsTell(rows'[c][i], i \in erred'[c], decision)
    BY <1>1, <1>2, <1>7, <2>1 DEF ReviewGives, RowsGain, RowsTell, Ends, SeamTypeOK
  <2>3. \A e \in ToSet(cache') : e.key # OwnKey(c, i)
    BY <1>3, <2>1 DEF HasKey
  <2>4. UnderReview(c, i)' /\ reviews[c][i] = 1
    BY <1>3, <1>4, <1>7 DEF UnderReview, TaskTraced
  <2> QED
    BY <1>3, <1>4, <1>5, <1>6, <1>7, <2>1, <2>2, <2>3, <2>4 DEF TaskTraced, InHand
<1>8. CASE i # Index(c)
  <2>1. rows'[c][i] = rows[c][i] /\ (i \in erred'[c] <=> i \in erred[c])
    BY <1>1, <1>2, <1>8 DEF ReviewGives, RowsGain, Ends, SeamTypeOK
  <2>2. ~UnderReview(c, i)' /\ ~UnderReview(c, i)
    BY <1>4, <1>8 DEF UnderReview
  <2> QED
    BY <1>3, <1>4, <1>5, <1>6, <1>8, <2>1, <2>2 DEF TaskTraced
<1> QED
  BY <1>7, <1>8

LEMMA MissTraced ==
  ASSUME NEW c \in Call, Follows(c), LookupMiss(c), NEW i \in TaskOf(c), TaskTraced(c, i)
  PROVE  TaskTraced(c, i)'
<1>1. /\ Deciding(c) /\ step[c] = "lookup" /\ step'[c] = "review" /\ ~HasKey(Key(c))
      /\ UNCHANGED <<seam, got, goals, hand, cache, rows, erred, rewriting>>
  BY CachedIff DEF LookupMiss, Follows, SeamTypeOK
<1>2. Index(c)' = Index(c) /\ Deciding(c)' /\ ~UnderReview(c, i) /\ ~InHand(c)'
  BY <1>1 DEF Index, Deciding, UnderReview, InHand
<1>3. OwnKey(c, i)' = OwnKey(c, i) /\ (HasKey(OwnKey(c, i))' <=> HasKey(OwnKey(c, i)))
  BY <1>1, OwnContext DEF HasKey
<1>4. /\ Key(c) = OwnKey(c, Index(c)) /\ Index(c) \in TaskOf(c)
      /\ reviews[c] \in [TaskOf(c) -> Nat] /\ DOMAIN reviews = Call
  BY <1>1, OwnContext DEF Follows, SeamTypeOK
<1>5. reviews' = [reviews EXCEPT ![c] = [reviews[c] EXCEPT ![Index(c)] = @ + 1]]
  BY DEF LookupMiss
<1>6. CASE i = Index(c)
  <2>1. ~HasKey(OwnKey(c, i)) /\ reviews[c][i] = 0 /\ rows[c][i] = {} /\ i \notin erred[c]
    BY <1>1, <1>2, <1>4, <1>6 DEF TaskTraced
  <2>2. reviews'[c][i] = 1
    BY <1>4, <1>5, <1>6, <2>1
  <2>3. UnderReview(c, i)'
    BY <1>1, <1>2, <1>6 DEF UnderReview
  <2> QED
    BY <1>1, <1>2, <1>3, <2>1, <2>2, <2>3 DEF TaskTraced, RowsTell
<1>7. CASE i # Index(c)
  <2>1. reviews'[c][i] = reviews[c][i] /\ ~UnderReview(c, i)'
    BY <1>2, <1>4, <1>5, <1>7 DEF UnderReview
  <2> QED
    BY <1>1, <1>2, <1>3, <2>1 DEF TaskTraced, RowsTell
<1> QED
  BY <1>6, <1>7

LEMMA HitTraced ==
  ASSUME NEW c \in Call, Follows(c), LookupHit(c), NEW i \in TaskOf(c), TaskTraced(c, i)
  PROVE  TaskTraced(c, i)'
<1>1. /\ Deciding(c) /\ step[c] = "lookup" /\ step'[c] = "touch"
      /\ UNCHANGED <<seam, got, goals, cache, reviews, rows, erred, rewriting>>
  BY DEF LookupHit, Follows, SeamTypeOK
<1>2. PICK e \in Cached(Key(c)) : hand' = [hand EXCEPT ![c] = e.decision]
  BY DEF LookupHit
<1>3. e \in ToSet(cache) /\ e.key = OwnKey(c, Index(c)) /\ hand'[c] = e.decision
  BY <1>1, <1>2, CachedIff, OwnContext DEF Follows, SeamTypeOK
<1>4. Index(c)' = Index(c) /\ ~UnderReview(c, i) /\ ~UnderReview(c, i)'
  BY <1>1 DEF Index, UnderReview
<1>5. OwnKey(c, i)' = OwnKey(c, i) /\ (HasKey(OwnKey(c, i))' <=> HasKey(OwnKey(c, i)))
  BY <1>1, OwnContext DEF HasKey
<1>6. i = Index(c) => RowsTell(rows[c][i], i \in erred[c], hand'[c])
  BY <1>3 DEF TaskTraced
<1> QED
  BY <1>1, <1>4, <1>5, <1>6 DEF TaskTraced, RowsTell

\* The decision in hand becomes the task's.
LEMMA CollectTraced ==
  ASSUME NEW c \in Call, Follows(c), Touch(c) \/ Trimmed(c), NEW i \in TaskOf(c),
         TaskTraced(c, i)
  PROVE  TaskTraced(c, i)'
<1>1. /\ Deciding(c) /\ Collect(c) /\ InHand(c) /\ step[c] \in {"touch", "trim"} /\ ~Store(c)
      /\ UNCHANGED <<seam, goals, reviews, rows, erred, rewriting>>
  BY DEF Touch, Trimmed, InHand, Store
<1>2. /\ step'[c] = "lookup" /\ Len(got'[c]) = Len(got[c]) + 1 /\ Len(got[c]) \in Nat
      /\ \A j \in 1..Len(got[c]) : got'[c][j] = got[c][j]
      /\ Index(c) = Len(got[c]) + 1 /\ got'[c][Index(c)] = hand[c]
  BY <1>1, Collected DEF Follows
<1>3. DOMAIN got[c] = 1..Len(got[c]) /\ DOMAIN got'[c] = 1..Len(got'[c])
  BY DEF Follows, SeamTypeOK
<1>4. HasKey(OwnKey(c, Index(c)))
  BY <1>1, OwnContext DEF Follows, Kept, Tracked
<1>5. ~UnderReview(c, i) /\ ~UnderReview(c, i)' /\ ~InHand(c)'
  BY <1>1, <1>2 DEF UnderReview, InHand
<1>6. /\ OwnKey(c, i)' = OwnKey(c, i) /\ \A e \in ToSet(cache') : e \in ToSet(cache)
      /\ HasKey(OwnKey(c, i)) => HasKey(OwnKey(c, i))'
  BY <1>1, OwnContext DEF HasKey
<1>7. ASSUME i \in DOMAIN got'[c]
      PROVE  HasKey(OwnKey(c, i))' /\ RowsTell(rows[c][i], i \in erred[c], got'[c][i])
  <2>1. CASE i = Index(c)
    BY <1>1, <1>2, <1>4, <1>6, <2>1 DEF TaskTraced
  <2>2. CASE i # Index(c)
    <3>1. i \in DOMAIN got[c] /\ got'[c][i] = got[c][i]
      BY <1>2, <1>3, <1>7, <2>2
    <3> QED
      BY <1>6, <3>1 DEF TaskTraced
  <2> QED
    BY <2>1, <2>2
<1> QED
  BY <1>1, <1>5, <1>6, <1>7 DEF TaskTraced, RowsTell

LEMMA PlaceTraced ==
  ASSUME NEW c \in Call, Follows(c), Place(c), NEW i \in TaskOf(c), TaskTraced(c, i)
  PROVE  TaskTraced(c, i)'
<1>1. /\ Deciding(c) /\ step[c] = "place" /\ step'[c] = "trim" /\ ~Store(c)
      /\ UNCHANGED <<seam, got, goals, hand, reviews, rows, erred, rewriting>>
  BY DEF Place, Store, Follows, SeamTypeOK
<1>2. Index(c)' = Index(c) /\ ~UnderReview(c, i) /\ ~UnderReview(c, i)' /\ InHand(c)
  BY <1>1 DEF Index, UnderReview, InHand
<1>3. /\ OwnKey(c, i)' = OwnKey(c, i) /\ \A e \in ToSet(cache') : e \in ToSet(cache)
      /\ HasKey(OwnKey(c, i)) => HasKey(OwnKey(c, i))'
  BY <1>1, OwnContext DEF HasKey
<1> QED
  BY <1>1, <1>2, <1>3 DEF TaskTraced, RowsTell

\* The task's decision is cached under its own key.
LEMMA StoreTraced ==
  ASSUME NEW c \in Call, Follows(c), Store(c), NEW i \in TaskOf(c), TaskTraced(c, i)
  PROVE  TaskTraced(c, i)'
<1>1. /\ Deciding(c) /\ step[c] = "store" /\ step'[c] = "place"
      /\ UNCHANGED <<seam, got, goals, hand, reviews, rows, erred, rewriting>>
  BY DEF Store, Follows, SeamTypeOK
<1>2. /\ Index(c)' = Index(c) /\ ~UnderReview(c, i)' /\ InHand(c)
      /\ i # Index(c) => ~UnderReview(c, i)
      /\ UnderReview(c, Index(c))
  BY <1>1 DEF Index, UnderReview, InHand
<1>3. Key(c) = OwnKey(c, Index(c)) /\ Index(c) \in TaskOf(c)
  BY <1>1, OwnContext
<1>4. /\ \A e \in ToSet(cache') : e \in ToSet(cache) \/ e = [key |-> Key(c), decision |-> hand[c]]
      /\ \E e \in ToSet(cache') : e.key = Key(c)
  BY EveryCacheMove DEF Follows, CacheMoves
<1>5. /\ OwnKey(c, i)' = OwnKey(c, i) /\ (HasKey(OwnKey(c, i)) => HasKey(OwnKey(c, i))')
      /\ i = Index(c) => HasKey(OwnKey(c, i))'
  BY <1>3, <1>4, OwnContext DEF HasKey
<1>6. ASSUME NEW e \in ToSet(cache'), e.key = OwnKey(c, i)
      PROVE  RowsTell(rows[c][i], i \in erred[c], e.decision)
  <2>1. CASE e \in ToSet(cache)
    BY <1>6, <2>1 DEF TaskTraced
  <2>2. CASE e = [key |-> Key(c), decision |-> hand[c]]
    <3>1. i = Index(c) /\ e.decision = hand[c]
      BY <1>3, <1>6, <2>2, KeysDiffer
    <3> QED
      BY <1>2, <3>1 DEF TaskTraced
  <2> QED
    BY <1>4, <2>1, <2>2
<1> QED
  BY <1>1, <1>2, <1>5, <1>6 DEF TaskTraced, RowsTell

\* A blocked call had a task that was not released, and no row says that it was, unless
\* a review raised.
LEMMA BlockTraced ==
  ASSUME NEW c \in Call, Follows(c), Traced(c), configured', seam'[c] = "blocked",
         erred'[c] = {}
  PROVE  \E i \in TaskOf(c) : \A row \in rows'[c][i] : ~row.released
<1>1. SeamTypeOK /\ configured
  BY OwnContext DEF Follows
<1>2. CASE BlockDispatch(c)
  <2>1. /\ Decided(c) /\ rows' = rows /\ erred' = erred
        /\ \E i \in DOMAIN got[c] : ~got[c][i].released
    BY <1>2 DEF BlockDispatch, AllReleased
  <2>2. PICK i \in DOMAIN got[c] : ~got[c][i].released
    BY <2>1
  <2>3. i \in TaskOf(c)
    BY <1>1, <2>1, RewrittenGoals
  <2>4. RowsTell(rows[c][i], i \in erred[c], got[c][i])
    BY <2>2, <2>3 DEF Traced, TaskTraced
  <2> QED
    BY <2>1, <2>2, <2>3, <2>4 DEF RowsTell
<1>3. CASE seam[c] = "blocked"
  <2>1. rows' = rows /\ erred' = erred
    BY <1>1, <1>3, ReviewFits DEF Follows, SeamStep, BeginRequest, BlockUnconfigured,
       LookupHit, LookupMiss, Touch, CacheRaises, ReviewReleases, ReviewHolds, ReviewRaises,
       WithRow, Reviewed, Store, Place, TooMany, Pop, Trimmed, FinishAssert, CommandFails,
       FinishRequest, AllowDispatch, BlockDispatch, Deciding
  <2> QED
    BY <1>1, <1>3, <2>1 DEF Traced
<1>4. CASE ~BlockDispatch(c) /\ seam[c] # "blocked"
  <2>1. CASE Finishes(c) \/ Rewrites(c)
    BY <1>1, <1>4, <2>1 DEF SeamTypeOK, Finishes, BeginRequest, BlockUnconfigured,
       CommandFails, AllowDispatch, Rewrites, FinishAssert, FinishRequest, FirstSeam
  <2>2. CASE Reviews(c)
    BY <1>1, <1>4, <2>2, ReviewFits DEF ReviewGives, Reviewed
  <2>3. CASE ~Finishes(c) /\ ~Rewrites(c) /\ ~Reviews(c)
    BY <1>1, <1>4, <2>3, OwnContext, StepKinds DEF Follows, LookupHit, LookupMiss, Touch,
       Store, Place, Trimmed
  <2> QED
    BY <2>1, <2>2, <2>3
<1> QED
  BY <1>2, <1>3, <1>4

LEMMA OwnTraced ==
  ASSUME NEW c \in Call, Follows(c), Traced(c)
  PROVE  Traced(c)'
<1>1. ASSUME NEW i \in TaskOf(c) PROVE TaskTraced(c, i)'
  <2>1. TaskTraced(c, i)
    BY DEF Traced
  <2> QED
    BY <2>1, StepKinds, OwnContext, FinishTraced, RequestTraced, ReviewTraced, MissTraced,
       HitTraced, CollectTraced, PlaceTraced, StoreTraced DEF Follows
<1> QED
  BY <1>1, BlockTraced DEF Traced, TaskOf

-----------------------------------------------------------------------------
(* The theorems.                                                            *)

LEMMA InitialSeams ==
  ASSUME SeamInit
  PROVE  SeamInv
<1> USE DEF SeamInit
<1>1. ASSUME NEW c \in Call, NEW i \in TaskOf(c)
      PROVE  /\ Assemble(Tasks[c][i].base, {}) \in Goal
             /\ Assemble(Tasks[c][i].base, {})[1] = Tasks[c][i].base
  BY TasksThere DEF Assemble, Goal
<1>2. \A c \in Call : /\ 1 \in TaskOf(c) /\ Held(Tasks[c][1].base) \in Decision
                      /\ Len(Tasks[c]) \in Nat
  BY TasksThere, DecisionsAreTyped DEF Fits
<1>3. <<>> \in Seq(Decision) /\ <<>> \in Seq(Entry) /\ Len(<<>>) = 0 /\ DOMAIN <<>> = {}
  OBVIOUS
<1>4. ToSet(cache) = {} /\ UniqueKeys
  BY <1>3 DEF ToSet, UniqueKeys
<1>5. SeamTypeOK
  <2>1. origin \in [Call -> [id : STRING, command : BOOLEAN]] /\ \A c \in Call : origin[c] \in Origins[c]
    <3>1. \A c \in Call : origin[c] \in Origins[c]
      OBVIOUS
    <3>2. \A c \in Call : origin[c] \in [id : STRING, command : BOOLEAN]
      BY <3>1, SeamAssumption
    <3>3. origin = [c \in Call |-> origin[c]]
      OBVIOUS
    <3> QED
      BY <3>1, <3>2, <3>3
  <2>2. DOMAIN goals = Call /\ \A c \in Call : goals[c] \in [TaskOf(c) -> Goal]
    BY <1>1 DEF TaskOf
  <2>3. got \in [Call -> Seq(Decision)] /\ \A c \in Call : Len(got[c]) <= Len(Tasks[c])
    BY <1>2, <1>3
  <2>4. hand \in [Call -> Decision]
    BY <1>2
  <2>5. DOMAIN reviews = Call /\ \A c \in Call : reviews[c] \in [TaskOf(c) -> Nat]
    BY DEF TaskOf
  <2>6. DOMAIN rows = Call /\ \A c \in Call : rows[c] \in [TaskOf(c) -> SUBSET Decision]
    BY DEF TaskOf
  <2>8. DOMAIN erred = Call /\ (\A c \in Call : erred[c] \subseteq TaskOf(c)) /\ robbed \subseteq Call
    OBVIOUS
  <2>7. /\ seam \in [Call -> {"idle", "assert", "request", "check", "dispatched", "blocked",
                              "failed", "raised"}]
        /\ step \in [Call -> {"lookup", "touch", "review", "store", "place", "trim", "pop"}]
    OBVIOUS
  <2> QED
    BY <1>3, <2>1, <2>2, <2>3, <2>4, <2>5, <2>6, <2>7, <2>8 DEF SeamTypeOK
<1>6. \A c \in Call : ~Deciding(c) /\ step[c] = "lookup" /\ got[c] = <<>> /\ seam[c] = "idle"
  BY DEF Deciding
<1>7. \A c \in Call : Placed(c) /\ Kept(c) /\ Unrobbed(c)
  BY <1>6 DEF Placed, Kept, Unrobbed
<1>8. \A c \in Call : OwnDecisions(c)
  BY <1>1, <1>3, <1>6 DEF OwnDecisions, InHand, TaskOf
<1>9. Bounded
  <2>1. Storing = {}
    BY <1>6 DEF Storing
  <2>2. IsFiniteSet(Storing) /\ Cardinality(Storing) = 0
    BY <2>1, FS_EmptySet
  <2>3. Len(cache) = 0 /\ CacheSize \in Nat
    BY <1>3, SeamAssumption
  <2> QED
    BY <1>4, <2>2, <2>3 DEF Bounded
<1>10. ASSUME NEW c \in Call PROVE Traced(c)
  <2>1. \A i \in TaskOf(c) : reviews[c][i] = 0 /\ rows[c][i] = {} /\ i \notin erred[c]
    BY DEF TaskOf
  <2> HIDE DEF SeamInit
  <2>2. /\ ~InHand(c) /\ \A i \in TaskOf(c) : ~UnderReview(c, i) /\ i \notin DOMAIN got[c]
        /\ seam[c] \notin {"check", "dispatched"}
    BY <1>3, <1>6 DEF UnderReview, InHand
  <2>3. \A i \in TaskOf(c) : TaskTraced(c, i)
    BY <1>4, <2>1, <2>2 DEF TaskTraced
  <2> QED
    BY <1>6, <2>3 DEF Traced
<1> QED
  BY <1>4, <1>5, <1>7, <1>8, <1>9, <1>10 DEF SeamInv

LEMMA StepInvariant ==
  ASSUME SeamInv, NEW c \in Call, SeamStep(c)
  PROVE  SeamInv'
<1>1. /\ SeamTypeOK /\ UniqueKeys /\ Bounded
      /\ \A d \in Call : Placed(d) /\ Kept(d) /\ Unrobbed(d)
  BY DEF SeamInv, Bounded
<1>2. SeamTypeOK' /\ OthersStand(c) /\ origin' = origin
  BY <1>1, StepTypes, OnlyItsOwn DEF OthersStand
<1>3. ASSUME NEW d \in Call PROVE Placed(d)'
  BY <1>1, <1>2, StepPlaces, OthersKeepPlace
<1>4. (\A e \in ToSet(cache) : Sound(e))'
  BY <1>1, StepSound DEF SeamInv
<1>5. ASSUME NEW d \in Call PROVE OwnDecisions(d)'
  <2>1. CASE d = c
    BY <1>1, <1>2, <2>1, StepOwns DEF SeamInv
  <2>2. CASE d # c
    BY <1>2, <2>2, OthersOwn DEF SeamInv
  <2> QED
    BY <2>1, <2>2
<1>6. Bounded'
  BY <1>1, <1>2, StepBounded
<1>7. ASSUME NEW d \in Call PROVE Kept(d)' /\ Unrobbed(d)'
  BY <1>1, <1>2, StepKeeps, OthersKept, StepUnrobbed, OthersUnrobbed
<1>8. ASSUME NEW d \in Call, Tracked(d)' PROVE Traced(d)'
  <2>1. ~evicted' /\ Tracked(d)
    BY <1>1, <1>2, <1>8, EveryCacheMove DEF Tracked
  <2>2. Traced(d) /\ origin[d].id # ""
    BY <2>1 DEF SeamInv, Tracked
  <2>3. CASE d = c
    BY <1>1, <1>2, <2>1, <2>2, <2>3, OwnTraced DEF Follows
  <2>4. CASE d # c
    BY <1>1, <2>1, <2>2, <2>4, OthersTraced
  <2> QED
    BY <2>3, <2>4
<1> QED
  BY <1>2, <1>3, <1>4, <1>5, <1>6, <1>7, <1>8 DEF SeamInv

\* The inductive invariant of the seams and their cache: the layers above, together.
THEOREM SeamInvariant == SeamSpec => []SeamInv
<1>1. SeamInit => SeamInv
  BY InitialSeams
<1>2. ASSUME SeamInv, [SeamNext]_seamVars PROVE SeamInv'
  <2>1. CASE SeamNext
    BY <1>2, <2>1, StepInvariant DEF SeamNext
  <2>2. CASE UNCHANGED seamVars
    <3> USE <2>2 DEF seamVars
    <3>1. /\ SeamTypeOK' = SeamTypeOK /\ Bounded' = Bounded
          /\ \A e : Sound(e)' = Sound(e)
      BY DEF SeamTypeOK, Bounded, UniqueKeys, Storing, Sound, OwnKey
    <3>2. /\ \A k : HasKey(k)' = HasKey(k)
          /\ \A c : Index(c)' = Index(c) /\ Key(c)' = Key(c) /\ Deciding(c)' = Deciding(c)
          /\ \A c, i : OwnKey(c, i)' = OwnKey(c, i)
      BY DEF HasKey, Index, Key, Id, Deciding, OwnKey
    <3>3. \A c : /\ Placed(c)' = Placed(c) /\ InHand(c)' = InHand(c)
                 /\ Tracked(c)' = Tracked(c)
                 /\ \A i : UnderReview(c, i)' = UnderReview(c, i)
      BY <3>2 DEF Placed, Decided, AllReleased, InHand, Tracked, UnderReview
    <3>4. \A c : OwnDecisions(c)' = OwnDecisions(c) /\ Kept(c)' = Kept(c)
      BY <3>2, <3>3 DEF OwnDecisions, Kept, HasKey
    <3>7. \A c : Unrobbed(c)' = Unrobbed(c)
      BY <3>2 DEF Unrobbed, HasKey
    <3>5. \A c, i : TaskTraced(c, i)' = TaskTraced(c, i)
      BY <3>2, <3>3 DEF TaskTraced, HasKey
    <3>6. \A c : Traced(c)' = Traced(c)
      BY <3>5 DEF Traced, TaskOf
    <3> QED
      BY <1>2, <3>1, <3>3, <3>4, <3>6, <3>7 DEF SeamInv
  <2> QED
    BY <1>2, <2>1, <2>2
<1> QED
  BY <1>1, <1>2, PTL DEF SeamSpec

\* A dispatched call was released task by task, each on its own base: the cache keys, the
\* rewriting of goals and _extract never let one task pass on another's release.
THEOREM DispatchedOnRelease == SeamSpec => []DispatchedOnItsOwnRelease
<1>1. SeamInv => DispatchedOnItsOwnRelease
  <2> SUFFICES ASSUME SeamInv, NEW c \in Call, seam[c] = "dispatched"
               PROVE  /\ Decided(c)
                      /\ \A i \in DOMAIN Tasks[c] :
                            got[c][i].released /\ got[c][i].base = Tasks[c][i].base
    BY DEF DispatchedOnItsOwnRelease
  <2>1. SeamTypeOK /\ Decided(c) /\ AllReleased(c) /\ OwnDecisions(c)
    BY DEF SeamInv, Placed
  <2>2. DOMAIN got[c] = TaskOf(c) /\ \A i \in TaskOf(c) : Tasks[c][i].base \in Base
    BY <2>1, RewrittenGoals, TasksThere
  <2>3. \A i \in TaskOf(c) : Fits(got[c][i], Tasks[c][i].base) /\ got[c][i].released
    BY <2>1, <2>2 DEF OwnDecisions, AllReleased
  <2> QED
    BY <2>1, <2>2, <2>3, DecisionsAreTyped DEF TaskOf
<1> QED
  BY <1>1, SeamInvariant, PTL

\* The cache outgrows its size by at most the threads that are storing, and holds no key
\* twice, although nothing locks it.
THEOREM CacheBound == SeamSpec => []CacheIsBounded
<1>1. SeamInv => CacheIsBounded
  BY DEF SeamInv, Bounded, UniqueKeys, CacheIsBounded
<1> QED
  BY <1>1, SeamInvariant, PTL

\* No seam raises into Hermes before something was evicted.
THEOREM NoRaiseBeforeEviction == SeamSpec => []SeamsNeverRaise
<1>1. SeamInv => SeamsNeverRaise
  BY DEF SeamInv, Kept, SeamsNeverRaise
<1> QED
  BY <1>1, SeamInvariant, PTL

\* A seam that raises was robbed: another thread evicted between two of its operations.
THEOREM OverlapRaises == SeamSpec => []OnlyOverlapRaises
<1>1. SeamInv => OnlyOverlapRaises
  BY DEF SeamInv, Unrobbed, OnlyOverlapRaises
<1> QED
  BY <1>1, SeamInvariant, PTL

\* Both seams of a tracked call use one review per task.
THEOREM OneReviewPerTask == SeamSpec => []GateRunsOncePerTask
<1>1. SeamInv => GateRunsOncePerTask
  BY DEF SeamInv, Traced, TaskTraced, TaskOf, GateRunsOncePerTask
<1> QED
  BY <1>1, SeamInvariant, PTL

\* The trail of a tracked call says what happened to it: a dispatched call's rows are the
\* releases that the seams relied on, and a blocked one's do not show all its tasks
\* dispatched, unless a review raised.
THEOREM TrailIsTrue == SeamSpec => []TrailTellsWhatRan
<1>1. SeamInv => TrailTellsWhatRan
  <2> SUFFICES ASSUME SeamInv, NEW c \in Call, configured, Tracked(c)
               PROVE  /\ seam[c] = "dispatched" =>
                             /\ erred[c] = {}
                             /\ \A i \in DOMAIN Tasks[c] : rows[c][i] = {got[c][i]}
                      /\ seam[c] = "blocked" /\ erred[c] = {} =>
                             \E i \in DOMAIN Tasks[c] : \A row \in rows[c][i] : ~row.released
    BY DEF TrailTellsWhatRan
  <2>1. SeamTypeOK /\ Traced(c)
    BY DEF SeamInv
  <2>2. ASSUME seam[c] = "dispatched", NEW i \in TaskOf(c)
        PROVE  rows[c][i] = {got[c][i]} /\ i \notin erred[c]
    <3>1. Decided(c) /\ AllReleased(c)
      BY <2>2 DEF SeamInv, Placed
    <3>2. i \in DOMAIN got[c] /\ got[c][i].released
      BY <2>1, <3>1, RewrittenGoals DEF AllReleased
    <3> QED
      BY <2>1, <3>2 DEF Traced, TaskTraced, RowsTell
  <2>3. erred[c] \subseteq TaskOf(c)
    BY <2>1 DEF SeamTypeOK
  <2>4. seam[c] = "dispatched" => erred[c] = {}
    BY <2>2, <2>3
  <2> QED
    BY <2>1, <2>2, <2>4 DEF Traced, TaskOf
<1> QED
  BY <1>1, SeamInvariant, PTL

\* The goal a subagent runs is the prompt that its task's row shows.
THEOREM RowShowsWhatRuns == SeamSpec => []RunsTheReleasedPrompt
<1>1. SeamInv => RunsTheReleasedPrompt
  <2> SUFFICES ASSUME SeamInv, NEW c \in Call, seam[c] = "dispatched", Tracked(c), rewriting,
                      NEW i \in TaskOf(c), Tasks[c][i].dict, NEW row \in rows[c][i]
               PROVE  goals[c][i] = row.prompt
    BY DEF RunsTheReleasedPrompt, TaskOf
  <2>1. SeamTypeOK /\ Decided(c) /\ AllReleased(c) /\ TaskTraced(c, i)
    BY DEF SeamInv, Placed, Traced
  <2>2. got[c][i].released /\ RowsTell(rows[c][i], i \in erred[c], got[c][i])
    BY <2>1, RewrittenGoals DEF AllReleased, TaskTraced
  <2>3. row.released /\ i \notin erred[c]
    BY <2>2 DEF RowsTell
  <2> QED
    BY <2>1, <2>3 DEF TaskTraced
<1> QED
  BY <1>1, SeamInvariant, PTL

=============================================================================
