-------------------------- MODULE PluginStartProofs --------------------------
(***************************************************************************)
(* Theorems about the SQLite store (AuditStore) and the start of the       *)
(* processes over it (PluginStart), for every number of processes, ids,    *)
(* attempts, snapshots, names and columns: no id is in the file twice, the *)
(* file implements the append-only log of AuditLog, and a process that is  *)
(* up has a complete file.                                                 *)
(*                                                                         *)
(* The SELECT of append decides nothing by itself: what it saw may be      *)
(* stale when the INSERT runs.  What the proof rests on is that only one   *)
(* connection has the write lock, that rows wait uncommitted in no other   *)
(* connection, and that the INSERT looks at the rows again.                *)
(***************************************************************************)
EXTENDS PluginStart, SequenceTheorems, TLAPS

-----------------------------------------------------------------------------
(* Sequences of ids.                                                        *)

LEMMA AppendedIds ==
  ASSUME NEW S, NEW s \in Seq(S), NEW e \in S
  PROVE  /\ Append(s, e) \in Seq(S)
         /\ ToSet(Append(s, e)) = ToSet(s) \cup {e}
         /\ IsInjective(s) /\ e \notin ToSet(s) => IsInjective(Append(s, e))
<1>1. /\ Append(s, e) \in Seq(S)
      /\ DOMAIN Append(s, e) = 1..(Len(s) + 1) /\ DOMAIN s = 1..Len(s) /\ Len(s) \in Nat
      /\ \A i \in 1..Len(s) : Append(s, e)[i] = s[i]
      /\ Append(s, e)[Len(s) + 1] = e
  OBVIOUS
<1>2. ToSet(Append(s, e)) = ToSet(s) \cup {e}
  <2>1. \A x \in ToSet(Append(s, e)) : x \in ToSet(s) \cup {e}
    BY <1>1 DEF ToSet
  <2>2. \A x \in ToSet(s) \cup {e} : x \in ToSet(Append(s, e))
    BY <1>1 DEF ToSet
  <2> QED
    BY <2>1, <2>2
<1>3. ASSUME IsInjective(s), e \notin ToSet(s) PROVE IsInjective(Append(s, e))
  BY <1>1, <1>3 DEF IsInjective, ToSet
<1> QED
  BY <1>1, <1>2, <1>3

LEMMA JoinedIds ==
  ASSUME NEW S, NEW s \in Seq(S), NEW t \in Seq(S)
  PROVE  /\ s \o t \in Seq(S)
         /\ ToSet(s \o t) = ToSet(s) \cup ToSet(t)
         /\ IsPrefix(s, s \o t)
         /\ IsInjective(s) /\ IsInjective(t) /\ ToSet(s) \cap ToSet(t) = {}
              => IsInjective(s \o t)
<1>1. /\ s \o t \in Seq(S)
      /\ DOMAIN (s \o t) = 1..(Len(s) + Len(t)) /\ DOMAIN s = 1..Len(s) /\ DOMAIN t = 1..Len(t)
      /\ Len(s) \in Nat /\ Len(t) \in Nat /\ Len(s \o t) = Len(s) + Len(t)
      /\ \A i \in 1..Len(s) : (s \o t)[i] = s[i]
      /\ \A i \in 1..Len(t) : (s \o t)[Len(s) + i] = t[i]
      /\ \A i \in (Len(s) + 1)..(Len(s) + Len(t)) :
            i - Len(s) \in 1..Len(t) /\ (s \o t)[i] = t[i - Len(s)]
  OBVIOUS
<1>2. ToSet(s \o t) = ToSet(s) \cup ToSet(t)
  <2>1. \A x \in ToSet(s \o t) : x \in ToSet(s) \cup ToSet(t)
    <3>1. ASSUME NEW i \in 1..(Len(s) + Len(t)) PROVE (s \o t)[i] \in ToSet(s) \cup ToSet(t)
      <4>1. i \in 1..Len(s) \/ i \in (Len(s) + 1)..(Len(s) + Len(t))
        BY <1>1
      <4> QED
        BY <1>1, <4>1 DEF ToSet
    <3> QED
      BY <1>1, <3>1 DEF ToSet
  <2>2. \A i \in 1..Len(s) : s[i] \in ToSet(s \o t)
    BY <1>1 DEF ToSet
  <2>3. \A i \in 1..Len(t) : t[i] \in ToSet(s \o t)
    <3> SUFFICES ASSUME NEW i \in 1..Len(t) PROVE t[i] \in ToSet(s \o t)
      OBVIOUS
    <3>1. Len(s) + i \in DOMAIN (s \o t) /\ (s \o t)[Len(s) + i] = t[i]
      BY <1>1
    <3> QED
      BY <3>1 DEF ToSet
  <2> QED
    BY <1>1, <2>1, <2>2, <2>3 DEF ToSet
<1>3. IsPrefix(s, s \o t)
  <2>1. SubSeq(s \o t, 1, Len(s)) = s /\ SubSeq(s, 1, Len(s)) = s
    BY <1>1, SubSeqOfConcat1, SubSeqFull
  <2> QED
    BY <1>1, <2>1 DEF IsPrefix
<1>4. ASSUME IsInjective(s), IsInjective(t), ToSet(s) \cap ToSet(t) = {}
      PROVE  IsInjective(s \o t)
  <2> SUFFICES ASSUME NEW a \in DOMAIN (s \o t), NEW b \in DOMAIN (s \o t),
                      (s \o t)[a] = (s \o t)[b]
               PROVE  a = b
    BY DEF IsInjective
  <2>1. /\ a \in 1..Len(s) \/ a \in (Len(s) + 1)..(Len(s) + Len(t))
        /\ b \in 1..Len(s) \/ b \in (Len(s) + 1)..(Len(s) + Len(t))
    BY <1>1
  <2>2. CASE a \in 1..Len(s) /\ b \in 1..Len(s)
    BY <1>1, <1>4, <2>2 DEF IsInjective
  <2>3. CASE a \notin 1..Len(s) /\ b \notin 1..Len(s)
    <3>1. /\ a - Len(s) \in 1..Len(t) /\ b - Len(s) \in 1..Len(t)
          /\ t[a - Len(s)] = t[b - Len(s)]
      BY <1>1, <2>1, <2>3
    <3>2. a - Len(s) = b - Len(s)
      BY <1>1, <1>4, <3>1 DEF IsInjective
    <3> QED
      BY <1>1, <3>2
  <2>4. ASSUME NEW i \in 1..Len(s), NEW j \in (Len(s) + 1)..(Len(s) + Len(t))
        PROVE  (s \o t)[i] # (s \o t)[j]
    <3>1. (s \o t)[i] \in ToSet(s)
      BY <1>1 DEF ToSet
    <3>2. (s \o t)[j] \in ToSet(t)
      BY <1>1 DEF ToSet
    <3> QED
      BY <1>4, <3>1, <3>2
  <2> QED
    BY <2>1, <2>2, <2>3, <2>4
<1> QED
  BY <1>1, <1>2, <1>3, <1>4

\* The empty sequence, a prefix of every other.
LEMMA NoIds ==
  ASSUME NEW S
  PROVE  /\ <<>> \in Seq(S)
         /\ ToSet(<<>>) = {} /\ IsInjective(<<>>)
         /\ \A s \in Seq(S) : IsPrefix(s, s) /\ s \o <<>> = s
  BY DEF ToSet, IsInjective, IsPrefix

-----------------------------------------------------------------------------
(* The inductive invariant.                                                 *)

StoreKinds == {"idle", "probe", "insert", "commit", "upsert", "commitPut", "query", "fetch"}

StoreTypeOK ==
    /\ committed \in Seq(Id)
    /\ lock \in [Conn -> {"none", "shared", "reserved", "pending"}]
    /\ inTxn \in [Conn -> BOOLEAN]
    /\ pending \in [Conn -> Seq(Id)]
    /\ op \in [Conn -> [kind : StoreKinds, id : Id \cup {NoId}]]
    /\ acked \in [written : SUBSET Id, found : SUBSET Id]

Writes(c) == lock[c] \in {"reserved", "pending"}

\* One connection: its write lock is inside its transaction, its uncommitted rows are
\* under that lock, once each and none of them in the file; and what it is about to
\* confirm is among them.
ConnInv(c) ==
    /\ Writes(c) => inTxn[c]
    /\ pending[c] # <<>> => Writes(c)
    /\ op[c].kind \in {"probe", "insert", "commit"} => op[c].id \in Id
    /\ op[c].kind \in {"commit", "commitPut"} => Writes(c)
    /\ op[c].kind = "commit" => op[c].id \in ToSet(pending[c])
    /\ IsInjective(pending[c])
    /\ ToSet(pending[c]) \cap ToSet(committed) = {}

StoreInv ==
    /\ StoreTypeOK
    /\ \A c, x \in Conn : Writes(c) /\ Writes(x) => c = x
    /\ \A c \in Conn : ConnInv(c)
    /\ IsInjective(committed)
    /\ acked.written \subseteq ToSet(committed)

LEMMA InitStoreInv == StoreInit => StoreInv
<1> SUFFICES ASSUME StoreInit PROVE StoreInv
  OBVIOUS
<1>1. StoreTypeOK
  BY NoIds DEF StoreInit, StoreTypeOK, Idle, StoreKinds
<1>2. \A c \in Conn : ~Writes(c) /\ ConnInv(c)
  BY NoIds DEF StoreInit, Idle, Writes, ConnInv
<1> QED
  BY <1>1, <1>2, NoIds DEF StoreInit, StoreInv

\* What the rest of the connections need of a step of c: nothing of theirs moves, and c
\* has a write lock only if it had one or could take it.
LEMMA StepOfOne ==
  ASSUME StoreInv, StoreTypeOK', NEW c \in Conn,
         \A x \in Conn \ {c} : /\ lock'[x] = lock[x] /\ inTxn'[x] = inTxn[x]
                               /\ pending'[x] = pending[x] /\ op'[x] = op[x],
         Writes(c)' => Writes(c) \/ CanReserve(c),
         ToSet(committed') \subseteq ToSet(committed) \cup ToSet(pending[c]),
         ConnInv(c)', IsInjective(committed'), acked'.written \subseteq ToSet(committed')
  PROVE  StoreInv'
<1>1. ASSUME NEW x \in Conn, NEW y \in Conn, Writes(x)', Writes(y)', x # y PROVE FALSE
  <2>1. CASE x # c /\ y # c
    BY <1>1, <2>1 DEF StoreInv, Writes
  <2>2. ASSUME NEW z \in Conn \ {c}, Writes(c)', Writes(z)' PROVE FALSE
    BY <2>2 DEF StoreInv, Writes, CanReserve, Others
  <2> QED
    BY <1>1, <2>1, <2>2
<1>2. ASSUME NEW x \in Conn \ {c} PROVE ConnInv(x)'
  <2>1. ConnInv(x)
    BY DEF StoreInv
  <2>2. ToSet(pending[x]) \cap ToSet(committed') = {}
    <3>1. CASE pending[c] = <<>>
      BY <2>1, <3>1, NoIds DEF ConnInv
    <3>2. CASE pending[x] = <<>>
      BY <3>2, NoIds
    <3> QED
      BY <3>1, <3>2 DEF StoreInv, ConnInv
  <2> QED
    BY <2>1, <2>2 DEF ConnInv, Writes
<1> QED
  BY <1>1, <1>2 DEF StoreInv

\* A step of c that inserts nothing and commits nothing.
QuietMove(c) ==
    /\ UNCHANGED <<committed, pending>>
    /\ acked' \in [written : SUBSET Id, found : SUBSET Id] /\ acked'.written = acked.written
    /\ lock' \in [Conn -> {"none", "shared", "reserved", "pending"}]
    /\ inTxn' \in [Conn -> BOOLEAN]
    /\ op' \in [Conn -> [kind : StoreKinds, id : Id \cup {NoId}]]
    /\ \A x \in Conn \ {c} : lock'[x] = lock[x] /\ inTxn'[x] = inTxn[x] /\ op'[x] = op[x]
    /\ Writes(c) => Writes(c)'
    /\ Writes(c)' => inTxn'[c] /\ (Writes(c) \/ CanReserve(c))
    /\ op'[c].kind # "commit"
    /\ op'[c].kind = "commitPut" => Writes(c)'
    /\ op'[c].kind \in {"probe", "insert"} => op'[c].id \in Id

LEMMA QuietStep ==
  ASSUME StoreInv, NEW c \in Conn, QuietMove(c)
  PROVE  StoreInv'
<1>1. StoreTypeOK'
  BY DEF StoreInv, StoreTypeOK, QuietMove
<1>2. ConnInv(c)'
  BY DEF StoreInv, ConnInv, QuietMove
<1> QED
  BY <1>1, <1>2, StepOfOne DEF StoreInv, QuietMove

\* The next statement of an operation, and its end.
Proceeds(c, k) ==
    /\ op' \in [Conn -> [kind : StoreKinds, id : Id \cup {NoId}]]
    /\ op'[c].kind = k /\ op'[c].id = op[c].id
    /\ \A x \in Conn \ {c} : op'[x] = op[x]

LEMMA OpMoves ==
  ASSUME StoreTypeOK, NEW c \in Conn, NEW k \in StoreKinds,
         op' = [op EXCEPT ![c].kind = k]
  PROVE  Proceeds(c, k)
<1>1. op \in [Conn -> [kind : StoreKinds, id : Id \cup {NoId}]]
  BY DEF StoreTypeOK
<1>2. [op[c] EXCEPT !.kind = k] = [kind |-> k, id |-> op[c].id]
  BY <1>1
<1>3. op' = [op EXCEPT ![c] = [kind |-> k, id |-> op[c].id]]
  BY <1>2
<1> QED
  BY <1>1, <1>3 DEF Proceeds

LEMMA OpEnds ==
  ASSUME StoreTypeOK, NEW c \in Conn, EndOp(c)
  PROVE  /\ op' \in [Conn -> [kind : StoreKinds, id : Id \cup {NoId}]]
         /\ op'[c].kind = "idle"
         /\ \A x \in Conn \ {c} : op'[x] = op[x]
  BY DEF StoreTypeOK, EndOp, Idle, StoreKinds

-----------------------------------------------------------------------------
(* Every action keeps it.                                                   *)

LEMMA BeginKeeps ==
  ASSUME StoreInv, NEW c \in Conn, Begin(c)
  PROVE  StoreInv'
<1>1. StoreTypeOK /\ ConnInv(c)
  BY DEF StoreInv
<1> USE <1>1 DEF StoreTypeOK, ConnInv, Writes, StoreKinds, Idle, QuietMove
<1>2. ASSUME NEW i \in Id, BeginAppend(c, i) PROVE QuietMove(c)
  BY <1>2 DEF BeginAppend
<1>3. CASE BeginPut(c)
  BY <1>3, QuietStep DEF BeginPut
<1>4. CASE BeginQuery(c)
  BY <1>4, QuietStep DEF BeginQuery
<1> QED
  BY <1>2, <1>3, <1>4, QuietStep DEF Begin

\* Reads, failed statements and the upsert of a snapshot.
LEMMA QuietKeeps ==
  ASSUME StoreInv, NEW c \in Conn,
         \/ Probe(c) \/ ReadBusy(c) \/ InsertCollides(c) \/ WriteBusy(c) \/ CommitBusy(c)
         \/ Upsert(c) \/ StepQuery(c) \/ EndQuery(c)
  PROVE  StoreInv'
<1>1. StoreTypeOK /\ ConnInv(c)
  BY DEF StoreInv
<1>2. ASSUME Probe(c), op[c].id \notin Visible(c) PROVE Proceeds(c, "insert")
  BY <1>1, <1>2, OpMoves DEF Probe, StoreKinds
<1>3. ASSUME Upsert(c) PROVE Proceeds(c, "commitPut")
  BY <1>1, <1>3, OpMoves DEF Upsert, StoreKinds
<1>4. ASSUME StepQuery(c) PROVE Proceeds(c, "fetch")
  BY <1>1, <1>4, OpMoves DEF StepQuery, StoreKinds
<1>5. AfterRead(c) \in {"none", "shared", "reserved", "pending"}
      /\ (Writes(c) <=> AfterRead(c) \in {"reserved", "pending"})
  BY <1>1 DEF AfterRead, StoreTypeOK, ConnInv, Writes
<1> USE <1>1 DEF StoreTypeOK, ConnInv, Writes, StoreKinds, QuietMove
<1>6. CASE Probe(c)
  <2>1. CASE op[c].id \in Visible(c)
    <3>1. acked' \in [written : SUBSET Id, found : SUBSET Id]
          /\ acked'.written = acked.written
      BY <1>6, <2>1 DEF Probe
    <3> QED
      BY <1>5, <1>6, <2>1, <3>1, OpEnds, QuietStep DEF Probe
  <2>2. CASE op[c].id \notin Visible(c)
    BY <1>2, <1>5, <1>6, <2>2, QuietStep DEF Probe, Proceeds
  <2> QED
    BY <2>1, <2>2
<1>7. CASE ReadBusy(c)
  BY <1>7, OpEnds, QuietStep DEF ReadBusy, Raises
<1>8. CASE InsertCollides(c)
  BY <1>8, OpEnds, QuietStep DEF InsertCollides, Raises, Reserved
<1>9. CASE WriteBusy(c)
  BY <1>9, OpEnds, QuietStep DEF WriteBusy, Raises
<1>10. CASE CommitBusy(c)
  BY <1>10, OpEnds, QuietStep DEF CommitBusy, Raises
<1>11. CASE Upsert(c)
  BY <1>3, <1>11, QuietStep DEF Upsert, Reserved, Proceeds
<1>12. CASE StepQuery(c)
  BY <1>4, <1>12, QuietStep DEF StepQuery, Proceeds
<1>13. CASE EndQuery(c)
  BY <1>5, <1>13, OpEnds, QuietStep DEF EndQuery
<1> QED
  BY <1>6, <1>7, <1>8, <1>9, <1>10, <1>11, <1>12, <1>13

\* The INSERT finds the id neither in the file nor among its own rows, and no other
\* connection has rows of its own while this one has the write lock.
LEMMA InsertKeeps ==
  ASSUME StoreInv, NEW c \in Conn, Insert(c)
  PROVE  StoreInv'
<1>1. StoreTypeOK /\ ConnInv(c)
  BY DEF StoreInv
<1>2. PICK i \in Id : i = op[c].id
  BY <1>1 DEF Insert, ConnInv
<1>3. /\ i \notin ToSet(committed) /\ i \notin ToSet(pending[c])
      /\ pending[c] \in Seq(Id) /\ IsInjective(pending[c])
      /\ ToSet(pending[c]) \cap ToSet(committed) = {}
  BY <1>1, <1>2 DEF Insert, Visible, StoreTypeOK, ConnInv
<1>4. PICK rows \in Seq(Id) :
         /\ rows = Append(pending[c], i) /\ ToSet(rows) = ToSet(pending[c]) \cup {i}
         /\ IsInjective(rows)
  BY <1>3, AppendedIds
<1>5. /\ op' \in [Conn -> [kind : StoreKinds, id : Id \cup {NoId}]]
      /\ op'[c].kind = "commit" /\ op'[c].id = i
      /\ \A x \in Conn \ {c} : op'[x] = op[x]
  BY <1>1, <1>2, OpMoves DEF Insert, StoreKinds, Proceeds
<1>6. /\ pending' = [pending EXCEPT ![c] = rows] /\ inTxn' = [inTxn EXCEPT ![c] = TRUE]
      /\ lock' = [lock EXCEPT ![c] = Reserved(lock[c])] /\ UNCHANGED <<committed, acked>>
      /\ Reserved(lock[c]) \in {"reserved", "pending"}
  BY <1>2, <1>4 DEF Insert, Reserved
<1>7. StoreTypeOK'
  BY <1>1, <1>5, <1>6 DEF StoreTypeOK
<1>8. /\ lock'[c] \in {"reserved", "pending"} /\ inTxn'[c] = TRUE /\ pending'[c] = rows
      /\ \A x \in Conn \ {c} : /\ lock'[x] = lock[x] /\ inTxn'[x] = inTxn[x]
                               /\ pending'[x] = pending[x]
  BY <1>1, <1>6 DEF StoreTypeOK
<1>9. ConnInv(c)'
  BY <1>2, <1>3, <1>4, <1>5, <1>6, <1>8 DEF ConnInv, Writes
<1>10. Writes(c)' => Writes(c) \/ CanReserve(c)
  BY DEF Insert
<1> QED
  BY <1>5, <1>6, <1>7, <1>8, <1>9, <1>10, StepOfOne DEF StoreInv

\* What a commit writes, whoever inserted it.
LEMMA FlushWrites ==
  ASSUME StoreInv, NEW c \in Conn, Flush(c)
  PROVE  /\ committed' \in Seq(Id) /\ IsPrefix(committed, committed')
         /\ ToSet(committed') = ToSet(committed) \cup ToSet(pending[c])
         /\ IsInjective(committed')
<1>1. committed \in Seq(Id) /\ pending[c] \in Seq(Id) /\ committed' = committed \o pending[c]
      /\ IsInjective(committed) /\ ConnInv(c)
  BY DEF Flush, StoreInv, StoreTypeOK
<1> QED
  BY <1>1, JoinedIds DEF ConnInv

\* After a commit, as after a rollback, the connection holds nothing.
HoldsNothing(c) ==
    /\ pending' = [pending EXCEPT ![c] = <<>>]
    /\ lock' = [lock EXCEPT ![c] = "none"]
    /\ inTxn' = [inTxn EXCEPT ![c] = FALSE]
    /\ EndOp(c)

LEMMA EndsEmpty ==
  ASSUME StoreInv, NEW c \in Conn, HoldsNothing(c), committed' \in Seq(Id),
         acked' \in [written : SUBSET Id, found : SUBSET Id],
         ToSet(committed') \subseteq ToSet(committed) \cup ToSet(pending[c]),
         IsInjective(committed'), acked'.written \subseteq ToSet(committed')
  PROVE  StoreInv'
<1>1. StoreTypeOK
  BY DEF StoreInv
<1>2. /\ op' \in [Conn -> [kind : StoreKinds, id : Id \cup {NoId}]]
      /\ op'[c].kind = "idle" /\ \A x \in Conn \ {c} : op'[x] = op[x]
  BY <1>1, OpEnds DEF HoldsNothing
<1>3. <<>> \in Seq(Id) /\ ToSet(<<>>) = {} /\ IsInjective(<<>>)
  BY NoIds
<1>4. StoreTypeOK'
  BY <1>1, <1>2, <1>3 DEF StoreTypeOK, HoldsNothing
<1>5. /\ lock'[c] = "none" /\ pending'[c] = <<>>
      /\ \A x \in Conn \ {c} : /\ lock'[x] = lock[x] /\ inTxn'[x] = inTxn[x]
                               /\ pending'[x] = pending[x]
  BY <1>1 DEF StoreTypeOK, HoldsNothing
<1>6. ConnInv(c)' /\ ~Writes(c)'
  BY <1>2, <1>3, <1>5 DEF ConnInv, Writes
<1> QED
  BY <1>2, <1>4, <1>5, <1>6, StepOfOne

LEMMA CommitKeeps ==
  ASSUME StoreInv, NEW c \in Conn, CommitRow(c) \/ CommitPut(c)
  PROVE  StoreInv'
<1>1. /\ acked \in [written : SUBSET Id, found : SUBSET Id]
      /\ acked.written \subseteq ToSet(committed) /\ ConnInv(c)
  BY DEF StoreInv, StoreTypeOK
<1>2. Flush(c) /\ HoldsNothing(c)
  BY DEF CommitRow, CommitPut, Flush, HoldsNothing
<1>3. /\ committed' \in Seq(Id) /\ IsInjective(committed')
      /\ ToSet(committed') = ToSet(committed) \cup ToSet(pending[c])
  BY <1>2, FlushWrites
<1>4. CASE CommitRow(c)
  <2>1. op[c].id \in ToSet(pending[c]) /\ op[c].id \in Id
    BY <1>1, <1>4 DEF CommitRow, ConnInv
  <2>2. acked' \in [written : SUBSET Id, found : SUBSET Id]
        /\ acked'.written = acked.written \cup {op[c].id}
    BY <1>1, <1>4, <2>1 DEF CommitRow
  <2> QED
    BY <1>1, <1>2, <1>3, <2>1, <2>2, EndsEmpty
<1>5. CASE CommitPut(c)
  <2>1. acked' = acked
    BY <1>5 DEF CommitPut
  <2> QED
    BY <1>1, <1>2, <1>3, <2>1, EndsEmpty
<1> QED
  BY <1>4, <1>5

\* A rollback takes back rows that nobody was told of.
LEMMA DiesKeeps ==
  ASSUME StoreInv, NEW c \in Conn, Dies(c)
  PROVE  StoreInv'
  BY EndsEmpty DEF Dies, HoldsNothing, StoreInv, StoreTypeOK

LEMMA StepStoreInv == StoreInv /\ [StoreNext]_storeVars => StoreInv'
<1> SUFFICES ASSUME StoreInv, [StoreNext]_storeVars PROVE StoreInv'
  OBVIOUS
<1>1. ASSUME NEW c \in Conn, Begin(c) \/ Continue(c) \/ Dies(c) PROVE StoreInv'
  BY <1>1, BeginKeeps, QuietKeeps, InsertKeeps, CommitKeeps, DiesKeeps DEF Continue
<1>2. CASE UNCHANGED storeVars
  BY <1>2 DEF storeVars, StoreInv, StoreTypeOK, ConnInv, Writes
<1> QED
  BY <1>1, <1>2 DEF StoreNext

THEOREM StoreInvariant == StoreSpec => []StoreInv
  BY InitStoreInv, StepStoreInv, PTL DEF StoreSpec

-----------------------------------------------------------------------------
(* What follows.                                                            *)

\* No interleaving of SELECT, INSERT, commit, failure and death in any number of
\* processes puts an id into the file twice (append).
THEOREM EveryIdOnce == StoreSpec => []OneRowPerId
<1>1. StoreInv => OneRowPerId
  BY DEF StoreInv, OneRowPerId
<1> QED
  BY <1>1, StoreInvariant, PTL

\* The file only changes by a commit, which adds rows at its end.
LEMMA FileChanges ==
  ASSUME StoreInv, [StoreNext]_storeVars
  PROVE  /\ IsPrefix(committed, committed')
         /\ acked.written \subseteq acked'.written
<1> USE DEF StoreInv, StoreTypeOK
<1>1. ASSUME NEW c \in Conn, Flush(c) PROVE IsPrefix(committed, committed')
  BY <1>1, FlushWrites
<1>2. IsPrefix(committed, committed)
  BY NoIds
<1>3. ASSUME NEW c \in Conn, CommitRow(c) \/ CommitPut(c)
      PROVE  /\ IsPrefix(committed, committed')
             /\ acked.written \subseteq acked'.written
  BY <1>1, <1>3 DEF CommitRow, CommitPut
<1>4. ASSUME NEW c \in Conn, Probe(c)
      PROVE  committed' = committed /\ acked'.written = acked.written
  BY <1>4 DEF Probe
<1>5. ASSUME UNCHANGED <<committed, acked>>
      PROVE  /\ IsPrefix(committed, committed')
             /\ acked.written \subseteq acked'.written
  BY <1>2, <1>5
<1> QED
  BY <1>2, <1>3, <1>4, <1>5 DEF StoreNext, storeVars, Begin, BeginAppend, BeginPut, BeginQuery,
     Continue, ReadBusy, Raises, Insert, InsertCollides, WriteBusy, CommitBusy, Upsert,
     StepQuery, EndQuery, Dies

\* The file is the append-only log that core/store.py promises: rows are only added, each
\* id once, and no append is confirmed to its caller before its row is in the file.
THEOREM FileImplementsLog == StoreSpec => ImplementsLog
<1>1. StoreInit => Log!LogInit
  BY DEF StoreInit, Log!LogInit
<1>2. StoreInv /\ StoreInv' /\ [StoreNext]_storeVars => [Log!Grow]_(Log!logVars)
  BY FileChanges DEF StoreInv, Log!Grow, Log!IsPrefix, Log!IsInjective, Log!ToSet,
     IsPrefix, IsInjective, ToSet
<1> QED
  BY <1>1, <1>2, StoreInvariant, PTL DEF StoreSpec, ImplementsLog, Log!LogSpec

-----------------------------------------------------------------------------
(* The processes that start over the store.                                 *)

\* Starting up does to the store only what the store's own steps do, and where a
\* process ends it is the store's death of a connection or nothing.
THEOREM StartKeepsTheStore == StartSpec => StoreSpec
<1>1. StartInit => StoreInit
  BY DEF StartInit
<1>2. [StartNext]_<<storeVars, startVars>> => [StoreNext]_storeVars
  BY DEF StartNext, StoreNext, Begin, Launch, Create, EndScript, Inspect, AddColumn, Opened,
         OpenRaises, BuildGate, NoGate, RegisterBlockSeam, RegisterRewriteSeam,
         RegisterObservers, RegisterRaises, Use, Ends
<1> QED
  BY <1>1, <1>2, PTL DEF StartSpec, StoreSpec

\* So the store is still what was shown of it above, whichever processes come up
\* over the file and end while others append: no id is in it twice ...
THEOREM StartsKeepEveryIdOnce == StartSpec => []OneRowPerId
  BY StartKeepsTheStore, EveryIdOnce, PTL

\* ... and it implements the append-only log.
THEOREM StartsImplementLog == StartSpec => ImplementsLog
  BY StartKeepsTheStore, FileImplementsLog, PTL

-----------------------------------------------------------------------------
(* The file of a process with a gate.                                       *)

StartTypeOK ==
    /\ columns \subseteq AllColumns
    /\ start \in [Conn -> {"off", "script", "inspect", "migrate", "build", "register",
                           "up", "broken"}]
    /\ existing \in [Conn -> SUBSET AllColumns]
    /\ open \in [Conn -> BOOLEAN]
    /\ gate \in [Conn -> BOOLEAN]
    /\ hooks \in [Conn -> SUBSET ({"pre_tool_call", "tool_request"} \cup Observers)]

\* What an opening process has found or made is there for good.
FileInv ==
    /\ StartTypeOK
    /\ \A c \in Conn :
          /\ existing[c] \subseteq columns
          /\ start[c] \in {"inspect", "migrate"} => Names \subseteq made
          /\ open[c] => Names \subseteq made /\ AllColumns \subseteq columns
          /\ gate[c] => open[c]

LEMMA InitFileInv == StartInit => FileInv
  BY DEF StartInit, FileInv, StartTypeOK

\* Names and columns are only ever added.
LEMMA FileGrows ==
  ASSUME StartTypeOK, [StartNext]_<<storeVars, startVars>>
  PROVE  made \subseteq made' /\ columns \subseteq columns' /\ columns' \subseteq AllColumns
<1> USE DEF StartTypeOK
<1>1. ASSUME NEW c \in Conn, Create(c)
      PROVE  made \subseteq made' /\ columns \subseteq columns' /\ columns' \subseteq AllColumns
  BY <1>1 DEF Create
<1>2. ASSUME NEW c \in Conn, AddColumn(c)
      PROVE  made \subseteq made' /\ columns \subseteq columns' /\ columns' \subseteq AllColumns
  BY <1>2 DEF AddColumn, AllColumns
<1>3. CASE UNCHANGED <<made, columns>>
  BY <1>3
<1> QED
  BY <1>1, <1>2, <1>3 DEF StartNext, startVars, Launch, EndScript, Inspect, Opened, OpenRaises,
     BuildGate, NoGate, RegisterBlockSeam, RegisterRewriteSeam, RegisterObservers,
     RegisterRaises, Use, Ends

LEMMA StepFileInv == FileInv /\ [StartNext]_<<storeVars, startVars>> => FileInv'
<1> SUFFICES ASSUME FileInv, [StartNext]_<<storeVars, startVars>> PROVE FileInv'
  OBVIOUS
<1>0. made \subseteq made' /\ columns \subseteq columns' /\ columns' \subseteq AllColumns
  BY FileGrows DEF FileInv
<1> USE <1>0 DEF FileInv, StartTypeOK, Goto
<1>1. ASSUME NEW c \in Conn, Launch(c) PROVE FileInv'
  BY <1>1 DEF Launch
<1>2. ASSUME NEW c \in Conn, Create(c) PROVE FileInv'
  BY <1>2 DEF Create
<1>3. ASSUME NEW c \in Conn, EndScript(c) PROVE FileInv'
  BY <1>3 DEF EndScript
<1>4. ASSUME NEW c \in Conn, Inspect(c) PROVE FileInv'
  BY <1>4 DEF Inspect
<1>5. ASSUME NEW c \in Conn, AddColumn(c) PROVE FileInv'
  BY <1>5 DEF AddColumn, AllColumns
<1>6. ASSUME NEW c \in Conn, Opened(c) PROVE FileInv'
  BY <1>6 DEF Opened
<1>7. ASSUME NEW c \in Conn, OpenRaises(c) PROVE FileInv'
  BY <1>7 DEF OpenRaises
<1>8. ASSUME NEW c \in Conn, BuildGate(c) \/ NoGate(c) PROVE FileInv'
  BY <1>8 DEF BuildGate, NoGate
<1>9. ASSUME NEW c \in Conn, RegisterBlockSeam(c) \/ RegisterRewriteSeam(c) PROVE FileInv'
  BY <1>9 DEF RegisterBlockSeam, RegisterRewriteSeam
<1>10. ASSUME NEW c \in Conn, RegisterObservers(c) PROVE FileInv'
  BY <1>10 DEF RegisterObservers
<1>11. ASSUME NEW c \in Conn, RegisterRaises(c) PROVE FileInv'
  BY <1>11 DEF RegisterRaises
<1>12. ASSUME NEW c \in Conn, Ends(c) PROVE FileInv'
  BY <1>12 DEF Ends
<1>13. CASE UNCHANGED startVars
  BY <1>13 DEF startVars
<1> QED
  BY <1>1, <1>2, <1>3, <1>4, <1>5, <1>6, <1>7, <1>8, <1>9, <1>10, <1>11, <1>12, <1>13
     DEF StartNext, Use

\* A process with a store or a gate finds every name and every column, whichever
\* processes opened the file with it and wherever they stopped.
THEOREM GatesFindTheirColumns == StartSpec => []GatesCanWrite
<1>1. FileInv => GatesCanWrite
  BY DEF FileInv, GatesCanWrite
<1> QED
  BY <1>1, InitFileInv, StepFileInv, PTL DEF StartSpec

-----------------------------------------------------------------------------
(* The order of registration.                                               *)

AppendKinds == {"probe", "insert", "commit"}

\* The part of the invariant that is about operations under way.
Kinds == {"idle", "probe", "insert", "commit", "upsert", "commitPut", "query", "fetch"}

OpTypeOK == op \in [Conn -> [kind : Kinds, id : Id \cup {NoId}]]

SeamInv == StartTypeOK /\ OpTypeOK /\ NothingWithoutTheBlockSeam

\* An operation that is replaced by one which is no append, or by an append where
\* there was one.
LEMMA OpReplaced ==
  ASSUME OpTypeOK, NEW c \in Conn, NEW kind \in Kinds, NEW id \in Id \cup {NoId},
         op' = [op EXCEPT ![c] = [kind |-> kind, id |-> id]],
         kind \in AppendKinds => op[c].kind \in AppendKinds
  PROVE  /\ OpTypeOK'
         /\ \A d \in Conn : op'[d].kind \in AppendKinds => op[d].kind \in AppendKinds
  BY DEF OpTypeOK

\* The same where only the kind changes.
LEMMA KindReplaced ==
  ASSUME OpTypeOK, NEW c \in Conn, NEW kind \in Kinds,
         op' = [op EXCEPT ![c].kind = kind],
         kind \in AppendKinds => op[c].kind \in AppendKinds
  PROVE  /\ OpTypeOK'
         /\ \A d \in Conn : op'[d].kind \in AppendKinds => op[d].kind \in AppendKinds
<1>1. op[c] \in [kind : Kinds, id : Id \cup {NoId}]
  BY DEF OpTypeOK
<1>2. [op[c] EXCEPT !.kind = kind] = [kind |-> kind, id |-> op[c].id]
  BY <1>1
<1>3. op' = [op EXCEPT ![c] = [kind |-> kind, id |-> op[c].id]]
  BY <1>2
<1> QED
  BY <1>1, <1>3, OpReplaced

\* The end of an operation.
LEMMA OpEnded ==
  ASSUME OpTypeOK, NEW c \in Conn, EndOp(c)
  PROVE  /\ OpTypeOK'
         /\ \A d \in Conn : op'[d].kind \in AppendKinds => op[d].kind \in AppendKinds
  BY OpReplaced DEF EndOp, Idle, Kinds, AppendKinds

\* Only BeginAppend makes an append of something else.
LEMMA NoNewAppend ==
  ASSUME OpTypeOK, NEW c \in Conn, BeginPut(c) \/ BeginQuery(c) \/ Continue(c)
  PROVE  /\ OpTypeOK'
         /\ \A d \in Conn : op'[d].kind \in AppendKinds => op[d].kind \in AppendKinds
<1> USE DEF Kinds, AppendKinds
<1>1. CASE BeginPut(c)
  BY <1>1, OpReplaced DEF BeginPut
<1>2. CASE BeginQuery(c)
  BY <1>2, OpReplaced DEF BeginQuery
<1>3. CASE Probe(c)
  BY <1>3, KindReplaced, OpEnded DEF Probe
<1>4. CASE Insert(c)
  BY <1>4, KindReplaced DEF Insert
<1>5. CASE Upsert(c)
  BY <1>5, KindReplaced DEF Upsert
<1>6. CASE StepQuery(c)
  BY <1>6, KindReplaced DEF StepQuery
<1>7. CASE ReadBusy(c) \/ InsertCollides(c) \/ WriteBusy(c) \/ CommitBusy(c)
  BY <1>7, OpEnded DEF ReadBusy, InsertCollides, WriteBusy, CommitBusy, Raises
<1>8. CASE CommitRow(c) \/ CommitPut(c) \/ EndQuery(c)
  BY <1>8, OpEnded DEF CommitRow, CommitPut, EndQuery
<1> QED
  BY <1>1, <1>2, <1>3, <1>4, <1>5, <1>6, <1>7, <1>8 DEF Continue

LEMMA StepSeamInv == FileInv' /\ SeamInv /\ [StartNext]_<<storeVars, startVars>> => SeamInv'
<1> SUFFICES ASSUME FileInv', SeamInv, [StartNext]_<<storeVars, startVars>> PROVE SeamInv'
  OBVIOUS
<1>1. StartTypeOK'
  BY DEF FileInv
<1> USE <1>1 DEF SeamInv, NothingWithoutTheBlockSeam
<1>2. ASSUME NEW c \in Conn, Use(c) PROVE SeamInv'
  <2>1. UNCHANGED <<gate, hooks>>
    BY <1>2 DEF Use, startVars
  <2>2. CASE BeginPut(c) \/ BeginQuery(c) \/ Continue(c)
    BY <2>1, <2>2, NoNewAppend DEF AppendKinds
  <2>3. ASSUME NEW i \in Id, gate[c], hooks[c] # {}, BeginAppend(c, i) PROVE SeamInv'
    <3>1. op' = [op EXCEPT ![c] = [kind |-> "probe", id |-> i]]
      BY <2>3 DEF BeginAppend
    <3>2. OpTypeOK'
      BY <3>1 DEF OpTypeOK, Kinds
    <3>3. \A d \in Conn \ {c} : op'[d] = op[d]
      BY <3>1 DEF OpTypeOK
    <3> QED
      BY <2>1, <2>3, <3>2, <3>3
  <2> QED
    BY <1>2, <2>2, <2>3 DEF Use
<1>3. ASSUME NEW c \in Conn, Ends(c) PROVE SeamInv'
  <2>1. op'[c].kind = "idle" /\ OpTypeOK' /\ \A d \in Conn \ {c} : op'[d] = op[d]
    BY <1>3 DEF Ends, Dies, EndOp, Idle, storeVars, OpTypeOK, Kinds
  <2>2. \A d \in Conn \ {c} : gate'[d] = gate[d] /\ hooks'[d] = hooks[d]
    BY <1>3 DEF Ends, StartTypeOK
  <2>3. hooks'[c] = {}
    BY <1>3 DEF Ends, StartTypeOK
  <2> QED
    BY <2>1, <2>2, <2>3
<1>4. ASSUME NEW c \in Conn, BuildGate(c) PROVE SeamInv'
  BY <1>4 DEF BuildGate, storeVars, OpTypeOK, StartTypeOK
<1>5. ASSUME NEW c \in Conn, RegisterBlockSeam(c) \/ RegisterRewriteSeam(c) PROVE SeamInv'
  BY <1>5 DEF RegisterBlockSeam, RegisterRewriteSeam, storeVars, OpTypeOK, StartTypeOK
<1>6. ASSUME NEW c \in Conn, RegisterObservers(c) PROVE SeamInv'
  BY <1>6 DEF RegisterObservers, storeVars, OpTypeOK, StartTypeOK
<1>7. CASE UNCHANGED <<storeVars, gate, hooks>>
  BY <1>7 DEF storeVars, OpTypeOK
<1> QED
  BY <1>2, <1>3, <1>4, <1>5, <1>6, <1>7
     DEF StartNext, startVars, Launch, Create, EndScript, Inspect, AddColumn, Opened,
         OpenRaises, NoGate, RegisterRaises

\* No registration order, failure or death leaves a process with hooks and without the
\* seam that blocks, and only processes with a gate append.
THEOREM BlockSeamComesFirst == StartSpec => []NothingWithoutTheBlockSeam
<1>1. StartInit => FileInv /\ SeamInv
  BY InitFileInv DEF StartInit, StoreInit, FileInv, SeamInv, OpTypeOK, Idle, Kinds,
     NothingWithoutTheBlockSeam
<1>2. FileInv /\ SeamInv /\ [StartNext]_<<storeVars, startVars>> => (FileInv /\ SeamInv)'
  BY StepFileInv, StepSeamInv
<1>3. FileInv /\ SeamInv => NothingWithoutTheBlockSeam
  BY DEF SeamInv
<1> QED
  BY <1>1, <1>2, <1>3, PTL DEF StartSpec

=============================================================================
