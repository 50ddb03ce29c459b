----------------------------- MODULE AuditStore -----------------------------
(***************************************************************************)
(* The SQLite audit store (core/store_sqlite.py) shared by processes.      *)
(*                                                                         *)
(* Every process (the agent, a dashboard, the MCP server) opens the file   *)
(* with one connection and a lock that makes its operations one at a time. *)
(* Connections of different processes meet in SQLite's file locks: a       *)
(* statement that cannot get its lock within the busy timeout raises       *)
(* "database is locked".  Python opens a transaction before the first      *)
(* INSERT and closes it at commit(); nothing here ever rolls one back.     *)
(*                                                                         *)
(* SQLite itself is external: the rollback-journal locks (shared,          *)
(* reserved, pending) and what a failed statement leaves behind.           *)
(***************************************************************************)
EXTENDS Naturals, Sequences, SequencesExt

CONSTANTS
    Conn,        \* the processes, each with its connection
    Id,          \* record ids
    MaxAttempts, \* bound: how often append is called with one id
    MaxPuts      \* bound: progress snapshots stored

ASSUME StoreAssumption == MaxAttempts \in Nat /\ MaxPuts \in Nat

NoId == "none"

VARIABLES
    committed, \* ids of the rows in the file, in commit order
    mirror,    \* the progress snapshot in the file
    lock,      \* the file lock each connection holds
    inTxn,     \* a transaction is open on the connection
    pending,   \* rows inserted in it
    pendPut,   \* the snapshot upserted in it, 0 for none
    op,        \* the operation inside the connection's lock
    attempts,  \* calls of append per id
    puts,      \* ghost: snapshots numbered so far
    acked      \* ghost: ids whose append returned, having written its row or
               \* having found one

storeVars == <<committed, mirror, lock, inTxn, pending, pendPut, op,
               attempts, puts, acked>>

Idle == [kind |-> "idle", id |-> NoId]

StoreInit ==
    /\ committed = <<>>
    /\ mirror = 0
    /\ lock = [c \in Conn |-> "none"]
    /\ inTxn = [c \in Conn |-> FALSE]
    /\ pending = [c \in Conn |-> <<>>]
    /\ pendPut = [c \in Conn |-> 0]
    /\ op = [c \in Conn |-> Idle]
    /\ attempts = [i \in Id |-> 0]
    /\ puts = 0
    /\ acked = [written |-> {}, found |-> {}]

-----------------------------------------------------------------------------
(* SQLite's locks.                                                          *)

Others(c) == Conn \ {c}

CanRead(c) == \A x \in Others(c) : lock[x] # "pending"

CanReserve(c) == \A x \in Others(c) : lock[x] \notin {"reserved", "pending"}

CanCommit(c) == \A x \in Others(c) : lock[x] = "none"

\* A write lock that a failed commit has raised to pending stays there.
Reserved(l) == IF l = "pending" THEN l ELSE "reserved"

\* A finished read gives its lock back, unless a transaction keeps it.
AfterRead(c) ==
    IF ~inTxn[c] THEN "none" ELSE IF lock[c] = "none" THEN "shared" ELSE lock[c]

\* The rows a statement of c sees: the file's and its own uncommitted ones.
Visible(c) == ToSet(committed) \cup ToSet(pending[c])

EndOp(c) == op' = [op EXCEPT ![c] = Idle]

\* The statement gave up after the busy timeout; the exception ends the operation.
Raises(c) ==
    /\ EndOp(c)
    /\ UNCHANGED <<committed, mirror, pending, pendPut, attempts, puts, acked>>

-----------------------------------------------------------------------------
(* append(record)                                                           *)

BeginAppend(c, i) ==
    /\ op[c] = Idle
    /\ attempts[i] < MaxAttempts
    /\ attempts' = [attempts EXCEPT ![i] = @ + 1]
    /\ op' = [op EXCEPT ![c] = [kind |-> "probe", id |-> i]]
    /\ UNCHANGED <<committed, mirror, lock, inTxn, pending, pendPut, puts, acked>>

\* SELECT 1 ... WHERE id = ?: a row that is there makes the call a no-op.
Probe(c) ==
    /\ op[c].kind = "probe"
    /\ CanRead(c)
    /\ lock' = [lock EXCEPT ![c] = AfterRead(c)]
    /\ IF op[c].id \in Visible(c)
       THEN /\ acked' = [acked EXCEPT !.found = @ \cup {op[c].id}]
            /\ EndOp(c)
       ELSE /\ op' = [op EXCEPT ![c].kind = "insert"]
            /\ UNCHANGED acked
    /\ UNCHANGED <<committed, mirror, inTxn, pending, pendPut, attempts, puts>>

ReadBusy(c) ==
    /\ op[c].kind \in {"probe", "query"}
    /\ ~CanRead(c)
    /\ Raises(c)
    /\ UNCHANGED <<lock, inTxn>>

MutantInsertOrReplace(c) ==
    /\ op[c].kind = "insert"
    /\ CanReserve(c)
    /\ lock' = [lock EXCEPT ![c] = Reserved(@)]
    /\ inTxn' = [inTxn EXCEPT ![c] = TRUE]
    /\ pending' = [pending EXCEPT ![c] = Append(@, op[c].id)]
    /\ op' = [op EXCEPT ![c].kind = "commit"]
    /\ UNCHANGED <<committed, mirror, pendPut, attempts, puts, acked>>

Insert(c) ==
    /\ op[c].kind = "insert"
    /\ CanReserve(c)
    /\ op[c].id \notin Visible(c)
    /\ lock' = [lock EXCEPT ![c] = Reserved(@)]
    /\ inTxn' = [inTxn EXCEPT ![c] = TRUE]
    /\ pending' = [pending EXCEPT ![c] = Append(@, op[c].id)]
    /\ op' = [op EXCEPT ![c].kind = "commit"]
    /\ UNCHANGED <<committed, mirror, pendPut, attempts, puts, acked>>

\* The row arrived from another process between the SELECT and the INSERT:
\* ImmutabilityError, and the transaction with its lock stays open.
InsertCollides(c) ==
    /\ op[c].kind = "insert"
    /\ CanReserve(c)
    /\ op[c].id \in Visible(c)
    /\ lock' = [lock EXCEPT ![c] = Reserved(@)]
    /\ inTxn' = [inTxn EXCEPT ![c] = TRUE]
    /\ Raises(c)

\* The implicit BEGIN has run: the transaction is open without a write lock.
WriteBusy(c) ==
    /\ op[c].kind \in {"insert", "upsert"}
    /\ ~CanReserve(c)
    /\ inTxn' = [inTxn EXCEPT ![c] = TRUE]
    /\ Raises(c)
    /\ UNCHANGED lock

\* commit() writes everything the open transaction holds, whoever inserted it.
Flush(c) ==
    /\ committed' = committed \o pending[c]
    /\ mirror' = IF pendPut[c] = 0 THEN mirror ELSE pendPut[c]
    /\ pending' = [pending EXCEPT ![c] = <<>>]
    /\ pendPut' = [pendPut EXCEPT ![c] = 0]
    /\ lock' = [lock EXCEPT ![c] = "none"]
    /\ inTxn' = [inTxn EXCEPT ![c] = FALSE]

MutantNoCommit(c) ==
    /\ op[c].kind = "commit"
    /\ acked' = [acked EXCEPT !.written = @ \cup {op[c].id}]
    /\ EndOp(c)
    /\ UNCHANGED <<committed, mirror, lock, inTxn, pending, pendPut, attempts, puts>>

CommitRow(c) ==
    /\ op[c].kind = "commit"
    /\ CanCommit(c)
    /\ Flush(c)
    /\ acked' = [acked EXCEPT !.written = @ \cup {op[c].id}]
    /\ EndOp(c)
    /\ UNCHANGED <<attempts, puts>>

\* Readers of other processes did not go away: the lock is kept at "pending".
CommitBusy(c) ==
    /\ op[c].kind \in {"commit", "commitPut"}
    /\ ~CanCommit(c)
    /\ lock' = [lock EXCEPT ![c] = "pending"]
    /\ Raises(c)
    /\ UNCHANGED inTxn

-----------------------------------------------------------------------------
(* put_progress_snapshot(snapshot), and a query that takes a while.         *)

BeginPut(c) ==
    /\ op[c] = Idle
    /\ puts < MaxPuts
    /\ op' = [op EXCEPT ![c] = [kind |-> "upsert", id |-> NoId]]
    /\ UNCHANGED <<committed, mirror, lock, inTxn, pending, pendPut, attempts, puts, acked>>

Upsert(c) ==
    /\ op[c].kind = "upsert"
    /\ CanReserve(c)
    /\ puts < MaxPuts
    /\ puts' = puts + 1
    /\ pendPut' = [pendPut EXCEPT ![c] = puts']
    /\ lock' = [lock EXCEPT ![c] = Reserved(@)]
    /\ inTxn' = [inTxn EXCEPT ![c] = TRUE]
    /\ op' = [op EXCEPT ![c].kind = "commitPut"]
    /\ UNCHANGED <<committed, mirror, pending, attempts, acked>>

CommitPut(c) ==
    /\ op[c].kind = "commitPut"
    /\ CanCommit(c)
    /\ Flush(c)
    /\ EndOp(c)
    /\ UNCHANGED <<attempts, puts, acked>>

BeginQuery(c) ==
    /\ op[c] = Idle
    /\ op' = [op EXCEPT ![c] = [kind |-> "query", id |-> NoId]]
    /\ UNCHANGED <<committed, mirror, lock, inTxn, pending, pendPut, attempts, puts, acked>>

\* fetchall() holds the shared lock while it steps through the rows.
StepQuery(c) ==
    /\ op[c].kind = "query"
    /\ CanRead(c)
    /\ lock' = [lock EXCEPT ![c] = IF @ = "none" THEN "shared" ELSE @]
    /\ op' = [op EXCEPT ![c].kind = "fetch"]
    /\ UNCHANGED <<committed, mirror, inTxn, pending, pendPut, attempts, puts, acked>>

EndQuery(c) ==
    /\ op[c].kind = "fetch"
    /\ lock' = [lock EXCEPT ![c] = AfterRead(c)]
    /\ EndOp(c)
    /\ UNCHANGED <<committed, mirror, inTxn, pending, pendPut, attempts, puts, acked>>

-----------------------------------------------------------------------------

\* The process dies at any point; SQLite rolls its transaction back.
Dies(c) ==
    /\ op[c] # Idle \/ inTxn[c]
    /\ pending' = [pending EXCEPT ![c] = <<>>]
    /\ pendPut' = [pendPut EXCEPT ![c] = 0]
    /\ lock' = [lock EXCEPT ![c] = "none"]
    /\ inTxn' = [inTxn EXCEPT ![c] = FALSE]
    /\ EndOp(c)
    /\ UNCHANGED <<committed, mirror, attempts, puts, acked>>

\* The caller begins an operation.
Begin(c) ==
    \/ \E i \in Id : BeginAppend(c, i)
    \/ BeginPut(c)
    \/ BeginQuery(c)

\* The operation goes on.
Continue(c) ==
    \/ Probe(c) \/ ReadBusy(c)
    \/ Insert(c) \/ InsertCollides(c) \/ WriteBusy(c)
    \/ CommitRow(c) \/ CommitBusy(c)
    \/ Upsert(c) \/ CommitPut(c)
    \/ StepQuery(c) \/ EndQuery(c)

StoreNext == \E c \in Conn : Begin(c) \/ Continue(c) \/ Dies(c)

StoreSpec == StoreInit /\ [][StoreNext]_storeVars

-----------------------------------------------------------------------------
(* Properties.                                                              *)

\* However the appends of an id interleave, fail and are retried, in one process or
\* in several, the file never holds it twice (the SELECT, the primary key and the
\* write lock together).
OneRowPerId == IsInjective(committed)

\* "Idempotent on id: a retried write of the same dispatch is a no-op ...
\* (retries/backoff safe)" (core/store_sqlite.py:158): then an append that returned
\* has its row in the file, also when it was a retry and found the row.
AckedIsInTheFile == acked.written \cup acked.found \subseteq ToSet(committed)

\* The file implements an append-only log of distinct rows, in which a row is in the
\* log before the append that wrote it is confirmed to its caller.
Log == INSTANCE AuditLog WITH log <- committed, confirmed <- acked.written

ImplementsLog == Log!LogSpec

=============================================================================
