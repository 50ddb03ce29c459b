----------------------------- MODULE PluginStart -----------------------------
(***************************************************************************)
(* How a process comes up (register of __init__.py): it opens the audit    *)
(* file, which may be new, complete or of an older release, builds the     *)
(* gate, or goes on without one, and registers its hooks.                  *)
(*                                                                         *)
(* Several processes start over one file, while others append to it: every *)
(* statement of the schema script and of the migration is a transaction of *)
(* its own, meets the locks of AuditStore, and may be a process's last.    *)
(***************************************************************************)
EXTENDS AuditStore

CONSTANTS
    Schema,        \* the names of _SCHEMA, in the order the script creates them
    AuditTable,    \* the one of them that holds the routing columns
    RoutingColumns \* _ROUTING_COLUMNS, in order

ASSUME StartAssumption ==
    /\ Schema \in Seq(STRING) /\ RoutingColumns \in Seq(STRING)
    /\ AuditTable = Schema[1] /\ Len(Schema) > 0

VARIABLES
    made,     \* the names the file has
    columns,  \* the routing columns of its audit table
    start,    \* off, script, inspect, migrate, build, register, up or broken
    existing, \* columns the migration takes to be there
    open,     \* register() has a store
    gate,     \* ... and a gate: HermesDispatchGate(gate=...)
    hooks     \* what is registered with Hermes

startVars == <<made, columns, start, existing, open, gate, hooks>>

Names == {Schema[i] : i \in DOMAIN Schema}
AllColumns == {RoutingColumns[i] : i \in DOMAIN RoutingColumns}

\* Hooks whose registration may fail without the others.
Observers == {"query", "progress"}

\* The file is new, or from before the live mirror and the routing columns.
StartInit ==
    /\ StoreInit
    /\ made \in {{}, {Schema[i] : i \in 1..(Len(Schema) - 1)}}
    /\ columns = {}
    /\ start = [c \in Conn |-> "off"]
    /\ existing = [c \in Conn |-> {}]
    /\ open = [c \in Conn |-> FALSE]
    /\ gate = [c \in Conn |-> FALSE]
    /\ hooks = [c \in Conn |-> {}]

Goto(c, stage) == start' = [start EXCEPT ![c] = stage]

-----------------------------------------------------------------------------
(* SqliteAuditStore(path): the script, then the migration.                  *)

Launch(c) ==
    /\ start[c] = "off"
    /\ Goto(c, "script")
    /\ UNCHANGED <<storeVars, made, columns, existing, open, gate, hooks>>

\* The first name the file lacks; the others are there, IF NOT EXISTS.
Lacks(i) == Schema[i] \notin made /\ \A j \in 1..(i - 1) : Schema[j] \in made

\* A CREATE of the script, committed by itself.
Create(c) ==
    /\ start[c] = "script"
    /\ CanCommit(c)
    /\ \E i \in DOMAIN Schema :
          /\ Lacks(i)
          /\ made' = made \cup {Schema[i]}
          /\ columns' = IF Schema[i] = AuditTable THEN AllColumns ELSE columns
    /\ UNCHANGED <<storeVars, start, existing, open, gate, hooks>>

EndScript(c) ==
    /\ start[c] = "script"
    /\ CanRead(c)
    /\ Names \subseteq made
    /\ Goto(c, "inspect")
    /\ UNCHANGED <<storeVars, made, columns, existing, open, gate, hooks>>

MutantMigratedIfAny(c) ==
    /\ start[c] = "inspect"
    /\ CanRead(c)
    /\ existing' = [existing EXCEPT ![c] = IF columns = {} THEN {} ELSE AllColumns]
    /\ Goto(c, "migrate")
    /\ UNCHANGED <<storeVars, made, columns, open, gate, hooks>>

\* PRAGMA table_info
Inspect(c) ==
    /\ start[c] = "inspect"
    /\ CanRead(c)
    /\ existing' = [existing EXCEPT ![c] = columns]
    /\ Goto(c, "migrate")
    /\ UNCHANGED <<storeVars, made, columns, open, gate, hooks>>

\* The first column the migration still takes to be missing.
Missing(c, i) ==
    /\ RoutingColumns[i] \notin existing[c]
    /\ \A j \in 1..(i - 1) : RoutingColumns[j] \in existing[c]

\* ALTER TABLE ... ADD COLUMN, committed by itself.
AddColumn(c) ==
    /\ start[c] = "migrate"
    /\ CanCommit(c)
    /\ \E i \in DOMAIN RoutingColumns :
          /\ Missing(c, i)
          /\ RoutingColumns[i] \notin columns
          /\ columns' = columns \cup {RoutingColumns[i]}
          /\ existing' = [existing EXCEPT ![c] = @ \cup {RoutingColumns[i]}]
    /\ UNCHANGED <<storeVars, made, start, open, gate, hooks>>

Opened(c) ==
    /\ start[c] = "migrate"
    /\ AllColumns \subseteq existing[c]
    /\ existing' = [existing EXCEPT ![c] = {}]
    /\ open' = [open EXCEPT ![c] = TRUE]
    /\ Goto(c, "build")
    /\ UNCHANGED <<storeVars, made, columns, gate, hooks>>

\* The statement that comes next meets a lock for longer than the busy timeout, or a
\* column that another process has added since the PRAGMA: there is no store.
OpenRaises(c) ==
    /\ \/ start[c] = "script" /\ ~CanRead(c)
       \/ start[c] = "script" /\ ~(Names \subseteq made) /\ ~CanCommit(c)
       \/ start[c] = "inspect" /\ ~CanRead(c)
       \/ start[c] = "migrate" /\ ~(AllColumns \subseteq existing[c]) /\ ~CanCommit(c)
       \/ start[c] = "migrate" /\ \E i \in DOMAIN RoutingColumns :
                                     Missing(c, i) /\ RoutingColumns[i] \in columns
    /\ existing' = [existing EXCEPT ![c] = {}]
    /\ Goto(c, "build")
    /\ UNCHANGED <<storeVars, made, columns, open, gate, hooks>>

-----------------------------------------------------------------------------
(* The gate and the hooks.                                                  *)

BuildGate(c) ==
    /\ start[c] = "build"
    /\ open[c]
    /\ gate' = [gate EXCEPT ![c] = TRUE]
    /\ Goto(c, "register")
    /\ UNCHANGED <<storeVars, made, columns, existing, open, hooks>>

\* No store, no reviewer key, equal labs, a number that is none: fail-closed mode.
NoGate(c) ==
    /\ start[c] = "build"
    /\ Goto(c, "register")
    /\ UNCHANGED <<storeVars, made, columns, existing, open, gate, hooks>>

RegisterBlockSeam(c) ==
    /\ start[c] = "register"
    /\ hooks[c] = {}
    /\ hooks' = [hooks EXCEPT ![c] = {"pre_tool_call"}]
    /\ UNCHANGED <<storeVars, made, columns, start, existing, open, gate>>

MutantRewriteSeamFirst(c) ==
    /\ start[c] = "register"
    /\ "tool_request" \notin hooks[c]
    /\ hooks' = [hooks EXCEPT ![c] = @ \cup {"tool_request"}]
    /\ UNCHANGED <<storeVars, made, columns, start, existing, open, gate>>

RegisterRewriteSeam(c) ==
    /\ start[c] = "register"
    /\ hooks[c] = {"pre_tool_call"}
    /\ hooks' = [hooks EXCEPT ![c] = @ \cup {"tool_request"}]
    /\ UNCHANGED <<storeVars, made, columns, start, existing, open, gate>>

\* Each in a try of its own; the query tools only with a store.
RegisterObservers(c) ==
    /\ start[c] = "register"
    /\ "tool_request" \in hooks[c]
    /\ \E some \in SUBSET Observers :
          /\ "query" \in some => open[c]
          /\ hooks' = [hooks EXCEPT ![c] = @ \cup some]
    /\ Goto(c, "up")
    /\ UNCHANGED <<storeVars, made, columns, existing, open, gate>>

\* Registering a seam raises: register() is left, and what is registered stays.
RegisterRaises(c) ==
    /\ start[c] = "register"
    /\ "tool_request" \notin hooks[c]
    /\ Goto(c, "broken")
    /\ UNCHANGED <<storeVars, made, columns, existing, open, gate, hooks>>

-----------------------------------------------------------------------------

\* The store's operations, by the hooks that call them.
Use(c) ==
    /\ \/ gate[c] /\ hooks[c] # {} /\ \E i \in Id : BeginAppend(c, i)
       \/ open[c] /\ "progress" \in hooks[c] /\ BeginPut(c)
       \/ "query" \in hooks[c] /\ BeginQuery(c)
       \/ Continue(c)
    /\ UNCHANGED startVars

\* The process ends, in the middle of an operation or not, and may start again.
Ends(c) ==
    /\ start[c] # "off"
    /\ Dies(c) \/ (op[c] = Idle /\ ~inTxn[c] /\ UNCHANGED storeVars)
    /\ Goto(c, "off")
    /\ existing' = [existing EXCEPT ![c] = {}]
    /\ open' = [open EXCEPT ![c] = FALSE]
    /\ gate' = [gate EXCEPT ![c] = FALSE]
    /\ hooks' = [hooks EXCEPT ![c] = {}]
    /\ UNCHANGED <<made, columns>>

StartNext ==
    \E c \in Conn :
        \/ Launch(c) \/ Create(c) \/ EndScript(c)
        \/ Inspect(c) \/ AddColumn(c) \/ Opened(c) \/ OpenRaises(c)
        \/ BuildGate(c) \/ NoGate(c)
        \/ RegisterBlockSeam(c) \/ RegisterRewriteSeam(c)
        \/ RegisterObservers(c) \/ RegisterRaises(c)
        \/ Use(c) \/ Ends(c)

StartSpec == StartInit /\ [][StartNext]_<<storeVars, startVars>>

-----------------------------------------------------------------------------
(* Properties.                                                              *)

\* A gate that is up can write its rows, and they cannot be changed: whichever
\* processes opened the file at the same time, died in its script or between two
\* columns of its migration, a process with a gate finds every column that its INSERT
\* names and the triggers (__init__ of the store, register).
GatesCanWrite ==
    \A c \in Conn : open[c] \/ gate[c] => Names \subseteq made /\ AllColumns \subseteq columns

\* "The fail-closed guarantee must hold even if a later registration call were to
\* fail": wherever register() stops, nothing is registered without the seam that blocks,
\* and only a process with a gate appends rows (register; pre_tool_call without a gate).
NothingWithoutTheBlockSeam ==
    \A c \in Conn :
        /\ hooks[c] # {} => "pre_tool_call" \in hooks[c]
        /\ op[c].kind \in {"probe", "insert", "commit"} =>
              gate[c] /\ "pre_tool_call" \in hooks[c]

=============================================================================
