-------------------------- MODULE MCDispatchSeams --------------------------
(***************************************************************************)
(* A batch with an id, of a dict and a plain string, and a single call     *)
(* that shares a base with it and comes from an agent, with an id, or      *)
(* from the /ultracode command, without one; the cache holds two decisions *)
(* of at least three.                                                      *)
(***************************************************************************)
EXTENDS DispatchSeams, TLC

MCDirective == {"dir", "log"}
MCBase == {"build", "test"}
MCNone == {}
MCTightenings == {{"dir"}}

MCCall == {"batch", "single"}
MCBatch == {"batch"}

MCOrigins ==
    ("batch" :> {[id |-> "tc1", command |-> FALSE]})
    @@ ("single" :> {[id |-> "tc2", command |-> FALSE], [id |-> "", command |-> TRUE]})

MCTasks ==
    ("batch" :> <<[base |-> "build", dict |-> TRUE], [base |-> "test", dict |-> FALSE]>>)
    @@ ("single" :> <<[base |-> "build", dict |-> TRUE]>>)
=============================================================================
