------------------------------ MODULE AuditLog ------------------------------
(***************************************************************************)
(* What an audit store promises (core/store.py, AuditStore): a log that    *)
(* only grows, holds every id once, and confirms an append no earlier than *)
(* its row is in the log.                                                  *)
(***************************************************************************)
EXTENDS Sequences, SequencesExt

CONSTANT Id

VARIABLES
    log,        \* the ids of the rows, in order
    confirmed   \* the ids whose append wrote them and returned

logVars == <<log, confirmed>>

LogInit == log = <<>> /\ confirmed = {}

\* Rows join the log, one or several at once, and appends are confirmed.
Grow ==
    /\ IsPrefix(log, log')
    /\ IsInjective(log')
    /\ confirmed \subseteq confirmed'
    /\ confirmed' \subseteq ToSet(log')

LogSpec == LogInit /\ [][Grow]_logVars

=============================================================================
