---------------------------- MODULE MCAuditStore ----------------------------
(***************************************************************************)
(* The agent's connection and a dashboard's.  The gate makes a new id per  *)
(* call; the second attempt stands for a caller that retries, also from    *)
(* the other process.                                                      *)
(***************************************************************************)
EXTENDS AuditStore

MCConn == {"agent", "dashboard"}
MCId == {"r1", "r2"}
=============================================================================
