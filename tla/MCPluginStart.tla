---------------------------- MODULE MCPluginStart ----------------------------
(* The connections of MCAuditStore, each of a process that starts, ends and   *)
(* starts again; two routing columns, of which a migration may leave one.     *)
EXTENDS MCAuditStore, PluginStart

MCSchema == <<"dispatch_audit", "no_update", "no_delete", "progress_snapshot">>
MCAuditTable == "dispatch_audit"
MCRoutingColumns == <<"routed_model", "est_savings_usd">>
=============================================================================
