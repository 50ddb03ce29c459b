---------------------------- MODULE MCDashboards ----------------------------
(***************************************************************************)
(* A Hermes process with two threads, the dashboard command, and two ports *)
(* that other programs take; each process is started twice, so that a page *)
(* can meet another process and a later run on its port.                   *)
(***************************************************************************)
EXTENDS Dashboards, TLC

MCHermes == {"hermes"}
MCCli == {"cli"}
MCCaller == {"session", "slash"}
MCPort == <<9120, 9121>>
MCPage == {"page"}
=============================================================================
