----------------------------- MODULE Dashboards -----------------------------
(***************************************************************************)
(* The dashboards of several processes on one machine: every Hermes        *)
(* process starts its own at most once (__init__.py, _ensure_dashboard,    *)
(* called by the session-start hook and by /ultracode on different         *)
(* threads), `hermes ultracode-dashboard` is a process of its own          *)
(* (read_api.run), and browser pages (web/app.js) go on polling the port   *)
(* they were opened on, whoever listens there by then.                     *)
(*                                                                         *)
(* Processes end and are started again, and other programs take and free   *)
(* ports.  A token is made anew for every run of a process, and stands for *)
(* that run: <<process, run>>.                                             *)
(***************************************************************************)
EXTENDS ReadApi, FiniteSets, Sequences, SequencesExt

CONSTANTS
    Hermes,    \* Hermes processes
    Cli,       \* processes of `hermes ultracode-dashboard`
    Caller,    \* threads of a Hermes process that call _ensure_dashboard
    Port,      \* ports from base_port on: a sequence
    Host,      \* HERMESULTRACODE_DASHBOARD_HOST
    Page,      \* browser pages
    MaxRuns,   \* bound: runs of a process
    MaxCalls   \* bound: calls of a thread in one run

Process == Hermes \cup Cli

ASSUME DashboardAssumption ==
    /\ Hermes \cap Cli = {} /\ {"free", "other"} \cap (Hermes \cup Cli) = {}
    /\ Port \in Seq(Nat) /\ Len(Port) > 0 /\ IsInjective(Port)
    /\ NoToken \notin Process \X Nat
    /\ MaxRuns \in Nat /\ MaxCalls \in Nat

VARIABLES
    enabled,  \* HERMESULTRACODE_AUTO_DASHBOARD
    up,       \* the processes that run
    run,      \* runs of each process so far
    lock,     \* _DASH_LOCK of each process: {} or the thread that holds it
    dash,     \* _DASH: [started, url], url = {} or {[port, token]}
    pc,       \* idle, waiting, starting, binding, recording or answering
    tried,    \* ports that the running start has tried
    calls,    \* calls of each thread in this run
    holder,   \* who listens on a port: free, other or a process
    server,   \* the configuration that a process serves with, in a set
    answers,  \* ghost: what the calls of this run were answered (None is {})
    page,     \* [port, token] of each open page, in a set
    shown     \* the run whose data a page shows, in a set

dashVars == <<enabled, up, run, lock, dash, pc, tried, calls, holder, server,
              answers, page, shown>>

Fresh(p) == <<p, run[p]>>

NotStarted == [started |-> FALSE, url |-> {}]

DashInit ==
    /\ enabled \in BOOLEAN
    /\ up = {}
    /\ run = [p \in Process |-> 0]
    /\ lock = [p \in Hermes |-> {}]
    /\ dash = [p \in Hermes |-> NotStarted]
    /\ pc = [p \in Hermes |-> [t \in Caller |-> "idle"]]
    /\ tried = [p \in Hermes |-> 0]
    /\ calls = [p \in Hermes |-> [t \in Caller |-> 0]]
    /\ holder = [n \in ToSet(Port) |-> "free"]
    /\ server = [p \in Process |-> {}]
    /\ answers = [p \in Process |-> {}]
    /\ page = [b \in Page |-> {}]
    /\ shown = [b \in Page |-> {}]

-----------------------------------------------------------------------------
(* Processes and ports.                                                     *)

HermesStarts(p) ==
    /\ p \in Hermes \ up /\ run[p] < MaxRuns
    /\ up' = up \cup {p}
    /\ run' = [run EXCEPT ![p] = @ + 1]
    /\ UNCHANGED <<enabled, lock, dash, pc, tried, calls, holder, server, answers, page, shown>>

\* run(): the banner shows the url and the token; OSError ends the process at once.
CliStarts(p) ==
    /\ p \in Cli \ up /\ run[p] < MaxRuns
    /\ run' = [run EXCEPT ![p] = @ + 1]
    /\ holder[Port[1]] = "free"
    /\ up' = up \cup {p}
    /\ holder' = [holder EXCEPT ![Port[1]] = p]
    /\ LET cfg == EnsureSessionToken(Config(Host, Port[1], NoToken, {}), <<p, run'[p]>>)
       IN  /\ server' = [server EXCEPT ![p] = {cfg}]
           /\ answers' = [answers EXCEPT ![p] = {{[port |-> Port[1], token |-> cfg.token]}}]
    /\ UNCHANGED <<enabled, lock, dash, pc, tried, calls, page, shown>>

CliFails(p) ==
    /\ p \in Cli \ up /\ run[p] < MaxRuns
    /\ holder[Port[1]] # "free"
    /\ run' = [run EXCEPT ![p] = @ + 1]
    /\ UNCHANGED <<enabled, up, lock, dash, pc, tried, calls, holder, server, answers, page, shown>>

\* Its threads, its sockets and _DASH are gone; the pages are not.
Ends(p) ==
    /\ p \in up
    /\ up' = up \ {p}
    /\ holder' = [n \in DOMAIN holder |-> IF holder[n] = p THEN "free" ELSE holder[n]]
    /\ server' = [server EXCEPT ![p] = {}]
    /\ answers' = [answers EXCEPT ![p] = {}]
    /\ lock' = [q \in Hermes |-> IF q = p THEN {} ELSE lock[q]]
    /\ dash' = [q \in Hermes |-> IF q = p THEN NotStarted ELSE dash[q]]
    /\ pc' = [q \in Hermes |-> IF q = p THEN [t \in Caller |-> "idle"] ELSE pc[q]]
    /\ tried' = [q \in Hermes |-> IF q = p THEN 0 ELSE tried[q]]
    /\ calls' = [q \in Hermes |-> IF q = p THEN [t \in Caller |-> 0] ELSE calls[q]]
    /\ UNCHANGED <<enabled, run, page, shown>>

OtherTakes(n) ==
    /\ holder[n] = "free"
    /\ holder' = [holder EXCEPT ![n] = "other"]
    /\ UNCHANGED <<enabled, up, run, lock, dash, pc, tried, calls, server, answers, page, shown>>

OtherFrees(n) ==
    /\ holder[n] = "other"
    /\ holder' = [holder EXCEPT ![n] = "free"]
    /\ UNCHANGED <<enabled, up, run, lock, dash, pc, tried, calls, server, answers, page, shown>>

-----------------------------------------------------------------------------
(* _ensure_dashboard, on thread t of process p.                             *)

At(p, t, place) == p \in up /\ pc[p][t] = place

Goto(p, t, place) == pc' = [pc EXCEPT ![p][t] = place]

Ensure(p, t) ==
    /\ At(p, t, "idle") /\ calls[p][t] < MaxCalls
    /\ calls' = [calls EXCEPT ![p][t] = @ + 1]
    /\ Goto(p, t, "waiting")
    /\ UNCHANGED <<enabled, up, run, lock, dash, tried, holder, server, answers, page, shown>>

MutantNoLock(p, t) ==
    /\ At(p, t, "waiting")
    /\ lock' = [lock EXCEPT ![p] = @ \cup {t}]
    /\ Goto(p, t, IF dash[p].started THEN "answering" ELSE "starting")
    /\ UNCHANGED <<enabled, up, run, dash, tried, calls, holder, server, answers, page, shown>>

\* with _DASH_LOCK, and the test of "started".
Acquire(p, t) ==
    /\ At(p, t, "waiting")
    /\ lock[p] = {}
    /\ lock' = [lock EXCEPT ![p] = {t}]
    /\ Goto(p, t, IF dash[p].started THEN "answering" ELSE "starting")
    /\ UNCHANGED <<enabled, up, run, dash, tried, calls, holder, server, answers, page, shown>>

\* "started" is set first and stays set when the start fails.
BeginStart(p, t) ==
    /\ At(p, t, "starting")
    /\ dash' = [dash EXCEPT ![p].started = TRUE]
    /\ tried' = [tried EXCEPT ![p] = 0]
    /\ Goto(p, t, IF enabled THEN "binding" ELSE "answering")
    /\ UNCHANGED <<enabled, up, run, lock, calls, holder, server, answers, page, shown>>

\* The store cannot be opened, or a port is no number that a socket takes.
StartRaises(p, t) ==
    /\ At(p, t, "binding")
    /\ Goto(p, t, "answering")
    /\ UNCHANGED <<enabled, up, run, lock, dash, tried, calls, holder, server, answers, page, shown>>

NextPort(p) == Port[tried[p] + 1]

\* The ReadApiConfig of the port that is tried.
ConfigToTry(p) == Config(Host, NextPort(p), Fresh(p), HostsOf(Host, NextPort(p)))

BindPort(p, t) ==
    /\ At(p, t, "binding") /\ tried[p] < Len(Port)
    /\ holder[NextPort(p)] = "free"
    /\ holder' = [holder EXCEPT ![NextPort(p)] = p]
    /\ server' = [server EXCEPT ![p] = {ConfigToTry(p)}]
    /\ Goto(p, t, "recording")
    /\ UNCHANGED <<enabled, up, run, lock, dash, tried, calls, answers, page, shown>>

\* OSError: the next one, or none is left and the start has failed.
PortInUse(p, t) ==
    /\ At(p, t, "binding") /\ tried[p] < Len(Port)
    /\ holder[NextPort(p)] # "free"
    /\ tried' = [tried EXCEPT ![p] = @ + 1]
    /\ Goto(p, t, IF tried'[p] = Len(Port) THEN "answering" ELSE "binding")
    /\ UNCHANGED <<enabled, up, run, lock, dash, calls, holder, server, answers, page, shown>>

\* serve_forever runs on its thread, and _DASH holds url, token and port.
RecordDash(p, t) ==
    /\ At(p, t, "recording")
    /\ dash' = [dash EXCEPT ![p].url = {[port |-> NextPort(p), token |-> Fresh(p)]}]
    /\ Goto(p, t, "answering")
    /\ UNCHANGED <<enabled, up, run, lock, tried, calls, holder, server, answers, page, shown>>

\* The thread of serve_forever cannot be started: the socket, bound but never served,
\* is closed with the frame that held it.
ThreadRaises(p, t) ==
    /\ At(p, t, "recording")
    /\ holder' = [holder EXCEPT ![NextPort(p)] = "free"]
    /\ server' = [server EXCEPT ![p] = {}]
    /\ Goto(p, t, "answering")
    /\ UNCHANGED <<enabled, up, run, lock, dash, tried, calls, answers, page, shown>>

MutantKeepsLock(p, t) ==
    /\ At(p, t, "answering")
    /\ answers' = [answers EXCEPT ![p] = @ \cup {dash[p].url}]
    /\ lock' = IF dash[p].url = {} THEN lock ELSE [lock EXCEPT ![p] = {}]
    /\ Goto(p, t, "idle")
    /\ UNCHANGED <<enabled, up, run, dash, tried, calls, holder, server, page, shown>>

\* Out of the lock with (url, token) or with (None, None).
Answer(p, t) ==
    /\ At(p, t, "answering")
    /\ answers' = [answers EXCEPT ![p] = @ \cup {dash[p].url}]
    /\ lock' = [lock EXCEPT ![p] = @ \ {t}]
    /\ Goto(p, t, "idle")
    /\ UNCHANGED <<enabled, up, run, dash, tried, calls, holder, server, page, shown>>

EnsureStep(p, t) ==
    \/ Acquire(p, t) \/ BeginStart(p, t) \/ StartRaises(p, t)
    \/ BindPort(p, t) \/ PortInUse(p, t) \/ RecordDash(p, t) \/ ThreadRaises(p, t)
    \/ Answer(p, t)

-----------------------------------------------------------------------------
(* Pages.                                                                   *)

\* A url that was answered or printed is opened; the token in it connects the page.
OpenPage(b) ==
    /\ \E p \in Process : \E url \in answers[p] :
          url # {} /\ page' = [page EXCEPT ![b] = url]
    /\ shown' = [shown EXCEPT ![b] = {}]
    /\ UNCHANGED <<enabled, up, run, lock, dash, pc, tried, calls, holder, server, answers>>

\* What a page asks of its port: the token is sent in a header.
Request(at, path) ==
    [method |-> "GET", path |-> path, host |-> <<Host, at.port>>, token |-> at.token]

\* refresh(): the view is replaced by the data of whoever answers with data; an
\* error status or a failed fetch leaves what is shown.
Refresh(b, path) ==
    /\ \E at \in page[b], p \in Process :
          /\ holder[at.port] = p
          /\ \E cfg \in server[p] :
                HasData(cfg, Request(at, path)) /\ shown' = [shown EXCEPT ![b] = {Fresh(p)}]
    /\ UNCHANGED <<enabled, up, run, lock, dash, pc, tried, calls, holder, server, answers, page>>

DashNext ==
    \/ \E p \in Hermes : HermesStarts(p)
    \/ \E p \in Cli : CliStarts(p) \/ CliFails(p)
    \/ \E p \in Process : Ends(p)
    \/ \E n \in ToSet(Port) : OtherTakes(n) \/ OtherFrees(n)
    \/ \E p \in Hermes, t \in Caller : Ensure(p, t) \/ EnsureStep(p, t)
    \/ \E b \in Page : OpenPage(b)
    \/ \E b \in Page, path \in Paths : Refresh(b, path)

DashSpec == DashInit /\ [][DashNext]_dashVars

\* The threads of a process that runs are scheduled.  The lock need not be fair: no
\* thread calls for ever.
FairDashSpec ==
    DashSpec /\ \A p \in Hermes, t \in Caller : WF_dashVars(EnsureStep(p, t))

-----------------------------------------------------------------------------

Served(p) == {n \in ToSet(Port) : holder[n] = p}

\* The url leads to the process: it listens there, alone on its port, and answers a
\* page that was opened with it, under the name in the url or as localhost.
LeadsTo(url, p) ==
    \A at \in url :
        /\ Served(p) = {at.port}
        /\ \A cfg \in server[p], name \in {Host, "localhost"} :
               HasData(cfg, [Request(at, "api") EXCEPT !.host = <<name, at.port>>])

\* "the dashboard starts at most once, even across sessions" (__init__.py:564): all
\* calls of a run of a process get the same answer, also those that overlap its start,
\* and that answer is a url that leads to the process or none, whoever else took the
\* ports before it.
OneDashboard ==
    \A p \in Process :
        /\ \A url \in answers[p] : LeadsTo(url, p)
        /\ Cardinality(answers[p]) <= 1
        /\ Cardinality(Served(p)) <= 1

\* A page shows the data of the run it was opened for and of no other: when the
\* process ended and another one, or its own next run, listens on the port, the page's
\* token opens nothing there (authorize and the token of every start).
PageSeesItsOwnProcess ==
    \A b \in Page : \A at \in page[b] : shown[b] \subseteq {at.token}

\* Every call of _ensure_dashboard is answered, unless the process ends: whichever way
\* the start went, the lock is free again.
CallersGetAnAnswer ==
    \A p \in Hermes, t \in Caller : pc[p][t] = "waiting" ~> pc[p][t] = "idle"

=============================================================================
