--------------------------- MODULE DashboardsProofs ---------------------------
(***************************************************************************)
(* Theorems about the dashboards of a machine (Dashboards), for every      *)
(* number of processes, threads, ports, runs and pages.                    *)
(*                                                                         *)
(* Two things have to be carried through every step: that of the threads   *)
(* in _ensure_dashboard one at most is past the lock, and what the process *)
(* listens on and serves with at each place that thread can be in.         *)
(***************************************************************************)
EXTENDS Dashboards, FiniteSetTheorems, TLAPS

PortSet == ToSet(Port)

Token == Process \X Nat

Link == [port : PortSet, token : Token]

DashTypeOK ==
    /\ enabled \in BOOLEAN
    /\ up \subseteq Process
    /\ run \in [Process -> Nat]
    /\ lock \in [Hermes -> SUBSET Caller]
    /\ dash \in [Hermes -> [started : BOOLEAN, url : SUBSET Link]]
    /\ pc \in [Hermes -> [Caller -> {"idle", "waiting", "starting", "binding", "recording",
                                     "answering"}]]
    /\ tried \in [Hermes -> Nat]
    /\ calls \in [Hermes -> [Caller -> Nat]]
    /\ holder \in [PortSet -> {"free", "other"} \cup Process]
    /\ DOMAIN server = Process
    /\ answers \in [Process -> SUBSET SUBSET Link]
    /\ page \in [Page -> SUBSET Link]
    /\ shown \in [Page -> SUBSET Token]

-----------------------------------------------------------------------------
(* The inductive invariant.                                                 *)

\* The configuration that a process serves with on a port in its present run.
ConfigOn(p, n) == Config(Host, n, Fresh(p), HostsOf(Host, n))

ServesOn(p, n) == server[p] = {ConfigOn(p, n)} /\ Served(p) = {n}

ServesNowhere(p) == server[p] = {} /\ Served(p) = {}

\* The threads that are past the lock.
Inside(p) == {t \in Caller : pc[p][t] \notin {"idle", "waiting"}}

\* One thread of a process: whether _DASH is started, and while the thread is looking for
\* a port, nobody has an answer and there is no url.
ThreadInv(p, t) ==
    /\ pc[p][t] = "starting" => ~dash[p].started
    /\ pc[p][t] \in {"binding", "recording", "answering"} => dash[p].started
    /\ pc[p][t] \in {"binding", "recording"} =>
           answers[p] = {} /\ dash[p].url = {} /\ tried[p] < Len(Port)
    /\ pc[p][t] = "recording" => ServesOn(p, NextPort(p))

\* A Hermes process: one thread at most is past the lock, the url is the only answer, and
\* it is where the process serves.
HermesInv(p) ==
    /\ p \notin up => dash[p] = NotStarted /\ Inside(p) = {}
    /\ lock[p] = Inside(p)
    /\ \A t, u \in Inside(p) : t = u
    /\ \A t \in Caller : ThreadInv(p, t)
    /\ ~dash[p].started => answers[p] = {} /\ dash[p].url = {}
    /\ answers[p] \subseteq {dash[p].url}
    /\ dash[p].url = {} => ServesNowhere(p) \/ \E t \in Caller : pc[p][t] = "recording"
    /\ dash[p].url # {} =>
           \E n \in PortSet :
               dash[p].url = {[port |-> n, token |-> Fresh(p)]} /\ ServesOn(p, n)

\* A process of the command serves on the first port, or it does not run.
CliInv(p) ==
    IF p \in up
    THEN answers[p] = {{[port |-> Port[1], token |-> Fresh(p)]}} /\ ServesOn(p, Port[1])
    ELSE answers[p] = {} /\ ServesNowhere(p)

\* A page has one link, and shows what belongs to that link's token.
PageInv(b) ==
    /\ \A at1, at2 \in page[b] : at1 = at2
    /\ \A at \in page[b] : shown[b] \subseteq {at.token}

DashInv ==
    /\ DashTypeOK
    /\ \A p \in Hermes : HermesInv(p)
    /\ \A p \in Cli : CliInv(p)
    /\ \A b \in Page : PageInv(b)

-----------------------------------------------------------------------------
(* What the steps leave alone.                                              *)

\* A process of which a step changes nothing but calls and pages.
Untouched(q) ==
    /\ (q \in up)' = (q \in up) /\ run'[q] = run[q]
    /\ server'[q] = server[q] /\ answers'[q] = answers[q] /\ Served(q)' = Served(q)
    /\ q \in Hermes => /\ lock'[q] = lock[q] /\ dash'[q] = dash[q]
                       /\ pc'[q] = pc[q] /\ tried'[q] = tried[q]

LEMMA UntouchedKeeps ==
  ASSUME NEW q \in Process, Untouched(q)
  PROVE  /\ q \in Hermes /\ HermesInv(q) => HermesInv(q)'
         /\ q \in Cli /\ CliInv(q) => CliInv(q)'
<1>1. /\ Fresh(q)' = Fresh(q)
      /\ \A n : ConfigOn(q, n)' = ConfigOn(q, n)
  BY DEF Untouched, Fresh, ConfigOn
<1>2. /\ \A n : ServesOn(q, n)' = ServesOn(q, n)
      /\ ServesNowhere(q)' = ServesNowhere(q)
  BY <1>1 DEF Untouched, ServesOn, ServesNowhere
<1>3. ASSUME q \in Hermes, HermesInv(q) PROVE HermesInv(q)'
  <2>1. Inside(q)' = Inside(q) /\ NextPort(q)' = NextPort(q)
    BY <1>3 DEF Untouched, Inside, NextPort
  <2>2. \A t \in Caller : ThreadInv(q, t)'
    BY <1>2, <1>3, <2>1 DEF Untouched, ThreadInv, HermesInv
  <2>3. /\ lock'[q] = lock[q] /\ dash'[q] = dash[q] /\ pc'[q] = pc[q]
        /\ answers'[q] = answers[q] /\ (q \in up') = (q \in up)
    BY <1>3 DEF Untouched
  <2>4. dash[q].url # {} =>
           \E n \in PortSet : dash[q].url = {[port |-> n, token |-> Fresh(q)']} /\ ServesOn(q, n)'
    BY <1>1, <1>2, <1>3 DEF HermesInv
  <2> QED
    BY <1>2, <1>3, <2>1, <2>2, <2>3, <2>4 DEF HermesInv
<1>4. ASSUME q \in Cli, CliInv(q) PROVE CliInv(q)'
  BY <1>1, <1>2, <1>4 DEF Untouched, CliInv
<1> QED
  BY <1>3, <1>4

\* A port changes hands: the process that takes it serves there, the others as before.
LEMMA PortTaken ==
  ASSUME DashTypeOK, NEW n \in PortSet, holder[n] \in {"free", "other"},
         NEW x \in {"free", "other"} \cup Process, holder' = [holder EXCEPT ![n] = x]
  PROVE  /\ holder' \in [PortSet -> {"free", "other"} \cup Process]
         /\ \A q \in Process \ {x} : Served(q)' = Served(q)
         /\ x \in Process => Served(x)' = Served(x) \cup {n}
<1>1. /\ \A m \in PortSet : holder'[m] = IF m = n THEN x ELSE holder[m]
      /\ holder' \in [PortSet -> {"free", "other"} \cup Process]
  BY DEF DashTypeOK
<1>2. \A q \in Process : q # holder[n]
  BY DashboardAssumption DEF Process
<1> QED
  BY <1>1, <1>2 DEF Served, PortSet

LEMMA SamePorts ==
  ASSUME holder' = holder
  PROVE  \A q : Served(q)' = Served(q)
  BY DEF Served

\* What moves when a thread goes to another place.
LEMMA ThreadMoves ==
  ASSUME DashTypeOK, NEW p \in Hermes, NEW t \in Caller,
         NEW place \in {"idle", "waiting", "starting", "binding", "recording", "answering"},
         Goto(p, t, place)
  PROVE  /\ pc' \in [Hermes -> [Caller -> {"idle", "waiting", "starting", "binding",
                                           "recording", "answering"}]]
         /\ pc'[p][t] = place
         /\ \A u \in Caller \ {t} : pc'[p][u] = pc[p][u]
         /\ \A q \in Hermes \ {p} : pc'[q] = pc[q]
  BY DEF DashTypeOK, Goto

-----------------------------------------------------------------------------
(* Every step keeps the invariant.                                          *)

\* A step of one process needs to be looked at for that process alone.
LEMMA OneProcess ==
  ASSUME DashInv, NEW p \in Process, \A q \in Process \ {p} : Untouched(q), DashTypeOK',
         p \in Hermes => HermesInv(p)', p \in Cli => CliInv(p)', UNCHANGED <<page, shown>>
  PROVE  DashInv'
<1>1. ASSUME NEW q \in Hermes PROVE HermesInv(q)'
  BY <1>1, UntouchedKeeps DEF DashInv, Process
<1>2. ASSUME NEW q \in Cli PROVE CliInv(q)'
  BY <1>2, UntouchedKeeps DEF DashInv, Process
<1>3. \A b \in Page : PageInv(b)'
  BY DEF DashInv, PageInv
<1> QED
  BY <1>1, <1>2, <1>3 DEF DashInv

\* The place of the one thread that is past the lock, and of the others.
LEMMA OneInside ==
  ASSUME DashInv, NEW p \in Hermes, NEW t \in Caller, pc[p][t] \notin {"idle", "waiting"}
  PROVE  /\ Inside(p) = {t} /\ lock[p] = {t}
         /\ \A u \in Caller \ {t} : pc[p][u] \in {"idle", "waiting"}
  BY DEF DashInv, HermesInv, Inside

\* A step of a thread that stays past the lock.
LEMMA StaysInside ==
  ASSUME DashInv, NEW p \in Hermes, NEW t \in Caller, pc[p][t] \notin {"idle", "waiting"},
         NEW place \in {"starting", "binding", "recording", "answering"}, Goto(p, t, place),
         UNCHANGED <<up, lock>>
  PROVE  /\ Inside(p)' = {t} /\ lock'[p] = {t}
         /\ ThreadInv(p, t)' => \A u \in Caller : ThreadInv(p, u)'
<1>1. /\ pc'[p][t] = place
      /\ \A u \in Caller \ {t} : pc'[p][u] \in {"idle", "waiting"}
  BY ThreadMoves, OneInside DEF DashInv
<1>2. Inside(p)' = {t} /\ lock'[p] = {t}
  BY <1>1, OneInside DEF Inside
<1>3. \A u \in Caller \ {t} : ThreadInv(p, u)'
  BY <1>1 DEF ThreadInv
<1> QED
  BY <1>2, <1>3

\* A step of a thread that changes its process only, and takes no port.
LEMMA OthersWait ==
  ASSUME DashInv, NEW p \in Hermes, NEW t \in Caller,
         NEW place \in {"idle", "waiting", "starting", "binding", "recording", "answering"},
         Goto(p, t, place), UNCHANGED <<up, run, server>>,
         \A q \in Process \ {p} : Served(q)' = Served(q) /\ answers'[q] = answers[q],
         \A q \in Hermes \ {p} : /\ lock'[q] = lock[q] /\ dash'[q] = dash[q]
                                 /\ tried'[q] = tried[q]
  PROVE  \A q \in Process \ {p} : Untouched(q)
  BY ThreadMoves DEF DashInv, Untouched

LEMMA EnsureKeeps ==
  ASSUME DashInv, NEW p \in Hermes, NEW t \in Caller, Ensure(p, t)
  PROVE  DashInv'
<1> USE DEF Ensure, At
<1>0. DashTypeOK /\ HermesInv(p) /\ p \in Process /\ p \notin Cli
  BY DashboardAssumption DEF DashInv, Process
<1>1. \A q : Served(q)' = Served(q)
  BY SamePorts
<1>2. \A q \in Process \ {p} : Untouched(q)
  BY <1>1, OthersWait
<1>3. /\ pc'[p][t] = "waiting" /\ \A u \in Caller \ {t} : pc'[p][u] = pc[p][u]
      /\ pc' \in [Hermes -> [Caller -> {"idle", "waiting", "starting", "binding",
                                        "recording", "answering"}]]
  BY <1>0, ThreadMoves
<1>4. DashTypeOK'
  BY <1>0, <1>3 DEF DashTypeOK
<1>5. HermesInv(p)'
  <2>1. Inside(p)' = Inside(p)
    BY <1>3 DEF Inside
  <2>2. \A n : ServesOn(p, n)' = ServesOn(p, n)
    BY <1>1 DEF ServesOn, ConfigOn, Fresh
  <2>3. ServesNowhere(p)' = ServesNowhere(p)
    BY <1>1 DEF ServesNowhere
  <2>4. \A u \in Caller : ThreadInv(p, u)'
    BY <1>0, <1>3, <2>2 DEF HermesInv, ThreadInv, NextPort
  <2> QED
    BY <1>0, <1>3, <2>1, <2>2, <2>3, <2>4 DEF HermesInv, Fresh
<1> QED
  BY <1>0, <1>2, <1>4, <1>5, OneProcess

LEMMA AcquireKeeps ==
  ASSUME DashInv, NEW p \in Hermes, NEW t \in Caller, Acquire(p, t)
  PROVE  DashInv'
<1> USE DEF Acquire, At
<1>0. DashTypeOK /\ HermesInv(p) /\ p \in Process /\ p \notin Cli
  BY DashboardAssumption DEF DashInv, Process
<1>1. \A q : Served(q)' = Served(q)
  BY SamePorts
<1>2. \A q \in Process \ {p} : Untouched(q)
  BY <1>0, <1>1, OthersWait DEF DashTypeOK
<1>3. /\ pc'[p][t] = IF dash[p].started THEN "answering" ELSE "starting"
      /\ \A u \in Caller \ {t} : pc'[p][u] = pc[p][u]
      /\ pc' \in [Hermes -> [Caller -> {"idle", "waiting", "starting", "binding",
                                        "recording", "answering"}]]
  BY <1>0, ThreadMoves
<1>4. lock'[p] = {t} /\ lock' \in [Hermes -> SUBSET Caller]
  BY <1>0 DEF DashTypeOK
<1>5. DashTypeOK'
  BY <1>0, <1>3, <1>4 DEF DashTypeOK
<1>6. HermesInv(p)'
  <2>1. Inside(p) = {} /\ Inside(p)' = {t}
    BY <1>0, <1>3 DEF HermesInv, Inside
  <2>2. \A n : ServesOn(p, n)' = ServesOn(p, n)
    BY <1>1 DEF ServesOn, ConfigOn, Fresh
  <2>3. ServesNowhere(p)' = ServesNowhere(p)
    BY <1>1 DEF ServesNowhere
  <2>4. \A u \in Caller : pc[p][u] \in {"idle", "waiting"}
    BY <2>1 DEF Inside
  <2>5. \A u \in Caller : ThreadInv(p, u)'
    BY <1>0, <1>3, <2>4 DEF ThreadInv
  <2> QED
    BY <1>0, <1>3, <1>4, <2>1, <2>2, <2>3, <2>4, <2>5 DEF HermesInv, Fresh
<1> QED
  BY <1>0, <1>2, <1>5, <1>6, OneProcess

LEMMA BeginStartKeeps ==
  ASSUME DashInv, NEW p \in Hermes, NEW t \in Caller, BeginStart(p, t)
  PROVE  DashInv'
<1> USE DEF BeginStart, At
<1>0. DashTypeOK /\ HermesInv(p) /\ p \in Process /\ p \notin Cli
  BY DashboardAssumption DEF DashInv, Process
<1>1. \A q : Served(q)' = Served(q)
  BY SamePorts
<1>2. \A q \in Process \ {p} : Untouched(q)
  BY <1>0, <1>1, OthersWait DEF DashTypeOK
<1>3. /\ pc'[p][t] = IF enabled THEN "binding" ELSE "answering"
      /\ \A u \in Caller \ {t} : pc'[p][u] = pc[p][u]
      /\ pc' \in [Hermes -> [Caller -> {"idle", "waiting", "starting", "binding",
                                        "recording", "answering"}]]
  BY <1>0, ThreadMoves
<1>4. /\ dash'[p].started /\ dash'[p].url = dash[p].url /\ tried'[p] = 0
      /\ dash' \in [Hermes -> [started : BOOLEAN, url : SUBSET Link]]
      /\ tried' \in [Hermes -> Nat]
  <2>1. dash[p] \in [started : BOOLEAN, url : SUBSET Link] /\ p \in DOMAIN dash
    BY <1>0 DEF DashTypeOK
  <2>2. dash' = [dash EXCEPT ![p] = [dash[p] EXCEPT !.started = TRUE]]
    BY <1>0
  <2>3. /\ [dash[p] EXCEPT !.started = TRUE] \in [started : BOOLEAN, url : SUBSET Link]
        /\ [dash[p] EXCEPT !.started = TRUE].started
        /\ [dash[p] EXCEPT !.started = TRUE].url = dash[p].url
    BY <2>1
  <2>4. tried'[p] = 0 /\ tried' \in [Hermes -> Nat]
    BY <1>0 DEF DashTypeOK
  <2> QED
    BY <1>0, <2>2, <2>3, <2>4 DEF DashTypeOK
<1>5. DashTypeOK'
  BY <1>0, <1>3, <1>4 DEF DashTypeOK
<1>6. HermesInv(p)'
  <2>1. ~dash[p].started /\ answers[p] = {} /\ dash[p].url = {} /\ p \in up
    BY <1>0 DEF HermesInv, ThreadInv
  <2>2. Len(Port) > 0
    BY DashboardAssumption
  <2>3. ThreadInv(p, t)'
    BY <1>3, <1>4, <2>1, <2>2 DEF ThreadInv
  <2>4. Inside(p)' = {t} /\ lock'[p] = {t} /\ \A u \in Caller : ThreadInv(p, u)'
    BY <2>3, StaysInside
  <2>5. ServesNowhere(p)
    <3>1. \A u \in Caller : pc[p][u] # "recording"
      BY OneInside
    <3> QED
      BY <1>0, <2>1, <3>1 DEF HermesInv
  <2>6. ServesNowhere(p)'
    BY <1>1, <2>5 DEF ServesNowhere
  <2> QED
    BY <1>4, <2>1, <2>4, <2>6 DEF HermesInv
<1> QED
  BY <1>0, <1>2, <1>5, <1>6, OneProcess

LEMMA StartRaisesKeeps ==
  ASSUME DashInv, NEW p \in Hermes, NEW t \in Caller, StartRaises(p, t)
  PROVE  DashInv'
<1> USE DEF StartRaises, At
<1>0. DashTypeOK /\ HermesInv(p) /\ p \in Process /\ p \notin Cli
  BY DashboardAssumption DEF DashInv, Process
<1>1. \A q : Served(q)' = Served(q)
  BY SamePorts
<1>2. \A q \in Process \ {p} : Untouched(q)
  BY <1>1, OthersWait
<1>3. /\ pc'[p][t] = "answering"
      /\ pc' \in [Hermes -> [Caller -> {"idle", "waiting", "starting", "binding",
                                        "recording", "answering"}]]
  BY <1>0, ThreadMoves
<1>4. DashTypeOK'
  BY <1>0, <1>3 DEF DashTypeOK
<1>5. HermesInv(p)'
  <2>1. dash[p].started /\ answers[p] = {} /\ dash[p].url = {} /\ p \in up
    BY <1>0 DEF HermesInv, ThreadInv
  <2>2. ThreadInv(p, t)'
    BY <1>3, <2>1 DEF ThreadInv
  <2>3. Inside(p)' = {t} /\ lock'[p] = {t} /\ \A u \in Caller : ThreadInv(p, u)'
    BY <2>2, StaysInside
  <2>4. ServesNowhere(p)
    <3>1. \A u \in Caller : pc[p][u] # "recording"
      BY OneInside
    <3> QED
      BY <1>0, <2>1, <3>1 DEF HermesInv
  <2>5. ServesNowhere(p)'
    BY <1>1, <2>4 DEF ServesNowhere
  <2> QED
    BY <2>1, <2>3, <2>5 DEF HermesInv
<1> QED
  BY <1>0, <1>2, <1>4, <1>5, OneProcess

LEMMA PortInUseKeeps ==
  ASSUME DashInv, NEW p \in Hermes, NEW t \in Caller, PortInUse(p, t)
  PROVE  DashInv'
<1> USE DEF PortInUse, At
<1>0. DashTypeOK /\ HermesInv(p) /\ p \in Process /\ p \notin Cli
  BY DashboardAssumption DEF DashInv, Process
<1>1. \A q : Served(q)' = Served(q)
  BY SamePorts
<1>2. \A q \in Process \ {p} : Untouched(q)
  BY <1>0, <1>1, OthersWait DEF DashTypeOK
<1>3. /\ pc'[p][t] = IF tried'[p] = Len(Port) THEN "answering" ELSE "binding"
      /\ pc' \in [Hermes -> [Caller -> {"idle", "waiting", "starting", "binding",
                                        "recording", "answering"}]]
  BY <1>0, ThreadMoves
<1>4. tried'[p] = tried[p] + 1 /\ tried[p] \in Nat /\ tried' \in [Hermes -> Nat]
  BY <1>0 DEF DashTypeOK
<1>5. DashTypeOK'
  BY <1>0, <1>3, <1>4 DEF DashTypeOK
<1>6. HermesInv(p)'
  <2>1. dash[p].started /\ answers[p] = {} /\ dash[p].url = {} /\ p \in up
    BY <1>0 DEF HermesInv, ThreadInv
  <2>2. Len(Port) \in Nat
    BY DashboardAssumption
  <2>3. ThreadInv(p, t)'
    BY <1>3, <1>4, <2>1, <2>2 DEF ThreadInv
  <2>4. Inside(p)' = {t} /\ lock'[p] = {t} /\ \A u \in Caller : ThreadInv(p, u)'
    BY <2>3, StaysInside
  <2>5. ServesNowhere(p)
    <3>1. \A u \in Caller : pc[p][u] # "recording"
      BY OneInside
    <3> QED
      BY <1>0, <2>1, <3>1 DEF HermesInv
  <2>6. ServesNowhere(p)'
    BY <1>1, <2>5 DEF ServesNowhere
  <2> QED
    BY <2>1, <2>4, <2>6 DEF HermesInv
<1> QED
  BY <1>0, <1>2, <1>5, <1>6, OneProcess

\* The port that is tried is one of them.
LEMMA PortToTry ==
  ASSUME DashTypeOK, NEW p \in Hermes, tried[p] < Len(Port)
  PROVE  NextPort(p) \in PortSet
<1>1. tried[p] + 1 \in DOMAIN Port
  BY DashboardAssumption DEF DashTypeOK
<1> QED
  BY <1>1 DEF NextPort, PortSet, ToSet

LEMMA BindPortKeeps ==
  ASSUME DashInv, NEW p \in Hermes, NEW t \in Caller, BindPort(p, t)
  PROVE  DashInv'
<1> USE DEF BindPort, At
<1>0. DashTypeOK /\ HermesInv(p) /\ p \in Process /\ p \notin Cli
  BY DashboardAssumption DEF DashInv, Process
<1>1. NextPort(p) \in PortSet
  BY <1>0, PortToTry
<1>2. /\ holder' \in [PortSet -> {"free", "other"} \cup Process]
      /\ \A q \in Process \ {p} : Served(q)' = Served(q)
      /\ Served(p)' = Served(p) \cup {NextPort(p)}
  BY <1>0, <1>1, PortTaken
<1>3. /\ pc'[p][t] = "recording" /\ \A q \in Hermes \ {p} : pc'[q] = pc[q]
      /\ pc' \in [Hermes -> [Caller -> {"idle", "waiting", "starting", "binding",
                                        "recording", "answering"}]]
  BY <1>0, ThreadMoves
<1>4. /\ DOMAIN server' = Process /\ server'[p] = {ConfigToTry(p)}
      /\ \A q \in Process \ {p} : server'[q] = server[q]
  BY <1>0 DEF DashTypeOK
<1>5. \A q \in Process \ {p} : Untouched(q)
  BY <1>2, <1>3, <1>4 DEF Untouched
<1>6. DashTypeOK'
  BY <1>0, <1>2, <1>3, <1>4 DEF DashTypeOK
<1>7. HermesInv(p)'
  <2>1. /\ dash[p].started /\ answers[p] = {} /\ dash[p].url = {} /\ p \in up
        /\ tried[p] < Len(Port)
    BY <1>0 DEF HermesInv, ThreadInv
  <2>2. ServesNowhere(p)
    <3>1. \A u \in Caller : pc[p][u] # "recording"
      BY OneInside
    <3> QED
      BY <1>0, <2>1, <3>1 DEF HermesInv
  <2>3. ServesOn(p, NextPort(p))'
    BY <1>2, <1>4, <2>2 DEF ServesNowhere, ServesOn, ConfigOn, ConfigToTry, Fresh, NextPort
  <2>4. ThreadInv(p, t)'
    BY <1>3, <2>1, <2>3 DEF ThreadInv
  <2>5. Inside(p)' = {t} /\ lock'[p] = {t} /\ \A u \in Caller : ThreadInv(p, u)'
    BY <2>4, StaysInside
  <2> QED
    BY <1>3, <2>1, <2>5 DEF HermesInv
<1> QED
  BY <1>0, <1>5, <1>6, <1>7, OneProcess

LEMMA RecordDashKeeps ==
  ASSUME DashInv, NEW p \in Hermes, NEW t \in Caller, RecordDash(p, t)
  PROVE  DashInv'
<1> USE DEF RecordDash, At
<1>0. DashTypeOK /\ HermesInv(p) /\ p \in Process /\ p \notin Cli
  BY DashboardAssumption DEF DashInv, Process
<1>1. \A q : Served(q)' = Served(q)
  BY SamePorts
<1>2. \A q \in Process \ {p} : Untouched(q)
  BY <1>0, <1>1, OthersWait DEF DashTypeOK
<1>3. /\ pc'[p][t] = "answering"
      /\ pc' \in [Hermes -> [Caller -> {"idle", "waiting", "starting", "binding",
                                        "recording", "answering"}]]
  BY <1>0, ThreadMoves
<1>4. /\ dash[p].started /\ answers[p] = {} /\ p \in up /\ tried[p] < Len(Port)
      /\ ServesOn(p, NextPort(p))
  BY <1>0 DEF HermesInv, ThreadInv
<1>5. NextPort(p) \in PortSet
  BY <1>0, <1>4, PortToTry
<1> DEFINE link == [port |-> NextPort(p), token |-> Fresh(p)]
<1>6. link \in Link
  BY <1>0, <1>5 DEF Link, Token, Fresh, DashTypeOK
<1>7. /\ dash'[p].started /\ dash'[p].url = {link}
      /\ dash' \in [Hermes -> [started : BOOLEAN, url : SUBSET Link]]
  <2>1. dash[p] \in [started : BOOLEAN, url : SUBSET Link] /\ p \in DOMAIN dash
    BY <1>0 DEF DashTypeOK
  <2>2. dash' = [dash EXCEPT ![p] = [dash[p] EXCEPT !.url = {link}]]
    BY <1>0
  <2>3. {link} \in SUBSET Link
    BY <1>6
  <2> HIDE DEF link
  <2>4. /\ [dash[p] EXCEPT !.url = {link}] \in [started : BOOLEAN, url : SUBSET Link]
        /\ [dash[p] EXCEPT !.url = {link}].started = dash[p].started
        /\ [dash[p] EXCEPT !.url = {link}].url = {link}
    BY <2>1, <2>3
  <2> QED
    BY <1>0, <1>4, <2>2, <2>4 DEF DashTypeOK
<1>8. DashTypeOK'
  BY <1>0, <1>3, <1>7 DEF DashTypeOK
<1>9. HermesInv(p)'
  <2>1. ThreadInv(p, t)'
    BY <1>3, <1>7 DEF ThreadInv
  <2>2. Inside(p)' = {t} /\ lock'[p] = {t} /\ \A u \in Caller : ThreadInv(p, u)'
    BY <2>1, StaysInside
  <2>3. ServesOn(p, NextPort(p))'
    BY <1>1, <1>4 DEF ServesOn, ConfigOn, Fresh, NextPort
  <2>4. \E n \in PortSet : dash'[p].url = {[port |-> n, token |-> Fresh(p)']} /\ ServesOn(p, n)'
    <3>1. NextPort(p)' = NextPort(p) /\ Fresh(p)' = Fresh(p)
      BY DEF NextPort, Fresh
    <3> QED
      BY <1>5, <1>7, <2>3, <3>1
  <2> QED
    BY <1>4, <1>7, <2>2, <2>4 DEF HermesInv
<1> QED
  BY <1>0, <1>2, <1>8, <1>9, OneProcess

LEMMA ThreadRaisesKeeps ==
  ASSUME DashInv, NEW p \in Hermes, NEW t \in Caller, ThreadRaises(p, t)
  PROVE  DashInv'
<1> USE DEF ThreadRaises, At
<1>0. DashTypeOK /\ HermesInv(p) /\ p \in Process /\ p \notin Cli
  BY DashboardAssumption DEF DashInv, Process
<1>1. /\ dash[p].started /\ answers[p] = {} /\ dash[p].url = {} /\ p \in up
      /\ Served(p) = {NextPort(p)}
  BY <1>0 DEF HermesInv, ThreadInv, ServesOn
<1>2. /\ holder' \in [PortSet -> {"free", "other"} \cup Process]
      /\ \A q \in Process \ {p} : Served(q)' = Served(q)
      /\ Served(p)' = {}
  <2>1. NextPort(p) \in PortSet /\ holder[NextPort(p)] = p
    BY <1>1 DEF Served, PortSet
  <2>2. \A n \in PortSet : holder'[n] = IF n = NextPort(p) THEN "free" ELSE holder[n]
    BY <1>0 DEF DashTypeOK
  <2>3. \A q \in Process : q # "free"
    BY DashboardAssumption DEF Process
  <2>4. holder' \in [PortSet -> {"free", "other"} \cup Process]
    BY <1>0 DEF DashTypeOK
  <2>5. Served(p)' = {n \in Served(p) : n # NextPort(p)}
    BY <1>0, <2>2, <2>3 DEF Served, PortSet
  <2>6. Served(p)' = {}
    BY <1>1, <2>5
  <2> QED
    BY <2>1, <2>2, <2>3, <2>4, <2>6 DEF Served, PortSet
<1>3. /\ pc'[p][t] = "answering" /\ \A q \in Hermes \ {p} : pc'[q] = pc[q]
      /\ pc' \in [Hermes -> [Caller -> {"idle", "waiting", "starting", "binding",
                                        "recording", "answering"}]]
  BY <1>0, ThreadMoves
<1>4. /\ DOMAIN server' = Process /\ server'[p] = {}
      /\ \A q \in Process \ {p} : server'[q] = server[q]
  BY <1>0 DEF DashTypeOK
<1>5. \A q \in Process \ {p} : Untouched(q)
  BY <1>2, <1>3, <1>4 DEF Untouched
<1>6. DashTypeOK'
  BY <1>0, <1>2, <1>3, <1>4 DEF DashTypeOK
<1>7. HermesInv(p)'
  <2>1. ThreadInv(p, t)'
    BY <1>1, <1>3 DEF ThreadInv
  <2>2. Inside(p)' = {t} /\ lock'[p] = {t} /\ \A u \in Caller : ThreadInv(p, u)'
    BY <2>1, StaysInside
  <2>3. ServesNowhere(p)'
    BY <1>2, <1>4 DEF ServesNowhere
  <2> QED
    BY <1>1, <2>2, <2>3 DEF HermesInv
<1> QED
  BY <1>0, <1>5, <1>6, <1>7, OneProcess

LEMMA AnswerKeeps ==
  ASSUME DashInv, NEW p \in Hermes, NEW t \in Caller, Answer(p, t)
  PROVE  DashInv'
<1> USE DEF Answer, At
<1>0. DashTypeOK /\ HermesInv(p) /\ p \in Process /\ p \notin Cli
  BY DashboardAssumption DEF DashInv, Process
<1>1. \A q : Served(q)' = Served(q)
  BY SamePorts
<1>2. \A q \in Process \ {p} : Untouched(q)
  BY <1>0, <1>1, OthersWait DEF DashTypeOK
<1>3. /\ pc'[p][t] = "idle" /\ \A u \in Caller \ {t} : pc'[p][u] = pc[p][u]
      /\ pc' \in [Hermes -> [Caller -> {"idle", "waiting", "starting", "binding",
                                        "recording", "answering"}]]
  BY <1>0, ThreadMoves
<1>4. /\ lock'[p] = lock[p] \ {t} /\ lock' \in [Hermes -> SUBSET Caller]
      /\ answers'[p] = answers[p] \cup {dash[p].url}
      /\ answers' \in [Process -> SUBSET SUBSET Link]
  <2>1. dash[p].url \in SUBSET Link
    BY <1>0 DEF DashTypeOK
  <2> QED
    BY <1>0, <2>1 DEF DashTypeOK
<1>5. DashTypeOK'
  BY <1>0, <1>3, <1>4 DEF DashTypeOK
<1>6. HermesInv(p)'
  <2>1. dash[p].started /\ p \in up
    BY <1>0 DEF HermesInv, ThreadInv
  <2>2. /\ lock[p] = {t}
        /\ \A u \in Caller : pc'[p][u] \in {"idle", "waiting"}
        /\ \A u \in Caller : pc[p][u] # "recording"
    BY <1>3, OneInside
  <2>3. Inside(p)' = {} /\ lock'[p] = {} /\ \A u \in Caller : ThreadInv(p, u)'
    BY <1>4, <2>2 DEF Inside, ThreadInv
  <2>4. \A n : ServesOn(p, n)' = ServesOn(p, n)
    BY <1>1 DEF ServesOn, ConfigOn, Fresh
  <2>5. ServesNowhere(p)' = ServesNowhere(p)
    BY <1>1 DEF ServesNowhere
  <2>6. dash[p].url = {} => ServesNowhere(p)'
    BY <1>0, <2>2, <2>5 DEF HermesInv
  <2> QED
    BY <1>0, <1>4, <2>1, <2>3, <2>4, <2>6 DEF HermesInv, Fresh
<1> QED
  BY <1>0, <1>2, <1>5, <1>6, OneProcess

LEMMA StartsKeeps ==
  ASSUME DashInv, NEW p \in Hermes, HermesStarts(p)
  PROVE  DashInv'
<1> USE DEF HermesStarts
<1>0. DashTypeOK /\ HermesInv(p) /\ p \in Process /\ p \notin Cli
  BY DashboardAssumption DEF DashInv, Process
<1>1. \A q : Served(q)' = Served(q)
  BY SamePorts
<1>2. \A q \in Process \ {p} : Untouched(q)
  BY <1>0, <1>1 DEF DashTypeOK, Untouched
<1>3. DashTypeOK'
  BY <1>0 DEF DashTypeOK
<1>4. HermesInv(p)'
  <2>1. /\ p \notin up /\ dash[p] = NotStarted /\ Inside(p) = {}
        /\ \A u \in Caller : pc[p][u] \in {"idle", "waiting"}
    BY <1>0 DEF HermesInv, Inside
  <2>2. ServesNowhere(p)'
    BY <1>0, <1>1, <2>1 DEF HermesInv, NotStarted, ServesNowhere
  <2>3. Inside(p)' = {} /\ \A u \in Caller : ThreadInv(p, u)'
    BY <2>1 DEF Inside, ThreadInv
  <2> QED
    BY <1>0, <2>1, <2>2, <2>3 DEF HermesInv, NotStarted
<1> QED
  BY <1>0, <1>2, <1>3, <1>4, OneProcess

\* The first port is one of them.
LEMMA FirstPort == Port[1] \in PortSet
<1>1. 1 \in DOMAIN Port
  BY DashboardAssumption
<1> QED
  BY <1>1 DEF PortSet, ToSet

LEMMA CliStartsKeeps ==
  ASSUME DashInv, NEW p \in Cli, CliStarts(p)
  PROVE  DashInv'
<1>0. DashTypeOK /\ CliInv(p) /\ p \in Process /\ p \notin Hermes /\ p \notin up
  BY DashboardAssumption DEF DashInv, Process, CliStarts
<1>1. /\ holder' \in [PortSet -> {"free", "other"} \cup Process]
      /\ \A q \in Process \ {p} : Served(q)' = Served(q)
      /\ Served(p)' = Served(p) \cup {Port[1]}
  BY <1>0, FirstPort, PortTaken DEF CliStarts
<1>2. /\ run' \in [Process -> Nat] /\ \A q \in Process \ {p} : run'[q] = run[q]
      /\ <<p, run'[p]>> = Fresh(p)' /\ Fresh(p)' \in Token
  BY <1>0 DEF CliStarts, DashTypeOK, Fresh, Token
<1> DEFINE cfg == EnsureSessionToken(Config(Host, Port[1], NoToken, {}), <<p, run'[p]>>)
<1>3. cfg = ConfigOn(p, Port[1])' /\ cfg.token = Fresh(p)'
  BY <1>2 DEF EnsureSessionToken, Config, ConfigOn
<1>4. /\ server' = [server EXCEPT ![p] = {cfg}]
      /\ answers' = [answers EXCEPT ![p] = {{[port |-> Port[1], token |-> cfg.token]}}]
      /\ up' = up \cup {p} /\ UNCHANGED <<enabled, lock, dash, pc, tried, calls, page, shown>>
  BY DEF CliStarts
<1> HIDE DEF cfg
<1>5. /\ DOMAIN server' = Process /\ server'[p] = {ConfigOn(p, Port[1])'}
      /\ \A q \in Process \ {p} : server'[q] = server[q] /\ answers'[q] = answers[q]
      /\ answers'[p] = {{[port |-> Port[1], token |-> Fresh(p)']}}
      /\ answers' \in [Process -> SUBSET SUBSET Link]
  <2>1. [port |-> Port[1], token |-> Fresh(p)'] \in Link
    BY <1>2, FirstPort DEF Link
  <2> QED
    BY <1>0, <1>3, <1>4, <2>1 DEF DashTypeOK
<1>6. \A q \in Process \ {p} : Untouched(q)
  BY <1>1, <1>2, <1>4, <1>5 DEF Untouched
<1>7. DashTypeOK'
  BY <1>0, <1>1, <1>2, <1>4, <1>5 DEF DashTypeOK
<1>8. CliInv(p)'
  <2>1. Served(p)' = {Port[1]}
    BY <1>0, <1>1 DEF CliInv, ServesNowhere
  <2> QED
    BY <1>4, <1>5, <2>1 DEF CliInv, ServesOn
<1> QED
  BY <1>0, <1>4, <1>6, <1>7, <1>8, OneProcess

LEMMA CliFailsKeeps ==
  ASSUME DashInv, NEW p \in Cli, CliFails(p)
  PROVE  DashInv'
<1> USE DEF CliFails
<1>0. DashTypeOK /\ CliInv(p) /\ p \in Process /\ p \notin Hermes
  BY DashboardAssumption DEF DashInv, Process
<1>1. \A q : Served(q)' = Served(q)
  BY SamePorts
<1>2. \A q \in Process \ {p} : Untouched(q)
  BY <1>0, <1>1 DEF DashTypeOK, Untouched
<1>3. DashTypeOK'
  BY <1>0 DEF DashTypeOK
<1>4. CliInv(p)'
  BY <1>0, <1>1 DEF CliInv, ServesNowhere
<1> QED
  BY <1>0, <1>2, <1>3, <1>4, OneProcess

LEMMA EndsKeeps ==
  ASSUME DashInv, NEW p \in Process, Ends(p)
  PROVE  DashInv'
<1>0. DashTypeOK
  BY DEF DashInv
<1>1. /\ holder' \in [PortSet -> {"free", "other"} \cup Process]
      /\ \A q \in Process \ {p} : Served(q)' = Served(q)
      /\ Served(p)' = {}
  <2>1. \A n \in PortSet : holder'[n] = IF holder[n] = p THEN "free" ELSE holder[n]
    BY <1>0 DEF Ends, DashTypeOK
  <2>2. \A q \in Process : q # "free"
    BY DashboardAssumption DEF Process
  <2>3. holder' \in [PortSet -> {"free", "other"} \cup Process]
    BY <1>0 DEF Ends, DashTypeOK
  <2> QED
    BY <2>1, <2>2, <2>3 DEF Served, PortSet
<1>2. /\ run' = run /\ up' = up \ {p} /\ UNCHANGED <<enabled, page, shown>>
      /\ DOMAIN server' = Process /\ server'[p] = {} /\ answers'[p] = {}
      /\ answers' \in [Process -> SUBSET SUBSET Link]
      /\ \A q \in Process \ {p} : server'[q] = server[q] /\ answers'[q] = answers[q]
  BY <1>0 DEF Ends, DashTypeOK
<1>3. \A q \in Hermes \ {p} : /\ lock'[q] = lock[q] /\ dash'[q] = dash[q]
                              /\ pc'[q] = pc[q] /\ tried'[q] = tried[q]
  BY DEF Ends
<1>4. p \in Hermes => /\ lock'[p] = {} /\ dash'[p] = NotStarted
                      /\ \A t \in Caller : pc'[p][t] = "idle"
  BY DEF Ends
<1>5. \A q \in Process \ {p} : Untouched(q)
  BY <1>1, <1>2, <1>3 DEF Untouched
<1>6. DashTypeOK'
  <2>1. lock' \in [Hermes -> SUBSET Caller] /\ tried' \in [Hermes -> Nat]
    BY <1>0 DEF Ends, DashTypeOK
  <2>2. dash' \in [Hermes -> [started : BOOLEAN, url : SUBSET Link]]
    BY <1>0 DEF Ends, DashTypeOK, NotStarted
  <2>3. pc' \in [Hermes -> [Caller -> {"idle", "waiting", "starting", "binding", "recording",
                                       "answering"}]]
    BY <1>0 DEF Ends, DashTypeOK
  <2>4. calls' \in [Hermes -> [Caller -> Nat]]
    BY <1>0 DEF Ends, DashTypeOK
  <2> QED
    BY <1>0, <1>1, <1>2, <2>1, <2>2, <2>3, <2>4 DEF DashTypeOK
<1>7. ServesNowhere(p)'
  BY <1>1, <1>2 DEF ServesNowhere
<1>8. p \in Hermes => HermesInv(p)'
  <2> SUFFICES ASSUME p \in Hermes PROVE HermesInv(p)'
    OBVIOUS
  <2>1. Inside(p)' = {} /\ \A u \in Caller : ThreadInv(p, u)'
    BY <1>4 DEF Inside, ThreadInv
  <2> QED
    BY <1>2, <1>4, <1>7, <2>1 DEF HermesInv, NotStarted
<1>9. p \in Cli => CliInv(p)'
  BY <1>2, <1>7 DEF CliInv
<1> QED
  BY <1>2, <1>5, <1>6, <1>8, <1>9, OneProcess

\* Other programs take only ports that are free, and free only what they took.
LEMMA OthersKeep ==
  ASSUME DashInv, NEW n \in PortSet, OtherTakes(n) \/ OtherFrees(n)
  PROVE  DashInv'
<1>0. DashTypeOK /\ \A q \in Process : q \notin {"free", "other"}
  BY DashboardAssumption DEF DashInv, Process
<1>1. /\ holder[n] \in {"free", "other"}
      /\ \E x \in {"free", "other"} : holder' = [holder EXCEPT ![n] = x]
      /\ UNCHANGED <<enabled, up, run, lock, dash, pc, tried, calls, server, answers, page, shown>>
  BY DEF OtherTakes, OtherFrees
<1>2. /\ holder' \in [PortSet -> {"free", "other"} \cup Process]
      /\ \A q \in Process : Served(q)' = Served(q)
  BY <1>0, <1>1, PortTaken
<1>3. \A q \in Process : Untouched(q)
  BY <1>1, <1>2 DEF Untouched
<1>4. DashTypeOK'
  BY <1>0, <1>1, <1>2 DEF DashTypeOK
<1>5. \A b \in Page : PageInv(b)'
  BY <1>1 DEF DashInv, PageInv
<1> QED
  BY <1>3, <1>4, <1>5, UntouchedKeeps DEF DashInv, Process

\* Opening and refreshing a page changes nothing but that page.
LEMMA PagesKeep ==
  ASSUME DashInv, DashTypeOK', \A b \in Page : PageInv(b)',
         UNCHANGED <<enabled, up, run, lock, dash, pc, tried, calls, holder, server, answers>>
  PROVE  DashInv'
<1>1. \A q \in Process : Untouched(q)
  BY SamePorts DEF Untouched
<1> QED
  BY <1>1, UntouchedKeeps DEF DashInv, Process

\* An answer is a link or none.
LEMMA AnswersAreLinks ==
  ASSUME DashInv, NEW p \in Process, NEW url \in answers[p]
  PROVE  \A at1, at2 \in url : at1 = at2
<1>1. CASE p \in Hermes
  BY <1>1 DEF DashInv, HermesInv
<1>2. CASE p \in Cli
  BY <1>2 DEF DashInv, CliInv
<1> QED
  BY <1>1, <1>2 DEF Process

LEMMA OpenPageKeeps ==
  ASSUME DashInv, NEW b \in Page, OpenPage(b)
  PROVE  DashInv'
<1>0. PICK p \in Process : \E url \in answers[p] : page' = [page EXCEPT ![b] = url]
  BY DEF OpenPage
<1>1. PICK url \in answers[p] : page' = [page EXCEPT ![b] = url]
  BY <1>0
<1>2. /\ url \in SUBSET Link
      /\ page' \in [Page -> SUBSET Link] /\ shown' \in [Page -> SUBSET Token]
      /\ page'[b] = url /\ shown'[b] = {}
      /\ \A e \in Page \ {b} : page'[e] = page[e] /\ shown'[e] = shown[e]
  BY <1>1 DEF DashInv, DashTypeOK, OpenPage
<1>3. DashTypeOK'
  BY <1>2 DEF DashInv, DashTypeOK, OpenPage
<1>4. \A e \in Page : PageInv(e)'
  BY <1>2, AnswersAreLinks DEF DashInv, PageInv
<1> QED
  BY <1>3, <1>4, PagesKeep DEF OpenPage

\* What a process serves with, it serves with the token of its present run.
LEMMA ServerHasToken ==
  ASSUME DashInv, NEW p \in Process, NEW cfg \in server[p]
  PROVE  cfg.token = Fresh(p) /\ Fresh(p) \in Token
<1>1. \A n : ConfigOn(p, n).token = Fresh(p)
  BY DEF ConfigOn, Config
<1>2. Fresh(p) \in Token
  BY DEF DashInv, DashTypeOK, Fresh, Token
<1>3. ASSUME p \in Hermes PROVE \E n : server[p] = {ConfigOn(p, n)}
  <2>1. HermesInv(p)
    BY <1>3 DEF DashInv
  <2>2. ASSUME dash[p].url = {} PROVE \E t \in Caller : pc[p][t] = "recording"
    BY <2>1, <2>2 DEF HermesInv, ServesNowhere
  <2>3. ASSUME NEW t \in Caller, pc[p][t] = "recording" PROVE ServesOn(p, NextPort(p))
    BY <2>1, <2>3 DEF HermesInv, ThreadInv
  <2>4. ASSUME dash[p].url # {} PROVE \E n \in PortSet : ServesOn(p, n)
    BY <2>1, <2>4 DEF HermesInv
  <2> QED
    BY <2>2, <2>3, <2>4 DEF ServesOn
<1>4. ASSUME p \in Cli PROVE \E n : server[p] = {ConfigOn(p, n)}
  BY <1>4 DEF DashInv, CliInv, ServesOn, ServesNowhere
<1> QED
  BY <1>1, <1>2, <1>3, <1>4 DEF Process

\* Data is given for the server's token alone (authorize).
LEMMA DataNeedsToken ==
  ASSUME NEW cfg, NEW req, HasData(cfg, req)
  PROVE  req.token = cfg.token
<1>1. req.path \in ApiPaths /\ Handle(cfg, req) = 200
  BY DEF HasData
<1>2. Authorize(cfg, req) = 200
  <2>1. CASE ~HostOk(cfg, req.host)
    BY <1>1, <2>1 DEF Handle
  <2>2. CASE HostOk(cfg, req.host) /\ req.method = "OPTIONS"
    BY <1>1, <2>2 DEF Handle
  <2>3. CASE HostOk(cfg, req.host) /\ req.method = "POST"
    BY <1>1, <2>3 DEF Handle
  <2>4. CASE HostOk(cfg, req.host) /\ req.method \notin {"OPTIONS", "POST"}
    BY <1>1, <2>4 DEF Handle
  <2> QED
    BY <2>1, <2>2, <2>3, <2>4
<1> QED
  BY <1>1, <1>2 DEF Authorize

LEMMA RefreshKeeps ==
  ASSUME DashInv, NEW b \in Page, NEW path \in Paths, Refresh(b, path)
  PROVE  DashInv'
<1>1. PICK at \in page[b], p \in Process :
        \E cfg \in server[p] :
           HasData(cfg, Request(at, path)) /\ shown' = [shown EXCEPT ![b] = {Fresh(p)}]
  BY DEF Refresh
<1>2. PICK cfg \in server[p] :
        HasData(cfg, Request(at, path)) /\ shown' = [shown EXCEPT ![b] = {Fresh(p)}]
  BY <1>1
<1>3. at.token = Fresh(p) /\ Fresh(p) \in Token
  BY <1>2, DataNeedsToken, ServerHasToken DEF Request
<1>4. /\ shown' \in [Page -> SUBSET Token] /\ shown'[b] = {at.token} /\ page' = page
      /\ \A e \in Page \ {b} : shown'[e] = shown[e]
  BY <1>2, <1>3 DEF DashInv, DashTypeOK, Refresh
<1>5. DashTypeOK'
  BY <1>4 DEF DashInv, DashTypeOK, Refresh
<1>6. \A e \in Page : PageInv(e)'
  BY <1>4 DEF DashInv, PageInv
<1> QED
  BY <1>5, <1>6, PagesKeep DEF Refresh

LEMMA InitialDashboards == DashInit => DashInv
<1> SUFFICES ASSUME DashInit PROVE DashInv
  OBVIOUS
<1>1. DashTypeOK
  BY DEF DashInit, DashTypeOK, NotStarted, PortSet
<1>2. \A p \in Process : server[p] = {} /\ answers[p] = {} /\ Served(p) = {}
  BY DashboardAssumption DEF DashInit, Process, Served
<1>3. ASSUME NEW p \in Hermes PROVE HermesInv(p)
  <2>1. Inside(p) = {} /\ \A t \in Caller : ThreadInv(p, t)
    BY DEF DashInit, Inside, ThreadInv
  <2> QED
    BY <1>2, <2>1 DEF DashInit, HermesInv, NotStarted, ServesNowhere, Process
<1>4. \A p \in Cli : CliInv(p)
  BY <1>2 DEF DashInit, CliInv, ServesNowhere, Process
<1>5. \A b \in Page : PageInv(b)
  BY DEF DashInit, PageInv
<1> QED
  BY <1>1, <1>3, <1>4, <1>5 DEF DashInv

-----------------------------------------------------------------------------
(* The theorems.                                                            *)

\* The inductive invariant of the dashboards: one thread past the lock of each process,
\* and what each process listens on, serves with and has answered.
THEOREM DashInvariant == DashSpec => []DashInv
<1>1. DashInv /\ [DashNext]_dashVars => DashInv'
  <2> SUFFICES ASSUME DashInv, [DashNext]_dashVars PROVE DashInv'
    OBVIOUS
  <2>1. ASSUME NEW p \in Hermes, NEW t \in Caller, Ensure(p, t) \/ EnsureStep(p, t) PROVE DashInv'
    BY <2>1, EnsureKeeps, AcquireKeeps, BeginStartKeeps, StartRaisesKeeps, BindPortKeeps,
       PortInUseKeeps, RecordDashKeeps, ThreadRaisesKeeps, AnswerKeeps DEF EnsureStep
  <2>2. CASE UNCHANGED dashVars
    <3>1. DashTypeOK'
      BY <2>2 DEF dashVars, DashInv, DashTypeOK
    <3>2. \A b \in Page : PageInv(b)'
      BY <2>2 DEF dashVars, DashInv, PageInv
    <3> QED
      BY <2>2, <3>1, <3>2, PagesKeep DEF dashVars
  <2> QED
    BY <2>1, <2>2, StartsKeeps, CliStartsKeeps, CliFailsKeeps, EndsKeeps, OthersKeep,
       OpenPageKeeps, RefreshKeeps DEF DashNext, PortSet
<1> QED
  BY <1>1, InitialDashboards, PTL DEF DashSpec

\* A process with its dashboard gives data to whoever uses its url, under the name in the
\* url or as localhost.
LEMMA UrlLeads ==
  ASSUME DashInv, NEW p \in Process, NEW n \in PortSet, ServesOn(p, n)
  PROVE  LeadsTo({[port |-> n, token |-> Fresh(p)]}, p)
<1> DEFINE at == [port |-> n, token |-> Fresh(p)]
<1>1. Served(p) = {at.port}
  BY DEF ServesOn
<1>2. ASSUME NEW name \in {Host, "localhost"}
      PROVE  HasData(ConfigOn(p, n), [Request(at, "api") EXCEPT !.host = <<name, at.port>>])
  <2> DEFINE req == [Request(at, "api") EXCEPT !.host = <<name, at.port>>]
             cfg == ConfigOn(p, n)
  <2>1. req.method = "GET" /\ req.path = "api" /\ req.host = <<name, n>> /\ req.token = Fresh(p)
    BY DEF Request
  <2>2. cfg.token = Fresh(p) /\ cfg.hosts = HostsOf(Host, n)
    BY DEF ConfigOn, Config
  <2>3. cfg.token # NoToken
    BY <2>2, DashboardAssumption DEF DashInv, DashTypeOK, Fresh
  <2> HIDE DEF req, cfg
  <2>4. HostOk(cfg, req.host)
    BY <2>1, <2>2 DEF HostOk, HostsOf
  <2>5. Authorize(cfg, req) = 200
    BY <2>1, <2>2, <2>3 DEF Authorize, ApiPaths
  <2>6. RouteStatus(req.path) = 200
    BY <2>1 DEF RouteStatus
  <2>7. Handle(cfg, req) = 200
    BY <2>1, <2>4, <2>5, <2>6 DEF Handle
  <2>8. HasData(cfg, req)
    BY <2>1, <2>7 DEF HasData, ApiPaths
  <2> QED
    BY <2>8 DEF cfg, req
<1> QED
  BY <1>1, <1>2 DEF LeadsTo, ServesOn

\* The dashboard of a process starts at most once and all its callers get the same
\* answer, a url that leads to it or none (_ensure_dashboard), however many threads call
\* and whichever ports are taken.
THEOREM DashboardIsOne == DashSpec => []OneDashboard
<1>1. DashInv => OneDashboard
  <2> SUFFICES ASSUME DashInv, NEW p \in Process
               PROVE  /\ \A url \in answers[p] : LeadsTo(url, p)
                      /\ Cardinality(answers[p]) <= 1
                      /\ Cardinality(Served(p)) <= 1
    BY DEF OneDashboard
  <2>1. \A S : (\E x : S \subseteq {x}) => Cardinality(S) <= 1
    <3> SUFFICES ASSUME NEW S, NEW x, S \subseteq {x} PROVE Cardinality(S) <= 1
      OBVIOUS
    <3>1. S = {} \/ S = {x}
      OBVIOUS
    <3>2. Cardinality({}) = 0 /\ Cardinality({x}) = 1
      BY FS_EmptySet, FS_Singleton
    <3> QED
      BY <3>1, <3>2
  <2>2. LeadsTo({}, p)
    BY DEF LeadsTo
  <2>3. ASSUME p \in Hermes
        PROVE  /\ \A url \in answers[p] : LeadsTo(url, p)
               /\ \E x : answers[p] \subseteq {x}
               /\ \E x : Served(p) \subseteq {x}
    <3>1. HermesInv(p)
      BY <2>3 DEF DashInv
    <3>2. CASE dash[p].url = {}
      <4>1. Served(p) = {} \/ \E t \in Caller : ServesOn(p, NextPort(p))
        BY <3>1, <3>2 DEF HermesInv, ThreadInv, ServesNowhere
      <4> QED
        BY <2>2, <3>1, <3>2, <4>1 DEF HermesInv, ServesOn
    <3>3. CASE dash[p].url # {}
      <4>1. PICK n \in PortSet :
              dash[p].url = {[port |-> n, token |-> Fresh(p)]} /\ ServesOn(p, n)
        BY <3>1, <3>3 DEF HermesInv
      <4>2. LeadsTo(dash[p].url, p)
        BY <4>1, UrlLeads
      <4> QED
        BY <3>1, <4>1, <4>2 DEF HermesInv, ServesOn
    <3> QED
      BY <3>2, <3>3
  <2>4. ASSUME p \in Cli
        PROVE  /\ \A url \in answers[p] : LeadsTo(url, p)
               /\ \E x : answers[p] \subseteq {x}
               /\ \E x : Served(p) \subseteq {x}
    <3>1. CliInv(p)
      BY <2>4 DEF DashInv
    <3>2. CASE p \in up
      <4> DEFINE link == [port |-> Port[1], token |-> Fresh(p)]
      <4>1. answers[p] = {{link}} /\ ServesOn(p, Port[1])
        BY <3>1, <3>2 DEF CliInv
      <4>2. LeadsTo({link}, p)
        BY <4>1, UrlLeads, FirstPort
      <4> HIDE DEF link
      <4> QED
        BY <4>1, <4>2 DEF ServesOn
    <3>3. CASE p \notin up
      BY <3>1, <3>3 DEF CliInv, ServesNowhere
    <3> QED
      BY <3>2, <3>3
  <2> QED
    BY <2>1, <2>3, <2>4 DEF Process
<1> QED
  BY <1>1, DashInvariant, PTL

\* No page shows the data of another process or run, whoever listens on its port by then
\* (authorize and the token of every start).
THEOREM PagesSeeTheirOwn == DashSpec => []PageSeesItsOwnProcess
<1>1. DashInv => PageSeesItsOwnProcess
  BY DEF DashInv, PageInv, PageSeesItsOwnProcess
<1> QED
  BY <1>1, DashInvariant, PTL

=============================================================================
