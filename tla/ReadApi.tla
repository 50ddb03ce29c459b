------------------------------- MODULE ReadApi -------------------------------
(***************************************************************************)
(* The read API behind the dashboard (server/read_api.py): handle() as a   *)
(* function of a server's configuration and a request to a status.         *)
(*                                                                         *)
(* A host header is <<name, port>>.  A path is abstracted to how it is     *)
(* routed; the bodies are the views (AuditViews, ProgressHooks).           *)
(***************************************************************************)
EXTENDS Naturals

CONSTANT NoToken  \* session_token = ""

\* What _route tells apart: pages and static files without data, /healthz, a file or
\* a path that does not exist, and below /api/ a view, a dispatch or path that does
\* not exist, and a view that raises (limit=x, an unreadable store).
ApiPaths == {"api", "api_missing", "api_raises"}
Paths == ApiPaths \cup {"page", "healthz", "missing"}

\* A ReadApiConfig; allowed_hosts is {} when it was not filled.
Config(host, port, token, hosts) ==
    [host |-> host, port |-> port, token |-> token, hosts |-> hosts]

\* host:port, localhost:port and 127.0.0.1:port.
HostsOf(host, port) == {<<host, port>>, <<"localhost", port>>, <<"127.0.0.1", port>>}

\* ensure_session_token: an ephemeral one if none was set.
EnsureSessionToken(cfg, fresh) ==
    IF cfg.token # NoToken THEN cfg
    ELSE Config(cfg.host, cfg.port, fresh,
                IF cfg.hosts = {} THEN HostsOf(cfg.host, cfg.port) ELSE cfg.hosts)

HostOk(cfg, host) ==
    host \in IF cfg.hosts = {} THEN HostsOf(cfg.host, cfg.port) ELSE cfg.hosts

MutantNoTokenCompare(cfg, req) ==
    IF req.path \in ApiPaths /\ cfg.token = NoToken THEN 503 ELSE 200

\* authorize, behind the host test that handle() makes first: 200 allows.
Authorize(cfg, req) ==
    CASE req.path \notin ApiPaths                       -> 200
      [] req.path \in ApiPaths /\ cfg.token = NoToken   -> 503
      [] OTHER -> IF req.token = cfg.token THEN 200 ELSE 401

RouteStatus(path) ==
    CASE path \in {"missing", "api_missing"} -> 404
      [] path = "api_raises"                 -> 500
      [] OTHER                               -> 200

Handle(cfg, req) ==
    CASE ~HostOk(cfg, req.host)                              -> 403
      [] HostOk(cfg, req.host) /\ req.method = "OPTIONS"     -> 204
      [] HostOk(cfg, req.host) /\ req.method = "POST"        -> 405
      [] OTHER -> IF Authorize(cfg, req) = 200 THEN RouteStatus(req.path)
                  ELSE Authorize(cfg, req)

\* The response carries data of the store.
HasData(cfg, req) == req.method = "GET" /\ req.path \in ApiPaths /\ Handle(cfg, req) = 200

=============================================================================
