------------------------------ MODULE Process ------------------------------
(***************************************************************************)
(* The life of the triton process: a boot that checks its configuration    *)
(* step by step and gives up with exit code 2 (or 1, where a listener      *)
(* cannot be bound), the listeners it serves, the adapters that read a     *)
(* socket, and the drain that a signal starts.                             *)
(*                                                                         *)
(* The boot is a list of the gates of module Gates; what a gate does is    *)
(* to bind a port, to install the signal handlers or to spawn an adapter.  *)
(* A socket adapter runs from its place in the list on, so while the boot  *)
(* is still going it answers messages, and a signal may come.              *)
(***************************************************************************)
EXTENDS Gates

CONSTANTS
    Deployments,  \* the deployments of the run: see Deployment
    MaxRequests   \* bound: the requests of one behaviour

VARIABLES
    dep,       \* the deployment
    fault,     \* what is wrong with its configuration, if anything
    at,        \* the next gate of the boot
    phase,     \* "boot", "serve", "drain" or "exited"
    signalled, \* a SIGTERM or SIGINT came after the handlers were installed
    token,     \* shutdown was cancelled
    port,      \* port[p]: "closed", "bound", "up" (accepts), "draining" or "ended"
    listens,      \* listens[s]: "off", "idle", "turn" or "done"
    request,   \* request[p]: "none" or "open"
    asked,     \* requests so far
    code,      \* the exit code
    overdue    \* the drain deadline ended the process

procVars == <<dep, fault, at, phase, signalled, token, port, listens, request, asked, code, overdue>>

Ports == {"rest", "mcp", "a2a", "metrics", "chat"}
Sockets == {"signal", "gateway", "bridge", "poll"}
NoCode == 99
Deployment ==
    [prod : BOOLEAN, ports : SUBSET Ports, sockets : SUBSET Sockets, webhooks : SUBSET STRING,
     optional : BOOLEAN, signer : BOOLEAN, raster : {"none", "tool", "service"}]

(***************************************************************************)
(* The boot                                                                *)
(***************************************************************************)
Exit2(flaw) == Refuse(flaw, 2, Silent)

\* A check that is made outside env=local only.
InProd(c, flaw) == Exit2(IF c.prod THEN flaw ELSE "-")
BindPort(c, p) ==
    IF p \in c.ports THEN << Refuse(p, 1, Silent), Do(p) >> ELSE <<>>

\* spec_a2a_config
BootSpecA2a == << Exit2("a2aUrl"), Exit2("a2aTool"), Exit2("a2aSkills") >>

\* mcp_routes: the Entra verifier, the origin, a foreign issuer, each entry.
BootMcpRoutes ==
    << Exit2("mcpEntra"), Exit2("mcpOrigin"), Exit2("mcpIssuer"), Exit2("mcpSlug"),
       Exit2("mcpTenant"), Exit2("mcpTwice"), Exit2("mcpScope") >>

\* Up to the shutdown token: the process has no handlers before `signals`.
BootListeners(c) ==
    << Exit2("actionKey"), InProd(c, "httpLinks"), Exit2("manifest"), Exit2("manifestKind") >>
    \o BootMcpRoutes \o << Do("signals") >>
    \o BindPort(c, "rest") \o BindPort(c, "mcp") \o BindPort(c, "a2a") \o BindPort(c, "metrics")

\* surfaces::registry refuses two guidances for one channel, and a long one.
BootSurfaces == << Exit2("guidanceTwice"), Exit2("guidanceLong") >>

\* The tools, the surfaces, and the signer, which is set whole or not at all.
BootCore(c) ==
    << Exit2("builtinTools") >> \o BootSurfaces
    \o IF c.signer THEN << Exit2("signerHalf"), Exit2("signerJwks"), Exit2("signerPem") >> ELSE <<>>

\* The static upstreams.
BootUpstreams(c) == << InProd(c, "endpoints") >>

\* identity_providers
BootProviders(c) ==
    << Exit2("entraTenants"), InProd(c, "entraAuthority"), InProd(c, "entraJwks"),
       Exit2("entraScope"), Exit2("googleDomains"), InProd(c, "tokeninfo"), InProd(c, "userinfo") >>

\* The verifiers and the task store.
BootIdentity(c) ==
    << Exit2("oidcHalf") >> \o BootProviders(c) \o << Exit2("scopes"), Exit2("taskDb") >>

\* The rasterizer, if an adapter ships dashboards.
BootRasterizer(c) ==
    CASE c.raster = "none" -> <<>>
      [] c.raster = "tool" -> << Exit2("rasterTool") >>
      [] c.raster = "service" -> << InProd(c, "rasterHost"), Exit2("rasterClient") >>

\* handle_build_error: an adapter listed as optional whose secret is not in
\* the environment is left out; any other failure ends the boot.
BuildAdapter(c, f, name, checks) ==
    checks \o IF f = name /\ c.optional THEN <<>> ELSE << Exit2(name), Do(name) >>

\* The adapters with a socket, and Telegram's long poll.
BootSignal(c, f) == BuildAdapter(c, f, "signal", << InProd(c, "signaldAddr") >>)
BootGateway(c, f) == BuildAdapter(c, f, "gateway", << InProd(c, "gatewayUrl"), InProd(c, "discordApi") >>)
BootBridge(c, f) == BuildAdapter(c, f, "bridge", << Exit2("bridgeAddr"), InProd(c, "bridgeHost") >>)
BootPoll(c, f) == BuildAdapter(c, f, "poll", << InProd(c, "telegramApi") >>)

\* The adapters with a webhook.
BootTelegram(c, f) == BuildAdapter(c, f, "telegram", << InProd(c, "telegramApi") >>)
BootGoogle(c, f) ==
    BuildAdapter(c, f, "google_chat", << InProd(c, "googleJwks"), InProd(c, "googleApi") >>)
BootDiscord(c, f) == BuildAdapter(c, f, "discord", <<>>)
BootWhatsApp(c, f) == BuildAdapter(c, f, "whatsapp", << InProd(c, "whatsappApi") >>)
BootEmail(c, f) == BuildAdapter(c, f, "email", << InProd(c, "emailApi") >>)
BootTwilio(c, f) == BuildAdapter(c, f, "twilio", << InProd(c, "twilioApi") >>)
BootRcs(c, f) == BuildAdapter(c, f, "rcs", << InProd(c, "twilioApi") >>)

\* triton_embed::chat::msteams: check_egress and a second adapter on the
\* canonical path are never optional.
TeamsEgress(c) == << InProd(c, "openidUrl"), InProd(c, "tokenUrl"), InProd(c, "serviceHosts") >>
BootTeams(c, f) == BuildAdapter(c, f, "msteams", TeamsEgress(c)) \o << Exit2("canonicalTwice") >>

BootSocket(c, f, s) ==
    IF s \notin c.sockets THEN <<>>
    ELSE CASE s = "signal" -> BootSignal(c, f)
           [] s = "gateway" -> BootGateway(c, f)
           [] s = "bridge" -> BootBridge(c, f)
           [] s = "poll" -> BootPoll(c, f)
BootWebhook(c, f, a) ==
    IF a \notin c.webhooks THEN <<>>
    ELSE CASE a = "telegram" -> BootTelegram(c, f)
           [] a = "google_chat" -> BootGoogle(c, f)
           [] a = "discord" -> BootDiscord(c, f)
           [] a = "whatsapp" -> BootWhatsApp(c, f)
           [] a = "msteams" -> BootTeams(c, f)
           [] a = "email" -> BootEmail(c, f)
           [] a = "twilio" -> BootTwilio(c, f)
           [] a = "rcs" -> BootRcs(c, f)

\* The manifest's adapters, in the order of their names.
BootAdapters(c, f) ==
    BootSocket(c, f, "bridge") \o BootWebhook(c, f, "discord") \o BootWebhook(c, f, "email")
    \o BootSocket(c, f, "gateway") \o BootWebhook(c, f, "google_chat") \o BootWebhook(c, f, "msteams")
    \o BootSocket(c, f, "poll") \o BootWebhook(c, f, "rcs") \o BootSocket(c, f, "signal")
    \o BootWebhook(c, f, "telegram") \o BootWebhook(c, f, "twilio") \o BootWebhook(c, f, "whatsapp")

\* After the adapters: the chat listener, and the A2A configuration.
BootServe(c) == BindPort(c, "chat") \o BootSpecA2a

Boot(c, f) ==
    BootListeners(c) \o BootCore(c) \o BootUpstreams(c) \o BootIdentity(c) \o BootRasterizer(c)
    \o BootAdapters(c, f) \o BootServe(c)

BootFlaws(c) == {Boot(c, "none")[i].flaw : i \in DOMAIN Boot(c, "none")} \ {"", "-"}

ProcInit ==
    /\ dep \in Deployments /\ fault \in BootFlaws(dep) \cup {"none"} /\ at = 1
    /\ phase = "boot" /\ signalled = FALSE /\ token = FALSE
    /\ port = [p \in Ports |-> "closed"] /\ listens = [s \in Sockets |-> "off"]
    /\ request = [p \in Ports |-> "none"] /\ asked = 0 /\ code = NoCode /\ overdue = FALSE

Exited(c) == phase' = "exited" /\ code' = c

\* One gate.  The handlers are not there before `signals`.
BootStep ==
    /\ phase = "boot" /\ at <= Len(Boot(dep, fault))
    /\ LET g == Boot(dep, fault)[at] IN
       IF Fails(g, [flaws |-> {fault}], [level |-> <<>>])
       THEN Exited(g.status) /\ UNCHANGED <<at, port, listens>>
       ELSE /\ at' = at + 1
            /\ port' = IF g.does \in Ports THEN [port EXCEPT ![g.does] = "bound"] ELSE port
            /\ listens' = IF g.does \in Sockets THEN [listens EXCEPT ![g.does] = "idle"] ELSE listens
            /\ UNCHANGED <<phase, code>>
    /\ UNCHANGED <<dep, fault, signalled, token, request, asked, overdue>>

Handled == \E i \in 1..(at - 1) : Boot(dep, fault)[i].does = "signals"

\* A signal; without handlers it kills.
Signal ==
    /\ phase # "exited" /\ ~signalled
    /\ IF Handled THEN signalled' = TRUE /\ UNCHANGED <<phase, code>>
       ELSE Exited(143) /\ UNCHANGED signalled
    /\ UNCHANGED <<dep, fault, at, token, port, listens, request, asked, overdue>>

\* signal_task
CancelToken ==
    /\ signalled /\ ~token /\ phase # "exited" /\ token' = TRUE
    /\ UNCHANGED <<dep, fault, at, phase, signalled, port, listens, request, asked, code, overdue>>

(***************************************************************************)
(* Serving                                                                 *)
(***************************************************************************)
\* The boot is over: every bound listener accepts.
Serve ==
    /\ phase = "boot" /\ at > Len(Boot(dep, fault)) /\ phase' = "serve"
    /\ port' = [p \in Ports |-> IF port[p] = "bound" THEN "up" ELSE port[p]]
    /\ UNCHANGED <<dep, fault, at, signalled, token, listens, request, asked, code, overdue>>

Serving == phase \in {"serve", "drain"}

Accept(p) ==
    /\ Serving /\ port[p] = "up" /\ request[p] = "none" /\ asked < MaxRequests
    /\ request' = [request EXCEPT ![p] = "open"] /\ asked' = asked + 1
    /\ UNCHANGED <<dep, fault, at, phase, signalled, token, port, listens, code, overdue>>

Respond(p) ==
    /\ Serving /\ request[p] = "open" /\ request' = [request EXCEPT ![p] = "none"]
    /\ UNCHANGED <<dep, fault, at, phase, signalled, token, port, listens, asked, code, overdue>>

\* with_graceful_shutdown: no new connection, then every open one is awaited.
StopAccepting(p) ==
    /\ Serving /\ token /\ port[p] = "up" /\ port' = [port EXCEPT ![p] = "draining"]
    /\ UNCHANGED <<dep, fault, at, phase, signalled, token, listens, request, asked, code, overdue>>
ListenerEnds(p) ==
    /\ Serving /\ port[p] = "draining" /\ request[p] = "none" /\ port' = [port EXCEPT ![p] = "ended"]
    /\ UNCHANGED <<dep, fault, at, phase, signalled, token, listens, request, asked, code, overdue>>

\* A socket adapter takes a message, answers it, and stops between two.
Turn(s) ==
    /\ phase # "exited" /\ listens[s] = "idle" /\ ~token /\ listens' = [listens EXCEPT ![s] = "turn"]
    /\ UNCHANGED <<dep, fault, at, phase, signalled, token, port, request, asked, code, overdue>>
TurnOver(s) ==
    /\ phase # "exited" /\ listens[s] = "turn" /\ listens' = [listens EXCEPT ![s] = "idle"]
    /\ UNCHANGED <<dep, fault, at, phase, signalled, token, port, request, asked, code, overdue>>
SocketEnds(s) ==
    /\ phase # "exited" /\ token /\ listens[s] = "idle" /\ listens' = [listens EXCEPT ![s] = "done"]
    /\ UNCHANGED <<dep, fault, at, phase, signalled, token, port, request, asked, code, overdue>>

\* The select of main: the token is cancelled, and the deadline runs.
DrainBegins ==
    /\ phase = "serve" /\ token /\ phase' = "drain"
    /\ UNCHANGED <<dep, fault, at, signalled, token, port, listens, request, asked, code, overdue>>

\* A listener that is not configured only waits for the token.
PortOver(p) == IF port[p] = "closed" THEN token ELSE port[p] = "ended"
SocketsOver == \A s \in Sockets : listens[s] \in {"off", "done"}

\* serve: the join of the listeners and the adapters.
AllOver == (\A p \in Ports : PortOver(p)) /\ SocketsOver

ServeReturns ==
    /\ Serving /\ AllOver /\ Exited(0) /\ token' = TRUE
    /\ UNCHANGED <<dep, fault, at, signalled, port, listens, request, asked, overdue>>

\* Mutant: the deadline is only looked at when nothing is in flight.
DeadlineWhenQuiet ==
    /\ phase = "drain" /\ (\A s \in Sockets : listens[s] # "turn") /\ (\A p \in Ports : request[p] = "none")
    /\ Exited(0) /\ overdue' = TRUE
    /\ UNCHANGED <<dep, fault, at, signalled, token, port, listens, request, asked>>

\* drain_deadline: what is still in flight is cut off.
Deadline ==
    /\ phase = "drain" /\ Exited(0) /\ overdue' = TRUE
    /\ UNCHANGED <<dep, fault, at, signalled, token, port, listens, request, asked>>

MainStep == BootStep \/ CancelToken \/ Serve \/ DrainBegins \/ ServeReturns

ProcNext ==
    \/ MainStep \/ Signal \/ Deadline
    \/ \E p \in Ports : Accept(p) \/ Respond(p) \/ StopAccepting(p) \/ ListenerEnds(p)
    \/ \E s \in Sockets : Turn(s) \/ TurnOver(s) \/ SocketEnds(s)

(***************************************************************************)
(* Properties                                                              *)
(***************************************************************************)
\* A process that ends with 0 was told to, and unless the deadline cut it
\* off every request it accepted was answered, every socket adapter ended
\* between two messages (FR-L-2, and issue #65: the deadline bounds the drain only).
CleanExit ==
    code = 0 => /\ signalled
                /\ overdue \/ (SocketsOver /\ \A p \in Ports : request[p] = "none")
=============================================================================
