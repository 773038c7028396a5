---------------------------- MODULE HttpIngress ----------------------------
(***************************************************************************)
(* The HTTP side: REST, MCP, A2A (message:send, JSON-RPC 0.3 and 1.0, and  *)
(* its REST form) and outbound pushes, each request a list of gates        *)
(* (Gates), and what requests leave behind: task records, and the audit    *)
(* ring, which decides who may read a record without an owner.             *)
(*                                                                         *)
(* A request d is of d.kind, by the principal d.by, may have d.flaws, and  *)
(* is about the task or trace d.id.  JSON-RPC puts the status of an error  *)
(* into the body of a 200.                                                 *)
(***************************************************************************)
EXTENDS Gates, FiniteSets

CONSTANTS
    Principals,   \* [iss, sub, tenant, ops]: ops if the token claims audit:read-all
    Operators,    \* the (tenant, sub) pairs named by the operator
    TaskIds,
    RingCap,      \* the capacity of the audit ring
    MaxHttp       \* bound: steps

VARIABLES
    records,   \* records[id]: NoRecord, or who started it and whether it has an owner
    audit,     \* the audit ring, oldest first
    revoked,   \* the principals the operator took out
    steps

httpVars == <<records, audit, revoked, steps>>

ReservedTenants == {"-", "pairing", ""}
Nobody == [iss |-> "", sub |-> "", tenant |-> "", ops |-> FALSE]
NoRecord == [by |-> Nobody, owned |-> FALSE]

\* "other" stands for the traces that are no task's.
ASSUME HttpConstants ==
    TaskIds # {} /\ "other" \notin TaskIds /\ Nobody \notin Principals /\ RingCap \in Nat \ {0}

HttpInit ==
    /\ records = [id \in TaskIds |-> NoRecord] /\ audit = <<>> /\ revoked = {} /\ steps = 0

(***************************************************************************)
(* Who is asking, and what it may read                                     *)
(***************************************************************************)
\* IdentityProvider::verify; the verifiers are those of KeyCaches.  Keys that
\* cannot be fetched are a 502 where the error's own status is used (REST,
\* message:send, outbound), and a 401 on MCP, JSON-RPC and A2A's REST.
VerifiedOr(jwks) ==
    << Refuse("bearer", 401, Anon), Refuse("issuer", 401, Anon), Refuse("token", 401, Anon),
       Refuse("scope", 403, Anon), Refuse("jwks", jwks, Anon) >>
Verified == VerifiedOr(502)
VerifiedOr401 == VerifiedOr(401)

\* What a caller that is not verified can send.
Unverified == {"bearer", "issuer", "token", "scope", "jwks"}

\* deny_if_revoked; A2A's reads turn its error into an internal one.
NotRevoked(d) == << RefuseIf(d.by \in revoked, 403, Sub) >>
ReaderNotRevoked(d) == << RefuseIf(d.by \in revoked, 500, Sub) >>

\* The issuer counts: two may mint the same subject.
OwnerKey(p) == <<p.iss, p.sub, p.tenant>>

IsNamedOperator(p) == p.ops /\ <<p.tenant, p.sub>> \in Operators

\* audit_visibility_in: one's own tenant's lines, and no tenant is nobody's.
AuditVisible(p, entry) ==
    IsNamedOperator(p) \/ (p.tenant \notin ReservedTenants /\ entry.tenant = p.tenant)

\* Mutant: callers without a tenant are taken for one tenant.
MayReadTraceOfTenant(p, id) ==
    \E i \in DOMAIN audit : audit[i].trace = id /\ (IsNamedOperator(p) \/ audit[i].tenant = p.tenant)

\* may_read_trace, as long as the ring holds a line of the trace.
MayReadTrace(p, id) ==
    \E i \in DOMAIN audit :
        audit[i].trace = id /\ \/ AuditVisible(p, audit[i])
                               \/ audit[i].sub = p.sub /\ audit[i].tenant = p.tenant

\* readable: the owner, an operator, or, of a record without an owner, who may
\* read its trace.
Access(p, id) ==
    CASE records[id] = NoRecord -> "none"
      [] records[id].owned /\ OwnerKey(p) = OwnerKey(records[id].by) -> "owner"
      [] records[id].owned /\ OwnerKey(p) # OwnerKey(records[id].by) ->
           IF IsNamedOperator(p) THEN "operator" ELSE "none"
      [] OTHER -> IF MayReadTrace(p, id) THEN "legacy" ELSE "none"

Readable(d) == << Leave("noId", 400), LeaveIf(Access(d.by, d.id) = "none", 404) >> \o ReaderNotRevoked(d)

(***************************************************************************)
(* REST                                                                    *)
(***************************************************************************)
\* The dispatcher denies the revoked, and audits what it runs.
Dispatched(d) == NotRevoked(d) \o << Do("turn"), Done(200) >>

\* invoke_tool reads the Accept header before it asks who is there.
InvokeTool(d) == << Refuse("accept", 400, Anon) >> \o Verified \o Dispatched(d)
AuditTail(d) == Verified \o NotRevoked(d) \o << Do("audit"), Done(200) >>
TraceView(d) ==
    Verified \o NotRevoked(d)
    \o << Do(IF MayReadTrace(d.by, d.id) THEN "bodies" ELSE "audit"), Done(200) >>

\* Descriptors, the manifest, metrics: for whoever is verified.
PlainView == Verified \o << Do("view"), Done(200) >>
\* The preview's body is parsed before the handler runs.
SurfaceRender == 
    << Leave("body", 422) >> \o Verified \o << Leave("adapter", 400), Leave("surface", 400), Done(200) >>

RestRequest(d) ==
    CASE d.kind = "invoke" -> InvokeTool(d) [] d.kind = "audit" -> AuditTail(d)
      [] d.kind = "trace" -> TraceView(d) [] d.kind = "preview" -> SurfaceRender
      [] OTHER -> PlainView

(***************************************************************************)
(* MCP                                                                     *)
(***************************************************************************)
\* McpRoute::admit, on the endpoint of one directory.
Admitted == << Refuse("directory", 401, Anon), Refuse("routeScope", 403, Anon) >>

\* era: header and body agree on a version that is served.
Era == << Refuse("mismatch", 400, Sub), Refuse("version", 400, Sub), Refuse("method", 400, Sub) >>

ToolsCall(d) == << Leave("noName", 400), Leave("a2ui", 400) >> \o Dispatched(d)
ResourcesRead(d) == << Leave("noUri", 400), Leave("ownPage", 200) >> \o Dispatched(d)
UpdateModelContext(d) == << Leave("noUri", 400), Leave("noRecord", 400) >> \o Dispatched(d)
McpInitialize == << Leave("protocol", 400), Do("session"), Done(200) >>

\* rpc; a body that cannot be parsed is refused only to a verified caller.
McpRequest(d) ==
    VerifiedOr401 \o Admitted
    \o << Refuse("json", 400, Anon), Refuse("object", 200, Anon), Refuse("jsonrpc", 200, Anon),
          Refuse("noMethod", 200, Anon) >>
    \o Era \o << Leave("notification", 202) >>
    \o CASE d.kind = "call" -> ToolsCall(d) [] d.kind = "read" -> ResourcesRead(d)
         [] d.kind = "context" -> UpdateModelContext(d) [] d.kind = "initialize" -> McpInitialize
         [] d.kind = "list" -> << Do("view"), Done(200) >>
         [] OTHER -> << RefuseIf(TRUE, 404, Sub) >>

(***************************************************************************)
(* A2A                                                                     *)
(***************************************************************************)
\* message:send, which leaves a record without an owner.
MessageSend(d) ==
    Verified \o << Refuse("body", 400, Sub), Refuse("a2ui", 400, Sub), Refuse("noPart", 400, Sub),
                   Do("record") >> \o Dispatched(d)

\* text_from_params: a card's action, else the text, else what came with it.
TextFromParams == << Leave("noText", 400), Leave("incomplete", 200), Leave("blank", 200) >>
V03Send(d) == TextFromParams \o << Do("own") >> \o Dispatched(d)

\* A source button opens a document instead: rendered by a dispatch, whose
\* refusal only leaves it empty, or as a link.  message/send ("open") answers
\* without a task; message/stream leaves a record, without an owner and, for
\* a link ("openLink"), without a line.
Opens03 == {"open", "openStream", "openLink"}
DocOpenParts(d) == << RefuseIf(d.by \in revoked, 200, Sub), Do("turn"), Done(200) >>
V03Open(d) ==
    CASE d.kind = "open" -> << Leave("link", 200) >> \o DocOpenParts(d)
      [] d.kind = "openStream" -> << Do("record") >> \o DocOpenParts(d)
      [] OTHER -> << Do("record"), Done(200) >>

\* parse_send of 1.0, which takes a document's label for the text, and
\* refuse_continuation.
ParseSend ==
    << Leave("noMessage", 400), Leave("noMessageId", 400), Leave("role", 400), Leave("context", 400),
       Leave("noParts", 400), Leave("incomplete", 400), Leave("noText", 400) >>
RefuseContinuation(d) ==
    LET continues == "taskId" \in d.flaws IN
    << LeaveIf(continues /\ Access(d.by, d.id) = "none", 404),
       RefuseIf(continues /\ d.by \in revoked, 500, Sub), Leave("taskId", 400) >>
V10Send(d) ==
    ParseSend \o RefuseContinuation(d) \o << Leave("blank", 200), Do("own") >> \o Dispatched(d)

GetTask(d) == Readable(d) \o << Do("task"), Done(200) >>
SubscribeTask(d) == Readable(d) \o << Leave("finished", 400), Do("task"), Done(200) >>
CancelTask(d) == Readable(d) \o << LeaveIf(TRUE, 409) >>
ListTasks(d) ==
    << Leave("pageSize", 400), Leave("pageToken", 400), Leave("status", 400), Leave("artifacts", 400),
       Leave("after", 400) >> \o ReaderNotRevoked(d) \o << Do("list"), Done(200) >>

\* dispatch_rpc: each version has its own methods.
A2aMethod(d, v10) ==
    CASE d.kind = "send" -> IF v10 THEN V10Send(d) ELSE V03Send(d)
      [] d.kind \in Opens03 /\ ~v10 -> V03Open(d)
      [] d.kind = "get" -> GetTask(d)
      [] d.kind = "subscribe" -> SubscribeTask(d)
      [] d.kind = "cancel" -> CancelTask(d)
      [] d.kind = "tasks" /\ v10 -> ListTasks(d)
      [] OTHER -> << LeaveIf(TRUE, 404) >>

\* jsonrpc: nothing of the body is looked at, or audited, before the caller
\* is known.
JsonRpcRequest(d, v10) ==
    VerifiedOr401 \o << Leave("large", 413), Leave("json", 400), Leave("jsonrpc", 400), Leave("version", 400) >>
    \o A2aMethod(d, v10)

\* rest_session and rest_body.
RestSession == VerifiedOr401 \o << Leave("version", 400), Leave("large", 413), Leave("json", 400) >>
A2aRestRequest(d) == RestSession \o A2aMethod(d, TRUE)

(***************************************************************************)
(* Outbound pushes of agents                                               *)
(***************************************************************************)
\* outbound_send: axum parses the body first; the global bucket before the
\* tenant's.
OutboundSend(d) ==
    << Leave("body", 422) >> \o Verified \o NotRevoked(d)
    \o << Refuse("outboundScope", 403, Sub), Take("adapter", Sub), Take("tenant", Sub),
          Leave("noCourier", 404), Refuse("courier", 403, Sub), Do("push"), Leave("post", 502), Done(202) >>

(***************************************************************************)
(* Requests                                                                *)
(***************************************************************************)
Surfaces == {"rest", "mcp", "a2a", "v03", "v10", "v10rest", "outbound"}
HttpKinds(s) ==
    CASE s = "rest" -> {"invoke", "audit", "trace", "preview", "view"}
      [] s = "mcp" -> {"call", "read", "context", "initialize", "list", "other"}
      [] s \in {"v10", "v10rest"} -> {"send", "get", "subscribe", "cancel", "tasks", "other"}
      [] s = "v03" -> {"send", "get", "subscribe", "cancel", "tasks", "other"} \cup Opens03
      [] OTHER -> {"send"}

HttpRequest(d) ==
    CASE d.surface = "rest" -> RestRequest(d) [] d.surface = "mcp" -> McpRequest(d)
      [] d.surface = "a2a" -> MessageSend(d) [] d.surface = "v03" -> JsonRpcRequest(d, FALSE)
      [] d.surface = "v10" -> JsonRpcRequest(d, TRUE) [] d.surface = "v10rest" -> A2aRestRequest(d)
      [] OTHER -> OutboundSend(d)

Req(s, k, p, id, flaws) == [surface |-> s, kind |-> k, by |-> p, id |-> id, flaws |-> flaws]
\* The kinds that start, name or look up a task; for the others any id will do.
ByTask == {"send", "get", "subscribe", "cancel", "trace", "openStream", "openLink"}
AnyId == CHOOSE id \in TaskIds : TRUE
Endpoints == UNION {{s} \X HttpKinds(s) : s \in Surfaces}
Requests(who, ids, flaws) ==
    {Req(e[1], e[2], p, IF e[2] \in ByTask THEN id ELSE AnyId, flaws) : e \in Endpoints, p \in who, id \in ids}
Buckets == [b \in {"adapter", "tenant"} |-> 1]
HttpOutcome(d, lv) == Judge(HttpRequest(d), d, [level |-> lv])

(***************************************************************************)
(* Steps                                                                   *)
(***************************************************************************)
HttpCounted == steps < MaxHttp /\ steps' = steps + 1

\* AuditBuffer::push_entry: the oldest line makes room.
Pushed(entry) == IF Len(audit) = RingCap THEN Append(Tail(audit), entry) ELSE Append(audit, entry)
Line(trace, p) == [trace |-> trace, sub |-> p.sub, tenant |-> p.tenant]

\* A turn that becomes a task: the trace is new, and the task's id; which of
\* the unused ones it gets makes no difference.  It is on record even if the
\* dispatcher then denies the caller; a document that is only linked is not
\* dispatched and leaves no line.
FreshId(id) == records[id] = NoRecord /\ id = CHOOSE i \in TaskIds : records[i] = NoRecord
Serve(d) ==
    /\ HttpCounted /\ FreshId(d.id) /\ {"own", "record"} \cap HttpOutcome(d, Buckets).did # {}
    /\ audit' = IF d.kind = "openLink" THEN audit ELSE Pushed(Line(d.id, d.by))
    /\ records' = [records EXCEPT ![d.id] = [by |-> d.by, owned |-> "own" \in HttpOutcome(d, Buckets).did]]
    /\ UNCHANGED revoked

\* Any other dispatch leaves a line of a trace of its own.
Dispatch(d) ==
    /\ HttpCounted /\ LET o == HttpOutcome(d, Buckets) IN
       "turn" \in o.did /\ {"own", "record"} \cap o.did = {}
    /\ audit' = Pushed(Line("other", d.by)) /\ UNCHANGED <<records, revoked>>

HttpRevoke(p) ==
    /\ HttpCounted /\ p \notin revoked /\ revoked' = revoked \cup {p} /\ UNCHANGED <<records, audit>>

\* The ring is memory, the records may be on disk.
HttpRestart == HttpCounted /\ audit # <<>> /\ audit' = <<>> /\ UNCHANGED <<records, revoked>>

HttpNext ==
    \/ \E d \in Requests(Principals, TaskIds, {}) : Serve(d) \/ Dispatch(d)
    \/ \E p \in Principals : HttpRevoke(p)
    \/ HttpRestart

(***************************************************************************)
(* Properties: of every request that could arrive in the state.            *)
(***************************************************************************)
\* A task is shown only to the one who started it under the same issuer, to a
\* named operator, or, if it has no owner, to its own real tenant or subject;
\* nobody who was revoked is shown a task, a line or a trace, or runs anything;
\* and who is not verified leaves nothing behind, on whichever surface.
ReadersEntitled ==
    steps > 0 =>
        /\ \A d \in Requests(Principals, TaskIds, {}) :
             LET did == HttpOutcome(d, Buckets).did
                 task == records[d.id] IN
             /\ "task" \in did =>
                  \/ IsNamedOperator(d.by) \/ OwnerKey(d.by) = OwnerKey(task.by)
                  \/ /\ ~task.owned /\ d.by.tenant = task.by.tenant
                     /\ d.by.sub = task.by.sub \/ d.by.tenant \notin ReservedTenants
             /\ d.by \in revoked => did \cap {"task", "list", "audit", "bodies", "turn", "push"} = {}
        /\ \A f \in Unverified : \A d \in Requests({Nobody}, {AnyId}, {f}) : HttpOutcome(d, Buckets).did = {}
=============================================================================
