------------------------- MODULE GoogleChatInbound -------------------------
(***************************************************************************)
(* What the Google Chat adapter does with one request.  A delivery and the *)
(* adapter's state have the fields described in TeamsInbound; cfg.identity *)
(* is "table", "upstream" or "enrol".  A turn that is handed to the        *)
(* courier goes on in GoogleCourier.                                       *)
(***************************************************************************)
EXTENDS Gates, Correlation, AgentRouting

GoogleCap == 3         \* CARD_CORRELATION_CAP
GoogleImageCap == 4    \* DASHBOARD_TOKEN_CAP, CONVERSATION_REF_CAP

GoogleFlaws == {"bearer", "jwt", "body", "noMessage", "noToken", "sender", "noSpace",
                "openArgs", "imgArgs", "noPng", "spec", "specSize", "raster", "noRef", "badRef"}
GoogleKinds == {"message", "empty", "click", "added", "other", "image"}

\* from_manifest: each line is a reason it refuses to build the adapter.
GoogleCredentials(cfg) ==
    << Refuse("kind", 1, Anon), Refuse("signatureKind", 1, Anon),
       SupportedKind(cfg, {"table", "enrol", "upstream"}),
       Refuse("audience", 1, Anon), Refuse("outboundToken", 1, Anon),
       RefuseIf(cfg.courier /\ ~cfg.outbound, 1, Anon),
       Refuse("accountKey", 1, Anon) >>

GoogleIdentityConfig(cfg) ==
    IF cfg.identity = "upstream" THEN ParseResolver ELSE ParseTable

GoogleFromManifest(cfg) ==
    GoogleCredentials(cfg) \o GoogleIdentityConfig(cfg)
    \o << RefuseIf(RingRefused(cfg.keys), 1, Anon), Done(0) >>

\* resolve_sender: the table, or the shape of the name alone; a self-enrolled
\* sender that the table does not name gets the pairing tenant.
GoogleResolveSender == TableResolve

\* The sender of any event: from the table, or by a dispatch to the resolver
\* tool; then the tenant's share.
GoogleSender(d, e) ==
    (IF e.cfg.identity = "upstream" THEN UpstreamResolve ELSE GoogleResolveSender)
    \o << Do("known"), Take(d.tenant, Sub) >>

GoogleBinding(d) == Binding("google_chat", d.tenant, d.by)
GoogleVerdict(d, e) == DecodeBoundAny(d.token, e.ring, GoogleCap, GoogleBinding(d), e.now)

\* A document dialog; it is rendered only with a skill and an id.
GoogleOpenDoc(d) ==
    (IF "openArgs" \in d.flaws THEN <<>> ELSE << Do("turn") >>)
    \o << Do("respond"), Done(200) >>

\* build_reply_message dispatches once more, for the theme.
GoogleRender == << Do("theme") >>

\* The turn runs inline and its answer is the response.
GoogleInline == << Do("turn") >> \o GoogleRender \o << Do("respond"), Done(200) >>

\* The courier takes the turn if the event names its space.
GoogleRun(d, e) ==
    IF e.cfg.courier /\ "noSpace" \notin d.flaws
    THEN << Do("turn"), Do("courier"), Done(200) >>
    ELSE GoogleInline

GoogleRoute(d, e) ==
    IF d.kind = "click" THEN ConfirmPick(d.token.args, "text", e.agents)
    ELSE Resolve(d.text, e.binding, e.default, e.agents)

\* Only a message and a chooser's click ask the router.
GoogleRouted(d, e) ==
    IF ~e.cfg.router \/ ~(d.kind = "message" \/ d.token.tool = "use") THEN GoogleRun(d, e)
    ELSE CASE GoogleRoute(d, e).to = "chooser" ->
             GoogleRender \o << Do("chooser"), Do("respond"), Done(200) >>
           [] GoogleRoute(d, e).to = "info" -> << Done(200) >>
           [] OTHER -> << Do("bind") >> \o GoogleRun(d, e)

\* card_token and form_inputs
GoogleExtract == Refuse("noToken", 400, Anon)

\* handle_webhook: who sends and how often, then the kinds of events.
GoogleVerified ==
    << Refuse("bearer", 401, Anon), Refuse("jwt", 401, Anon), Do("verified"),
       Take("adapter", Anon), Refuse("body", 400, Anon) >>

GoogleWebhook(d, e) ==
    GoogleVerified
    \o CASE d.kind \in {"empty", "other"} -> << Done(200) >>
         [] d.kind = "message" ->
              << Refuse("noMessage", 400, Anon) >> \o GoogleSender(d, e) \o GoogleRouted(d, e)
         [] d.kind = "click" ->
              << GoogleExtract >> \o GoogleSender(d, e)
              \o << RefuseIf(GoogleVerdict(d, e) # "ok", 401, Sub) >>
              \o (IF d.token.tool = "open" THEN GoogleOpenDoc(d) ELSE GoogleRouted(d, e))
         [] OTHER -> GoogleSender(d, e) \o GoogleRun(d, e)

\* serve_dashboard_png: a report is rendered by the upstream, a dashboard
\* here; unbound tokens that carry their expiry.
GoogleImage(d, e) ==
    << LeaveIf(DecodeWithCapAny(d.token, e.ring, GoogleImageCap) # "ok", 404),
       LeaveIf(d.token.tool \notin {"img", "dash"}, 404),
       LeaveIf(d.token.tool \in {"img", "dash"} /\ d.token.args.until < e.now, 410),
       Leave("imgArgs", 404) >>
    \o (IF d.token.tool = "img" THEN << Do("render"), Leave("noPng", 502), Done(200) >>
        ELSE << Leave("spec", 400), Leave("specSize", 400), Leave("raster", 500), Done(200) >>)

GoogleRequest(d, e) == IF d.kind = "image" THEN GoogleImage(d, e) ELSE GoogleWebhook(d, e)

\* build_reply_message signs each button for the user it is shown to.
GoogleCardToken(d, e, tool, args, size) ==
    EncodeBound(tool, args, Signing(e.ring), GoogleBinding(d), e.now + CardTTL, size, GoogleCap)

\* dashboard_image_url and report_image_url
GoogleImageToken(d, e, marker) ==
    EncodeWithCap(marker, [until |-> e.now + CardTTL, tenant |-> "-"], Signing(e.ring),
                  1, GoogleImageCap)

\* conversation_reference_json: only with the courier, and in a space.
GoogleReference(d, e) ==
    IF e.cfg.courier /\ "noSpace" \notin d.flaws
    THEN EncodeWithCap("ref", [tenant |-> d.tenant, user |-> d.by], Signing(e.ring),
                       1, GoogleImageCap)
    ELSE NoToken

\* The inline reply: an upstream error asks Google to deliver again.
GoogleStatus(o, answer) ==
    IF "respond" \in o.did /\ answer = "provider" THEN 502 ELSE o.status
GoogleReplyLine(o, answer) ==
    IF answer \in {"text", "card", "chart", "undrawn"} THEN "posted" ELSE "dropped"

\* open_sealed_reference: any key of the ring opens it.
GoogleOpenSealed(q, e) ==
    << Refuse("noRef", 403, Anon),
       RefuseIf(DecodeWithCapAny(q.token, e.ring, GoogleImageCap) # "ok", 403, Anon),
       RefuseIf(q.token.tool # "ref", 403, Anon),
       Refuse("badRef", 403, Anon) >>

\* Mutant: the caller's tenant is not compared with the reference's.
GoogleAuthorizeUnscoped(q, e) ==
    << RefuseIf(~e.cfg.courier, 403, Anon) >> \o GoogleOpenSealed(q, e)
    \o << RefuseIf(q.token.tool = "ref" /\ q.to \notin {"", q.token.args.user}, 403, Anon) >>

\* An agent's push: authorize.
GoogleAuthorize(q, e) ==
    << RefuseIf(~e.cfg.courier, 403, Anon) >> \o GoogleOpenSealed(q, e)
    \o << RefuseIf(q.token.tool = "ref" /\ q.token.args.tenant # q.tenant, 403, Anon),
          RefuseIf(q.token.tool = "ref" /\ q.to \notin {"", q.token.args.user}, 403, Anon) >>

\* deliver authorizes once more, renders and posts.
GooglePush(q, e) == GoogleAuthorize(q, e) \o GoogleRender \o << Do("push"), Done(200) >>
=============================================================================
