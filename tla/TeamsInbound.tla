---------------------------- MODULE TeamsInbound ----------------------------
(***************************************************************************)
(* What the Teams adapter does with one request: a webhook activity, a     *)
(* report image, an agent's push.  Each Rust handler is the list of its    *)
(* gates.  A delivery d has the fields kind, flaws, by, tenant, token,     *)
(* text and inputs; e is the adapter: level, ring, now, agents, binding,   *)
(* default and cfg = [identity, router, courier].                          *)
(* TeamsCourier takes over a turn that is handed to the courier.           *)
(***************************************************************************)
EXTENDS Gates, Correlation, AgentRouting

TeamsCap == 3          \* MSTEAMS_CORRELATION_CAP
TeamsRefCap == 4       \* CONVERSATION_REF_CAP

TeamsFlaws == {"bearer", "jwt", "body", "urlHost", "noUrl", "from", "channel", "family",
               "sender", "aad", "noTenant", "tenant", "conversation", "recipient",
               "noToken", "link", "skill", "imgArgs", "noPng", "noRef", "badRef"}
TeamsKinds == {"message", "submit", "execute", "fetch", "empty", "other", "image"}

\* from_manifest: each line is a reason it refuses to build the adapter.
TeamsCredentials(cfg) ==
    << Refuse("kind", 1, Anon), Refuse("signatureKind", 1, Anon), Refuse("outboundKind", 1, Anon),
       SupportedKind(cfg, {"table", "azure"}),
       Refuse("audience", 1, Anon), Refuse("clientId", 1, Anon),
       Refuse("twoCredentials", 1, Anon), Refuse("noCredential", 1, Anon),
       Refuse("federatedTenant", 1, Anon) >>

\* A channel whose sender ids the client chooses proves no sender.
TeamsChannels == << Refuse("noChannels", 1, Anon), Refuse("clientChosenChannel", 1, Anon) >>

\* Correlation tokens are bound to one tenant's users, hence exactly one.
TeamsIdentityConfig(cfg) ==
    IF cfg.identity = "table" THEN ParseTable \o TeamsChannels
    ELSE << Refuse("azureConfig", 1, Anon) >> \o TeamsChannels
         \o << Refuse("tenantsNotOne", 1, Anon) >>

\* outbound_token_client
TeamsTokenClient == << Refuse("tokenClient", 1, Anon) >>

TeamsFromManifest(cfg) ==
    TeamsCredentials(cfg) \o TeamsIdentityConfig(cfg)
    \o << RefuseIf(RingRefused(cfg.keys), 1, Anon), Refuse("inboundTenant", 1, Anon) >>
    \o TeamsTokenClient \o << Done(0) >>

(***************************************************************************)
(* The sender                                                              *)
(***************************************************************************)
\* A signed service URL outside its channel's family contradicts the channel.
TeamsFamily == Refuse("family", 401, Anon)

\* resolve_sender, in its two identity modes.
TeamsIdentity(e) ==
    IF e.cfg.identity = "azure"
    THEN << Refuse("aad", 401, Anon), Refuse("noTenant", 401, Sub), Refuse("tenant", 401, Sub) >>
    ELSE TableResolve

TeamsResolveSender(e) ==
    << Refuse("from", 400, Anon), Refuse("channel", 401, Anon), TeamsFamily >> \o TeamsIdentity(e)

\* attach_member_email: Entra senders only; cached or asked for, and a lookup
\* that fails stops nothing.
TeamsMember(e) == IF e.cfg.identity = "azure" THEN << Do("email") >> ELSE <<>>

\* What every kind of activity begins with; check_tenant_limit comes last.
TeamsAdmit(d, e) ==
    TeamsResolveSender(e) \o TeamsMember(e) \o << Do("known"), Take(d.tenant, Sub) >>

\* convo_and_recipient
TeamsConversation == << Refuse("conversation", 400, Sub), Refuse("recipient", 400, Sub) >>

(***************************************************************************)
(* A turn                                                                  *)
(***************************************************************************)
\* Two dispatches a card costs besides the turn's own: fetch_chrome asks for
\* the theme, report_vega_chart for the chart of a report.
TeamsChrome == << Do("theme") >>
TeamsChart == << Do("chart") >>

\* build_reply_body
TeamsRender == TeamsChrome \o TeamsChart

\* dispatch_and_post_reply: the courier takes the turn, or it runs inline and
\* its answer is posted.
TeamsPostReply(e) ==
    IF e.cfg.courier THEN << Do("turn"), Do("courier"), Done(200) >>
    ELSE << Do("turn") >> \o TeamsRender \o << Do("post"), Done(200) >>

\* dispatch_and_refresh_card: the answer is the response of the click.
TeamsRefreshCard == << Do("turn") >> \o TeamsRender \o << Do("respond"), Done(200) >>

TeamsRoute(d, e) == Resolve(d.text, e.binding, e.default, e.agents)

\* What the router's answer makes of a message.
TeamsRouted(d, e) ==
    IF TeamsRoute(d, e).to = "chooser" THEN
        TeamsChrome \o << Do("chooser"), Do("notice"), Done(200) >>
    ELSE IF TeamsRoute(d, e).to = "info" THEN << Do("notice"), Done(200) >>
    ELSE IF TeamsRoute(d, e).text = "" THEN << Do("bind"), Do("notice"), Done(200) >>
    ELSE << Do("bind") >> \o TeamsPostReply(e)

\* dispatch_message
TeamsDispatchMessage(d, e) ==
    TeamsAdmit(d, e) \o TeamsConversation
    \o IF e.cfg.router THEN TeamsRouted(d, e) ELSE TeamsPostReply(e)

(***************************************************************************)
(* A click                                                                 *)
(***************************************************************************)
TeamsBinding(d) == Binding("msteams", d.tenant, d.by)
TeamsVerdict(d, e) == DecodeBoundAny(d.token, e.ring, TeamsCap, TeamsBinding(d), e.now)

\* The end of handle_callback.  An Execute without a conversation is audited
\* and still answered inline.
TeamsRunClick(d, e) ==
    IF d.kind = "submit" THEN TeamsConversation \o TeamsPostReply(e)
    ELSE IF ~e.cfg.courier THEN TeamsRefreshCard
    ELSE IF d.flaws \cap {"conversation", "recipient"} # {}
    THEN << Do("line") >> \o TeamsRefreshCard
    ELSE << Do("turn"), Do("courier"), Done(200) >>

\* route_typed_text asks the router as for a typed message, but shows no
\* chooser.
TeamsTyped(d, e) ==
    IF ~e.cfg.router THEN <<>>
    ELSE << LeaveIf(TeamsRoute(d, e).to # "agent", 200), Do("bind") >>

\* A card that sends a text.
TeamsSendText(d, e) ==
    << LeaveIf(ResolveMessage(d.token.args, d.inputs) # "ok", 200) >>
    \o TeamsTyped(d, e) \o TeamsRunClick(d, e)

\* A click on the chooser.
TeamsPick(d, e) ==
    << LeaveIf(ConfirmPick(d.token.args, "text", e.agents).to # "agent", 200), Do("bind") >>
    \o TeamsRunClick(d, e)

\* extract_callback: the token and the inputs of the form it sits in.
TeamsExtract == Refuse("noToken", 400, Sub)

\* handle_callback
TeamsCallback(d, e) ==
    TeamsAdmit(d, e)
    \o << TeamsExtract, RefuseIf(TeamsVerdict(d, e) # "ok", 401, Sub) >>
    \o CASE d.token.tool = "refresh" -> << Do("refresh"), Done(200) >>
         [] d.token.tool = "send" -> TeamsSendText(d, e)
         [] d.token.tool = "use" /\ e.cfg.router -> TeamsPick(d, e)
         [] OTHER -> TeamsRunClick(d, e)

\* handle_task_fetch: the dialog behind a card's button.
TeamsTaskFetch(d, e) ==
    TeamsAdmit(d, e)
    \o << Leave("noToken", 400), RefuseIf(TeamsVerdict(d, e) # "ok", 401, Sub) >>
    \o (IF d.token.tool = "embed" THEN << Leave("link", 400), Done(200) >>
        ELSE << LeaveIf(d.token.tool # "open", 400), Leave("skill", 400),
                Do("turn"), Do("respond"), Done(200) >>)

\* serve_report_png: an unbound token with its own expiry; no rate limit.
TeamsImage(d, e) ==
    << LeaveIf(DecodeWithCapAny(d.token, e.ring, TeamsRefCap) # "ok", 401),
       LeaveIf(d.token.tool # "img", 401),
       LeaveIf(d.token.tool = "img" /\ d.token.args.until < e.now, 410),
       Leave("imgArgs", 401), Do("render"), Leave("noPng", 502), Done(200) >>

\* handle_webhook: who sends, how often, and where the answer may go.
TeamsVerified ==
    << Refuse("bearer", 401, Anon), Refuse("jwt", 401, Anon), Do("verified"),
       Take("adapter", Anon), Refuse("body", 400, Anon),
       Refuse("urlHost", 401, Anon), Refuse("noUrl", 400, Anon) >>

TeamsWebhook(d, e) ==
    TeamsVerified
    \o CASE d.kind \in {"execute", "submit"} -> TeamsCallback(d, e)
         [] d.kind = "fetch" -> TeamsTaskFetch(d, e)
         [] d.kind = "message" -> TeamsDispatchMessage(d, e)
         [] OTHER -> << Done(200) >>

TeamsRequest(d, e) == IF d.kind = "image" THEN TeamsImage(d, e) ELSE TeamsWebhook(d, e)

(***************************************************************************)
(* What a turn leaves behind                                               *)
(***************************************************************************)
\* render_card_content signs each button for the user it is shown to.
TeamsCardToken(d, e, tool, args, size) ==
    EncodeBound(tool, args, Signing(e.ring), TeamsBinding(d), e.now + CardTTL, size, TeamsCap)

\* report_image_url
TeamsImageToken(d, e) ==
    EncodeWithCap("img", [until |-> e.now + CardTTL, tenant |-> d.tenant], Signing(e.ring),
                  1, TeamsRefCap)

\* conversation_reference_json: what an agent may later push to.
TeamsReference(d, e) ==
    EncodeWithCap("ref", [tenant |-> d.tenant, user |-> d.by], Signing(e.ring), 1, TeamsRefCap)

\* post_reply: what is recorded of the connector's answer.
TeamsPostLine(p) ==
    CASE p = "ok" -> "posted" [] p = "refused" -> "dropped" [] OTHER -> "retry"

\* An error of the turn was audited by the dispatcher and posts nothing; the
\* response of a click is posted by definition.
TeamsReplyLine(o, answer, p) ==
    IF answer = "error" THEN "none"
    ELSE IF "respond" \in o.did THEN "posted"
    ELSE TeamsPostLine(p)

(***************************************************************************)
(* An agent's push.  A push q has the caller's tenant, the addressee `to`  *)
(* ("" for none) and the sealed reference.                                 *)
(***************************************************************************)
\* open_sealed_reference: the signing key alone opens it.
TeamsOpenSealed(q, e) ==
    << Refuse("noRef", 400, Anon),
       RefuseIf(DecodeWithCap(q.token, Signing(e.ring), TeamsRefCap) # "ok", 403, Anon),
       RefuseIf(q.token.tool # "ref", 403, Anon),
       Refuse("badRef", 400, Anon) >>

\* authorize
TeamsAuthorize(q, e) ==
    TeamsOpenSealed(q, e)
    \o << RefuseIf(q.token.tool = "ref" /\ q.token.args.tenant # q.tenant, 403, Anon),
          RefuseIf(q.token.tool = "ref" /\ q.to \notin {"", q.token.args.user}, 403, Anon) >>

\* deliver authorizes once more, renders and posts.
TeamsPush(q, e) == TeamsAuthorize(q, e) \o TeamsRender \o << Do("push"), Done(200) >>
=============================================================================
