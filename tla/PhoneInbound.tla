---------------------------- MODULE PhoneInbound ----------------------------
(***************************************************************************)
(* The adapters whose sender is a phone: WhatsApp Cloud, the WhatsApp      *)
(* bridge, Twilio WhatsApp, Twilio RCS and Signal, and the e-mail courier, *)
(* which only pushes.  Each reads one text, and none reads a card's token. *)
(* The fields of a delivery and of the adapter are those of TeamsInbound.  *)
(***************************************************************************)
EXTENDS Gates, Correlation

CONSTANT ServiceWindow    \* SERVICE_WINDOW, the 24 hours after a user's message

PhoneFlaws == {"signature", "body", "sender", "prefix", "noUuid", "verifyToken"}
PhoneKinds == {"message", "empty", "other", "verify"}

(***************************************************************************)
(* The from_manifest of each.  The bridge and Signal are trusted sockets:  *)
(* they have an address where the others have secrets.  Twilio signs no    *)
(* card, so it has no keys.                                                *)
(***************************************************************************)
WhatsAppFromManifest(cfg) ==
    << Refuse("kind", 1, Anon), Refuse("signatureKind", 1, Anon),
       SupportedKind(cfg, {"table", "upstream"}),
       Refuse("secret", 1, Anon), Refuse("verifySecret", 1, Anon),
       Refuse("outboundToken", 1, Anon), Refuse("phoneNumberId", 1, Anon) >>
    \o (IF cfg.identity = "upstream" THEN ParseResolver ELSE ParseTable)
    \o << RefuseIf(RingRefused(cfg.keys), 1, Anon), Done(0) >>

SignalFromManifest(cfg) ==
    << Refuse("kind", 1, Anon), Refuse("signatureKind", 1, Anon),
       SupportedKind(cfg, {"table"}), Refuse("address", 1, Anon), Refuse("account", 1, Anon) >>
    \o ParseTable \o << RefuseIf(RingRefused(cfg.keys), 1, Anon), Done(0) >>

BridgeFromManifest(cfg) ==
    << Refuse("kind", 1, Anon), Refuse("inboundKind", 1, Anon), Refuse("outboundKind", 1, Anon),
       Refuse("signatureKind", 1, Anon), SupportedKind(cfg, {"table"}), Refuse("address", 1, Anon) >>
    \o ParseTable \o << RefuseIf(RingRefused(cfg.keys), 1, Anon), Done(0) >>

TwilioFromManifest(cfg) ==
    << Refuse("kind", 1, Anon), Refuse("signatureKind", 1, Anon),
       SupportedKind(cfg, {"table"}), Refuse("secret", 1, Anon), Refuse("outboundToken", 1, Anon),
       Refuse("accountSid", 1, Anon), Refuse("publicUrl", 1, Anon), Refuse("statusUrl", 1, Anon),
       Refuse("from", 1, Anon) >>
    \o ParseTable \o << Done(0) >>

RcsFromManifest(cfg) ==
    << Refuse("kind", 1, Anon), Refuse("signatureKind", 1, Anon),
       SupportedKind(cfg, {"table"}), Refuse("secret", 1, Anon), Refuse("outboundToken", 1, Anon),
       Refuse("accountSid", 1, Anon), Refuse("publicUrl", 1, Anon), Refuse("from", 1, Anon) >>
    \o ParseTable \o << Done(0) >>

EmailFromManifest(cfg) ==
    << Refuse("kind", 1, Anon), Refuse("outboundKind", 1, Anon), SupportedKind(cfg, {"table"}),
       Refuse("outboundToken", 1, Anon), Refuse("from", 1, Anon) >>
    \o ParseTable \o << Done(0) >>

(***************************************************************************)
(* A message                                                               *)
(***************************************************************************)
\* A turn whose answer is posted through the platform's API.
PhoneTurn == << Do("turn"), Do("post"), Done(200) >>

\* WhatsApp process_message: the service window opens for a known sender,
\* before the tenant's share is asked.
WhatsAppMessage(d, e) ==
    (IF e.cfg.identity = "upstream" THEN UpstreamResolve ELSE TableResolve)
    \o << Do("known"), Do("window"), Take(d.tenant, Sub) >>
    \o PhoneTurn

\* verify_hmac256
WhatsAppSignature == Refuse("signature", 401, Anon)

\* handle_verify: the handshake of a subscription.
WhatsAppVerify == << Refuse("verifyToken", 403, Anon), Done(200) >>

\* handle_webhook, for one message; the loop over the messages of a webhook,
\* which the first refusal leaves, is Redelivery's.
WhatsAppWebhook(d, e) ==
    << WhatsAppSignature, Do("verified"), Take("adapter", Anon),
       Refuse("body", 400, Anon), LeaveIf(d.kind # "message", 200) >>
    \o WhatsAppMessage(d, e)

WhatsAppRequest(d, e) == IF d.kind = "verify" THEN WhatsAppVerify ELSE WhatsAppWebhook(d, e)

\* The bridge's handle_message: nobody waits for a status.
BridgeRequest(d) ==
    << Do("verified"), LeaveIf(d.kind # "message", 200), Take("adapter", Anon) >>
    \o TableResolve \o << Do("known"), Take(d.tenant, Sub) >>
    \o PhoneTurn

\* signature::verify
TwilioSignature == Refuse("signature", 401, Anon)

\* process_message of Twilio's two adapters.
TwilioMessage(d) == TableResolve \o << Do("known"), Take(d.tenant, Sub) >> \o PhoneTurn
RcsMessage(d) == TwilioMessage(d)

\* handle_webhook: the body is parsed first, because its fields are what is
\* signed.
TwilioRequest(d) ==
    << Refuse("body", 400, Anon), TwilioSignature, Do("verified"),
       Take("adapter", Anon), LeaveIf(d.kind # "message", 200), Refuse("prefix", 400, Anon) >>
    \o TwilioMessage(d)
RcsRequest(d) ==
    << Refuse("body", 400, Anon), TwilioSignature, Do("verified"),
       Take("adapter", Anon), LeaveIf(d.kind # "message", 200), Refuse("prefix", 400, Anon) >>
    \o RcsMessage(d)

\* handle_status_callback: only a final status leaves a line.
TwilioStatus(d, e) ==
    << Refuse("body", 400, Anon), LeaveIf(~e.cfg.outbound, 404), TwilioSignature,
       Do("verified"), LeaveIf(d.kind # "message", 200), Do("receipt"), Done(200) >>

\* Signal's handle_event.
SignalRequest(d) ==
    << Do("verified"), LeaveIf(d.kind # "message", 200), Take("adapter", Anon),
       Refuse("noUuid", 400, Anon) >>
    \o TableResolve \o << Do("known"), Take(d.tenant, Sub) >>
    \o PhoneTurn

(***************************************************************************)
(* What is recorded of an answer                                           *)
(***************************************************************************)
\* send_message of WhatsApp Cloud and of Twilio: 429 and 5xx may be tried
\* again, so may a transport error; anything else was refused.
WhatsAppPostLine(p) ==
    CASE p = "ok" -> "posted" [] p = "refused" -> "dropped" [] OTHER -> "retry"
TwilioPostLine(p) ==
    CASE p = "ok" -> "posted" [] p = "refused" -> "dropped" [] OTHER -> "retry"

\* What is not text may have nothing to show; an error of the turn was
\* audited by the dispatcher.
Shown(answer) == answer \in {"text", "card", "chart", "undrawn"}
NotShown(answer) == IF answer = "empty" THEN "dropped" ELSE "none"

\* post_back of WhatsApp Cloud: a chart is uploaded first, and an upload that
\* fails is the end of it; one that cannot be drawn is a placeholder.
WhatsAppUploadLine(p) == WhatsAppPostLine(p)
WhatsAppReplyLine(answer, p) ==
    IF ~Shown(answer) THEN NotShown(answer)
    ELSE IF answer = "chart" /\ p # "ok" THEN WhatsAppUploadLine(p)
    ELSE WhatsAppPostLine(p)

TwilioReplyLine(answer, p) == IF Shown(answer) THEN TwilioPostLine(p) ELSE NotShown(answer)
RcsReplyLine(answer, p) == TwilioReplyLine(answer, p)

\* post_back of Signal: a body that cannot be encoded is dropped, a socket
\* that is gone or does not take it may come back.
SignalReplyLine(answer, p) ==
    IF ~Shown(answer) THEN NotShown(answer)
    ELSE CASE p = "ok" -> "posted" [] p = "refused" -> "dropped" [] OTHER -> "retry"

\* The bridge writes an empty answer too.
BridgeReplyLine(answer, p) ==
    CASE answer = "empty" \/ Shown(answer) -> IF p = "ok" THEN "posted" ELSE "retry"
      [] OTHER -> "none"

(***************************************************************************)
(* An agent's push                                                         *)
(***************************************************************************)
\* authorize: the recipient is a known sender of the caller's tenant.
TwilioAuthorize(q) ==
    << Refuse("sender", 403, Anon), RefuseIf(q.home # q.tenant, 403, Anon) >>
RcsAuthorize(q) == TwilioAuthorize(q)

\* WhatsApp Cloud: an upstream resolver answers for the recipient alone; the
\* caller's tenant only has to be there.
WhatsAppAuthorize(q, e) ==
    << RefuseIf(q.tenant = "", 403, Anon), Refuse("sender", 403, Anon) >>
    \o IF e.cfg.identity = "table" THEN << RefuseIf(q.home # q.tenant, 403, Anon) >> ELSE <<>>

\* Mutant: the window closes a tick late.
WindowOpenLate(stamped, now) == stamped # Never /\ now - stamped <= ServiceWindow

\* is_within_window
WindowOpen(stamped, now) == stamped # Never /\ now - stamped < ServiceWindow

\* deliver_template: a category that is known and configured.
WhatsAppTemplate == << Refuse("category", 400, Anon), Do("template"), Done(200) >>
TwilioTemplate == << Refuse("category", 400, Anon), Do("template"), Done(200) >>

\* outbound_mint_tenant: the buttons of a push are signed for the tenant of
\* the recipient, whom an upstream resolver is asked for once more.
WhatsAppMintTenant(e) == IF e.cfg.identity = "upstream" THEN << Do("resolve") >> ELSE <<>>

\* authorize, then deliver: a template, or free text within the service
\* window of its recipient.
WhatsAppPush(q, e) ==
    WhatsAppAuthorize(q, e)
    \o IF q.category # "none" THEN WhatsAppTemplate
       ELSE << RefuseIf(~WindowOpen(e.stamped, e.now), 400, Anon) >> \o WhatsAppMintTenant(e)
            \o << Refuse("empty", 400, Anon), Do("push"), Done(200) >>

\* Twilio keeps no window; its platform refuses.
TwilioPush(q) ==
    TwilioAuthorize(q)
    \o IF q.category # "none" THEN TwilioTemplate
       ELSE << Refuse("empty", 400, Anon), Do("push"), Done(200) >>

\* RCS has no templates: a category is not looked at.
RcsPush(q) == RcsAuthorize(q) \o << Refuse("empty", 400, Anon), Do("push"), Done(200) >>

\* The e-mail courier only pushes, and says when the API did not take it.
EmailAuthorize(q) ==
    << Refuse("sender", 403, Anon), RefuseIf(q.home # q.tenant, 403, Anon) >>
EmailPush(q) ==
    EmailAuthorize(q)
    \o << Refuse("empty", 400, Anon), Refuse("notSurface", 400, Anon), Do("push"),
          Leave("notTaken", 502), Done(200) >>
=============================================================================
