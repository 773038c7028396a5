-------------------------- MODULE TelegramInbound --------------------------
(***************************************************************************)
(* What the Telegram adapter does with one update, from the webhook or     *)
(* from the long poll.  The fields of a delivery d and of the adapter e    *)
(* are those of TeamsInbound; d.date is the date of the message a clicked  *)
(* button belongs to.  The state of a form is modelled by TelegramForms.   *)
(***************************************************************************)
EXTENDS Gates, Correlation

TelegramCap == 1           \* PLATFORM_MAX_CALLBACK_DATA, the smallest cap

TelegramFlaws == {"secret", "body", "sender", "noToken", "noDate", "gone"}
TelegramKinds == {"message", "empty", "click", "cancel", "answer", "last"}

\* from_manifest: each line is a reason it refuses to build the adapter.
TelegramIdentityConfig(cfg) ==
    IF cfg.identity = "upstream" THEN ParseResolver ELSE ParseTable

TelegramFromManifest(cfg) ==
    << Refuse("kind", 1, Anon), Refuse("signatureKind", 1, Anon),
       SupportedKind(cfg, {"table", "upstream"}), Refuse("secret", 1, Anon) >>
    \o TelegramIdentityConfig(cfg)
    \o << Refuse("outboundToken", 1, Anon), RefuseIf(RingRefused(cfg.keys), 1, Anon), Done(0) >>

\* resolve_sender and the tenant's share, in process_update and in
\* handle_callback_query alike.
TelegramSender(d, e) ==
    (IF e.cfg.identity = "upstream" THEN UpstreamResolve ELSE TableResolve)
    \o << Do("known"), Take(d.tenant, Sub) >>

\* dispatch_and_render: the answer is posted, not returned.
TelegramTurn == << Do("turn"), Do("post"), Done(200) >>

TelegramBinding(d) == Binding("telegram", d.tenant, d.by)
TelegramVerdict(d, e) ==
    DecodeBoundAny(d.token, e.ring, TelegramCap, TelegramBinding(d), e.now)

\* saturating_sub keeps the limit from passing below zero.
TelegramStale(d, e) == d.date < (IF e.now > CallbackTTL THEN e.now - CallbackTTL ELSE 0)

\* handle_callback_query: the token has no expiry of its own; the date of
\* the message it sits in is its freshness.
TelegramCallback(d, e) ==
    TelegramSender(d, e)
    \o << Refuse("noToken", 400, Sub), Refuse("noDate", 401, Sub),
          RefuseIf(TelegramStale(d, e), 401, Sub),
          RefuseIf(d.date > e.now + CallbackSkew, 401, Sub),
          RefuseIf(TelegramVerdict(d, e) # "ok", 401, Sub) >>
    \o TelegramTurn

\* handle_form_outcome: the last answer of a form is a turn of its own, with
\* the sender resolved again and told when that fails ("gone"); any other
\* answer, and /cancel, is only replied to.
TelegramForm(d) ==
    IF d.kind = "last" THEN << Do("form"), Refuse("gone", 200, Sub) >> \o TelegramTurn
    ELSE << Do("form"), Do("post"), Done(200) >>

\* process_update: a form that is active takes the text before any command.
TelegramUpdate(d, e) ==
    CASE d.kind = "click" -> TelegramCallback(d, e)
      [] d.kind = "empty" -> << Done(200) >>
      [] d.kind \in {"cancel", "answer", "last"} -> TelegramSender(d, e) \o TelegramForm(d)
      [] OTHER -> TelegramSender(d, e) \o TelegramTurn

\* handle_webhook
TelegramWebhook(d, e) ==
    << Refuse("secret", 401, Anon), Do("verified"), Take("adapter", Anon),
       Refuse("body", 400, Anon) >>
    \o TelegramUpdate(d, e)

\* long_poll_loop: the bot asked for the update, so there is no signature;
\* what its bucket refuses is audited and gone.
TelegramPolled(d, e) ==
    << Do("verified"), Take("adapter", Anon) >> \o TelegramUpdate(d, e)

TelegramRequest(d, e) == IF e.cfg.polled THEN TelegramPolled(d, e) ELSE TelegramWebhook(d, e)

\* telegram_status_for: what the platform should deliver again.
TelegramStatus(o, answer) ==
    IF "turn" \notin o.did THEN o.status
    ELSE CASE answer = "open" -> 503
           [] answer = "timeout" -> 504
           [] answer = "provider" -> 502
           [] answer = "limited" -> 429
           [] OTHER -> o.status

\* render_dispatch_result's buttons; a click answers the user who saw them.
TelegramCardToken(d, e, tool, args, size) ==
    EncodeBound(tool, args, Signing(e.ring), TelegramBinding(d), Never, size, TelegramCap)

\* send_message_body reads the Bot API's own error code: 429, a retry_after
\* and 5xx may be tried again, and so may a transport or a decoding error.
TelegramSend(p) ==
    CASE p = "ok" -> "posted" [] p = "refused" -> "dropped" [] OTHER -> "retry"

\* send_photo does the same for a picture.
TelegramSendPhoto(p) == TelegramSend(p)

\* post_back: an answer with a dashboard is a picture if the rasterizer draws
\* it ("chart"), and otherwise a text with a placeholder ("undrawn").
TelegramPostBack(answer, p) == IF answer = "chart" THEN TelegramSendPhoto(p) ELSE TelegramSend(p)

\* Mutant: a failed turn posts an apology.
TelegramReplyLineSorry(answer, p) == IF answer = "empty" THEN "dropped" ELSE TelegramSend(p)

\* What dispatch_and_render leaves behind: an empty answer is dropped, and an
\* error posts nothing.
TelegramReplyLine(answer, p) ==
    CASE answer \in {"text", "card", "chart", "undrawn"} -> TelegramPostBack(answer, p)
      [] answer = "empty" -> "dropped"
      [] OTHER -> "none"
=============================================================================
